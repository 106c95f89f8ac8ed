------------------------- MODULE AgentUpdateProofs -------------------------
(***************************************************************************)
(* Theorems about AgentUpdate, for any set of updates and PATCH requests.  *)
(***************************************************************************)
EXTENDS AgentUpdate, TLAPS

\* The variables of AgentUpdate keep their types.
LEMMA TypeCorrect == Spec => []TypeOK
<1>1. Init => TypeOK
  <2> SUFFICES ASSUME Init PROVE TypeOK
    OBVIOUS
  <2>1. updating \in BOOLEAN /\ redelivered \in Nat
    BY DEF Init
  <2>2. /\ file \in [Update -> {"none", "stored", "deleted"}]
        /\ task \in [Update -> TaskStage]
        /\ editor \in [Editor -> {"idle", "read", "written"}]
    BY DEF Init, TaskStage
  <2>3. seen \in [Editor -> BOOLEAN]
    BY Zenon DEF Init
  <2>4. QED
    BY <2>1, <2>2, <2>3 DEF TypeOK
<1>2. TypeOK /\ [Next]_vars => TypeOK'
  <2> SUFFICES ASSUME TypeOK, [Next]_vars PROVE TypeOK'
    OBVIOUS
  <2> USE DEF TypeOK, TaskStage, Move
  <2>1. ASSUME NEW u \in Update, Accept(u) PROVE TypeOK'
    BY <2>1 DEF Accept
  <2>2. ASSUME NEW u \in Update, TaskStep(u) PROVE TypeOK'
    BY <2>2 DEF TaskStep, Publish, StartUpdate, MissUpdateFile, SaveStatus, ClearUpdating,
                Acknowledge
  <2>3. ASSUME NEW u \in Update, FailToPublish(u) PROVE TypeOK'
    BY <2>3 DEF FailToPublish
  <2>4. ASSUME NEW u \in Update, DeleteUpdateFile(u) PROVE TypeOK'
    BY <2>4 DEF DeleteUpdateFile
  <2>5. ASSUME NEW u \in Update, Redeliver(u) PROVE TypeOK'
    BY <2>5 DEF Redeliver
  <2>6. ASSUME NEW e \in Editor, ReadAgent(e) PROVE TypeOK'
    BY <2>6 DEF ReadAgent
  <2>7. ASSUME NEW e \in Editor, WriteAgent(e) PROVE TypeOK'
    BY <2>7 DEF WriteAgent
  <2>8. CASE UNCHANGED vars
    BY <2>8 DEF vars
  <2>9. QED
    BY <2>1, <2>2, <2>3, <2>4, <2>5, <2>6, <2>7, <2>8 DEF Next
<1>3. QED
  BY <1>1, <1>2, PTL DEF Spec

-----------------------------------------------------------------------------
(* A flag that is set has a reason *)

\* The flag is set for an update under way or because a PATCH wrote it.
FlagHasReason ==
    updating => \/ \E u \in Update : u \in UnderWay
                \/ \E e \in Editor : editor[e] = "written" /\ seen[e]

\* Every step keeps it.
LEMMA FlagAlwaysHasReason == Spec => []FlagHasReason
<1>1. Init => FlagHasReason
  BY DEF Init, FlagHasReason
<1>2. TypeOK /\ FlagHasReason /\ [Next]_vars => FlagHasReason'
  <2> SUFFICES ASSUME TypeOK, FlagHasReason, [Next]_vars PROVE FlagHasReason'
    OBVIOUS
  <2> USE DEF TypeOK, FlagHasReason, UnderWay, Move
  <2>1. ASSUME NEW u \in Update, Accept(u) PROVE FlagHasReason'
    BY <2>1 DEF Accept
  <2>2. ASSUME NEW u \in Update, TaskStep(u) PROVE FlagHasReason'
    <3>1. CASE ClearUpdating(u)
      BY <3>1 DEF ClearUpdating
    <3>2. CASE Publish(u) \/ StartUpdate(u) \/ MissUpdateFile(u) \/ SaveStatus(u)
      BY <3>2 DEF Publish, StartUpdate, MissUpdateFile, SaveStatus
    <3>3. CASE Acknowledge(u)
      BY <3>3 DEF Acknowledge
    <3>4. QED
      BY <2>2, <3>1, <3>2, <3>3 DEF TaskStep
  <2>3. ASSUME NEW u \in Update, FailToPublish(u) PROVE FlagHasReason'
    BY <2>3 DEF FailToPublish
  <2>4. ASSUME NEW u \in Update, DeleteUpdateFile(u) PROVE FlagHasReason'
    BY <2>4 DEF DeleteUpdateFile
  <2>5. ASSUME NEW u \in Update, Redeliver(u) PROVE FlagHasReason'
    BY <2>5 DEF Redeliver
  <2>6. ASSUME NEW e \in Editor, ReadAgent(e) PROVE FlagHasReason'
    BY <2>6 DEF ReadAgent
  <2>7. ASSUME NEW e \in Editor, WriteAgent(e) PROVE FlagHasReason'
    BY <2>7 DEF WriteAgent
  <2>8. CASE UNCHANGED vars
    BY <2>8 DEF vars
  <2>9. QED
    BY <2>1, <2>2, <2>3, <2>4, <2>5, <2>6, <2>7, <2>8 DEF Next
<1>3. QED
  BY <1>1, <1>2, TypeCorrect, PTL DEF Spec

\* Whatever fails, is deleted, PATCHed or run again, an agent that is left in
\* update process has one of the three causes StuckFlagHasCause names.
THEOREM FlagStuckOnlyWithCause == Spec => []StuckFlagHasCause
<1>1. FlagHasReason => StuckFlagHasCause
  BY DEF FlagHasReason, StuckFlagHasCause, AtRest, UnderWay, LeftSet
<1>2. QED
  BY <1>1, FlagAlwaysHasReason, PTL

-----------------------------------------------------------------------------
(* Until a PATCH or a redelivery disturbs it the flag is a lock *)

\* The flag covers every update under way, and there is at most one.
Exclusive ==
    Undisturbed =>
        /\ \A u \in Update : u \in UnderWay => updating
        /\ \A u, v \in Update : u \in UnderWay /\ v \in UnderWay => u = v

\* Every step keeps it, or disturbs the flag.
LEMMA ExclusiveStep ==
    ASSUME TypeOK, Exclusive, [Next]_vars
    PROVE  Exclusive'
<1> USE DEF TypeOK, Exclusive, Undisturbed, UnderWay, Move
<1>1. ASSUME NEW u \in Update, Accept(u) PROVE Exclusive'
  BY <1>1 DEF Accept
<1>2. ASSUME NEW u \in Update, TaskStep(u) PROVE Exclusive'
  <2>1. CASE ClearUpdating(u)
    BY <2>1 DEF ClearUpdating
  <2>2. CASE Publish(u) \/ StartUpdate(u) \/ MissUpdateFile(u) \/ SaveStatus(u)
    BY <2>2 DEF Publish, StartUpdate, MissUpdateFile, SaveStatus
  <2>3. CASE Acknowledge(u)
    BY <2>3 DEF Acknowledge
  <2>4. QED
    BY <1>2, <2>1, <2>2, <2>3 DEF TaskStep
<1>3. ASSUME NEW u \in Update, FailToPublish(u) PROVE Exclusive'
  BY <1>3 DEF FailToPublish
<1>4. ASSUME NEW u \in Update, DeleteUpdateFile(u) PROVE Exclusive'
  BY <1>4 DEF DeleteUpdateFile
<1>5. ASSUME NEW u \in Update, Redeliver(u) PROVE Exclusive'
  BY <1>5 DEF Redeliver
<1>6. ASSUME NEW e \in Editor, ReadAgent(e) PROVE Exclusive'
  BY <1>6 DEF ReadAgent
<1>7. ASSUME NEW e \in Editor, WriteAgent(e) PROVE Exclusive'
  BY <1>7 DEF WriteAgent
<1>8. CASE UNCHANGED vars
  BY <1>8 DEF vars
<1>9. QED
  BY <1>1, <1>2, <1>3, <1>4, <1>5, <1>6, <1>7, <1>8 DEF Next

\* So it holds in every state.
LEMMA AlwaysExclusive == Spec => []Exclusive
<1>1. Init => Exclusive
  BY DEF Init, Exclusive, UnderWay
<1>2. TypeOK /\ Exclusive /\ [Next]_vars => Exclusive'
  BY ExclusiveStep
<1>3. QED
  BY <1>1, <1>2, TypeCorrect, PTL DEF Spec

\* Until somebody PATCHes the agent or a worker is lost, two updates of it are
\* never run at the same time.
THEOREM UpdatesExclude == Spec => [](Undisturbed => OneUpdateAtATime)
<1>1. Exclusive => (Undisturbed => OneUpdateAtATime)
  BY DEF Exclusive, OneUpdateAtATime, UnderWay
<1>2. QED
  BY <1>1, AlwaysExclusive, PTL

\* Every step of the views and of perform_update is a step of OneAtATime or
\* changes nothing it sees, and a PATCH or a redelivery makes it void.
THEOREM UpdatesAreOneAtATime == Spec => ImplementsOneAtATime
<1> USE DEF UnderWay, Move, Abstract!vars
<1>1. Init => Abstract!Init
  BY DEF Init, Abstract!Init, Undisturbed
<1>2. TypeOK /\ Exclusive /\ [Next]_vars => [Abstract!Next]_(Abstract!vars)
  <2> SUFFICES ASSUME TypeOK, Exclusive, [Next]_vars
               PROVE  [Abstract!Next]_(Abstract!vars)
    OBVIOUS
  <2> USE DEF TypeOK
  <2>1. CASE ~Undisturbed'
    BY <2>1 DEF Abstract!Next, Abstract!Breach
  <2>2. CASE Undisturbed' /\ Undisturbed
    <3>1. ASSUME NEW u \in Update, Accept(u) PROVE Abstract!Next
      <4>1. Abstract!Accept(u)
        BY <2>2, <3>1 DEF Accept, Abstract!Accept, Exclusive, Undisturbed
      <4>2. QED
        BY <4>1 DEF Abstract!Next
    <3>2. ASSUME NEW u \in Update, ClearUpdating(u) PROVE Abstract!Next
      <4>1. Abstract!Finish(u)
        BY <2>2, <3>2 DEF ClearUpdating, Abstract!Finish, Exclusive, Undisturbed
      <4>2. QED
        BY <4>1 DEF Abstract!Next
    <3>3. ASSUME NEW u \in Update,
                 Publish(u) \/ StartUpdate(u) \/ MissUpdateFile(u) \/ SaveStatus(u)
                   \/ FailToPublish(u)
          PROVE  UNCHANGED Abstract!vars
      BY <2>2, <3>3 DEF Publish, StartUpdate, MissUpdateFile, SaveStatus, FailToPublish
    <3>4. ASSUME NEW u \in Update, Acknowledge(u) PROVE UNCHANGED Abstract!vars
      BY <2>2, <3>4 DEF Acknowledge
    <3>5. ASSUME NEW u \in Update, DeleteUpdateFile(u) PROVE UNCHANGED Abstract!vars
      BY <2>2, <3>5 DEF DeleteUpdateFile
    <3>6. ASSUME NEW u \in Update, Redeliver(u) PROVE FALSE
      BY <2>2, <3>6 DEF Redeliver, Undisturbed
    <3>7. ASSUME NEW e \in Editor, ReadAgent(e) PROVE UNCHANGED Abstract!vars
      BY <2>2, <3>7 DEF ReadAgent
    <3>8. ASSUME NEW e \in Editor, WriteAgent(e) PROVE FALSE
      BY <2>2, <3>8 DEF WriteAgent, Undisturbed
    <3>9. CASE UNCHANGED vars
      BY <2>2, <3>9 DEF vars
    <3>10. QED
      BY <3>1, <3>2, <3>3, <3>4, <3>5, <3>6, <3>7, <3>8, <3>9 DEF Next, TaskStep
  <2>3. CASE Undisturbed' /\ ~Undisturbed
    <3>1. \/ UNCHANGED <<redelivered, editor>>
          \/ redelivered' = redelivered + 1
          \/ \E e \in Editor : ReadAgent(e) \/ WriteAgent(e)
      BY DEF Next, TaskStep, Accept, Publish, StartUpdate, MissUpdateFile, SaveStatus,
             ClearUpdating, Acknowledge, FailToPublish, DeleteUpdateFile, Redeliver, vars
    <3>2. QED
      BY <2>3, <3>1 DEF Undisturbed, ReadAgent, WriteAgent
  <2>4. QED
    BY <2>1, <2>2, <2>3
<1>3. QED
  BY <1>1, <1>2, TypeCorrect, AlwaysExclusive, PTL DEF Spec, ImplementsOneAtATime, Abstract!Spec
=============================================================================
