------------------------- MODULE StatusPollerProofs -------------------------
(***************************************************************************)
(* Proofs about StatusPoller, for any agents and any PATCH requests: the   *)
(* types, and that a status on an inactive agent came from the poller.     *)
(***************************************************************************)
EXTENDS StatusPoller, TLAPS

(* Types *)

\* Initially every variable has its type.
LEMMA PollInitTypes == PollInit => PollTypeOK
BY DEF PollInit, PollTypeOK, Measure, NoForm

\* A step of the poller keeps the types.
LEMMA PollerKeepsTypes == PollTypeOK /\ PollStep => PollTypeOK'
<1> SUFFICES ASSUME PollTypeOK, PollStep PROVE PollTypeOK'
    OBVIOUS
<1> USE DEF PollTypeOK
<1>1. CASE StartPoller
    BY <1>1 DEF StartPoller
<1>2. CASE StartPass
    BY <1>2 DEF StartPass
<1>3. CASE EndPass
    BY <1>3 DEF EndPass
<1>4. ASSUME NEW a \in Polled, AskAgent(a) PROVE PollTypeOK'
    BY <1>4 DEF AskAgent
<1>5. ASSUME NEW a \in Polled, GetAnswer(a) PROVE PollTypeOK'
    BY <1>5 DEF GetAnswer, Remaining
<1>6. ASSUME NEW a \in Polled, WriteStatus(a) PROVE PollTypeOK'
    BY <1>6 DEF WriteStatus
<1> QED
    BY <1>1, <1>2, <1>3, <1>4, <1>5, <1>6 DEF PollStep

\* A change of a host, a deletion and a PATCH keep the types.
LEMMA OthersKeepTypes ==
    ASSUME PollTypeOK, NEW a \in Polled, NEW e \in Form, NEW given \in {{}, {TRUE}, {FALSE}},
           \/ ChangeHost(a) \/ DeleteAgent(a) \/ ReadForm(e, a) \/ SaveForm(e, given)
    PROVE  PollTypeOK'
<1> USE DEF PollTypeOK, pollerVars
<1>1. CASE ChangeHost(a)
    BY <1>1 DEF ChangeHost
<1>2. CASE DeleteAgent(a)
    BY <1>2 DEF DeleteAgent
<1>3. CASE ReadForm(e, a)
  <2>1. [stage |-> "read", agent |-> {a}, active |-> row[a] = "active", status |-> status[a]]
            \in [stage : {"idle", "read"}, agent : SUBSET Polled, active : BOOLEAN,
                 status : {"none", "set"}]
    OBVIOUS
  <2> QED
    BY <1>3, <2>1 DEF ReadForm
<1>4. CASE SaveForm(e, given)
  <2>1. NoForm \in [stage : {"idle", "read"}, agent : SUBSET Polled, active : BOOLEAN,
                    status : {"none", "set"}]
    BY DEF NoForm
  <2>2. PICK b \in form[e].agent :
            /\ row' = [row EXCEPT ![b] = IF TRUE \in given \/ (given = {} /\ form[e].active)
                                         THEN "active" ELSE "inactive"]
            /\ status' = [status EXCEPT ![b] = FormStatus(e, given)]
            /\ late' = IF given = {FALSE} /\ ~\E o \in Form \ {e} : HoldsLate(o, b)
                       THEN late \ {b} ELSE late
    BY <1>4 DEF SaveForm
  <2>3. FormStatus(e, given) \in {"none", "set"}
    BY DEF FormStatus
  <2> QED
    BY <1>4, <2>1, <2>2, <2>3 DEF SaveForm
<1> QED
    BY <1>1, <1>2, <1>3, <1>4

\* Every variable of the poller, the agents and the PATCH requests keeps its type.
THEOREM PollTypeCorrect == PollSpec => []PollTypeOK
<1>1. PollTypeOK /\ [PollNext]_pollVars => PollTypeOK'
  <2> SUFFICES ASSUME PollTypeOK, [PollNext]_pollVars PROVE PollTypeOK'
    OBVIOUS
  <2>1. CASE PollStep
    BY <2>1, PollerKeepsTypes
  <2>2. ASSUME NEW a \in Polled, ChangeHost(a) \/ DeleteAgent(a) PROVE PollTypeOK'
    <3>1. CASE ChangeHost(a)
      BY <3>1 DEF ChangeHost, PollTypeOK, pollerVars
    <3>2. CASE DeleteAgent(a)
      BY <3>2 DEF DeleteAgent, PollTypeOK, pollerVars
    <3> QED
      BY <2>2, <3>1, <3>2
  <2>3. ASSUME NEW e \in Form, NEW a \in Polled, ReadForm(e, a) PROVE PollTypeOK'
    BY <2>3, OthersKeepTypes
  <2>4. ASSUME NEW e \in Form, NEW given \in {{}, {TRUE}, {FALSE}}, SaveForm(e, given)
        PROVE PollTypeOK'
    <3>1. PICK b \in form[e].agent : TRUE
      BY <2>4 DEF SaveForm
    <3>2. b \in Polled
      BY <3>1 DEF PollTypeOK
    <3> QED
      BY <2>4, <3>2, OthersKeepTypes
  <2>5. CASE UNCHANGED pollVars
    BY <2>5 DEF PollTypeOK, pollVars, pollerVars
  <2> QED
    BY <2>1, <2>2, <2>3, <2>4, <2>5 DEF PollNext
<1> QED
    BY <1>1, PollInitTypes, PTL DEF PollSpec

-----------------------------------------------------------------------------
(* The status of inactive agents *)

\* A PATCH under way that would write a status to an inactive agent has read it there.
FormsHoldLate == \A e \in Form, a \in Polled : HoldsLate(e, a) => a \in late

\* A PATCH is on one agent.
FormsOfOne == \A e \in Form : \A a, b \in form[e].agent : a = b

StatusInv == InactiveHaveNone /\ FormsHoldLate /\ FormsOfOne

\* A step of the poller leaves a status on an inactive agent only as a late one.
LEMMA PollerKeepsStatusInv == PollTypeOK /\ StatusInv /\ PollStep => StatusInv'
<1> SUFFICES ASSUME PollTypeOK, StatusInv, PollStep PROVE StatusInv'
    OBVIOUS
<1> USE DEF StatusInv, InactiveHaveNone, FormsHoldLate, FormsOfOne, HoldsLate
<1>1. CASE StartPoller \/ StartPass \/ EndPass
    BY <1>1 DEF StartPoller, StartPass, EndPass
<1>2. ASSUME NEW a \in Polled, AskAgent(a) \/ GetAnswer(a) PROVE StatusInv'
    BY <1>2 DEF AskAgent, GetAnswer
<1>3. ASSUME NEW a \in Polled, WriteStatus(a) PROVE StatusInv'
  <2>1. \A b \in Polled : b # a => status'[b] = status[b]
    BY <1>3 DEF WriteStatus, PollTypeOK
  <2>2. row[a] = "inactive" => a \in late'
    BY <1>3 DEF WriteStatus
  <2>3. late \subseteq late' /\ row' = row /\ form' = form
    BY <1>3 DEF WriteStatus
  <2> QED
    BY <2>1, <2>2, <2>3
<1> QED
    BY <1>1, <1>2, <1>3 DEF PollStep

\* A PATCH that is read takes a status from an inactive agent only if it is a late one.
LEMMA ReadKeepsStatusInv ==
    ASSUME PollTypeOK, StatusInv, NEW e \in Form, NEW a \in Polled, ReadForm(e, a)
    PROVE  StatusInv'
<1> USE DEF StatusInv, InactiveHaveNone, FormsHoldLate, FormsOfOne, HoldsLate
<1>1. row' = row /\ status' = status /\ late' = late
    BY DEF ReadForm
<1>2. form'[e] = [stage |-> "read", agent |-> {a}, active |-> row[a] = "active",
                  status |-> status[a]]
    BY DEF ReadForm, PollTypeOK
<1>3. \A o \in Form : o # e => form'[o] = form[o]
    BY DEF ReadForm, PollTypeOK
<1>4. row[a] # "active" => row[a] = "inactive"
    BY DEF ReadForm, PollTypeOK
<1>5. ASSUME NEW b \in Polled, HoldsLate(e, b)' PROVE b \in late
  <2>1. {a} = {b} /\ status[a] # "none"
    BY <1>2, <1>5
  <2>2. form'[e].active = (row[a] = "active")
    BY <1>2
  <2>3. row[a] # "active"
    BY <1>5, <2>2
  <2>4. a = b
    BY <2>1
  <2> QED
    BY <1>4, <2>1, <2>3, <2>4
<1>6. FormsOfOne'
  BY <1>2, <1>3 DEF FormsOfOne
<1>7. FormsHoldLate'
  BY <1>1, <1>3, <1>5
<1> QED
  BY <1>1, <1>6, <1>7

\* A PATCH that is saved writes a status to an inactive agent only if it was late, and
\* does away with a late one only if no other PATCH holds it.
LEMMA SaveKeepsStatusInv ==
    ASSUME PollTypeOK, StatusInv, NEW e \in Form, NEW given \in {{}, {TRUE}, {FALSE}},
           SaveForm(e, given)
    PROVE  StatusInv'
<1> USE DEF StatusInv
<1>1. PICK b \in form[e].agent :
          /\ row' = [row EXCEPT ![b] = IF TRUE \in given \/ (given = {} /\ form[e].active)
                                       THEN "active" ELSE "inactive"]
          /\ status' = [status EXCEPT ![b] = FormStatus(e, given)]
          /\ late' = IF given = {FALSE} /\ ~\E o \in Form \ {e} : HoldsLate(o, b)
                     THEN late \ {b} ELSE late
    BY DEF SaveForm
<1>2. b \in Polled
    BY <1>1 DEF PollTypeOK
<1>3. form'[e] = NoForm /\ \A o \in Form : o # e => form'[o] = form[o]
    BY DEF SaveForm, PollTypeOK
<1>4. \A o \in Form, a \in Polled : HoldsLate(o, a)' => o # e /\ HoldsLate(o, a)
  BY <1>3 DEF HoldsLate, NoForm
<1>5. FormsOfOne'
  BY <1>3 DEF FormsOfOne, NoForm
<1>6. \A a \in Polled : a # b => (a \in late' <=> a \in late) /\ row'[a] = row[a]
                                 /\ status'[a] = status[a]
  BY <1>1 DEF PollTypeOK
<1>7. CASE given = {FALSE} /\ ~\E o \in Form \ {e} : HoldsLate(o, b)
  <2>1. status'[b] = "none"
    BY <1>1, <1>2, <1>7 DEF FormStatus, PollTypeOK
  <2>2. FormsHoldLate'
    BY <1>4, <1>6, <1>7 DEF FormsHoldLate
  <2>3. InactiveHaveNone'
    BY <1>6, <2>1 DEF InactiveHaveNone
  <2> QED
    BY <1>5, <2>2, <2>3
<1>8. CASE ~(given = {FALSE} /\ ~\E o \in Form \ {e} : HoldsLate(o, b))
  <2>1. late' = late
    BY <1>1, <1>8
  <2>2. FormsHoldLate'
    BY <1>4, <2>1 DEF FormsHoldLate
  <2>3. row'[b] = "inactive" /\ status'[b] # "none" => HoldsLate(e, b)
    <3> SUFFICES ASSUME row'[b] = "inactive", status'[b] # "none" PROVE HoldsLate(e, b)
      OBVIOUS
    <3>1. given = {} /\ ~form[e].active
      BY <1>1, <1>2 DEF PollTypeOK, FormStatus
    <3>2. form[e].status # "none"
      BY <1>1, <1>2, <3>1 DEF PollTypeOK, FormStatus
    <3> QED
      BY <1>1, <1>2, <3>1, <3>2 DEF HoldsLate, FormsOfOne, PollTypeOK
  <2>4. InactiveHaveNone'
    BY <1>2, <1>6, <2>1, <2>3 DEF InactiveHaveNone, FormsHoldLate
  <2> QED
    BY <1>5, <2>2, <2>4
<1> QED
  BY <1>7, <1>8

\* A status is found on an inactive agent only where the poller left it, or where a
\* PATCH that had read it there wrote it again.
THEOREM OnlyPollerLeavesStatus == PollSpec => []InactiveHaveNone
<1>1. PollInit => StatusInv
  BY DEF PollInit, StatusInv, InactiveHaveNone, FormsHoldLate, FormsOfOne, HoldsLate, NoForm
<1>2. PollTypeOK /\ StatusInv /\ [PollNext]_pollVars => StatusInv'
  <2> SUFFICES ASSUME PollTypeOK, StatusInv, [PollNext]_pollVars PROVE StatusInv'
    OBVIOUS
  <2>1. CASE PollStep
    BY <2>1, PollerKeepsStatusInv
  <2>2. ASSUME NEW a \in Polled, ChangeHost(a) PROVE StatusInv'
    BY <2>2 DEF ChangeHost, pollerVars, StatusInv, InactiveHaveNone, FormsHoldLate, FormsOfOne, HoldsLate
  <2>3. ASSUME NEW a \in Polled, DeleteAgent(a) PROVE StatusInv'
    BY <2>3 DEF DeleteAgent, PollTypeOK, StatusInv, InactiveHaveNone, FormsHoldLate, FormsOfOne, HoldsLate
  <2>4. ASSUME NEW e \in Form, NEW a \in Polled, ReadForm(e, a) PROVE StatusInv'
    BY <2>4, ReadKeepsStatusInv
  <2>5. ASSUME NEW e \in Form, NEW given \in {{}, {TRUE}, {FALSE}}, SaveForm(e, given)
        PROVE StatusInv'
    BY <2>5, SaveKeepsStatusInv
  <2>6. CASE UNCHANGED pollVars
    BY <2>6 DEF pollVars, pollerVars, StatusInv, InactiveHaveNone, FormsHoldLate, FormsOfOne, HoldsLate
  <2> QED
    BY <2>1, <2>2, <2>3, <2>4, <2>5, <2>6 DEF PollNext
<1> QED
  BY <1>1, <1>2, PollTypeCorrect, PTL DEF PollSpec, StatusInv
=============================================================================
