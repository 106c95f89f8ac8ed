--------------------------- MODULE ProgressProofs ---------------------------
(***************************************************************************)
(* Why a progress of 100 is right, and stays it: for files and sessions    *)
(* that are not re-scanned, with fewer than 2000 files and agents (of      *)
(* more, round() gives one away), with agents deactivated or deleted at    *)
(* any time, and with every perform_scan run again at any time, but no     *)
(* other task.  And why verdicts are final, when no task is run again.     *)
(***************************************************************************)
EXTENDS ScanSessionProofs

\* What a session is taken to hold: of 2000 files, or agents, 1999 would be rounded to 100.
Small == IsFiniteSet(File) /\ Cardinality(File) < 2000 /\ Cardinality(Agent) < 2000

-----------------------------------------------------------------------------
(* Counting *)

\* Of fewer than 2000, all or nothing: 99.95 % are all of them.
LEMMA RoundedFull ==
    ASSUME NEW done \in Nat, NEW total \in Nat, done <= total, total < 2000
    PROVE  RoundedProgress(done, total) = "full" <=> done = total
BY DEF RoundedProgress

\* So a count over a part of a small set is full when the part is the whole.
LEMMA CountedFull ==
    ASSUME NEW T, IsFiniteSet(T), Cardinality(T) < 2000, NEW S \in SUBSET T
    PROVE  RoundedProgress(Cardinality(S), Cardinality(T)) = "full" <=> S = T
<1>1. /\ Cardinality(T) \in Nat /\ Cardinality(S) \in Nat
      /\ Cardinality(S) <= Cardinality(T)
      /\ Cardinality(S) = Cardinality(T) => S = T
  BY FS_Subset, FS_CardinalityType
<1>2. QED
  BY <1>1, RoundedFull

\* What is counted is small: the agents of a file and the files themselves.
LEMMA SmallCounts ==
    ASSUME Small, NEW T, T \subseteq File \/ T \subseteq Agent
    PROVE  IsFiniteSet(T) /\ Cardinality(T) < 2000
<1>1. PICK U \in {File, Agent} : T \in SUBSET U
  OBVIOUS
<1>2. IsFiniteSet(U) /\ Cardinality(U) < 2000
  BY SessionAssumption DEF Small
<1>3. IsFiniteSet(T) /\ Cardinality(T) <= Cardinality(U)
  BY <1>1, <1>2, FS_Subset
<1>4. Cardinality(T) \in Nat /\ Cardinality(U) \in Nat
  BY <1>2, <1>3, FS_CardinalityType
<1>5. QED
  BY <1>2, <1>3, <1>4


-----------------------------------------------------------------------------
(* What the progress rests on *)

Answered(x) == Scans(x) # {} /\ Pending(x) = {}

\* scan_file has found nothing to scan, or nobody to scan it, and creates no scans.
Unscannable(f) ==
    /\ at[ScanFile(f)] \notin {"none", "queued", "extract", "bulk", "count"}
    /\ ~plan[f].exist

\* The reasons why a progress of 100 is right, and stays it.
Settled(f) ==
    \/ f \in Top /\ row[f] = "rejected"
    \/ f \in Top /\ Unscannable(f)
    \/ Children(f) = {} /\ Answered(f)
    \/ /\ ValidChildren(f) # {}
       /\ \A m \in ValidChildren(f) : Answered(m) /\ progress[m] = "full"

\* The stages of an update of a File row.
UpdatingFile == {"file", "parent"} \cup LockingFile

\* The file a task updates is the one it has created, or is about to scan or has scanned.
SubjectsKnown ==
    /\ at[Ingest] \in UpdatingFile =>
         /\ at[Ingest] \in {"file", "fileJudging", "fileSaving"}
         /\ subject[Ingest] \in ValidTop
         /\ at[ScanFile(subject[Ingest])] = "none"
    /\ \A f \in Top : at[ScanFile(f)] \in UpdatingFile =>
         /\ at[ScanFile(f)] \in {"file", "fileJudging", "fileSaving"}
         /\ subject[ScanFile(f)] \in Owned(f) /\ row[subject[ScanFile(f)]] = "valid"
         /\ plan[f].exist
    /\ \A x \in File, a \in Agent :
         at[PerformScan(x, a)] \in {"scanning"} \cup UpdatingFile => subject[PerformScan(x, a)] = x

\* Scanners are looked for before the loop, and without one there are no scans.
ScannersFirst ==
    \A f \in Top :
        /\ at[ScanFile(f)] \in {"none", "queued", "extract", "bulk", "count"} => ~plan[f].exist
        /\ ~plan[f].exist => \A x \in Owned(f) : Scans(x) = {}

\* select_for_update
LocksExclude ==
    /\ \A t, u \in Task : at[t] \in LockingFile /\ at[u] \in LockingFile /\
         Target(t) = Target(u) => t = u
    /\ \A t, u \in Task : at[t] = "sessionSaving" /\ at[u] = "sessionSaving" => t = u

FullIsSettled == \A f \in File : progress[f] = "full" => Settled(f)

\* What a task has read of the file it has locked is still right.
ReadsAreRight ==
    \A t \in Task, f \in File : at[t] \in LockingFile /\ Target(t) = f =>
        /\ read[t].progress = "full" => Settled(f)
        /\ progress[f] = "full" => read[t].progress = "full"

AllFull == \A f \in ValidTop : progress[f] = "full"

\* The task that indexes has created a file, and not yet counted it.
Uncounted == at[Ingest] \in {"file", "fileJudging", "fileSaving", "session", "sessionSaving"}

SessionIsRight ==
    /\ session.progress = "full" =>
         \A f \in ValidTop : progress[f] = "full" \/ (Uncounted /\ f = subject[Ingest])
    /\ \A t \in Task : at[t] = "sessionSaving" =>
         /\ read[t].progress = "full" => AllFull
         /\ session.progress = "full" /\ ~Uncounted => read[t].progress = "full"

ProgressInv ==
    /\ SubjectsKnown /\ ScannersFirst /\ LocksExclude
    /\ FullIsSettled /\ ReadsAreRight /\ SessionIsRight

\* A known verdict on a leaf is that of its scans, which are all answered.
VerdictsStand ==
    /\ \A f \in File : infected[f] = "infected" /\ Children(f) = {} =>
         Answered(f) /\ EvalInfected(f) = "infected"
    /\ \A t \in Task, f \in File : at[t] \in Saving /\ Target(t) = f =>
         /\ read[t].infected = "infected" /\ Children(f) = {} =>
              Answered(f) /\ EvalInfected(f) = "infected"
         /\ infected[f] = "clean" \/ (infected[f] = "infected" /\ Children(f) = {}) =>
              read[t].infected = infected[f]

-----------------------------------------------------------------------------
(* What a task reads of the file it updates *)

\* A member has no members of its own.
LEMMA MembersAreLeaves ==
    /\ \A m \in Member : m \in File /\ m \notin Top /\ MembersOf(m) = {} /\ Children(m) = {}
    /\ \A f \in File : Children(f) # {} => f \in Top
    /\ \A f \in Top : \A m \in Children(f) : m \in Member /\ m \in Owned(f) /\ ParentOf[m] = f
BY SessionAssumption DEF Children, MembersOf, Owned, File

\* A member is only ever full because its scans are answered.
LEMMA SettledMember ==
    ASSUME TypeOK, RunsKnown, NEW m \in Member, Settled(m)
    PROVE  Answered(m) /\ row[m] = "valid"
<1>1. Answered(m)
  BY MembersAreLeaves DEF Settled, ValidChildren
<1>2. QED
  BY <1>1, MembersAreLeaves DEF RunsKnown, AnswersKnown, Answered, Scans

\* The file a task updates is valid, and one that can be scanned.
LEMMA TargetKnown ==
    ASSUME TypeOK, SubjectOK, RunsKnown, SubjectsKnown, ScannersFirst,
           NEW t \in Task, at[t] \in UpdatingFile
    PROVE  /\ Target(t) \in File /\ row[Target(t)] = "valid"
           /\ Target(t) \in Top => ~Unscannable(Target(t))
<1>1. Target(t) \in File
  BY TargetIsFile DEF UpdatingFile
<1>2. CASE t = Ingest
  <2>1. Target(t) = subject[t] /\ subject[t] \in ValidTop /\ at[ScanFile(subject[t])] = "none"
    BY <1>2 DEF SubjectsKnown, Target
  <2>2. QED
    BY <1>1, <2>1 DEF ValidTop, Unscannable
<1>3. ASSUME NEW f \in Top, t = ScanFile(f)
      PROVE  /\ row[Target(t)] = "valid"
             /\ Target(t) \in Top => ~Unscannable(Target(t))
  <2>1. Target(t) \in Owned(f) /\ row[Target(t)] = "valid" /\ plan[f].exist
    BY <1>3 DEF SubjectsKnown, Target
  <2>2. Target(t) \in Top => Target(t) = f
    BY <2>1, OwnedApart
  <2>3. QED
    BY <2>1, <2>2 DEF Unscannable
<1>4. ASSUME NEW x \in File, NEW a \in Agent, t = PerformScan(x, a)
      PROVE  /\ row[Target(t)] = "valid"
             /\ Target(t) \in Top => ~Unscannable(Target(t))
  <2>1. subject[t] = x /\ at[t] # "none"
    BY <1>4 DEF SubjectsKnown, UpdatingFile, LockingFile
  <2>2. row[x] = "valid" /\ Scans(x) # {}
    BY <1>4, <2>1 DEF RunsKnown, AnswersKnown, Scans
  <2>3. CASE Target(t) = x
    <3>1. x \in Top => plan[x].exist
      BY <2>2, OwnedApart DEF ScannersFirst
    <3>2. QED
      BY <2>2, <2>3, <3>1 DEF Unscannable
  <2>4. CASE Target(t) # x
    <3>1. x \in Member /\ Target(t) = ParentOf[x]
      BY <2>1, <2>4 DEF Target, SubjectOK
    <3>2. /\ ParentOf[x] \in Top /\ x \in Owned(ParentOf[x]) /\ x \in Children(ParentOf[x])
      BY <2>2, <3>1, SessionAssumption DEF Owned, MembersOf, Children, Created
    <3>3. plan[ParentOf[x]].exist
      BY <2>2, <3>2 DEF ScannersFirst
    <3>4. at[ScanFile(ParentOf[x])] # "none"
      BY <3>2 DEF RunsKnown, UnscannedYet
    <3>5. row[ParentOf[x]] = "valid"
      BY <3>2, <3>4 DEF RunsKnown, IndexedOnce
    <3>6. QED
      BY <3>1, <3>3, <3>5 DEF Unscannable
  <2>5. QED
    BY <2>3, <2>4
<1>5. QED
  BY <1>1, <1>2, <1>3, <1>4, TaskCases

\* What update_scan_state computes for a file it may update is full only with a
\* reason, and is full when the progress was.
LEMMA ProgressHasReason ==
    ASSUME TypeOK, RunsKnown, FullIsSettled, Small,
           NEW f \in File, row[f] = "valid", f \in Top => ~Unscannable(f), ~NoValidChild(f)
    PROVE  /\ ProgressOf(f) = "full" => Settled(f)
           /\ progress[f] = "full" => ProgressOf(f) = "full"
<1>1. progress[f] = "full" => Settled(f)
  BY DEF FullIsSettled
<1>2. CASE Children(f) # {}
  <2> DEFINE done == {m \in Children(f) : progress[m] = "full"}
  <2>1. ValidChildren(f) # {} /\ ValidChildren(f) \subseteq File
    BY <1>2, MembersAreLeaves DEF NoValidChild, ValidChildren
  <2>2. \A m \in done : m \in Member /\ Answered(m) /\ row[m] = "valid"
    <3> SUFFICES ASSUME NEW m \in done PROVE m \in Member /\ Answered(m) /\ row[m] = "valid"
      OBVIOUS
    <3>1. m \in Member /\ m \in File
      BY MembersAreLeaves
    <3>2. Settled(m)
      BY <3>1 DEF FullIsSettled
    <3>3. QED
      BY <3>1, <3>2, SettledMember
  <2>3. done \in SUBSET ValidChildren(f)
    BY <2>2 DEF ValidChildren
  <2>4. ProgressOf(f) = "full" <=> done = ValidChildren(f)
    <3>1. ProgressOf(f) = RoundedProgress(Cardinality(done), Cardinality(ValidChildren(f)))
      BY <1>2 DEF ProgressOf
    <3>2. IsFiniteSet(ValidChildren(f)) /\ Cardinality(ValidChildren(f)) < 2000
      BY <2>1, SmallCounts
    <3>3. RoundedProgress(Cardinality(done), Cardinality(ValidChildren(f))) = "full"
            <=> done = ValidChildren(f)
      <4> HIDE DEF done
      <4>1. QED
        BY <2>3, <3>2, CountedFull
    <3>4. QED
      BY <3>1, <3>3
  <2>5. ProgressOf(f) = "full" => Settled(f)
    BY <2>1, <2>2, <2>4 DEF Settled
  <2>6. Settled(f) => \A m \in ValidChildren(f) : progress[m] = "full"
    BY <1>2 DEF Settled
  <2>7. Settled(f) => done = ValidChildren(f)
    BY <2>3, <2>6 DEF ValidChildren
  <2>8. QED
    BY <1>1, <2>4, <2>5, <2>7
<1>3. CASE Children(f) = {} /\ Scans(f) # {}
  <2>1. Scans(f) \subseteq Agent /\ Pending(f) \subseteq Scans(f)
    BY DEF Scans, Pending
  <2>2. ProgressOf(f) = "full" <=> Pending(f) = {}
    <3>1. ProgressOf(f)
            = RoundedProgress(Cardinality(Scans(f) \ Pending(f)), Cardinality(Scans(f)))
      BY <1>3 DEF ProgressOf
    <3>2. IsFiniteSet(Scans(f)) /\ Cardinality(Scans(f)) < 2000
      BY <2>1, SmallCounts
    <3>3. Scans(f) \ Pending(f) = Scans(f) <=> Pending(f) = {}
      BY <2>1
    <3> DEFINE answered == Scans(f) \ Pending(f)
    <3>4. RoundedProgress(Cardinality(answered), Cardinality(Scans(f))) = "full"
            <=> answered = Scans(f)
      <4>1. answered \in SUBSET Scans(f)
        OBVIOUS
      <4> HIDE DEF answered
      <4>2. QED
        BY <3>2, <4>1, CountedFull
    <3>5. QED
      BY <3>1, <3>3, <3>4
  <2>3. ValidChildren(f) = {}
    BY <1>3 DEF ValidChildren
  <2>4. QED
    BY <1>1, <1>3, <2>2, <2>3 DEF Settled, Answered
<1>4. CASE Children(f) = {} /\ Scans(f) = {}
  BY <1>1, <1>4 DEF ProgressOf
<1>5. QED
  BY <1>2, <1>3, <1>4

-----------------------------------------------------------------------------
(* What a step does to the tasks *)

\* A fault cuts a task short at one of four places.
CutAt(t) ==
    /\ at'[t] \in {"refused", "failed"}
    /\ \/ t = Ingest /\ at[t] = "create"
       \/ (\E f \in Top : t = ScanFile(f)) /\ at[t] = "bulk"
       \/ t \in PerformScanTask /\ at[t] \in Updating /\ at'[t] = "failed"
       \/ at[t] = "publish" /\ at'[t] = "refused"

\* It changes nothing else, and only a refused publication empties an outbox.
LEMMA FaultLeaves ==
    ASSUME TypeOK, FaultStep
    PROVE  /\ UNCHANGED <<dbVars, agent, unread, subject, plan, userVars, redelivered>>
           /\ \A t \in Task : (at'[t] = at[t] /\ read'[t] = read[t]) \/ CutAt(t)
           /\ \A t \in Task : outbox'[t] = outbox[t] \/ (at[t] = "publish" /\ outbox'[t] = {})
<1>1. PICK u \in Task, s \in {"refused", "failed"} :
        /\ CutShort(u, s)
        /\ \/ u = Ingest /\ at[u] = "create" /\ s = "failed"
           \/ (\E f \in Top : u = ScanFile(f)) /\ at[u] = "bulk" /\ s = "failed"
           \/ u \in PerformScanTask /\ at[u] \in Updating /\ s = "failed"
           \/ at[u] = "publish" /\ s = "refused"
  BY FaultCuts
<1>2. UNCHANGED <<dbVars, agent, unread, subject, plan, userVars, redelivered>>
  BY <1>1 DEF CutShort
<1>3. \A t \in Task : t # u => at'[t] = at[t] /\ read'[t] = read[t]
  BY <1>1 DEF CutShort, TypeOK
<1>4. at'[u] = s
  BY <1>1 DEF CutShort, TypeOK
<1>5. CutAt(u)
  BY <1>1, <1>4 DEF CutAt
<1>6. \A t \in Task : outbox'[t] = outbox[t] \/ (at[t] = "publish" /\ outbox'[t] = {})
  BY TaskShape DEF TypeOK, FaultStep, BreakIngest, BreakExtraction, Overrun, RefusePublication
<1>7. QED
  BY <1>2, <1>3, <1>5, <1>6

\* How a task comes to a stage at which it updates a file, or to scan one.
LEMMA UpdatingFrom ==
    ASSUME TypeOK, [Next]_vars, NEW t \in Task, at'[t] \in {"scanning"} \cup UpdatingFile
    PROVE  \/ at'[t] = at[t] /\ subject'[t] = subject[t] /\ read'[t] = read[t]
           \/ t = Ingest /\ CreateFile
           \/ \E f \in Top : t = ScanFile(f) /\ CreateScans(f)
           \/ \E x \in File, a \in Agent : t = PerformScan(x, a) /\ PerformScanStep(x, a)
           \/ ReadScanState(t) \/ JudgeScanState(t)
           \/ SaveScanState(t) /\ at'[t] = "parent"
<1> USE DEF TypeOK, UpdatingFile, LockingFile, dbVars, taskVars, userVars
<1>1. CASE IngestStep /\ ~CreateFile
  <2>1. \E s \in {"done", "next", "create", "session"} : at' = [at EXCEPT ![Ingest] = s]
    BY <1>1 DEF IngestStep, StartIngest, CountPath, RejectPath, EndIngest, Start, Goto
  <2>2. UNCHANGED <<subject, read>>
    BY <1>1 DEF IngestStep, StartIngest, CountPath, RejectPath, EndIngest
  <2>3. QED
    BY <2>1, <2>2
<1>2. CASE CreateFile
  <2>1. PICK f \in unread : subject' = [subject EXCEPT ![Ingest] = f]
    BY <1>2 DEF CreateFile
  <2>2. at' = [at EXCEPT ![Ingest] = "file"] /\ UNCHANGED read
    BY <1>2 DEF CreateFile, Goto
  <2>3. QED
    BY <1>2, <2>1, <2>2
<1>3. ASSUME NEW f \in Top, ScanFileStep(f), ~CreateScans(f)
      PROVE  at'[t] = at[t] /\ subject'[t] = subject[t] /\ read'[t] = read[t]
  <2>1. UNCHANGED <<subject, read>>
    BY <1>3 DEF ScanFileStep, StartScanFile, ReuseChildren, FailExtraction, ExtractRejected,
         ExtractValid, CountAgents, NothingToScan, NoScannerFound, FailScans, EndScanFile
  <2>2. \E s \in Stage \ ({"scanning"} \cup UpdatingFile) : at' = [at EXCEPT ![ScanFile(f)] = s]
    BY <1>3 DEF ScanFileStep, StartScanFile, ReuseChildren, FailExtraction, ExtractRejected,
         ExtractValid, CountAgents, NothingToScan, NoScannerFound, FailScans, EndScanFile,
         Start, Goto, Stage, Idle, Over, Updating
  <2>3. QED
    BY <2>1, <2>2
<1>4. ASSUME NEW f \in Top, CreateScans(f), t # ScanFile(f)
      PROVE  at'[t] = at[t] /\ subject'[t] = subject[t] /\ read'[t] = read[t]
  <2>1. PICK x \in plan[f].todo : subject' = [subject EXCEPT ![ScanFile(f)] = x]
    BY <1>4 DEF CreateScans
  <2>2. at' = [at EXCEPT ![ScanFile(f)] = "file"] /\ UNCHANGED read
    BY <1>4 DEF CreateScans, Goto
  <2>3. QED
    BY <1>4, <2>1, <2>2
<1>5. ASSUME NEW x \in File, NEW a \in Agent, PerformScanStep(x, a), t # PerformScan(x, a)
      PROVE  at'[t] = at[t] /\ subject'[t] = subject[t] /\ read'[t] = read[t]
  BY <1>5 DEF PerformScanStep, StartPerformScan, SaveResult, LeaveScan, Start, Goto
<1>6. ASSUME NEW u \in Task, UpdateStep(u), ~ReadScanState(u), ~JudgeScanState(u), ~SaveScanState(u)
      PROVE  at'[t] = at[t] /\ subject'[t] = subject[t] /\ read'[t] = read[t]
  <2>1. CASE FailScanState(u)
    BY <2>1 DEF FailScanState, Goto
  <2>2. CASE CountFiles(u)
    BY <2>2 DEF CountFiles, Goto
  <2>3. CASE SaveProgress(u)
    BY <2>3, ResumeStage DEF SaveProgress, Goto
  <2>4. CASE Publish(u)
    BY <2>4, ResumeStage DEF Publish
  <2>5. QED
    BY <1>6, <2>1, <2>2, <2>3, <2>4 DEF UpdateStep
<1>7. ASSUME NEW u \in Task, ReadScanState(u) \/ JudgeScanState(u) \/ SaveScanState(u), u # t
      PROVE  at'[t] = at[t] /\ subject'[t] = subject[t] /\ read'[t] = read[t]
  BY <1>7 DEF ReadScanState, JudgeScanState, SaveScanState, SaveThen, Goto
<1>8. SaveScanState(t) => at'[t] = "parent"
  BY DEF SaveScanState, SaveThen, Goto
<1>9. CASE \/ AcceptPostscan \/ CopyCleanFiles \/ UNCHANGED vars
           \/ \E a \in Agent : DeactivateAgent(a) \/ DeleteAgent(a)
  BY <1>9 DEF AcceptPostscan, CopyCleanFiles, DeactivateAgent, DeleteAgent, vars
<1>10. ASSUME NEW u \in Task, Redeliver(u)
       PROVE  at'[t] = at[t] /\ subject'[t] = subject[t] /\ read'[t] = read[t]
  BY <1>10 DEF Redeliver
<1>11. ASSUME FaultStep
       PROVE  at'[t] = at[t] /\ subject'[t] = subject[t] /\ read'[t] = read[t]
  BY <1>11, FaultLeaves DEF CutAt
<1>12. QED
  BY <1>1, <1>2, <1>3, <1>4, <1>5, <1>6, <1>7, <1>8, <1>9, <1>10, <1>11 DEF Next, WorkerStep

\* A locked file is read or judged by the task that holds the lock, or left alone.
LEMMA LockedFrom ==
    ASSUME TypeOK, [Next]_vars, NEW t \in Task, at'[t] \in LockingFile
    PROVE  \/ at'[t] = at[t] /\ subject'[t] = subject[t] /\ read'[t] = read[t]
           \/ ReadScanState(t) \/ JudgeScanState(t)
<1>1. at'[t] \in {"scanning"} \cup UpdatingFile
  BY DEF UpdatingFile
<1>2. ~CreateFile \/ t # Ingest
  BY DEF CreateFile, Goto, LockingFile, TypeOK
<1>3. \A f \in Top : CreateScans(f) => t # ScanFile(f)
  BY DEF CreateScans, Goto, LockingFile, TypeOK
<1>4. \A x \in File, a \in Agent : PerformScanStep(x, a) => t # PerformScan(x, a)
  BY DEF PerformScanStep, StartPerformScan, SaveResult, LeaveScan, Start, Goto,
         LockingFile, TypeOK
<1>5. at'[t] # "parent"
  BY DEF LockingFile
<1>6. QED
  BY <1>1, <1>2, <1>3, <1>4, <1>5, UpdatingFrom

\* A scan_file begins when the task that indexes publishes it, counts the agents once
\* it knows its files, and does not begin again.
LEMMA ScanFileMoves ==
    ASSUME TypeOK, RunsKnown, redelivered' \subseteq PerformScanTask, [Next]_vars, NEW f \in Top
    PROVE  /\ at[ScanFile(f)] = "none" /\ at'[ScanFile(f)] # "none" => at[Ingest] = "publish"
           /\ at[ScanFile(f)] \notin {"none", "queued", "extract", "bulk", "count"} =>
                /\ at'[ScanFile(f)] \notin {"none", "queued", "extract", "bulk", "count"}
                /\ plan'[f].exist = plan[f].exist
           /\ plan'[f].exist # plan[f].exist =>
                at[ScanFile(f)] \in {"queued", "count"}
           /\ plan'[f].exist /\ ~plan[f].exist => at'[ScanFile(f)] = "loop"
<1> USE DEF TypeOK, RunsKnown, dbVars, taskVars, userVars
<1> DEFINE t == ScanFile(f)
<1>1. t \in Task /\ t # Ingest /\ t.kind = "scan_file"
  BY TaskShape, TasksDiffer
<1>2. CASE IngestStep
  <2>1. \E s : at' = [at EXCEPT ![Ingest] = s]
    BY <1>2 DEF IngestStep, StartIngest, CountPath, CreateFile, RejectPath, EndIngest, Start, Goto
  <2>2. UNCHANGED plan
    BY <1>2 DEF IngestStep, StartIngest, CountPath, CreateFile, RejectPath, EndIngest
  <2>3. QED
    BY <1>1, <2>1, <2>2
<1>3. ASSUME NEW g \in Top, ScanFileStep(g), g # f
      PROVE  at'[t] = at[t] /\ plan'[f] = plan[f]
  <2>1. \E s : at' = [at EXCEPT ![ScanFile(g)] = s]
    BY <1>3 DEF ScanFileStep, StartScanFile, ReuseChildren, FailExtraction, ExtractRejected,
       ExtractValid, CountAgents, NothingToScan, NoScannerFound, CreateScans, FailScans,
       EndScanFile, Start, Goto
  <2>2. ScanFile(g) # t
    BY <1>3, TaskShape
  <2>3. plan'[f] = plan[f]
    BY <1>3 DEF ScanFileStep, StartScanFile, ReuseChildren, FailExtraction, ExtractRejected,
       ExtractValid, CountAgents, NothingToScan, NoScannerFound, CreateScans, FailScans,
       EndScanFile
  <2>4. QED
    BY <1>1, <2>1, <2>2, <2>3
<1>4. CASE ScanFileStep(f)
  <2>0. CASE StartScanFile(f)
    <3>1. at[t] = "queued" /\ ~plan'[f].exist
      BY <2>0 DEF StartScanFile, Start, NoPlan
    <3>2. QED
      BY <3>1
  <2>1. CASE CountAgents(f)
    BY <1>1, <2>1 DEF CountAgents, Goto
  <2>2. CASE FailExtraction(f) \/ ExtractValid(f) \/ ReuseChildren(f) \/ ExtractRejected(f)
    <3>1. at[t] \in {"extract", "bulk"} /\ at'[t] \in {"bulk", "count", "refused"}
      BY <1>1, <2>2 DEF FailExtraction, ExtractValid, ReuseChildren, ExtractRejected, Goto
    <3>2. plan'[f].exist = plan[f].exist
      <4>1. WithoutChildren(f).exist = plan[f].exist
        BY DEF WithoutChildren, Plan
      <4>2. CASE FailExtraction(f)
        BY <4>1, <4>2 DEF FailExtraction
      <4>3. CASE ExtractValid(f)
        BY <4>1, <4>3 DEF ExtractValid, Plan
      <4>4. CASE ReuseChildren(f) \/ ExtractRejected(f)
        BY <4>4 DEF ReuseChildren, ExtractRejected, Plan
      <4>5. QED
        BY <2>2, <4>2, <4>3, <4>4
    <3>3. QED
      BY <3>1, <3>2
  <2>3. CASE \/ NothingToScan(f) \/ NoScannerFound(f) \/ CreateScans(f) \/ FailScans(f)
             \/ EndScanFile(f)
    <3>1. at[t] \in {"count", "loop"} /\ at'[t] \in {"session", "file", "done"}
      BY <1>1, <2>3, ZenonT(30)
       DEF NothingToScan, NoScannerFound, CreateScans, FailScans, EndScanFile, Goto
    <3>2. CASE NoScannerFound(f)
      <4>1. PICK x \in plan[f].todo : plan' = [plan EXCEPT ![f].todo = @ \ {x}]
        BY <3>2 DEF NoScannerFound
      <4>2. QED
        BY <3>1, <4>1 DEF Plan
    <3>3. CASE CreateScans(f)
      <4>1. PICK x \in plan[f].todo :
              plan' = [plan EXCEPT ![f].todo = @ \ {x}, ![f].listed = TRUE,
                                   ![f].agents = AgentsListed(f)]
        BY <3>3 DEF CreateScans
      <4>2. QED
        BY <3>1, <4>1 DEF Plan
    <3>4. CASE NothingToScan(f) \/ FailScans(f) \/ EndScanFile(f)
      BY <3>1, <3>4 DEF NothingToScan, FailScans, EndScanFile
    <3>5. QED
      BY <2>3, <3>2, <3>3, <3>4
  <2>4. QED
    BY <1>4, <2>0, <2>1, <2>2, <2>3 DEF ScanFileStep
<1>5. ASSUME NEW x \in File, NEW a \in Agent, PerformScanStep(x, a)
      PROVE  at'[t] = at[t] /\ UNCHANGED plan
  <2>1. PerformScan(x, a) # t
    BY TasksDiffer
  <2>2. \E s : at' = [at EXCEPT ![PerformScan(x, a)] = s]
    BY <1>5 DEF PerformScanStep, StartPerformScan, SaveResult, LeaveScan, Start, Goto
  <2>3. UNCHANGED plan
    BY <1>5 DEF PerformScanStep, StartPerformScan, SaveResult, LeaveScan
  <2>4. QED
    BY <1>1, <2>1, <2>2, <2>3
<1>6. ASSUME NEW u \in Task, UpdateStep(u), ~Publish(u)
      PROVE  /\ UNCHANGED plan
             /\ at[u] \notin {"none", "queued", "extract", "bulk", "count"}
             /\ at'[u] \notin {"none", "queued", "extract", "bulk", "count"}
             /\ \A r \in Task : r # u => at'[r] = at[r]
  <2>1. PICK s \in {"fileJudging", "fileSaving", "parentJudging", "parentSaving", "parent",
                    "session", "sessionSaving", "done", "publish", "next", "loop"} :
          at' = [at EXCEPT ![u] = s]
    BY <1>6, ResumeStage
       DEF UpdateStep, ReadScanState, JudgeScanState, SaveScanState, SaveThen, FailScanState,
           CountFiles, SaveProgress, Goto
  <2>2. UNCHANGED plan /\ at[u] \notin {"none", "queued", "extract", "bulk", "count"}
    BY <1>6
       DEF UpdateStep, ReadScanState, JudgeScanState, SaveScanState, SaveThen, FailScanState,
           CountFiles, SaveProgress
  <2>3. QED
    BY <2>1, <2>2
<1>7. ASSUME NEW u \in Task, Publish(u)
      PROVE  /\ UNCHANGED plan
             /\ at[u] = "publish" /\ at'[u] \notin {"none", "queued", "extract", "bulk", "count"}
             /\ \A r \in Task : r # u => at'[r] = at[r] \/ (at[r] = "none" /\ r \in outbox[u])
  BY <1>7, ResumeStage DEF Publish, PublishedOnce
<1>8. ASSUME NEW u \in Task, t \in outbox[u] PROVE u = Ingest
  <2>1. \A g \in Top : u # ScanFile(g)
    BY <1>8, OwnedApart, TasksDiffer DEF PublishedOnce
  <2>2. \A x \in File, a \in Agent : u # PerformScan(x, a)
    BY <1>8 DEF PublishedOnce
  <2>3. QED
    BY <2>1, <2>2, TaskCases
<1>9. CASE \/ AcceptPostscan \/ CopyCleanFiles \/ UNCHANGED vars
           \/ \E a \in Agent : DeactivateAgent(a) \/ DeleteAgent(a)
  BY <1>9 DEF AcceptPostscan, CopyCleanFiles, DeactivateAgent, DeleteAgent, vars
<1>10. ASSUME NEW u \in Task, Redeliver(u) PROVE at'[t] = at[t] /\ UNCHANGED plan
  <2>1. u # t
    BY <1>10, TasksDiffer DEF Redeliver, PerformScanTask
  <2>2. QED
    BY <1>1, <1>10, <2>1 DEF Redeliver
<1>11. ASSUME NEW u \in Task, UpdateStep(u) PROVE
             /\ UNCHANGED plan
             /\ at[t] = "none" /\ at'[t] # "none" => at[Ingest] = "publish"
             /\ at[t] \notin {"none", "queued", "extract", "bulk", "count"} =>
                  at'[t] \notin {"none", "queued", "extract", "bulk", "count"}
  BY <1>1, <1>6, <1>7, <1>8, <1>11
<1>12. ASSUME FaultStep PROVE
             /\ UNCHANGED plan
             /\ at'[t] = at[t] \/ (at[t] # "none" /\ at'[t] \in {"refused", "failed"})
  BY <1>1, <1>12, FaultLeaves DEF CutAt, Updating
<1>13. QED
  BY <1>2, <1>3, <1>4, <1>5, <1>9, <1>10, <1>11, <1>12 DEF Next, WorkerStep

-----------------------------------------------------------------------------
(* Subjects and scanners *)

\* The first scans of a file are created by the scan_file of its archive, or its own.
LEMMA ScansFrom ==
    ASSUME TypeOK, RunsKnown, redelivered' \subseteq PerformScanTask, [Next]_vars,
           NEW x \in File, Scans(x) = {}, Scans(x)' # {}
    PROVE  \E f \in Top : CreateScans(f) /\ x \in Owned(f)
<1> USE DEF TypeOK, RunsKnown, dbVars, taskVars, userVars
<1>1. scan'[x] # scan[x]
  BY DEF Scans
<1>2. ~IngestStep
  BY <1>1 DEF IngestStep, StartIngest, CountPath, CreateFile, RejectPath, EndIngest
<1>3. ASSUME NEW f \in Top, ScanFileStep(f) PROVE CreateScans(f) /\ x \in Owned(f)
  <2>1. CreateScans(f)
    BY <1>1, <1>3 DEF ScanFileStep, StartScanFile, ReuseChildren, FailExtraction,
       ExtractRejected, ExtractValid, CountAgents, NothingToScan, NoScannerFound, FailScans,
       EndScanFile
  <2>2. PICK y \in plan[f].todo :
          scan' = [scan EXCEPT ![y] =
                    [a \in Agent |-> IF a \in AgentsListed(f) THEN "pending" ELSE @[a]]]
    BY <2>1 DEF CreateScans
  <2>3. y = x
    BY <1>1, <2>2
  <2>4. QED
    BY <2>1, <2>3 DEF UnscannedYet
<1>4. ASSUME NEW y \in File, NEW a \in Agent, PerformScanStep(y, a) PROVE FALSE
  <2>1. SaveResult(y, a)
    BY <1>1, <1>4 DEF PerformScanStep, StartPerformScan, LeaveScan
  <2>2. scan[y][a] # "none"
    BY <2>1 DEF SaveResult, AnswersKnown
  <2>3. y = x
    BY <1>1, <2>1 DEF SaveResult
  <2>4. QED
    BY <2>2, <2>3 DEF Scans
<1>5. \A t \in Task : ~UpdateStep(t)
  BY <1>1 DEF UpdateStep, ReadScanState, JudgeScanState, SaveScanState, SaveThen,
              FailScanState, CountFiles, SaveProgress, Publish
<1>6. /\ ~AcceptPostscan /\ ~CopyCleanFiles /\ ~UNCHANGED vars
      /\ \A a \in Agent : ~DeactivateAgent(a) /\ ~DeleteAgent(a)
      /\ \A t \in Task : ~Redeliver(t)
  BY <1>1 DEF AcceptPostscan, CopyCleanFiles, DeactivateAgent, DeleteAgent, Redeliver, vars
<1>7. ~FaultStep
  BY <1>1, FaultLeaves
<1>8. QED
  BY <1>2, <1>3, <1>4, <1>5, <1>6, <1>7 DEF Next, WorkerStep

\* No scans are created where no scanner was found.
LEMMA ScannersFirstStep ==
    ASSUME TypeOK, RunsKnown, redelivered' \subseteq PerformScanTask, [Next]_vars, ScannersFirst
    PROVE  ScannersFirst'
<1>0. ASSUME NEW f \in Top,
             at'[ScanFile(f)] \in {"none", "queued", "extract", "bulk", "count"}
      PROVE  ~plan'[f].exist
  <2>1. at[ScanFile(f)] \in {"none", "queued", "extract", "bulk", "count"}
    BY <1>0, ScanFileMoves
  <2>2. QED
    BY <1>0, <2>1, ScanFileMoves DEF ScannersFirst
<1> SUFFICES ASSUME NEW f \in Top, ~plan'[f].exist, NEW x \in Owned(f), Scans(x)' # {}
             PROVE  FALSE
  BY <1>0 DEF ScannersFirst
<1>1. x \in File
  BY OwnedApart
<1>2. Scans(x) = {}
  <2>1. CASE plan[f].exist
    <3>1. at[ScanFile(f)] \in {"queued", "count"}
      BY <2>1, ScanFileMoves
    <3>2. QED
      BY <3>1 DEF RunsKnown, UnscannedYet
  <2>2. CASE ~plan[f].exist
    BY <2>2 DEF ScannersFirst
  <2>3. QED
    BY <2>1, <2>2
<1>3. CreateScans(f)
  BY <1>1, <1>2, ScansFrom, OwnedApart
<1>4. at[ScanFile(f)] = "loop" /\ plan[f].exist
  BY <1>3 DEF CreateScans
<1>5. plan'[f].exist = plan[f].exist
  BY <1>4, ScanFileMoves
<1>6. QED
  BY <1>4, <1>5

\* A task keeps its file until it has saved its progress and its verdict.
LEMMA SubjectsStep ==
    ASSUME TypeOK, SubjectOK, RunsKnown, redelivered' \subseteq PerformScanTask, [Next]_vars,
           SubjectsKnown
    PROVE  SubjectsKnown'
<1> USE DEF TypeOK, dbVars, taskVars, userVars
<1>1. ASSUME NEW t \in Task, ReadScanState(t) \/ JudgeScanState(t)
      PROVE  /\ at[t] \in UpdatingFile /\ subject'[t] = subject[t]
             /\ at[t] \in {"file", "fileJudging", "fileSaving"} =>
                  at'[t] \in {"file", "fileJudging", "fileSaving"}
  BY <1>1 DEF ReadScanState, JudgeScanState, Goto, UpdatingFile, LockingFile
<1>2. ASSUME NEW t \in Task, SaveScanState(t), at'[t] = "parent"
      PROVE  at[t] \in UpdatingFile /\ subject'[t] = subject[t] /\ t.kind = "perform_scan"
  BY <1>2 DEF SaveScanState, SaveThen, Goto, UpdatingFile, LockingFile
<1>3. ASSUME at'[Ingest] \in UpdatingFile
      PROVE  /\ at'[Ingest] \in {"file", "fileJudging", "fileSaving"}
             /\ subject'[Ingest] \in ValidTop'
             /\ at'[ScanFile(subject'[Ingest])] = "none"
  <2>1. CASE CreateFile
    <3>1. PICK f \in unread : /\ row' = [row EXCEPT ![f] = "valid"]
                              /\ subject' = [subject EXCEPT ![Ingest] = f]
      BY <2>1 DEF CreateFile
    <3>2. at' = [at EXCEPT ![Ingest] = "file"] /\ subject'[Ingest] = f /\ f \in Top /\ f \in File
      BY <2>1, <3>1, TaskShape DEF CreateFile, Goto, File
    <3>3. at[ScanFile(f)] = "none"
      BY <3>2 DEF RunsKnown, IndexedOnce
    <3>4. QED
      BY <3>1, <3>2, <3>3, TaskShape, TasksDiffer DEF ValidTop
  <2>2. CASE ~CreateFile
    <3>1. at[Ingest] \in UpdatingFile /\ subject'[Ingest] = subject[Ingest]
          /\ (at[Ingest] \in {"file", "fileJudging", "fileSaving"} =>
                at'[Ingest] \in {"file", "fileJudging", "fileSaving"})
      BY <1>1, <1>2, <1>3, <2>2, UpdatingFrom, TaskShape, TasksDiffer
    <3>2. at[Ingest] # "publish"
      BY <3>1 DEF UpdatingFile, LockingFile
    <3>3. /\ at[Ingest] \in {"file", "fileJudging", "fileSaving"}
          /\ subject[Ingest] \in ValidTop /\ at[ScanFile(subject[Ingest])] = "none"
      BY <3>1 DEF SubjectsKnown
    <3>4. subject[Ingest] \in Top /\ subject[Ingest] \in File
      BY <3>3 DEF ValidTop, File
    <3>5. row'[subject[Ingest]] = "valid"
      BY <3>3, <3>4, RowsAndScans DEF ValidTop
    <3>6. at'[ScanFile(subject[Ingest])] = "none"
      BY <3>2, <3>3, <3>4, ScanFileMoves
    <3>7. QED
      BY <3>1, <3>3, <3>4, <3>5, <3>6 DEF ValidTop
  <2>3. QED
    BY <2>1, <2>2
<1>4. ASSUME NEW f \in Top, at'[ScanFile(f)] \in UpdatingFile
      PROVE  /\ at'[ScanFile(f)] \in {"file", "fileJudging", "fileSaving"}
             /\ subject'[ScanFile(f)] \in Owned(f) /\ row'[subject'[ScanFile(f)]] = "valid"
             /\ plan'[f].exist
  <2>1. CASE CreateScans(f)
    <3>1. PICK x \in plan[f].todo : subject' = [subject EXCEPT ![ScanFile(f)] = x]
      BY <2>1 DEF CreateScans
    <3>2. x \in Owned(f) /\ row[x] = "valid"
      BY DEF RunsKnown, UnscannedYet
    <3>3. /\ at[ScanFile(f)] = "loop" /\ plan[f].exist
          /\ at' = [at EXCEPT ![ScanFile(f)] = "file"] /\ UNCHANGED row
      BY <2>1 DEF CreateScans, Goto
    <3>4. plan'[f].exist
      BY <3>3, ScanFileMoves
    <3>5. QED
      BY <3>1, <3>2, <3>3, <3>4, TaskShape
  <2>2. CASE ~CreateScans(f)
    <3>1. /\ at[ScanFile(f)] \in UpdatingFile /\ subject'[ScanFile(f)] = subject[ScanFile(f)]
          /\ at[ScanFile(f)] \in {"file", "fileJudging", "fileSaving"} =>
               at'[ScanFile(f)] \in {"file", "fileJudging", "fileSaving"}
      <4>1. \A g \in Top : ScanFile(f) = ScanFile(g) => ~CreateScans(g)
        BY <2>2, TaskShape
      <4>2. /\ ScanFile(f) \in Task /\ ScanFile(f) # Ingest
            /\ ScanFile(f).kind = "scan_file"
            /\ \A y \in File, b \in Agent : ScanFile(f) # PerformScan(y, b)
        BY TaskShape, TasksDiffer
      <4>3. \/ at'[ScanFile(f)] = at[ScanFile(f)] /\ subject'[ScanFile(f)] = subject[ScanFile(f)]
            \/ ReadScanState(ScanFile(f)) \/ JudgeScanState(ScanFile(f))
        BY <1>2, <1>4, <4>1, <4>2, UpdatingFrom, ZenonT(30)
      <4>4. QED
        BY <1>1, <1>4, <4>2, <4>3
    <3>2. /\ at[ScanFile(f)] \in {"file", "fileJudging", "fileSaving"}
          /\ subject[ScanFile(f)] \in Owned(f) /\ row[subject[ScanFile(f)]] = "valid"
          /\ plan[f].exist
      BY <3>1 DEF SubjectsKnown
    <3>3. row'[subject[ScanFile(f)]] = "valid"
      BY <3>2, OwnedApart, RowsAndScans
    <3>4. plan'[f].exist
      BY <3>2, ScanFileMoves
    <3>5. QED
      BY <3>1, <3>2, <3>3, <3>4
  <2>3. QED
    BY <2>1, <2>2
<1>5. ASSUME NEW x \in File, NEW a \in Agent,
             at'[PerformScan(x, a)] \in {"scanning"} \cup UpdatingFile
      PROVE  subject'[PerformScan(x, a)] = x
  <2> DEFINE t == PerformScan(x, a)
  <2>1. CASE PerformScanStep(x, a)
    <3>1. CASE StartPerformScan(x, a)
      BY <3>1, TaskShape DEF StartPerformScan
    <3>2. CASE SaveResult(x, a) \/ LeaveScan(x, a)
      BY <3>2 DEF SaveResult, LeaveScan, SubjectsKnown
    <3>3. QED
      BY <2>1, <3>1, <3>2 DEF PerformScanStep
  <2>2. CASE ~PerformScanStep(x, a)
    <3>1. at[t] \in {"scanning"} \cup UpdatingFile /\ subject'[t] = subject[t]
      <4>1. \A y \in File, b \in Agent : t = PerformScan(y, b) => ~PerformScanStep(y, b)
        BY <2>2, TaskShape
      <4>2. t \in Task /\ t # Ingest /\ \A f \in Top : t # ScanFile(f)
        BY TaskShape, TasksDiffer
      <4>3. QED
        BY <1>1, <1>2, <1>5, <4>1, <4>2, UpdatingFrom
    <3>2. QED
      BY <3>1 DEF SubjectsKnown
  <2>3. QED
    BY <2>1, <2>2
<1>6. QED
  BY <1>3, <1>4, <1>5 DEF SubjectsKnown

-----------------------------------------------------------------------------
(* Locks *)

\* A task that holds a lock has held it, or takes it of a file that is not locked.
LEMMA LockHeld ==
    ASSUME TypeOK, [Next]_vars, NEW t \in Task, at'[t] \in LockingFile
    PROVE  /\ Target(t)' = Target(t)
           /\ \/ at[t] \in LockingFile
              \/ /\ ReadScanState(t) /\ ~Locked(Target(t))
                 /\ \A u \in Task : u # t => at'[u] = at[u] /\ subject'[u] = subject[u]
<1>1. CASE at'[t] = at[t] /\ subject'[t] = subject[t]
  BY <1>1 DEF Target
<1>2. CASE ReadScanState(t)
  BY <1>2 DEF ReadScanState, Goto, Target, TypeOK, LockingFile
<1>3. CASE JudgeScanState(t)
  BY <1>3 DEF JudgeScanState, Goto, Target, TypeOK, LockingFile
<1>4. QED
  BY <1>1, <1>2, <1>3, LockedFrom

\* The session is locked by the task that counts its files.
LEMMA SessionLockedFrom ==
    ASSUME TypeOK, [Next]_vars, NEW t \in Task, at'[t] = "sessionSaving"
    PROVE  \/ at'[t] = at[t] /\ read'[t] = read[t]
           \/ CountFiles(t)
<1> USE DEF TypeOK, dbVars, taskVars, userVars
<1>1. CASE IngestStep
  <2>1. \E s \in {"done", "next", "create", "session", "file"} : at' = [at EXCEPT ![Ingest] = s]
    BY <1>1 DEF IngestStep, StartIngest, CountPath, CreateFile, RejectPath, EndIngest, Start, Goto
  <2>2. UNCHANGED read
    BY <1>1 DEF IngestStep, StartIngest, CountPath, CreateFile, RejectPath, EndIngest
  <2>3. QED
    BY <2>1, <2>2
<1>2. ASSUME NEW f \in Top, ScanFileStep(f) PROVE at'[t] = at[t] /\ read'[t] = read[t]
  <2>1. UNCHANGED read
    BY <1>2 DEF ScanFileStep, StartScanFile, ReuseChildren, FailExtraction, ExtractRejected,
       ExtractValid, CountAgents, NothingToScan, NoScannerFound, CreateScans, FailScans,
       EndScanFile
  <2>2. \E s \in Stage \ {"sessionSaving"} : at' = [at EXCEPT ![ScanFile(f)] = s]
    BY <1>2 DEF ScanFileStep, StartScanFile, ReuseChildren, FailExtraction, ExtractRejected,
       ExtractValid, CountAgents, NothingToScan, NoScannerFound, CreateScans, FailScans,
       EndScanFile, Start, Goto, Stage, Idle, Over, Updating
  <2>3. QED
    BY <2>1, <2>2
<1>3. ASSUME NEW x \in File, NEW a \in Agent, PerformScanStep(x, a)
      PROVE  at'[t] = at[t] /\ read'[t] = read[t]
  <2>1. \E s \in {"scanning", "file"} : at' = [at EXCEPT ![PerformScan(x, a)] = s]
    BY <1>3 DEF PerformScanStep, StartPerformScan, SaveResult, LeaveScan, Start, Goto
  <2>2. UNCHANGED read
    BY <1>3 DEF PerformScanStep, StartPerformScan, SaveResult, LeaveScan
  <2>3. QED
    BY <2>1, <2>2
<1>4. ASSUME NEW u \in Task, UpdateStep(u), ~CountFiles(u)
      PROVE  at'[t] = at[t] /\ read'[t] = read[t]
  <2>1. CASE ReadScanState(u)
    BY <2>1 DEF ReadScanState, Goto
  <2>2. CASE JudgeScanState(u)
    BY <2>2 DEF JudgeScanState, Goto
  <2>3. CASE SaveScanState(u)
    BY <2>3 DEF SaveScanState, SaveThen, Goto
  <2>4. CASE FailScanState(u)
    BY <2>4 DEF FailScanState, Goto
  <2>5. CASE SaveProgress(u)
    BY <2>5, ResumeStage DEF SaveProgress, Goto
  <2>6. CASE Publish(u)
    BY <2>6, ResumeStage DEF Publish
  <2>7. QED
    BY <1>4, <2>1, <2>2, <2>3, <2>4, <2>5, <2>6 DEF UpdateStep
<1>5. ASSUME NEW u \in Task, CountFiles(u), u # t
      PROVE  at'[t] = at[t] /\ read'[t] = read[t]
  BY <1>5 DEF CountFiles, Goto
<1>6. CASE \/ AcceptPostscan \/ CopyCleanFiles \/ UNCHANGED vars
           \/ \E a \in Agent : DeactivateAgent(a) \/ DeleteAgent(a)
  BY <1>6 DEF AcceptPostscan, CopyCleanFiles, DeactivateAgent, DeleteAgent, vars
<1>7. ASSUME NEW u \in Task, Redeliver(u) PROVE at'[t] = at[t] /\ read'[t] = read[t]
  BY <1>7 DEF Redeliver
<1>8. FaultStep => at'[t] = at[t] /\ read'[t] = read[t]
  BY FaultLeaves DEF CutAt
<1>9. QED
  BY <1>1, <1>2, <1>3, <1>4, <1>5, <1>6, <1>7, <1>8 DEF Next, WorkerStep

\* No two tasks lock one row.
LEMMA LocksStep ==
    ASSUME TypeOK, [Next]_vars, LocksExclude
    PROVE  LocksExclude'
<1>1. ASSUME NEW t \in Task, NEW u \in Task, t # u, Target(t)' = Target(u)',
             at'[t] \in LockingFile, at'[u] \in LockingFile, at[t] \notin LockingFile
      PROVE  FALSE
  <2>1. /\ Target(t) = Target(u) /\ ~Locked(Target(t))
        /\ at'[u] = at[u]
    BY <1>1, LockHeld
  <2>2. QED
    BY <1>1, <2>1 DEF Locked
<1>2. ASSUME NEW t \in Task, NEW u \in Task, t # u, Target(t)' = Target(u)',
             at'[t] \in LockingFile, at'[u] \in LockingFile
      PROVE  FALSE
  <2>1. Target(t) = Target(u)
    BY <1>2, LockHeld
  <2>2. CASE at[t] \in LockingFile /\ at[u] \in LockingFile
    BY <1>2, <2>1, <2>2 DEF LocksExclude
  <2>3. QED
    BY <1>1, <1>2, <2>2
<1>3. ASSUME NEW t \in Task, NEW u \in Task, t # u,
             at'[t] = "sessionSaving", at'[u] = "sessionSaving", CountFiles(t)
      PROVE  FALSE
  <2>1. at'[u] = at[u] /\ ~SessionLocked
    BY <1>3 DEF CountFiles, Goto, TypeOK
  <2>2. QED
    BY <1>3, <2>1 DEF SessionLocked
<1>4. ASSUME NEW t \in Task, NEW u \in Task, t # u,
             at'[t] = "sessionSaving", at'[u] = "sessionSaving"
      PROVE  FALSE
  BY <1>3, <1>4, SessionLockedFrom DEF LocksExclude
<1>5. QED
  BY <1>2, <1>4 DEF LocksExclude

-----------------------------------------------------------------------------
(* The progress of a file *)

\* The four steps that write the progress of a file.
LEMMA ProgressFrom ==
    ASSUME TypeOK, [Next]_vars, NEW f \in File, progress'[f] # progress[f]
    PROVE  \/ RejectPath /\ f \in unread /\ row'[f] = "rejected"
           \/ f \in Top /\ (NothingToScan(f) \/ NoScannerFound(f))
           \/ \E t \in Task : SaveScanState(t) /\ Target(t) = f /\ progress'[f] = read[t].progress
<1> USE DEF TypeOK, dbVars, taskVars, userVars
<1>1. IngestStep => RejectPath /\ f \in unread /\ row'[f] = "rejected"
  <2>1. IngestStep => RejectPath
    BY DEF IngestStep, StartIngest, CountPath, CreateFile, EndIngest
  <2>2. RejectPath => f \in unread /\ row'[f] = "rejected"
    BY DEF RejectPath
  <2>3. QED
    BY <2>1, <2>2
<1>2. ASSUME NEW g \in Top, ScanFileStep(g)
      PROVE  g = f /\ (NothingToScan(g) \/ NoScannerFound(g))
  <2>1. NothingToScan(g) \/ NoScannerFound(g)
    BY <1>2 DEF ScanFileStep, StartScanFile, ReuseChildren, FailExtraction, ExtractRejected,
       ExtractValid, CountAgents, CreateScans, FailScans, EndScanFile
  <2>2. QED
    BY <2>1 DEF NothingToScan, NoScannerFound
<1>3. \A x \in File, a \in Agent : ~PerformScanStep(x, a)
  BY DEF PerformScanStep, StartPerformScan, SaveResult, LeaveScan
<1>4. ASSUME NEW t \in Task, UpdateStep(t)
      PROVE  SaveScanState(t) /\ Target(t) = f /\ progress'[f] = read[t].progress
  <2>1. SaveScanState(t)
    BY <1>4 DEF UpdateStep, ReadScanState, JudgeScanState, FailScanState, CountFiles,
       SaveProgress, Publish
  <2>2. progress' = [progress EXCEPT ![Target(t)] = read[t].progress]
    BY <2>1 DEF SaveScanState, SaveThen
  <2>3. QED
    BY <2>1, <2>2
<1>5. /\ ~AcceptPostscan /\ ~CopyCleanFiles /\ ~UNCHANGED vars
      /\ \A a \in Agent : ~DeactivateAgent(a) /\ ~DeleteAgent(a)
      /\ \A t \in Task : ~Redeliver(t)
  BY DEF AcceptPostscan, CopyCleanFiles, DeactivateAgent, DeleteAgent, Redeliver, vars
<1>6. ~FaultStep
  BY FaultLeaves
<1>7. QED
  BY <1>1, <1>2, <1>3, <1>4, <1>5, <1>6 DEF Next, WorkerStep

\* No step takes the progress of a file from 100.
LEMMA FileStaysFull ==
    ASSUME TypeOK, SubjectOK, RunsKnown, redelivered' \subseteq PerformScanTask, [Next]_vars,
           ReadsAreRight, NEW f \in File, progress[f] = "full"
    PROVE  progress'[f] = "full"
<1> SUFFICES ASSUME progress'[f] # progress[f] PROVE progress'[f] = "full"
  OBVIOUS
<1>1. CASE RejectPath
  BY <1>1 DEF RejectPath, TypeOK
<1>2. CASE f \in Top /\ (NothingToScan(f) \/ NoScannerFound(f))
  BY <1>2 DEF NothingToScan, NoScannerFound, TypeOK
<1>3. ASSUME NEW t \in Task, SaveScanState(t), Target(t) = f, progress'[f] = read[t].progress
      PROVE  progress'[f] = "full"
  BY <1>3 DEF ReadsAreRight, SaveScanState, SaveThen, LockingFile
<1>4. QED
  BY <1>1, <1>2, <1>3, ProgressFrom

\* An answered file gets no more scans, and none of its scans is pending again.
LEMMA AnsweredStays ==
    ASSUME TypeOK, RunsKnown, redelivered' \subseteq PerformScanTask, [Next]_vars,
           NEW x \in File, Answered(x)
    PROVE  Answered(x)' /\ row'[x] = row[x] /\ row[x] = "valid"
<1>1. row[x] = "valid"
  BY DEF RunsKnown, AnswersKnown, Answered, Scans
<1>2. ASSUME scan'[x] = scan[x] PROVE Answered(x)'
  BY <1>2 DEF Answered, Scans, Pending
<1>3. ASSUME NEW a \in Agent, SaveResult(x, a) PROVE Answered(x)'
  <2>1. PICK result \in Result : scan' = [scan EXCEPT ![x][a] = result]
    BY <1>3 DEF SaveResult
  <2>2. \A b \in Agent : scan'[x][b] = scan[x][b] \/ (b = a /\ scan'[x][b] \in Result)
    BY <2>1 DEF TypeOK
  <2>3. a \in Scans(x)'
    BY <2>1 DEF TypeOK, Scans, Result
  <2>4. Pending(x)' = {}
    BY <2>2 DEF Answered, Pending, Result
  <2>5. QED
    BY <2>3, <2>4 DEF Answered
<1>4. QED
  BY <1>1, <1>2, <1>3, RowsAndScans DEF Answered

\* Members are extracted before anything of their archive is scanned.
LEMMA ChildrenStay ==
    ASSUME TypeOK, RunsKnown, redelivered' \subseteq PerformScanTask, [Next]_vars,
           NEW f \in Top, NEW x \in Owned(f), Scans(x) # {}
    PROVE  Children(f)' = Children(f) /\ ValidChildren(f)' = ValidChildren(f)
<1>1. at[ScanFile(f)] \notin {"extract", "bulk"}
  BY DEF RunsKnown, UnscannedYet
<1>2. \A m \in MembersOf(f) : m \in File /\ m \in Member /\ ParentOf[m] = f
  BY DEF MembersOf, File
<1>3. \A m \in MembersOf(f) : row'[m] = row[m]
  BY <1>1, <1>2, RowsAndScans DEF TypeOK
<1>4. QED
  BY <1>3 DEF Children, ValidChildren, Created, MembersOf

\* What has once settled a file settles it for ever.
LEMMA SettledStays ==
    ASSUME TypeOK, SubjectOK, RunsKnown, redelivered' \subseteq PerformScanTask, [Next]_vars,
           ReadsAreRight, NEW f \in File, Settled(f)
    PROVE  Settled(f)'
<1>1. CASE f \in Top /\ row[f] = "rejected"
  BY <1>1, RowsAndScans DEF Settled
<1>2. CASE f \in Top /\ Unscannable(f)
  BY <1>2, ScanFileMoves DEF Settled, Unscannable
<1>3. CASE Children(f) = {} /\ Answered(f)
  <2>1. Answered(f)'
    BY <1>3, AnsweredStays
  <2>2. CASE f \in Top
    BY <1>3, <2>1, <2>2, ChildrenStay, OwnedApart DEF Settled, Answered
  <2>3. CASE f \notin Top
    <3>1. Children(f)' = {}
      BY <2>3, MembersAreLeaves, SessionAssumption DEF Children, MembersOf, File
    <3>2. QED
      BY <2>1, <3>1 DEF Settled
  <2>4. QED
    BY <2>2, <2>3
<1>4. CASE /\ ValidChildren(f) # {}
           /\ \A m \in ValidChildren(f) : Answered(m) /\ progress[m] = "full"
  <2>1. PICK m \in ValidChildren(f) : Answered(m)
    BY <1>4
  <2>2. f \in Top /\ m \in Owned(f)
    BY MembersAreLeaves DEF ValidChildren
  <2>3. ValidChildren(f)' = ValidChildren(f)
    BY <2>1, <2>2, ChildrenStay DEF Answered
  <2>4. \A c \in ValidChildren(f) : c \in File
    BY <2>2, MembersAreLeaves DEF ValidChildren
  <2>5. \A c \in ValidChildren(f) : Answered(c)' /\ progress'[c] = "full"
    BY <1>4, <2>4, AnsweredStays, FileStaysFull
  <2>6. QED
    BY <1>4, <2>3, <2>5 DEF Settled
<1>5. QED
  BY <1>1, <1>2, <1>3, <1>4 DEF Settled


\* What a task has read of the file it has locked stays right.
LEMMA ReadsStep ==
    ASSUME TypeOK, SubjectOK, RunsKnown, redelivered' \subseteq PerformScanTask, Small, [Next]_vars,
           SubjectsKnown, ScannersFirst, LocksExclude, FullIsSettled, ReadsAreRight
    PROVE  ReadsAreRight'
<1> SUFFICES ASSUME NEW t \in Task, NEW f \in File,
                    at'[t] \in LockingFile, Target(t)' = f
             PROVE  /\ read'[t].progress = "full" => Settled(f)'
                    /\ progress'[f] = "full" => read'[t].progress = "full"
  BY DEF ReadsAreRight
<1>1. Target(t) = f
  BY LockHeld
<1>2. CASE at'[t] = at[t] /\ subject'[t] = subject[t] /\ read'[t] = read[t]
  <2>1. /\ read[t].progress = "full" => Settled(f)
        /\ progress[f] = "full" => read[t].progress = "full"
    BY <1>1, <1>2 DEF ReadsAreRight
  <2>2. Locked(f) /\ row[f] = "valid"
    BY <1>1, <1>2, TargetKnown DEF Locked, UpdatingFile
  <2>3. f \notin unread
    BY <2>2 DEF TypeOK, RunsKnown, IndexedOnce
  <2>4. ~NothingToScan(f) /\ ~NoScannerFound(f)
    BY <2>2 DEF NothingToScan, NoScannerFound
  <2>5. ASSUME NEW u \in Task, SaveScanState(u), Target(u) = f PROVE FALSE
    <3>1. u = t
      BY <1>1, <1>2, <2>5 DEF SaveScanState, SaveThen, LocksExclude, LockingFile
    <3>2. QED
      BY <1>2, <2>5, <3>1 DEF SaveScanState, SaveThen, Goto, TypeOK
  <2>6. progress'[f] = progress[f]
    BY <2>3, <2>4, <2>5, ProgressFrom
  <2>7. QED
    BY <1>2, <2>1, <2>6, SettledStays
<1>3. CASE ReadScanState(t)
  <2>1. at[t] \in UpdatingFile /\ ~NoValidChild(f) /\ UNCHANGED progress
    BY <1>1, <1>3 DEF ReadScanState, UpdatingFile, dbVars
  <2>2. row[f] = "valid" /\ (f \in Top => ~Unscannable(f))
    BY <1>1, <2>1, TargetKnown
  <2>3. /\ ProgressOf(f) = "full" => Settled(f)
        /\ progress[f] = "full" => ProgressOf(f) = "full"
    BY <2>1, <2>2, ProgressHasReason
  <2>4. read'[t].progress = ProgressOf(f)
    BY <1>1, <1>3 DEF ReadScanState, TypeOK, Reading
  <2>5. QED
    BY <2>1, <2>3, <2>4, SettledStays
<1>4. CASE JudgeScanState(t)
  <2>1. at[t] \in LockingFile /\ read'[t].progress = read[t].progress /\ UNCHANGED progress
    BY <1>4 DEF JudgeScanState, TypeOK, Reading, LockingFile, dbVars
  <2>2. QED
    BY <1>1, <2>1, SettledStays DEF ReadsAreRight
<1>5. QED
  BY <1>2, <1>3, <1>4, LockedFrom

\* A progress becomes 100 only for a reason.
LEMMA FullStep ==
    ASSUME TypeOK, SubjectOK, RunsKnown, redelivered' \subseteq PerformScanTask, [Next]_vars,
           ScannersFirst, FullIsSettled, ReadsAreRight
    PROVE  FullIsSettled'
<1> SUFFICES ASSUME NEW f \in File, progress'[f] = "full" PROVE Settled(f)'
  BY DEF FullIsSettled
<1>1. CASE progress[f] = "full"
  BY <1>1, SettledStays DEF FullIsSettled
<1>2. CASE f \in unread /\ row'[f] = "rejected"
  BY <1>2 DEF Settled, TypeOK
<1>3. CASE f \in Top /\ (NothingToScan(f) \/ NoScannerFound(f))
  <2>1. /\ at[ScanFile(f)] \in {"count", "loop"} /\ ~plan[f].exist
        /\ at' = [at EXCEPT ![ScanFile(f)] = "session"]
        /\ \/ UNCHANGED plan
           \/ \E x \in plan[f].todo : plan' = [plan EXCEPT ![f].todo = @ \ {x}]
    BY <1>3 DEF NothingToScan, NoScannerFound, Goto, ScannersFirst, taskVars
  <2>2. ~plan'[f].exist /\ at'[ScanFile(f)] = "session"
    <3>1. ScanFile(f) \in Task
      BY <1>3, TaskShape
    <3>2. plan'[f].exist = plan[f].exist
      BY <1>3, <2>1 DEF TypeOK, Plan
    <3>3. QED
      BY <2>1, <3>1, <3>2 DEF TypeOK
  <2>3. QED
    BY <1>3, <2>2 DEF Settled, Unscannable
<1>4. ASSUME NEW t \in Task, SaveScanState(t), Target(t) = f, progress'[f] = read[t].progress
      PROVE  Settled(f)'
  <2>1. Settled(f)
    BY <1>4 DEF ReadsAreRight, SaveScanState, SaveThen, LockingFile
  <2>2. QED
    BY <2>1, SettledStays
<1>5. QED
  BY <1>1, <1>2, <1>3, <1>4, ProgressFrom


-----------------------------------------------------------------------------
(* The progress of the session *)

\* The session is counted to be full only when its valid files all are, and
\* then it keeps its 100.
LEMMA CountedSession ==
    ASSUME TypeOK, Small
    PROVE  /\ SessionProgress = "full" => AllFull
           /\ AllFull /\ session.progress = "full" => SessionProgress = "full"
<1>1. CASE ValidTop = {}
  BY <1>1 DEF SessionProgress, AllFull
<1>2. CASE ValidTop # {}
  <2> DEFINE done == {f \in ValidTop : progress[f] = "full"}
  <2>1. IsFiniteSet(ValidTop) /\ Cardinality(ValidTop) < 2000
    BY SmallCounts DEF ValidTop, File
  <2>2. SessionProgress = RoundedProgress(Cardinality(done), Cardinality(ValidTop))
    BY <1>2 DEF SessionProgress
  <2>3. done \in SUBSET ValidTop /\ (AllFull <=> done = ValidTop)
    BY DEF AllFull
  <2> HIDE DEF done
  <2>4. RoundedProgress(Cardinality(done), Cardinality(ValidTop)) = "full" <=> done = ValidTop
    BY <2>1, <2>3, CountedFull
  <2>5. QED
    BY <2>2, <2>3, <2>4
<1>3. QED
  BY <1>1, <1>2

\* Two steps write the progress of the session.
LEMMA SessionFrom ==
    ASSUME TypeOK, [Next]_vars, session'.progress # session.progress
    PROVE  \/ StartIngest /\ session'.progress = "full"
           \/ \E t \in Task : SaveProgress(t) /\ session'.progress = read[t].progress
<1> USE DEF TypeOK, dbVars, taskVars, userVars
<1>1. IngestStep => StartIngest /\ session'.progress = "full"
  <2>1. IngestStep => StartIngest
    BY DEF IngestStep, CountPath, CreateFile, RejectPath, EndIngest
  <2>2. StartIngest => session'.progress = "full"
    BY DEF StartIngest
  <2>3. QED
    BY <2>1, <2>2
<1>2. \A f \in Top : ~ScanFileStep(f)
  BY DEF ScanFileStep, StartScanFile, ReuseChildren, FailExtraction, ExtractRejected,
     ExtractValid, CountAgents, NothingToScan, NoScannerFound, CreateScans, FailScans,
     EndScanFile
<1>3. \A x \in File, a \in Agent : ~PerformScanStep(x, a)
  BY DEF PerformScanStep, StartPerformScan, SaveResult, LeaveScan
<1>4. ASSUME NEW t \in Task, UpdateStep(t)
      PROVE  SaveProgress(t) /\ session'.progress = read[t].progress
  <2>1. SaveProgress(t)
    BY <1>4 DEF UpdateStep, ReadScanState, JudgeScanState, SaveScanState, SaveThen,
       FailScanState, CountFiles, Publish
  <2>2. QED
    BY <2>1 DEF SaveProgress
<1>5. /\ ~AcceptPostscan /\ ~CopyCleanFiles /\ ~UNCHANGED vars
      /\ \A a \in Agent : ~DeactivateAgent(a) /\ ~DeleteAgent(a)
      /\ \A t \in Task : ~Redeliver(t)
  BY DEF AcceptPostscan, CopyCleanFiles, DeactivateAgent, DeleteAgent, Redeliver, vars
<1>6. ~FaultStep
  BY FaultLeaves
<1>7. QED
  BY <1>1, <1>2, <1>3, <1>4, <1>5, <1>6 DEF Next, WorkerStep

\* Only the task that indexes makes a file of Top valid.
LEMMA ValidFrom ==
    ASSUME TypeOK, [Next]_vars, NEW f \in Top, row[f] # "valid", row'[f] = "valid"
    PROVE  CreateFile /\ f = subject'[Ingest] /\ at'[Ingest] = "file"
<1> USE DEF TypeOK, dbVars, taskVars, userVars
<1>1. IngestStep => CreateFile /\ f = subject'[Ingest] /\ at'[Ingest] = "file"
  <2>1. ASSUME RejectPath PROVE FALSE
    BY <2>1 DEF RejectPath
  <2>2. ASSUME CreateFile PROVE f = subject'[Ingest] /\ at'[Ingest] = "file"
    BY <2>2, TaskShape DEF CreateFile, Goto
  <2>3. QED
    BY <2>1, <2>2 DEF IngestStep, StartIngest, CountPath, EndIngest
<1>2. ASSUME NEW g \in Top, ScanFileStep(g) PROVE FALSE
  <2>1. ~ExtractRejected(g) /\ ~ExtractValid(g)
    BY SessionAssumption DEF ExtractRejected, ExtractValid, MembersOf, File
  <2>2. QED
    BY <1>2, <2>1 DEF ScanFileStep, StartScanFile, ReuseChildren, FailExtraction, CountAgents,
       NothingToScan, NoScannerFound, CreateScans, FailScans, EndScanFile
<1>3. \A x \in File, a \in Agent : ~PerformScanStep(x, a)
  BY DEF PerformScanStep, StartPerformScan, SaveResult, LeaveScan
<1>4. \A t \in Task : ~UpdateStep(t)
  BY DEF UpdateStep, ReadScanState, JudgeScanState, SaveScanState, SaveThen, FailScanState,
     CountFiles, SaveProgress, Publish
<1>5. /\ ~AcceptPostscan /\ ~CopyCleanFiles /\ ~UNCHANGED vars
      /\ \A a \in Agent : ~DeactivateAgent(a) /\ ~DeleteAgent(a)
      /\ \A t \in Task : ~Redeliver(t)
  BY DEF AcceptPostscan, CopyCleanFiles, DeactivateAgent, DeleteAgent, Redeliver, vars
<1>6. ~FaultStep
  BY FaultLeaves
<1>7. QED
  BY <1>1, <1>2, <1>3, <1>4, <1>5, <1>6 DEF Next, WorkerStep

\* A new file stays uncounted until the task that created it saves its count.
LEMMA UncountedStays ==
    ASSUME TypeOK, RunsKnown, redelivered' \subseteq PerformScanTask, [Next]_vars,
           SubjectsKnown, Uncounted
    PROVE  \/ SaveProgress(Ingest)
           \/ Uncounted' /\ subject'[Ingest] = subject[Ingest]
<1> USE DEF TypeOK, dbVars, taskVars, userVars
<1>0. Ingest \in Task /\ Ingest.kind = "ingest"
  BY TaskShape
<1>1. ~IngestStep
  BY DEF IngestStep, StartIngest, CountPath, CreateFile, RejectPath, EndIngest, Start, Uncounted
<1>2. ASSUME NEW f \in Top, ScanFileStep(f)
      PROVE  at'[Ingest] = at[Ingest] /\ subject'[Ingest] = subject[Ingest]
  <2>1. \E s \in Stage : at' = [at EXCEPT ![ScanFile(f)] = s]
    BY <1>2 DEF ScanFileStep, StartScanFile, ReuseChildren, FailExtraction, ExtractRejected,
       ExtractValid, CountAgents, NothingToScan, NoScannerFound, CreateScans, FailScans,
       EndScanFile, Start, Goto, Stage, Idle, Over, Updating
  <2>2. UNCHANGED subject \/ \E x : subject' = [subject EXCEPT ![ScanFile(f)] = x]
    BY <1>2 DEF ScanFileStep, StartScanFile, ReuseChildren, FailExtraction, ExtractRejected,
       ExtractValid, CountAgents, NothingToScan, NoScannerFound, CreateScans, FailScans,
       EndScanFile
  <2>3. QED
    BY <1>0, <2>1, <2>2, TasksDiffer
<1>3. ASSUME NEW x \in File, NEW a \in Agent, PerformScanStep(x, a)
      PROVE  at'[Ingest] = at[Ingest] /\ subject'[Ingest] = subject[Ingest]
  <2>1. \E s \in {"scanning", "file"} : at' = [at EXCEPT ![PerformScan(x, a)] = s]
    BY <1>3 DEF PerformScanStep, StartPerformScan, SaveResult, LeaveScan, Start, Goto
  <2>2. UNCHANGED subject \/ \E y : subject' = [subject EXCEPT ![PerformScan(x, a)] = y]
    BY <1>3 DEF PerformScanStep, StartPerformScan, SaveResult, LeaveScan
  <2>3. QED
    BY <1>0, <2>1, <2>2, TasksDiffer
<1>4. ASSUME NEW t \in Task, UpdateStep(t), ~SaveProgress(Ingest)
      PROVE  Uncounted' /\ subject'[Ingest] = subject[Ingest]
  <2>1. UNCHANGED subject
    BY <1>4 DEF UpdateStep, ReadScanState, JudgeScanState, SaveScanState, SaveThen,
       FailScanState, CountFiles, SaveProgress, Publish
  <2>2. ~FailScanState(Ingest)
    <3>1. SUFFICES ASSUME FailScanState(Ingest) PROVE FALSE
      OBVIOUS
    <3>2. /\ subject[Ingest] \in Top /\ at[ScanFile(subject[Ingest])] = "none"
          /\ Target(Ingest) = subject[Ingest]
      BY <3>1 DEF FailScanState, SubjectsKnown, UpdatingFile, ValidTop, Uncounted, Target
    <3>3. Children(subject[Ingest]) = {}
      BY <3>2 DEF RunsKnown, UnscannedYet
    <3>4. QED
      BY <3>1, <3>2, <3>3 DEF FailScanState, NoValidChild
  <2>3. CASE t = Ingest
    <3>1. CASE ReadScanState(Ingest)
      BY <1>0, <3>1 DEF ReadScanState, Goto, Uncounted
    <3>2. CASE JudgeScanState(Ingest)
      BY <1>0, <3>2 DEF JudgeScanState, Goto, Uncounted
    <3>3. CASE SaveScanState(Ingest)
      BY <1>0, <3>3 DEF SaveScanState, SaveThen, Goto, Uncounted
    <3>4. CASE CountFiles(Ingest)
      BY <1>0, <3>4 DEF CountFiles, Goto, Uncounted
    <3>5. ~Publish(Ingest)
      BY DEF Publish, Uncounted
    <3>6. QED
      BY <1>4, <2>1, <2>2, <2>3, <3>1, <3>2, <3>3, <3>4, <3>5 DEF UpdateStep
  <2>4. CASE t # Ingest /\ Publish(t)
    <3>1. PICK u \in outbox[t] :
            at' = [at EXCEPT ![u] = "queued",
                             ![t] = IF outbox[t] = {u} THEN Resume(t) ELSE "publish"]
      BY <2>4 DEF Publish
    <3>2. u # Ingest
      BY DEF RunsKnown, PublishedOnce, Uncounted
    <3>3. QED
      BY <1>0, <2>1, <2>4, <3>1, <3>2 DEF Uncounted
  <2>5. CASE t # Ingest /\ ~Publish(t)
    <3>1. \E s \in Stage : at' = [at EXCEPT ![t] = s]
      BY <1>4, <2>5, ResumeStage DEF UpdateStep, ReadScanState, JudgeScanState, SaveScanState,
         SaveThen, FailScanState, CountFiles, SaveProgress, Goto, Stage, Idle, Over, Updating
    <3>2. QED
      BY <1>0, <2>1, <2>5, <3>1 DEF Uncounted
  <2>6. QED
    BY <2>3, <2>4, <2>5
<1>5. ASSUME \/ AcceptPostscan \/ CopyCleanFiles \/ UNCHANGED vars
             \/ \E a \in Agent : DeactivateAgent(a) \/ DeleteAgent(a)
      PROVE  UNCHANGED <<at, subject>>
  BY <1>5 DEF AcceptPostscan, CopyCleanFiles, DeactivateAgent, DeleteAgent, vars
<1>6. ASSUME NEW t \in Task, Redeliver(t) PROVE at'[Ingest] = at[Ingest] /\ UNCHANGED subject
  <2>1. t # Ingest
    BY <1>6, TasksDiffer DEF Redeliver, PerformScanTask
  <2>2. QED
    BY <1>0, <1>6, <2>1 DEF Redeliver
<1>7. ASSUME FaultStep PROVE at'[Ingest] = at[Ingest] /\ UNCHANGED subject
  <2>1. Ingest \notin PerformScanTask
    BY TasksDiffer DEF PerformScanTask
  <2>2. QED
    BY <1>0, <1>7, <2>1, FaultLeaves, TasksDiffer DEF CutAt, Uncounted
<1>8. QED
  BY <1>1, <1>2, <1>3, <1>4, <1>5, <1>6, <1>7 DEF Next, WorkerStep, Uncounted


\* The session has 100 only when its files do, but for a file just created.
LEMMA SessionStep ==
    ASSUME TypeOK, SubjectOK, RunsKnown, redelivered' \subseteq PerformScanTask, Small, [Next]_vars,
           SubjectsKnown, LocksExclude, ReadsAreRight, SessionIsRight
    PROVE  SessionIsRight'
<1>1. ASSUME NEW t \in Task, SaveProgress(t)
      PROVE  /\ at[t] = "sessionSaving" /\ at'[t] # "sessionSaving"
             /\ read[t].progress = "full" => AllFull
  BY <1>1, ResumeStage DEF SaveProgress, Goto, TypeOK, SessionIsRight
<1>2. Ingest \in Task
  BY TaskShape
<1>3. ASSUME NEW f \in Top, row'[f] = "valid", session'.progress = "full"
      PROVE  progress'[f] = "full" \/ (Uncounted' /\ f = subject'[Ingest])
  <2>1. f \in File
    BY DEF File
  <2>2. CASE row[f] # "valid"
    BY <1>3, <2>2, ValidFrom DEF Uncounted
  <2>3. ASSUME row[f] = "valid", AllFull PROVE progress'[f] = "full"
    BY <2>1, <2>3, FileStaysFull DEF AllFull, ValidTop
  <2>4. CASE row[f] = "valid" /\ session.progress # "full"
    <3>1. ~StartIngest
      BY <2>4 DEF StartIngest, Start, RunsKnown, IndexedOnce
    <3>2. QED
      BY <1>1, <1>3, <2>3, <2>4, <3>1, SessionFrom
  <2>5. CASE row[f] = "valid" /\ session.progress = "full"
    <3>1. progress[f] = "full" \/ (Uncounted /\ f = subject[Ingest])
      BY <2>5 DEF SessionIsRight, ValidTop
    <3>2. SaveProgress(Ingest) => read[Ingest].progress = "full"
      BY <1>3 DEF SaveProgress, TypeOK
    <3>3. QED
      BY <1>1, <1>2, <2>1, <2>3, <2>5, <3>1, <3>2, FileStaysFull, UncountedStays
  <2>6. QED
    BY <2>2, <2>4, <2>5
<1>4. ASSUME NEW t \in Task, at'[t] = "sessionSaving"
      PROVE  /\ read'[t].progress = "full" => AllFull'
             /\ session'.progress = "full" /\ ~Uncounted' => read'[t].progress = "full"
  <2>1. CASE at'[t] = at[t] /\ read'[t] = read[t]
    <3>1. SessionLocked
      BY <1>4, <2>1 DEF SessionLocked
    <3>2. ~CreateFile /\ ~StartIngest
      BY <3>1 DEF CreateFile, StartIngest
    <3>3. ASSUME NEW f \in Top, row'[f] = "valid", AllFull PROVE progress'[f] = "full"
      BY <3>2, <3>3, ValidFrom, FileStaysFull DEF AllFull, ValidTop, File
    <3>4. ASSUME NEW u \in Task PROVE ~SaveProgress(u)
      <4>1. SaveProgress(u) => u = t
        BY <1>1, <1>4, <2>1 DEF LocksExclude
      <4>2. QED
        BY <1>1, <1>4, <4>1
    <3>5. session'.progress = session.progress
      BY <3>2, <3>4, SessionFrom
    <3>6. Uncounted => Uncounted'
      BY <1>2, <3>4, UncountedStays
    <3>7. read[t].progress = "full" => AllFull
      BY <1>4, <2>1 DEF SessionIsRight
    <3>8. session.progress = "full" /\ ~Uncounted => read[t].progress = "full"
      BY <1>4, <2>1 DEF SessionIsRight
    <3>9. AllFull => AllFull'
      BY <3>3 DEF AllFull, ValidTop
    <3>10. QED
      BY <2>1, <3>5, <3>6, <3>7, <3>8, <3>9
  <2>2. CASE CountFiles(t)
    <3>1. /\ read'[t].progress = SessionProgress
          /\ UNCHANGED <<row, progress, session, subject>>
          /\ at' = [at EXCEPT ![t] = "sessionSaving"]
      BY <2>2 DEF CountFiles, Goto, TypeOK, Reading, dbVars
    <3>2. AllFull' <=> AllFull
      BY <3>1 DEF AllFull, ValidTop
    <3>3. Uncounted => Uncounted'
      BY <1>2, <3>1 DEF Uncounted, TypeOK
    <3>4. session.progress = "full" /\ ~Uncounted => AllFull
      BY DEF SessionIsRight, AllFull
    <3>5. QED
      BY <3>1, <3>2, <3>3, <3>4, CountedSession
  <2>3. QED
    BY <1>4, <2>1, <2>2, SessionLockedFrom
<1>5. QED
  BY <1>3, <1>4 DEF SessionIsRight, ValidTop, AllFull

-----------------------------------------------------------------------------
(* The theorems *)

\* Every reason for a progress of 100 excludes a scan that is outstanding.
LEMMA SettledIsDone ==
    ASSUME TypeOK, RunsKnown, ScannersFirst, NEW f \in File, Settled(f), NEW x \in Leaves(f)
    PROVE  Pending(x) = {}
<1>1. \A y : Scans(y) = {} => Pending(y) = {}
  BY DEF Scans, Pending
<1>2. f \in Top => x \in Owned(f)
  BY OwnedApart, MembersAreLeaves DEF Leaves
<1>3. CASE f \in Top /\ row[f] = "rejected"
  <2>1. at[ScanFile(f)] = "none"
    BY <1>3 DEF RunsKnown, IndexedOnce
  <2>2. QED
    BY <1>1, <1>2, <1>3, <2>1 DEF RunsKnown, UnscannedYet
<1>4. CASE f \in Top /\ Unscannable(f)
  BY <1>1, <1>2, <1>4 DEF Unscannable, ScannersFirst
<1>5. CASE Children(f) = {} /\ Answered(f)
  BY <1>5 DEF Leaves, Answered
<1>6. CASE ValidChildren(f) # {} /\ \A m \in ValidChildren(f) : Answered(m)
  <2>1. CASE x \in ValidChildren(f)
    BY <1>6, <2>1 DEF Answered
  <2>2. CASE x \in Children(f) /\ row[x] # "valid"
    <3>1. x \in File
      BY <2>2, MembersAreLeaves
    <3>2. Scans(x) = {}
      BY <2>2, <3>1 DEF RunsKnown, AnswersKnown, Scans
    <3>3. QED
      BY <1>1, <3>2
  <2>3. x \in Children(f)
    BY <1>6 DEF Leaves, ValidChildren
  <2>4. QED
    BY <2>1, <2>2, <2>3 DEF ValidChildren
<1>7. QED
  BY <1>3, <1>4, <1>5, <1>6 DEF Settled

\* The invariant holds in every state, until another task than perform_scan is run again.
LEMMA ProgressIsRight ==
    "rescan" \notin Source /\ Small => (Spec => [](OnlyScansAgain => RunsKnown /\ ProgressInv))
<1> SUFFICES ASSUME "rescan" \notin Source, Small
             PROVE  Spec => [](OnlyScansAgain => RunsKnown /\ ProgressInv)
  OBVIOUS
<1>1. Init => ProgressInv
  <2> SUFFICES ASSUME Init PROVE ProgressInv
    OBVIOUS
  <2>1. /\ progress = [f \in File |-> "none"] /\ session.progress = "none"
        /\ plan = [f \in Top |-> NoPlan] /\ scan = [f \in File |-> [a \in Agent |-> "none"]]
    BY DEF Init, FromDisk, FromRequest, NothingRead, File
  <2>2. \A t \in Task : at[t] \in {"none", "queued", "refused"}
    BY DEF Init, FromDisk, FromRequest, Sent
  <2>3. SubjectsKnown /\ LocksExclude /\ ReadsAreRight
    BY <2>2, TaskShape DEF SubjectsKnown, LocksExclude, ReadsAreRight, UpdatingFile, LockingFile
  <2>4. ScannersFirst
    <3>1. \A f \in Top : ~plan[f].exist
      BY <2>1 DEF NoPlan
    <3>2. \A x \in File : Scans(x) = {}
      BY <2>1 DEF Scans
    <3>3. QED
      BY <3>1, <3>2, OwnedApart DEF ScannersFirst
  <2>5. FullIsSettled /\ SessionIsRight
    BY <2>1, <2>2 DEF FullIsSettled, SessionIsRight
  <2>6. QED
    BY <2>3, <2>4, <2>5 DEF ProgressInv
<1>2. ASSUME TypeOK, SubjectOK, OnlyScansAgain => RunsKnown, OnlyScansAgain => ProgressInv,
             [Next]_vars, OnlyScansAgain'
      PROVE  ProgressInv'
  <2>1. redelivered' \subseteq PerformScanTask /\ RunsKnown /\ ProgressInv
    BY <1>2, RedeliveredGrows DEF OnlyScansAgain
  <2>2. QED
    BY <1>2, <2>1, SubjectsStep, ScannersFirstStep, LocksStep, FullStep, ReadsStep, SessionStep
       DEF ProgressInv
<1>3. /\ TypeOK /\ SubjectOK /\ (OnlyScansAgain => RunsKnown)
      /\ (OnlyScansAgain => ProgressInv) /\ [Next]_vars
      => (OnlyScansAgain => ProgressInv)'
  BY <1>2
<1>4. Spec => [](OnlyScansAgain => ProgressInv)
  BY <1>1, <1>3, TypesAndSubjects, RunsAreKnown, PTL DEF Spec
<1>5. QED
  BY <1>4, RunsAreKnown, PTL

\* A file with progress 100 has no scan outstanding, neither of its own nor of a
\* member: update_scan_state never runs ahead of the scans, however the workers
\* interleave and whichever agents are deactivated or deleted meanwhile.
THEOREM FullFilesAreDone ==
    /\ "rescan" \notin Source /\ Redeliverable \subseteq {"perform_scan"} /\ Small
    => (Spec => []FullIsDone)
<1> SUFFICES ASSUME "rescan" \notin Source, Redeliverable \subseteq {"perform_scan"}, Small
             PROVE  Spec => []FullIsDone
  OBVIOUS
<1>1. TypeOK /\ RunsKnown /\ ProgressInv => FullIsDone
  BY SettledIsDone DEF ProgressInv, FullIsSettled, FullIsDone
<1>2. QED
  BY <1>1, TypesAndSubjects, RedeliveredFrom, ProgressIsRight, PTL

\* Once every path is indexed, a session with progress 100 has no valid file left
\* to scan, although its progress is computed and saved by concurrent tasks.
THEOREM CompleteSessionsAreScanned ==
    /\ "rescan" \notin Source /\ Redeliverable \subseteq {"perform_scan"} /\ Small
    => (Spec => []CompleteMeansScanned)
<1> SUFFICES ASSUME "rescan" \notin Source, Redeliverable \subseteq {"perform_scan"}, Small
             PROVE  Spec => []CompleteMeansScanned
  OBVIOUS
<1>1. ProgressInv => CompleteMeansScanned
  BY DEF ProgressInv, SessionIsRight, CompleteMeansScanned, IngestOver, Over, Complete, Uncounted
<1>2. QED
  BY <1>1, RedeliveredFrom, ProgressIsRight, PTL

\* The progress of a file never leaves 100, nor does that of a session whose paths
\* are all indexed: no task saves what it has computed from a state that is gone.
THEOREM ProgressIsFinal ==
    /\ "rescan" \notin Source /\ Redeliverable \subseteq {"perform_scan"} /\ Small
    => (Spec => FullStaysFull)
<1> SUFFICES ASSUME "rescan" \notin Source, Redeliverable \subseteq {"perform_scan"}, Small
             PROVE  Spec => FullStaysFull
  OBVIOUS
<1>1. ASSUME TypeOK, SubjectOK, RunsKnown, ProgressInv, OnlyScansAgain', [Next]_vars
      PROVE  [/\ \A f \in File : progress[f] = "full" => progress'[f] = "full"
              /\ IngestOver /\ session.progress = "full" => session'.progress = "full"]_vars
  <2>1. \A f \in File : progress[f] = "full" => progress'[f] = "full"
    BY <1>1, FileStaysFull DEF ProgressInv, OnlyScansAgain
  <2>2. ASSUME IngestOver, session.progress = "full" PROVE session'.progress = "full"
    <3>1. ~Uncounted
      BY <2>2 DEF IngestOver, Over, Uncounted
    <3>2. \A t \in Task : SaveProgress(t) => read[t].progress = "full"
      BY <1>1, <2>2, <3>1 DEF ProgressInv, SessionIsRight, SaveProgress
    <3>3. QED
      BY <1>1, <2>2, <3>2, SessionFrom
  <2>3. QED
    BY <2>1, <2>2
<1>2. QED
  BY <1>1, TypesAndSubjects, RedeliveredFrom, ProgressIsRight, PTL DEF Spec, FullStaysFull

-----------------------------------------------------------------------------
(* Why a verdict is final *)

\* No scan is missing from a verdict "infected".
LEMMA InfectedLeaf ==
    ASSUME NEW x \in File, EvalInfected(x) = "infected"
    PROVE  Answered(x)
<1>1. Cardinality(Scans(x)) # 0 /\ ~(Cardinality(Pending(x)) > 0)
  BY DEF EvalInfected, LeafVerdict
<1>2. IsFiniteSet(Pending(x))
  BY SessionAssumption, FS_Subset DEF Pending
<1>3. Scans(x) # {}
  BY <1>1, FS_EmptySet
<1>4. Pending(x) = {}
  BY <1>1, <1>2, FS_EmptySet, FS_CardinalityType
<1>5. QED
  BY <1>3, <1>4 DEF Answered

\* Judged again, an earned verdict "clean" is "clean" again.
LEMMA EarnedAgain ==
    /\ \A x : EarnedClean(x) => EvalInfected(x) = "clean"
    /\ \A f : AllEarned(f) => VerdictOf(f) = {"clean"}
<1>1. ASSUME NEW x, EarnedClean(x) PROVE EvalInfected(x) = "clean"
  <2> DEFINE total == Cardinality(Scans(x))
             errors == Cardinality(With(x, {"error"}))
             detections == Cardinality(With(x, {"infected"}))
  <2>1. With(x, {"pending", "error"}) = With(x, {"error"}) /\ Pending(x) = {} /\ Scans(x) # {}
    BY <1>1 DEF EarnedClean, With, Pending
  <2>2. /\ IsFiniteSet(Scans(x))
        /\ IsFiniteSet(With(x, {"error"})) /\ IsFiniteSet(With(x, {"infected"}))
    BY SessionAssumption, FS_Subset DEF Scans, With
  <2>3. total \in Nat /\ total # 0 /\ errors \in Nat /\ detections \in Nat /\ Cardinality({}) = 0
    BY <2>1, <2>2, FS_CardinalityType, FS_EmptySet
  <2>4. Scale * errors < (Scale - ValidIndex) * total
        /\ Scale * detections < (Scale - CleanIndex) * total
    BY <1>1 DEF EarnedClean
  <2>5. EvalInfected(x) = LeafVerdict(total, 0, errors, detections)
    BY <2>1, <2>3 DEF EvalInfected
  <2> HIDE DEF total, errors, detections
  <2>6. LeafVerdict(total, 0, errors, detections) = "clean"
    <3>1. /\ Scale * errors \in Int /\ (Scale - ValidIndex) * total \in Int
          /\ Scale * detections \in Int /\ (Scale - CleanIndex) * total \in Int
      BY <2>3, IndexAssumption
    <3>2. /\ ~(Scale * errors >= (Scale - ValidIndex) * total)
          /\ ~(Scale * detections >= (Scale - CleanIndex) * total)
      BY <2>4, <3>1
    <3>3. QED
      BY <2>3, <3>2 DEF LeafVerdict
  <2>7. QED
    BY <2>5, <2>6
<1>2. ASSUME NEW f, AllEarned(f) PROVE VerdictOf(f) = {"clean"}
  BY <1>1, <1>2 DEF AllEarned, Leaves, VerdictOf, ArchiveVerdicts
<1>3. QED
  BY <1>1, <1>2

\* A file without children has had none.
LEMMA ChildrenGrow ==
    ASSUME TypeOK, RunsKnown, [Next]_vars,
           NEW f \in File, Children(f)' = {}
    PROVE  Children(f) = {}
<1>1. \A m \in Children(f) : m \in File /\ row[m] # "none" /\ row'[m] = row[m]
  BY RowsAndScans DEF Children, MembersOf, Created, File
<1>2. QED
  BY <1>1 DEF Children, MembersOf, Created

\* A verdict "infected" on a file without children stays that of its scans.
LEMMA InfectedStays ==
    ASSUME TypeOK, TasksRunOnce, [Next]_vars,
           NEW f \in File, Answered(f), EvalInfected(f) = "infected"
    PROVE  Answered(f)' /\ EvalInfected(f)' = "infected"
<1>1. Answered(f)' /\ scan'[f] = scan[f]
  BY AnswersStand DEF Answered, Scans, Pending
<1>2. EvalInfected(f)' = EvalInfected(f)
  BY <1>1 DEF EvalInfected, Scans, Pending, With
<1>3. QED
  BY <1>1, <1>2

\* What is stored, and what is about to be, stays what the scans say.
LEMMA StandStep ==
    ASSUME TypeOK, SubjectOK, TasksRunOnce, [Next]_vars,
           LocksExclude, VerdictsEarned, VerdictsStand
    PROVE  VerdictsStand'
<1>1. ASSUME NEW f \in File, infected'[f] = "infected", Children(f)' = {}
      PROVE  Answered(f)' /\ EvalInfected(f)' = "infected"
  <2>1. Children(f) = {}
    BY <1>1, ChildrenGrow, KnownFromOnce
  <2>2. CASE infected[f] = "infected"
    BY <2>1, <2>2, InfectedStays DEF VerdictsStand
  <2>3. CASE infected[f] # "infected"
    <3>1. PICK t \in Task : SaveScanState(t) /\ Target(t) = f /\ read[t].infected = "infected"
      BY <1>1, <2>3, VerdictFrom
    <3>2. Answered(f) /\ EvalInfected(f) = "infected"
      BY <2>1, <3>1 DEF VerdictsStand, SaveScanState, SaveThen, Saving
    <3>3. QED
      BY <3>2, InfectedStays
  <2>4. QED
    BY <2>2, <2>3
<1>2. ASSUME NEW t \in Task, NEW f \in File, at'[t] \in Saving, Target(t)' = f
      PROVE  /\ read'[t].infected = "infected" /\ Children(f)' = {} =>
                  Answered(f)' /\ EvalInfected(f)' = "infected"
             /\ infected'[f] = "clean" \/ (infected'[f] = "infected" /\ Children(f)' = {}) =>
                  read'[t].infected = infected'[f]
  <2>1. Target(t) = f
    BY <1>2, LockHeld DEF Saving, LockingFile
  <2>2. CASE at'[t] = at[t] /\ subject'[t] = subject[t] /\ read'[t] = read[t]
    <3>1. ASSUME NEW u \in Task, SaveScanState(u), Target(u) = f PROVE FALSE
      <4>1. u = t
        BY <1>2, <2>1, <2>2, <3>1
           DEF SaveScanState, SaveThen, LocksExclude, LockingFile, Saving
      <4>2. QED
        BY <2>2, <3>1, <4>1 DEF SaveScanState, SaveThen, Goto, TypeOK
    <3>2. infected'[f] = infected[f]
      BY <3>1, VerdictFrom
    <3>3. QED
      BY <1>2, <2>1, <2>2, <3>2, ChildrenGrow, KnownFromOnce, InfectedStays DEF VerdictsStand
  <2>3. CASE JudgeScanState(t)
    <3>1. PICK v \in VerdictOf(f) : read' = [read EXCEPT ![t].infected = v]
      BY <2>1, <2>3 DEF JudgeScanState
    <3>2. read'[t].infected = v /\ UNCHANGED infected
      BY <2>3, <3>1 DEF JudgeScanState, TypeOK, Reading, dbVars
    <3>3. Children(f) = {} => v = EvalInfected(f)
      BY <3>1 DEF VerdictOf
    <3>4. infected[f] = "clean" => v = "clean"
      <4>1. infected[f] = "clean" => AllEarned(f)
        BY DEF VerdictsEarned, CleanIsEarned, AllEarned
      <4>2. QED
        BY <3>1, <4>1, EarnedAgain
    <3>5. infected[f] = "infected" /\ Children(f) = {} => EvalInfected(f) = "infected"
      BY DEF VerdictsStand
    <3>6. QED
      BY <3>2, <3>3, <3>4, <3>5, ChildrenGrow, KnownFromOnce, InfectedLeaf, InfectedStays
  <2>4. QED
    BY <1>2, <2>2, <2>3, SavingStays
<1>3. QED
  BY <1>1, <1>2 DEF VerdictsStand

\* The verdicts that are stored, or about to be, stand in every state.
LEMMA AlwaysStand ==
    "rescan" \notin Source /\ Redeliverable = {} => (Spec => []VerdictsStand)
<1> SUFFICES ASSUME "rescan" \notin Source, Redeliverable = {}
             PROVE  Spec => []VerdictsStand
  OBVIOUS
<1>1. Init => LocksExclude /\ VerdictsStand
  <2> SUFFICES ASSUME Init PROVE LocksExclude /\ VerdictsStand
    OBVIOUS
  <2>1. infected = [f \in File |-> "unknown"] /\ \A t \in Task : at[t] \in {"none", "queued", "refused"}
    BY DEF Init, FromDisk, FromRequest, NothingRead, Sent
  <2>2. QED
    BY <2>1 DEF LocksExclude, VerdictsStand, LockingFile, Saving
<1>2. /\ TypeOK /\ SubjectOK /\ TasksRunOnce /\ VerdictsEarned /\ [Next]_vars
      /\ LocksExclude /\ VerdictsStand
      => (LocksExclude /\ VerdictsStand)'
  BY LocksStep, StandStep
<1>3. QED
  BY <1>1, <1>2, TypesAndSubjects, EveryTaskRunsOnce, AlwaysEarned, PTL DEF Spec

\* A known verdict on a file without children is never taken back, nor is the
\* verdict "clean" on an archive, by any update that is late.
THEOREM VerdictsAreFinal ==
    "rescan" \notin Source /\ Redeliverable = {} => (Spec => VerdictIsFinal)
<1> SUFFICES ASSUME "rescan" \notin Source, Redeliverable = {}
             PROVE  Spec => VerdictIsFinal
  OBVIOUS
<1>1. ASSUME TypeOK, VerdictsStand, [Next]_vars
      PROVE  [\A f \in File :
                infected[f] = "clean" \/ (infected[f] = "infected" /\ Children(f) = {})
                   => infected'[f] = infected[f]]_vars
  <2> SUFFICES ASSUME NEW f \in File, infected'[f] # infected[f],
                      infected[f] = "clean" \/ (infected[f] = "infected" /\ Children(f) = {})
               PROVE  FALSE
    OBVIOUS
  <2>1. PICK t \in Task : SaveScanState(t) /\ Target(t) = f /\ infected'[f] = read[t].infected
    BY <1>1, VerdictFrom
  <2>2. QED
    BY <1>1, <2>1 DEF VerdictsStand, SaveScanState, SaveThen, Saving
<1>2. QED
  BY <1>1, TypesAndSubjects, AlwaysStand, PTL DEF Spec, VerdictIsFinal
=============================================================================
