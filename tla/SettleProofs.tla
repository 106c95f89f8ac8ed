---------------------------- MODULE SettleProofs ----------------------------
(***************************************************************************)
(* Why the updates leave nothing behind: when no task is left the rows of  *)
(* the files and of the session say what the scans say, and a session that *)
(* is not finished has a cause, which Cause names.  Under the assumptions of *)
(* ProgressProofs: not a re-scan, fewer than 2000 files and agents, agents *)
(* deactivated or deleted at any time, and every perform_scan run again at *)
(* any time, with another result, but no other task.                       *)
(***************************************************************************)
EXTENDS ProgressProofs

-----------------------------------------------------------------------------
(* What a step does to a scan, to an update and to an outbox *)

\* The task that is run again is a perform_scan, which starts anew.
LEMMA RunAgain ==
    ASSUME TypeOK, redelivered' \subseteq PerformScanTask, NEW t \in Task, Redeliver(t)
    PROVE  /\ \E x \in File, a \in Agent : t = PerformScan(x, a)
           /\ t # Ingest /\ \A f \in Top : t # ScanFile(f)
           /\ at' = [at EXCEPT ![t] = "queued"] /\ at[t] \notin Idle
<1>1. t \in redelivered'
  BY DEF Redeliver
<1>2. \E x \in File, a \in Agent : t = PerformScan(x, a)
  BY <1>1 DEF PerformScanTask
<1>3. QED
  BY <1>2, TasksDiffer DEF Redeliver

\* A scan is created with those of all the agents, all of them pending, or answered.
LEMMA ScanFrom ==
    ASSUME TypeOK, RunsKnown, [Next]_vars,
           NEW x \in File, scan'[x] # scan[x]
    PROVE  \/ \E f \in Top :
                /\ CreateScans(f) /\ x \in Owned(f) /\ x \in plan[f].todo
                /\ Scans(x) = {} /\ Pending(x)' = Scans(x)'
                /\ subject'[ScanFile(f)] = x
                /\ Scans(x)' = AgentsListed(f)
                /\ outbox'[ScanFile(f)] = {PerformScan(x, a) : a \in AgentsListed(f)}
           \/ \E a \in Agent : SaveResult(x, a) /\ Scans(x)' = Scans(x)
<1> USE DEF TypeOK, RunsKnown, dbVars, taskVars, userVars
<1>1. ~IngestStep
  BY DEF IngestStep, StartIngest, CountPath, CreateFile, RejectPath, EndIngest
<1>2. ASSUME NEW f \in Top, ScanFileStep(f)
      PROVE  /\ CreateScans(f) /\ x \in Owned(f) /\ x \in plan[f].todo
             /\ Scans(x) = {} /\ Pending(x)' = Scans(x)'
             /\ subject'[ScanFile(f)] = x
             /\ Scans(x)' = AgentsListed(f)
             /\ outbox'[ScanFile(f)] = {PerformScan(x, a) : a \in AgentsListed(f)}
  <2>1. CreateScans(f)
    BY <1>2 DEF ScanFileStep, StartScanFile, ReuseChildren, FailExtraction,
       ExtractRejected, ExtractValid, CountAgents, NothingToScan, NoScannerFound, FailScans,
       EndScanFile
  <2>2. PICK y \in plan[f].todo :
          /\ scan' = [scan EXCEPT ![y] =
                    [a \in Agent |-> IF a \in AgentsListed(f) THEN "pending" ELSE @[a]]]
          /\ subject' = [subject EXCEPT ![ScanFile(f)] = y]
          /\ outbox' = [outbox EXCEPT ![ScanFile(f)] = {PerformScan(y, a) : a \in AgentsListed(f)}]
    BY <2>1 DEF CreateScans
  <2>3. y = x
    BY <2>2
  <2>4. x \in Owned(f) /\ Scans(x) = {}
    BY <2>2, <2>3 DEF UnscannedYet
  <2>5. AgentsListed(f) \subseteq Agent
    BY DEF AgentsListed, ActiveAgents, Plan
  <2>6. \A a \in Agent : scan'[x][a] = IF a \in AgentsListed(f) THEN "pending" ELSE "none"
    <3>1. \A a \in Agent : scan[x][a] = "none"
      BY <2>4 DEF Scans
    <3>2. scan'[x] = [a \in Agent |-> IF a \in AgentsListed(f) THEN "pending" ELSE scan[x][a]]
      BY <2>2, <2>3
    <3>3. QED
      BY <3>1, <3>2
  <2>7. Scans(x)' = AgentsListed(f) /\ Pending(x)' = AgentsListed(f)
    BY <2>5, <2>6 DEF Scans, Pending
  <2>8. ScanFile(f) \in Task
    BY TaskShape
  <2>9. QED
    BY <2>1, <2>2, <2>3, <2>4, <2>7, <2>8
<1>3. ASSUME NEW y \in File, NEW a \in Agent, PerformScanStep(y, a)
      PROVE  y = x /\ SaveResult(x, a) /\ Scans(x)' = Scans(x)
  <2>1. SaveResult(y, a)
    BY <1>3 DEF PerformScanStep, StartPerformScan, LeaveScan
  <2>2. PICK result \in Result : scan' = [scan EXCEPT ![y][a] = result]
    BY <2>1 DEF SaveResult
  <2>3. y = x /\ scan[x][a] # "none"
    BY <2>1, <2>2 DEF SaveResult, AnswersKnown
  <2>4. Scans(x)' = Scans(x)
    BY <2>2, <2>3 DEF Scans, Result
  <2>5. QED
    BY <2>1, <2>3, <2>4
<1>4. \A t \in Task : ~UpdateStep(t)
  BY DEF UpdateStep, ReadScanState, JudgeScanState, SaveScanState, SaveThen,
         FailScanState, CountFiles, SaveProgress, Publish
<1>5. /\ ~AcceptPostscan /\ ~CopyCleanFiles /\ ~UNCHANGED vars
      /\ \A a \in Agent : ~DeactivateAgent(a) /\ ~DeleteAgent(a)
      /\ \A t \in Task : ~Redeliver(t)
  BY DEF AcceptPostscan, CopyCleanFiles, DeactivateAgent, DeleteAgent, Redeliver, vars
<1>6. ~FaultStep
  BY FaultLeaves
<1>7. QED
  BY <1>1, <1>2, <1>3, <1>4, <1>5, <1>6 DEF Next, WorkerStep

\* The last answer is saved by a perform_scan of the file.
LEMMA AnsweredFrom ==
    ASSUME TypeOK, RunsKnown, [Next]_vars,
           NEW x \in File, Answered(x)', ~Answered(x)
    PROVE  \E a \in Agent : SaveResult(x, a)
<1>1. scan'[x] # scan[x]
  BY DEF Answered, Scans, Pending
<1>2. QED
  BY <1>1, ScanFrom DEF Answered

\* A file with a scan gets no other.
LEMMA ScansKept ==
    ASSUME TypeOK, RunsKnown, [Next]_vars,
           NEW x \in File, Scans(x) # {}
    PROVE  Scans(x)' = Scans(x)
<1>1. CASE scan'[x] = scan[x]
  BY <1>1 DEF Scans
<1>2. CASE scan'[x] # scan[x]
  BY <1>2, ScanFrom
<1>3. QED
  BY <1>1, <1>2

\* Without scans, or with one that is pending, there is no verdict.
LEMMA NoVerdictYet ==
    ASSUME NEW x \in File, Scans(x) = {} \/ Pending(x) # {}
    PROVE  EvalInfected(x) = "unknown"
<1>1. IsFiniteSet(Pending(x))
  BY SessionAssumption, FS_Subset DEF Pending
<1>2. CASE Scans(x) = {}
  BY <1>2, FS_EmptySet DEF EvalInfected, LeafVerdict
<1>3. CASE Pending(x) # {}
  <2>1. Cardinality(Pending(x)) \in Nat /\ Cardinality(Pending(x)) # 0
    BY <1>1, <1>3, FS_CardinalityType, FS_EmptySet
  <2>2. QED
    BY <2>1 DEF EvalInfected, LeafVerdict
<1>4. QED
  BY <1>2, <1>3

\* Only a result changes the verdict of the scans of a file.
LEMMA EvalFrom ==
    ASSUME TypeOK, RunsKnown, [Next]_vars,
           NEW x \in File, EvalInfected(x)' # EvalInfected(x)
    PROVE  \E a \in Agent : SaveResult(x, a)
<1>1. scan'[x] # scan[x]
  BY DEF EvalInfected, Scans, Pending, With
<1>2. CASE Scans(x) = {} /\ Pending(x)' = Scans(x)'
  <2>1. EvalInfected(x) = "unknown"
    BY <1>2, NoVerdictYet
  <2>2. EvalInfected(x)' = "unknown"
    <3>1. Scans(x)' = {} \/ Pending(x)' # {}
      BY <1>2
    <3>2. CASE Scans(x)' = {}
      BY <3>2, FS_EmptySet DEF EvalInfected, LeafVerdict
    <3>3. CASE Pending(x)' # {}
      <4>1. IsFiniteSet(Pending(x)')
        BY SessionAssumption, FS_Subset DEF Pending
      <4>2. Cardinality(Pending(x)') \in Nat /\ Cardinality(Pending(x)') # 0
        BY <3>3, <4>1, FS_CardinalityType, FS_EmptySet
      <4>3. QED
        BY <4>2 DEF EvalInfected, LeafVerdict
    <3>4. QED
      BY <3>1, <3>2, <3>3
  <2>3. QED
    BY <2>1, <2>2
<1>3. QED
  BY <1>1, <1>2, ScanFrom

\* A task moves by its own steps, is published, cut short or run again.
LEMMA StageFrom ==
    ASSUME TypeOK, RunsKnown, [Next]_vars,
           NEW t \in Task, at'[t] # at[t]
    PROVE  \/ t = Ingest /\ IngestStep
           \/ \E f \in Top : t = ScanFile(f) /\ ScanFileStep(f)
           \/ \E x \in File, a \in Agent : t = PerformScan(x, a) /\ PerformScanStep(x, a)
           \/ ReadScanState(t) \/ JudgeScanState(t) \/ SaveScanState(t) \/ FailScanState(t)
           \/ CountFiles(t) \/ SaveProgress(t) \/ Publish(t)
           \/ Redeliver(t) \/ CutAt(t)
           \/ /\ at[t] = "none" /\ at'[t] = "queued"
              /\ \E u \in Task : Publish(u) /\ t \in outbox[u]
<1> USE DEF TypeOK, dbVars, taskVars, userVars
<1>1. ASSUME IngestStep PROVE t = Ingest
  <2>1. \E s : at' = [at EXCEPT ![Ingest] = s]
    BY <1>1 DEF IngestStep, StartIngest, CountPath, CreateFile, RejectPath, EndIngest, Start, Goto
  <2>2. QED
    BY <2>1
<1>2. ASSUME NEW f \in Top, ScanFileStep(f) PROVE t = ScanFile(f)
  <2>1. \E s : at' = [at EXCEPT ![ScanFile(f)] = s]
    BY <1>2 DEF ScanFileStep, StartScanFile, ReuseChildren, FailExtraction, ExtractRejected,
       ExtractValid, CountAgents, NothingToScan, NoScannerFound, CreateScans, FailScans,
       EndScanFile, Start, Goto
  <2>2. QED
    BY <2>1
<1>3. ASSUME NEW x \in File, NEW a \in Agent, PerformScanStep(x, a) PROVE t = PerformScan(x, a)
  <2>1. \E s : at' = [at EXCEPT ![PerformScan(x, a)] = s]
    BY <1>3 DEF PerformScanStep, StartPerformScan, SaveResult, LeaveScan, Start, Goto
  <2>2. QED
    BY <2>1
<1>4. ASSUME NEW u \in Task, UpdateStep(u), ~Publish(u) PROVE t = u
  <2>1. \E s : at' = [at EXCEPT ![u] = s]
    BY <1>4 DEF UpdateStep, ReadScanState, JudgeScanState, SaveScanState, SaveThen,
       FailScanState, CountFiles, SaveProgress, Goto
  <2>2. QED
    BY <2>1
<1>5. ASSUME NEW u \in Task, Publish(u), u # t
      PROVE  at[t] = "none" /\ at'[t] = "queued" /\ t \in outbox[u]
  <2>1. PICK v \in outbox[u] :
          at' = [at EXCEPT ![v] = "queued",
                           ![u] = IF outbox[u] = {v} THEN Resume(u) ELSE "publish"]
    BY <1>5 DEF Publish
  <2>2. v = t
    BY <1>5, <2>1
  <2>3. at'[t] = "queued"
    BY <1>5, <2>1, <2>2
  <2>4. QED
    BY <2>1, <2>2, <2>3 DEF RunsKnown, PublishedOnce
<1>6. /\ ~AcceptPostscan /\ ~CopyCleanFiles /\ ~UNCHANGED vars
      /\ \A a \in Agent : ~DeactivateAgent(a) /\ ~DeleteAgent(a)
      /\ \A u \in Task : Redeliver(u) => u = t
  BY DEF AcceptPostscan, CopyCleanFiles, DeactivateAgent, DeleteAgent, Redeliver, vars
<1>7. ASSUME UpdateStep(t)
      PROVE  \/ ReadScanState(t) \/ JudgeScanState(t) \/ SaveScanState(t) \/ FailScanState(t)
             \/ CountFiles(t) \/ SaveProgress(t) \/ Publish(t)
  BY <1>7 DEF UpdateStep
<1>8. FaultStep => CutAt(t)
  BY FaultLeaves
<1>9. QED
  BY <1>1, <1>2, <1>3, <1>4, <1>5, <1>6, <1>7, <1>8 DEF Next, WorkerStep

\* A perform_scan that ran out of time is not run again.
LEMMA OverrunStays ==
    ASSUME TypeOK, RunsKnown, redelivered' \subseteq PerformScanTask, [Next]_vars, Overran
    PROVE  Overran'
<1>1. PICK t \in PerformScanTask : at[t] = "failed"
  BY DEF Overran
<1>2. /\ t \in Task /\ t # Ingest /\ \A f \in Top : t # ScanFile(f)
  BY TasksDiffer DEF PerformScanTask, Task
<1>3. \A x \in File, a \in Agent : t = PerformScan(x, a) => ~PerformScanStep(x, a)
  BY <1>1 DEF PerformScanStep, StartPerformScan, SaveResult, LeaveScan, Start
<1>4. /\ ~ReadScanState(t) /\ ~JudgeScanState(t) /\ ~SaveScanState(t) /\ ~FailScanState(t)
      /\ ~CountFiles(t) /\ ~SaveProgress(t) /\ ~Publish(t) /\ ~Redeliver(t) /\ ~CutAt(t)
  BY <1>1, TasksDiffer DEF ReadScanState, JudgeScanState, SaveScanState, SaveThen,
     FailScanState, CountFiles, SaveProgress, Publish, Redeliver, Idle, Over, CutAt, Updating
<1>5. at'[t] = at[t]
  BY <1>1, <1>2, <1>3, <1>4, StageFrom
<1>6. QED
  BY <1>1, <1>5 DEF Overran

\* A task that updates a file or the session goes on by its own steps, or is run again,
\* as long as none runs out of time.
LEMMA UpdateMoves ==
    ASSUME TypeOK, RunsKnown, [Next]_vars, ~Overran',
           NEW t \in Task, at[t] \in UpdatingFile \cup {"session", "sessionSaving"}
    PROVE  \/ at'[t] = at[t] /\ subject'[t] = subject[t] /\ read'[t] = read[t]
           \/ ReadScanState(t) \/ JudgeScanState(t) \/ SaveScanState(t) \/ FailScanState(t)
           \/ CountFiles(t) \/ SaveProgress(t) \/ Redeliver(t)
<1> USE DEF TypeOK, UpdatingFile, LockingFile, dbVars, taskVars, userVars
<1>1. CASE IngestStep
  <2>1. /\ at[Ingest] \in {"queued", "next", "create"} /\ UNCHANGED read
        /\ \E s : at' = [at EXCEPT ![Ingest] = s]
        /\ UNCHANGED subject \/ \E f : subject' = [subject EXCEPT ![Ingest] = f]
    BY <1>1 DEF IngestStep, StartIngest, CountPath, CreateFile, RejectPath, EndIngest, Start, Goto
  <2>2. t # Ingest
    BY <2>1
  <2>3. QED
    BY <2>1, <2>2
<1>2. ASSUME NEW f \in Top, ScanFileStep(f)
      PROVE  at'[t] = at[t] /\ subject'[t] = subject[t] /\ read'[t] = read[t]
  <2>1. /\ at[ScanFile(f)] \in {"queued", "extract", "bulk", "count", "loop"} /\ UNCHANGED read
        /\ \E s : at' = [at EXCEPT ![ScanFile(f)] = s]
        /\ UNCHANGED subject \/ \E x : subject' = [subject EXCEPT ![ScanFile(f)] = x]
    BY <1>2 DEF ScanFileStep, StartScanFile, ReuseChildren, FailExtraction, ExtractRejected,
       ExtractValid, CountAgents, NothingToScan, NoScannerFound, CreateScans, FailScans,
       EndScanFile, Start, Goto
  <2>2. t # ScanFile(f)
    BY <2>1
  <2>3. QED
    BY <2>1, <2>2
<1>3. ASSUME NEW x \in File, NEW a \in Agent, PerformScanStep(x, a)
      PROVE  at'[t] = at[t] /\ subject'[t] = subject[t] /\ read'[t] = read[t]
  <2>1. /\ at[PerformScan(x, a)] \in {"queued", "scanning"} /\ UNCHANGED read
        /\ \E s : at' = [at EXCEPT ![PerformScan(x, a)] = s]
        /\ UNCHANGED subject \/ \E y : subject' = [subject EXCEPT ![PerformScan(x, a)] = y]
    BY <1>3 DEF PerformScanStep, StartPerformScan, SaveResult, LeaveScan, Start, Goto
  <2>2. t # PerformScan(x, a)
    BY <2>1
  <2>3. QED
    BY <2>1, <2>2
<1>4. ASSUME NEW u \in Task, UpdateStep(u), ~Publish(u), u # t
      PROVE  at'[t] = at[t] /\ subject'[t] = subject[t] /\ read'[t] = read[t]
  <2>1. CASE ReadScanState(u) \/ JudgeScanState(u)
    BY <1>4, <2>1 DEF ReadScanState, JudgeScanState, Goto
  <2>2. CASE SaveScanState(u)
    BY <1>4, <2>2 DEF SaveScanState, SaveThen, Goto
  <2>3. CASE FailScanState(u) \/ CountFiles(u) \/ SaveProgress(u)
    BY <1>4, <2>3 DEF FailScanState, CountFiles, SaveProgress, Goto
  <2>4. QED
    BY <1>4, <2>1, <2>2, <2>3 DEF UpdateStep
<1>5. ASSUME NEW u \in Task, Publish(u)
      PROVE  at'[t] = at[t] /\ subject'[t] = subject[t] /\ read'[t] = read[t]
  <2>1. PICK v \in outbox[u] :
          at' = [at EXCEPT ![v] = "queued",
                           ![u] = IF outbox[u] = {v} THEN Resume(u) ELSE "publish"]
    BY <1>5 DEF Publish
  <2>2. v # t /\ u # t /\ UNCHANGED <<subject, read>>
    BY <1>5 DEF Publish, RunsKnown, PublishedOnce
  <2>3. QED
    BY <2>1, <2>2
<1>6. CASE \/ AcceptPostscan \/ CopyCleanFiles \/ UNCHANGED vars
           \/ \E a \in Agent : DeactivateAgent(a) \/ DeleteAgent(a)
  BY <1>6 DEF AcceptPostscan, CopyCleanFiles, DeactivateAgent, DeleteAgent, vars
<1>7. ASSUME NEW u \in Task, Redeliver(u), u # t
      PROVE  at'[t] = at[t] /\ subject'[t] = subject[t] /\ read'[t] = read[t]
  BY <1>7 DEF Redeliver
<1>8. ASSUME UpdateStep(t)
      PROVE  \/ ReadScanState(t) \/ JudgeScanState(t) \/ SaveScanState(t) \/ FailScanState(t)
             \/ CountFiles(t) \/ SaveProgress(t)
  BY <1>8 DEF UpdateStep, Publish
<1>9. ASSUME FaultStep
      PROVE  at'[t] = at[t] /\ subject'[t] = subject[t] /\ read'[t] = read[t]
  <2>1. ~CutAt(t)
    BY DEF CutAt, Overran
  <2>2. QED
    BY <1>9, <2>1, FaultLeaves
<1>10. QED
  BY <1>1, <1>2, <1>3, <1>4, <1>5, <1>6, <1>7, <1>8, <1>9 DEF Next, WorkerStep

\* A perform_scan that has not answered does so, or starts anew.
LEMMA ScanMoves ==
    ASSUME TypeOK, RunsKnown, redelivered' \subseteq PerformScanTask, [Next]_vars,
           NEW x \in File, NEW a \in Agent, NEW t, t = PerformScan(x, a),
           at[t] \in {"queued", "scanning"}
    PROVE  at'[t] \in {"queued", "scanning", "file"}
<1>1. t \in Task /\ t # Ingest /\ \A f \in Top : t # ScanFile(f)
  BY TaskShape, TasksDiffer
<1>2. CASE at'[t] = at[t]
  BY <1>2
<1>3. ASSUME NEW y \in File, NEW b \in Agent, t = PerformScan(y, b), PerformScanStep(y, b)
      PROVE  at'[t] \in {"scanning", "file"}
  BY <1>1, <1>3 DEF PerformScanStep, StartPerformScan, SaveResult, LeaveScan, Start, Goto,
     TypeOK
<1>4. /\ ~ReadScanState(t) /\ ~JudgeScanState(t) /\ ~SaveScanState(t) /\ ~FailScanState(t)
      /\ ~CountFiles(t) /\ ~SaveProgress(t) /\ ~Publish(t)
  BY DEF ReadScanState, JudgeScanState, SaveScanState, SaveThen, FailScanState, CountFiles,
     SaveProgress, Publish
<1>5. CASE Redeliver(t)
  BY <1>1, <1>5, RunAgain DEF TypeOK
<1>6. ~CutAt(t)
  BY <1>1 DEF CutAt, Updating
<1>7. QED
  BY <1>1, <1>2, <1>3, <1>4, <1>5, <1>6, StageFrom

\* The tasks to publish are set by their creation, and leave as they are published.
LEMMA OutboxFrom ==
    ASSUME TypeOK, RunsKnown, redelivered' \subseteq PerformScanTask, [Next]_vars,
           NEW t \in Task, outbox'[t] # outbox[t]
    PROVE  \/ t = Ingest /\ CreateFile
           \/ \E f \in Top : t = ScanFile(f) /\ CreateScans(f)
           \/ Publish(t)
           \/ at[t] = "publish" /\ at'[t] = "refused" /\ outbox'[t] = {}
<1> USE DEF TypeOK, dbVars, taskVars, userVars
<1>1. ASSUME IngestStep PROVE t = Ingest /\ CreateFile
  <2>1. CreateFile
    BY <1>1 DEF IngestStep, StartIngest, CountPath, RejectPath, EndIngest
  <2>2. QED
    BY <2>1 DEF CreateFile
<1>2. ASSUME NEW f \in Top, ScanFileStep(f) PROVE t = ScanFile(f) /\ CreateScans(f)
  <2>1. CreateScans(f)
    BY <1>2 DEF ScanFileStep, StartScanFile, ReuseChildren, FailExtraction,
       ExtractRejected, ExtractValid, CountAgents, NothingToScan, NoScannerFound, FailScans,
       EndScanFile
  <2>2. QED
    BY <2>1 DEF CreateScans
<1>3. \A x \in File, a \in Agent : ~PerformScanStep(x, a)
  BY DEF PerformScanStep, StartPerformScan, SaveResult, LeaveScan
<1>4. ASSUME NEW u \in Task, UpdateStep(u) PROVE Publish(t)
  <2>1. Publish(u)
    BY <1>4 DEF UpdateStep, ReadScanState, JudgeScanState, SaveScanState, SaveThen,
       FailScanState, CountFiles, SaveProgress
  <2>2. u = t
    BY <2>1 DEF Publish
  <2>3. QED
    BY <2>1, <2>2
<1>5. /\ ~AcceptPostscan /\ ~CopyCleanFiles /\ ~UNCHANGED vars
      /\ \A a \in Agent : ~DeactivateAgent(a) /\ ~DeleteAgent(a)
  BY DEF AcceptPostscan, CopyCleanFiles, DeactivateAgent, DeleteAgent, vars
<1>6. ASSUME NEW u \in Task, Redeliver(u) PROVE FALSE
  <2>1. u = t /\ outbox'[u] = {}
    BY <1>6 DEF Redeliver
  <2>2. outbox[u] = {}
    BY <1>6, RunAgain DEF RunsKnown, PublishedOnce
  <2>3. QED
    BY <2>1, <2>2
<1>7. ASSUME FaultStep PROVE at[t] = "publish" /\ at'[t] = "refused" /\ outbox'[t] = {}
  <2>1. PICK u \in Task : RefusePublication(u)
    BY <1>7 DEF FaultStep, BreakIngest, BreakExtraction, Overrun
  <2>2. u = t
    BY <2>1 DEF RefusePublication
  <2>3. QED
    BY <2>1, <2>2 DEF RefusePublication, Goto
<1>8. QED
  BY <1>1, <1>2, <1>3, <1>4, <1>5, <1>6, <1>7 DEF Next, WorkerStep

\* The children of a file are created by its scan_file, while nothing has its row locked.
LEMMA ChildrenFrom ==
    ASSUME TypeOK, RunsKnown, [Next]_vars,
           NEW f \in File, Children(f)' # Children(f)
    PROVE  f \in Top /\ (ExtractRejected(f) \/ ExtractValid(f))
<1> USE DEF TypeOK, RunsKnown, dbVars, taskVars, userVars
<1>1. PICK m \in Member : ParentOf[m] = f /\ row'[m] # row[m]
  BY DEF Children, Created, MembersOf
<1>2. f \in Top /\ m \in File /\ m \notin Top
  BY <1>1, SessionAssumption DEF File
<1>3. ~IngestStep
  <2>1. \A g \in unread : g # m
    BY <1>2
  <2>2. QED
    BY <1>1, <1>2, <2>1 DEF IngestStep, StartIngest, CountPath, CreateFile, RejectPath, EndIngest
<1>4. ASSUME NEW g \in Top, ScanFileStep(g)
      PROVE  g = f /\ (ExtractRejected(f) \/ ExtractValid(f))
  <2>1. ExtractRejected(g) \/ ExtractValid(g)
    BY <1>1, <1>2, <1>4 DEF ScanFileStep, StartScanFile, ReuseChildren, FailExtraction,
       CountAgents, NothingToScan, NoScannerFound, CreateScans, FailScans, EndScanFile
  <2>2. m \in MembersOf(g)
    BY <1>1, <1>2, <2>1 DEF ExtractRejected, ExtractValid
  <2>3. QED
    BY <1>1, <2>1, <2>2 DEF MembersOf
<1>5. /\ \A x \in File, a \in Agent : ~PerformScanStep(x, a)
      /\ \A t \in Task : ~UpdateStep(t)
  BY <1>1 DEF PerformScanStep, StartPerformScan, SaveResult, LeaveScan,
     UpdateStep, ReadScanState, JudgeScanState, SaveScanState, SaveThen, FailScanState,
     CountFiles, SaveProgress, Publish
<1>6. /\ ~AcceptPostscan /\ ~CopyCleanFiles /\ ~UNCHANGED vars
      /\ \A a \in Agent : ~DeactivateAgent(a) /\ ~DeleteAgent(a)
      /\ \A t \in Task : ~Redeliver(t)
  BY <1>1 DEF AcceptPostscan, CopyCleanFiles, DeactivateAgent, DeleteAgent, Redeliver, vars
<1>7. ~FaultStep
  BY <1>1, FaultLeaves
<1>8. QED
  BY <1>2, <1>3, <1>4, <1>5, <1>6, <1>7 DEF Next, WorkerStep

-----------------------------------------------------------------------------
(* Why a session settles: what was answered is on its way to the rows,    *)
(* or has arrived.                                                         *)

\* Every scan of f that was created is still to be published by the task that created it.
Unpublished ==
    \A f \in Top : at[ScanFile(f)] \in {"file", "fileJudging", "fileSaving"} =>
        \A a \in Scans(subject[ScanFile(f)]) :
            PerformScan(subject[ScanFile(f)], a) \in outbox[ScanFile(f)]

\* The verdict that is stored of f, and any that is about to be, is one of those it may have.
VerdictStored(f) ==
    /\ infected[f] \in VerdictOf(f)
    /\ \A t \in Task : at[t] \in Saving /\ Target(t) = f => read[t].infected \in VerdictOf(f)

\* A perform_scan of f has yet to store that the leaf f is answered.
LeafComing(f) ==
    \E a \in Agent : LET t == PerformScan(f, a) IN
        \/ at[t] \in {"queued", "scanning", "file"}
        \/ at[t] \in {"fileJudging", "fileSaving"} /\ read[t].progress = "full"

\* The progress of a leaf that is answered is stored or on its way.
LeavesHeard ==
    \A f \in File : Children(f) = {} /\ Answered(f) => LeafComing(f) \/ progress[f] = "full"

\* A perform_scan of f, or of a member of f, has the verdict on f yet to store.
VerdictComing(f) ==
    \E x \in Leaves(f), a \in Agent : LET t == PerformScan(x, a) IN
        \/ at[t] \in {"queued", "scanning", "file", "fileJudging"}
        \/ x # f /\ at[t] \in {"fileSaving", "parent", "parentJudging"}
        \/ at[t] \in Saving /\ Target(t) = f /\ read[t].infected \in VerdictOf(f)

\* The verdict that a file may have is stored or on its way.
VerdictsHeard == \A f \in File : VerdictComing(f) \/ VerdictStored(f)

\* perform_scan has the progress of the archive f yet to store.
ProgressComing(f) ==
    \E m \in Children(f), a \in Agent : LET t == PerformScan(m, a) IN
        \/ at[t] \in {"queued", "scanning", "file", "fileJudging", "fileSaving", "parent"}
        \/ at[t] \in {"parentJudging", "parentSaving"} /\ read[t].progress = "full"

\* The archive has members that were accepted, and all of them are scanned.
MembersFull(f) == ValidChildren(f) # {} /\ \A m \in ValidChildren(f) : progress[m] = "full"

\* The progress of an archive whose members are all scanned is stored or on its way.
ArchivesHeard == \A f \in File : MembersFull(f) => ProgressComing(f) \/ progress[f] = "full"

\* There is a file, and nothing of the session is left to scan.
Due == AllFull /\ \E f \in Top : Created(f)

\* The counter of the session is incremented before the first file is created.
Counted == (\E f \in Top : Created(f)) \/ at[Ingest] = "create" => session.counter > 0

\* update_progress has yet to store that the session is finished.
SessionComing ==
    \E t \in Task :
        \/ at[t] = "session"
        \/ at[t] = "sessionSaving" /\ read[t].progress = "full"
        \/ t \in PerformScanTask /\ at[t] \in {"queued", "scanning"} \cup UpdatingFile

\* It is stored, and nothing else is about to be.
SessionStored ==
    /\ session.progress = "full"
    /\ \A t \in Task : at[t] = "sessionSaving" => read[t].progress = "full"

\* A session that is due is finished, or will be.
SessionHeard == Due => SessionComing \/ SessionStored

\* What is answered is stored, or about to be, at every level.
SettleInv ==
    /\ Unpublished /\ LeavesHeard /\ VerdictsHeard /\ ArchivesHeard
    /\ Counted /\ SessionHeard

-----------------------------------------------------------------------------
(* What was answered is kept *)

\* perform_scan is published after the progress and the verdict are stored.
LEMMA UnpublishedStep ==
    ASSUME TypeOK, SubjectOK, RunsKnown, redelivered' \subseteq PerformScanTask, [Next]_vars,
           SubjectsKnown, Unpublished
    PROVE  Unpublished'
<1> USE DEF TypeOK, dbVars, taskVars, userVars
<1> SUFFICES ASSUME NEW f \in Top, at'[ScanFile(f)] \in {"file", "fileJudging", "fileSaving"},
                    NEW x \in File, x = subject'[ScanFile(f)],
                    NEW a \in Agent, scan'[x][a] # "none"
             PROVE  PerformScan(x, a) \in outbox'[ScanFile(f)]
  <2>1. \A f \in Top : at'[ScanFile(f)] \in {"file", "fileJudging", "fileSaving"} =>
          subject'[ScanFile(f)] \in File
    BY SubjectStep, TaskShape DEF SubjectOK
  <2>2. QED
    BY <2>1 DEF Unpublished, Scans
<1> DEFINE t == ScanFile(f)
<1>0. t \in Task /\ t # Ingest /\ \A g \in Top : t = ScanFile(g) => g = f
  BY TaskShape, TasksDiffer
<1>1. CASE CreateScans(f)
  <2>1. PICK y \in plan[f].todo :
          /\ scan' = [scan EXCEPT ![y] =
                    [b \in Agent |-> IF b \in AgentsListed(f) THEN "pending" ELSE @[b]]]
          /\ subject' = [subject EXCEPT ![t] = y]
          /\ outbox' = [outbox EXCEPT ![t] = {PerformScan(y, b) : b \in AgentsListed(f)}]
    BY <1>1 DEF CreateScans
  <2>2. y = x
    BY <1>0, <2>1
  <2>3. scan[x][a] = "none"
    BY <2>2 DEF RunsKnown, UnscannedYet, Scans
  <2>4. scan'[x] = [b \in Agent |-> IF b \in AgentsListed(f) THEN "pending" ELSE scan[x][b]]
    BY <2>1, <2>2
  <2>5. a \in AgentsListed(f)
    BY <2>3, <2>4
  <2>6. QED
    BY <1>0, <2>1, <2>2, <2>5
<1>2. CASE ~CreateScans(f)
  <2>1. \A y \in File, b \in Agent : t # PerformScan(y, b)
    BY TasksDiffer
  <2>2. ~(SaveScanState(t) /\ at'[t] = "parent")
    BY <1>0
  <2>3. /\ at[t] \in {"file", "fileJudging", "fileSaving"} /\ subject'[t] = subject[t]
    <3>1. CASE at'[t] = at[t] /\ subject'[t] = subject[t] /\ read'[t] = read[t]
      BY <3>1
    <3>2. CASE ReadScanState(t)
      <4>1. at[t] \in UpdatingFile
        BY <3>2 DEF ReadScanState, UpdatingFile
      <4>2. QED
        BY <3>2, <4>1 DEF ReadScanState, SubjectsKnown
    <3>3. CASE JudgeScanState(t)
      <4>1. at[t] \in UpdatingFile
        BY <3>3 DEF JudgeScanState, UpdatingFile, LockingFile
      <4>2. QED
        BY <3>3, <4>1 DEF JudgeScanState, SubjectsKnown
    <3>4. QED
      BY <1>0, <1>2, <2>1, <2>2, <3>1, <3>2, <3>3, UpdatingFrom DEF UpdatingFile, LockingFile
  <2>4. x = subject[t] /\ x \in Owned(f)
    BY <2>3 DEF SubjectsKnown, UpdatingFile, LockingFile
  <2>5. Scans(x)' = Scans(x)
    <3>1. ASSUME NEW g \in Top, CreateScans(g), x \in Owned(g) PROVE FALSE
      BY <1>2, <2>4, <3>1, OwnedApart
    <3>2. scan'[x] = scan[x] => Scans(x)' = Scans(x)
      BY DEF Scans
    <3>3. QED
      BY <3>1, <3>2, ScanFrom
  <2>6. a \in Scans(x)
    BY <2>5 DEF Scans
  <2>7. outbox'[t] = outbox[t]
    <3>1. ~Publish(t)
      BY <2>3 DEF Publish
    <3>2. QED
      BY <1>0, <1>2, <3>1, OutboxFrom
  <2>8. QED
    BY <2>3, <2>4, <2>6, <2>7 DEF Unpublished
<1>3. QED
  BY <1>1, <1>2

\* The verdict that was stored stays stored while the scans say the same.
LEMMA StoredStays ==
    ASSUME TypeOK, SubjectOK, [Next]_vars, NEW f \in File,
           VerdictStored(f), VerdictOf(f)' = VerdictOf(f)
    PROVE  VerdictStored(f)'
<1>1. infected'[f] \in VerdictOf(f)'
  <2>1. ASSUME NEW t \in Task, SaveScanState(t), Target(t) = f
        PROVE  read[t].infected \in VerdictOf(f)
    BY <2>1 DEF SaveScanState, SaveThen, VerdictStored, Saving
  <2>2. QED
    BY <2>1, VerdictFrom DEF VerdictStored
<1>2. ASSUME NEW t \in Task, at'[t] \in Saving, Target(t)' = f
      PROVE  read'[t].infected \in VerdictOf(f)'
  <2>1. Target(t) = f
    BY <1>2, LockHeld DEF Saving, LockingFile
  <2>2. CASE at'[t] = at[t] /\ read'[t] = read[t]
    BY <1>2, <2>1, <2>2 DEF VerdictStored
  <2>3. CASE JudgeScanState(t)
    BY <2>1, <2>3 DEF JudgeScanState, TypeOK, Reading
  <2>4. QED
    BY <1>2, <2>2, <2>3, SavingStays
<1>3. QED
  BY <1>1, <1>2 DEF VerdictStored

\* A verdict that is saved is stored, since no other task has the row locked.
LEMMA SavedIsStored ==
    ASSUME TypeOK, SubjectOK, LocksExclude, [Next]_vars, NEW f \in File, NEW t \in Task,
           SaveScanState(t), Target(t) = f, read[t].infected \in VerdictOf(f)'
    PROVE  VerdictStored(f)' /\ progress'[f] = read[t].progress
<1>1. infected'[f] = read[t].infected /\ progress'[f] = read[t].progress
  BY DEF SaveScanState, SaveThen, TypeOK
<1>2. at[t] \in Saving /\ at'[t] \notin Saving
  BY DEF SaveScanState, SaveThen, Goto, Saving, TypeOK
<1>3. ASSUME NEW u \in Task, at'[u] \in Saving, Target(u)' = f
      PROVE  FALSE
  <2>1. u # t /\ Target(u) = f
    BY <1>2, <1>3, LockHeld DEF Saving, LockingFile
  <2>2. at'[u] = at[u]
    BY <2>1 DEF SaveScanState, SaveThen, Goto, TypeOK
  <2>3. QED
    BY <1>2, <1>3, <2>1, <2>2 DEF LocksExclude, Saving, LockingFile
<1>4. QED
  BY <1>1, <1>3 DEF VerdictStored

\* The progress of a file that has its answers, or of whose members all are full, is
\* computed as 100.
LEMMA FullIsComputed ==
    ASSUME TypeOK, RunsKnown, FullIsSettled, Small, NEW f \in File,
           MembersFull(f) \/ (Children(f) = {} /\ Answered(f))
    PROVE  ProgressOf(f) = "full" /\ ~NoValidChild(f)
<1>1. CASE MembersFull(f)
  <2> DEFINE done == {m \in Children(f) : progress[m] = "full"}
  <2>1. /\ Children(f) # {} /\ ValidChildren(f) \subseteq File
        /\ ValidChildren(f) # {}
    BY <1>1, MembersAreLeaves DEF MembersFull, ValidChildren
  <2>2. \A m \in done : row[m] = "valid"
    <3> SUFFICES ASSUME NEW m \in done PROVE row[m] = "valid"
      OBVIOUS
    <3>1. m \in Member /\ m \in File
      BY MembersAreLeaves
    <3>2. QED
      BY <3>1, SettledMember DEF FullIsSettled
  <2>3. done = ValidChildren(f)
    BY <1>1, <2>2 DEF MembersFull, ValidChildren
  <2>4. ProgressOf(f) = RoundedProgress(Cardinality(done), Cardinality(ValidChildren(f)))
    BY <2>1 DEF ProgressOf
  <2>5. IsFiniteSet(ValidChildren(f)) /\ Cardinality(ValidChildren(f)) < 2000
    BY <2>1, SmallCounts
  <2>6. RoundedProgress(Cardinality(ValidChildren(f)), Cardinality(ValidChildren(f))) = "full"
    BY <2>5, CountedFull
  <2>7. QED
    BY <2>1, <2>3, <2>4, <2>6 DEF NoValidChild
<1>2. CASE Children(f) = {} /\ Answered(f)
  <2>1. ProgressOf(f) = RoundedProgress(Cardinality(Scans(f)), Cardinality(Scans(f)))
    <3>1. Scans(f) \ Pending(f) = Scans(f)
      BY <1>2 DEF Answered
    <3>2. QED
      BY <1>2, <3>1 DEF ProgressOf, Answered
  <2>2. IsFiniteSet(Scans(f)) /\ Cardinality(Scans(f)) < 2000
    BY SmallCounts DEF Scans
  <2>3. QED
    BY <1>2, <2>1, <2>2, CountedFull DEF NoValidChild
<1>3. QED
  BY <1>1, <1>2

\* The progress of a leaf that is answered is stored, or about to be, after every step.
LEMMA LeavesStep ==
    ASSUME TypeOK, SubjectOK, RunsKnown, redelivered' \subseteq PerformScanTask, Small,
           [Next]_vars, ~Overran', SubjectsKnown, FullIsSettled, ReadsAreRight, LeavesHeard
    PROVE  LeavesHeard'
<1> SUFFICES ASSUME NEW f \in File, Children(f)' = {}, Answered(f)'
             PROVE  LeafComing(f)' \/ progress'[f] = "full"
  BY DEF LeavesHeard
<1>1. Children(f) = {}
  BY ChildrenGrow
<1>2. CASE ~Answered(f)
  <2>1. PICK a \in Agent : SaveResult(f, a)
    BY <1>2, AnsweredFrom
  <2>2. PerformScan(f, a) \in Task
    BY TaskShape
  <2>3. at'[PerformScan(f, a)] = "file"
    BY <2>1, <2>2 DEF SaveResult, Goto, TypeOK
  <2>4. QED
    BY <2>3 DEF LeafComing
<1>3. CASE Answered(f)
  <2>1. CASE progress[f] = "full"
    BY <2>1, FileStaysFull
  <2>2. CASE LeafComing(f)
    <3>1. PICK a \in Agent :
            \/ at[PerformScan(f, a)] \in {"queued", "scanning", "file"}
            \/ /\ at[PerformScan(f, a)] \in {"fileJudging", "fileSaving"}
               /\ read[PerformScan(f, a)].progress = "full"
      BY <2>2 DEF LeafComing
    <3> DEFINE t == PerformScan(f, a)
    <3>2. t \in Task
      BY TaskShape
    <3>3. CASE at[t] \in {"queued", "scanning"}
      <4>1. at'[t] \in {"queued", "scanning", "file"}
        BY <3>3, ScanMoves
      <4>2. QED
        BY <4>1 DEF LeafComing
    <3>4. CASE at[t] \in {"file", "fileJudging", "fileSaving"}
      <4>1. subject[t] = f /\ Target(t) = f
        BY <3>4 DEF SubjectsKnown, UpdatingFile, LockingFile, Target
      <4>2. ProgressOf(f) = "full" /\ ~NoValidChild(f)
        BY <1>1, <1>3, FullIsComputed
      <4>3. /\ read[t] \in Reading
            /\ \A p \in ProgressValue : [read[t] EXCEPT !.progress = p].progress = p
            /\ \A v : [read[t] EXCEPT !.infected = v].progress = read[t].progress
        BY <3>2 DEF TypeOK, Reading
      <4>4. CASE at'[t] = at[t] /\ subject'[t] = subject[t] /\ read'[t] = read[t]
        BY <3>1, <4>4 DEF LeafComing
      <4>5. CASE ReadScanState(t)
        <5>1. at'[t] = "fileJudging"
          BY <3>2, <3>4, <4>5 DEF ReadScanState, Goto, TypeOK
        <5>2. read'[t] = [read[t] EXCEPT !.progress = "full"]
          BY <3>2, <4>1, <4>2, <4>5 DEF ReadScanState, TypeOK
        <5>3. read'[t].progress = "full"
          BY <4>3, <5>2 DEF ProgressValue
        <5>4. QED
          BY <5>1, <5>3 DEF LeafComing
      <4>6. CASE JudgeScanState(t)
        <5>1. at[t] = "fileJudging" /\ at'[t] = "fileSaving"
          BY <3>2, <3>4, <4>6 DEF JudgeScanState, Goto, TypeOK
        <5>2. PICK v : read' = [read EXCEPT ![t].infected = v]
          BY <4>6 DEF JudgeScanState
        <5>3. read'[t].progress = "full"
          BY <3>1, <3>2, <4>3, <5>1, <5>2 DEF TypeOK
        <5>4. QED
          BY <5>1, <5>3 DEF LeafComing
      <4>7. CASE SaveScanState(t)
        BY <3>1, <3>2, <3>4, <4>1, <4>7 DEF SaveScanState, SaveThen, TypeOK
      <4>8. CASE Redeliver(t)
        <5>1. at'[t] = "queued"
          BY <3>2, <4>8, RunAgain DEF TypeOK
        <5>2. QED
          BY <5>1 DEF LeafComing
      <4>9. ~FailScanState(t) /\ ~CountFiles(t) /\ ~SaveProgress(t)
        BY <3>4, <4>1, <4>2 DEF FailScanState, CountFiles, SaveProgress
      <4>10. QED
        BY <3>2, <3>4, <4>4, <4>5, <4>6, <4>7, <4>8, <4>9, UpdateMoves DEF UpdatingFile, LockingFile
    <3>5. QED
      BY <3>1, <3>3, <3>4
  <2>3. QED
    BY <1>1, <1>3, <2>1, <2>2 DEF LeavesHeard
<1>4. QED
  BY <1>2, <1>3

\* Before the children of a file are all there, neither they nor it have a verdict, and no
\* task is about to store one.
LEMMA ExtractedUnjudged ==
    ASSUME TypeOK, SubjectOK, RunsKnown, VerdictsHeard,
           NEW f \in Top, ExtractRejected(f) \/ ExtractValid(f)
    PROVE  VerdictStored(f)'
<1> USE DEF TypeOK, dbVars, taskVars, userVars
<1>1. /\ at[ScanFile(f)] \in {"extract", "bulk"} /\ ~Locked(f) /\ UNCHANGED scan
      /\ UNCHANGED <<infected, subject, read>>
  BY DEF ExtractRejected, ExtractValid
<1>2. \A x \in Owned(f) : Scans(x) = {} /\ Scans(x)' = {}
  BY <1>1 DEF RunsKnown, UnscannedYet, Scans
<1>3. \A x \in Owned(f) : EvalInfected(x) = "unknown" /\ EvalInfected(x)' = "unknown"
  <2> SUFFICES ASSUME NEW x \in Owned(f)
               PROVE  EvalInfected(x) = "unknown" /\ EvalInfected(x)' = "unknown"
    OBVIOUS
  <2>1. x \in File /\ Scans(x) = {} /\ Scans(x)' = {}
    BY <1>2, OwnedApart
  <2>2. Cardinality(Scans(x)) = 0 /\ Cardinality(Scans(x)') = 0
    BY <2>1, FS_EmptySet
  <2>3. QED
    BY <2>2 DEF EvalInfected, LeafVerdict
<1>4. /\ f \in Owned(f) /\ f \in File
      /\ \A m \in Children(f) : m \in Owned(f) /\ m \in File
      /\ \A m \in Children(f)' : m \in Owned(f) /\ m \in File
  BY OwnedApart DEF Children, File
<1>5. VerdictOf(f) = {"unknown"} /\ VerdictOf(f)' = {"unknown"}
  <2>1. Children(f) # {} => {EvalInfected(m) : m \in Children(f)} = {"unknown"}
    BY <1>3, <1>4
  <2>2. Children(f)' # {} => {EvalInfected(m) : m \in Children(f)}' = {"unknown"}
    BY <1>3, <1>4
  <2>3. QED
    BY <1>3, <1>4, <2>1, <2>2 DEF VerdictOf, ArchiveVerdicts
<1>6. infected[f] = "unknown"
  <2>1. ASSUME NEW x \in Leaves(f), NEW a \in Agent, at[PerformScan(x, a)] # "none"
        PROVE  FALSE
    <3>1. x \in File /\ Scans(x) = {}
      BY <1>2, <1>4 DEF Leaves
    <3>2. QED
      BY <2>1, <3>1 DEF RunsKnown, AnswersKnown, Scans
  <2>2. ~VerdictComing(f)
    BY <2>1 DEF VerdictComing, Saving
  <2>3. QED
    BY <1>4, <1>5, <2>2 DEF VerdictsHeard, VerdictStored
<1>7. ASSUME NEW t \in Task, at'[t] \in Saving, Target(t)' = f
      PROVE  FALSE
  <2>1. at'[t] = at[t]
    <3>1. PICK s \in {"bulk", "count", "refused"} : at' = [at EXCEPT ![ScanFile(f)] = s]
      BY DEF ExtractRejected, ExtractValid, Goto
    <3>2. QED
      BY <1>7, <3>1 DEF Saving
  <2>2. Target(t) = f
    BY <1>1, <1>7, <2>1 DEF Target
  <2>3. QED
    BY <1>1, <1>7, <2>1, <2>2 DEF Locked, Saving, LockingFile
<1>8. QED
  BY <1>1, <1>5, <1>6, <1>7 DEF VerdictStored

\* The verdict on a file is stored, or about to be, after every step.
LEMMA VerdictsStep ==
    ASSUME TypeOK, SubjectOK, RunsKnown, redelivered' \subseteq PerformScanTask, [Next]_vars,
           ~Overran', SubjectsKnown, LocksExclude, VerdictsHeard
    PROVE  VerdictsHeard'
<1> SUFFICES ASSUME NEW f \in File
             PROVE  VerdictComing(f)' \/ VerdictStored(f)'
  BY DEF VerdictsHeard
<1>1. CASE Children(f)' # Children(f)
  BY <1>1, ChildrenFrom, ExtractedUnjudged
<1>2. CASE Children(f)' = Children(f)
  <2> DEFINE L == Leaves(f)
  <2>1. ASSUME NEW x \in L
        PROVE  /\ x \in File /\ Children(x) = {}
               /\ x # f => x \in Children(f) /\ x \in Member /\ ParentOf[x] = f
    BY MembersAreLeaves DEF Leaves
  <2>2. Leaves(f)' = L
    BY <1>2 DEF Leaves
  <2>3. ASSUME NEW x \in L, EvalInfected(x)' # EvalInfected(x)
        PROVE  VerdictComing(f)'
    <3>1. PICK a \in Agent : SaveResult(x, a)
      BY <2>1, <2>3, EvalFrom
    <3>2. PerformScan(x, a) \in Task
      BY <2>1, TaskShape
    <3>3. at'[PerformScan(x, a)] = "file"
      BY <3>1, <3>2 DEF SaveResult, Goto, TypeOK
    <3>4. QED
      BY <2>2, <3>3 DEF VerdictComing
  <2>4. CASE \A x \in L : EvalInfected(x)' = EvalInfected(x)
    <3>1. VerdictOf(f)' = VerdictOf(f)
      <4>1. CASE Children(f) = {}
        <5>1. f \in L
          BY <4>1 DEF Leaves
        <5>2. QED
          BY <1>2, <2>4, <4>1, <5>1 DEF VerdictOf
      <4>2. CASE Children(f) # {}
        <5>1. L = Children(f)
          BY <4>2 DEF Leaves
        <5>2. {EvalInfected(m) : m \in Children(f)}' = {EvalInfected(m) : m \in Children(f)}
          BY <1>2, <2>4, <5>1
        <5>3. QED
          BY <1>2, <4>2, <5>2 DEF VerdictOf
      <4>3. QED
        BY <4>1, <4>2
    <3>2. CASE VerdictStored(f)
      BY <3>1, <3>2, StoredStays
    <3>3. ASSUME NEW x \in L, NEW a \in Agent, NEW t, t = PerformScan(x, a),
                 \/ at'[t] \in {"queued", "scanning", "file", "fileJudging"}
                 \/ x # f /\ at'[t] \in {"fileSaving", "parent", "parentJudging"}
                 \/ at'[t] \in Saving /\ Target(t)' = f /\ read'[t].infected \in VerdictOf(f)
          PROVE  VerdictComing(f)'
      BY <2>2, <3>1, <3>3 DEF VerdictComing
    <3>4. CASE VerdictComing(f)
      <4>1. PICK x \in L, a \in Agent : LET t == PerformScan(x, a) IN
              \/ at[t] \in {"queued", "scanning", "file", "fileJudging"}
              \/ x # f /\ at[t] \in {"fileSaving", "parent", "parentJudging"}
              \/ at[t] \in Saving /\ Target(t) = f /\ read[t].infected \in VerdictOf(f)
        BY <3>4 DEF VerdictComing
      <4> DEFINE t == PerformScan(x, a)
      <4>2. t \in Task /\ t.kind = "perform_scan" /\ x \in File
        BY <2>1, TaskShape
      <4>3. CASE at[t] \in {"queued", "scanning"}
        <5>1. at'[t] \in {"queued", "scanning", "file"}
          BY <4>2, <4>3, ScanMoves
        <5>2. QED
          BY <3>3, <5>1
      <4>4. CASE at[t] \notin {"queued", "scanning"}
        <5>1. at[t] \in UpdatingFile /\ at[t] # "none"
          BY <4>1, <4>4 DEF UpdatingFile, LockingFile, Saving
        <5>2. subject[t] = x
          BY <4>2, <5>1 DEF SubjectsKnown
        <5>3. /\ at[t] \in {"file", "fileJudging", "fileSaving"} => Target(t) = x
              /\ at[t] \in {"parent", "parentJudging", "parentSaving"} => Target(t) = f
          <6>1. at[t] \in {"parent", "parentJudging"} => x # f
            BY <4>1 DEF Saving
          <6>2. at[t] = "parentSaving" => x # f \/ Target(t) = f
            BY <4>1 DEF Saving
          <6>3. QED
            BY <2>1, <5>2, <6>1, <6>2 DEF Target
        <5>4. CASE at'[t] = at[t] /\ subject'[t] = subject[t] /\ read'[t] = read[t]
          <6>1. Target(t)' = Target(t)
            BY <5>4 DEF Target
          <6>2. QED
            BY <3>3, <4>1, <5>4, <6>1
        <5>5. CASE ReadScanState(t)
          <6>1. \/ at'[t] = "fileJudging"
                \/ at'[t] = "parentJudging" /\ at[t] = "parent"
            BY <4>2, <5>5 DEF ReadScanState, Goto, TypeOK
          <6>2. at[t] = "parent" => x # f
            BY <4>1 DEF Saving
          <6>3. QED
            BY <3>3, <6>1, <6>2
        <5>6. CASE JudgeScanState(t)
          <6>1. PICK v \in VerdictOf(Target(t)) : read' = [read EXCEPT ![t].infected = v]
            BY <5>6 DEF JudgeScanState
          <6>2. read'[t].infected = v
            BY <4>2, <6>1 DEF TypeOK, Reading
          <6>3. /\ at'[t] = IF at[t] = "fileJudging" THEN "fileSaving" ELSE "parentSaving"
                /\ at[t] \in {"fileJudging", "parentJudging"} /\ UNCHANGED subject
            BY <4>2, <5>6 DEF JudgeScanState, Goto, TypeOK
          <6>4. CASE x # f /\ at[t] = "fileJudging"
            BY <3>3, <6>3, <6>4
          <6>5. CASE ~(x # f /\ at[t] = "fileJudging")
            <7>1. Target(t) = f /\ at'[t] \in Saving /\ Target(t)' = Target(t)
              BY <5>3, <6>3, <6>5 DEF Target, Saving
            <7>2. QED
              BY <3>3, <6>1, <6>2, <7>1
          <6>6. QED
            BY <6>4, <6>5
        <5>7. CASE SaveScanState(t)
          <6>1. at[t] \in Saving
            BY <5>7 DEF SaveScanState, SaveThen, Saving
          <6>2. CASE x # f /\ at[t] = "fileSaving"
            <7>1. at'[t] = "parent"
              BY <2>1, <4>2, <5>2, <5>7, <6>2 DEF SaveScanState, SaveThen, Goto, TypeOK
            <7>2. QED
              BY <3>3, <6>2, <7>1
          <6>3. CASE ~(x # f /\ at[t] = "fileSaving")
            <7>1. Target(t) = f /\ read[t].infected \in VerdictOf(f)
              BY <4>1, <6>1, <6>3 DEF Saving
            <7>2. QED
              BY <3>1, <4>2, <5>7, <7>1, SavedIsStored
          <6>4. QED
            BY <6>2, <6>3
        <5>8. CASE Redeliver(t)
          <6>1. at'[t] = "queued"
            BY <4>2, <5>8, RunAgain DEF TypeOK
          <6>2. QED
            BY <3>3, <6>1
        <5>9. ~FailScanState(t)
          <6>1. CASE at[t] = "file"
            BY <2>1, <5>3, <6>1 DEF FailScanState, NoValidChild
          <6>2. CASE at[t] = "parent"
            <7>1. x \in Children(f)
              BY <2>1, <4>1, <6>2 DEF Saving
            <7>2. x \in ValidChildren(f)
              BY <4>2, <5>1, <7>1 DEF RunsKnown, AnswersKnown, ValidChildren
            <7>3. QED
              BY <5>3, <6>2, <7>2 DEF FailScanState, NoValidChild
          <6>3. QED
            BY <6>1, <6>2 DEF FailScanState
        <5>10. ~CountFiles(t) /\ ~SaveProgress(t)
          BY <5>1 DEF CountFiles, SaveProgress, UpdatingFile, LockingFile
        <5>11. QED
          BY <4>2, <5>1, <5>4, <5>5, <5>6, <5>7, <5>8, <5>9, <5>10, UpdateMoves
      <4>5. QED
        BY <4>3, <4>4
    <3>5. QED
      BY <3>2, <3>4 DEF VerdictsHeard
  <2>5. QED
    BY <2>3, <2>4
<1>3. QED
  BY <1>1, <1>2

\* A member whose progress becomes 100 has its answers, saved by one of its perform_scan tasks,
\* which goes on with the archive.
LEMMA MemberFullFrom ==
    ASSUME TypeOK, SubjectOK, RunsKnown, redelivered' \subseteq PerformScanTask, [Next]_vars,
           SubjectsKnown, FullIsSettled, ReadsAreRight, Unpublished,
           NEW m \in Member, progress'[m] = "full"
    PROVE  /\ Answered(m)
           /\ \/ progress[m] = "full"
              \/ \E a \in Agent : at'[PerformScan(m, a)] = "parent"
<1>1. m \in File /\ m \notin Top
  BY MembersAreLeaves
<1>2. CASE progress[m] = "full"
  BY <1>1, <1>2, SettledMember DEF FullIsSettled
<1>3. CASE progress[m] # "full"
  <2>1. PICK t \in Task : SaveScanState(t) /\ Target(t) = m /\ read[t].progress = "full"
    BY <1>1, <1>3, ProgressFrom DEF TypeOK
  <2>2. at[t] \in Saving /\ at[t] \in UpdatingFile /\ at[t] \in LockingFile
    BY <2>1 DEF SaveScanState, SaveThen, Saving, UpdatingFile, LockingFile
  <2>3. Answered(m)
    BY <1>1, <2>1, <2>2, SettledMember DEF ReadsAreRight
  <2>4. t # Ingest
    BY <1>1, <2>1, <2>2 DEF SubjectsKnown, Target, ValidTop
  <2>5. ASSUME NEW g \in Top, t = ScanFile(g) PROVE FALSE
    <3>1. at[t] = "fileSaving" /\ subject[t] = m
      BY <2>1, <2>2, <2>5 DEF SubjectsKnown, Target, Saving
    <3>2. PICK a \in Scans(m) : TRUE
      BY <2>3 DEF Answered
    <3>3. PerformScan(m, a) \in outbox[t] /\ a \in Agent
      BY <2>5, <3>1, <3>2 DEF Unpublished, Scans
    <3>4. scan[m][a] = "pending"
      BY <1>1, <2>1, <3>3 DEF RunsKnown, AnswersKnown
    <3>5. QED
      BY <2>3, <3>3, <3>4 DEF Answered, Pending
  <2>6. PICK x \in File, a \in Agent : t = PerformScan(x, a)
    BY <2>4, <2>5, TaskCases
  <2>7. subject[t] = x /\ t.kind = "perform_scan"
    BY <2>2, <2>6, TaskShape DEF SubjectsKnown
  <2>8. at[t] = "fileSaving" /\ x = m
    <3>1. CASE at[t] = "parentSaving"
      <4>1. x \in Member
        BY <2>7, <3>1 DEF SubjectOK
      <4>2. Target(t) = ParentOf[x]
        BY <2>7, <3>1 DEF Target
      <4>3. QED
        BY <1>1, <2>1, <4>1, <4>2, SessionAssumption
    <3>2. QED
      BY <2>1, <2>2, <2>7, <3>1 DEF Saving, Target
  <2>9. at'[t] = "parent"
    BY <2>1, <2>7, <2>8 DEF SaveScanState, SaveThen, Goto, TypeOK
  <2>10. QED
    BY <2>3, <2>6, <2>8, <2>9
<1>4. QED
  BY <1>2, <1>3

\* The progress of an archive is stored, or about to be, after every step.
LEMMA ArchivesStep ==
    ASSUME TypeOK, SubjectOK, RunsKnown, redelivered' \subseteq PerformScanTask, Small,
           [Next]_vars, ~Overran', SubjectsKnown, FullIsSettled, ReadsAreRight, Unpublished,
           ArchivesHeard
    PROVE  ArchivesHeard'
<1> SUFFICES ASSUME NEW f \in File, MembersFull(f)'
             PROVE  ProgressComing(f)' \/ progress'[f] = "full"
  BY DEF ArchivesHeard
<1>1. f \in Top /\ \A m \in MembersOf(f) : m \in Member /\ m \in File /\ m \in Owned(f)
                                           /\ ParentOf[m] = f
  BY SessionAssumption DEF MembersFull, ValidChildren, Children, MembersOf, Owned, File
<1>2. \A m \in ValidChildren(f)' : m \in MembersOf(f) /\ progress'[m] = "full"
  BY DEF MembersFull, ValidChildren, Children, MembersOf
<1>3. \A m \in ValidChildren(f)' : Answered(m)
  BY <1>1, <1>2, MemberFullFrom
<1>4. Children(f)' = Children(f) /\ ValidChildren(f)' = ValidChildren(f)
  <2>1. PICK m \in ValidChildren(f)' : TRUE
    BY DEF MembersFull
  <2>2. m \in Owned(f) /\ Scans(m) # {}
    BY <1>1, <1>2, <1>3, <2>1 DEF Answered
  <2>3. QED
    BY <1>1, <2>2, ChildrenStay
<1>5. ASSUME NEW m \in ValidChildren(f), progress[m] # "full"
      PROVE  ProgressComing(f)'
  <2>1. m \in Member /\ progress'[m] = "full" /\ m \in Children(f)'
    BY <1>1, <1>2, <1>4 DEF ValidChildren
  <2>2. PICK a \in Agent : at'[PerformScan(m, a)] = "parent"
    BY <1>5, <2>1, MemberFullFrom
  <2>3. QED
    BY <2>1, <2>2 DEF ProgressComing
<1>6. CASE \A m \in ValidChildren(f) : progress[m] = "full"
  <2>1. MembersFull(f)
    BY <1>4, <1>6 DEF MembersFull
  <2>2. CASE progress[f] = "full"
    BY <2>2, FileStaysFull
  <2>3. CASE ProgressComing(f)
    <3>1. PICK m \in Children(f), a \in Agent : LET t == PerformScan(m, a) IN
            \/ at[t] \in {"queued", "scanning", "file", "fileJudging", "fileSaving", "parent"}
            \/ at[t] \in {"parentJudging", "parentSaving"} /\ read[t].progress = "full"
      BY <2>3 DEF ProgressComing
    <3> DEFINE t == PerformScan(m, a)
    <3>2. m \in File /\ m \in Member /\ ParentOf[m] = f /\ Children(m) = {}
      BY <1>1, MembersAreLeaves DEF Children
    <3>3. t \in Task /\ t.kind = "perform_scan"
      BY <3>2, TaskShape
    <3>4. CASE at[t] \in {"queued", "scanning"}
      <4>1. at'[t] \in {"queued", "scanning", "file"}
        BY <3>2, <3>4, ScanMoves
      <4>2. QED
        BY <1>4, <4>1 DEF ProgressComing
    <3>5. CASE at[t] \notin {"queued", "scanning"}
      <4>1. at[t] \in UpdatingFile
        BY <3>1, <3>5 DEF UpdatingFile, LockingFile
      <4>2. subject[t] = m
        BY <3>2, <4>1 DEF SubjectsKnown
      <4>3. /\ at[t] \in {"file", "fileJudging", "fileSaving"} => Target(t) = m
            /\ at[t] \in {"parent", "parentJudging", "parentSaving"} => Target(t) = f
        BY <3>2, <4>2 DEF Target
      <4>4. ProgressOf(f) = "full" /\ ~NoValidChild(f)
        BY <2>1, FullIsComputed
      <4>5. CASE at'[t] = at[t] /\ subject'[t] = subject[t] /\ read'[t] = read[t]
        BY <1>4, <3>1, <4>5 DEF ProgressComing
      <4>6. CASE ReadScanState(t)
        <5>1. CASE at[t] = "file"
          <6>1. at'[t] = "fileJudging"
            BY <3>3, <4>6, <5>1 DEF ReadScanState, Goto, TypeOK
          <6>2. QED
            BY <1>4, <6>1 DEF ProgressComing
        <5>2. CASE at[t] = "parent"
          <6>1. at'[t] = "parentJudging"
            BY <3>3, <4>6, <5>2 DEF ReadScanState, Goto, TypeOK
          <6>2. read'[t].progress = "full"
            BY <3>3, <4>3, <4>4, <4>6, <5>2 DEF ReadScanState, TypeOK, Reading
          <6>3. QED
            BY <1>4, <6>1, <6>2 DEF ProgressComing
        <5>3. QED
          BY <4>6, <5>1, <5>2 DEF ReadScanState
      <4>7. CASE JudgeScanState(t)
        <5>1. CASE at[t] = "fileJudging"
          <6>1. at'[t] = "fileSaving"
            BY <3>3, <4>7, <5>1 DEF JudgeScanState, Goto, TypeOK
          <6>2. QED
            BY <1>4, <6>1 DEF ProgressComing
        <5>2. CASE at[t] = "parentJudging"
          <6>1. at'[t] = "parentSaving"
            BY <3>3, <4>7, <5>2 DEF JudgeScanState, Goto, TypeOK
          <6>2. PICK v : read' = [read EXCEPT ![t].infected = v]
            BY <4>7 DEF JudgeScanState
          <6>3. read'[t].progress = "full"
            BY <3>1, <3>3, <5>2, <6>2 DEF TypeOK, Reading
          <6>4. QED
            BY <1>4, <6>1, <6>3 DEF ProgressComing
        <5>3. QED
          BY <4>7, <5>1, <5>2 DEF JudgeScanState
      <4>8. CASE SaveScanState(t)
        <5>1. CASE at[t] = "fileSaving"
          <6>1. at'[t] = "parent"
            BY <3>2, <3>3, <4>2, <4>8, <5>1 DEF SaveScanState, SaveThen, Goto, TypeOK
          <6>2. QED
            BY <1>4, <6>1 DEF ProgressComing
        <5>2. CASE at[t] = "parentSaving"
          BY <3>1, <4>3, <4>8, <5>2 DEF SaveScanState, SaveThen, TypeOK
        <5>3. QED
          BY <4>8, <5>1, <5>2 DEF SaveScanState, SaveThen
      <4>9. CASE Redeliver(t)
        <5>1. at'[t] = "queued"
          BY <3>3, <4>9, RunAgain DEF TypeOK
        <5>2. QED
          BY <1>4, <5>1 DEF ProgressComing
      <4>10. ~FailScanState(t) /\ ~CountFiles(t) /\ ~SaveProgress(t)
        <5>1. ~FailScanState(t)
          BY <3>2, <4>3, <4>4 DEF FailScanState, NoValidChild
        <5>2. QED
          BY <4>1, <5>1 DEF CountFiles, SaveProgress, UpdatingFile, LockingFile
      <4>11. QED
        BY <3>3, <4>1, <4>5, <4>6, <4>7, <4>8, <4>9, <4>10, UpdateMoves
    <3>6. QED
      BY <3>4, <3>5
  <2>4. QED
    BY <2>1, <2>2, <2>3 DEF ArchivesHeard
<1>7. QED
  BY <1>5, <1>6

\* A file that is not indexed has no reason for a progress of 100.
LEMMA UnindexedIsOpen ==
    ASSUME TypeOK, RunsKnown, NEW f \in Top, row[f] = "none"
    PROVE  ~Settled(f)
<1>1. at[ScanFile(f)] = "none"
  BY DEF RunsKnown, IndexedOnce
<1>2. \A x \in Owned(f) : Scans(x) = {}
  BY <1>1 DEF RunsKnown, UnscannedYet
<1>3. f \in Owned(f) /\ ValidChildren(f) \subseteq Owned(f)
  BY OwnedApart DEF ValidChildren, Children
<1>4. QED
  BY <1>1, <1>2, <1>3 DEF Settled, Unscannable, Answered

\* Only the task that indexes creates files, and counts them.
LEMMA IndexingFrom ==
    ASSUME TypeOK, RunsKnown, redelivered' \subseteq PerformScanTask, [Next]_vars, ~IngestStep
    PROVE  /\ session'.counter = session.counter
           /\ at'[Ingest] = "create" => at[Ingest] = "create"
           /\ \A f \in Top : row'[f] = row[f]
<1> USE DEF TypeOK, dbVars, taskVars, userVars
<1>0. Ingest \in Task
  BY TaskShape
<1>1. ASSUME NEW f \in Top, ScanFileStep(f)
      PROVE  /\ session'.counter = session.counter
             /\ at'[Ingest] = "create" => at[Ingest] = "create"
             /\ \A g \in Top : row'[g] = row[g]
  <2>1. UNCHANGED session /\ \E s : at' = [at EXCEPT ![ScanFile(f)] = s]
    BY <1>1 DEF ScanFileStep, StartScanFile, ReuseChildren, FailExtraction, ExtractRejected,
       ExtractValid, CountAgents, NothingToScan, NoScannerFound, CreateScans, FailScans,
       EndScanFile, Start, Goto
  <2>2. at'[Ingest] = at[Ingest]
    BY <1>0, <2>1, TasksDiffer
  <2>3. \A g \in Top : row'[g] = row[g]
    <3>1. CASE ExtractRejected(f) \/ ExtractValid(f)
      <4>1. \A g \in Top : g \in File /\ g \notin MembersOf(f)
        BY SessionAssumption DEF MembersOf, File
      <4>2. QED
        BY <3>1, <4>1 DEF ExtractRejected, ExtractValid
    <3>2. CASE ~(ExtractRejected(f) \/ ExtractValid(f))
      BY <1>1, <3>2 DEF ScanFileStep, StartScanFile, ReuseChildren, FailExtraction,
         CountAgents, NothingToScan, NoScannerFound, CreateScans, FailScans, EndScanFile
    <3>3. QED
      BY <3>1, <3>2
  <2>4. QED
    BY <2>1, <2>2, <2>3
<1>2. ASSUME NEW x \in File, NEW a \in Agent, PerformScanStep(x, a)
      PROVE  /\ session'.counter = session.counter
             /\ at'[Ingest] = "create" => at[Ingest] = "create"
             /\ \A g \in Top : row'[g] = row[g]
  BY <1>0, <1>2, TasksDiffer DEF PerformScanStep, StartPerformScan, SaveResult,
     LeaveScan, Start, Goto
<1>3. ASSUME NEW t \in Task, UpdateStep(t)
      PROVE  /\ session'.counter = session.counter
             /\ at'[Ingest] = "create" => at[Ingest] = "create"
             /\ \A g \in Top : row'[g] = row[g]
  <2>1. UNCHANGED row /\ session'.counter = session.counter
    BY <1>3 DEF UpdateStep, ReadScanState, JudgeScanState, SaveScanState, SaveThen,
       FailScanState, CountFiles, SaveProgress, Publish
  <2>2. at'[Ingest] = "create" => at[Ingest] = "create"
    <3>1. CASE Publish(t)
      BY <1>0, <3>1, ResumeStage DEF Publish
    <3>2. CASE SaveProgress(t)
      BY <1>0, <3>2, ResumeStage DEF SaveProgress, Goto
    <3>3. CASE ~Publish(t) /\ ~SaveProgress(t)
      BY <1>0, <1>3, <3>3 DEF UpdateStep, ReadScanState, JudgeScanState, SaveScanState,
         SaveThen, FailScanState, CountFiles, Goto
    <3>4. QED
      BY <3>1, <3>2, <3>3
  <2>3. QED
    BY <2>1, <2>2
<1>4. CASE \/ AcceptPostscan \/ CopyCleanFiles \/ UNCHANGED vars
           \/ \E a \in Agent : DeactivateAgent(a) \/ DeleteAgent(a)
  BY <1>4 DEF AcceptPostscan, CopyCleanFiles, DeactivateAgent, DeleteAgent, vars
<1>5. ASSUME NEW t \in Task, Redeliver(t)
      PROVE  /\ session'.counter = session.counter
             /\ at'[Ingest] = "create" => at[Ingest] = "create"
             /\ \A g \in Top : row'[g] = row[g]
  <2>1. UNCHANGED <<row, session>>
    BY <1>5 DEF Redeliver
  <2>2. QED
    BY <1>0, <1>5, <2>1, RunAgain
<1>6. ASSUME FaultStep
      PROVE  /\ session'.counter = session.counter
             /\ at'[Ingest] = "create" => at[Ingest] = "create"
             /\ \A g \in Top : row'[g] = row[g]
  BY <1>0, <1>6, FaultLeaves DEF CutAt
<1>7. QED
  BY <1>1, <1>2, <1>3, <1>4, <1>5, <1>6 DEF Next, WorkerStep

\* A file is created only after it was counted.
LEMMA CountedStep ==
    ASSUME TypeOK, RunsKnown, redelivered' \subseteq PerformScanTask, [Next]_vars, Counted
    PROVE  Counted'
<1> USE DEF TypeOK, dbVars, taskVars, userVars
<1>0. Ingest \in Task /\ session.counter \in Nat
  BY TaskShape
<1>1. CASE ~IngestStep
  BY <1>1, IndexingFrom DEF Counted, Created
<1>2. CASE StartIngest
  <2>1. at[Ingest] = "queued" /\ at'[Ingest] # "create" /\ UNCHANGED row
    BY <1>0, <1>2 DEF StartIngest, Start
  <2>2. \A f \in Top : row'[f] = "none"
    BY <2>1 DEF RunsKnown, IndexedOnce
  <2>3. QED
    BY <2>1, <2>2 DEF Counted, Created
<1>3. CASE CountPath
  <2>1. session'.counter = session.counter + 1
    BY <1>3 DEF CountPath
  <2>2. QED
    BY <1>0, <2>1 DEF Counted
<1>4. CASE CreateFile \/ RejectPath \/ EndIngest
  <2>1. session'.counter = session.counter
    BY <1>4 DEF CreateFile, RejectPath, EndIngest
  <2>2. CASE CreateFile \/ RejectPath
    BY <2>1, <2>2 DEF Counted, CreateFile, RejectPath
  <2>3. CASE EndIngest
    BY <1>0, <2>1, <2>3 DEF Counted, Created, EndIngest, Goto
  <2>4. QED
    BY <1>4, <2>2, <2>3
<1>5. QED
  BY <1>1, <1>2, <1>3, <1>4 DEF IngestStep

\* What update_progress computes for a session that is due is 100.
LEMMA DueIsComputed ==
    ASSUME TypeOK, Small, Counted, Due
    PROVE  SessionProgress = "full"
<1>1. CASE ValidTop = {}
  BY <1>1 DEF SessionProgress, Due, Counted
<1>2. CASE ValidTop # {}
  <2>1. {f \in ValidTop : progress[f] = "full"} = ValidTop
    BY DEF Due, AllFull
  <2>2. IsFiniteSet(ValidTop) /\ Cardinality(ValidTop) < 2000
    BY SmallCounts DEF ValidTop, File
  <2>3. RoundedProgress(Cardinality(ValidTop), Cardinality(ValidTop)) = "full"
    BY <2>2, CountedFull
  <2>4. QED
    BY <1>2, <2>1, <2>3 DEF SessionProgress
<1>3. QED
  BY <1>1, <1>2

\* A session becomes due by the progress of its last file, or by a path that is rejected;
\* either is followed by update_progress.
LEMMA DueFrom ==
    ASSUME TypeOK, SubjectOK, RunsKnown, redelivered' \subseteq PerformScanTask, [Next]_vars,
           FullIsSettled, Due', ~Due
    PROVE  SessionComing'
<1> USE DEF TypeOK, dbVars, taskVars, userVars
<1>1. ~CreateFile
  <2> SUFFICES ASSUME CreateFile PROVE FALSE
    OBVIOUS
  <2>1. PICK f \in unread : row' = [row EXCEPT ![f] = "valid"] /\ UNCHANGED progress
    BY DEF CreateFile
  <2>2. f \in Top /\ f \in File /\ row[f] = "none"
    BY <2>1 DEF RunsKnown, IndexedOnce, File
  <2>3. progress'[f] = "full"
    BY <2>1, <2>2 DEF Due, AllFull, ValidTop
  <2>4. QED
    BY <2>1, <2>2, <2>3, UnindexedIsOpen DEF FullIsSettled
<1>2. CASE RejectPath
  <2>1. at'[Ingest] = "session" /\ Ingest \in Task
    BY <1>2, TaskShape DEF RejectPath, Goto
  <2>2. QED
    BY <2>1 DEF SessionComing
<1>3. CASE ~RejectPath
  <2>1. \A f \in Top : row'[f] = row[f]
    BY <1>1, <1>3, IndexingFrom DEF IngestStep, StartIngest, CountPath, EndIngest
  <2>2. PICK f \in ValidTop : progress[f] # "full"
    BY <2>1 DEF Due, AllFull, Created
  <2>3. f \in Top /\ f \in File /\ progress'[f] = "full"
    BY <2>1, <2>2 DEF Due, AllFull, ValidTop, File
  <2>4. CASE NothingToScan(f) \/ NoScannerFound(f)
    <3>1. ScanFile(f) \in Task
      BY <2>3, TaskShape
    <3>2. at'[ScanFile(f)] = "session"
      BY <2>4, <3>1 DEF NothingToScan, NoScannerFound, Goto
    <3>3. QED
      BY <3>1, <3>2 DEF SessionComing
  <2>5. ASSUME NEW t \in Task, SaveScanState(t), Target(t) = f
        PROVE  SessionComing'
    <3>1. ~(at[t] = "fileSaving" /\ subject[t] \in Member)
      BY <2>3, <2>5, SessionAssumption DEF Target
    <3>2. at'[t] = "session"
      BY <2>5, <3>1 DEF SaveScanState, SaveThen, Goto
    <3>3. QED
      BY <3>2 DEF SessionComing
  <2>6. QED
    BY <1>3, <2>2, <2>3, <2>4, <2>5, ProgressFrom
<1>4. QED
  BY <1>2, <1>3

\* The progress of the session is stored, or about to be, after every step.
LEMMA SessionHeardStep ==
    ASSUME TypeOK, SubjectOK, RunsKnown, redelivered' \subseteq PerformScanTask, Small,
           [Next]_vars, ~Overran', SubjectsKnown, ScannersFirst, LocksExclude, FullIsSettled,
           Counted, SessionHeard
    PROVE  SessionHeard'
<1> SUFFICES ASSUME Due' PROVE SessionComing' \/ SessionStored'
  BY DEF SessionHeard
<1>1. CASE ~Due
  BY <1>1, DueFrom
<1>2. CASE Due
  <2>1. SessionProgress = "full"
    BY <1>2, DueIsComputed
  <2>2. ASSUME NEW t \in Task, CountFiles(t)
        PROVE  at'[t] = "sessionSaving" /\ read'[t].progress = "full"
    BY <2>1, <2>2 DEF CountFiles, Goto, TypeOK, Reading
  <2>3. CASE SessionComing
    <3>1. PICK t \in Task :
            \/ at[t] = "session"
            \/ at[t] = "sessionSaving" /\ read[t].progress = "full"
            \/ t \in PerformScanTask /\ at[t] \in {"queued", "scanning"} \cup UpdatingFile
      BY <2>3 DEF SessionComing
    <3>2. CASE at'[t] = at[t] /\ read'[t] = read[t]
      BY <3>1, <3>2 DEF SessionComing
    <3>3. CASE Redeliver(t)
      <4>1. t \in PerformScanTask /\ at'[t] = "queued"
        BY <3>3, RunAgain DEF PerformScanTask, TypeOK
      <4>2. QED
        BY <4>1 DEF SessionComing
    <3>4. CASE CountFiles(t)
      BY <2>2, <3>4 DEF SessionComing
    <3>5. CASE SaveProgress(t)
      <4>1. at[t] = "sessionSaving" /\ session'.progress = "full"
        BY <3>1, <3>5 DEF SaveProgress, TypeOK, UpdatingFile, LockingFile
      <4>2. ASSUME NEW u \in Task, at'[u] = "sessionSaving" PROVE FALSE
        <5>1. PICK s \in {"next", "loop", "done", "publish"} : at' = [at EXCEPT ![t] = s]
          BY <3>5, ResumeStage DEF SaveProgress, Goto
        <5>2. u # t /\ at[u] = "sessionSaving"
          BY <4>2, <5>1 DEF TypeOK
        <5>3. QED
          BY <4>1, <5>2 DEF LocksExclude
      <4>3. QED
        BY <4>1, <4>2 DEF SessionStored
    <3>6. CASE at[t] \in {"session", "sessionSaving"}
      BY <3>2, <3>3, <3>4, <3>5, <3>6, UpdateMoves
         DEF ReadScanState, JudgeScanState, SaveScanState, SaveThen, FailScanState
    <3>7. CASE t \in PerformScanTask /\ at[t] \in {"queued", "scanning"}
      <4>1. PICK x \in File, a \in Agent : t = PerformScan(x, a)
        BY <3>7 DEF PerformScanTask
      <4>2. at'[t] \in {"queued", "scanning", "file"}
        BY <3>7, <4>1, ScanMoves
      <4>3. QED
        BY <3>7, <4>2 DEF SessionComing, UpdatingFile
    <3>8. CASE t \in PerformScanTask /\ at[t] \in UpdatingFile
      <4>1. CASE ReadScanState(t) \/ JudgeScanState(t)
        <5>1. at'[t] \in UpdatingFile
          BY <4>1 DEF ReadScanState, JudgeScanState, Goto, TypeOK, UpdatingFile, LockingFile
        <5>2. QED
          BY <3>8, <5>1 DEF SessionComing
      <4>2. CASE SaveScanState(t)
        <5>1. at'[t] \in {"parent", "session"}
          BY <4>2 DEF SaveScanState, SaveThen, Goto, TypeOK
        <5>2. QED
          BY <3>8, <5>1 DEF SessionComing, UpdatingFile
      <4>3. ~FailScanState(t)
        <5> SUFFICES ASSUME NoValidChild(Target(t)) PROVE FALSE
          BY DEF FailScanState
        <5>1. /\ Target(t) \in File /\ row[Target(t)] = "valid"
              /\ Target(t) \in Top => ~Unscannable(Target(t))
          BY <3>8, TargetKnown
        <5>2. Target(t) \in Top
          BY <5>1, MembersAreLeaves DEF NoValidChild
        <5>3. Settled(Target(t))
          BY <1>2, <5>1, <5>2 DEF Due, AllFull, ValidTop, FullIsSettled
        <5>4. QED
          BY <5>1, <5>2, <5>3 DEF Settled, NoValidChild
      <4>4. ~CountFiles(t) /\ ~SaveProgress(t)
        BY <3>8 DEF CountFiles, SaveProgress, UpdatingFile, LockingFile
      <4>5. QED
        BY <3>2, <3>3, <3>8, <4>1, <4>2, <4>3, <4>4, UpdateMoves
    <3>9. QED
      BY <3>1, <3>6, <3>7, <3>8
  <2>4. CASE SessionStored
    <3>1. session'.progress = "full"
      BY <2>4, SessionFrom DEF SessionStored, SaveProgress
    <3>2. ASSUME NEW t \in Task, at'[t] = "sessionSaving"
          PROVE  read'[t].progress = "full"
      BY <2>2, <2>4, <3>2, SessionLockedFrom DEF SessionStored
    <3>3. QED
      BY <3>1, <3>2 DEF SessionStored
  <2>5. QED
    BY <1>2, <2>3, <2>4 DEF SessionHeard
<1>3. QED
  BY <1>1, <1>2

-----------------------------------------------------------------------------
(* The files and the session settle *)

\* At the start nothing is answered, and nothing is due.
LEMMA SettleStart == ASSUME Init, "rescan" \notin Source PROVE SettleInv
<1>1. /\ progress = [f \in File |-> "none"]
      /\ scan = [f \in File |-> [a \in Agent |-> "none"]]
      /\ \A m \in Member : row[m] = "none"
  BY SessionAssumption DEF Init, FromDisk, FromRequest, NothingRead, File
<1>2. \A t \in Task : at[t] \in {"none", "queued", "refused"}
  BY DEF Init, FromDisk, FromRequest, Sent
<1>3. \A f \in File : Children(f) = {} /\ ~Answered(f)
  BY <1>1 DEF Children, MembersOf, Created, Answered, Scans
<1>4. Unpublished
  BY <1>2, TaskShape DEF Unpublished
<1>5. LeavesHeard /\ VerdictsHeard /\ ArchivesHeard
  <2>1. LeavesHeard /\ ArchivesHeard
    BY <1>3 DEF LeavesHeard, ArchivesHeard, MembersFull, ValidChildren
  <2>2. ASSUME NEW f \in File PROVE VerdictStored(f)
    <3>1. Scans(f) = {}
      BY <1>1 DEF Scans
    <3>2. VerdictOf(f) = {"unknown"}
      BY <1>3, <3>1, NoVerdictYet DEF VerdictOf
    <3>3. infected[f] = "unknown"
      BY SessionAssumption DEF Init, FromDisk, FromRequest, NothingRead, File
    <3>4. QED
      BY <1>2, <3>2, <3>3 DEF VerdictStored, Saving
  <2>3. QED
    BY <2>1, <2>2 DEF VerdictsHeard
<1>6. Counted
  <2>1. session.counter = 1 \/ \A f \in Top : row[f] = "none"
    BY DEF Init, FromDisk, FromRequest, File
  <2>2. QED
    BY <1>2, <2>1, TaskShape DEF Counted, Created
<1>7. ~Due
  <2>1. (\A f \in Top : row[f] = "none") \/ (\A f \in Top : row[f] = "valid")
    BY DEF Init, FromDisk, FromRequest, File
  <2>2. \A f \in Top : progress[f] = "none"
    BY <1>1 DEF File
  <2>3. QED
    BY <2>1, <2>2 DEF Due, AllFull, ValidTop, Created
<1>8. QED
  BY <1>4, <1>5, <1>6, <1>7 DEF SettleInv, SessionHeard

\* What is answered is stored, or about to be, in every state, until another task than
\* perform_scan is run again or one runs out of time.
LEMMA AlwaysHeard ==
    "rescan" \notin Source /\ Small
    => (Spec => [](OnlyScansAgain /\ ~Overran => SettleInv))
<1> SUFFICES ASSUME "rescan" \notin Source, Small
             PROVE  Spec => [](OnlyScansAgain /\ ~Overran => SettleInv)
  OBVIOUS
<1>1. Init => SettleInv
  BY SettleStart
<1>2. ASSUME TypeOK, SubjectOK, OnlyScansAgain => RunsKnown /\ ProgressInv,
             OnlyScansAgain /\ ~Overran => SettleInv, [Next]_vars, OnlyScansAgain', ~Overran'
      PROVE  SettleInv'
  <2>1. redelivered' \subseteq PerformScanTask /\ RunsKnown /\ ProgressInv /\ SettleInv
    BY <1>2, RedeliveredGrows, OverrunStays DEF OnlyScansAgain
  <2>2. QED
    BY <1>2, <2>1, UnpublishedStep, LeavesStep, VerdictsStep, ArchivesStep, CountedStep,
       SessionHeardStep DEF SettleInv, ProgressInv
<1>3. /\ TypeOK /\ SubjectOK /\ (OnlyScansAgain => RunsKnown /\ ProgressInv)
      /\ (OnlyScansAgain /\ ~Overran => SettleInv) /\ [Next]_vars
      => (OnlyScansAgain /\ ~Overran => SettleInv)'
  BY <1>2
<1>4. QED
  BY <1>1, <1>3, TypesAndSubjects, ProgressIsRight, PTL DEF Spec

\* With no task left nothing is on its way: the rows of the files are up to date.
LEMMA SettledFiles ==
    ASSUME TypeOK, RunsKnown, ProgressInv, ~Overran => SettleInv
    PROVE  FilesSettle
<1> SUFFICES ASSUME Quiescent, SettleInv, NEW f \in File, row[f] = "valid", AnyScan(f)
             PROVE  /\ infected[f] \in VerdictOf(f)
                    /\ (progress[f] = "full") <=>
                         IF Children(f) = {} THEN Pending(f) = {}
                         ELSE \A m \in ValidChildren(f) : progress[m] = "full"
  BY DEF FilesSettle
<1>1. /\ \A x \in File, a \in Agent : at[PerformScan(x, a)] \in {"none"} \cup Over
      /\ \A m \in Children(f) : m \in File
  BY TaskShape DEF Quiescent, Children, MembersOf, File
<1>2. ~LeafComing(f) /\ ~VerdictComing(f) /\ ~ProgressComing(f)
  <2>1. \A x \in Leaves(f) : x \in File
    BY MembersAreLeaves DEF Leaves
  <2>2. QED
    BY <1>1, <2>1 DEF Over, LeafComing, VerdictComing, ProgressComing, Saving
<1>3. infected[f] \in VerdictOf(f)
  BY <1>2 DEF SettleInv, VerdictsHeard, VerdictStored
<1>4. CASE Children(f) = {}
  <2>1. Scans(f) # {}
    BY <1>4 DEF AnyScan, Leaves
  <2>2. ASSUME Pending(f) = {} PROVE progress[f] = "full"
    <3>1. Answered(f)
      BY <2>1, <2>2 DEF Answered
    <3>2. QED
      BY <1>2, <1>4, <3>1 DEF SettleInv, LeavesHeard
  <2>3. ASSUME progress[f] = "full" PROVE Pending(f) = {}
    <3>1. Settled(f) /\ f \in Leaves(f) /\ ScannersFirst
      BY <1>4, <2>3 DEF ProgressInv, FullIsSettled, Leaves
    <3>2. QED
      BY <3>1, SettledIsDone
  <2>4. QED
    BY <1>3, <1>4, <2>2, <2>3
<1>5. CASE Children(f) # {}
  <2>1. PICK x \in Children(f) : Scans(x) # {}
    BY <1>5 DEF AnyScan, Leaves
  <2>2. f \in Top /\ x \in Owned(f)
    BY <1>5, MembersAreLeaves
  <2>3. x \in ValidChildren(f)
    BY <1>1, <2>1 DEF RunsKnown, AnswersKnown, ValidChildren, Scans
  <2>4. ASSUME \A m \in ValidChildren(f) : progress[m] = "full"
        PROVE  progress[f] = "full"
    BY <1>2, <2>3, <2>4 DEF SettleInv, ArchivesHeard, MembersFull
  <2>5. ASSUME progress[f] = "full"
        PROVE  \A m \in ValidChildren(f) : progress[m] = "full"
    <3>1. ~Unscannable(f)
      BY <2>1, <2>2 DEF ProgressInv, ScannersFirst, Unscannable
    <3>2. QED
      BY <1>5, <2>5, <3>1 DEF ProgressInv, FullIsSettled, Settled
  <2>6. QED
    BY <1>3, <1>5, <2>4, <2>5
<1>6. QED
  BY <1>4, <1>5

\* With no task left nothing is on its way: the row of the session is up to date.
LEMMA SettledSession ==
    ASSUME ProgressInv, ~Overran => SettleInv
    PROVE  SessionSettles
<1> SUFFICES ASSUME Quiescent, SettleInv, ValidTop # {}
             PROVE  (session.progress = "full") <=> AllFull
  BY DEF SessionSettles, AllFull
<1>1. ~Uncounted /\ ~SessionComing
  BY TaskShape DEF Quiescent, Over, Uncounted, SessionComing, UpdatingFile, LockingFile
<1>2. ASSUME session.progress = "full" PROVE AllFull
  BY <1>1, <1>2 DEF ProgressInv, SessionIsRight, AllFull
<1>3. ASSUME AllFull PROVE session.progress = "full"
  <2>1. Due
    BY <1>3 DEF Due, ValidTop, Created
  <2>2. QED
    BY <1>1, <2>1 DEF SettleInv, SessionHeard, SessionStored
<1>4. QED
  BY <1>2, <1>3

\* When a perform_scan that had already saved its result is run again, and saves another
\* one in the middle of the updates for the first, those updates and its own leave the rows
\* of the files and of the session up to date all the same, once no task is left.
THEOREM LateResultsAlwaysSettle ==
    "rescan" \notin Source /\ Small => (Spec => []LateResultsSettle)
<1> SUFFICES ASSUME "rescan" \notin Source, Small
             PROVE  Spec => []LateResultsSettle
  OBVIOUS
<1>1. /\ TypeOK /\ (OnlyScansAgain => RunsKnown /\ ProgressInv)
      /\ (OnlyScansAgain /\ ~Overran => SettleInv)
      => LateResultsSettle
  BY SettledFiles, SettledSession DEF LateResultsSettle, OnlyScansAgain
<1>2. QED
  BY <1>1, TypesAndSubjects, ProgressIsRight, AlwaysHeard, PTL

\* When no task is left, no File row is out of date: the verdict is one that the scans
\* give, and the progress is 100 exactly if every scan is answered, although every
\* update_scan_state may have read the scans before others answered.
THEOREM FilesAlwaysSettle ==
    /\ "rescan" \notin Source /\ Redeliverable \subseteq {"perform_scan"} /\ Small
    => (Spec => []FilesSettle)
<1> SUFFICES ASSUME "rescan" \notin Source, Redeliverable \subseteq {"perform_scan"}, Small
             PROVE  Spec => []FilesSettle
  OBVIOUS
<1>1. TypeOK /\ RunsKnown /\ ProgressInv /\ (~Overran => SettleInv) => FilesSettle
  BY SettledFiles
<1>2. QED
  BY <1>1, TypesAndSubjects, RedeliveredFrom, ProgressIsRight, AlwaysHeard, PTL

\* When no task is left, the Session row is up to date: the concurrent calls of
\* update_progress leave it at 100 exactly if every valid file is at 100.
THEOREM SessionsAlwaysSettle ==
    /\ "rescan" \notin Source /\ Redeliverable \subseteq {"perform_scan"} /\ Small
    => (Spec => []SessionSettles)
<1> SUFFICES ASSUME "rescan" \notin Source, Redeliverable \subseteq {"perform_scan"}, Small
             PROVE  Spec => []SessionSettles
  OBVIOUS
<1>1. ProgressInv /\ (~Overran => SettleInv) => SessionSettles
  BY SettledSession
<1>2. QED
  BY <1>1, RedeliveredFrom, ProgressIsRight, AlwaysHeard, PTL

-----------------------------------------------------------------------------
(* Why a session that is not finished has a cause *)

\* Until a file is indexed only the task that indexes runs.
Beginning ==
    (\A f \in Top : row[f] = "none") =>
        /\ \A t \in Task : t # Ingest => at[t] = "none"
        /\ \/ at[Ingest] = "queued"
           \/ at[Ingest] \in {"next", "create"} /\ unread # {}
           \/ at[Ingest] = "done" /\ session.progress = "full"
           \/ at[Ingest] \in {"refused", "failed"}

\* The stages between the creation of tasks and the publication of the last.
Carrying == {"file", "fileJudging", "fileSaving", "session", "sessionSaving", "publish"}

\* What is to be published will be, unless update_scan_state fails before.
NothingKept ==
    \A t \in Task : outbox[t] # {} =>
        \/ at[t] \in Carrying
        \/ \E f \in Top : t = ScanFile(f) /\ at[t] = "done" /\ NoValidChild(f)

\* The scan_file of a file is run, unless the broker has refused one of the indexing.
FilesRun ==
    \A f \in ValidTop : at[ScanFile(f)] = "none" =>
        ScanFile(f) \in outbox[Ingest] \/ at[Ingest] = "refused"

\* The broker has refused one of the tasks of a scan_file.
SomeRefused == \E f \in Top : at[ScanFile(f)] = "refused"

\* The perform_scan of a scan is run, but for the scan of an agent that is deleted or whose
\* driver raises what perform_scan does not catch, and for one that the broker refused.
ScansRun ==
    \A x \in File, a \in Agent : scan[x][a] = "pending" =>
        \/ at[PerformScan(x, a)] \in {"queued", "scanning"}
        \/ \E f \in Top : PerformScan(x, a) \in outbox[ScanFile(f)]
        \/ agent[a] = "deleted" \/ a \in Escapes
        \/ at[PerformScan(x, a)] = "none" /\ SomeRefused

\* An agent has been deactivated or deleted.
SomeAgentAway == \E a \in Agent : agent[a] # "active"

\* The agents that scan_file has listed were there.
AgentsWereThere ==
    \A f \in Top :
        /\ plan[f].exist => Agent # {}
        /\ plan[f].listed => plan[f].exist
        /\ plan[f].listed /\ plan[f].agents = {} => SomeAgentAway

\* What scan_file is going to scan: every leaf that is valid.
Foreseen ==
    \A f \in Top : at[ScanFile(f)] = "count" =>
        \/ plan[f].empty \/ NoValidChild(f)
        \/ \A x \in Leaves(f) : row[x] = "valid" => x \in plan[f].todo

\* A leaf without scans is going to have some, or there is a reason that it has not.
ScannedOrExcused ==
    \A f \in Top : at[ScanFile(f)] \notin {"none", "queued", "extract", "bulk", "count"} =>
        \A x \in Leaves(f) : row[x] = "valid" /\ Scans(x) = {} =>
            \/ x \in plan[f].todo /\ at[ScanFile(f)] # "done"
            \/ progress[f] = "full" \/ SomeAgentAway \/ NoValidChild(f)
            \/ at[ScanFile(f)] \in {"refused", "failed"}

\* What a session without a cause to be stuck goes through.
CauseInv ==
    /\ Beginning /\ NothingKept /\ FilesRun /\ ScansRun
    /\ AgentsWereThere /\ Foreseen /\ ScannedOrExcused

\* A scan_file moves by its own steps, by those of the updates at the end of each of them,
\* is cut short or is published.
LEMMA ScanFileFrom ==
    ASSUME TypeOK, RunsKnown, redelivered' \subseteq PerformScanTask, [Next]_vars,
           NEW f \in Top, NEW t, t = ScanFile(f), at'[t] # at[t]
    PROVE  \/ ScanFileStep(f)
           \/ ReadScanState(t) \/ JudgeScanState(t) \/ SaveScanState(t) \/ FailScanState(t)
           \/ CountFiles(t) \/ SaveProgress(t) \/ Publish(t) \/ CutAt(t)
           \/ at[t] = "none" /\ at'[t] = "queued"
<1>1. /\ t \in Task /\ t # Ingest /\ \A g \in Top : t = ScanFile(g) => g = f
      /\ \A x \in File, a \in Agent : t # PerformScan(x, a)
  BY TaskShape, TasksDiffer
<1>2. ~Redeliver(t)
  BY <1>1, RunAgain
<1>3. QED
  BY <1>1, <1>2, StageFrom

\* A task that was cut short stays where it is.
LEMMA CutStays ==
    ASSUME TypeOK, RunsKnown, [Next]_vars, NEW t \in Task, at[t] \in {"refused", "failed"}
    PROVE  at'[t] = at[t]
<1> SUFFICES ASSUME at'[t] # at[t] PROVE FALSE
  OBVIOUS
<1>1. ~(t = Ingest /\ IngestStep)
  BY DEF IngestStep, StartIngest, CountPath, CreateFile, RejectPath, EndIngest, Start
<1>2. \A f \in Top : ~(t = ScanFile(f) /\ ScanFileStep(f))
  BY DEF ScanFileStep, StartScanFile, ReuseChildren, FailExtraction, ExtractRejected,
     ExtractValid, CountAgents, NothingToScan, NoScannerFound, CreateScans, FailScans,
     EndScanFile, Start
<1>3. \A x \in File, a \in Agent : ~(t = PerformScan(x, a) /\ PerformScanStep(x, a))
  BY DEF PerformScanStep, StartPerformScan, SaveResult, LeaveScan, Start
<1>4. /\ ~ReadScanState(t) /\ ~JudgeScanState(t) /\ ~SaveScanState(t) /\ ~FailScanState(t)
      /\ ~CountFiles(t) /\ ~SaveProgress(t) /\ ~Publish(t)
  BY DEF ReadScanState, JudgeScanState, SaveScanState, SaveThen, FailScanState, CountFiles,
     SaveProgress, Publish
<1>5. ~Redeliver(t) /\ ~CutAt(t)
  BY DEF Redeliver, Idle, Over, CutAt, Updating
<1>6. QED
  BY <1>1, <1>2, <1>3, <1>4, <1>5, StageFrom

\* The variables of a scan_file change by its own steps.
LEMMA PlanFrom ==
    ASSUME TypeOK, [Next]_vars, NEW f \in Top, plan'[f] # plan[f]
    PROVE  ScanFileStep(f)
<1> USE DEF TypeOK, dbVars, taskVars, userVars
<1>1. ASSUME NEW g \in Top, ScanFileStep(g) PROVE f = g
  <2>1. \A h \in Top : h # g => plan'[h] = plan[h]
    <3>1. CASE \/ ReuseChildren(g) \/ NoScannerFound(g) \/ CountAgents(g) \/ CreateScans(g)
      BY <3>1 DEF ReuseChildren, NoScannerFound, CountAgents, CreateScans
    <3>2. CASE StartScanFile(g) \/ FailExtraction(g) \/ ExtractValid(g)
      BY <3>2 DEF StartScanFile, FailExtraction, ExtractValid
    <3>3. CASE ExtractRejected(g) \/ NothingToScan(g) \/ FailScans(g) \/ EndScanFile(g)
      BY <3>3 DEF ExtractRejected, NothingToScan, FailScans, EndScanFile
    <3>4. QED
      BY <1>1, <3>1, <3>2, <3>3 DEF ScanFileStep
  <2>2. QED
    BY <2>1
<1>2. /\ ~IngestStep
      /\ \A x \in File, a \in Agent : ~PerformScanStep(x, a)
      /\ \A t \in Task : ~UpdateStep(t)
  BY DEF IngestStep, StartIngest, CountPath, CreateFile, RejectPath, EndIngest,
     PerformScanStep, StartPerformScan, SaveResult, LeaveScan,
     UpdateStep, ReadScanState, JudgeScanState, SaveScanState, SaveThen, FailScanState,
     CountFiles, SaveProgress, Publish
<1>3. /\ ~AcceptPostscan /\ ~CopyCleanFiles /\ ~UNCHANGED vars
      /\ \A a \in Agent : ~DeactivateAgent(a) /\ ~DeleteAgent(a)
      /\ \A u \in Task : ~Redeliver(u)
      /\ ~FaultStep
  BY FaultLeaves DEF AcceptPostscan, CopyCleanFiles, DeactivateAgent, DeleteAgent, Redeliver,
     vars
<1>4. QED
  BY <1>1, <1>2, <1>3 DEF Next, WorkerStep

\* Once its scan_file has extracted it a file keeps its children, valid or not.
LEMMA ChildrenSame ==
    ASSUME TypeOK, RunsKnown, [Next]_vars,
           NEW f \in Top, at[ScanFile(f)] \notin {"none", "queued", "extract", "bulk"}
    PROVE  /\ Children(f)' = Children(f) /\ ValidChildren(f)' = ValidChildren(f)
           /\ NoValidChild(f)' = NoValidChild(f)
           /\ row[f] = "valid" /\ row'[f] = "valid"
<1>1. f \in File
  BY DEF File
<1>2. Children(f)' = Children(f)
  BY <1>1, ChildrenFrom DEF ExtractRejected, ExtractValid
<1>3. \A m \in Children(f) : row'[m] = row[m]
  BY RowsAndScans DEF Children, MembersOf, Created, File
<1>4. ValidChildren(f)' = ValidChildren(f)
  BY <1>2, <1>3 DEF ValidChildren
<1>5. row[f] = "valid"
  BY DEF RunsKnown, IndexedOnce
<1>6. row'[f] = "valid"
  BY <1>1, <1>5, RowsAndScans
<1>7. QED
  BY <1>2, <1>4, <1>5, <1>6 DEF NoValidChild

\* An agent that went away does not come back.
LEMMA AgentsGo ==
    ASSUME TypeOK, [Next]_vars, NEW a \in Agent
    PROVE  /\ agent[a] # "active" => agent'[a] # "active"
           /\ agent[a] = "deleted" => agent'[a] = "deleted"
<1> USE DEF TypeOK, dbVars, taskVars, userVars
<1>1. CASE \E b \in Agent : DeactivateAgent(b) \/ DeleteAgent(b)
  BY <1>1 DEF DeactivateAgent, DeleteAgent
<1>2. CASE IngestStep
  BY <1>2 DEF IngestStep, StartIngest, CountPath, CreateFile, RejectPath, EndIngest
<1>3. CASE \E f \in Top : ScanFileStep(f)
  BY <1>3 DEF ScanFileStep, StartScanFile, ReuseChildren, FailExtraction, ExtractRejected,
     ExtractValid, CountAgents, NothingToScan, NoScannerFound, CreateScans, FailScans,
     EndScanFile
<1>4. CASE \/ \E x \in File, b \in Agent : PerformScanStep(x, b)
           \/ \E t \in Task : UpdateStep(t)
  BY <1>4 DEF PerformScanStep, StartPerformScan, SaveResult, LeaveScan,
     UpdateStep, ReadScanState, JudgeScanState, SaveScanState, SaveThen, FailScanState,
     CountFiles, SaveProgress, Publish
<1>5. CASE AcceptPostscan \/ CopyCleanFiles \/ UNCHANGED vars
  BY <1>5 DEF AcceptPostscan, CopyCleanFiles, vars
<1>6. CASE \E t \in Task : Redeliver(t)
  BY <1>6 DEF Redeliver
<1>7. CASE FaultStep
  BY <1>7, FaultLeaves
<1>8. QED
  BY <1>1, <1>2, <1>3, <1>4, <1>5, <1>6, <1>7 DEF Next, WorkerStep

\* Until a file is indexed only the task that indexes runs, after every step.
LEMMA BeginningStep ==
    ASSUME TypeOK, RunsKnown, redelivered' \subseteq PerformScanTask, [Next]_vars, Beginning
    PROVE  Beginning'
<1> USE DEF TypeOK, dbVars, taskVars, userVars
<1> SUFFICES ASSUME \A f \in Top : row'[f] = "none"
             PROVE  /\ \A t \in Task : t # Ingest => at'[t] = "none"
                    /\ \/ at'[Ingest] = "queued"
                       \/ at'[Ingest] \in {"next", "create"} /\ unread' # {}
                       \/ at'[Ingest] = "done" /\ session'.progress = "full"
                       \/ at'[Ingest] \in {"refused", "failed"}
  BY DEF Beginning
<1>0. Ingest \in Task
  BY TaskShape
<1>1. \A f \in Top : row[f] = "none"
  BY RowsAndScans DEF File
<1>2. /\ \A t \in Task : t # Ingest => at[t] = "none"
      /\ \/ at[Ingest] = "queued"
         \/ at[Ingest] \in {"next", "create"} /\ unread # {}
         \/ at[Ingest] = "done" /\ session.progress = "full"
         \/ at[Ingest] \in {"refused", "failed"}
  BY <1>1 DEF Beginning
<1>3. ~CreateFile /\ ~RejectPath
  BY DEF CreateFile, RejectPath, File
<1>4. CASE StartIngest
  BY <1>0, <1>2, <1>4 DEF StartIngest, Start
<1>5. CASE CountPath
  BY <1>0, <1>2, <1>5 DEF CountPath, Goto
<1>6. ~EndIngest
  BY <1>2 DEF EndIngest
<1>7. ASSUME NEW f \in Top, ScanFileStep(f) PROVE FALSE
  <2>1. at[ScanFile(f)] = "none"
    BY <1>2, TaskShape, TasksDiffer
  <2>2. QED
    BY <1>7, <2>1 DEF ScanFileStep, StartScanFile, ReuseChildren, FailExtraction,
       ExtractRejected, ExtractValid, CountAgents, NothingToScan, NoScannerFound, CreateScans,
       FailScans, EndScanFile, Start
<1>8. ASSUME NEW x \in File, NEW a \in Agent, PerformScanStep(x, a) PROVE FALSE
  <2>1. at[PerformScan(x, a)] = "none"
    BY <1>2, TaskShape, TasksDiffer
  <2>2. QED
    BY <1>8, <2>1 DEF PerformScanStep, StartPerformScan, SaveResult, LeaveScan, Start
<1>9. ASSUME NEW t \in Task, UpdateStep(t) PROVE FALSE
  <2>1. at[t] \in {"none", "queued", "next", "create", "done", "refused", "failed"}
    BY <1>2
  <2>2. QED
    BY <1>9, <2>1 DEF UpdateStep, ReadScanState, JudgeScanState, SaveScanState, SaveThen,
       FailScanState, CountFiles, SaveProgress, Publish
<1>10. CASE \/ AcceptPostscan \/ CopyCleanFiles \/ UNCHANGED vars
            \/ \E a \in Agent : DeactivateAgent(a) \/ DeleteAgent(a)
  BY <1>2, <1>10 DEF AcceptPostscan, CopyCleanFiles, DeactivateAgent, DeleteAgent, vars
<1>11. ASSUME NEW t \in Task, Redeliver(t) PROVE FALSE
  <2>1. t # Ingest /\ at[t] # "none"
    BY <1>11, RunAgain DEF Idle
  <2>2. QED
    BY <1>2, <2>1
<1>12. CASE FaultStep
  <2>1. \A t \in Task : at'[t] = at[t] \/ CutAt(t)
    BY <1>12, FaultLeaves
  <2>2. \A t \in Task : t # Ingest => at'[t] = "none"
    BY <1>2, <2>1 DEF CutAt, Updating
  <2>3. CASE at'[Ingest] = at[Ingest]
    BY <1>2, <1>12, <2>2, <2>3, FaultLeaves
  <2>4. CASE CutAt(Ingest)
    BY <2>2, <2>4 DEF CutAt
  <2>5. QED
    BY <1>0, <2>1, <2>3, <2>4
<1>13. QED
  BY <1>3, <1>4, <1>5, <1>6, <1>7, <1>8, <1>9, <1>10, <1>11, <1>12 DEF Next, WorkerStep, IngestStep

\* update_scan_state fails in scan_file only for the file itself.
LEMMA FailureOfFile ==
    ASSUME TypeOK, SubjectOK, RunsKnown, SubjectsKnown, NEW t \in Task, FailScanState(t)
    PROVE  \/ \E f \in Top : t = ScanFile(f) /\ NoValidChild(f)
           \/ \E x \in File, a \in Agent : t = PerformScan(x, a)
<1>1. at[t] \in {"file", "parent"} /\ at[t] \in UpdatingFile /\ NoValidChild(Target(t))
  BY DEF FailScanState, UpdatingFile
<1>2. t # Ingest
  <2> SUFFICES ASSUME t = Ingest PROVE FALSE
    OBVIOUS
  <2>1. /\ subject[t] \in ValidTop /\ at[ScanFile(subject[t])] = "none"
        /\ Target(t) = subject[t]
    BY <1>1 DEF SubjectsKnown, Target
  <2>2. Children(subject[t]) = {}
    BY <2>1 DEF RunsKnown, UnscannedYet, ValidTop
  <2>3. QED
    BY <1>1, <2>1, <2>2 DEF NoValidChild
<1>3. ASSUME NEW f \in Top, t = ScanFile(f) PROVE NoValidChild(f)
  <2>1. subject[t] \in Owned(f) /\ Target(t) = subject[t]
    BY <1>1, <1>3 DEF SubjectsKnown, Target
  <2>2. subject[t] = f \/ Children(subject[t]) = {}
    BY <2>1, MembersAreLeaves DEF Owned, MembersOf
  <2>3. QED
    BY <1>1, <2>1, <2>2 DEF NoValidChild
<1>4. QED
  BY <1>2, <1>3, TaskCases

\* A publisher that the broker refused has nothing left to send.
LEMMA RefusedEmpties ==
    ASSUME TypeOK, RunsKnown, [Next]_vars,
           NEW t \in Task, at[t] = "publish", at'[t] = "refused"
    PROVE  outbox'[t] = {}
<1> USE DEF TypeOK, dbVars, taskVars, userVars
<1>1. ~IngestStep
  <2> SUFFICES ASSUME IngestStep PROVE FALSE
    OBVIOUS
  <2>1. PICK s \in {"done", "next", "create", "file", "session"} :
          at' = [at EXCEPT ![Ingest] = s] /\ at[Ingest] # "publish"
    BY DEF IngestStep, StartIngest, CountPath, CreateFile, RejectPath, EndIngest, Start, Goto
  <2>2. QED
    BY <2>1
<1>2. ASSUME NEW f \in Top, ScanFileStep(f) PROVE FALSE
  <2>1. PICK s : at' = [at EXCEPT ![ScanFile(f)] = s] /\ at[ScanFile(f)] # "publish"
    BY <1>2 DEF ScanFileStep, StartScanFile, ReuseChildren, FailExtraction, ExtractRejected,
       ExtractValid, CountAgents, NothingToScan, NoScannerFound, CreateScans, FailScans,
       EndScanFile, Start, Goto
  <2>2. QED
    BY <2>1
<1>3. ASSUME NEW x \in File, NEW a \in Agent, PerformScanStep(x, a) PROVE FALSE
  <2>1. PICK s : at' = [at EXCEPT ![PerformScan(x, a)] = s] /\ at[PerformScan(x, a)] # "publish"
    BY <1>3 DEF PerformScanStep, StartPerformScan, SaveResult, LeaveScan, Start, Goto
  <2>2. QED
    BY <2>1
<1>4. ASSUME NEW u \in Task, UpdateStep(u) PROVE FALSE
  <2>1. CASE ReadScanState(u) \/ JudgeScanState(u) \/ SaveScanState(u)
    BY <2>1 DEF ReadScanState, JudgeScanState, SaveScanState, SaveThen, Goto
  <2>2. CASE FailScanState(u) \/ CountFiles(u)
    BY <2>2 DEF FailScanState, CountFiles, Goto
  <2>3. CASE SaveProgress(u)
    BY <2>3 DEF SaveProgress, Goto
  <2>4. CASE Publish(u)
    BY <2>4, ResumeStage DEF Publish
  <2>5. QED
    BY <1>4, <2>1, <2>2, <2>3, <2>4 DEF UpdateStep
<1>5. CASE FaultStep
  <2>1. CASE \E u \in Task : RefusePublication(u)
    BY <2>1 DEF RefusePublication, Goto
  <2>2. ~(\E u \in Task : RefusePublication(u)) => at'[t] = at[t] \/ at'[t] = "failed"
    BY <1>5 DEF FaultStep, BreakIngest, BreakExtraction, Overrun, Goto
  <2>3. QED
    BY <2>1, <2>2
<1>6. CASE \/ AcceptPostscan \/ CopyCleanFiles \/ UNCHANGED vars
           \/ \E a \in Agent : DeactivateAgent(a) \/ DeleteAgent(a)
  BY <1>6 DEF AcceptPostscan, CopyCleanFiles, DeactivateAgent, DeleteAgent, vars
<1>7. ~(\E u \in Task : Redeliver(u))
  BY DEF Redeliver
<1>8. QED
  BY <1>1, <1>2, <1>3, <1>4, <1>5, <1>6, <1>7 DEF Next, WorkerStep

\* What is to be published will be, after every step, unless update_scan_state fails.
LEMMA NothingKeptStep ==
    ASSUME TypeOK, SubjectOK, RunsKnown, redelivered' \subseteq PerformScanTask, [Next]_vars,
           SubjectsKnown, NothingKept
    PROVE  NothingKept'
<1> SUFFICES ASSUME NEW t \in Task, outbox'[t] # {}
             PROVE  \/ at'[t] \in Carrying
                    \/ \E f \in Top : t = ScanFile(f) /\ at'[t] = "done" /\ NoValidChild(f)'
  BY DEF NothingKept
<1> USE DEF TypeOK
<1>1. CASE outbox'[t] # outbox[t]
  <2>1. CASE t = Ingest /\ CreateFile
    BY <2>1 DEF CreateFile, Goto, Carrying
  <2>2. CASE \E f \in Top : t = ScanFile(f) /\ CreateScans(f)
    BY <2>2 DEF CreateScans, Goto, Carrying
  <2>3. CASE Publish(t)
    <3>1. PICK u \in outbox[t] :
            /\ outbox' = [outbox EXCEPT ![t] = @ \ {u}]
            /\ at' = [at EXCEPT ![u] = "queued",
                                ![t] = IF outbox[t] = {u} THEN Resume(t) ELSE "publish"]
      BY <2>3 DEF Publish
    <3>2. outbox[t] # {u}
      BY <3>1
    <3>3. QED
      BY <3>1, <3>2 DEF Carrying
  <2>4. outbox'[t] # {}
    OBVIOUS
  <2>5. QED
    BY <1>1, <2>1, <2>2, <2>3, <2>4, OutboxFrom
<1>2. CASE outbox'[t] = outbox[t]
  <2>1. \A x \in File, a \in Agent : t # PerformScan(x, a)
    BY <1>2 DEF RunsKnown, PublishedOnce
  <2>2. CASE at'[t] = at[t]
    <3>1. ASSUME NEW f \in Top, t = ScanFile(f), at[t] = "done", NoValidChild(f)
          PROVE  NoValidChild(f)'
      BY <3>1, ChildrenSame
    <3>2. QED
      BY <1>2, <2>2, <3>1 DEF NothingKept
  <2>3. CASE at'[t] # at[t]
    <3>1. at[t] \in Carrying \cup {"done"} /\ at[t] \notin {"none", "next", "create", "loop"}
      BY <1>2 DEF NothingKept, Carrying
    <3>2. ~IngestStep \/ t # Ingest
      BY <3>1 DEF IngestStep, StartIngest, CountPath, CreateFile, RejectPath, EndIngest,
         Start, Carrying
    <3>3. \A f \in Top : t = ScanFile(f) => ~ScanFileStep(f)
      BY <3>1 DEF ScanFileStep, StartScanFile, ReuseChildren, FailExtraction,
         ExtractRejected, ExtractValid, CountAgents, NothingToScan, NoScannerFound,
         CreateScans, FailScans, EndScanFile, Start, Carrying
    <3>4. CASE ReadScanState(t) \/ JudgeScanState(t)
      BY <3>1, <3>4 DEF ReadScanState, JudgeScanState, Goto, Carrying
    <3>5. CASE SaveScanState(t)
      <4>1. t.kind # "perform_scan"
        BY <2>1, TaskCases, TaskShape
      <4>2. QED
        BY <3>5, <4>1 DEF SaveScanState, SaveThen, Goto, Carrying
    <3>6. CASE CountFiles(t)
      BY <3>6 DEF CountFiles, Goto, Carrying
    <3>7. CASE SaveProgress(t)
      BY <1>2, <3>7 DEF SaveProgress, Goto, Carrying
    <3>8. CASE FailScanState(t)
      <4>1. PICK f \in Top : t = ScanFile(f) /\ NoValidChild(f)
        BY <2>1, <3>8, FailureOfFile
      <4>2. UNCHANGED row /\ at'[t] = "done"
        BY <3>8 DEF FailScanState, Goto, dbVars
      <4>3. NoValidChild(f)'
        BY <4>1, <4>2 DEF NoValidChild, ValidChildren, Children, Created
      <4>4. QED
        BY <4>1, <4>2, <4>3
    <3>9. ~Publish(t)
      BY <1>2 DEF Publish
    <3>10. ~Redeliver(t)
      BY <2>1, RunAgain
    <3>11. ~CutAt(t)
      <4>1. ASSUME at[t] = "publish", at'[t] = "refused" PROVE FALSE
        BY <1>2, <4>1, RefusedEmpties
      <4>2. t \notin PerformScanTask
        BY <2>1 DEF PerformScanTask
      <4>3. QED
        BY <3>1, <4>1, <4>2 DEF CutAt, Carrying
    <3>12. QED
      BY <2>1, <2>3, <3>1, <3>2, <3>3, <3>4, <3>5, <3>6, <3>7, <3>8, <3>9, <3>10, <3>11,
         StageFrom
  <2>4. QED
    BY <2>2, <2>3
<1>3. QED
  BY <1>1, <1>2

\* A task that was published is not forgotten.
LEMMA NeverUnsent ==
    ASSUME TypeOK, RunsKnown, redelivered' \subseteq PerformScanTask, [Next]_vars,
           NEW t \in Task, at'[t] = "none"
    PROVE  at[t] = "none"
<1> USE DEF TypeOK
<1> SUFFICES ASSUME at'[t] # at[t] PROVE FALSE
  OBVIOUS
<1>1. ~(t = Ingest /\ IngestStep)
  <2> SUFFICES ASSUME IngestStep PROVE at'[Ingest] # "none"
    OBVIOUS
  <2>1. PICK s \in {"done", "next", "create", "file", "session"} :
          at' = [at EXCEPT ![Ingest] = s]
    BY DEF IngestStep, StartIngest, CountPath, CreateFile, RejectPath, EndIngest, Start, Goto
  <2>2. QED
    BY <2>1, TaskShape
<1>2. ASSUME NEW f \in Top, t = ScanFile(f), ScanFileStep(f) PROVE FALSE
  BY <1>2 DEF ScanFileStep, StartScanFile, ReuseChildren, FailExtraction, ExtractRejected,
     ExtractValid, CountAgents, NothingToScan, NoScannerFound, CreateScans, FailScans,
     EndScanFile, Start, Goto
<1>3. ASSUME NEW x \in File, NEW a \in Agent, t = PerformScan(x, a), PerformScanStep(x, a)
      PROVE  FALSE
  BY <1>3 DEF PerformScanStep, StartPerformScan, SaveResult, LeaveScan, Start, Goto
<1>4. /\ ~ReadScanState(t) /\ ~JudgeScanState(t) /\ ~SaveScanState(t) /\ ~FailScanState(t)
      /\ ~CountFiles(t)
  BY DEF ReadScanState, JudgeScanState, SaveScanState, SaveThen, FailScanState, CountFiles, Goto
<1>5. ~SaveProgress(t) /\ ~Publish(t)
  BY ResumeStage DEF SaveProgress, Publish, Goto
<1>6. ~Redeliver(t) /\ ~CutAt(t)
  BY RunAgain DEF CutAt
<1>7. QED
  BY <1>1, <1>2, <1>3, <1>4, <1>5, <1>6, StageFrom

\* Every file that is indexed has its scan_file published, or about to be.
LEMMA FilesRunStep ==
    ASSUME TypeOK, RunsKnown, redelivered' \subseteq PerformScanTask, [Next]_vars,
           NothingKept, FilesRun
    PROVE  FilesRun'
<1> USE DEF TypeOK
<1> SUFFICES ASSUME NEW f \in Top, row'[f] = "valid", at'[ScanFile(f)] = "none"
             PROVE  ScanFile(f) \in outbox'[Ingest] \/ at'[Ingest] = "refused"
  BY DEF FilesRun, ValidTop
<1>0. Ingest \in Task /\ ScanFile(f) \in Task
  BY TaskShape
<1>1. CASE row[f] # "valid"
  <2>1. CreateFile /\ f = subject'[Ingest]
    BY <1>1, ValidFrom
  <2>2. QED
    BY <1>0, <2>1 DEF CreateFile
<1>2. CASE row[f] = "valid"
  <2>1. at[ScanFile(f)] = "none"
    BY <1>0, NeverUnsent
  <2>0. CASE at[Ingest] = "refused"
    BY <1>0, <2>0, CutStays
  <2>2. CASE ScanFile(f) \in outbox[Ingest]
    <3>1. CASE outbox'[Ingest] = outbox[Ingest]
      BY <2>2, <3>1
    <3>2. ~CreateFile
      <4>1. at[Ingest] \in Carrying
        BY <1>0, <2>2, TasksDiffer DEF NothingKept
      <4>2. QED
        BY <4>1 DEF CreateFile, Carrying
    <3>3. CASE Publish(Ingest)
      <4>1. PICK u \in outbox[Ingest] :
              /\ outbox' = [outbox EXCEPT ![Ingest] = @ \ {u}]
              /\ at' = [at EXCEPT ![u] = "queued",
                            ![Ingest] = IF outbox[Ingest] = {u} THEN Resume(Ingest)
                                        ELSE "publish"]
        BY <3>3 DEF Publish
      <4>2. u # ScanFile(f)
        BY <1>0, <4>1, TasksDiffer
      <4>3. QED
        BY <1>0, <2>2, <4>1, <4>2
    <3>4. QED
      BY <1>0, <3>1, <3>2, <3>3, OutboxFrom, TasksDiffer
  <2>3. QED
    BY <1>2, <2>0, <2>1, <2>2 DEF FilesRun, ValidTop
<1>3. QED
  BY <1>1, <1>2

\* A scan that is pending has its perform_scan published, or about to be.
LEMMA ScansRunStep ==
    ASSUME TypeOK, RunsKnown, redelivered' \subseteq PerformScanTask, [Next]_vars,
           NothingKept, ScansRun
    PROVE  ScansRun'
<1> USE DEF TypeOK
<1> SUFFICES ASSUME NEW x \in File, NEW a \in Agent, scan'[x][a] = "pending"
             PROVE  \/ at'[PerformScan(x, a)] \in {"queued", "scanning"}
                    \/ \E f \in Top : PerformScan(x, a) \in outbox'[ScanFile(f)]
                    \/ agent'[a] = "deleted" \/ a \in Escapes
                    \/ at'[PerformScan(x, a)] = "none" /\ SomeRefused'
  BY DEF ScansRun
<1> DEFINE t == PerformScan(x, a)
<1>0. t \in Task /\ t # Ingest /\ \A f \in Top : t # ScanFile(f) /\ ScanFile(f) \in Task
  BY TaskShape, TasksDiffer
<1>1. CASE scan[x][a] # "pending"
  <2>1. ASSUME NEW f \in Top, Scans(x)' = AgentsListed(f),
               outbox'[ScanFile(f)] = {PerformScan(x, b) : b \in AgentsListed(f)}
        PROVE  t \in outbox'[ScanFile(f)]
    <3>1. a \in AgentsListed(f)
      BY <2>1 DEF Scans
    <3>2. QED
      BY <2>1, <3>1
  <2>2. ASSUME NEW b \in Agent, SaveResult(x, b) PROVE FALSE
    <3>1. PICK result \in Result : scan' = [scan EXCEPT ![x][b] = result]
      BY <2>2 DEF SaveResult
    <3>2. QED
      BY <1>1, <3>1 DEF Result
  <2>3. QED
    BY <1>1, <2>1, <2>2, ScanFrom
<1>2. CASE scan[x][a] = "pending"
  <2>1. CASE agent[a] = "deleted" \/ a \in Escapes
    BY <2>1, AgentsGo
  <2>0. ASSUME at[t] = "none" PROVE at'[t] \in {"none", "queued"}
    <3>1. ~StartPerformScan(x, a) /\ ~SaveResult(x, a) /\ ~LeaveScan(x, a)
      BY <2>0 DEF StartPerformScan, Start, SaveResult, LeaveScan
    <3>2. \A y \in File, b \in Agent : t = PerformScan(y, b) => ~PerformScanStep(y, b)
      BY <2>0 DEF PerformScanStep, StartPerformScan, Start, SaveResult, LeaveScan
    <3>3. /\ ~ReadScanState(t) /\ ~JudgeScanState(t) /\ ~SaveScanState(t) /\ ~FailScanState(t)
          /\ ~CountFiles(t) /\ ~SaveProgress(t) /\ ~Publish(t)
      BY <2>0 DEF ReadScanState, JudgeScanState, SaveScanState, SaveThen, FailScanState,
         CountFiles, SaveProgress, Publish
    <3>4. ~Redeliver(t) /\ ~CutAt(t)
      BY <2>0 DEF Redeliver, Idle, CutAt, Updating
    <3>5. QED
      BY <1>0, <2>0, <3>2, <3>3, <3>4, StageFrom
  <2>2. ASSUME NEW f \in Top, t \in outbox[ScanFile(f)]
        PROVE  \/ t \in outbox'[ScanFile(f)]
               \/ at'[t] = "queued"
               \/ at'[t] = "none" /\ SomeRefused'
    <3>1. CASE outbox'[ScanFile(f)] = outbox[ScanFile(f)]
      BY <2>2, <3>1
    <3>2. ASSUME NEW g \in Top, ScanFile(f) = ScanFile(g) PROVE ~CreateScans(g)
      <4>1. at[ScanFile(f)] \in Carrying \cup {"done"}
        BY <1>0, <2>2 DEF NothingKept
      <4>2. QED
        BY <3>2, <4>1 DEF CreateScans, Carrying
    <3>3. CASE Publish(ScanFile(f))
      <4> DEFINE u == ScanFile(f)
      <4>1. PICK v \in outbox[u] :
              /\ outbox' = [outbox EXCEPT ![u] = @ \ {v}]
              /\ at' = [at EXCEPT ![v] = "queued",
                                  ![u] = IF outbox[u] = {v} THEN Resume(u) ELSE "publish"]
        BY <3>3 DEF Publish
      <4>2. CASE v = t
        BY <1>0, <4>1, <4>2
      <4>3. CASE v # t
        BY <1>0, <2>2, <4>1, <4>3
      <4>4. QED
        BY <4>2, <4>3
    <3>4. CASE at'[ScanFile(f)] = "refused"
      <4>1. at[t] = "none"
        BY <1>0, <2>2 DEF RunsKnown, PublishedOnce
      <4>2. QED
        BY <2>0, <3>4, <4>1 DEF SomeRefused
    <3>5. QED
      BY <1>0, <3>1, <3>2, <3>3, <3>4, OutboxFrom, TasksDiffer
  <2>5. CASE at[t] = "none" /\ SomeRefused
    <3>1. SomeRefused'
      BY <1>0, <2>5, CutStays DEF SomeRefused
    <3>2. QED
      BY <2>0, <2>5, <3>1
  <2>3. CASE at[t] \in {"queued", "scanning"} /\ agent[a] # "deleted" /\ a \notin Escapes
    <3>1. CASE at'[t] = at[t]
      BY <2>3, <3>1
    <3>2. CASE Redeliver(t)
      BY <1>0, <3>2, RunAgain
    <3>3. CASE at'[t] # at[t] /\ ~Redeliver(t)
      <4>1. PICK y \in File, b \in Agent : t = PerformScan(y, b) /\ PerformScanStep(y, b)
        <5>1. /\ ~ReadScanState(t) /\ ~JudgeScanState(t) /\ ~SaveScanState(t)
              /\ ~FailScanState(t) /\ ~CountFiles(t) /\ ~SaveProgress(t) /\ ~Publish(t)
              /\ ~CutAt(t)
          BY <1>0, <2>3 DEF ReadScanState, JudgeScanState, SaveScanState, SaveThen, FailScanState,
             CountFiles, SaveProgress, Publish, CutAt, Updating
        <5>2. QED
          BY <1>0, <2>3, <3>3, <5>1, StageFrom
      <4>2. y = x /\ b = a
        BY <4>1, TaskShape
      <4>3. ~SaveResult(x, a)
        <5>1. ASSUME NEW result \in Result, scan' = [scan EXCEPT ![x][a] = result] PROVE FALSE
          BY <5>1 DEF Result
        <5>2. QED
          BY <5>1 DEF SaveResult
      <4>4. StartPerformScan(x, a)
        BY <2>3, <4>1, <4>2, <4>3 DEF PerformScanStep, LeaveScan
      <4>5. QED
        BY <1>0, <4>4 DEF StartPerformScan, Start
    <3>4. QED
      BY <3>1, <3>2, <3>3
  <2>4. QED
    BY <1>2, <2>1, <2>2, <2>3, <2>5 DEF ScansRun
<1>3. QED
  BY <1>1, <1>2

\* The agents that scan_file has listed were there when it did.
LEMMA AgentsWereThereStep ==
    ASSUME TypeOK, RunsKnown, redelivered' \subseteq PerformScanTask, [Next]_vars, ScannersFirst,
           AgentsWereThere
    PROVE  AgentsWereThere'
<1> USE DEF TypeOK
<1> SUFFICES ASSUME NEW f \in Top
             PROVE  /\ plan'[f].exist => Agent # {}
                    /\ plan'[f].listed => plan'[f].exist
                    /\ plan'[f].listed /\ plan'[f].agents = {} => SomeAgentAway'
  BY DEF AgentsWereThere
<1>1. SomeAgentAway => SomeAgentAway'
  BY AgentsGo DEF SomeAgentAway
<1>2. /\ plan[f].exist => Agent # {}
      /\ plan[f].listed => plan[f].exist
      /\ plan[f].listed /\ plan[f].agents = {} => SomeAgentAway
      /\ plan[f] \in Plan
  BY DEF AgentsWereThere
<1>3. CASE plan'[f] = plan[f]
  BY <1>1, <1>2, <1>3
<1>4. CASE ScanFileStep(f)
  <2>1. CASE StartScanFile(f)
    BY <2>1 DEF StartScanFile, NoPlan
  <2>2. CASE ReuseChildren(f) \/ FailExtraction(f) \/ ExtractValid(f) \/ NoScannerFound(f)
    <3>1. /\ plan'[f].exist = plan[f].exist /\ plan'[f].listed = plan[f].listed
          /\ plan'[f].agents = plan[f].agents
      <4> DEFINE kept(p) == /\ p.exist = plan[f].exist /\ p.listed = plan[f].listed
                            /\ p.agents = plan[f].agents
      <4>1. /\ kept(WithoutChildren(f))
            /\ \A todo : kept([plan[f] EXCEPT !.todo = todo])
        BY <1>2 DEF WithoutChildren, Plan
      <4>2. CASE ReuseChildren(f)
        <5>1. plan'[f] = [plan[f] EXCEPT !.todo = ValidChildren(f)]
          BY <4>2 DEF ReuseChildren
        <5>2. QED
          BY <4>1, <5>1
      <4>3. CASE FailExtraction(f)
        <5>1. plan'[f] = WithoutChildren(f)
          BY <4>3 DEF FailExtraction
        <5>2. QED
          BY <4>1, <5>1
      <4>4. CASE ExtractValid(f)
        <5> DEFINE accepted == {m \in MembersOf(f) : ~Created(m)}
        <5>1. plan' = [plan EXCEPT ![f] = IF accepted = {} THEN WithoutChildren(f)
                                          ELSE [@ EXCEPT !.todo = accepted]]
          BY <4>4 DEF ExtractValid
        <5>2. \/ plan'[f] = WithoutChildren(f)
              \/ plan'[f] = [plan[f] EXCEPT !.todo = accepted]
          BY <5>1
        <5> HIDE DEF accepted
        <5>3. kept([plan[f] EXCEPT !.todo = accepted])
          BY <4>1
        <5> HIDE DEF kept
        <5>4. kept(plan'[f])
          BY <4>1, <5>2, <5>3
        <5>5. QED
          BY <5>4 DEF kept
      <4>5. CASE NoScannerFound(f)
        <5>1. \E todo : plan'[f] = [plan[f] EXCEPT !.todo = todo]
          BY <4>5 DEF NoScannerFound
        <5>2. QED
          BY <4>1, <5>1
      <4>6. QED
        BY <2>2, <4>2, <4>3, <4>4, <4>5
    <3>2. QED
      BY <1>1, <1>2, <3>1
  <2>3. CASE CountAgents(f)
    <3>1. ~plan[f].exist
      BY <2>3 DEF CountAgents, ScannersFirst
    <3>2. plan'[f].listed = plan[f].listed /\ plan'[f].exist = (ActiveAgents # {})
      BY <1>2, <2>3 DEF CountAgents, Plan
    <3>3. QED
      BY <1>2, <3>1, <3>2 DEF ActiveAgents
  <2>4. CASE CreateScans(f)
    <3>1. plan[f].exist /\ UNCHANGED agent
      BY <2>4 DEF CreateScans
    <3>2. /\ plan'[f].exist = plan[f].exist
          /\ plan'[f].agents = AgentsListed(f)
      <4>1. PICK x \in plan[f].todo :
              plan' = [plan EXCEPT ![f].todo = @ \ {x}, ![f].listed = TRUE,
                                   ![f].agents = AgentsListed(f)]
        BY <2>4 DEF CreateScans
      <4>2. plan'[f] = [plan[f] EXCEPT !.todo = @ \ {x}, !.listed = TRUE,
                                       !.agents = AgentsListed(f)]
        BY <4>1
      <4>3. QED
        BY <1>2, <4>2 DEF Plan
    <3>3. CASE ~plan[f].listed /\ AgentsListed(f) = {}
      <4>1. ActiveAgents = {}
        BY <3>3 DEF AgentsListed
      <4>2. SomeAgentAway
        BY <1>2, <3>1, <4>1 DEF ActiveAgents, SomeAgentAway
      <4>3. QED
        BY <1>1, <1>2, <3>1, <3>2, <4>2
    <3>4. CASE plan[f].listed
      BY <1>1, <1>2, <3>1, <3>2, <3>4 DEF AgentsListed
    <3>5. QED
      BY <1>2, <3>1, <3>2, <3>3, <3>4
  <2>5. CASE ExtractRejected(f) \/ NothingToScan(f) \/ FailScans(f) \/ EndScanFile(f)
    <3>1. plan' = plan
      BY <2>5 DEF ExtractRejected, NothingToScan, FailScans, EndScanFile
    <3>2. QED
      BY <1>1, <1>2, <3>1
  <2>6. QED
    BY <1>4, <2>1, <2>2, <2>3, <2>4, <2>5 DEF ScanFileStep
<1>5. QED
  BY <1>3, <1>4, PlanFrom

\* scan_file goes on to count the agents with every leaf that is valid, if it has one.
LEMMA ForeseenStep ==
    ASSUME TypeOK, RunsKnown, redelivered' \subseteq PerformScanTask, [Next]_vars, Foreseen
    PROVE  Foreseen'
<1> USE DEF TypeOK
<1> SUFFICES ASSUME NEW f \in Top, at'[ScanFile(f)] = "count"
             PROVE  \/ plan'[f].empty \/ NoValidChild(f)'
                    \/ \A x \in Leaves(f)' : row'[x] = "valid" => x \in plan'[f].todo
  BY DEF Foreseen
<1> DEFINE t == ScanFile(f)
<1>0. t \in Task /\ t # Ingest /\ t.kind = "scan_file" /\ f \in File
  BY TaskShape, TasksDiffer DEF File
<1>1. CASE at[t] = "count"
  <2>1. plan'[f] = plan[f]
    <3>1. ~ScanFileStep(f)
      <4>1. ~(CountAgents(f) \/ NothingToScan(f))
        BY <1>0 DEF CountAgents, NothingToScan, Goto
      <4>2. QED
        BY <1>1, <4>1 DEF ScanFileStep, StartScanFile, ReuseChildren, FailExtraction,
           ExtractRejected, ExtractValid, NoScannerFound, CreateScans,
           FailScans, EndScanFile, Start
    <3>2. QED
      BY <3>1, PlanFrom
  <2>2. /\ Children(f)' = Children(f) /\ NoValidChild(f)' = NoValidChild(f)
        /\ row[f] = "valid"
    BY <1>1, ChildrenSame
  <2>3. Leaves(f)' = Leaves(f)
    BY <2>2 DEF Leaves
  <2>4. \A x \in Leaves(f) : row'[x] = "valid" => row[x] = "valid"
    <3>1. \A x \in Leaves(f) : x \in File /\ row[x] # "none"
      BY <1>0, <2>2 DEF Leaves, Children, MembersOf, Created, File
    <3>2. QED
      BY <3>1, RowsAndScans
  <2>5. QED
    BY <1>1, <2>1, <2>2, <2>3, <2>4 DEF Foreseen
<1>2. CASE at[t] # "count"
  <2>1. ScanFileStep(f)
    <3>1. ~ReadScanState(t) /\ ~JudgeScanState(t) /\ ~SaveScanState(t) /\ ~FailScanState(t)
          /\ ~CountFiles(t)
      BY <1>0 DEF ReadScanState, JudgeScanState, SaveScanState, SaveThen, FailScanState,
         CountFiles, Goto
    <3>2. ~SaveProgress(t) /\ ~Publish(t) /\ ~CutAt(t)
      BY <1>0, ResumeStage DEF SaveProgress, Publish, Goto, CutAt
    <3>3. QED
      BY <1>2, <3>1, <3>2, ScanFileFrom
  <2>2. CASE StartScanFile(f)
    <3>1. at[t] = "queued" /\ UNCHANGED row
      BY <2>2 DEF StartScanFile, Start, dbVars
    <3>2. Children(f) = {}
      BY <3>1 DEF RunsKnown, UnscannedYet
    <3>3. Leaves(f)' = {f}
      BY <3>1, <3>2 DEF Leaves, Children, Created
    <3>4. ~(Extract /\ MembersOf(f) # {})
      BY <1>0, <2>2 DEF StartScanFile, Start
    <3>5. plan'[f].todo = {f}
      BY <2>2, <3>4 DEF StartScanFile, NoPlan
    <3>6. QED
      BY <3>3, <3>5
  <2>3. ~ReuseChildren(f)
    BY DEF ReuseChildren, RunsKnown, UnscannedYet
  <2>4. CASE FailExtraction(f)
    <3>1. Children(f)' = {}
      BY <2>4 DEF FailExtraction, Children, Created
    <3>2. plan'[f] = WithoutChildren(f) /\ plan[f] \in Plan
      BY <2>4 DEF FailExtraction
    <3>3. plan'[f].empty \/ plan'[f].todo = {f}
      BY <3>2 DEF WithoutChildren, Plan
    <3>4. QED
      BY <3>1, <3>3 DEF Leaves
  <2>5. CASE ExtractValid(f)
    <3> DEFINE accepted == {m \in MembersOf(f) : ~Created(m)}
    <3>1. /\ row' = [m \in File |-> IF m \in accepted THEN "valid" ELSE row[m]]
          /\ plan' = [plan EXCEPT ![f] = IF accepted = {} THEN WithoutChildren(f)
                                         ELSE [@ EXCEPT !.todo = accepted]]
          /\ at[t] = "bulk"
      BY <2>5 DEF ExtractValid
    <3>2. \A m \in MembersOf(f) : m \in File /\ m \notin Top
      BY MembersAreLeaves DEF MembersOf
    <3>3. \A m \in Children(f) : row[m] = "rejected"
      BY <3>1 DEF RunsKnown, UnscannedYet
    <3>4. Children(f)' = MembersOf(f)
      BY <3>1, <3>2 DEF Children, Created
    <3>5. \A m \in MembersOf(f) : row'[m] = "valid" => m \in accepted
      BY <3>1, <3>2, <3>3 DEF Children
    <3>6. CASE accepted # {}
      <4>1. plan'[f] = [plan[f] EXCEPT !.todo = accepted] /\ plan[f] \in Plan
        BY <3>1, <3>6
      <4>2. plan'[f].todo = accepted
        BY <4>1 DEF Plan
      <4>3. Leaves(f)' = MembersOf(f)
        BY <3>4, <3>6 DEF Leaves
      <4>4. QED
        BY <3>5, <4>2, <4>3
    <3>7. CASE accepted = {}
      <4>1. plan'[f] = WithoutChildren(f) /\ plan[f] \in Plan
        BY <3>1, <3>7
      <4>2. plan'[f].empty \/ plan'[f].todo = {f}
        BY <4>1 DEF WithoutChildren, Plan
      <4>3. CASE MembersOf(f) = {}
        BY <3>4, <4>2, <4>3 DEF Leaves
      <4>4. CASE MembersOf(f) # {}
        <5>1. ValidChildren(f)' = {}
          BY <3>4, <3>5, <3>7 DEF ValidChildren
        <5>2. QED
          BY <3>4, <4>4, <5>1 DEF NoValidChild
      <4>5. QED
        BY <4>3, <4>4
    <3>8. QED
      BY <3>6, <3>7
  <2>6. ~(\/ ExtractRejected(f) \/ CountAgents(f) \/ NothingToScan(f) \/ NoScannerFound(f)
          \/ CreateScans(f) \/ FailScans(f) \/ EndScanFile(f))
    <3>1. \A s : Goto(t, s) => at'[t] = s
      BY <1>0 DEF Goto
    <3>2. ~ExtractRejected(f) /\ ~CountAgents(f) /\ ~NothingToScan(f) /\ ~NoScannerFound(f)
      BY <3>1 DEF ExtractRejected, CountAgents, NothingToScan, NoScannerFound
    <3>3. ~CreateScans(f) /\ ~FailScans(f) /\ ~EndScanFile(f)
      BY <3>1 DEF CreateScans, FailScans, EndScanFile
    <3>4. QED
      BY <3>2, <3>3
  <2>7. QED
    BY <2>1, <2>2, <2>3, <2>4, <2>5, <2>6 DEF ScanFileStep
<1>3. QED
  BY <1>1, <1>2

\* A leaf without scans is going to have some after every step, or there is a reason.
LEMMA ScannedOrExcusedStep ==
    ASSUME TypeOK, SubjectOK, RunsKnown, redelivered' \subseteq PerformScanTask, [Next]_vars,
           SubjectsKnown, ReadsAreRight, AgentsWereThere, Foreseen, ScannedOrExcused
    PROVE  ScannedOrExcused'
<1> USE DEF TypeOK
<1> DEFINE Before == {"none", "queued", "extract", "bulk", "count"}
<1> SUFFICES ASSUME NEW f \in Top, at'[ScanFile(f)] \notin Before,
                    NEW x \in Leaves(f)', row'[x] = "valid", Scans(x)' = {}
             PROVE  \/ x \in plan'[f].todo /\ at'[ScanFile(f)] # "done"
                    \/ progress'[f] = "full" \/ SomeAgentAway' \/ NoValidChild(f)'
                    \/ at'[ScanFile(f)] \in {"refused", "failed"}
  BY DEF ScannedOrExcused
<1> DEFINE t == ScanFile(f)
<1> SUFFICES ASSUME at'[t] \notin {"refused", "failed"}
             PROVE  \/ x \in plan'[f].todo /\ at'[t] # "done"
                    \/ progress'[f] = "full" \/ SomeAgentAway' \/ NoValidChild(f)'
  OBVIOUS
<1>0. t \in Task /\ t # Ingest /\ t.kind = "scan_file" /\ f \in File /\ plan[f] \in Plan
  BY TaskShape, TasksDiffer DEF File
<1>a. ~CutAt(t) /\ at[t] \notin {"refused", "failed"}
  BY <1>0, CutStays DEF CutAt
<1>1. at[t] \notin Before \/ at[t] = "count"
  <2>1. CASE at'[t] = at[t]
    BY <2>1
  <2>2. CASE at'[t] # at[t] /\ at[t] \in Before
    <3>1. ScanFileStep(f)
      <4>1. /\ ~ReadScanState(t) /\ ~JudgeScanState(t) /\ ~SaveScanState(t)
            /\ ~FailScanState(t) /\ ~CountFiles(t) /\ ~SaveProgress(t) /\ ~Publish(t)
        BY <2>2 DEF ReadScanState, JudgeScanState, SaveScanState, SaveThen, FailScanState,
           CountFiles, SaveProgress, Publish
      <4>2. at'[t] # "queued"
        OBVIOUS
      <4>3. QED
        BY <1>a, <2>2, <4>1, <4>2, ScanFileFrom
    <3>2. ~(\/ StartScanFile(f) \/ ReuseChildren(f) \/ FailExtraction(f)
            \/ ExtractRejected(f) \/ ExtractValid(f))
      BY <1>0 DEF StartScanFile, Start, ReuseChildren, FailExtraction, ExtractRejected,
         ExtractValid, Goto
    <3>3. QED
      BY <2>2, <3>1, <3>2 DEF ScanFileStep, CountAgents, NothingToScan, NoScannerFound,
         CreateScans, FailScans, EndScanFile
  <2>3. QED
    BY <2>1, <2>2
<1>2. /\ Children(f)' = Children(f) /\ NoValidChild(f)' = NoValidChild(f)
      /\ row[f] = "valid"
  BY <1>1, ChildrenSame
<1>3. x \in Leaves(f) /\ x \in File /\ row[x] = "valid"
  <2>1. x \in Leaves(f)
    BY <1>2 DEF Leaves
  <2>2. x \in File /\ row[x] # "none"
    BY <1>0, <1>2, <2>1 DEF Leaves, Children, MembersOf, Created, File
  <2>3. QED
    BY <2>1, <2>2, RowsAndScans
<1>4. Scans(x) = {}
  BY <1>3, ScansKept
<1>5. /\ SomeAgentAway => SomeAgentAway'
      /\ progress[f] = "full" => progress'[f] = "full"
  BY <1>0, AgentsGo, FileStaysFull DEF SomeAgentAway
<1>6. \/ x \in plan[f].todo /\ at[t] # "done"
      \/ progress[f] = "full" \/ SomeAgentAway \/ NoValidChild(f)
      \/ at[t] = "count" /\ plan[f].empty
  BY <1>a, <1>1, <1>3, <1>4 DEF ScannedOrExcused, Foreseen
<1>7. CASE progress[f] = "full" \/ SomeAgentAway \/ NoValidChild(f)
  BY <1>2, <1>5, <1>7
<1>8. CASE at[t] = "count" /\ plan[f].empty
  <2>1. CASE at'[t] = at[t]
    BY <1>8, <2>1
  <2>2. CASE at'[t] # at[t]
    <3>1. ScanFileStep(f)
      <4>1. /\ ~ReadScanState(t) /\ ~JudgeScanState(t) /\ ~SaveScanState(t)
            /\ ~FailScanState(t) /\ ~CountFiles(t) /\ ~SaveProgress(t) /\ ~Publish(t)
        BY <1>8 DEF ReadScanState, JudgeScanState, SaveScanState, SaveThen, FailScanState,
           CountFiles, SaveProgress, Publish
      <4>2. QED
        BY <1>a, <1>8, <2>2, <4>1, ScanFileFrom
    <3>2. NothingToScan(f)
      BY <1>8, <3>1 DEF ScanFileStep, StartScanFile, Start, ReuseChildren, FailExtraction,
         ExtractRejected, ExtractValid, CountAgents, NoScannerFound, CreateScans, FailScans,
         EndScanFile
    <3>3. QED
      BY <1>0, <3>2 DEF NothingToScan
  <2>3. QED
    BY <2>1, <2>2
<1>9. CASE x \in plan[f].todo /\ at[t] # "done"
  <2>1. CASE CreateScans(f)
    <3>1. PICK y \in plan[f].todo :
            /\ scan' = [scan EXCEPT ![y] =
                      [a \in Agent |-> IF a \in AgentsListed(f) THEN "pending" ELSE @[a]]]
            /\ plan' = [plan EXCEPT ![f].todo = @ \ {y}, ![f].listed = TRUE,
                                    ![f].agents = AgentsListed(f)]
      BY <2>1 DEF CreateScans
    <3>2. at'[t] = "file" /\ plan[f].exist
      BY <1>0, <2>1 DEF CreateScans, Goto
    <3>3. CASE y # x
      <4>1. plan'[f] = [plan[f] EXCEPT !.todo = @ \ {y}, !.listed = TRUE,
                                       !.agents = AgentsListed(f)]
        BY <3>1
      <4>2. x \in plan'[f].todo
        BY <1>0, <1>9, <3>3, <4>1 DEF Plan
      <4>3. QED
        BY <3>2, <4>2
    <3>4. CASE y = x
      <4>1. scan'[x] = [a \in Agent |-> IF a \in AgentsListed(f) THEN "pending" ELSE scan[x][a]]
        BY <1>3, <3>1, <3>4
      <4>2. AgentsListed(f) \subseteq Agent
        BY <1>0 DEF AgentsListed, ActiveAgents, Plan
      <4>3. AgentsListed(f) = {}
        <5>1. ASSUME NEW a \in AgentsListed(f) PROVE scan'[x][a] = "pending" /\ a \in Agent
          BY <4>1, <4>2
        <5>2. QED
          BY <5>1 DEF Scans
      <4>4. SomeAgentAway
        <5>1. CASE plan[f].listed
          BY <4>3, <5>1 DEF AgentsListed, AgentsWereThere
        <5>2. CASE ~plan[f].listed
          <6>1. ActiveAgents = {} /\ Agent # {}
            BY <3>2, <4>3, <5>2 DEF AgentsListed, AgentsWereThere
          <6>2. QED
            BY <6>1 DEF ActiveAgents, SomeAgentAway
        <5>3. QED
          BY <5>1, <5>2
      <4>5. QED
        BY <1>5, <4>4
    <3>5. QED
      BY <3>3, <3>4
  <2>2. CASE NoScannerFound(f) \/ NothingToScan(f)
    BY <1>0, <2>2 DEF NoScannerFound, NothingToScan
  <2>3. CASE FailScans(f)
    <3>1. PICK y \in plan[f].todo, a \in AgentsListed(f) :
            agent[a] = "deleted" \/ scan[y][a] # "none"
      BY <2>3 DEF FailScans, CanCreateScans
    <3>2. a \in Agent
      BY <1>0, <3>1 DEF AgentsListed, ActiveAgents, Plan
    <3>3. scan[y][a] = "none"
      BY <3>2 DEF RunsKnown, UnscannedYet, Scans
    <3>4. SomeAgentAway
      BY <3>1, <3>2, <3>3 DEF SomeAgentAway
    <3>5. QED
      BY <1>5, <3>4
  <2>4. ~EndScanFile(f)
    BY <1>9 DEF EndScanFile
  <2>5. CASE CountAgents(f)
    <3>1. plan'[f] = [plan[f] EXCEPT !.exist = ActiveAgents # {}]
      BY <2>5 DEF CountAgents
    <3>2. x \in plan'[f].todo
      BY <1>0, <1>9, <3>1 DEF Plan
    <3>3. at'[t] = "loop"
      BY <1>0, <2>5 DEF CountAgents, Goto
    <3>4. QED
      BY <3>2, <3>3
  <2>6. CASE ~ScanFileStep(f)
    <3>1. plan'[f] = plan[f]
      BY <2>6, PlanFrom
    <3>2. CASE at'[t] # "done"
      BY <1>9, <3>1, <3>2
    <3>3. CASE at'[t] = "done"
      <4>1. FailScanState(t)
        <5>1. ~SaveProgress(t) /\ ~Publish(t)
          BY <1>0, <3>3 DEF SaveProgress, Publish, Goto, Resume
        <5>2. ~ReadScanState(t) /\ ~JudgeScanState(t) /\ ~SaveScanState(t) /\ ~CountFiles(t)
          BY <1>0, <3>3 DEF ReadScanState, JudgeScanState, SaveScanState, SaveThen, CountFiles,
             Goto
        <5>3. QED
          BY <1>a, <1>9, <2>6, <3>3, <5>1, <5>2, ScanFileFrom
      <4>2. NoValidChild(f)
        BY <1>0, <4>1, FailureOfFile, TaskShape, TasksDiffer
      <4>3. QED
        BY <1>2, <4>2
    <3>4. QED
      BY <3>2, <3>3
  <2>7. ~(\/ StartScanFile(f) \/ ReuseChildren(f) \/ FailExtraction(f)
          \/ ExtractRejected(f) \/ ExtractValid(f))
    BY <1>1 DEF StartScanFile, Start, ReuseChildren, FailExtraction, ExtractRejected,
       ExtractValid
  <2>8. QED
    BY <2>1, <2>2, <2>3, <2>4, <2>5, <2>6, <2>7 DEF ScanFileStep
<1>10. QED
  BY <1>6, <1>7, <1>8, <1>9

\* At the start nothing is kept, scanned or listed.
LEMMA CauseStart == ASSUME Init, Top # {} PROVE CauseInv
<1>1. /\ outbox = [t \in Task |-> {}] /\ plan = [f \in Top |-> NoPlan]
      /\ scan = [f \in File |-> [a \in Agent |-> "none"]]
  BY DEF Init
<1>2. \/ /\ \A f \in Top : row[f] = "none" /\ Top \subseteq File
         /\ \E s \in Sent : at = [t \in Task |-> IF t = Ingest THEN s ELSE "none"]
      \/ /\ \A f \in Top : row[f] = "valid"
         /\ \E sent \in [ScanFileTask -> Sent] :
              at = [t \in Task |-> IF t \in ScanFileTask THEN sent[t] ELSE "none"]
  <2>1. Top \subseteq File
    BY DEF File
  <2>2. CASE FromDisk
    BY <2>1, <2>2 DEF FromDisk
  <2>3. ASSUME NEW was, NEW notes, FromRequest(was, notes)
        PROVE  /\ \A f \in Top : row[f] = "valid"
               /\ \E sent \in [ScanFileTask -> Sent] :
                    at = [t \in Task |-> IF t \in ScanFileTask THEN sent[t] ELSE "none"]
    BY <2>1, <2>3 DEF FromRequest
  <2>4. QED
    BY <2>2, <2>3 DEF Init
<1>0. Sent \subseteq {"queued", "refused"}
  BY DEF Sent
<1>a. \A f \in Top : ScanFile(f) \in ScanFileTask /\ ScanFile(f) \in Task /\ ScanFile(f) # Ingest
  BY TaskShape, TasksDiffer DEF ScanFileTask
<1>3. \A f \in Top : row[f] = "valid" => at[ScanFile(f)] \in Sent
  <2>1. CASE \A f \in Top : row[f] = "none"
    BY <2>1
  <2>2. ASSUME NEW sent \in [ScanFileTask -> Sent],
               at = [t \in Task |-> IF t \in ScanFileTask THEN sent[t] ELSE "none"]
        PROVE  \A f \in Top : at[ScanFile(f)] \in Sent
    BY <1>a, <2>2
  <2>3. QED
    BY <1>2, <2>1, <2>2
<1>4. \A f \in Top : at[ScanFile(f)] \in {"none"} \cup Sent
  <2>1. ASSUME NEW s \in Sent, at = [t \in Task |-> IF t = Ingest THEN s ELSE "none"]
        PROVE  \A f \in Top : at[ScanFile(f)] = "none"
    BY <1>a, <2>1
  <2>2. QED
    BY <1>2, <1>3, <2>1
<1>5. Beginning
  BY <1>0, <1>2, TaskShape DEF Beginning
<1>6. NothingKept
  BY <1>1 DEF NothingKept
<1>7. FilesRun
  BY <1>0, <1>3 DEF FilesRun, ValidTop
<1>8. ScansRun
  BY <1>1 DEF ScansRun
<1>9. AgentsWereThere
  BY <1>1 DEF AgentsWereThere, NoPlan
<1>10. Foreseen /\ ScannedOrExcused
  BY <1>0, <1>4 DEF Foreseen, ScannedOrExcused
<1>11. QED
  BY <1>5, <1>6, <1>7, <1>8, <1>9, <1>10 DEF CauseInv

\* What is published is run, and what is to be scanned has scans or a reason, in every state,
\* until another task than perform_scan is run again.
LEMMA AlwaysRuns ==
    "rescan" \notin Source /\ Small /\ Top # {} => (Spec => [](OnlyScansAgain => CauseInv))
<1> SUFFICES ASSUME "rescan" \notin Source, Small, Top # {}
             PROVE  Spec => [](OnlyScansAgain => CauseInv)
  OBVIOUS
<1>1. Init => CauseInv
  BY CauseStart
<1>2. ASSUME TypeOK, SubjectOK, OnlyScansAgain => RunsKnown /\ ProgressInv,
             OnlyScansAgain => CauseInv, [Next]_vars, OnlyScansAgain'
      PROVE  CauseInv'
  <2>1. redelivered' \subseteq PerformScanTask /\ RunsKnown /\ ProgressInv /\ CauseInv
    BY <1>2, RedeliveredGrows DEF OnlyScansAgain
  <2>2. QED
    BY <1>2, <2>1, BeginningStep, NothingKeptStep, FilesRunStep, ScansRunStep,
       AgentsWereThereStep, ForeseenStep, ScannedOrExcusedStep DEF CauseInv, ProgressInv
<1>3. /\ TypeOK /\ SubjectOK /\ (OnlyScansAgain => RunsKnown /\ ProgressInv)
      /\ (OnlyScansAgain => CauseInv) /\ [Next]_vars
      => (OnlyScansAgain => CauseInv)'
  BY <1>2
<1>4. QED
  BY <1>1, <1>3, TypesAndSubjects, ProgressIsRight, PTL DEF Spec

\* The causes that StuckHasCause names, for one file.
FileCause(f) == LeftOpen(f) \/ NeverScanned(f) \/ NoValidChild(f)

\* When no task is left and nothing has a cause to be stuck, the leaves of every file that is
\* not at 100 are answered.
LEMMA LeavesAnswered ==
    ASSUME TypeOK, RunsKnown, CauseInv, Quiescent, at[Ingest] \notin {"refused", "failed"},
           \A g \in File : ~FileCause(g),
           NEW f \in ValidTop, progress[f] # "full",
           NEW x \in Leaves(f), row[x] = "valid"
    PROVE  Answered(x)
<1>1. f \in Top /\ f \in File /\ ScanFile(f) \in Task /\ row[f] = "valid"
  BY TaskShape DEF ValidTop, File
<1>2. x \in File
  BY <1>1 DEF Leaves, Children, MembersOf, File
<1>3. \A g \in Top : ~NoValidChild(g)
  BY DEF FileCause, File
<1>4. \A t \in Task : outbox[t] = {}
  <2> SUFFICES ASSUME NEW t \in Task, outbox[t] # {} PROVE FALSE
    OBVIOUS
  <2>1. at[t] \in {"none", "done", "refused", "failed"}
    BY DEF Quiescent, Over
  <2>2. QED
    BY <1>3, <2>1 DEF CauseInv, NothingKept, Carrying
<1>5. at[ScanFile(f)] \in {"done", "refused", "failed"}
  BY <1>1, <1>4, TaskShape DEF CauseInv, FilesRun, Quiescent, Over
<1>6. Scans(x) # {}
  <2> SUFFICES ASSUME Scans(x) = {} PROVE FALSE
    OBVIOUS
  <2>1. SomeAgentAway \/ at[ScanFile(f)] \in {"refused", "failed"}
    BY <1>1, <1>3, <1>5 DEF CauseInv, ScannedOrExcused
  <2>2. x \in Owned(f) /\ (Children(x) = {} \/ x = f)
    BY MembersAreLeaves DEF Leaves, Children, MembersOf, Owned
  <2>3. CASE Children(x) = {}
    <3>1. ~AnyScan(x)
      BY <2>3 DEF AnyScan, Leaves
    <3>2. NeverScanned(x)
      BY <1>1, <2>1, <2>2, <3>1 DEF NeverScanned, SomeAgentAway
    <3>3. QED
      BY <1>2, <3>2 DEF FileCause
  <2>4. CASE Children(x) # {} /\ x = f
    BY <2>4, MembersAreLeaves DEF Leaves, Children, MembersOf
  <2>5. QED
    BY <2>2, <2>3, <2>4
<1>7. Pending(x) = {}
  <2> SUFFICES ASSUME NEW a \in Agent, scan[x][a] = "pending" PROVE FALSE
    BY DEF Pending
  <2>1. ~LeftOpen(x) /\ a \in Pending(x)
    BY <1>2 DEF FileCause, Pending
  <2>2. at[PerformScan(x, a)] \notin {"queued", "scanning"}
    BY <1>2, TaskShape DEF Quiescent, Over
  <2>3. \A g \in Top : outbox[ScanFile(g)] = {}
    BY <1>4, TaskShape
  <2>4. \/ agent[a] = "deleted" \/ a \in Escapes
        \/ at[PerformScan(x, a)] = "none" /\ SomeRefused
    BY <1>2, <2>2, <2>3 DEF CauseInv, ScansRun
  <2>5. QED
    BY <2>1, <2>4 DEF LeftOpen, SomeRefused
<1>8. QED
  BY <1>6, <1>7 DEF Answered

\* When no task is left, the session is finished, unless the indexing or the updates of a
\* perform_scan were cut short, or some file has a scan that stays open (its agent deleted,
\* its driver raising what perform_scan does not catch, its task refused by the broker), or
\* has no scan (an agent went away before, or scan_file was refused or cut short), or is an
\* archive no member of which was accepted: nothing else can leave a session stuck.
THEOREM StuckSessionsHaveCauses ==
    /\ "rescan" \notin Source /\ Redeliverable \subseteq {"perform_scan"} /\ Small /\ Top # {}
    => (Spec => []StuckHasCause)
<1> SUFFICES ASSUME "rescan" \notin Source, Redeliverable \subseteq {"perform_scan"}, Small,
                    Top # {}
             PROVE  Spec => []StuckHasCause
  OBVIOUS
<1>1. TypeOK /\ RunsKnown /\ (~Overran => SettleInv) /\ CauseInv => StuckHasCause
  <2> SUFFICES ASSUME TypeOK, RunsKnown, SettleInv, CauseInv, Quiescent,
                      session.progress # "full", at[Ingest] \notin {"refused", "failed"},
                      \A g \in File : ~FileCause(g)
               PROVE  FALSE
    BY DEF StuckHasCause, Cause, FileCause
  <2>1. \A x \in File, a \in Agent :
          at[PerformScan(x, a)] \in {"none", "done", "refused", "failed"}
    BY TaskShape DEF Quiescent, Over
  <2>2. \A f \in File : ~LeafComing(f) /\ ~ProgressComing(f)
    BY <2>1, MembersAreLeaves DEF LeafComing, ProgressComing
  <2>3. ASSUME NEW f \in ValidTop, progress[f] # "full"
        PROVE  FALSE
    <3>1. f \in File /\ row[f] = "valid" /\ ~NoValidChild(f)
      BY DEF ValidTop, File, FileCause
    <3>2. CASE Children(f) = {}
      <4>1. Answered(f)
        BY <2>3, <3>1, <3>2, LeavesAnswered DEF Leaves
      <4>2. QED
        BY <2>2, <2>3, <3>1, <3>2, <4>1 DEF SettleInv, LeavesHeard
    <3>3. CASE Children(f) # {}
      <4>1. ValidChildren(f) # {}
        BY <3>1, <3>3 DEF NoValidChild
      <4>2. ASSUME NEW m \in ValidChildren(f) PROVE progress[m] = "full"
        <5>1. m \in File /\ Children(m) = {} /\ m \in Leaves(f) /\ row[m] = "valid"
          BY <3>3, <4>2, MembersAreLeaves DEF ValidChildren, Children, MembersOf, Leaves
        <5>2. Answered(m)
          BY <2>3, <5>1, LeavesAnswered
        <5>3. QED
          BY <2>2, <5>1, <5>2 DEF SettleInv, LeavesHeard
      <4>3. MembersFull(f)
        BY <4>1, <4>2 DEF MembersFull
      <4>4. QED
        BY <2>2, <2>3, <3>1, <4>3 DEF SettleInv, ArchivesHeard
    <3>4. QED
      BY <3>2, <3>3
  <2>4. AllFull
    BY <2>3 DEF AllFull
  <2>5. \E f \in Top : Created(f)
    <3> SUFFICES ASSUME \A f \in Top : row[f] = "none" PROVE FALSE
      BY DEF Created
    <3>1. at[Ingest] \in {"none", "done"}
      BY TaskShape DEF Quiescent, Over
    <3>2. QED
      BY <3>1 DEF CauseInv, Beginning
  <2>6. ~SessionComing
    BY DEF SessionComing, Quiescent, Over, UpdatingFile, LockingFile
  <2>7. QED
    BY <2>4, <2>5, <2>6 DEF SettleInv, SessionHeard, SessionStored, Due
<1>2. QED
  BY <1>1, TypesAndSubjects, RedeliveredFrom, ProgressIsRight, AlwaysHeard, AlwaysRuns, PTL
=============================================================================
