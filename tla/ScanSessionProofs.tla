------------------------- MODULE ScanSessionProofs -------------------------
(***************************************************************************)
(* Theorems about ScanSession, for any files, archives, agents and workers *)
(* and for any value of the two indices: the types; that every task runs   *)
(* once; why a verdict "clean" is earned in a session that is no re-scan   *)
(* and whose tasks are not run twice, with agents deactivated or deleted   *)
(* at any time; and the ground it has in every session when it is stored,  *)
(* also when scan_file is run again.                                       *)
(***************************************************************************)
EXTENDS ScanSession, FiniteSetTheorems, TLAPS

-----------------------------------------------------------------------------
(* Tasks and verdicts *)

\* Tasks of different kinds, files or agents differ.
LEMMA TaskShape ==
    /\ Ingest \in Task /\ Ingest.kind = "ingest"
    /\ \A f \in Top : ScanFile(f) \in Task /\ ScanFile(f).kind = "scan_file"
    /\ \A f \in File, a \in Agent :
         PerformScan(f, a) \in Task /\ PerformScan(f, a).kind = "perform_scan"
    /\ \A f, g : ScanFile(f) = ScanFile(g) => f = g
    /\ \A f, g, a, b : PerformScan(f, a) = PerformScan(g, b) => f = g /\ a = b
<1>1. Ingest \in Task /\ Ingest.kind = "ingest"
  BY DEF Task, Ingest
<1>2. \A f \in Top : ScanFile(f) \in Task /\ ScanFile(f).kind = "scan_file"
  BY DEF Task, ScanFileTask, ScanFile
<1>3. \A f \in File, a \in Agent :
        PerformScan(f, a) \in Task /\ PerformScan(f, a).kind = "perform_scan"
  <2> TAKE f \in File, a \in Agent
  <2>1. PerformScan(f, a) \in Task
    BY DEF Task, PerformScanTask
  <2>2. QED
    BY <2>1 DEF PerformScan
<1>4. \A f, g : ScanFile(f) = ScanFile(g) => f = g
  <2> TAKE f, g
  <2>1. ScanFile(f).file = f /\ ScanFile(g).file = g
    BY DEF ScanFile
  <2>2. QED
    BY <2>1
<1>5. \A f, g, a, b : PerformScan(f, a) = PerformScan(g, b) => f = g /\ a = b
  <2> TAKE f, g, a, b
  <2>1. /\ PerformScan(f, a).file = f /\ PerformScan(g, b).file = g
        /\ PerformScan(f, a).agent = a /\ PerformScan(g, b).agent = b
    BY DEF PerformScan
  <2>2. QED
    BY <2>1
<1>6. QED
  BY <1>1, <1>2, <1>3, <1>4, <1>5

\* A task that has updated the session goes on or is done.
LEMMA ResumeStage == ASSUME NEW t \in Task PROVE Resume(t) \in {"next", "loop", "done"}
<1>1. t.kind \in {"ingest", "scan_file", "perform_scan"}
  BY DEF Task, ScanFileTask, PerformScanTask, Ingest, ScanFile, PerformScan
<1>2. QED
  BY <1>1 DEF Resume

\* Every progress and every verdict the code computes is one of the three.
LEMMA ProgressTypes ==
    ASSUME TypeOK
    PROVE  /\ \A f \in File : ProgressOf(f) \in ProgressValue
           /\ SessionProgress \in ProgressValue
<1>1. \A d, n : RoundedProgress(d, n) \in ProgressValue
  BY DEF RoundedProgress, ProgressValue
<1>2. QED
  BY <1>1 DEF ProgressOf, SessionProgress, TypeOK, ProgressValue

\* The verdict of a file, and every one an archive may get, is one of the three.
LEMMA VerdictTypes ==
    /\ \A f : EvalInfected(f) \in VerdictValue
    /\ \A f : VerdictOf(f) \subseteq VerdictValue
<1>1. \A f : EvalInfected(f) \in VerdictValue
  BY DEF EvalInfected, LeafVerdict, VerdictValue
<1>2. \A f : VerdictOf(f) \subseteq VerdictValue
  BY <1>1 DEF VerdictOf, ArchiveVerdicts, VerdictValue
<1>3. QED
  BY <1>1, <1>2

\* A task is cut short: its lock goes, and what it has still to publish.
CutShort(t, s) ==
    /\ at' = [at EXCEPT ![t] = s]
    /\ \/ UNCHANGED outbox
       \/ outbox' = [outbox EXCEPT ![t] = {}]
    /\ \/ UNCHANGED read
       \/ read' = [read EXCEPT ![t] = NothingRead]
    /\ UNCHANGED <<dbVars, agent, unread, subject, plan, userVars, redelivered>>

\* What the errors of the disk, of the broker and of time have in common, and where each hits.
LEMMA FaultCuts ==
    ASSUME FaultStep
    PROVE  \E t \in Task, s \in {"refused", "failed"} :
             /\ CutShort(t, s)
             /\ \/ t = Ingest /\ at[t] = "create" /\ s = "failed"
                \/ /\ \E f \in Top : t = ScanFile(f)
                   /\ at[t] = "bulk" /\ s = "failed"
                \/ t \in PerformScanTask /\ at[t] \in Updating /\ s = "failed"
                \/ at[t] = "publish" /\ s = "refused"
<1> USE DEF CutShort, Goto
<1>1. CASE BreakIngest
  BY <1>1, TaskShape DEF BreakIngest
<1>2. ASSUME NEW f \in Top, BreakExtraction(f)
      PROVE  CutShort(ScanFile(f), "failed") /\ at[ScanFile(f)] = "bulk"
  BY <1>2 DEF BreakExtraction
<1>3. ASSUME NEW f \in File, NEW a \in Agent, Overrun(f, a)
      PROVE  CutShort(PerformScan(f, a), "failed") /\ at[PerformScan(f, a)] \in Updating
  BY <1>3 DEF Overrun
<1>4. ASSUME NEW t \in Task, RefusePublication(t)
      PROVE  CutShort(t, "refused") /\ at[t] = "publish"
  BY <1>4 DEF RefusePublication
<1> HIDE DEF CutShort
<1>5. QED
  BY <1>1, <1>2, <1>3, <1>4, TaskShape DEF FaultStep, PerformScanTask

-----------------------------------------------------------------------------
(* Type correctness *)

\* The request leaves rows of the right types.
LEMMA TypeInit == Init => TypeOK
<1> SUFFICES ASSUME Init PROVE TypeOK
  OBVIOUS
<1> DEFINE Rows ==
      /\ row \in [File -> {"none", "valid", "rejected"}]
      /\ progress \in [File -> ProgressValue]
      /\ infected \in [File -> VerdictValue]
      /\ noted \subseteq Top
      /\ session \in [progress : ProgressValue, counter : Nat, analyze : ProgressValue]
      /\ at \in [Task -> Stage]
<1>1. ASSUME FromDisk PROVE Rows
  BY <1>1 DEF FromDisk, Sent, ProgressValue, VerdictValue, Stage, Idle, Over, Updating
<1>2. ASSUME NEW was \in [Top -> Reading], NEW notes \in SUBSET Top, FromRequest(was, notes)
      PROVE  Rows
  <2>1. \A f \in Top : was[f].progress \in ProgressValue /\ was[f].infected \in VerdictValue
    BY DEF Reading
  <2>2. "none" \in ProgressValue /\ "full" \in ProgressValue /\ "unknown" \in VerdictValue
    BY DEF ProgressValue, VerdictValue
  <2>3. Sent \subseteq Stage /\ "none" \in Stage
    BY DEF Sent, Stage, Idle, Over, Updating
  <2>4. QED
    BY <1>2, <2>1, <2>2, <2>3 DEF FromRequest
<1>3. Rows
  <2>1. [f \in Top |-> NothingRead] \in [Top -> Reading]
    BY DEF Reading, NothingRead, ProgressValue, VerdictValue
  <2>2. \/ FromDisk
        \/ FromRequest([f \in Top |-> NothingRead], {})
        \/ \E was \in [Top -> Reading], notes \in SUBSET Top : FromRequest(was, notes)
    BY DEF Init
  <2>3. QED
    BY <1>1, <1>2, <2>1, <2>2
<1>4. scan \in [File -> [Agent -> ScanRow]] /\ agent \in [Agent -> {"active", "inactive", "deleted"}]
  BY DEF Init, ScanRow
<1>5. subject \in [Task -> File \cup {NoFile}] /\ read \in [Task -> Reading]
  BY DEF Init, Reading, NothingRead, ProgressValue, VerdictValue
<1>6. outbox \in [Task -> SUBSET Task] /\ plan \in [Top -> Plan]
  BY DEF Init, Plan, NoPlan
<1>7. /\ unread \subseteq Top /\ copied \subseteq Top
      /\ postscan \in {"none", "accepted", "copied"} /\ redelivered \subseteq Task
  BY DEF Init
<1>8. QED
  BY <1>3, <1>4, <1>5, <1>6, <1>7 DEF TypeOK

\* A move of a task to a stage keeps the type of at.
LEMMA TypeAt ==
    ASSUME TypeOK, NEW t, NEW s \in Stage, Start(t, s) \/ Goto(t, s)
    PROVE  at' \in [Task -> Stage]
BY DEF TypeOK, Start, Goto

\* The steps of bulk_create_from_disk keep the types.
LEMMA TypeIngest == ASSUME TypeOK, IngestStep PROVE TypeOK'
<1> USE DEF TypeOK, dbVars, taskVars, userVars
<1>1. CASE StartIngest
  <2>1. PICK paths \in SUBSET Top :
          /\ unread' = paths
          /\ Start(Ingest, IF paths = {} THEN "done" ELSE "next")
          /\ session' = [session EXCEPT !.counter = 0,
                                        !.analyze = IF paths = {} THEN "full" ELSE "part",
                                        !.progress = IF paths = {} THEN "full" ELSE @]
    BY <1>1 DEF StartIngest
  <2>2. at' \in [Task -> Stage]
    BY <2>1, TypeAt DEF Stage, Idle, Over, Updating
  <2>3. ASSUME NEW n \in Nat, NEW a \in ProgressValue, NEW p \in ProgressValue
        PROVE  [session EXCEPT !.counter = n, !.analyze = a, !.progress = p]
                 \in [progress : ProgressValue, counter : Nat, analyze : ProgressValue]
    OBVIOUS
  <2>4. session' \in [progress : ProgressValue, counter : Nat, analyze : ProgressValue]
    <3>1. session' = [session EXCEPT !.counter = 0,
                                     !.analyze = IF paths = {} THEN "full" ELSE "part",
                                     !.progress = IF paths = {} THEN "full"
                                                  ELSE session.progress]
      BY <2>1
    <3>2. QED
      BY <2>3, <3>1 DEF ProgressValue
  <2>5. QED
    BY <1>1, <2>1, <2>2, <2>4 DEF StartIngest
<1>2. CASE CountPath
  <2>1. at' \in [Task -> Stage]
    BY <1>2, TypeAt DEF CountPath, Stage, Updating
  <2>2. RoundedProgress(session.counter + 1, session.counter + Cardinality(unread))
          \in ProgressValue
    BY DEF RoundedProgress, ProgressValue
  <2>3. session' \in [progress : ProgressValue, counter : Nat, analyze : ProgressValue]
    <3>1. ASSUME NEW n \in Nat, NEW a \in ProgressValue
          PROVE  [session EXCEPT !.counter = n, !.analyze = a]
                   \in [progress : ProgressValue, counter : Nat, analyze : ProgressValue]
      OBVIOUS
    <3>2. session.counter + 1 \in Nat
      OBVIOUS
    <3>3. QED
      BY <1>2, <2>2, <3>1, <3>2 DEF CountPath
  <2>4. QED
    BY <1>2, <2>1, <2>3 DEF CountPath
<1>3. CASE CreateFile
  <2>1. PICK f \in unread : /\ unread' = unread \ {f}
                            /\ row' = [row EXCEPT ![f] = "valid"]
                            /\ subject' = [subject EXCEPT ![Ingest] = f]
                            /\ outbox' = [outbox EXCEPT ![Ingest] = {ScanFile(f)}]
    BY <1>3 DEF CreateFile
  <2>2. f \in File /\ ScanFile(f) \in Task
    BY TaskShape DEF File
  <2>3. at' \in [Task -> Stage]
    BY <1>3, TypeAt DEF CreateFile, Stage, Updating
  <2>4. /\ row' \in [File -> {"none", "valid", "rejected"}]
        /\ subject' \in [Task -> File \cup {NoFile}]
    BY <2>1, <2>2
  <2>5. outbox' \in [Task -> SUBSET Task]
    BY <2>1, <2>2
  <2>6. QED
    BY <1>3, <2>1, <2>3, <2>4, <2>5 DEF CreateFile
<1>4. CASE RejectPath
  <2>1. at' \in [Task -> Stage]
    BY <1>4, TypeAt DEF RejectPath, Stage, Updating
  <2>2. QED
    BY <1>4, <2>1 DEF RejectPath, ProgressValue
<1>5. CASE EndIngest
  <2>1. at' \in [Task -> Stage]
    BY <1>5, TypeAt DEF EndIngest, Stage, Idle, Over, Updating
  <2>2. QED
    BY <1>5, <2>1 DEF EndIngest
<1>6. QED
  BY <1>1, <1>2, <1>3, <1>4, <1>5 DEF IngestStep

\* Every step of scan_file moves the task to one of its stages.
LEMMA ScanFileAt ==
    ASSUME TypeOK, NEW f \in Top, ScanFileStep(f)
    PROVE  at' \in [Task -> Stage]
<1>1. PICK s \in Stage : Start(ScanFile(f), s) \/ Goto(ScanFile(f), s)
  BY DEF ScanFileStep, StartScanFile, ReuseChildren, FailExtraction, ExtractRejected,
         ExtractValid, CountAgents, NothingToScan, NoScannerFound, CreateScans, FailScans,
         EndScanFile, Stage, Idle, Over, Updating
<1>2. QED
  BY <1>1, TypeAt

\* The steps of scan_file keep the types.
LEMMA TypeScanFile == ASSUME TypeOK, NEW f \in Top, ScanFileStep(f) PROVE TypeOK'
<1> USE DEF TypeOK, dbVars, taskVars, userVars
<1>1. f \in File /\ MembersOf(f) \subseteq File /\ ValidChildren(f) \subseteq File
  BY DEF File, MembersOf, ValidChildren, Children
<1>2. at' \in [Task -> Stage]
  BY ScanFileAt
<1>3. plan[f] \in Plan
  OBVIOUS
<1>4. WithoutChildren(f) \in Plan
  BY <1>1, <1>3 DEF WithoutChildren, Plan
<1>5. CASE StartScanFile(f)
  <2>1. ASSUME NEW T \in SUBSET File, NEW b \in BOOLEAN
        PROVE  [NoPlan EXCEPT !.todo = T, !.notes = b] \in Plan
    BY DEF NoPlan, Plan
  <2>2. plan' \in [Top -> Plan]
    <3>1. PICK T \in SUBSET File, b \in BOOLEAN :
            plan' = [plan EXCEPT ![f] = [NoPlan EXCEPT !.todo = T, !.notes = b]]
      <4>1. plan' = [plan EXCEPT ![f] =
                      [NoPlan EXCEPT !.todo = IF Extract /\ MembersOf(f) # {} THEN {} ELSE {f},
                                     !.notes = f \in noted]]
        BY <1>5, Zenon DEF StartScanFile
      <4>2. (IF Extract /\ MembersOf(f) # {} THEN {} ELSE {f}) \in SUBSET File
        BY <1>1
      <4>3. (f \in noted) \in BOOLEAN
        OBVIOUS
      <4>4. QED
        BY <4>1, <4>2, <4>3, Zenon
    <3>2. QED
      BY <2>1, <3>1
  <2>3. QED
    BY <1>2, <1>5, <2>2 DEF StartScanFile
<1>6. CASE ReuseChildren(f)
  <2>1. [plan[f] EXCEPT !.todo = ValidChildren(f)] \in Plan
    BY <1>1, <1>3 DEF Plan
  <2>2. plan' \in [Top -> Plan]
    BY <1>6, <2>1 DEF ReuseChildren
  <2>3. QED
    BY <1>2, <1>6, <2>2 DEF ReuseChildren
<1>7. CASE FailExtraction(f)
  BY <1>2, <1>4, <1>7 DEF FailExtraction
<1>8. CASE ExtractRejected(f)
  BY <1>2, <1>8 DEF ExtractRejected
<1>9. CASE ExtractValid(f)
  <2> DEFINE accepted == {m \in MembersOf(f) : ~Created(m)}
  <2>1. [plan[f] EXCEPT !.todo = accepted] \in Plan
    BY <1>1, <1>3 DEF Plan
  <2>2. plan' = [plan EXCEPT ![f] = IF accepted = {} THEN WithoutChildren(f)
                                    ELSE [plan[f] EXCEPT !.todo = accepted]]
    BY <1>9 DEF ExtractValid
  <2>3. plan' \in [Top -> Plan]
    BY <1>4, <2>1, <2>2
  <2>4. row' \in [File -> {"none", "valid", "rejected"}]
    BY <1>9 DEF ExtractValid
  <2>5. QED
    BY <1>2, <1>9, <2>3, <2>4 DEF ExtractValid
<1>10. CASE CountAgents(f)
  <2>1. [plan[f] EXCEPT !.exist = ActiveAgents # {}] \in Plan
    BY <1>3 DEF Plan
  <2>2. plan' \in [Top -> Plan]
    BY <1>10, <2>1 DEF CountAgents
  <2>3. QED
    BY <1>2, <1>10, <2>2 DEF CountAgents
<1>11. CASE NothingToScan(f)
  BY <1>2, <1>11 DEF NothingToScan, ProgressValue
<1>12. CASE NoScannerFound(f)
  <2>1. PICK x \in plan[f].todo : plan' = [plan EXCEPT ![f].todo = @ \ {x}]
    BY <1>12 DEF NoScannerFound
  <2>2. [plan[f] EXCEPT !.todo = @ \ {x}] \in Plan
    BY <1>3 DEF Plan
  <2>3. plan' \in [Top -> Plan]
    BY <2>1, <2>2
  <2>4. QED
    BY <1>2, <1>12, <2>3 DEF NoScannerFound, ProgressValue
<1>13. CASE CreateScans(f)
  <2> DEFINE listed == AgentsListed(f)
  <2>1. PICK x \in plan[f].todo :
          /\ scan' = [scan EXCEPT ![x] =
                         [a \in Agent |-> IF a \in listed THEN "pending" ELSE @[a]]]
          /\ subject' = [subject EXCEPT ![ScanFile(f)] = x]
          /\ outbox' = [outbox EXCEPT ![ScanFile(f)] = {PerformScan(x, a) : a \in listed}]
          /\ plan' = [plan EXCEPT ![f].todo = @ \ {x},
                                  ![f].listed = TRUE,
                                  ![f].agents = listed]
    BY <1>13 DEF CreateScans
  <2>2. listed \subseteq Agent
    BY <1>3 DEF AgentsListed, ActiveAgents, Plan
  <2>3. x \in File
    BY <1>3 DEF Plan
  <2>4. scan' \in [File -> [Agent -> ScanRow]]
    BY <2>1, <2>3 DEF ScanRow
  <2>5. [plan[f] EXCEPT !.todo = @ \ {x}, !.listed = TRUE, !.agents = listed] \in Plan
    BY <1>3, <2>2 DEF Plan
  <2>6. plan' \in [Top -> Plan]
    BY <2>1, <2>5
  <2>7. {PerformScan(x, a) : a \in listed} \subseteq Task
    BY <2>2, <2>3, TaskShape
  <2>8. outbox' \in [Task -> SUBSET Task]
    BY <2>1, <2>7
  <2>9. QED
    BY <1>2, <1>13, <2>1, <2>3, <2>4, <2>6, <2>8 DEF CreateScans
<1>14. CASE FailScans(f) \/ EndScanFile(f)
  BY <1>2, <1>14 DEF FailScans, EndScanFile
<1>15. QED
  BY <1>5, <1>6, <1>7, <1>8, <1>9, <1>10, <1>11, <1>12, <1>13, <1>14 DEF ScanFileStep

\* The steps of perform_scan keep the types.
LEMMA TypePerformScan ==
    ASSUME TypeOK, NEW f \in File, NEW a \in Agent, PerformScanStep(f, a)
    PROVE  TypeOK'
<1> USE DEF TypeOK, dbVars, taskVars, userVars
<1>1. CASE StartPerformScan(f, a)
  <2>1. at' \in [Task -> Stage]
    BY <1>1, TypeAt DEF StartPerformScan, Stage, Updating
  <2>2. QED
    BY <1>1, <2>1 DEF StartPerformScan
<1>2. CASE SaveResult(f, a)
  <2>1. at' \in [Task -> Stage]
    BY <1>2, TypeAt DEF SaveResult, Stage, Updating
  <2>2. scan' \in [File -> [Agent -> ScanRow]]
    BY <1>2 DEF SaveResult, ScanRow
  <2>3. QED
    BY <1>2, <2>1, <2>2 DEF SaveResult
<1>3. CASE LeaveScan(f, a)
  <2>1. at' \in [Task -> Stage]
    BY <1>3, TypeAt DEF LeaveScan, Stage, Updating
  <2>2. QED
    BY <1>3, <2>1 DEF LeaveScan
<1>4. QED
  BY <1>1, <1>2, <1>3 DEF PerformScanStep

\* A task that updates a file knows which one, and only a member has an archive.
SubjectOK ==
    \A t \in Task :
      /\ at[t] \in {"scanning", "file", "fileJudging", "fileSaving"} => subject[t] \in File
      /\ at[t] \in {"parent", "parentJudging", "parentSaving"} => subject[t] \in Member

\* The row a task is updating is a File row.
LEMMA TargetIsFile ==
    ASSUME SubjectOK, NEW t \in Task,
           at[t] \in {"file", "parent"} \cup LockingFile
    PROVE  Target(t) \in File
BY SessionAssumption DEF SubjectOK, Target, File, LockingFile

\* What a task has computed keeps its type, one column at a time.
LEMMA ReadingSet ==
    ASSUME TypeOK, NEW t \in Task
    PROVE  /\ \A p \in ProgressValue : [read[t] EXCEPT !.progress = p] \in Reading
           /\ \A v \in VerdictValue : [read[t] EXCEPT !.infected = v] \in Reading
<1>1. read[t] \in Reading
  BY DEF TypeOK
<1>2. QED
  BY <1>1 DEF Reading

\* The steps of update_scan_state and update_progress keep the types.
LEMMA TypeUpdate ==
    ASSUME TypeOK, SubjectOK, NEW t \in Task, UpdateStep(t)
    PROVE  TypeOK'
<1> USE DEF TypeOK, dbVars, taskVars, userVars
<1>1. CASE ReadScanState(t)
  <2>1. at' \in [Task -> Stage]
    BY <1>1, TypeAt DEF ReadScanState, Stage, Updating
  <2>2. ProgressOf(Target(t)) \in ProgressValue
    BY <1>1, TargetIsFile, ProgressTypes DEF ReadScanState
  <2>3. [read[t] EXCEPT !.progress = ProgressOf(Target(t))] \in Reading
    BY <2>2, ReadingSet
  <2>4. read' \in [Task -> Reading]
    BY <1>1, <2>3 DEF ReadScanState
  <2>5. QED
    BY <1>1, <2>1, <2>4 DEF ReadScanState
<1>2. CASE JudgeScanState(t)
  <2>1. at' \in [Task -> Stage]
    BY <1>2, TypeAt DEF JudgeScanState, Stage, Updating
  <2>2. PICK v \in VerdictValue : read' = [read EXCEPT ![t].infected = v]
    BY <1>2, VerdictTypes DEF JudgeScanState
  <2>3. [read[t] EXCEPT !.infected = v] \in Reading
    BY ReadingSet
  <2>4. read' \in [Task -> Reading]
    BY <2>2, <2>3
  <2>5. QED
    BY <1>2, <2>1, <2>4 DEF JudgeScanState
<1>3. CASE SaveScanState(t)
  <2>1. PICK s \in {"parent", "session"} : SaveThen(t, s)
    BY <1>3 DEF SaveScanState
  <2>2. at' \in [Task -> Stage]
    BY <2>1, TypeAt DEF SaveThen, Stage, Updating
  <2>3. read[t] \in Reading
    OBVIOUS
  <2>4. /\ progress' \in [File -> ProgressValue] /\ infected' \in [File -> VerdictValue]
        /\ read' \in [Task -> Reading]
    BY <2>1, <2>3 DEF SaveThen, Reading, NothingRead, ProgressValue, VerdictValue
  <2>5. QED
    BY <2>1, <2>2, <2>4 DEF SaveThen
<1>4. CASE FailScanState(t)
  <2>1. at' \in [Task -> Stage]
    BY <1>4, TypeAt DEF FailScanState, Stage, Idle, Over, Updating
  <2>2. QED
    BY <1>4, <2>1 DEF FailScanState
<1>5. CASE CountFiles(t)
  <2>1. at' \in [Task -> Stage]
    BY <1>5, TypeAt DEF CountFiles, Stage, Updating
  <2>2. [read[t] EXCEPT !.progress = SessionProgress] \in Reading
    BY ReadingSet, ProgressTypes
  <2>3. read' \in [Task -> Reading]
    BY <1>5, <2>2 DEF CountFiles
  <2>4. QED
    BY <1>5, <2>1, <2>3 DEF CountFiles
<1>6. CASE SaveProgress(t)
  <2>1. at' \in [Task -> Stage]
    BY <1>6, TypeAt, ResumeStage DEF SaveProgress, Stage, Idle, Over, Updating
  <2>2. read' \in [Task -> Reading]
    BY <1>6 DEF SaveProgress, Reading, NothingRead, ProgressValue, VerdictValue
  <2>3. read[t].progress \in ProgressValue
    BY DEF Reading
  <2>4. session' \in [progress : ProgressValue, counter : Nat, analyze : ProgressValue]
    BY <1>6, <2>3 DEF SaveProgress
  <2>5. QED
    BY <1>6, <2>1, <2>2, <2>4 DEF SaveProgress
<1>7. CASE Publish(t)
  <2>1. PICK u \in outbox[t] :
          /\ outbox' = [outbox EXCEPT ![t] = @ \ {u}]
          /\ at' = [at EXCEPT ![u] = "queued",
                              ![t] = IF outbox[t] = {u} THEN Resume(t) ELSE "publish"]
    BY <1>7 DEF Publish
  <2>2. at' \in [Task -> Stage]
    BY <2>1, ResumeStage DEF Stage, Idle, Over, Updating
  <2>3. outbox' \in [Task -> SUBSET Task]
    BY <2>1
  <2>4. QED
    BY <1>7, <2>2, <2>3 DEF Publish
<1>8. QED
  BY <1>1, <1>2, <1>3, <1>4, <1>5, <1>6, <1>7 DEF UpdateStep

\* So does a task that is cut short.
LEMMA TypeFault == ASSUME TypeOK, FaultStep PROVE TypeOK'
<1>1. PICK t \in Task, s \in {"refused", "failed"} : CutShort(t, s)
  BY FaultCuts
<1>2. at' \in [Task -> Stage]
  BY <1>1 DEF CutShort, TypeOK, Stage, Idle, Over
<1>3. outbox' \in [Task -> SUBSET Task]
  BY <1>1 DEF CutShort, TypeOK
<1>4. read' \in [Task -> Reading]
  <2>1. NothingRead \in Reading
    BY DEF NothingRead, Reading, ProgressValue, VerdictValue
  <2>2. QED
    BY <1>1, <2>1 DEF CutShort, TypeOK
<1>5. QED
  BY <1>1, <1>2, <1>3, <1>4 DEF CutShort, TypeOK, dbVars, userVars

\* The user, the administrator and the broker keep the types.
LEMMA TypeRest ==
    ASSUME TypeOK,
           \/ AcceptPostscan \/ CopyCleanFiles
           \/ \E a \in Agent : DeactivateAgent(a) \/ DeleteAgent(a)
           \/ \E t \in Task : Redeliver(t)
           \/ UNCHANGED vars
    PROVE  TypeOK'
<1> USE DEF TypeOK, dbVars, taskVars, userVars
<1>1. CASE AcceptPostscan \/ CopyCleanFiles
  BY <1>1 DEF AcceptPostscan, CopyCleanFiles
<1>2. ASSUME NEW a \in Agent, DeactivateAgent(a) \/ DeleteAgent(a) PROVE TypeOK'
  BY <1>2 DEF DeactivateAgent, DeleteAgent
<1>3. ASSUME NEW t \in Task, Redeliver(t) PROVE TypeOK'
  BY <1>3 DEF Redeliver, Stage, Idle, Over, Reading, NothingRead, ProgressValue, VerdictValue
<1>4. CASE UNCHANGED vars
  BY <1>4 DEF vars
<1>5. QED
  BY <1>1, <1>2, <1>3, <1>4

\* A step leaves every task that updates a file with one.
LEMMA SubjectStep == ASSUME TypeOK, SubjectOK, [Next]_vars PROVE SubjectOK'
<1> USE DEF TypeOK, SubjectOK, dbVars, taskVars, userVars
<1>1. CASE IngestStep
  <2>1. CASE CreateFile
    <3>1. PICK f \in unread : subject' = [subject EXCEPT ![Ingest] = f]
      BY <2>1 DEF CreateFile
    <3>2. QED
      BY <2>1, <3>1 DEF CreateFile, Goto, File
  <2>2. CASE StartIngest
    <3>1. PICK s \in {"done", "next"} : at' = [at EXCEPT ![Ingest] = s]
      BY <2>2 DEF StartIngest, Start
    <3>2. QED
      BY <2>2, <3>1 DEF StartIngest
  <2>3. CASE CountPath \/ RejectPath \/ EndIngest
    BY <2>3 DEF CountPath, RejectPath, EndIngest, Goto
  <2>4. QED
    BY <1>1, <2>1, <2>2, <2>3 DEF IngestStep
<1>2. ASSUME NEW f \in Top, ScanFileStep(f) PROVE SubjectOK'
  <2>1. CASE CreateScans(f)
    <3>1. PICK x \in plan[f].todo : subject' = [subject EXCEPT ![ScanFile(f)] = x]
      BY <2>1 DEF CreateScans
    <3>2. x \in File
      BY DEF Plan
    <3>3. at' = [at EXCEPT ![ScanFile(f)] = "file"]
      BY <2>1 DEF CreateScans, Goto
    <3>4. QED
      BY <3>1, <3>2, <3>3
  <2>2. CASE ~CreateScans(f)
    <3>1. UNCHANGED subject
      BY <1>2, <2>2
         DEF ScanFileStep, StartScanFile, ReuseChildren, FailExtraction, ExtractRejected,
             ExtractValid, CountAgents, NothingToScan, NoScannerFound, FailScans, EndScanFile
    <3>2. PICK s \in Over \cup {"extract", "bulk", "count", "loop", "session"} :
            at' = [at EXCEPT ![ScanFile(f)] = s]
      BY <1>2, <2>2
         DEF ScanFileStep, StartScanFile, ReuseChildren, FailExtraction, ExtractRejected,
             ExtractValid, CountAgents, NothingToScan, NoScannerFound, FailScans, EndScanFile,
             Start, Goto, Over
    <3>3. QED
      BY <3>1, <3>2 DEF Over
  <2>3. QED
    BY <2>1, <2>2
<1>3. ASSUME NEW f \in File, NEW a \in Agent, PerformScanStep(f, a) PROVE SubjectOK'
  <2>1. CASE StartPerformScan(f, a)
    BY <2>1 DEF StartPerformScan, Start
  <2>2. CASE SaveResult(f, a)
    BY <2>2 DEF SaveResult, Goto
  <2>3. CASE LeaveScan(f, a)
    BY <2>3 DEF LeaveScan, Goto
  <2>4. QED
    BY <1>3, <2>1, <2>2, <2>3 DEF PerformScanStep
<1>4. ASSUME NEW t \in Task, UpdateStep(t) PROVE SubjectOK'
  <2>1. CASE ReadScanState(t) \/ JudgeScanState(t)
    <3>1. CASE ReadScanState(t)
      BY <3>1 DEF ReadScanState, Goto
    <3>2. CASE JudgeScanState(t)
      BY <3>2 DEF JudgeScanState, Goto
    <3>3. QED
      BY <2>1, <3>1, <3>2
  <2>2. CASE SaveScanState(t)
    BY <2>2 DEF SaveScanState, SaveThen, Goto
  <2>3. CASE FailScanState(t)
    BY <2>3 DEF FailScanState, Goto
  <2>4. CASE CountFiles(t) \/ SaveProgress(t)
    <3>1. CASE CountFiles(t)
      BY <3>1 DEF CountFiles, Goto
    <3>2. CASE SaveProgress(t)
      BY <3>2, ResumeStage DEF SaveProgress, Goto
    <3>3. QED
      BY <2>4, <3>1, <3>2
  <2>5. CASE Publish(t)
    BY <2>5, ResumeStage DEF Publish
  <2>6. QED
    BY <1>4, <2>1, <2>2, <2>3, <2>4, <2>5 DEF UpdateStep
<1>5. CASE AcceptPostscan \/ CopyCleanFiles
  BY <1>5 DEF AcceptPostscan, CopyCleanFiles
<1>6. ASSUME NEW a \in Agent, DeactivateAgent(a) \/ DeleteAgent(a) PROVE SubjectOK'
  BY <1>6 DEF DeactivateAgent, DeleteAgent
<1>7. ASSUME NEW t \in Task, Redeliver(t) PROVE SubjectOK'
  BY <1>7 DEF Redeliver
<1>8. CASE UNCHANGED vars
  BY <1>8 DEF vars
<1>9. CASE FaultStep
  BY <1>9, FaultCuts DEF CutShort
<1>10. QED
  BY <1>1, <1>2, <1>3, <1>4, <1>5, <1>6, <1>7, <1>8, <1>9 DEF Next, WorkerStep

\* The two together are inductive.
LEMMA TypesAndSubjects == Spec => [](TypeOK /\ SubjectOK)
<1>1. Init => SubjectOK
  BY DEF Init, FromDisk, FromRequest, Sent, SubjectOK
<1>2. TypeOK /\ SubjectOK /\ [Next]_vars => TypeOK' /\ SubjectOK'
  BY TypeIngest, TypeScanFile, TypePerformScan, TypeUpdate, TypeFault, TypeRest, SubjectStep
     DEF Next, WorkerStep
<1>3. QED
  BY <1>1, <1>2, TypeInit, PTL DEF Spec

\* Whatever the tasks, the user, the administrator and the broker do, the rows
\* hold a progress and a verdict the code knows, and every task is at a step of
\* its function.
THEOREM TypeCorrect == Spec => []TypeOK
BY TypesAndSubjects, PTL

-----------------------------------------------------------------------------
(* Names *)

\* Tasks of different kinds differ.
LEMMA TasksDiffer ==
    /\ \A f \in Top : ScanFile(f) # Ingest
    /\ \A f \in File, a \in Agent : PerformScan(f, a) # Ingest
    /\ \A f \in Top, x \in File, a \in Agent : ScanFile(f) # PerformScan(x, a)
BY TaskShape

\* Every task is one of the three kinds.
LEMMA TaskCases ==
    ASSUME NEW t \in Task
    PROVE  \/ t = Ingest
           \/ \E f \in Top : t = ScanFile(f)
           \/ \E x \in File, a \in Agent : t = PerformScan(x, a)
BY DEF Task, ScanFileTask, PerformScanTask

\* No file is owned by two files of Top.
LEMMA OwnedApart ==
    /\ \A f \in Top : f \in Owned(f) /\ Owned(f) \subseteq File
    /\ \A f, g \in Top : \A x : x \in Owned(f) /\ x \in Owned(g) => f = g
    /\ \A f \in Top : \A m : m \in MembersOf(f) => m \in Owned(f) /\ m \in Member /\ m \notin Top
BY SessionAssumption DEF Owned, MembersOf, File

\* Only Redeliver runs a task again.
LEMMA RedeliveredBy ==
    ASSUME [Next]_vars, redelivered' # redelivered
    PROVE  \E t \in Task : Redeliver(t)
<1> USE DEF dbVars, taskVars, userVars
<1>1. /\ ~IngestStep
      /\ \A f \in Top : ~ScanFileStep(f)
  BY DEF IngestStep, StartIngest, CountPath, CreateFile, RejectPath, EndIngest,
     ScanFileStep, StartScanFile, ReuseChildren, FailExtraction, ExtractRejected,
     ExtractValid, CountAgents, NothingToScan, NoScannerFound, CreateScans, FailScans,
     EndScanFile
<1>2. /\ \A f \in File, a \in Agent : ~PerformScanStep(f, a)
      /\ \A t \in Task : ~UpdateStep(t)
  BY DEF PerformScanStep, StartPerformScan, SaveResult, LeaveScan, UpdateStep,
     ReadScanState, JudgeScanState, SaveScanState, SaveThen, FailScanState, CountFiles,
     SaveProgress, Publish
<1>3. /\ ~AcceptPostscan /\ ~CopyCleanFiles /\ ~UNCHANGED vars
      /\ \A a \in Agent : ~DeactivateAgent(a) /\ ~DeleteAgent(a)
  BY DEF AcceptPostscan, CopyCleanFiles, DeactivateAgent, DeleteAgent, vars
<1>4. ~FaultStep
  BY FaultCuts DEF CutShort
<1>5. QED
  BY <1>1, <1>2, <1>3, <1>4 DEF Next, WorkerStep

\* What was run again stays so.
LEMMA RedeliveredGrows == ASSUME [Next]_vars PROVE redelivered \subseteq redelivered'
BY RedeliveredBy DEF Redeliver

\* A scan is pending until its perform_scan answers, or is run again, and only of a valid file.
AnswersKnown ==
    /\ \A t \in Task, x \in File, a \in Agent :
         PerformScan(x, a) \in outbox[t] => scan[x][a] = "pending"
    /\ \A x \in File, a \in Agent :
         /\ at[PerformScan(x, a)] # "none" => scan[x][a] # "none"
         /\ at[PerformScan(x, a)] \in {"none", "queued", "scanning"} =>
              \/ scan[x][a] \in {"none", "pending"}
              \/ at[PerformScan(x, a)] # "none" /\ PerformScan(x, a) \in redelivered
         /\ scan[x][a] # "none" => row[x] = "valid"

\* What is left of TasksRunOnce when perform_scan may be run again, and no other task.
RunsKnown == IndexedOnce /\ UnscannedYet /\ PublishedOnce /\ AnswersKnown

\* The stages RunsKnown speaks of.
Early == {"none", "queued", "extract", "bulk", "count", "scanning"}

\* A step that creates and fills in nothing and moves at most one task on, to a
\* stage that is not early, keeps RunsKnown.
LEMMA QuietStep ==
    ASSUME TypeOK, RunsKnown, redelivered \subseteq redelivered',
           UNCHANGED <<row, scan, unread>>,
           \A t \in Task : outbox'[t] \subseteq outbox[t],
           \A f \in Top : plan'[f].todo \subseteq plan[f].todo,
           \/ UNCHANGED at
           \/ \E t \in Task, s \in Stage \ Early :
                at[t] # "none" /\ at' = [at EXCEPT ![t] = s]
    PROVE  RunsKnown'
<1> USE DEF TypeOK, Created, Children, Scans, MembersOf
<1>1. /\ \A t \in Task : at'[t] # at[t] => at[t] # "none" /\ at'[t] \notin Early
      /\ \A t \in Task : at[t] = "none" => at'[t] = "none"
      /\ \A t \in Task : at'[t] \in Early => at'[t] = at[t]
  BY DEF Early
<1>2. IndexedOnce'
  BY <1>1, TaskShape DEF RunsKnown, IndexedOnce, ValidTop, Early
<1>3. UnscannedYet'
  BY <1>1, TaskShape DEF RunsKnown, UnscannedYet, Early
<1>4. PublishedOnce'
  <2>1. \A t \in Task : \A u \in outbox[t] : at'[u] = "none"
    BY <1>1 DEF RunsKnown, PublishedOnce
  <2>2. QED
    BY <2>1, TaskShape DEF RunsKnown, PublishedOnce
<1>5. AnswersKnown'
  BY <1>1, TaskShape DEF RunsKnown, AnswersKnown, Early
<1>6. QED
  BY <1>2, <1>3, <1>4, <1>5 DEF RunsKnown

-----------------------------------------------------------------------------
(* RunsKnown is inductive *)

\* No task has run at first.
LEMMA OnceInit == Init => TasksRunOnce
<1> SUFFICES ASSUME Init PROVE TasksRunOnce
  OBVIOUS
<1>1. /\ row = [f \in File |-> IF at[Ingest] # "none" \/ f \in Member THEN "none" ELSE "valid"]
      /\ \A t \in Task : at[t] \in {"none", "queued", "refused"}
      /\ \A t \in Task :
           t \notin (IF at[Ingest] # "none" THEN {Ingest} ELSE ScanFileTask) => at[t] = "none"
  <2>1. CASE FromDisk
    BY <2>1, TaskShape DEF FromDisk, Sent
  <2>2. ASSUME NEW was, NEW notes, FromRequest(was, notes)
        PROVE  /\ row = [f \in File |-> IF f \in Member THEN "none" ELSE "valid"]
               /\ \A t \in Task : at[t] \in {"none", "queued", "refused"}
               /\ \A t \in Task : t \notin ScanFileTask => at[t] = "none"
               /\ at[Ingest] = "none"
    <3>1. Ingest \notin ScanFileTask
      BY TaskShape, TasksDiffer DEF ScanFileTask
    <3>2. \A f \in File : f \in Top <=> f \notin Member
      BY SessionAssumption DEF File
    <3>3. QED
      BY <2>2, <3>1, <3>2, TaskShape DEF FromRequest, Sent
  <2>3. QED
    BY <2>1, <2>2 DEF Init
<1>2. /\ \A x \in File : Scans(x) = {}
      /\ \A f \in Top : Children(f) = {}
      /\ \A f \in Top : plan[f].todo = {}
  BY <1>1, SessionAssumption DEF Init, Scans, Children, Created, MembersOf, NoPlan, File
<1>3. IndexedOnce
  BY <1>1, TaskShape, TasksDiffer, SessionAssumption DEF Init, IndexedOnce, File, ScanFileTask
<1>4. UnscannedYet
  BY <1>1, <1>2, OwnedApart, TaskShape, TasksDiffer DEF Init, UnscannedYet, ScanFileTask
<1>5. PublishedOnce /\ AnsweredOnce
  BY <1>1, TaskShape, TasksDiffer DEF Init, PublishedOnce, AnsweredOnce, ScanFileTask
<1>6. QED
  BY <1>3, <1>4, <1>5 DEF TasksRunOnce

\* Nor is one run again.
LEMMA KnownFromOnce ==
    /\ TasksRunOnce => RunsKnown
    /\ RunsKnown /\ redelivered = {} => TasksRunOnce
BY DEF TasksRunOnce, RunsKnown, AnsweredOnce, AnswersKnown

\* A path that is indexed has no row and no task yet.
LEMMA OnceIngest ==
    ASSUME TypeOK, RunsKnown, redelivered \subseteq redelivered', IngestStep
    PROVE  RunsKnown'
<1> USE DEF TypeOK, RunsKnown, dbVars, taskVars, userVars
<1>1. CASE StartIngest
  <2>1. PICK s \in {"next", "done"} :
          at[Ingest] = "queued" /\ at' = [at EXCEPT ![Ingest] = s]
    BY <1>1 DEF StartIngest, Start
  <2>2. IndexedOnce'
    BY <1>1, <2>1, TaskShape, TasksDiffer DEF StartIngest, IndexedOnce, ValidTop
  <2>3. UnscannedYet'
    BY <1>1, <2>1, TaskShape, TasksDiffer
       DEF StartIngest, UnscannedYet, Scans, Children, Created, MembersOf
  <2>4. \A t \in Task : \A u \in outbox[t] : at'[u] = "none"
    BY <2>1 DEF PublishedOnce
  <2>5. PublishedOnce'
    BY <1>1, <2>4 DEF StartIngest, PublishedOnce
  <2>6. AnswersKnown'
    BY <1>1, <2>1, TaskShape, TasksDiffer DEF StartIngest, AnswersKnown
  <2>7. QED
    BY <2>2, <2>3, <2>5, <2>6
<1>2. CASE CountPath \/ EndIngest
  <2>1. PICK s \in {"create", "done"} : at[Ingest] = "next" /\ at' = [at EXCEPT ![Ingest] = s]
    BY <1>2 DEF CountPath, EndIngest, Goto
  <2>2. s \in {"done", "create"} \ Early
    BY DEF Early
  <2>3. QED
    BY <1>2, <2>1, <2>2, QuietStep, TaskShape DEF CountPath, EndIngest, Stage, Idle, Over, Updating
<1>3. CASE CreateFile
  <2>1. PICK f \in unread : /\ unread' = unread \ {f}
                            /\ row' = [row EXCEPT ![f] = "valid"]
                            /\ outbox' = [outbox EXCEPT ![Ingest] = {ScanFile(f)}]
    BY <1>3 DEF CreateFile
  <2>2. /\ at[Ingest] = "create" /\ at' = [at EXCEPT ![Ingest] = "file"]
        /\ UNCHANGED <<scan, plan>>
    BY <1>3 DEF CreateFile, Goto
  <2>3. /\ f \in Top /\ f \notin Member /\ f \in File /\ row[f] = "none"
        /\ at[ScanFile(f)] = "none"
    BY SessionAssumption DEF IndexedOnce, File
  <2>4. \A g \in Top : Children(g)' = Children(g)
    BY <2>1, <2>3 DEF Children, Created, MembersOf
  <2>5. IndexedOnce'
    BY <2>1, <2>2, <2>3, TaskShape, TasksDiffer DEF IndexedOnce, ValidTop, File
  <2>6. UnscannedYet'
    BY <2>1, <2>2, <2>3, <2>4, TaskShape, TasksDiffer, OwnedApart
       DEF UnscannedYet, Scans, Children, MembersOf, File
  <2>7. \A t \in Task : \A u \in outbox'[t] : at'[u] = "none"
    BY <2>1, <2>2, <2>3, TaskShape, TasksDiffer DEF PublishedOnce
  <2>8. PublishedOnce'
    BY <2>1, <2>7, TaskShape, TasksDiffer DEF PublishedOnce
  <2>9. AnswersKnown'
    BY <2>1, <2>2, <2>3, TaskShape, TasksDiffer DEF AnswersKnown, File
  <2>10. QED
    BY <2>5, <2>6, <2>8, <2>9
<1>4. CASE RejectPath
  <2>1. PICK f \in unread : /\ unread' = unread \ {f}
                            /\ row' = [row EXCEPT ![f] = "rejected"]
    BY <1>4 DEF RejectPath
  <2>2. /\ at[Ingest] = "create" /\ at' = [at EXCEPT ![Ingest] = "session"]
        /\ UNCHANGED <<scan, plan, outbox>>
    BY <1>4 DEF RejectPath, Goto
  <2>3. /\ f \in Top /\ f \notin Member /\ f \in File /\ row[f] = "none"
        /\ at[ScanFile(f)] = "none"
    BY SessionAssumption DEF IndexedOnce, File
  <2>4. \A g \in Top : Children(g)' = Children(g)
    BY <2>1, <2>3 DEF Children, Created, MembersOf
  <2>5. IndexedOnce'
    BY <2>1, <2>2, <2>3, TaskShape, TasksDiffer DEF IndexedOnce, ValidTop, File
  <2>6. UnscannedYet'
    BY <2>1, <2>2, <2>3, <2>4, TaskShape, TasksDiffer, OwnedApart
       DEF UnscannedYet, Scans, Children, MembersOf, File
  <2>7. \A t \in Task : \A u \in outbox'[t] : at'[u] = "none"
    BY <2>2, <2>3, TaskShape, TasksDiffer DEF PublishedOnce
  <2>8. PublishedOnce'
    BY <2>2, <2>7 DEF PublishedOnce
  <2>9. AnswersKnown'
    BY <2>1, <2>2, <2>3, TaskShape, TasksDiffer DEF AnswersKnown, File
  <2>10. QED
    BY <2>5, <2>6, <2>8, <2>9
<1>5. QED
  BY <1>1, <1>2, <1>3, <1>4 DEF IngestStep

\* Scanning starts with an empty table: StartScanFile, and the three ways
\* extraction ends, leave the file and its members without scans.
LEMMA OnceExtract ==
    ASSUME TypeOK, RunsKnown, redelivered \subseteq redelivered',
           NEW f \in Top, StartScanFile(f) \/ FailExtraction(f) \/ ExtractRejected(f) \/ ExtractValid(f)
    PROVE  RunsKnown'
<1> DEFINE t == ScanFile(f)
<1> USE DEF TypeOK, RunsKnown, dbVars, taskVars, userVars
<1>1. /\ UNCHANGED <<scan, outbox, unread>>
      /\ \A g \in Top : g # f => plan'[g] = plan[g]
      /\ \E s \in {"extract", "bulk", "count", "refused"} : at' = [at EXCEPT ![t] = s]
      /\ at[t] \in {"queued", "extract", "bulk"}
  BY DEF StartScanFile, FailExtraction, ExtractRejected, ExtractValid, Start, Goto
<1>2. row[f] = "valid" /\ \A x \in Owned(f) : Scans(x) = {}
  BY <1>1, TaskShape DEF IndexedOnce, UnscannedYet
<1>3. /\ \A x \in File : x \notin MembersOf(f) => row'[x] = row[x]
      /\ \A x \in File : row[x] # "none" => row'[x] = row[x]
      /\ \A g \in Top : g # f => Children(g)' = Children(g)
  <2>1. CASE StartScanFile(f) \/ FailExtraction(f)
    BY <2>1 DEF StartScanFile, FailExtraction, Children, Created
  <2>2. CASE ExtractRejected(f)
    BY <2>2 DEF ExtractRejected, Children, Created, MembersOf, File
  <2>3. CASE ExtractValid(f)
    BY <2>3 DEF ExtractValid, Children, Created, MembersOf, File
  <2>4. QED
    BY <2>1, <2>2, <2>3
<1>4. /\ at'[t] \in {"extract"} => Children(f)' = {}
      /\ at'[t] = "bulk" => \A m \in Children(f)' : row'[m] = "rejected"
      /\ \A x \in plan'[f].todo : x \in Owned(f) /\ row'[x] = "valid"
  <2>1. WithoutChildren(f).todo \subseteq {f}
    BY DEF WithoutChildren, Plan
  <2>2. CASE StartScanFile(f)
    <3>1. Children(f)' = {}
      BY <2>2, TaskShape DEF StartScanFile, Start, UnscannedYet, Children, Created
    <3>2. plan'[f].todo \subseteq {f} /\ UNCHANGED row
      BY <2>2 DEF StartScanFile, NoPlan
    <3>3. at'[t] # "bulk"
      BY <2>2, TaskShape DEF StartScanFile, Start
    <3>4. QED
      BY <1>2, <3>1, <3>2, <3>3, OwnedApart
  <2>3. CASE FailExtraction(f)
    <3>1. plan'[f].todo \subseteq {f} /\ UNCHANGED row /\ at'[t] = "count"
      BY <2>1, <2>3, TaskShape DEF FailExtraction, Goto
    <3>2. QED
      BY <1>2, <3>1, OwnedApart
  <2>4. CASE ExtractRejected(f)
    <3>1. at'[t] = "bulk" /\ UNCHANGED plan /\ Children(f) = {} /\ at[t] = "extract"
      BY <2>4, TaskShape DEF ExtractRejected, Goto
    <3>2. \A m \in Children(f)' : row'[m] = "rejected"
      BY <2>4, <3>1 DEF ExtractRejected, Children, Created, MembersOf, File
    <3>3. \A x \in plan'[f].todo : x \in Owned(f) /\ row'[x] = "valid"
      BY <1>3, <3>1, OwnedApart DEF UnscannedYet
    <3>4. QED
      BY <3>1, <3>2, <3>3
  <2>5. CASE ExtractValid(f)
    <3> DEFINE accepted == {m \in MembersOf(f) : ~Created(m)}
    <3>1. at'[t] \in {"count", "refused"}
      BY <2>5, TaskShape DEF ExtractValid, Goto
    <3>2. plan'[f] = IF accepted = {} THEN WithoutChildren(f)
                     ELSE [plan[f] EXCEPT !.todo = accepted]
      BY <2>5 DEF ExtractValid
    <3>3. \A m \in accepted : m \in Owned(f) /\ row'[m] = "valid"
      BY <2>5, OwnedApart DEF ExtractValid
    <3>4. CASE accepted = {}
      <4>1. plan'[f].todo \subseteq {f}
        BY <2>1, <3>2, <3>4
      <4>2. row'[f] = "valid"
        BY <1>2, <1>3 DEF File
      <4>3. QED
        BY <3>1, <4>1, <4>2, OwnedApart
    <3>5. CASE accepted # {}
      <4>1. plan'[f].todo = accepted
        BY <3>2, <3>5 DEF Plan
      <4>2. QED
        BY <3>1, <3>3, <4>1
    <3>6. QED
      BY <3>4, <3>5
  <2>6. QED
    BY <2>2, <2>3, <2>4, <2>5
<1>5. IndexedOnce'
  <2>1. \A g \in Top : row'[g] = row[g]
    BY <1>3, OwnedApart DEF File
  <2>2. at'[Ingest] = at[Ingest]
    BY <1>1, TaskShape, TasksDiffer
  <2>3. \A g \in Top : at'[ScanFile(g)] # "none" => row'[g] = "valid"
    BY <1>1, <1>2, <2>1, TaskShape DEF IndexedOnce
  <2>4. {h \in Top : row'[h] = "valid"} = ValidTop
    BY <2>1 DEF ValidTop
  <2>5. outbox'[Ingest] = outbox[Ingest]
    BY <1>1
  <2>6. outbox[Ingest] \subseteq {ScanFile(g) : g \in ValidTop}
    BY DEF IndexedOnce
  <2>7. outbox'[Ingest] \subseteq {ScanFile(g) : g \in {h \in Top : row'[h] = "valid"}}
    BY <2>4, <2>5, <2>6, Zenon
  <2>8. QED
    BY <1>1, <2>1, <2>2, <2>3, <2>7 DEF IndexedOnce, ValidTop
<1>6. UnscannedYet'
  <2> SUFFICES ASSUME NEW g \in Top
               PROVE  /\ at'[ScanFile(g)] \in {"none", "queued", "extract", "bulk", "count"} =>
                           \A x \in Owned(g) : Scans(x)' = {}
                      /\ at'[ScanFile(g)] \in {"none", "queued", "extract"} => Children(g)' = {}
                      /\ at'[ScanFile(g)] = "bulk" => \A m \in Children(g)' : row'[m] = "rejected"
                      /\ \A x \in plan'[g].todo :
                           x \in Owned(g) /\ row'[x] = "valid" /\ Scans(x)' = {}
    BY DEF UnscannedYet
  <2>1. \A x : Scans(x)' = Scans(x)
    BY <1>1 DEF Scans
  <2>2. CASE g = f
    BY <1>1, <1>2, <1>4, <2>1, <2>2, TaskShape
  <2>3. CASE g # f
    <3>1. at'[ScanFile(g)] = at[ScanFile(g)] /\ plan'[g] = plan[g] /\ Children(g)' = Children(g)
      BY <1>1, <1>3, <2>3, TaskShape
    <3>2. \A m \in Children(g) : row'[m] = row[m]
      BY <1>3 DEF Children, Created, MembersOf, File
    <3>3. \A x \in plan[g].todo : row'[x] = row[x]
      BY <1>3, OwnedApart DEF UnscannedYet
    <3>4. at[ScanFile(g)] \in {"none", "queued", "extract"} => Children(g) = {}
      BY DEF UnscannedYet
    <3>5. \A m \in Children(g) : at[ScanFile(g)] = "bulk" => row'[m] = "rejected"
      BY <3>2 DEF UnscannedYet
    <3>6. at[ScanFile(g)] \in {"none", "queued", "extract", "bulk", "count"} =>
            \A x \in Owned(g) : Scans(x)' = {}
      BY <2>1 DEF UnscannedYet
    <3>7. \A x \in plan[g].todo : x \in Owned(g) /\ row'[x] = "valid" /\ Scans(x)' = {}
      BY <2>1, <3>3 DEF UnscannedYet
    <3>8. QED
      BY <3>1, <3>4, <3>5, <3>6, <3>7
  <2>4. QED
    BY <2>2, <2>3
<1>7. PublishedOnce'
  <2>1. \A r \in Task : \A u \in outbox'[r] : at'[u] = "none"
    BY <1>1 DEF PublishedOnce
  <2>2. QED
    BY <1>1, <2>1 DEF PublishedOnce
<1>8. AnswersKnown'
  BY <1>1, <1>3, TaskShape, TasksDiffer DEF AnswersKnown
<1>9. QED
  BY <1>5, <1>6, <1>7, <1>8

\* One file of the loop gets its scans and leaves the list.
LEMMA OnceCreateScans ==
    ASSUME TypeOK, RunsKnown, redelivered \subseteq redelivered',
           NEW f \in Top, CreateScans(f)
    PROVE  RunsKnown'
<1> DEFINE t == ScanFile(f)
           listed == AgentsListed(f)
<1> USE DEF TypeOK, RunsKnown, dbVars, taskVars, userVars
<1>1. PICK x \in plan[f].todo :
        /\ scan' = [scan EXCEPT ![x] =
                      [a \in Agent |-> IF a \in listed THEN "pending" ELSE @[a]]]
        /\ outbox' = [outbox EXCEPT ![t] = {PerformScan(x, a) : a \in listed}]
        /\ plan' = [plan EXCEPT ![f].todo = @ \ {x}, ![f].listed = TRUE, ![f].agents = listed]
  BY DEF CreateScans
<1>2. /\ at[t] = "loop" /\ at' = [at EXCEPT ![t] = "file"]
      /\ UNCHANGED <<row, unread>>
  BY DEF CreateScans, Goto
<1>3. x \in Owned(f) /\ x \in File /\ row[x] = "valid" /\ Scans(x) = {}
  BY OwnedApart DEF UnscannedYet
<1>4. listed \subseteq Agent
  BY DEF AgentsListed, ActiveAgents, Plan
<1>5. /\ \A y \in File : y # x => scan'[y] = scan[y] /\ Scans(y)' = Scans(y)
      /\ \A a \in Agent : scan[x][a] = "none"
      /\ \A a \in Agent : scan'[x][a] = IF a \in listed THEN "pending" ELSE "none"
  BY <1>1, <1>3 DEF Scans
<1>6. /\ plan'[f].todo = plan[f].todo \ {x}
      /\ \A g \in Top : g # f => plan'[g] = plan[g]
  BY <1>1 DEF Plan
<1>7. IndexedOnce'
  BY <1>1, <1>2, TaskShape, TasksDiffer DEF IndexedOnce, ValidTop
<1>8. UnscannedYet'
  <2> SUFFICES ASSUME NEW g \in Top
               PROVE  /\ at'[ScanFile(g)] \in {"none", "queued", "extract", "bulk", "count"} =>
                           \A y \in Owned(g) : Scans(y)' = {}
                      /\ at'[ScanFile(g)] \in {"none", "queued", "extract"} => Children(g)' = {}
                      /\ at'[ScanFile(g)] = "bulk" => \A m \in Children(g)' : row'[m] = "rejected"
                      /\ \A y \in plan'[g].todo :
                           y \in Owned(g) /\ row'[y] = "valid" /\ Scans(y)' = {}
    BY DEF UnscannedYet
  <2>1. Children(g)' = Children(g)
    BY <1>2 DEF Children, Created
  <2>2. \A y \in plan'[g].todo :
          y \in Owned(g) /\ row'[y] = "valid" /\ y # x /\ y \in File /\ Scans(y) = {}
    <3> SUFFICES ASSUME NEW y \in plan'[g].todo
                 PROVE  y \in Owned(g) /\ row'[y] = "valid" /\ y # x /\ y \in File /\ Scans(y) = {}
      OBVIOUS
    <3>1. y \in plan[g].todo
      BY <1>6
    <3>2. y \in Owned(g) /\ row[y] = "valid" /\ Scans(y) = {}
      BY <3>1 DEF UnscannedYet
    <3>3. y # x
      <4>1. CASE g = f
        BY <1>6, <4>1
      <4>2. CASE g # f
        BY <1>3, <3>2, <4>2, OwnedApart
      <4>3. QED
        BY <4>1, <4>2
    <3>4. QED
      BY <1>2, <3>2, <3>3, OwnedApart
  <2>3. CASE g = f
    BY <1>2, <1>5, <2>1, <2>2, <2>3, TaskShape
  <2>4. CASE g # f
    <3>1. \A y \in Owned(g) : y # x /\ y \in File
      BY <1>3, <2>4, OwnedApart
    <3>2. QED
      BY <1>2, <1>5, <2>1, <2>2, <2>4, <3>1, TaskShape DEF UnscannedYet
  <2>5. QED
    BY <2>3, <2>4
<1>9. PublishedOnce'
  <2>1. \A a \in Agent : at[PerformScan(x, a)] = "none"
    BY <1>3, <1>5 DEF AnswersKnown
  <2>2. \A r \in Task : \A u \in outbox'[r] : at'[u] = "none"
    <3> SUFFICES ASSUME NEW r \in Task, NEW u \in outbox'[r] PROVE at'[u] = "none"
      OBVIOUS
    <3>1. CASE r = t
      <4>1. PICK a \in Agent : u = PerformScan(x, a)
        BY <1>1, <1>4, <3>1
      <4>2. QED
        BY <1>2, <1>3, <2>1, <4>1, TaskShape, TasksDiffer
    <3>2. CASE r # t
      BY <1>1, <1>2, <3>2 DEF PublishedOnce
    <3>3. QED
      BY <3>1, <3>2
  <2>3. \A g \in Top : outbox'[ScanFile(g)] \subseteq
          {PerformScan(y, a) : y \in Owned(g), a \in Agent}
    <3> SUFFICES ASSUME NEW g \in Top
                 PROVE  outbox'[ScanFile(g)] \subseteq
                          {PerformScan(y, a) : y \in Owned(g), a \in Agent}
      OBVIOUS
    <3>1. CASE g = f
      BY <1>1, <1>3, <1>4, <3>1, TaskShape
    <3>2. CASE g # f
      BY <1>1, <3>2, TaskShape DEF PublishedOnce
    <3>3. QED
      BY <3>1, <3>2
  <2>4. \A y \in File, a \in Agent : outbox'[PerformScan(y, a)] = {}
    BY <1>1, TaskShape, TasksDiffer DEF PublishedOnce
  <2>5. QED
    BY <2>2, <2>3, <2>4 DEF PublishedOnce
<1>10. AnswersKnown'
  <2>1. \A r \in Task, y \in File, a \in Agent :
          PerformScan(y, a) \in outbox'[r] => scan'[y][a] = "pending"
    <3> SUFFICES ASSUME NEW r \in Task, NEW y \in File, NEW a \in Agent,
                        PerformScan(y, a) \in outbox'[r]
                 PROVE  scan'[y][a] = "pending"
      OBVIOUS
    <3>1. CASE r = t
      BY <1>1, <1>5, <3>1, TaskShape
    <3>2. CASE r # t
      <4>1. scan[y][a] = "pending"
        BY <1>1, <3>2 DEF AnswersKnown
      <4>2. QED
        BY <1>5, <4>1
    <3>3. QED
      BY <3>1, <3>2
  <2>2. \A y \in File, a \in Agent : at'[PerformScan(y, a)] = at[PerformScan(y, a)]
    BY <1>2, TaskShape, TasksDiffer
  <2>3. ASSUME NEW y \in File, NEW a \in Agent
        PROVE  /\ at[PerformScan(y, a)] # "none" => scan'[y][a] # "none"
               /\ at[PerformScan(y, a)] \in {"none", "queued", "scanning"} =>
                    \/ scan'[y][a] \in {"none", "pending"}
                    \/ at[PerformScan(y, a)] # "none" /\ PerformScan(y, a) \in redelivered
               /\ scan'[y][a] # "none" => row[y] = "valid"
    <3>1. CASE y = x
      <4>1. at[PerformScan(x, a)] = "none"
        BY <1>3, <1>5 DEF AnswersKnown
      <4>2. QED
        BY <1>3, <1>5, <3>1, <4>1
    <3>2. CASE y # x
      <4>1. scan'[y][a] = scan[y][a]
        BY <1>5, <3>2
      <4>2. QED
        BY <4>1 DEF AnswersKnown
    <3>3. QED
      BY <3>1, <3>2
  <2>4. QED
    BY <1>2, <2>1, <2>2, <2>3 DEF AnswersKnown
<1>11. QED
  BY <1>7, <1>8, <1>9, <1>10

\* Every step of scan_file keeps RunsKnown.
LEMMA OnceScanFile ==
    ASSUME TypeOK, RunsKnown, redelivered \subseteq redelivered',
           NEW f \in Top, ScanFileStep(f)
    PROVE  RunsKnown'
<1> DEFINE t == ScanFile(f)
<1> USE DEF TypeOK, dbVars, taskVars, userVars
<1>1. CASE StartScanFile(f) \/ FailExtraction(f) \/ ExtractRejected(f) \/ ExtractValid(f)
  BY <1>1, OnceExtract
<1>2. CASE ReuseChildren(f)
  BY <1>2 DEF ReuseChildren, RunsKnown, UnscannedYet
<1>3. CASE CreateScans(f)
  BY <1>3, OnceCreateScans
<1>4. CASE CountAgents(f) \/ NothingToScan(f) \/ NoScannerFound(f) \/ FailScans(f) \/ EndScanFile(f)
  <2>1. /\ UNCHANGED <<row, scan, outbox, unread>>
        /\ at[t] # "none"
        /\ \E s \in {"loop", "session", "done"} : at' = [at EXCEPT ![t] = s]
    BY <1>4 DEF CountAgents, NothingToScan, NoScannerFound, FailScans, EndScanFile, Goto
  <2>2. \A g \in Top : plan'[g].todo \subseteq plan[g].todo
    <3>1. CASE CountAgents(f)
      BY <3>1 DEF CountAgents, Plan
    <3>2. CASE NoScannerFound(f)
      <4>1. PICK x \in plan[f].todo : plan' = [plan EXCEPT ![f].todo = @ \ {x}]
        BY <3>2 DEF NoScannerFound
      <4>2. QED
        BY <4>1 DEF Plan
    <3>3. CASE NothingToScan(f) \/ FailScans(f) \/ EndScanFile(f)
      BY <3>3 DEF NothingToScan, FailScans, EndScanFile
    <3>4. QED
      BY <1>4, <3>1, <3>2, <3>3
  <2>3. {"loop", "session", "done"} \subseteq Stage \ Early
    BY DEF Stage, Idle, Over, Updating, Early
  <2>4. QED
    BY <2>1, <2>2, <2>3, QuietStep, TaskShape
<1>5. QED
  BY <1>1, <1>2, <1>3, <1>4 DEF ScanFileStep

\* perform_scan fills in a scan that is pending, or fills it in again.
LEMMA OncePerformScan ==
    ASSUME TypeOK, RunsKnown, redelivered \subseteq redelivered',
           NEW f \in File, NEW a \in Agent, PerformScanStep(f, a)
    PROVE  RunsKnown'
<1> DEFINE t == PerformScan(f, a)
<1> USE DEF TypeOK, RunsKnown, dbVars, taskVars, userVars
<1>1. /\ UNCHANGED <<row, outbox, unread, plan>>
      /\ at[t] \in {"queued", "scanning"}
      /\ \E s \in {"scanning", "file"} :
            at' = [at EXCEPT ![t] = s] /\ (s = "scanning" => UNCHANGED scan)
      /\ \/ UNCHANGED scan
         \/ \E r \in Result : scan' = [scan EXCEPT ![f][a] = r]
  BY DEF PerformScanStep, StartPerformScan, SaveResult, LeaveScan, Start, Goto
<1>2. scan[f][a] # "none" /\ (scan[f][a] = "pending" \/ t \in redelivered)
  BY <1>1, TaskShape DEF AnswersKnown
<1>3. \A x \in File : Scans(x)' = Scans(x)
  BY <1>1, <1>2 DEF Scans, Result
<1>4. /\ \A u \in Task : u # t => at'[u] = at[u]
      /\ at'[t] \in {"scanning", "file"}
      /\ \A x \in File, b \in Agent : x # f \/ b # a => scan'[x][b] = scan[x][b]
      /\ scan'[f][a] # "none" /\ (at'[t] = "scanning" => scan'[f][a] = scan[f][a])
  BY <1>1, <1>2, TaskShape DEF Result
<1>5. IndexedOnce'
  BY <1>1, <1>4, TaskShape, TasksDiffer DEF IndexedOnce, ValidTop
<1>6. UnscannedYet'
  <2>1. \A g \in Top : at'[ScanFile(g)] = at[ScanFile(g)]
    BY <1>4, TaskShape, TasksDiffer
  <2>2. \A g \in Top : Children(g)' = Children(g)
    BY <1>1 DEF Children, Created
  <2>3. \A g \in Top : \A x \in Owned(g) : Scans(x)' = Scans(x)
    BY <1>3, OwnedApart
  <2>4. QED
    BY <1>1, <2>1, <2>2, <2>3 DEF UnscannedYet
<1>7. PublishedOnce'
  <2>1. \A r \in Task : \A u \in outbox'[r] : at'[u] = "none"
    BY <1>1, <1>4 DEF PublishedOnce
  <2>2. QED
    BY <1>1, <2>1 DEF PublishedOnce
<1>8. AnswersKnown'
  <2>1. \A r \in Task : t \notin outbox[r]
    BY <1>1 DEF PublishedOnce
  <2>2. ASSUME NEW r \in Task, NEW x \in File, NEW b \in Agent,
               PerformScan(x, b) \in outbox'[r]
        PROVE  scan'[x][b] = "pending"
    <3>1. PerformScan(x, b) \in outbox[r]
      BY <1>1, <2>2
    <3>2. x # f \/ b # a
      BY <2>1, <3>1
    <3>3. scan[x][b] = "pending"
      BY <3>1 DEF AnswersKnown
    <3>4. QED
      BY <1>4, <3>2, <3>3
  <2>3. \A x \in File, b \in Agent :
          /\ at'[PerformScan(x, b)] # "none" => scan'[x][b] # "none"
          /\ at'[PerformScan(x, b)] \in {"none", "queued", "scanning"} =>
               \/ scan'[x][b] \in {"none", "pending"}
               \/ at'[PerformScan(x, b)] # "none" /\ PerformScan(x, b) \in redelivered'
          /\ scan'[x][b] # "none" => row[x] = "valid"
    <3> SUFFICES ASSUME NEW x \in File, NEW b \in Agent
                 PROVE  /\ at'[PerformScan(x, b)] # "none" => scan'[x][b] # "none"
                        /\ at'[PerformScan(x, b)] \in {"none", "queued", "scanning"} =>
                             \/ scan'[x][b] \in {"none", "pending"}
                             \/ /\ at'[PerformScan(x, b)] # "none"
                                /\ PerformScan(x, b) \in redelivered'
                        /\ scan'[x][b] # "none" => row[x] = "valid"
      OBVIOUS
    <3>1. CASE x = f /\ b = a
      BY <1>2, <1>4, <3>1 DEF AnswersKnown
    <3>2. CASE x # f \/ b # a
      BY <1>4, <3>2, TaskShape DEF AnswersKnown
    <3>3. QED
      BY <3>1, <3>2
  <2>4. QED
    BY <1>1, <2>2, <2>3 DEF AnswersKnown
<1>9. QED
  BY <1>5, <1>6, <1>7, <1>8

\* A task that is published was not published before.
LEMMA OnceUpdate ==
    ASSUME TypeOK, RunsKnown, redelivered \subseteq redelivered',
           NEW t \in Task, UpdateStep(t)
    PROVE  RunsKnown'
<1> USE DEF TypeOK, dbVars, taskVars, userVars
<1>1. CASE \/ ReadScanState(t) \/ JudgeScanState(t) \/ SaveScanState(t) \/ FailScanState(t)
           \/ CountFiles(t) \/ SaveProgress(t)
  <2>1. /\ UNCHANGED <<row, scan, outbox, unread, plan>>
        /\ at[t] # "none"
        /\ \E s \in {"fileJudging", "fileSaving", "parentJudging", "parentSaving", "parent",
                     "session", "sessionSaving", "done", "publish", "next", "loop"} :
             at' = [at EXCEPT ![t] = s]
    BY <1>1, ResumeStage
       DEF ReadScanState, JudgeScanState, SaveScanState, SaveThen, FailScanState, CountFiles,
           SaveProgress, Goto
  <2>2. {"fileJudging", "fileSaving", "parentJudging", "parentSaving", "parent", "session",
         "sessionSaving", "done", "publish", "next", "loop"} \subseteq Stage \ Early
    BY DEF Stage, Idle, Over, Updating, Early
  <2>3. QED
    BY <2>1, <2>2, QuietStep
<1>2. CASE Publish(t)
  <2> USE DEF RunsKnown
  <2>1. PICK u \in outbox[t] :
          /\ outbox' = [outbox EXCEPT ![t] = @ \ {u}]
          /\ at' = [at EXCEPT ![u] = "queued",
                              ![t] = IF outbox[t] = {u} THEN Resume(t) ELSE "publish"]
    BY <1>2 DEF Publish
  <2>2. /\ at[t] = "publish" /\ at[u] = "none" /\ u \in Task /\ u # t
        /\ UNCHANGED <<row, scan, unread, plan>>
    BY <1>2 DEF Publish, PublishedOnce
  <2>3. /\ at'[u] = "queued"
        /\ at'[t] \in {"next", "loop", "done", "publish"}
        /\ \A r \in Task : r # u /\ r # t => at'[r] = at[r]
    BY <2>1, <2>2, ResumeStage
  <2>4. \/ t = Ingest /\ \E f \in ValidTop : u = ScanFile(f)
        \/ \E f \in Top, x \in File, a \in Agent :
             t = ScanFile(f) /\ x \in Owned(f) /\ u = PerformScan(x, a)
    <3>1. CASE t = Ingest
      BY <3>1 DEF IndexedOnce
    <3>2. ASSUME NEW f \in Top, t = ScanFile(f)
          PROVE  \E x \in File, a \in Agent : x \in Owned(f) /\ u = PerformScan(x, a)
      BY <3>2, OwnedApart DEF PublishedOnce
    <3>3. ASSUME NEW x \in File, NEW a \in Agent, t = PerformScan(x, a) PROVE FALSE
      BY <3>3 DEF PublishedOnce
    <3>4. QED
      BY <3>1, <3>2, <3>3, TaskCases
  <2>5. IndexedOnce'
    <3>1. at'[Ingest] = "queued" => at[Ingest] = "queued"
      BY <2>3, <2>4, TaskShape, TasksDiffer
    <3>2. \A f \in Top : at'[ScanFile(f)] # "none" => row[f] = "valid"
      BY <2>2, <2>3, <2>4, TaskShape, TasksDiffer DEF IndexedOnce, ValidTop
    <3>3. outbox'[Ingest] \subseteq outbox[Ingest]
      BY <2>1, TaskShape
    <3>4. QED
      BY <2>2, <3>1, <3>2, <3>3 DEF IndexedOnce, ValidTop
  <2>6. UnscannedYet'
    <3>1. \A f \in Top : at'[ScanFile(f)] \in Early \ {"scanning"} =>
            \/ at'[ScanFile(f)] = at[ScanFile(f)]
            \/ at'[ScanFile(f)] = "queued" /\ at[ScanFile(f)] = "none"
      BY <2>2, <2>3, TaskShape DEF Early
    <3>2. /\ \A f \in Top : Children(f)' = Children(f)
          /\ \A x : Scans(x)' = Scans(x)
      BY <2>2 DEF Children, Created, Scans
    <3>3. QED
      BY <2>2, <3>1, <3>2 DEF UnscannedYet, Early
  <2>7. PublishedOnce'
    <3>1. \A r \in Task : \A w \in outbox'[r] : w # u
      <4> SUFFICES ASSUME NEW r \in Task, u \in outbox'[r] PROVE FALSE
        OBVIOUS
      <4>1. r # t /\ u \in outbox[r]
        BY <2>1
      <4>2. r = Ingest \/ \E f \in Top : r = ScanFile(f)
        BY <4>1, TaskCases DEF PublishedOnce
      <4>3. CASE r = Ingest
        BY <2>4, <4>1, <4>3, TaskShape, TasksDiffer DEF IndexedOnce, ValidTop
      <4>4. ASSUME NEW f \in Top, r = ScanFile(f) PROVE FALSE
        <5>1. PICK y \in Owned(f), b \in Agent : u = PerformScan(y, b)
          BY <4>1, <4>4 DEF PublishedOnce
        <5>2. y \in File
          BY OwnedApart
        <5>3. PICK g \in Top, x \in File, a \in Agent :
                t = ScanFile(g) /\ x \in Owned(g) /\ u = PerformScan(x, a)
          BY <2>4, <5>1, <5>2, TasksDiffer DEF ValidTop
        <5>4. x = y
          <6>1. PerformScan(x, a) = PerformScan(y, b)
            BY <5>1, <5>3
          <6>2. PerformScan(x, a).file = x /\ PerformScan(y, b).file = y
            BY DEF PerformScan
          <6>3. QED
            BY <6>1, <6>2
        <5>5. g = f
          BY <5>3, <5>4, OwnedApart
        <5>6. QED
          BY <4>1, <4>4, <5>3, <5>5
      <4>5. QED
        BY <4>2, <4>3, <4>4
    <3>2. /\ \A r \in Task : outbox'[r] \subseteq outbox[r]
          /\ \A r \in Task : outbox'[r] \subseteq Task
      BY <2>1
    <3>3. \A r \in Task : \A w \in outbox'[r] : at'[w] = "none"
      BY <2>2, <2>3, <3>1, <3>2 DEF PublishedOnce
    <3>4. QED
      BY <3>2, <3>3, TaskShape DEF PublishedOnce
  <2>8. AnswersKnown'
    <3>1. \A r \in Task : outbox'[r] \subseteq outbox[r]
      BY <2>1
    <3>2. ASSUME NEW x \in File, NEW a \in Agent
          PROVE  \/ at'[PerformScan(x, a)] = at[PerformScan(x, a)]
                 \/ at'[PerformScan(x, a)] = "queued" /\ scan[x][a] = "pending"
      BY <2>2, <2>3, <2>4, TaskShape, TasksDiffer DEF AnswersKnown
    <3>3. QED
      BY <2>2, <3>1, <3>2 DEF AnswersKnown
  <2>9. QED
    BY <2>5, <2>6, <2>7, <2>8
<1>3. QED
  BY <1>1, <1>2 DEF UpdateStep

\* A perform_scan that is run again has a scan.
LEMMA OnceRedeliver ==
    ASSUME TypeOK, RunsKnown, NEW t \in Task, Redeliver(t), t \in PerformScanTask
    PROVE  RunsKnown'
<1> USE DEF TypeOK, RunsKnown, dbVars, taskVars, userVars
<1>1. /\ UNCHANGED <<row, scan, unread, plan>>
      /\ at[t] # "none" /\ at' = [at EXCEPT ![t] = "queued"]
      /\ outbox' = [outbox EXCEPT ![t] = {}]
      /\ redelivered' = redelivered \cup {t}
  BY DEF Redeliver, Idle, Over
<1>2. PICK x \in File, a \in Agent : t = PerformScan(x, a)
  BY DEF PerformScanTask
<1>3. /\ \A u \in Task : u # t => at'[u] = at[u]
      /\ at'[t] = "queued"
      /\ \A u \in Task : outbox'[u] = outbox[u]
  BY <1>1, <1>2 DEF PublishedOnce
<1>4. /\ t # Ingest
      /\ \A f \in Top : at'[ScanFile(f)] = at[ScanFile(f)]
  BY <1>2, <1>3, TaskShape, TasksDiffer
<1>5. IndexedOnce'
  BY <1>1, <1>3, <1>4, TaskShape DEF IndexedOnce, ValidTop
<1>6. UnscannedYet'
  <2>1. /\ \A f \in Top : Children(f)' = Children(f)
        /\ \A y : Scans(y)' = Scans(y)
    BY <1>1 DEF Children, Created, Scans
  <2>2. QED
    BY <1>1, <1>4, <2>1 DEF UnscannedYet
<1>7. PublishedOnce'
  <2>1. \A u \in Task : \A w \in outbox'[u] : at'[w] = "none"
    BY <1>1, <1>3 DEF PublishedOnce
  <2>2. QED
    BY <1>3, <2>1, TaskShape DEF PublishedOnce
<1>8. AnswersKnown'
  BY <1>1, <1>2, <1>3, TaskShape DEF AnswersKnown
<1>9. QED
  BY <1>5, <1>6, <1>7, <1>8

\* Every step does, as long as nothing but perform_scan was run again.
LEMMA OnceStep ==
    ASSUME TypeOK, RunsKnown, redelivered' \subseteq PerformScanTask, [Next]_vars
    PROVE  RunsKnown'
<1> USE DEF dbVars, taskVars, userVars
<1>0. redelivered \subseteq redelivered'
  BY RedeliveredGrows
<1>1. ASSUME NEW f \in Top, ScanFileStep(f) PROVE RunsKnown'
  BY <1>0, <1>1, OnceScanFile
<1>2. ASSUME NEW f \in File, NEW a \in Agent, PerformScanStep(f, a) PROVE RunsKnown'
  BY <1>0, <1>2, OncePerformScan
<1>3. ASSUME NEW t \in Task, UpdateStep(t) PROVE RunsKnown'
  BY <1>0, <1>3, OnceUpdate
<1>4. CASE AcceptPostscan \/ CopyCleanFiles \/ UNCHANGED vars
  BY <1>0, <1>4, QuietStep DEF AcceptPostscan, CopyCleanFiles, vars
<1>5. ASSUME NEW a \in Agent, DeactivateAgent(a) \/ DeleteAgent(a) PROVE RunsKnown'
  BY <1>0, <1>5, QuietStep DEF DeactivateAgent, DeleteAgent
<1>6. ASSUME NEW t \in Task, Redeliver(t) PROVE RunsKnown'
  BY <1>6, OnceRedeliver DEF Redeliver
<1>7. CASE IngestStep
  BY <1>0, <1>7, OnceIngest
<1>8. CASE FaultStep
  <2>1. PICK t \in Task, s \in {"refused", "failed"} : CutShort(t, s) /\ at[t] # "none"
    BY <1>8, FaultCuts DEF Updating
  <2>2. s \in Stage \ Early
    BY DEF Stage, Idle, Over, Early
  <2>3. \A u \in Task : outbox'[u] \subseteq outbox[u]
    BY <2>1 DEF CutShort, TypeOK
  <2>4. UNCHANGED <<row, scan, unread, plan>> /\ at' = [at EXCEPT ![t] = s]
    BY <2>1 DEF CutShort
  <2>5. QED
    BY <1>0, <2>1, <2>2, <2>3, <2>4, QuietStep
<1>9. QED
  BY <1>1, <1>2, <1>3, <1>4, <1>5, <1>6, <1>7, <1>8 DEF Next, WorkerStep

\* No task but perform_scan has been run again.
OnlyScansAgain == redelivered \subseteq PerformScanTask

\* The redelivery of one task is that of a task that may be redelivered.
LEMMA RedeliveredFrom ==
    /\ Redeliverable = {} => (Spec => [](redelivered = {}))
    /\ Redeliverable \subseteq {"perform_scan"} => (Spec => []OnlyScansAgain)
<1>1. Init => redelivered = {}
  BY DEF Init
<1>2. ASSUME [Next]_vars, redelivered' # redelivered
      PROVE  \E t \in Task : t.kind \in Redeliverable /\ redelivered' = redelivered \cup {t}
  BY <1>2, RedeliveredBy DEF Redeliver
<1>3. \A t \in Task : t.kind = "perform_scan" => t \in PerformScanTask
  BY DEF Task, Ingest, ScanFileTask, ScanFile
<1>4. ASSUME Redeliverable = {} PROVE Spec => [](redelivered = {})
  <2>1. redelivered = {} /\ [Next]_vars => (redelivered = {})'
    BY <1>2, <1>4
  <2>2. QED
    BY <1>1, <2>1, PTL DEF Spec
<1>5. ASSUME Redeliverable \subseteq {"perform_scan"} PROVE Spec => []OnlyScansAgain
  <2>1. redelivered = {} => OnlyScansAgain
    BY DEF OnlyScansAgain
  <2>2. OnlyScansAgain /\ [Next]_vars => OnlyScansAgain'
    BY <1>2, <1>3, <1>5 DEF OnlyScansAgain
  <2>3. QED
    BY <1>1, <2>1, <2>2, PTL DEF Spec
<1>6. QED
  BY <1>4, <1>5

\* So it is in every state, until another task is run again.
LEMMA RunsAreKnown == Spec => [](OnlyScansAgain => RunsKnown)
<1>1. Init => RunsKnown
  BY OnceInit, KnownFromOnce
<1>2. TypeOK /\ (OnlyScansAgain => RunsKnown) /\ [Next]_vars => (OnlyScansAgain => RunsKnown)'
  <2> SUFFICES ASSUME TypeOK, OnlyScansAgain => RunsKnown, [Next]_vars, OnlyScansAgain'
               PROVE  RunsKnown'
    OBVIOUS
  <2>1. OnlyScansAgain
    BY RedeliveredGrows DEF OnlyScansAgain
  <2>2. QED
    BY <2>1, OnceStep DEF OnlyScansAgain
<1>3. QED
  BY <1>1, <1>2, TypeCorrect, PTL DEF Spec

\* As long as no worker is lost, no task is published twice and no scan is
\* created or filled in twice, whatever agents and rows come and go.
THEOREM EveryTaskRunsOnce == Redeliverable = {} => (Spec => []TasksRunOnce)
<1> SUFFICES ASSUME Redeliverable = {} PROVE Spec => []TasksRunOnce
  OBVIOUS
<1>1. Spec => [](redelivered = {})
  BY RedeliveredFrom
<1>2. redelivered = {} /\ (OnlyScansAgain => RunsKnown) => TasksRunOnce
  BY KnownFromOnce DEF OnlyScansAgain
<1>3. QED
  BY <1>1, <1>2, RunsAreKnown, PTL

-----------------------------------------------------------------------------
(* A verdict "clean" is earned *)

\* The verdict "clean" on the scans of x needs every answer, and enough of them.
LEMMA CleanLeaf ==
    ASSUME TypeOK, AnsweredOnce, NEW x \in File, EvalInfected(x) = "clean"
    PROVE  EarnedClean(x)
<1> DEFINE total == Cardinality(Scans(x))
           pending == Cardinality(Pending(x))
           noResult == Cardinality(With(x, {"pending", "error"}))
           detections == Cardinality(With(x, {"infected"}))
<1>1. /\ IsFiniteSet(Scans(x)) /\ IsFiniteSet(Pending(x))
      /\ IsFiniteSet(With(x, {"pending", "error"})) /\ IsFiniteSet(With(x, {"infected"}))
  BY FS_Subset, SessionAssumption DEF Scans, Pending, With
<1>2. total \in Nat /\ pending \in Nat /\ noResult \in Nat /\ detections \in Nat
  BY <1>1, FS_CardinalityType
<1>3. /\ total # 0
      /\ ~(pending > 0)
      /\ ~(Scale * noResult >= (Scale - ValidIndex) * total)
      /\ ~(Scale * detections >= (Scale - CleanIndex) * total)
  <2> HIDE DEF total, pending, noResult, detections
  <2>1. LeafVerdict(total, pending, noResult, detections) = "clean"
    BY DEF EvalInfected, total, pending, noResult, detections
  <2>2. QED
    BY <2>1 DEF LeafVerdict
<1>4. Scans(x) # {}
  BY <1>3, FS_EmptySet
<1>5. Pending(x) = {}
  BY <1>1, <1>2, <1>3, FS_EmptySet
<1>6. row[x] = "valid"
  BY <1>4 DEF Scans, AnsweredOnce
<1>7. With(x, {"pending", "error"}) = With(x, {"error"})
  BY <1>5 DEF With, Pending
<1>8. /\ Scale * Cardinality(With(x, {"error"})) < (Scale - ValidIndex) * total
      /\ Scale * detections < (Scale - CleanIndex) * total
  <2> HIDE DEF total, detections, noResult
  <2>1. /\ Scale * noResult \in Int /\ (Scale - ValidIndex) * total \in Int
        /\ Scale * detections \in Int /\ (Scale - CleanIndex) * total \in Int
    BY <1>2, IndexAssumption
  <2>2. noResult = Cardinality(With(x, {"error"}))
    BY <1>7 DEF noResult
  <2>3. QED
    BY <1>3, <2>1, <2>2
<1>9. QED
  BY <1>4, <1>5, <1>6, <1>8 DEF EarnedClean

\* What CleanIsEarned and CopiedAreClean ask of a file.
AllEarned(f) == \A x \in Leaves(f) : EarnedClean(x)

\* update_scan_state computes "clean" only when the leaves have earned it.
LEMMA CleanVerdict ==
    ASSUME TypeOK, TasksRunOnce, NEW f \in File, "clean" \in VerdictOf(f)
    PROVE  AllEarned(f)
<1>1. CASE Children(f) = {}
  <2>1. EvalInfected(f) = "clean"
    BY <1>1 DEF VerdictOf
  <2>2. QED
    BY <1>1, <2>1, CleanLeaf DEF AllEarned, Leaves, TasksRunOnce
<1>2. CASE Children(f) # {}
  <2>1. {EvalInfected(m) : m \in Children(f)} \subseteq {"clean"}
    BY <1>2 DEF VerdictOf, ArchiveVerdicts
  <2>2. Children(f) \subseteq File
    BY DEF Children, MembersOf, File
  <2>3. \A m \in Children(f) : EarnedClean(m)
    BY <2>1, <2>2, CleanLeaf DEF TasksRunOnce
  <2>4. QED
    BY <1>2, <2>3 DEF AllEarned, Leaves
<1>3. QED
  BY <1>1, <1>2

\* A step that touches neither the row nor the scans of x.
LEMMA EarnedSame ==
    ASSUME NEW x, row'[x] = row[x], scan'[x] = scan[x], EarnedClean(x)
    PROVE  EarnedClean(x)'
<1>1. /\ Scans(x)' = Scans(x) /\ Pending(x)' = Pending(x)
      /\ With(x, {"error"})' = With(x, {"error"})
      /\ With(x, {"infected"})' = With(x, {"infected"})
  BY DEF Scans, Pending, With
<1>2. QED
  BY <1>1 DEF EarnedClean

\* What a step may do to a row and to its scans.
LEMMA RowsAndScans ==
    ASSUME TypeOK, RunsKnown, [Next]_vars
    PROVE  /\ \A x \in File : row[x] # "none" => row'[x] = row[x]
           /\ \A x \in File : Scans(x) # {} =>
                scan'[x] = scan[x] \/ \E a \in Agent : SaveResult(x, a)
           /\ \A m \in Member : row[m] = "none" /\ row'[m] # "none" =>
                at[ScanFile(ParentOf[m])] \in {"extract", "bulk"}
<1> USE DEF TypeOK, RunsKnown, dbVars, taskVars, userVars
<1>1. CASE IngestStep
  <2>1. UNCHANGED scan
    BY <1>1 DEF IngestStep, StartIngest, CountPath, CreateFile, RejectPath, EndIngest
  <2>2. UNCHANGED row \/ \E f \in unread : \E v : row' = [row EXCEPT ![f] = v]
    BY <1>1 DEF IngestStep, StartIngest, CountPath, CreateFile, RejectPath, EndIngest
  <2>3. \A f \in unread : row[f] = "none" /\ f \notin Member
    BY SessionAssumption DEF IndexedOnce
  <2>4. CASE UNCHANGED row
    BY <2>1, <2>4
  <2>5. ASSUME NEW f \in unread, NEW v, row' = [row EXCEPT ![f] = v]
        PROVE  /\ \A x \in File : row[x] # "none" => row'[x] = row[x]
               /\ \A m \in Member : row'[m] = row[m]
    BY <2>3, <2>5 DEF File
  <2>6. QED
    BY <2>1, <2>2, <2>4, <2>5
<1>2. ASSUME NEW f \in Top, ExtractRejected(f) \/ ExtractValid(f)
      PROVE  /\ UNCHANGED scan /\ at[ScanFile(f)] \in {"extract", "bulk"}
             /\ \A x \in File : row[x] # "none" => row'[x] = row[x]
             /\ \A x \in File : row'[x] # row[x] => x \in MembersOf(f)
  BY <1>2 DEF ExtractRejected, ExtractValid, Children, Created, MembersOf, File
<1>3. ASSUME NEW f \in Top, CreateScans(f)
      PROVE  /\ UNCHANGED row
             /\ \A x \in File : Scans(x) # {} => scan'[x] = scan[x]
  <2>1. PICK x \in plan[f].todo :
          scan' = [scan EXCEPT ![x] =
                    [a \in Agent |-> IF a \in AgentsListed(f) THEN "pending" ELSE @[a]]]
    BY <1>3 DEF CreateScans
  <2>2. Scans(x) = {}
    BY DEF UnscannedYet
  <2>3. QED
    BY <1>3, <2>1, <2>2 DEF CreateScans
<1>4. ASSUME NEW f \in Top, ScanFileStep(f),
             ~ExtractRejected(f), ~ExtractValid(f), ~CreateScans(f)
      PROVE  UNCHANGED <<row, scan>>
  BY <1>4 DEF ScanFileStep, StartScanFile, ReuseChildren, FailExtraction, CountAgents,
              NothingToScan, NoScannerFound, FailScans, EndScanFile
<1>5. ASSUME NEW f \in File, NEW a \in Agent, PerformScanStep(f, a)
      PROVE  /\ UNCHANGED row
             /\ \A x \in File : scan'[x] = scan[x] \/ \E b \in Agent : SaveResult(x, b)
  <2>1. CASE SaveResult(f, a)
    <3>1. \A x \in File : x # f => scan'[x] = scan[x]
      BY <2>1 DEF SaveResult
    <3>2. QED
      BY <2>1, <3>1 DEF SaveResult
  <2>2. CASE StartPerformScan(f, a) \/ LeaveScan(f, a)
    BY <2>2 DEF StartPerformScan, LeaveScan
  <2>3. QED
    BY <1>5, <2>1, <2>2 DEF PerformScanStep
<1>6. ASSUME NEW t \in Task, UpdateStep(t) PROVE UNCHANGED <<row, scan>>
  BY <1>6 DEF UpdateStep, ReadScanState, JudgeScanState, SaveScanState, SaveThen,
              FailScanState, CountFiles, SaveProgress, Publish
<1>7. CASE \/ AcceptPostscan \/ CopyCleanFiles \/ UNCHANGED vars
           \/ \E a \in Agent : DeactivateAgent(a) \/ DeleteAgent(a)
           \/ \E t \in Task : Redeliver(t)
  BY <1>7 DEF AcceptPostscan, CopyCleanFiles, DeactivateAgent, DeleteAgent, Redeliver, vars
<1>8. \A f \in Top, m \in Member : m \in MembersOf(f) => ParentOf[m] = f
  BY DEF MembersOf
<1>9. ASSUME NEW f \in Top, ScanFileStep(f)
      PROVE  /\ \A x \in File : row[x] # "none" => row'[x] = row[x]
             /\ \A x \in File : Scans(x) # {} => scan'[x] = scan[x]
             /\ \A m \in Member : row[m] = "none" /\ row'[m] # "none" =>
                  at[ScanFile(ParentOf[m])] \in {"extract", "bulk"}
  <2>1. CASE ExtractRejected(f) \/ ExtractValid(f)
    BY <1>2, <1>8, <2>1 DEF File
  <2>2. CASE CreateScans(f)
    BY <1>3, <2>2
  <2>3. CASE ~ExtractRejected(f) /\ ~ExtractValid(f) /\ ~CreateScans(f)
    BY <1>4, <1>9, <2>3
  <2>4. QED
    BY <2>1, <2>2, <2>3
<1>10. FaultStep => UNCHANGED <<row, scan>>
  BY FaultCuts DEF CutShort
<1>11. QED
  BY <1>1, <1>5, <1>6, <1>7, <1>9, <1>10 DEF Next, WorkerStep

\* A perform_scan that runs once answers a scan that is pending.
LEMMA AnswersStand ==
    ASSUME TypeOK, TasksRunOnce, [Next]_vars,
           NEW x \in File, Scans(x) # {}, Pending(x) = {}
    PROVE  scan'[x] = scan[x]
<1>1. ASSUME NEW a \in Agent, SaveResult(x, a) PROVE FALSE
  <2>1. scan[x][a] = "pending"
    BY <1>1 DEF SaveResult, TasksRunOnce, AnsweredOnce
  <2>2. QED
    BY <2>1 DEF Pending
<1>2. QED
  BY <1>1, RowsAndScans, KnownFromOnce

\* No step adds a leaf to f or takes an answer back.
LEMMA EarnedStays ==
    ASSUME TypeOK, TasksRunOnce, [Next]_vars,
           NEW f \in File, AllEarned(f)
    PROVE  AllEarned(f)'
<1>1. Children(f) \subseteq File /\ Leaves(f) \subseteq File
  BY DEF Children, MembersOf, Leaves, File
<1>2. \A x \in Leaves(f) : row[x] = "valid" /\ Scans(x) # {} /\ Pending(x) = {}
  BY DEF AllEarned, EarnedClean
<1>3. \A x \in Leaves(f) : EarnedClean(x)'
  <2> SUFFICES ASSUME NEW x \in Leaves(f) PROVE EarnedClean(x)'
    OBVIOUS
  <2>1. row'[x] = row[x] /\ scan'[x] = scan[x]
    BY <1>1, <1>2, RowsAndScans, AnswersStand, KnownFromOnce
  <2>2. QED
    BY <2>1, EarnedSame DEF AllEarned
<1>4. Children(f)' = Children(f)
  <2>1. Children(f) \subseteq Children(f)'
    <3>1. \A m \in Children(f) : m \in File /\ row[m] # "none" /\ row'[m] = row[m]
      BY <1>1, RowsAndScans, KnownFromOnce DEF Children, Created
    <3>2. QED
      BY <3>1 DEF Children, Created
  <2>2. ASSUME NEW m \in Children(f)', m \notin Children(f) PROVE FALSE
    <3>1. m \in Member /\ ParentOf[m] = f /\ row[m] = "none" /\ row'[m] # "none"
      BY <2>2 DEF Children, Created, MembersOf
    <3>2. f \in Top /\ at[ScanFile(f)] \in {"extract", "bulk"}
      BY <3>1, RowsAndScans, KnownFromOnce, SessionAssumption
    <3>3. /\ Scans(f) = {}
          /\ \A c \in Children(f) : row[c] = "rejected"
      BY <3>2, OwnedApart DEF TasksRunOnce, UnscannedYet
    <3>4. QED
      BY <1>2, <3>3 DEF Leaves
  <2>3. QED
    BY <2>1, <2>2
<1>5. QED
  BY <1>3, <1>4 DEF AllEarned, Leaves

\* The stages at which a verdict is computed and not yet saved.
Saving == {"fileSaving", "parentSaving"}

\* Only JudgeScanState brings a task to where it saves, and nothing it will
\* save is touched by the others.
LEMMA SavingStays ==
    ASSUME TypeOK, [Next]_vars, NEW t \in Task, at'[t] \in Saving
    PROVE  \/ at'[t] = at[t] /\ subject'[t] = subject[t] /\ read'[t] = read[t]
           \/ JudgeScanState(t)
<1> USE DEF TypeOK, Saving, dbVars, taskVars, userVars
<1>1. CASE IngestStep
  <2>1. PICK s \in Stage \ Saving : at' = [at EXCEPT ![Ingest] = s]
    BY <1>1 DEF IngestStep, StartIngest, CountPath, CreateFile, RejectPath, EndIngest, Start,
                Goto, Stage, Idle, Over, Updating
  <2>2. t # Ingest
    BY <2>1
  <2>3. at'[t] = at[t] /\ subject'[t] = subject[t] /\ read' = read
    BY <1>1, <2>1, <2>2
       DEF IngestStep, StartIngest, CountPath, CreateFile, RejectPath, EndIngest
  <2>4. QED
    BY <2>3
<1>2. ASSUME NEW f \in Top, ScanFileStep(f)
      PROVE  at'[t] = at[t] /\ subject'[t] = subject[t] /\ read'[t] = read[t]
  <2>1. PICK s \in Stage \ Saving : at' = [at EXCEPT ![ScanFile(f)] = s]
    BY <1>2 DEF ScanFileStep, StartScanFile, ReuseChildren, FailExtraction, ExtractRejected,
         ExtractValid, CountAgents, NothingToScan, NoScannerFound, CreateScans, FailScans,
         EndScanFile, Start, Goto, Stage, Idle, Over, Updating
  <2>2. t # ScanFile(f)
    BY <2>1
  <2>3. read' = read /\ (UNCHANGED subject \/ \E x : subject' = [subject EXCEPT ![ScanFile(f)] = x])
    BY <1>2 DEF ScanFileStep, StartScanFile, ReuseChildren, FailExtraction, ExtractRejected,
         ExtractValid, CountAgents, NothingToScan, NoScannerFound, CreateScans, FailScans,
         EndScanFile
  <2>4. QED
    BY <2>1, <2>2, <2>3
<1>3. ASSUME NEW f \in File, NEW a \in Agent, PerformScanStep(f, a)
      PROVE  at'[t] = at[t] /\ subject'[t] = subject[t] /\ read'[t] = read[t]
  BY <1>3 DEF PerformScanStep, StartPerformScan, SaveResult, LeaveScan, Start, Goto
<1>4. ASSUME NEW u \in Task, UpdateStep(u), ~JudgeScanState(u)
      PROVE  at'[t] = at[t] /\ subject'[t] = subject[t] /\ read'[t] = read[t]
  <2>1. CASE ReadScanState(u)
    BY <2>1 DEF ReadScanState, Goto
  <2>2. CASE SaveScanState(u)
    BY <2>2 DEF SaveScanState, SaveThen, Goto
  <2>3. CASE FailScanState(u)
    BY <2>3 DEF FailScanState, Goto
  <2>4. CASE CountFiles(u) \/ SaveProgress(u)
    BY <2>4, ResumeStage DEF CountFiles, SaveProgress, Goto
  <2>5. CASE Publish(u)
    BY <2>5, ResumeStage DEF Publish
  <2>6. QED
    BY <1>4, <2>1, <2>2, <2>3, <2>4, <2>5 DEF UpdateStep
<1>5. ASSUME NEW u \in Task, JudgeScanState(u), u # t
      PROVE  at'[t] = at[t] /\ subject'[t] = subject[t] /\ read'[t] = read[t]
  BY <1>5 DEF JudgeScanState, Goto
<1>6. CASE \/ AcceptPostscan \/ CopyCleanFiles \/ UNCHANGED vars
           \/ \E a \in Agent : DeactivateAgent(a) \/ DeleteAgent(a)
  BY <1>6 DEF AcceptPostscan, CopyCleanFiles, DeactivateAgent, DeleteAgent, vars
<1>7. ASSUME NEW u \in Task, Redeliver(u)
      PROVE  at'[t] = at[t] /\ subject'[t] = subject[t] /\ read'[t] = read[t]
  BY <1>7 DEF Redeliver
<1>8. CASE FaultStep
  BY <1>8, FaultCuts DEF CutShort
<1>9. QED
  BY <1>1, <1>2, <1>3, <1>4, <1>5, <1>6, <1>7, <1>8 DEF Next, WorkerStep

\* A verdict "clean" about to be saved, one that is stored, and the copy on the
\* user's device.
JudgedClean ==
    \A t \in Task :
      at[t] \in Saving /\ read[t].infected = "clean" => AllEarned(Target(t))

VerdictsEarned == JudgedClean /\ CleanIsEarned /\ CopiedAreClean

\* Only a save writes a verdict, and the one its task has judged.
LEMMA VerdictFrom ==
    ASSUME TypeOK, [Next]_vars, NEW f \in File, infected'[f] # infected[f]
    PROVE  \E t \in Task : SaveScanState(t) /\ Target(t) = f /\ infected'[f] = read[t].infected
<1> USE DEF TypeOK, dbVars, taskVars, userVars
<1>1. /\ ~IngestStep
      /\ \A g \in Top : ~ScanFileStep(g)
      /\ \A x \in File, a \in Agent : ~PerformScanStep(x, a)
  BY DEF IngestStep, StartIngest, CountPath, CreateFile, RejectPath, EndIngest,
     ScanFileStep, StartScanFile, ReuseChildren, FailExtraction, ExtractRejected,
     ExtractValid, CountAgents, NothingToScan, NoScannerFound, CreateScans, FailScans,
     EndScanFile, PerformScanStep, StartPerformScan, SaveResult, LeaveScan
<1>2. ASSUME NEW t \in Task, UpdateStep(t)
      PROVE  SaveScanState(t) /\ Target(t) = f /\ infected'[f] = read[t].infected
  <2>1. SaveScanState(t)
    BY <1>2 DEF UpdateStep, ReadScanState, JudgeScanState, FailScanState, CountFiles,
       SaveProgress, Publish
  <2>2. infected' = [infected EXCEPT ![Target(t)] = read[t].infected]
    BY <2>1 DEF SaveScanState, SaveThen
  <2>3. QED
    BY <2>1, <2>2
<1>3. /\ ~AcceptPostscan /\ ~CopyCleanFiles /\ ~UNCHANGED vars
      /\ \A a \in Agent : ~DeactivateAgent(a) /\ ~DeleteAgent(a)
      /\ \A t \in Task : ~Redeliver(t)
  BY DEF AcceptPostscan, CopyCleanFiles, DeactivateAgent, DeleteAgent, Redeliver, vars
<1>4. ~FaultStep
  BY FaultCuts DEF CutShort
<1>5. QED
  BY <1>1, <1>2, <1>3, <1>4 DEF Next, WorkerStep

\* Only a save, and of a verdict judged "clean", makes a file clean.
LEMMA CleanFrom ==
    ASSUME TypeOK, [Next]_vars, NEW f \in File, infected'[f] = "clean", infected[f] # "clean"
    PROVE  \E t \in Task : at[t] \in Saving /\ read[t].infected = "clean" /\ Target(t) = f
BY VerdictFrom DEF SaveScanState, SaveThen, Saving

\* Every step keeps the verdicts earned.
LEMMA EarnedStep ==
    ASSUME TypeOK, SubjectOK, TasksRunOnce, VerdictsEarned, Redeliverable = {}, [Next]_vars
    PROVE  VerdictsEarned'
<1> USE DEF TypeOK, dbVars, taskVars, userVars
<1>1. \A f \in File : AllEarned(f) => AllEarned(f)'
  BY EarnedStays
<1>2. JudgedClean'
  <2> SUFFICES ASSUME NEW t \in Task, at'[t] \in Saving, read'[t].infected = "clean"
               PROVE  AllEarned(Target(t))'
    BY DEF JudgedClean
  <2>1. CASE at'[t] = at[t] /\ subject'[t] = subject[t] /\ read'[t] = read[t]
    <3>1. Target(t)' = Target(t) /\ Target(t) \in File
      BY <2>1, TargetIsFile DEF Target, Saving, LockingFile
    <3>2. AllEarned(Target(t))
      BY <2>1 DEF VerdictsEarned, JudgedClean
    <3>3. QED
      BY <1>1, <3>1, <3>2
  <2>2. CASE JudgeScanState(t)
    <3>1. Target(t)' = Target(t) /\ Target(t) \in File
      BY <2>2, TargetIsFile DEF JudgeScanState, Goto, Target, LockingFile
    <3>2. "clean" \in VerdictOf(Target(t))
      BY <2>2 DEF JudgeScanState, Reading
    <3>3. AllEarned(Target(t))
      BY <3>1, <3>2, CleanVerdict
    <3>4. QED
      BY <1>1, <3>1, <3>3
  <2>3. QED
    BY <2>1, <2>2, SavingStays
<1>3. CleanIsEarned'
  <2> SUFFICES ASSUME NEW f \in File, infected'[f] = "clean" PROVE AllEarned(f)'
    BY DEF CleanIsEarned, AllEarned
  <2>1. CASE infected[f] = "clean"
    BY <1>1, <2>1 DEF VerdictsEarned, CleanIsEarned, AllEarned
  <2>2. CASE infected[f] # "clean"
    BY <1>1, <2>2, CleanFrom DEF VerdictsEarned, JudgedClean
  <2>3. QED
    BY <2>1, <2>2
<1>4. CopiedAreClean'
  <2>1. CASE UNCHANGED copied
    BY <1>1, <2>1 DEF VerdictsEarned, CopiedAreClean, AllEarned, File
  <2>2. CASE CopyCleanFiles
    <3>1. \A f \in copied' : f \in File /\ infected[f] = "clean"
      BY <2>2 DEF CopyCleanFiles, File
    <3>2. QED
      BY <1>1, <3>1 DEF VerdictsEarned, CleanIsEarned, CopiedAreClean, AllEarned
  <2>3. UNCHANGED copied \/ CopyCleanFiles
    <3>1. IngestStep => UNCHANGED copied
      BY DEF IngestStep, StartIngest, CountPath, CreateFile, RejectPath, EndIngest
    <3>2. \A g \in Top : ScanFileStep(g) => UNCHANGED copied
      BY DEF ScanFileStep, StartScanFile, ReuseChildren, FailExtraction,
         ExtractRejected, ExtractValid, CountAgents, NothingToScan, NoScannerFound,
         CreateScans, FailScans, EndScanFile
    <3>3. \A g \in File, a \in Agent : PerformScanStep(g, a) => UNCHANGED copied
      BY DEF PerformScanStep, StartPerformScan, SaveResult, LeaveScan
    <3>4. \A t \in Task : UpdateStep(t) => UNCHANGED copied
      BY DEF UpdateStep, ReadScanState, JudgeScanState, SaveScanState, SaveThen,
         FailScanState, CountFiles, SaveProgress, Publish
    <3>5. /\ AcceptPostscan \/ UNCHANGED vars => UNCHANGED copied
          /\ \A a \in Agent : DeactivateAgent(a) \/ DeleteAgent(a) => UNCHANGED copied
          /\ \A t \in Task : Redeliver(t) => UNCHANGED copied
      BY DEF AcceptPostscan, DeactivateAgent, DeleteAgent, Redeliver, vars
    <3>6. FaultStep => UNCHANGED copied
      BY FaultCuts DEF CutShort
    <3>7. QED
      BY <3>1, <3>2, <3>3, <3>4, <3>5, <3>6 DEF Next, WorkerStep
  <2>4. QED
    BY <2>1, <2>2, <2>3
<1>5. QED
  BY <1>2, <1>3, <1>4 DEF VerdictsEarned

\* So they are earned in every state.
LEMMA AlwaysEarned ==
    "rescan" \notin Source /\ Redeliverable = {} => (Spec => []VerdictsEarned)
<1> SUFFICES ASSUME "rescan" \notin Source, Redeliverable = {} PROVE Spec => []VerdictsEarned
  OBVIOUS
<1>1. Init => VerdictsEarned
  <2> SUFFICES ASSUME Init PROVE VerdictsEarned
    OBVIOUS
  <2>1. infected = [f \in File |-> "unknown"]
    BY DEF Init, FromDisk, FromRequest, NothingRead
  <2>2. QED
    BY <2>1 DEF Init, VerdictsEarned, JudgedClean, CleanIsEarned, CopiedAreClean, Saving, NothingRead
<1>2. /\ TypeOK /\ SubjectOK /\ TasksRunOnce /\ VerdictsEarned /\ [Next]_vars
      => VerdictsEarned'
  BY EarnedStep
<1>3. QED
  BY <1>1, <1>2, TypesAndSubjects, EveryTaskRunsOnce, PTL DEF Spec

\* Outside a re-scan, and as long as no worker is lost, a verdict "clean" is
\* backed by the finished scans of the file, or of every member of the archive.
THEOREM CleanVerdictsAreEarned ==
    "rescan" \notin Source /\ Redeliverable = {} => (Spec => []CleanIsEarned)
<1>1. VerdictsEarned => CleanIsEarned
  BY DEF VerdictsEarned
<1>2. QED
  BY <1>1, AlwaysEarned, PTL

\* Under the same assumptions, so is every file postscan_copy has copied, even
\* when it copies before the session is scanned to its end.
THEOREM CopiesAreEarned ==
    "rescan" \notin Source /\ Redeliverable = {} => (Spec => []CopiedAreClean)
<1>1. VerdictsEarned => CopiedAreClean
  BY DEF VerdictsEarned
<1>2. QED
  BY <1>1, AlwaysEarned, PTL

-----------------------------------------------------------------------------
(* A verdict "clean" has ground, also when scan_file is run again *)

\* What scan_file has still to scan has a row of its own and was accepted.
TodoIsValid == \A f \in Top : \A x \in plan[f].todo : x \in Owned(f) /\ row[x] = "valid"

\* Agents only ever go away, so that a later run of scan_file lists no agent that an
\* earlier one has not: a file that has scans has one of every agent it would list.
ListsCover ==
    \A f \in Top :
      /\ ActiveAgents \subseteq AgentsListed(f)
      /\ \A x \in Owned(f) : Scans(x) # {} => AgentsListed(f) \subseteq Scans(x)

\* What is left of TasksRunOnce when scan_file may be run again.
AnsweredStill == IndexedOnce /\ PublishedOnce /\ AnsweredOnce /\ TodoIsValid /\ ListsCover

\* A step that leaves the agents, the lists and the scans alone.
LEMMA ListsSame ==
    ASSUME ListsCover, UNCHANGED agent, UNCHANGED plan, \A x \in File : Scans(x)' = Scans(x)
    PROVE  ListsCover'
<1>1. ActiveAgents' = ActiveAgents /\ \A f : AgentsListed(f)' = AgentsListed(f)
  BY DEF ActiveAgents, AgentsListed
<1>2. \A f \in Top : \A x \in Owned(f) : Scans(x)' = Scans(x)
  BY OwnedApart
<1>3. QED
  BY <1>1, <1>2 DEF ListsCover, Owned

\* A step that creates no scan, answers none, takes no row back, and moves one task on, or
\* scan_file back.
LEMMA StillQuiet ==
    ASSUME TypeOK, AnsweredStill,
           UNCHANGED <<scan, unread>>,
           \A x \in File : row[x] # "none" => row'[x] = row[x],
           \A f \in Top : row'[f] = row[f],
           \A t \in Task : outbox'[t] \subseteq outbox[t],
           ActiveAgents' \subseteq ActiveAgents,
           \A f \in Top :
             /\ plan'[f].todo \subseteq {x \in Owned(f) : row'[x] = "valid"}
             /\ \/ ~plan'[f].listed
                \/ plan'[f].listed = plan[f].listed /\ plan'[f].agents = plan[f].agents,
           \/ UNCHANGED at
           \/ \E t \in Task, s \in Stage : /\ at[t] # "none" /\ at' = [at EXCEPT ![t] = s]
                               /\ (s \notin {"none", "queued", "scanning"} \/ t \in ScanFileTask)
    PROVE  AnsweredStill'
<1> USE DEF TypeOK, AnsweredStill
<1>1. /\ \A t \in Task : at[t] = "none" => at'[t] = "none"
      /\ \A t \in Task : at'[t] # "none" => at[t] # "none" \/ t \in ScanFileTask
      /\ at'[Ingest] = "queued" => at[Ingest] = "queued"
      /\ \A f \in Top : at'[ScanFile(f)] # "none" => at[ScanFile(f)] # "none"
      /\ \A x \in File, a \in Agent :
           /\ at'[PerformScan(x, a)] # "none" => at[PerformScan(x, a)] # "none"
           /\ at'[PerformScan(x, a)] \in {"none", "queued", "scanning"} =>
                at[PerformScan(x, a)] \in {"none", "queued", "scanning"}
  <2>1. CASE UNCHANGED at
    BY <2>1
  <2>2. CASE at' # at
    <3>1. PICK t \in Task, s \in Stage :
            /\ at[t] # "none" /\ at' = [at EXCEPT ![t] = s]
            /\ (s \notin {"none", "queued", "scanning"} \/ t \in ScanFileTask)
      BY <2>2
    <3>2. \A u \in Task : u # t => at'[u] = at[u]
      BY <3>1
    <3>3. Ingest \notin ScanFileTask
          /\ \A x \in File, a \in Agent : PerformScan(x, a) \notin ScanFileTask
      BY TaskShape, TasksDiffer DEF ScanFileTask
    <3>4. QED
      BY <3>1, <3>2, <3>3, TaskShape
  <2>3. QED
    BY <2>1, <2>2
<1>2. IndexedOnce'
  <2>1. ValidTop' = ValidTop
    BY DEF ValidTop
  <2>2. outbox'[Ingest] \subseteq {ScanFile(f) : f \in ValidTop'}
    BY <2>1, TaskShape DEF IndexedOnce
  <2>3. \A f \in Top : at'[Ingest] = "queued" \/ f \in unread' => row'[f] = "none"
    BY <1>1 DEF IndexedOnce
  <2>4. \A f \in Top : at'[ScanFile(f)] # "none" => row'[f] = "valid"
    BY <1>1 DEF IndexedOnce
  <2>5. QED
    BY <2>2, <2>3, <2>4 DEF IndexedOnce
<1>3. PublishedOnce'
  <2>1. \A t \in Task : \A u \in outbox'[t] : at'[u] = "none"
    BY <1>1 DEF PublishedOnce
  <2>2. QED
    BY <2>1, TaskShape DEF PublishedOnce
<1>4. AnsweredOnce'
  <2>1. \A t \in Task, x \in File, a \in Agent :
          PerformScan(x, a) \in outbox'[t] => scan'[x][a] = "pending"
    BY DEF AnsweredOnce
  <2>2. \A x \in File, a \in Agent :
         /\ at'[PerformScan(x, a)] # "none" => scan'[x][a] # "none"
         /\ at'[PerformScan(x, a)] \in {"none", "queued", "scanning"} =>
              scan'[x][a] \in {"none", "pending"}
         /\ scan'[x][a] # "none" => row'[x] = "valid"
    BY <1>1 DEF AnsweredOnce
  <2>3. QED
    BY <2>1, <2>2 DEF AnsweredOnce
<1>5. TodoIsValid'
  BY DEF TodoIsValid, Owned
<1>6. ListsCover'
  <2> SUFFICES ASSUME NEW f \in Top
               PROVE  /\ (ActiveAgents \subseteq AgentsListed(f))'
                      /\ \A x \in Owned(f) :
                           Scans(x)' # {} => AgentsListed(f)' \subseteq Scans(x)'
    BY DEF ListsCover, Owned
  <2>1. \A x : Scans(x)' = Scans(x)
    BY DEF Scans
  <2>2. \/ AgentsListed(f)' = ActiveAgents'
        \/ plan'[f].listed /\ plan[f].listed /\ AgentsListed(f)' = AgentsListed(f)
    BY DEF AgentsListed
  <2>3. AgentsListed(f)' \subseteq AgentsListed(f)
    BY <2>2 DEF ListsCover
  <2>4. (ActiveAgents \subseteq AgentsListed(f))'
    BY <2>2 DEF ListsCover
  <2>5. QED
    BY <2>1, <2>3, <2>4 DEF ListsCover
<1>7. QED
  BY <1>2, <1>3, <1>4, <1>5, <1>6

\* No scan has been created at first.
LEMMA StillInit == Init => AnsweredStill
<1> SUFFICES ASSUME Init PROVE AnsweredStill
  OBVIOUS
<1>1. TasksRunOnce
  BY OnceInit
<1>2. TodoIsValid
  BY DEF Init, TodoIsValid, NoPlan
<1>3. ListsCover
  <2>1. \A x \in File : Scans(x) = {}
    BY DEF Init, Scans
  <2>2. \A f \in Top : AgentsListed(f) = ActiveAgents
    BY DEF Init, NoPlan, AgentsListed
  <2>3. QED
    BY <2>1, <2>2, OwnedApart DEF ListsCover
<1>4. QED
  BY <1>1, <1>2, <1>3 DEF AnsweredStill, TasksRunOnce

\* The task that indexes creates rows only, each once.
LEMMA StillIngest == ASSUME TypeOK, AnsweredStill, IngestStep PROVE AnsweredStill'
<1> USE DEF TypeOK, AnsweredStill, dbVars, taskVars, userVars
<1>0. /\ \A f \in Top : plan[f].todo \subseteq {x \in Owned(f) : row[x] = "valid"}
      /\ UNCHANGED <<scan, plan, agent>>
      /\ \A t \in Task : t # Ingest => outbox'[t] = outbox[t]
  BY DEF TodoIsValid, IngestStep, StartIngest, CountPath, CreateFile, RejectPath, EndIngest
<1>00. /\ ActiveAgents' = ActiveAgents /\ \A x : Scans(x)' = Scans(x)
       /\ \A f : AgentsListed(f)' = AgentsListed(f)
  BY <1>0 DEF ActiveAgents, Scans, AgentsListed
<1>1. CASE StartIngest
  <2>1. PICK s \in {"next", "done"} :
          at[Ingest] = "queued" /\ at' = [at EXCEPT ![Ingest] = s]
    BY <1>1 DEF StartIngest, Start
  <2>2. /\ IndexedOnce'
        /\ PublishedOnce'
    <3>1. \A t \in Task : \A u \in outbox[t] : at'[u] = "none"
      BY <2>1 DEF PublishedOnce
    <3>2. PublishedOnce'
      BY <1>1, <3>1 DEF StartIngest, PublishedOnce
    <3>3. IndexedOnce'
      BY <1>1, <2>1, TaskShape, TasksDiffer DEF StartIngest, IndexedOnce, ValidTop
    <3>4. QED
      BY <3>2, <3>3
  <2>3. AnsweredOnce'
    BY <1>1, <2>1, TaskShape, TasksDiffer DEF StartIngest, AnsweredOnce
  <2>4. TodoIsValid' /\ ListsCover'
    BY <1>0, <1>00, <1>1 DEF StartIngest, TodoIsValid, ListsCover, Owned
  <2>5. QED
    BY <2>2, <2>3, <2>4
<1>2. CASE CountPath \/ EndIngest
  <2>1. PICK s \in {"create", "done"} : at[Ingest] = "next" /\ at' = [at EXCEPT ![Ingest] = s]
    BY <1>2 DEF CountPath, EndIngest, Goto
  <2>2. s \in Stage /\ s \notin {"none", "queued", "scanning"}
    BY DEF Stage, Idle, Over, Updating
  <2>3. UNCHANGED <<row, scan, unread, outbox>>
    BY <1>2 DEF CountPath, EndIngest
  <2>4. QED
    BY <1>0, <1>00, <2>1, <2>2, <2>3, StillQuiet, TaskShape
<1>3. CASE CreateFile \/ RejectPath
  <2>1. PICK f \in unread, v \in {"valid", "rejected"}, s \in {"file", "session"} :
          /\ unread' = unread \ {f}
          /\ row' = [row EXCEPT ![f] = v]
          /\ at[Ingest] = "create" /\ at' = [at EXCEPT ![Ingest] = s]
          /\ \/ v = "valid" /\ outbox' = [outbox EXCEPT ![Ingest] = {ScanFile(f)}]
             \/ v = "rejected" /\ UNCHANGED outbox
    BY <1>3 DEF CreateFile, RejectPath, Goto
  <2>2. /\ f \in Top /\ f \in File /\ row[f] = "none" /\ at[ScanFile(f)] = "none"
        /\ ScanFile(f) \in Task
    BY TaskShape DEF IndexedOnce, File
  <2>3. \A x \in File : row[x] # "none" => row'[x] = row[x]
    BY <2>1, <2>2
  <2>4. IndexedOnce'
    <3>1. \A g \in Top : at'[Ingest] = "queued" \/ g \in unread' => row'[g] = "none"
      BY <2>1, <2>2, TaskShape DEF IndexedOnce
    <3>2. \A g \in Top : at'[ScanFile(g)] # "none" => row'[g] = "valid"
      BY <2>1, <2>3, TaskShape, TasksDiffer DEF IndexedOnce, File
    <3>3. outbox'[Ingest] \subseteq {ScanFile(g) : g \in ValidTop'}
      <4>1. \A g \in ValidTop : g \in ValidTop'
        BY <2>3 DEF ValidTop, File
      <4>2. v = "valid" => f \in ValidTop'
        BY <2>1, <2>2 DEF ValidTop
      <4>3. QED
        BY <2>1, <4>1, <4>2, TaskShape DEF IndexedOnce
    <3>4. QED
      BY <3>1, <3>2, <3>3 DEF IndexedOnce
  <2>5. PublishedOnce'
    <3>1. \A t \in Task : \A u \in outbox'[t] : at'[u] = "none"
      <4>1. \A t \in Task : \A u \in outbox[t] : at[u] = "none" /\ u # Ingest
        BY <2>1 DEF PublishedOnce
      <4>2. \A t \in Task : \A u \in outbox'[t] : u \in outbox[t] \/ u = ScanFile(f)
        BY <2>1
      <4>3. \A u \in Task : u # Ingest => at'[u] = at[u]
        BY <2>1
      <4>4. ScanFile(f) # Ingest
        BY <2>2, TasksDiffer
      <4>5. QED
        BY <2>2, <4>1, <4>2, <4>3, <4>4
    <3>2. QED
      BY <1>0, <3>1, TaskShape, TasksDiffer DEF PublishedOnce
  <2>6. AnsweredOnce'
    <3>1. \A x \in File, a \in Agent : at'[PerformScan(x, a)] = at[PerformScan(x, a)]
      BY <2>1, TaskShape, TasksDiffer
    <3>2. \A t \in Task, x \in File, a \in Agent :
            PerformScan(x, a) \in outbox'[t] => PerformScan(x, a) \in outbox[t]
      <4>1. \A t \in Task : \A u \in outbox'[t] : u \in outbox[t] \/ u = ScanFile(f)
        BY <2>1
      <4>2. QED
        BY <2>2, <4>1, TasksDiffer
    <3>3. \A x \in File, a \in Agent : scan[x][a] # "none" => row'[x] = "valid"
      BY <2>3 DEF AnsweredOnce
    <3>4. QED
      BY <1>0, <3>1, <3>2, <3>3 DEF AnsweredOnce
  <2>7. TodoIsValid'
    BY <1>0, <2>3, OwnedApart DEF TodoIsValid, Owned
  <2>8. ListsCover'
    BY <1>0, <1>00 DEF ListsCover, Owned
  <2>9. QED
    BY <2>4, <2>5, <2>6, <2>7, <2>8
<1>4. QED
  BY <1>1, <1>2, <1>3 DEF IngestStep

\* scan_file without the creation of scans.
LEMMA StillScanFile ==
    ASSUME TypeOK, AnsweredStill, NEW f \in Top, ScanFileStep(f), ~CreateScans(f)
    PROVE  AnsweredStill'
<1> DEFINE t == ScanFile(f)
<1> USE DEF TypeOK, AnsweredStill, dbVars, taskVars, userVars
<1>0. /\ t \in Task /\ t \in ScanFileTask /\ f \in Owned(f) /\ f \in File
      /\ \A g \in Top : plan[g].todo \subseteq {x \in Owned(g) : row[x] = "valid"}
  BY TaskShape, OwnedApart DEF TodoIsValid, ScanFileTask, File
<1>1. /\ UNCHANGED <<scan, unread, outbox, agent>>
      /\ \E s \in Stage : at[t] # "none" /\ at' = [at EXCEPT ![t] = s]
  BY DEF ScanFileStep, StartScanFile, ReuseChildren, FailExtraction, ExtractRejected,
     ExtractValid, CountAgents, NothingToScan, NoScannerFound, FailScans, EndScanFile, Start,
     Goto, Stage, Idle, Over, Updating
<1>2. row[f] = "valid"
  BY <1>1 DEF IndexedOnce
<1>3. /\ \A x \in File : row[x] # "none" => row'[x] = row[x]
      /\ \A g \in Top : row'[g] = row[g]
  <2>1. CASE ExtractRejected(f) \/ ExtractValid(f)
    <3>1. \A x \in File : x \notin Children(f) /\ row'[x] # row[x] =>
             x \in MembersOf(f) /\ row[x] = "none"
      BY <2>1 DEF ExtractRejected, ExtractValid, Children, Created, MembersOf
    <3>2. \A x \in Children(f) : row'[x] = row[x]
      BY <2>1 DEF ExtractRejected, ExtractValid, Children, MembersOf, File
    <3>3. QED
      BY <3>1, <3>2, OwnedApart DEF File
  <2>2. CASE UNCHANGED row
    BY <2>2
  <2>3. QED
    BY <2>1, <2>2 DEF ScanFileStep, StartScanFile, ReuseChildren, FailExtraction,
       CountAgents, NothingToScan, NoScannerFound, FailScans, EndScanFile
<1>4. WithoutChildren(f).todo \subseteq {f} /\ WithoutChildren(f).listed = plan[f].listed
      /\ WithoutChildren(f).agents = plan[f].agents
  BY DEF WithoutChildren, Plan
<1>5. \A g \in Top \ {f} : plan'[g] = plan[g]
  BY DEF ScanFileStep, StartScanFile, ReuseChildren, FailExtraction, ExtractRejected,
     ExtractValid, CountAgents, NothingToScan, NoScannerFound, FailScans, EndScanFile
<1>6. /\ plan'[f].todo \subseteq {x \in Owned(f) : row'[x] = "valid"}
      /\ \/ ~plan'[f].listed
         \/ plan'[f].listed = plan[f].listed /\ plan'[f].agents = plan[f].agents
  <2>0. plan[f] \in Plan
    OBVIOUS
  <2>1. CASE StartScanFile(f)
    <3>1. /\ plan'[f].todo \subseteq {f} /\ ~plan'[f].listed
      BY <2>1 DEF StartScanFile, NoPlan
    <3>2. QED
      BY <1>0, <1>2, <1>3, <3>1
  <2>2. CASE ReuseChildren(f)
    <3>1. /\ plan'[f].todo = ValidChildren(f) /\ UNCHANGED row
          /\ plan'[f].listed = plan[f].listed /\ plan'[f].agents = plan[f].agents
      BY <2>0, <2>2 DEF ReuseChildren, Plan
    <3>2. QED
      BY <3>1, OwnedApart DEF ValidChildren, Children
  <2>3. CASE FailExtraction(f)
    <3>1. plan'[f] = WithoutChildren(f) /\ UNCHANGED row
      BY <2>3 DEF FailExtraction
    <3>2. QED
      BY <1>0, <1>2, <1>4, <3>1
  <2>4. CASE ExtractRejected(f)
    BY <1>0, <1>3, <2>4, OwnedApart DEF ExtractRejected
  <2>5. CASE ExtractValid(f)
    <3>1. CASE {m \in MembersOf(f) : ~Created(m)} = {}
      <4>1. plan'[f] = WithoutChildren(f)
        BY <2>5, <3>1 DEF ExtractValid
      <4>2. QED
        BY <1>0, <1>2, <1>3, <1>4, <4>1
    <3>2. CASE {m \in MembersOf(f) : ~Created(m)} # {}
      <4>1. /\ plan'[f].todo = {m \in MembersOf(f) : ~Created(m)}
            /\ plan'[f].listed = plan[f].listed /\ plan'[f].agents = plan[f].agents
        BY <2>0, <2>5, <3>2 DEF ExtractValid, Plan
      <4>2. \A m \in MembersOf(f) : ~Created(m) => row'[m] = "valid" /\ m \in Owned(f)
        BY <2>5, OwnedApart DEF ExtractValid, File
      <4>3. QED
        BY <4>1, <4>2
    <3>3. QED
      BY <3>1, <3>2
  <2>6. CASE CountAgents(f) \/ NothingToScan(f) \/ NoScannerFound(f) \/ FailScans(f)
             \/ EndScanFile(f)
    <3>1. /\ plan'[f].todo \subseteq plan[f].todo /\ UNCHANGED row
          /\ plan'[f].listed = plan[f].listed /\ plan'[f].agents = plan[f].agents
      BY <2>0, <2>6
         DEF CountAgents, NothingToScan, NoScannerFound, FailScans, EndScanFile, Plan
    <3>2. QED
      BY <1>0, <3>1
  <2>7. QED
    BY <2>1, <2>2, <2>3, <2>4, <2>5, <2>6 DEF ScanFileStep
<1>7. \A g \in Top :
        /\ plan'[g].todo \subseteq {x \in Owned(g) : row'[x] = "valid"}
        /\ \/ ~plan'[g].listed
           \/ plan'[g].listed = plan[g].listed /\ plan'[g].agents = plan[g].agents
  <2>1. ASSUME NEW g \in Top \ {f}
        PROVE  plan'[g].todo \subseteq {x \in Owned(g) : row'[x] = "valid"}
    BY <1>0, <1>3, <1>5, OwnedApart
  <2>2. QED
    BY <1>5, <1>6, <2>1
<1>8. ActiveAgents' \subseteq ActiveAgents
  BY <1>1 DEF ActiveAgents
<1>9. \A u \in Task : outbox'[u] \subseteq outbox[u]
  BY <1>1
<1>10. \E u \in Task, s \in Stage : /\ at[u] # "none" /\ at' = [at EXCEPT ![u] = s]
                                    /\ (s \notin {"none", "queued", "scanning"} \/ u \in ScanFileTask)
  BY <1>0, <1>1
<1> HIDE DEF t
<1>11. QED
  BY <1>1, <1>3, <1>7, <1>8, <1>9, <1>10, StillQuiet

\* The scans of a file are created where there are none of the listed agents: with one of
\* these the insert fails, and without agents nothing is inserted.
LEMMA StillCreate ==
    ASSUME TypeOK, AnsweredStill, NEW f \in Top, CreateScans(f)
    PROVE  /\ AnsweredStill'
           /\ \A y \in File : Scans(y) # {} => scan'[y] = scan[y]
<1> DEFINE t == ScanFile(f)
<1> USE DEF TypeOK, AnsweredStill, dbVars, taskVars, userVars
<1>1. PICK x \in plan[f].todo :
        /\ CanCreateScans(f, x)
        /\ scan' = [scan EXCEPT ![x] =
                      [a \in Agent |-> IF a \in AgentsListed(f) THEN "pending" ELSE @[a]]]
        /\ outbox' = [outbox EXCEPT ![t] = {PerformScan(x, a) : a \in AgentsListed(f)}]
        /\ plan' = [plan EXCEPT ![f].todo = @ \ {x}, ![f].listed = TRUE,
                                ![f].agents = AgentsListed(f)]
  BY DEF CreateScans
<1>2. /\ x \in Owned(f) /\ x \in File /\ row[x] = "valid"
      /\ t \in Task /\ t \in ScanFileTask /\ plan[f] \in Plan
  BY TaskShape, OwnedApart DEF TodoIsValid, ScanFileTask
<1>3. /\ at[t] = "loop" /\ at' = [at EXCEPT ![t] = "file"]
      /\ UNCHANGED <<row, unread, agent>>
  BY DEF CreateScans, Goto
<1>4. AgentsListed(f) \subseteq Agent
  BY <1>2 DEF AgentsListed, ActiveAgents, Plan
<1>5. \A a \in AgentsListed(f) : scan[x][a] = "none" /\ at[PerformScan(x, a)] = "none"
  BY <1>1, <1>2, <1>4 DEF CanCreateScans, AnsweredOnce
<1>6. /\ \A y \in File \ {x} : scan'[y] = scan[y]
      /\ \A a \in Agent : scan'[x][a] = IF a \in AgentsListed(f) THEN "pending" ELSE scan[x][a]
  BY <1>1, <1>2
<1>7. \A y \in File : Scans(y) # {} => scan'[y] = scan[y]
  <2>1. ASSUME Scans(x) # {} PROVE scan'[x] = scan[x]
    <3>1. AgentsListed(f) \subseteq Scans(x)
      BY <1>2, <2>1 DEF ListsCover
    <3>2. AgentsListed(f) = {}
      BY <1>5, <3>1 DEF Scans
    <3>3. scan'[x] = [a \in Agent |-> scan[x][a]]
      BY <1>1, <1>2, <3>2
    <3>4. QED
      BY <1>2, <3>3
  <2>2. QED
    BY <1>6, <2>1
<1>8. IndexedOnce'
  BY <1>1, <1>2, <1>3, TaskShape, TasksDiffer DEF IndexedOnce, ValidTop
<1>9. PublishedOnce'
  <2>1. \A u \in Task : at[u] = "none" => at'[u] = "none"
    BY <1>3
  <2>2. \A u \in outbox'[t] : at'[u] = "none"
    BY <1>1, <1>2, <1>5, <2>1, <1>4, TaskShape
  <2>3. \A v \in Task : \A u \in outbox'[v] : at'[u] = "none"
    BY <1>1, <2>1, <2>2 DEF PublishedOnce
  <2>4. \A g \in Top : outbox'[ScanFile(g)] \subseteq {PerformScan(y, a) : y \in Owned(g), a \in Agent}
    BY <1>1, <1>2, <1>4, TaskShape DEF PublishedOnce
  <2>5. \A y \in File, a \in Agent : outbox'[PerformScan(y, a)] = {}
    BY <1>1, TaskShape, TasksDiffer DEF PublishedOnce
  <2>6. QED
    BY <2>3, <2>4, <2>5 DEF PublishedOnce
<1>10. AnsweredOnce'
  <2>1. \A y \in File, a \in Agent : at'[PerformScan(y, a)] = at[PerformScan(y, a)]
    BY <1>3, TaskShape, TasksDiffer
  <2>2. \A y \in File, a \in Agent : scan'[y][a] # scan[y][a] =>
          y = x /\ scan[y][a] = "none" /\ scan'[y][a] = "pending" /\ at[PerformScan(y, a)] = "none"
    BY <1>5, <1>6
  <2>3. \A v \in Task, y \in File, a \in Agent :
          PerformScan(y, a) \in outbox'[v] => scan'[y][a] = "pending"
    <3> SUFFICES ASSUME NEW v \in Task, NEW y \in File, NEW a \in Agent,
                        PerformScan(y, a) \in outbox'[v]
                 PROVE  scan'[y][a] = "pending"
      OBVIOUS
    <3>1. CASE v = t
      BY <1>1, <1>2, <1>4, <1>6, <3>1, TaskShape
    <3>2. CASE v # t
      BY <1>1, <2>2, <3>2 DEF AnsweredOnce
    <3>3. QED
      BY <3>1, <3>2
  <2>4. \A y \in File, a \in Agent :
         /\ at[PerformScan(y, a)] # "none" => scan[y][a] # "none"
         /\ at[PerformScan(y, a)] \in {"none", "queued", "scanning"} =>
              scan[y][a] \in {"none", "pending"}
         /\ scan[y][a] # "none" => row[y] = "valid"
    BY DEF AnsweredOnce
  <2>5. \A y \in File, a \in Agent :
         /\ at'[PerformScan(y, a)] # "none" => scan'[y][a] # "none"
         /\ at'[PerformScan(y, a)] \in {"none", "queued", "scanning"} =>
              scan'[y][a] \in {"none", "pending"}
         /\ scan'[y][a] # "none" => row'[y] = "valid"
    BY <1>2, <1>3, <2>1, <2>2, <2>4
  <2>6. QED
    BY <2>3, <2>5 DEF AnsweredOnce
<1>11. TodoIsValid'
  <2>1. \A g \in Top : plan'[g].todo \subseteq plan[g].todo
    BY <1>1, <1>2 DEF Plan
  <2>2. QED
    BY <1>3, <2>1 DEF TodoIsValid, Owned
<1>12. ListsCover'
  <2>1. /\ AgentsListed(f)' = AgentsListed(f)
        /\ \A g \in Top \ {f} : AgentsListed(g)' = AgentsListed(g)
        /\ ActiveAgents' = ActiveAgents
    BY <1>1, <1>2, <1>3 DEF AgentsListed, ActiveAgents, Plan
  <2>2. \A y \in File \ {x} : Scans(y)' = Scans(y)
    BY <1>6 DEF Scans
  <2>3. AgentsListed(f) \subseteq Scans(x)'
    BY <1>4, <1>6 DEF Scans
  <2>4. ASSUME NEW g \in Top, NEW y \in Owned(g), Scans(y)' # {}
        PROVE  AgentsListed(g)' \subseteq Scans(y)'
    <3>1. CASE y = x
      <4>1. g = f
        BY <1>2, <3>1, OwnedApart
      <4>2. QED
        BY <2>1, <2>3, <3>1, <4>1
    <3>2. CASE y # x
      <4>1. y \in File /\ Scans(y)' = Scans(y)
        BY <2>2, <3>2, OwnedApart
      <4>2. AgentsListed(g) \subseteq Scans(y)
        BY <2>4, <4>1 DEF ListsCover
      <4>3. AgentsListed(g)' = AgentsListed(g)
        BY <2>1
      <4>4. QED
        BY <4>1, <4>2, <4>3
    <3>3. QED
      BY <3>1, <3>2
  <2>5. \A g \in Top : (ActiveAgents \subseteq AgentsListed(g))'
    BY <2>1 DEF ListsCover
  <2>6. QED
    BY <2>4, <2>5 DEF ListsCover, Owned
<1>13. QED
  BY <1>7, <1>8, <1>9, <1>10, <1>11, <1>12

\* A perform_scan answers a scan that is pending.
LEMMA StillPerform ==
    ASSUME TypeOK, AnsweredStill, NEW f \in File, NEW a \in Agent, PerformScanStep(f, a)
    PROVE  /\ AnsweredStill'
           /\ \A y \in File : Pending(y) = {} => scan'[y] = scan[y]
<1> DEFINE t == PerformScan(f, a)
<1> USE DEF TypeOK, AnsweredStill, dbVars, taskVars, userVars
<1>0. /\ t \in Task
      /\ \A g \in Top : plan[g].todo \subseteq {x \in Owned(g) : row[x] = "valid"}
  BY TaskShape DEF TodoIsValid
<1>1. CASE SaveResult(f, a)
  <2>1. PICK result \in Result : scan' = [scan EXCEPT ![f][a] = result]
    BY <1>1 DEF SaveResult
  <2>2. /\ at[t] = "scanning" /\ at' = [at EXCEPT ![t] = "file"]
        /\ UNCHANGED <<row, agent, unread, outbox, plan>>
    BY <1>1 DEF SaveResult, Goto
  <2>3. scan[f][a] = "pending" /\ result # "none"
    BY <2>2 DEF AnsweredOnce, Result
  <2>4. /\ \A y \in File \ {f} : scan'[y] = scan[y]
        /\ \A b \in Agent \ {a} : scan'[f][b] = scan[f][b]
        /\ scan'[f][a] = result
    BY <2>1
  <2>5. \A y \in File : Pending(y) = {} => scan'[y] = scan[y]
    BY <2>3, <2>4 DEF Pending
  <2>6. \A u \in Task : at[u] = "none" => at'[u] = "none"
    BY <2>2
  <2>7. IndexedOnce'
    BY <2>2, TaskShape, TasksDiffer DEF IndexedOnce, ValidTop
  <2>8. PublishedOnce'
    BY <2>2, <2>6 DEF PublishedOnce
  <2>9. AnsweredOnce'
    <3>1. \A v \in Task : t \notin outbox[v]
      BY <2>2 DEF PublishedOnce
    <3>2. \A v \in Task, y \in File, b \in Agent :
            PerformScan(y, b) \in outbox'[v] => scan'[y][b] = "pending"
      <4> SUFFICES ASSUME NEW v \in Task, NEW y \in File, NEW b \in Agent,
                          PerformScan(y, b) \in outbox[v]
                   PROVE  scan'[y][b] = "pending"
        BY <2>2
      <4>1. scan[y][b] = "pending" /\ ~(y = f /\ b = a)
        BY <3>1 DEF AnsweredOnce
      <4>2. QED
        BY <2>4, <4>1
    <3>3. \A y \in File, b \in Agent :
            /\ at'[PerformScan(y, b)] # "none" => scan'[y][b] # "none"
            /\ at'[PerformScan(y, b)] \in {"none", "queued", "scanning"} =>
                 scan'[y][b] \in {"none", "pending"}
            /\ scan'[y][b] # "none" => row'[y] = "valid"
      <4> SUFFICES ASSUME NEW y \in File, NEW b \in Agent
                   PROVE  /\ at'[PerformScan(y, b)] # "none" => scan'[y][b] # "none"
                          /\ at'[PerformScan(y, b)] \in {"none", "queued", "scanning"} =>
                               scan'[y][b] \in {"none", "pending"}
                          /\ scan'[y][b] # "none" => row'[y] = "valid"
        OBVIOUS
      <4>1. CASE y = f /\ b = a
        <5>1. scan'[y][b] = result /\ at'[PerformScan(y, b)] = "file" /\ row[y] = "valid"
          BY <1>0, <2>2, <2>3, <2>4, <4>1 DEF AnsweredOnce
        <5>2. QED
          BY <2>2, <2>3, <5>1
      <4>2. CASE ~(y = f /\ b = a)
        <5>1. scan'[y][b] = scan[y][b]
          BY <2>4, <4>2
        <5>2. at'[PerformScan(y, b)] = at[PerformScan(y, b)]
          BY <2>2, <4>2, TaskShape
        <5>3. QED
          BY <2>2, <5>1, <5>2 DEF AnsweredOnce
      <4>3. QED
        BY <4>1, <4>2
    <3>4. QED
      BY <3>2, <3>3 DEF AnsweredOnce
  <2>10. TodoIsValid'
    BY <2>2 DEF TodoIsValid, Owned
  <2>11. ListsCover'
    <3>1. \A y \in File : Scans(y)' = Scans(y)
      <4>1. Scans(f)' = Scans(f)
        BY <2>3, <2>4 DEF Scans
      <4>2. QED
        BY <2>4, <4>1 DEF Scans
    <3>2. QED
      BY <2>2, <3>1, ListsSame
  <2>12. QED
    BY <2>5, <2>7, <2>8, <2>9, <2>10, <2>11
<1>2. CASE StartPerformScan(f, a)
  <2>1. /\ at[t] = "queued" /\ at' = [at EXCEPT ![t] = "scanning"]
        /\ UNCHANGED <<row, scan, agent, unread, outbox, plan>>
    BY <1>2 DEF StartPerformScan, Start
  <2>2. \A u \in Task : at[u] = "none" => at'[u] = "none"
    BY <2>1
  <2>3. IndexedOnce' /\ PublishedOnce'
    BY <2>1, <2>2, TaskShape, TasksDiffer DEF IndexedOnce, ValidTop, PublishedOnce
  <2>4. AnsweredOnce'
    BY <2>1, TaskShape DEF AnsweredOnce
  <2>5. TodoIsValid'
    BY <2>1 DEF TodoIsValid, Owned
  <2>6. ListsCover'
    <3>1. \A y \in File : Scans(y)' = Scans(y)
      BY <2>1 DEF Scans
    <3>2. QED
      BY <2>1, <3>1, ListsSame
  <2>7. QED
    BY <2>1, <2>3, <2>4, <2>5, <2>6
<1>3. CASE LeaveScan(f, a)
  <2>1. /\ at[t] = "scanning" /\ at' = [at EXCEPT ![t] = "file"]
        /\ UNCHANGED <<row, scan, agent, unread, outbox, plan>>
    BY <1>3 DEF LeaveScan, Goto
  <2>2. ActiveAgents' = ActiveAgents
    BY <2>1 DEF ActiveAgents
  <2>3. "file" \in Stage
    BY DEF Stage, Updating
  <2>4. \E u \in Task, s \in Stage :
           /\ at[u] # "none" /\ at' = [at EXCEPT ![u] = s]
           /\ (s \notin {"none", "queued", "scanning"} \/ u \in ScanFileTask)
    <3> HIDE DEF t, TypeOK, AnsweredStill
    <3>1. "file" \notin {"none", "queued", "scanning"} /\ at[t] # "none"
      BY <2>1
    <3>2. QED
      BY <1>0, <2>1, <2>3, <3>1
  <2>5. QED
    BY <1>0, <2>1, <2>2, <2>4, StillQuiet
<1>4. QED
  BY <1>1, <1>2, <1>3 DEF PerformScanStep

\* The updates touch no scan; the tasks they publish have not run.
LEMMA StillUpdate ==
    ASSUME TypeOK, AnsweredStill, NEW t \in Task, UpdateStep(t)
    PROVE  AnsweredStill' /\ UNCHANGED <<row, scan>>
<1> USE DEF TypeOK, AnsweredStill, dbVars, taskVars, userVars
<1>0. \A g \in Top : plan[g].todo \subseteq {x \in Owned(g) : row[x] = "valid"}
  BY DEF TodoIsValid
<1>1. UNCHANGED <<row, scan, agent, unread, plan>>
  BY DEF UpdateStep, ReadScanState, JudgeScanState, SaveScanState, SaveThen,
         FailScanState, CountFiles, SaveProgress, Publish
<1>2. ActiveAgents' = ActiveAgents /\ \A y \in File : Scans(y)' = Scans(y)
  BY <1>1 DEF ActiveAgents, Scans
<1>3. CASE ~Publish(t)
  <2>1. UNCHANGED outbox
    BY <1>3 DEF UpdateStep, ReadScanState, JudgeScanState, SaveScanState, SaveThen,
           FailScanState, CountFiles, SaveProgress
  <2>2. \E s \in Stage : /\ at[t] # "none" /\ at' = [at EXCEPT ![t] = s]
                         /\ s \notin {"none", "queued", "scanning"}
    BY <1>3, ResumeStage DEF UpdateStep, ReadScanState, JudgeScanState, SaveScanState, SaveThen,
       FailScanState, CountFiles, SaveProgress, Goto, Stage, Idle, Over, Updating
  <2>3. QED
    BY <1>0, <1>1, <1>2, <2>1, <2>2, StillQuiet
<1>4. CASE Publish(t)
  <2>1. PICK u \in outbox[t], s \in {"next", "loop", "done", "publish"} :
          /\ at[t] = "publish"
          /\ outbox' = [outbox EXCEPT ![t] = @ \ {u}]
          /\ at' = [at EXCEPT ![u] = "queued", ![t] = s]
    BY <1>4, ResumeStage DEF Publish
  <2>2. /\ u \in Task /\ at[u] = "none" /\ u # t
        /\ \A v \in Task : outbox'[v] \subseteq outbox[v]
    BY <2>1 DEF PublishedOnce
  <2>3. \A v \in Task : v # u /\ v # t => at'[v] = at[v]
    BY <2>1
  <2>4. u # Ingest
    <3>1. CASE t = Ingest
      BY <2>2, <3>1
    <3>2. ASSUME NEW f \in Top, t = ScanFile(f) PROVE u # Ingest
      <4>1. PICK x \in Owned(f), a \in Agent : u = PerformScan(x, a)
        BY <3>2 DEF PublishedOnce
      <4>2. QED
        BY <4>1, OwnedApart, TasksDiffer
    <3>3. QED
      BY <3>1, <3>2, TaskCases DEF PublishedOnce
  <2>5. \A v \in Task : u \notin outbox'[v]
    <3>1. CASE t = Ingest
      <4>1. PICK f \in Top : u = ScanFile(f)
        BY <2>1, <3>1 DEF IndexedOnce, ValidTop
      <4>2. \A g \in Top : u \notin outbox[ScanFile(g)]
        BY <4>1, OwnedApart, TasksDiffer DEF PublishedOnce
      <4>3. u \notin outbox'[Ingest]
        BY <2>1, <3>1
      <4>4. QED
        BY <2>2, <4>2, <4>3, TaskCases DEF PublishedOnce
    <3>2. ASSUME NEW f \in Top, t = ScanFile(f) PROVE <2>5
      <4>1. PICK x \in Owned(f), a \in Agent : u = PerformScan(x, a)
        BY <2>1, <3>2 DEF PublishedOnce
      <4>2. u \notin outbox[Ingest]
        BY <4>1, OwnedApart, TasksDiffer DEF IndexedOnce, ValidTop
      <4>3. \A g \in Top \ {f} : u \notin outbox[ScanFile(g)]
        BY <4>1, OwnedApart, TaskShape DEF PublishedOnce
      <4>4. u \notin outbox'[ScanFile(f)]
        BY <2>1, <3>2
      <4>5. QED
        BY <2>2, <4>2, <4>3, <4>4, TaskCases DEF PublishedOnce
    <3>3. QED
      BY <2>1, <3>1, <3>2, TaskCases DEF PublishedOnce
  <2>6. PublishedOnce'
    <3>1. \A v \in Task : \A w \in outbox'[v] : w \in Task /\ w # u /\ w # t /\ at[w] = "none"
      BY <2>1, <2>2, <2>5 DEF PublishedOnce
    <3>2. \A v \in Task : \A w \in outbox'[v] : at'[w] = "none"
      BY <2>3, <3>1
    <3>3. QED
      BY <2>2, <3>2, TaskShape DEF PublishedOnce
  <2>7. IndexedOnce'
    <3>1. at'[Ingest] = "queued" => at[Ingest] = "queued"
      BY <2>1, <2>3, <2>4, TaskShape
    <3>2. \A f \in Top : at'[ScanFile(f)] # "none" => row[f] = "valid"
      <4> SUFFICES ASSUME NEW f \in Top, at'[ScanFile(f)] # "none", at[ScanFile(f)] = "none"
                   PROVE  row[f] = "valid"
        BY DEF IndexedOnce
      <4>1. u = ScanFile(f)
        BY <2>1, <2>3, TaskShape
      <4>2. t = Ingest
        BY <2>1, <4>1, TaskCases, TasksDiffer, OwnedApart DEF PublishedOnce
      <4>3. QED
        BY <2>1, <4>1, <4>2, TaskShape DEF IndexedOnce, ValidTop
    <3>3. QED
      BY <1>1, <2>2, <3>1, <3>2, TaskShape DEF IndexedOnce, ValidTop
  <2>8. AnsweredOnce'
    <3>1. \A x \in File, a \in Agent :
            \/ at'[PerformScan(x, a)] = at[PerformScan(x, a)]
            \/ at'[PerformScan(x, a)] = "queued" /\ scan[x][a] = "pending"
            \/ at[PerformScan(x, a)] # "none" /\ at'[PerformScan(x, a)] = s
      BY <2>1, <2>3, TaskShape DEF AnsweredOnce
    <3>2. s \notin {"none", "queued", "scanning"}
      OBVIOUS
    <3>3. QED
      BY <1>1, <2>2, <3>1, <3>2 DEF AnsweredOnce
  <2>9. TodoIsValid' /\ ListsCover'
    BY <1>1, <1>2, ListsSame DEF TodoIsValid, Owned
  <2>10. QED
    BY <1>1, <2>6, <2>7, <2>8, <2>9
<1>5. QED
  BY <1>3, <1>4

\* So are all the others, as long as only scan_file is run again.
LEMMA StillStep ==
    ASSUME TypeOK, AnsweredStill, [Next]_vars, redelivered' \subseteq ScanFileTask
    PROVE  /\ AnsweredStill'
           /\ \A x \in File : Scans(x) # {} /\ Pending(x) = {} => scan'[x] = scan[x]
<1> USE DEF dbVars, taskVars, userVars
<1>0. \A g \in Top : plan[g].todo \subseteq {x \in Owned(g) : row[x] = "valid"}
  BY DEF AnsweredStill, TodoIsValid
<1>1. CASE IngestStep
  <2>1. UNCHANGED scan
    BY <1>1 DEF IngestStep, StartIngest, CountPath, CreateFile, RejectPath, EndIngest
  <2>2. QED
    BY <1>1, <2>1, StillIngest
<1>2. ASSUME NEW f \in Top, ScanFileStep(f)
      PROVE  /\ AnsweredStill'
             /\ \A x \in File : Scans(x) # {} => scan'[x] = scan[x]
  <2>1. CASE CreateScans(f)
    BY <2>1, StillCreate
  <2>2. CASE ~CreateScans(f)
    <3>1. UNCHANGED scan
      BY <1>2, <2>2 DEF ScanFileStep, StartScanFile, ReuseChildren, FailExtraction,
         ExtractRejected, ExtractValid, CountAgents, NothingToScan, NoScannerFound, FailScans,
         EndScanFile
    <3>2. QED
      BY <1>2, <2>2, <3>1, StillScanFile
  <2>3. QED
    BY <2>1, <2>2
<1>3. ASSUME NEW f \in File, NEW a \in Agent, PerformScanStep(f, a)
      PROVE  /\ AnsweredStill'
             /\ \A y \in File : Pending(y) = {} => scan'[y] = scan[y]
  BY <1>3, StillPerform
<1>4. ASSUME NEW t \in Task, UpdateStep(t) PROVE AnsweredStill' /\ UNCHANGED scan
  BY <1>4, StillUpdate
<1>5. CASE \/ AcceptPostscan \/ CopyCleanFiles \/ UNCHANGED vars
           \/ \E a \in Agent : DeactivateAgent(a) \/ DeleteAgent(a)
  <2>1. UNCHANGED <<row, scan, at, unread, outbox, plan>>
    BY <1>5 DEF AcceptPostscan, CopyCleanFiles, DeactivateAgent, DeleteAgent, vars
  <2>2. ActiveAgents' \subseteq ActiveAgents
    <3>1. UNCHANGED agent \/ \E a \in Agent, v \in {"inactive", "deleted"} :
                               agent' = [agent EXCEPT ![a] = v]
      BY <1>5 DEF AcceptPostscan, CopyCleanFiles, DeactivateAgent, DeleteAgent, vars
    <3>2. QED
      BY <3>1 DEF ActiveAgents, TypeOK
  <2>3. QED
    BY <1>0, <2>1, <2>2, StillQuiet
<1>6. ASSUME NEW t \in Task, Redeliver(t) PROVE AnsweredStill' /\ UNCHANGED scan
  <2>1. /\ t \in ScanFileTask /\ at[t] # "none" /\ at' = [at EXCEPT ![t] = "queued"]
        /\ outbox' = [outbox EXCEPT ![t] = {}]
        /\ UNCHANGED <<row, scan, agent, unread, plan>>
    BY <1>6 DEF Redeliver, Idle, Over
  <2>2. "queued" \in Stage /\ ActiveAgents' = ActiveAgents
    BY <2>1 DEF Stage, Idle, Over, ActiveAgents
  <2>3. \A u \in Task : outbox'[u] \subseteq outbox[u]
    BY <2>1 DEF TypeOK
  <2>4. QED
    BY <1>0, <2>1, <2>2, <2>3, StillQuiet
<1>7. ASSUME FaultStep PROVE AnsweredStill' /\ UNCHANGED scan
  <2>1. PICK t \in Task, s \in {"refused", "failed"} : CutShort(t, s) /\ at[t] # "none"
    BY <1>7, FaultCuts DEF Updating
  <2>2. s \in Stage /\ s \notin {"none", "queued", "scanning"}
    BY DEF Stage, Idle, Over
  <2>3. \A u \in Task : outbox'[u] \subseteq outbox[u]
    BY <2>1 DEF CutShort, TypeOK
  <2>4. UNCHANGED <<row, scan, unread, plan, agent>> /\ at' = [at EXCEPT ![t] = s]
    BY <2>1 DEF CutShort
  <2>5. ActiveAgents' = ActiveAgents
    BY <2>4 DEF ActiveAgents
  <2>6. QED
    BY <1>0, <2>1, <2>2, <2>3, <2>4, <2>5, StillQuiet
<1>8. QED
  BY <1>1, <1>2, <1>3, <1>4, <1>5, <1>6, <1>7 DEF Next, WorkerStep

\* Who writes the column valid of a row, or creates it.
LEMMA RowFrom ==
    ASSUME [Next]_vars
    PROVE  \/ CreateFile \/ RejectPath \/ UNCHANGED row
           \/ \E f \in Top : ExtractRejected(f) \/ ExtractValid(f)
<1> USE DEF dbVars, taskVars, userVars
<1>1. IngestStep => CreateFile \/ RejectPath \/ UNCHANGED row
  BY DEF IngestStep, StartIngest, CountPath, EndIngest
<1>2. \A f \in Top : ScanFileStep(f) => ExtractRejected(f) \/ ExtractValid(f) \/ UNCHANGED row
  BY DEF ScanFileStep, StartScanFile, ReuseChildren, FailExtraction, CountAgents,
     NothingToScan, NoScannerFound, CreateScans, FailScans, EndScanFile
<1>3. /\ \A f \in File, a \in Agent : PerformScanStep(f, a) => UNCHANGED row
      /\ \A t \in Task : UpdateStep(t) \/ Redeliver(t) => UNCHANGED row
  BY DEF PerformScanStep, StartPerformScan, SaveResult, LeaveScan, UpdateStep,
     ReadScanState, JudgeScanState, SaveScanState, SaveThen, FailScanState, CountFiles,
     SaveProgress, Publish, Redeliver
<1>4. /\ AcceptPostscan \/ CopyCleanFiles \/ UNCHANGED vars => UNCHANGED row
      /\ \A a \in Agent : DeactivateAgent(a) \/ DeleteAgent(a) => UNCHANGED row
  BY DEF AcceptPostscan, CopyCleanFiles, DeactivateAgent, DeleteAgent, vars
<1>5. FaultStep => UNCHANGED row
  BY FaultCuts DEF CutShort
<1>6. QED
  BY <1>1, <1>2, <1>3, <1>4, <1>5 DEF Next, WorkerStep

\* What CleanHasGround asks of a file: its own scans, or those of every member.
HasGround(f) ==
    EarnedClean(f) \/ (Children(f) # {} /\ \A m \in Children(f) : EarnedClean(m))

\* "clean" is computed from finished scans only.
LEMMA CleanFromScans ==
    ASSUME TypeOK, AnsweredOnce, NEW f \in File, "clean" \in VerdictOf(f)
    PROVE  HasGround(f)
<1>1. CASE Children(f) = {}
  BY <1>1, CleanLeaf DEF VerdictOf, HasGround
<1>2. CASE Children(f) # {}
  <2>1. {EvalInfected(m) : m \in Children(f)} \subseteq {"clean"}
    BY <1>2 DEF VerdictOf, ArchiveVerdicts
  <2>2. Children(f) \subseteq File
    BY DEF Children, MembersOf, File
  <2>3. QED
    BY <1>2, <2>1, <2>2, CleanLeaf DEF HasGround
<1>3. QED
  BY <1>1, <1>2

\* The rows of files do not change, and while the row of an archive is locked it gets no
\* member: both inserts of extract_file refer to it.
LEMMA RowsStill ==
    ASSUME TypeOK, AnsweredStill, [Next]_vars
    PROVE  /\ \A x \in File : row[x] # "none" => row'[x] = row[x]
           /\ \A f \in File : Locked(f) => Children(f)' = Children(f)
<1> USE DEF TypeOK, AnsweredStill, dbVars, taskVars, userVars
<1>1. \A x \in File : row[x] # "none" => row'[x] = row[x]
  <2>1. CASE CreateFile \/ RejectPath
    <3>1. PICK f \in unread, v \in {"valid", "rejected"} : row' = [row EXCEPT ![f] = v]
      BY <2>1 DEF CreateFile, RejectPath
    <3>2. row[f] = "none"
      BY DEF IndexedOnce
    <3>3. QED
      BY <3>1, <3>2
  <2>2. ASSUME NEW f \in Top, ExtractRejected(f) \/ ExtractValid(f)
        PROVE  <1>1
    BY <2>2 DEF ExtractRejected, ExtractValid, Children, Created, MembersOf, File
  <2>3. \/ CreateFile \/ RejectPath \/ UNCHANGED row
        \/ \E f \in Top : ExtractRejected(f) \/ ExtractValid(f)
    BY RowFrom
  <2>4. QED
    BY <2>1, <2>2, <2>3
<1>2. ASSUME NEW f \in File, Locked(f) PROVE Children(f)' = Children(f)
  <2>1. \A m \in MembersOf(f) : row'[m] = row[m]
    <3> SUFFICES ASSUME NEW m \in MembersOf(f), row'[m] # row[m] PROVE FALSE
      OBVIOUS
    <3>1. m \in Member /\ m \in File /\ m \notin Top /\ ParentOf[m] = f
      BY SessionAssumption DEF MembersOf, File
    <3>2. CASE CreateFile \/ RejectPath
      <4>1. \E g \in unread, v \in {"valid", "rejected"} : row' = [row EXCEPT ![g] = v]
        BY <3>2 DEF CreateFile, RejectPath
      <4>2. QED
        BY <3>1, <4>1
    <3>3. ASSUME NEW g \in Top, ExtractRejected(g) \/ ExtractValid(g) PROVE FALSE
      <4>1. ~Locked(g) /\ m \in MembersOf(g)
        BY <3>1, <3>3 DEF ExtractRejected, ExtractValid, Created
      <4>2. g = f
        BY <3>1, <4>1 DEF MembersOf
      <4>3. QED
        BY <1>2, <4>1, <4>2
    <3>4. QED
      BY <3>2, <3>3, RowFrom
  <2>2. QED
    BY <2>1 DEF Children, Created, MembersOf
<1>3. QED
  BY <1>1, <1>2

\* A verdict "clean" that a task is about to save has ground.
JudgedWithGround ==
    \A t \in Task :
      at[t] \in Saving /\ read[t].infected = "clean" => HasGround(Target(t))

\* Ground is not lost while the row is locked.
LEMMA GroundStays ==
    ASSUME TypeOK, AnsweredStill, [Next]_vars, redelivered' \subseteq ScanFileTask,
           NEW f \in File, Locked(f), HasGround(f)
    PROVE  HasGround(f)'
<1>1. ASSUME NEW x \in File, EarnedClean(x) PROVE EarnedClean(x)'
  <2>1. row'[x] = row[x] /\ scan'[x] = scan[x]
    BY <1>1, RowsStill, StillStep DEF EarnedClean
  <2>2. QED
    BY <1>1, <2>1, EarnedSame
<1>2. Children(f)' = Children(f) /\ Children(f) \subseteq File
  BY RowsStill DEF Children, MembersOf, File
<1>3. QED
  BY <1>1, <1>2 DEF HasGround

\* Every step keeps both.
LEMMA GroundStep ==
    ASSUME TypeOK, SubjectOK, AnsweredStill, JudgedWithGround, [Next]_vars,
           redelivered' \subseteq ScanFileTask
    PROVE  JudgedWithGround'
<1> USE DEF TypeOK, dbVars, taskVars, userVars
<1> SUFFICES ASSUME NEW t \in Task, at'[t] \in Saving, read'[t].infected = "clean"
             PROVE  HasGround(Target(t))'
  BY DEF JudgedWithGround
<1>0. \A f \in File : Locked(f) /\ HasGround(f) => HasGround(f)'
  BY GroundStays
<1>1. CASE at'[t] = at[t] /\ subject'[t] = subject[t] /\ read'[t] = read[t]
  <2>1. Target(t)' = Target(t) /\ Target(t) \in File /\ Locked(Target(t))
    BY <1>1, TargetIsFile DEF Target, Saving, LockingFile, Locked
  <2>2. HasGround(Target(t))
    BY <1>1 DEF JudgedWithGround
  <2>3. QED
    BY <1>0, <2>1, <2>2
<1>2. CASE JudgeScanState(t)
  <2>1. /\ Target(t)' = Target(t) /\ Target(t) \in File
        /\ UNCHANGED <<row, scan>>
    BY <1>2, TargetIsFile DEF JudgeScanState, Goto, Target, LockingFile
  <2>2. "clean" \in VerdictOf(Target(t))
    BY <1>2 DEF JudgeScanState, Reading
  <2>3. HasGround(Target(t))
    BY <2>1, <2>2, CleanFromScans DEF AnsweredStill
  <2>4. \A f \in File : HasGround(f) => HasGround(f)'
    <3>1. \A x \in File : EarnedClean(x) => EarnedClean(x)'
      BY <2>1, EarnedSame
    <3>2. \A f \in File : Children(f)' = Children(f) /\ Children(f) \subseteq File
      BY <2>1 DEF Children, Created, MembersOf, File
    <3>3. QED
      BY <3>1, <3>2 DEF HasGround
  <2>5. QED
    BY <2>1, <2>3, <2>4
<1>3. QED
  BY <1>1, <1>2, SavingStays

\* Whatever is run again but perform_scan, ground is there when a verdict becomes "clean".
LEMMA AlwaysGround ==
    Spec => [](redelivered \subseteq ScanFileTask => AnsweredStill /\ JudgedWithGround)
<1> DEFINE Inv == redelivered \subseteq ScanFileTask => AnsweredStill /\ JudgedWithGround
<1>1. Init => Inv
  <2>1. Init => JudgedWithGround
    BY DEF Init, JudgedWithGround, NothingRead
  <2>2. QED
    BY <2>1, StillInit
<1>2. TypeOK /\ SubjectOK /\ Inv /\ [Next]_vars => Inv'
  <2> SUFFICES ASSUME TypeOK, SubjectOK, Inv, [Next]_vars, redelivered' \subseteq ScanFileTask
               PROVE  AnsweredStill' /\ JudgedWithGround'
    OBVIOUS
  <2>1. redelivered \subseteq redelivered'
    BY RedeliveredGrows
  <2>2. QED
    BY <2>1, StillStep, GroundStep
<1>3. QED
  BY <1>1, <1>2, TypesAndSubjects, PTL DEF Spec

\* When a verdict becomes "clean", the scans of the file or those of every member of the
\* archive are finished and say so, in first scans and re-scans alike, however often
\* scan_file is run again: a perform_scan that is not run again answers once, and a second
\* run of scan_file finds rows it cannot insert again.
THEOREM CleanVerdictsHaveGround == Spec => CleanHasGround
<1>1. ASSUME TypeOK, redelivered \subseteq ScanFileTask => AnsweredStill /\ JudgedWithGround,
             [Next]_vars
      PROVE  [redelivered \subseteq ScanFileTask =>
                \A f \in File : infected[f] # "clean" /\ infected'[f] = "clean" =>
                  \/ EarnedClean(f)'
                  \/ Children(f)' # {} /\ \A m \in Children(f)' : EarnedClean(m)']_vars
  <2> SUFFICES ASSUME redelivered \subseteq ScanFileTask, NEW f \in File,
                      infected[f] # "clean", infected'[f] = "clean"
               PROVE  HasGround(f)'
    BY DEF HasGround
  <2>1. PICK t \in Task : at[t] \in Saving /\ read[t].infected = "clean" /\ Target(t) = f
    BY <1>1, CleanFrom
  <2>2. HasGround(f)
    BY <1>1, <2>1 DEF JudgedWithGround
  <2>3. UNCHANGED <<row, scan>>
    BY <1>1, VerdictFrom DEF SaveScanState, SaveThen
  <2>4. \A x \in File : EarnedClean(x) => EarnedClean(x)'
    BY <2>3, EarnedSame
  <2>5. Children(f)' = Children(f) /\ Children(f) \subseteq File
    BY <2>3 DEF Children, Created, MembersOf, File
  <2>6. QED
    BY <2>2, <2>4, <2>5 DEF HasGround
<1>2. QED
  BY <1>1, TypeCorrect, AlwaysGround, PTL DEF Spec, CleanHasGround
=============================================================================
