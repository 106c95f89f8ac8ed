---------------------------- MODULE ScanSession ----------------------------
(***************************************************************************)
(* One scanning session of scans/: the files of the session are indexed by *)
(* bulk_create_from_disk (or by the request of an upload or of a re-scan), *)
(* scan_file gives every file one Scan row per active agent, perform_scan  *)
(* fills in one row, and update_scan_state / update_progress fold the rows *)
(* into the verdict and progress of the file, of the archive it belongs to *)
(* and of the session.                                                     *)
(*                                                                         *)
(* The tasks run in a pool of celery workers against PostgreSQL at READ    *)
(* COMMITTED.  Every database statement, or group of statements that no    *)
(* other task can tell apart, is one action; a task keeps in at[t] where   *)
(* it is.  The row locks taken by select_for_update are held while a task  *)
(* is at one of the stages LockingFile and "sessionSaving".                *)
(***************************************************************************)
EXTENDS Verdict, FiniteSets

CONSTANTS
    Top,              \* files that may be indexed: those not extracted from another
    Member,           \* files extracted from an archive
    NoFile,           \* the absence of a file
    ParentOf,         \* ParentOf[m] is the archive of Top that holds member m
    Agent,            \* the antivirus agents the request names (or all of them)
    Worker,           \* celery workers, one task at a time each
    Source,           \* how the session may start: "disk", "upload" or "rescan"
    Extract,          \* the request's (or the settings') extract flag
    AgentFaults,      \* agents may be deactivated and deleted meanwhile
    Escapes,          \* agents whose driver may raise what perform_scan does not catch
    Faults,           \* what may end a task: "broker" (a publication is refused), "disk"
                      \* (a path cannot be read or written), "time" (the soft time limit)
    Redeliverable,    \* kinds of task a lost worker may leave to be run again
    MaxRedeliveries   \* bound on the tasks that are run again

ASSUME SessionAssumption ==
    /\ Top \cap Member = {}
    /\ NoFile \notin Top \cup Member
    /\ ParentOf \in [Member -> Top]
    /\ IsFiniteSet(Agent)
    /\ Source \subseteq {"disk", "upload", "rescan"}
    /\ Extract \in BOOLEAN
    /\ AgentFaults \in BOOLEAN
    /\ Escapes \subseteq Agent
    /\ Faults \subseteq {"broker", "disk", "time"}
    /\ Redeliverable \subseteq {"scan_file", "perform_scan"}
    /\ MaxRedeliveries \in Nat

File == Top \cup Member

Ingest == [kind |-> "ingest"]
ScanFile(f) == [kind |-> "scan_file", file |-> f]
PerformScan(f, a) == [kind |-> "perform_scan", file |-> f, agent |-> a]

ScanFileTask    == {ScanFile(f) : f \in Top}
PerformScanTask == {PerformScan(f, a) : f \in File, a \in Agent}
Task            == {Ingest} \cup ScanFileTask \cup PerformScanTask

VARIABLES
    unread,     \* unpacked_paths the disk task has still to index
    row,        \* File rows: "none", "valid" or "rejected" (valid=False, deleted=True)
    progress,   \* File.progress
    infected,   \* File.infected
    noted,      \* files whose notes are not empty
    scan,       \* Scan rows per file and agent: "none", "pending" or the result
    session,    \* the Session row: progress, counter and analyze_progress
    agent,      \* Agent rows: "active", "inactive" or "deleted"
    at,         \* where each task is
    subject,    \* the file a task is updating
    read,       \* the progress and verdict a task has computed and will save
    outbox,     \* tasks a task is about to publish
    plan,       \* local variables of each scan_file
    postscan,   \* "none", "accepted" or "copied"
    copied,     \* files postscan_copy has copied
    redelivered \* tasks that were lost and run again

dbVars   == <<row, progress, infected, noted, scan, session>>
taskVars == <<at, unread, subject, read, outbox, plan>>
userVars == <<postscan, copied>>
vars     == <<dbVars, taskVars, agent, userVars, redelivered>>

-----------------------------------------------------------------------------
(* Values *)

\* A task is over as its code ends it, "refused" where it could not publish,
\* or "failed" at an error of the disk or of time that no clause catches.
Over    == {"done", "refused", "failed"}
Idle    == {"none", "queued"} \cup Over
Updating == {"file", "fileJudging", "fileSaving", "parent", "parentJudging",
             "parentSaving", "session", "sessionSaving"}
Stage   == Idle \cup Updating \cup {"next", "create", "extract", "bulk", "count", "loop",
                                   "scanning", "publish"}
LockingFile == {"fileJudging", "fileSaving", "parentJudging", "parentSaving"}
Result  == {"clean", "infected", "error"}
ScanRow == {"none", "pending"} \cup Result
Plan    == [todo : SUBSET File, empty : BOOLEAN, notes : BOOLEAN,
            exist : BOOLEAN, listed : BOOLEAN, agents : SUBSET Agent]
Reading == [progress : ProgressValue, infected : VerdictValue]
NothingRead == [progress |-> "none", infected |-> "unknown"]
NoPlan  == [todo |-> {}, empty |-> FALSE, notes |-> FALSE,
            exist |-> FALSE, listed |-> FALSE, agents |-> {}]

TypeOK ==
    /\ row \in [File -> {"none", "valid", "rejected"}]
    /\ progress \in [File -> ProgressValue]
    /\ infected \in [File -> VerdictValue]
    /\ noted \subseteq Top
    /\ scan \in [File -> [Agent -> ScanRow]]
    /\ session \in [progress : ProgressValue, counter : Nat, analyze : ProgressValue]
    /\ agent \in [Agent -> {"active", "inactive", "deleted"}]
    /\ at \in [Task -> Stage]
    /\ unread \subseteq Top
    /\ subject \in [Task -> File \cup {NoFile}]
    /\ read \in [Task -> Reading]
    /\ outbox \in [Task -> SUBSET Task]
    /\ plan \in [Top -> Plan]
    /\ postscan \in {"none", "accepted", "copied"}
    /\ copied \subseteq Top
    /\ redelivered \subseteq Task

-----------------------------------------------------------------------------
(* Queries *)

Created(f)  == row[f] # "none"
MembersOf(f) == {m \in Member : ParentOf[m] = f}
Children(f)  == {m \in MembersOf(f) : Created(m)}
Scans(f)     == {a \in Agent : scan[f][a] # "none"}
Pending(f)   == {a \in Agent : scan[f][a] = "pending"}
With(f, results) == {a \in Agent : scan[f][a] \in results}
ActiveAgents == {a \in Agent : agent[a] = "active"}

EvalInfected(f) ==
    LeafVerdict(Cardinality(Scans(f)), Cardinality(Pending(f)),
                Cardinality(With(f, {"pending", "error"})),
                Cardinality(With(f, {"infected"})))

\* What update_scan_state may store as the verdict of f ...
VerdictOf(f) ==
    IF Children(f) # {}
    THEN ArchiveVerdicts({EvalInfected(m) : m \in Children(f)})
    ELSE {EvalInfected(f)}

ValidChildren(f) == {m \in Children(f) : row[m] = "valid"}

\* Variant: the scans without a status are not excluded.
EagerProgressOf(f) ==
    IF Children(f) # {} \/ Scans(f) = {} THEN progress[f]
    ELSE RoundedProgress(Cardinality(Scans(f)), Cardinality(Scans(f)))

\* ... and as its progress; a file without scans keeps the one it has.
ProgressOf(f) ==
    IF Children(f) # {}
    THEN RoundedProgress(Cardinality({m \in Children(f) : progress[m] = "full"}),
                         Cardinality(ValidChildren(f)))
    ELSE IF Scans(f) # {}
         THEN RoundedProgress(Cardinality(Scans(f) \ Pending(f)), Cardinality(Scans(f)))
         ELSE progress[f]

ValidTop == {f \in Top : row[f] = "valid"}

\* Variant: files that are not valid count as scanned.
AnyFileSessionProgress ==
    IF ValidTop # {}
    THEN RoundedProgress(Cardinality({f \in Top : progress[f] = "full"}), Cardinality(ValidTop))
    ELSE IF session.counter > 0 THEN "full" ELSE session.progress

\* Variant: a session without valid files is left alone.
ValidOnlySessionProgress ==
    IF ValidTop # {}
    THEN RoundedProgress(Cardinality({f \in ValidTop : progress[f] = "full"}),
                         Cardinality(ValidTop))
    ELSE session.progress

\* What update_progress stores in the session.
SessionProgress ==
    IF ValidTop # {}
    THEN RoundedProgress(Cardinality({f \in ValidTop : progress[f] = "full"}),
                         Cardinality(ValidTop))
    ELSE IF session.counter > 0 THEN "full" ELSE session.progress

\* Session.state()['complete']
Complete == session.progress = "full" /\ session.analyze = "full"

Busy      == {t \in Task : at[t] \notin Idle}
HasWorker == Cardinality(Busy) < Cardinality(Worker)

\* The row a task at an update stage works on.
Target(t) == IF at[t] \in {"parent", "parentJudging", "parentSaving"}
             THEN ParentOf[subject[t]] ELSE subject[t]

\* Variants: without select_for_update.
NeverLocked(f) == FALSE
SessionNeverLocked == FALSE

\* A File row that is locked cannot be updated, nor scans inserted for it.
Locked(f) == \E t \in Task : at[t] \in LockingFile /\ Target(t) = f

\* The Session row that is locked cannot be updated, nor files inserted in it.
SessionLocked == \E t \in Task : at[t] = "sessionSaving"

-----------------------------------------------------------------------------
(* Initial states: the request of a disk session has published its task;   *)
(* that of an upload or a re-scan has created the rows itself.  A re-scan   *)
(* saves the File row it re-scans under a new key, with the progress, the   *)
(* verdict and the notes of the earlier scan.                               *)

\* What becomes of the task the request publishes.
Sent == {"queued"} \cup {s \in {"refused"} : "broker" \in Faults}

FromDisk ==
    /\ row = [f \in File |-> "none"]
    /\ progress = [f \in File |-> "none"]
    /\ infected = [f \in File |-> "unknown"]
    /\ noted = {}
    /\ session = [progress |-> "none", counter |-> 0, analyze |-> "none"]
    /\ \E s \in Sent : at = [t \in Task |-> IF t = Ingest THEN s ELSE "none"]

\* FileSerializer.create and update: the file as it is, or was.
FromRequest(was, notes) ==
    /\ row = [f \in File |-> IF f \in Top THEN "valid" ELSE "none"]
    /\ progress = [f \in File |-> IF f \in Top THEN was[f].progress ELSE "none"]
    /\ infected = [f \in File |-> IF f \in Top THEN was[f].infected ELSE "unknown"]
    /\ noted = notes
    /\ session = [progress |-> "none", counter |-> 1, analyze |-> "full"]
    /\ \E sent \in [ScanFileTask -> Sent] :
         at = [t \in Task |-> IF t \in ScanFileTask THEN sent[t] ELSE "none"]

Init ==
    /\ \/ "disk" \in Source /\ FromDisk
       \/ "upload" \in Source /\ FromRequest([f \in Top |-> NothingRead], {})
       \/ /\ "rescan" \in Source
          /\ \E was \in [Top -> Reading], notes \in SUBSET Top : FromRequest(was, notes)
    /\ scan = [f \in File |-> [a \in Agent |-> "none"]]
    /\ agent \in [Agent -> IF AgentFaults THEN {"active", "inactive"} ELSE {"active"}]
    /\ unread = {}
    /\ subject = [t \in Task |-> NoFile]
    /\ read = [t \in Task |-> NothingRead]
    /\ outbox = [t \in Task |-> {}]
    /\ plan = [f \in Top |-> NoPlan]
    /\ postscan = "none"
    /\ copied = {}
    /\ redelivered = {}
-----------------------------------------------------------------------------
(* Task bookkeeping *)

\* A worker takes a task from the broker and runs it up to stage s.
Start(t, s) == at[t] = "queued" /\ HasWorker /\ at' = [at EXCEPT ![t] = s]

Goto(t, s) == at' = [at EXCEPT ![t] = s]

\* Where a task goes on once it has updated the session and published.
Resume(t) ==
    CASE t.kind = "ingest"       -> "next"
      [] t.kind = "scan_file"    -> "loop"
      [] t.kind = "perform_scan" -> "done"

\* Variant: only the first task is sent.
PublishFirst(t) ==
    /\ at[t] = "publish"
    /\ \E u \in outbox[t] :
         /\ outbox' = [outbox EXCEPT ![t] = {}]
         /\ at' = [at EXCEPT ![u] = "queued", ![t] = Resume(t)]
    /\ UNCHANGED <<dbVars, agent, unread, subject, read, plan, userVars, redelivered>>

\* Variant: a task that was sent is not forgotten.
PublishAgain(t) ==
    /\ at[t] = "publish"
    /\ \E u \in outbox[t] :
         at' = [at EXCEPT ![u] = "queued",
                         ![t] = IF outbox[t] = {u} THEN Resume(t) ELSE "publish"]
    /\ UNCHANGED <<dbVars, agent, unread, subject, read, outbox, plan, userVars, redelivered>>

\* perform(), scan(): the tasks in the outbox are sent one after the other.
Publish(t) ==
    /\ at[t] = "publish"
    /\ \E u \in outbox[t] :
         /\ outbox' = [outbox EXCEPT ![t] = @ \ {u}]
         /\ at' = [at EXCEPT ![u] = "queued",
                            ![t] = IF outbox[t] = {u} THEN Resume(t) ELSE "publish"]
    /\ UNCHANGED <<dbVars, agent, unread, subject, read, plan, userVars, redelivered>>

\* The broker does not take the next task: the exception ends the publisher,
\* and what it has still to send is never sent.
RefusePublication(t) ==
    /\ at[t] = "publish"
    /\ "broker" \in Faults
    /\ outbox' = [outbox EXCEPT ![t] = {}]
    /\ Goto(t, "refused")
    /\ UNCHANGED <<dbVars, agent, unread, subject, read, plan, userVars, redelivered>>

-----------------------------------------------------------------------------
(* bulk_create_from_disk *)

\* The directories are walked; no file in them ends the session at once.
StartIngest ==
    /\ ~SessionLocked
    /\ \E paths \in SUBSET Top :
         /\ unread' = paths
         /\ Start(Ingest, IF paths = {} THEN "done" ELSE "next")
         /\ session' = [session EXCEPT !.counter = 0,
                                       !.analyze = IF paths = {} THEN "full" ELSE "part",
                                       !.progress = IF paths = {} THEN "full" ELSE @]
    /\ UNCHANGED <<row, progress, infected, noted, scan, agent, subject, read, outbox,
                   plan, userVars, redelivered>>

\* The counter and analyze_progress are written before the path is opened.
CountPath ==
    /\ at[Ingest] = "next"
    /\ unread # {}
    /\ ~SessionLocked
    /\ Goto(Ingest, "create")
    /\ session' = [session EXCEPT
                     !.counter = @ + 1,
                     !.analyze = RoundedProgress(session.counter + 1,
                                                  session.counter + Cardinality(unread))]
    /\ UNCHANGED <<row, progress, infected, noted, scan, agent, unread, subject, read,
                   outbox, plan, userVars, redelivered>>

\* An accepted path: update_scan_state, update_progress, then scan().
CreateFile ==
    /\ at[Ingest] = "create"
    /\ ~SessionLocked
    /\ \E f \in unread :
         /\ unread' = unread \ {f}
         /\ row' = [row EXCEPT ![f] = "valid"]
         /\ subject' = [subject EXCEPT ![Ingest] = f]
         /\ outbox' = [outbox EXCEPT ![Ingest] = {ScanFile(f)}]
    /\ Goto(Ingest, "file")
    /\ UNCHANGED <<progress, infected, noted, scan, session, agent, read, plan,
                   userVars, redelivered>>

\* A path that is missing, too large or of a mimetype that is not allowed.
RejectPath ==
    /\ at[Ingest] = "create"
    /\ ~SessionLocked
    /\ \E f \in unread :
         /\ unread' = unread \ {f}
         /\ row' = [row EXCEPT ![f] = "rejected"]
         /\ progress' = [progress EXCEPT ![f] = "full"]
    /\ Goto(Ingest, "session")
    /\ UNCHANGED <<infected, noted, scan, session, agent, subject, read, outbox, plan,
                   userVars, redelivered>>

\* Any other error of the path or of the storage ends the indexing there.
BreakIngest ==
    /\ at[Ingest] = "create"
    /\ "disk" \in Faults
    /\ Goto(Ingest, "failed")
    /\ UNCHANGED <<dbVars, agent, unread, subject, read, outbox, plan, userVars, redelivered>>

EndIngest ==
    /\ at[Ingest] = "next"
    /\ unread = {}
    /\ Goto(Ingest, "done")
    /\ UNCHANGED <<dbVars, agent, unread, subject, read, outbox, plan, userVars, redelivered>>

-----------------------------------------------------------------------------
(* scan_file, for a file f of Top *)

\* The File row is read once: its notes and flags are not read again.
StartScanFile(f) ==
    LET t == ScanFile(f)
        archive == Extract /\ MembersOf(f) # {}
    IN  /\ Start(t, IF archive THEN "extract" ELSE "count")
        /\ plan' = [plan EXCEPT ![f] = [NoPlan EXCEPT !.todo = IF archive THEN {} ELSE {f},
                                                      !.notes = f \in noted]]
        /\ UNCHANGED <<dbVars, agent, unread, subject, read, outbox, userVars, redelivered>>

\* The children an earlier run has extracted are taken as they are; those
\* that are not valid are skipped later.
ReuseChildren(f) ==
    LET t == ScanFile(f)
    IN  /\ at[t] = "extract"
        /\ Children(f) # {}
        /\ Goto(t, "count")
        /\ plan' = [plan EXCEPT ![f].todo = ValidChildren(f)]
        /\ UNCHANGED <<dbVars, agent, unread, subject, read, outbox, userVars, redelivered>>

\* No child to scan: the archive itself is scanned, unless it had notes.
WithoutChildren(f) ==
    [plan[f] EXCEPT !.todo = IF plan[f].notes THEN {} ELSE {f}, !.empty = plan[f].notes]

\* Extraction raises: the notes say why, but scan_file looks at those it
\* has read at the start.
FailExtraction(f) ==
    LET t == ScanFile(f)
    IN  /\ at[t] = "extract"
        /\ Children(f) = {}
        /\ ~Locked(f)
        /\ Goto(t, "count")
        /\ noted' = noted \cup {f}
        /\ plan' = [plan EXCEPT ![f] = WithoutChildren(f)]
        /\ UNCHANGED <<row, progress, infected, scan, session, agent, unread, subject, read,
                       outbox, userVars, redelivered>>

\* extract_file creates the members it refuses one by one, each without a
\* file and already deleted, and the others in one bulk_create afterwards.
ExtractRejected(f) ==
    LET t == ScanFile(f)
    IN  /\ at[t] = "extract"
        /\ Children(f) = {}
        /\ ~Locked(f)
        /\ ~SessionLocked
        /\ \E refused \in SUBSET MembersOf(f) :
             row' = [m \in File |-> IF m \in refused THEN "rejected" ELSE row[m]]
        /\ Goto(t, "bulk")
        /\ UNCHANGED <<progress, infected, noted, scan, session, agent, unread, subject, read,
                       outbox, plan, userVars, redelivered>>

\* extract_file returns the valid members only: without one, the archive
\* itself is scanned although it has children.  It first publishes the
\* set_file_info of every member, which the broker may refuse.
ExtractValid(f) ==
    LET t == ScanFile(f)
        accepted == {m \in MembersOf(f) : ~Created(m)}
    IN  /\ at[t] = "bulk"
        /\ ~Locked(f)
        /\ ~SessionLocked
        /\ row' = [m \in File |-> IF m \in accepted THEN "valid" ELSE row[m]]
        /\ plan' = [plan EXCEPT
                     ![f] = IF accepted = {} THEN WithoutChildren(f)
                            ELSE [@ EXCEPT !.todo = accepted]]
        /\ \/ Goto(t, "count")
           \/ accepted # {} /\ "broker" \in Faults /\ Goto(t, "refused")
        /\ UNCHANGED <<progress, infected, noted, scan, session, agent, unread, subject, read,
                       outbox, userVars, redelivered>>

\* An extracted path cannot be read: extract_file catches nothing there.
BreakExtraction(f) ==
    LET t == ScanFile(f)
    IN  /\ at[t] = "bulk"
        /\ "disk" \in Faults
        /\ Goto(t, "failed")
        /\ UNCHANGED <<dbVars, agent, unread, subject, read, outbox, plan, userVars, redelivered>>

\* agents_exist = queryset.count()
CountAgents(f) ==
    LET t == ScanFile(f)
    IN  /\ at[t] = "count"
        /\ ~plan[f].empty
        /\ Goto(t, "loop")
        /\ plan' = [plan EXCEPT ![f].exist = ActiveAgents # {}]
        /\ UNCHANGED <<dbVars, agent, unread, subject, read, outbox, userVars, redelivered>>

\* files_to_scan is empty: the file counts as scanned.
NothingToScan(f) ==
    LET t == ScanFile(f)
    IN  /\ at[t] = "count"
        /\ plan[f].empty
        /\ ~Locked(f)
        /\ progress' = [progress EXCEPT ![f] = "full"]
        /\ Goto(t, "session")
        /\ UNCHANGED <<row, infected, noted, scan, session, agent, unread, subject, read,
                       outbox, plan, userVars, redelivered>>

\* No active agent: the file named in the call counts as scanned.
NoScannerFound(f) ==
    LET t == ScanFile(f)
    IN  /\ at[t] = "loop"
        /\ ~plan[f].exist
        /\ ~Locked(f)
        /\ \E x \in plan[f].todo : plan' = [plan EXCEPT ![f].todo = @ \ {x}]
        /\ progress' = [progress EXCEPT ![f] = "full"]
        /\ noted' = noted \cup {f}
        /\ Goto(t, "session")
        /\ UNCHANGED <<row, infected, scan, session, agent, unread, subject, read, outbox,
                       userVars, redelivered>>

\* The agents are listed by the first iteration and kept for the others.
AgentsListed(f) == IF plan[f].listed THEN plan[f].agents ELSE ActiveAgents

\* A row for an agent that is gone, or one that exists, fails the insert.
CanCreateScans(f, x) ==
    \A a \in AgentsListed(f) : agent[a] # "deleted" /\ scan[x][a] = "none"

\* The next file gets one pending scan per listed agent.
CreateScans(f) ==
    LET t == ScanFile(f)
    IN  /\ at[t] = "loop"
        /\ plan[f].exist
        /\ \E x \in plan[f].todo :
             /\ CanCreateScans(f, x)
             /\ ~Locked(x)
             /\ scan' = [scan EXCEPT ![x] =
                            [a \in Agent |-> IF a \in AgentsListed(f) THEN "pending" ELSE @[a]]]
             /\ subject' = [subject EXCEPT ![t] = x]
             /\ outbox' = [outbox EXCEPT ![t] = {PerformScan(x, a) : a \in AgentsListed(f)}]
             /\ plan' = [plan EXCEPT ![f].todo = @ \ {x},
                                     ![f].listed = TRUE,
                                     ![f].agents = AgentsListed(f)]
        /\ Goto(t, "file")
        /\ UNCHANGED <<row, progress, infected, noted, session, agent, unread, read,
                       userVars, redelivered>>

\* bulk_create raises IntegrityError and the task ends there.
FailScans(f) ==
    LET t == ScanFile(f)
    IN  /\ at[t] = "loop"
        /\ plan[f].exist
        /\ \E x \in plan[f].todo : ~CanCreateScans(f, x)
        /\ Goto(t, "done")
        /\ UNCHANGED <<dbVars, agent, unread, subject, read, outbox, plan, userVars, redelivered>>

EndScanFile(f) ==
    LET t == ScanFile(f)
    IN  /\ at[t] = "loop"
        /\ plan[f].todo = {}
        /\ Goto(t, "done")
        /\ UNCHANGED <<dbVars, agent, unread, subject, read, outbox, plan, userVars, redelivered>>

-----------------------------------------------------------------------------
(* perform_scan *)

\* Variant: a scan that has a status is not performed again.
StartPendingScan(f, a) ==
    LET t == PerformScan(f, a)
    IN  /\ Start(t, IF scan[f][a] = "pending" THEN "scanning" ELSE "done")
        /\ subject' = [subject EXCEPT ![t] = f]
        /\ UNCHANGED <<dbVars, agent, unread, read, outbox, plan, userVars, redelivered>>

StartPerformScan(f, a) ==
    LET t == PerformScan(f, a)
    IN  /\ Start(t, "scanning")
        /\ subject' = [subject EXCEPT ![t] = f]
        /\ UNCHANGED <<dbVars, agent, unread, read, outbox, plan, userVars, redelivered>>

\* The antivirus answers, fails or times out, and the row is saved.
SaveResult(f, a) ==
    LET t == PerformScan(f, a)
    IN  /\ at[t] = "scanning"
        /\ agent[a] # "deleted"
        /\ \E result \in Result : scan' = [scan EXCEPT ![f][a] = result]
        /\ Goto(t, "file")
        /\ UNCHANGED <<row, progress, infected, noted, session, agent, unread, subject, read,
                       outbox, plan, userVars, redelivered>>

\* The agent is gone, or its driver raises what no clause catches: the row
\* is left as it is and only finally runs.
LeaveScan(f, a) ==
    LET t == PerformScan(f, a)
    IN  /\ at[t] = "scanning"
        /\ agent[a] = "deleted" \/ a \in Escapes
        /\ Goto(t, "file")
        /\ UNCHANGED <<dbVars, agent, unread, subject, read, outbox, plan, userVars, redelivered>>

-----------------------------------------------------------------------------
(* update_scan_state, of the file and then of its archive, and             *)
(* update_progress: the end of every step of every task.                   *)

NoValidChild(f) == Children(f) # {} /\ ValidChildren(f) = {}

\* The row is locked and the progress computed ...
ReadScanState(t) ==
    /\ at[t] \in {"file", "parent"}
    /\ ~Locked(Target(t))
    /\ ~NoValidChild(Target(t))
    /\ read' = [read EXCEPT ![t].progress = ProgressOf(Target(t))]
    /\ Goto(t, IF at[t] = "file" THEN "fileJudging" ELSE "parentJudging")
    /\ UNCHANGED <<dbVars, agent, unread, subject, outbox, plan, userVars, redelivered>>

\* ... then the verdict, from scans that may have changed since ...
JudgeScanState(t) ==
    /\ at[t] \in {"fileJudging", "parentJudging"}
    /\ \E v \in VerdictOf(Target(t)) : read' = [read EXCEPT ![t].infected = v]
    /\ Goto(t, IF at[t] = "fileJudging" THEN "fileSaving" ELSE "parentSaving")
    /\ UNCHANGED <<dbVars, agent, unread, subject, outbox, plan, userVars, redelivered>>

\* ... and both are saved.
SaveThen(t, next) ==
    /\ at[t] \in {"fileSaving", "parentSaving"}
    /\ progress' = [progress EXCEPT ![Target(t)] = read[t].progress]
    /\ infected' = [infected EXCEPT ![Target(t)] = read[t].infected]
    /\ read' = [read EXCEPT ![t] = NothingRead]
    /\ Goto(t, next)
    /\ UNCHANGED <<row, noted, scan, session, agent, unread, subject, outbox, plan,
                   userVars, redelivered>>

\* Variants: perform_scan forgets the archive, or the session.
SaveWithoutArchive(t) == SaveThen(t, "session")

\* perform_scan goes on with the archive the file is a member of.
SaveScanState(t) ==
    SaveThen(t, IF at[t] = "fileSaving" /\ t.kind = "perform_scan" /\ subject[t] \in Member
                THEN "parent" ELSE "session")

\* ZeroDivisionError: the archive has children and none is valid.
FailScanState(t) ==
    /\ at[t] \in {"file", "parent"}
    /\ ~Locked(Target(t))
    /\ NoValidChild(Target(t))
    /\ Goto(t, "done")
    /\ UNCHANGED <<dbVars, agent, unread, subject, read, outbox, plan, userVars, redelivered>>

\* update_progress locks the Session row and counts the files ...
CountFiles(t) ==
    /\ at[t] = "session"
    /\ ~SessionLocked
    /\ read' = [read EXCEPT ![t].progress = SessionProgress]
    /\ Goto(t, "sessionSaving")
    /\ UNCHANGED <<dbVars, agent, unread, subject, outbox, plan, userVars, redelivered>>

\* ... and saves the progress, while other File rows may have changed.
SaveProgress(t) ==
    /\ at[t] = "sessionSaving"
    /\ session' = [session EXCEPT !.progress = read[t].progress]
    /\ read' = [read EXCEPT ![t] = NothingRead]
    /\ Goto(t, IF outbox[t] = {} THEN Resume(t) ELSE "publish")
    /\ UNCHANGED <<row, progress, infected, noted, scan, agent, unread, subject, outbox,
                   plan, userVars, redelivered>>

\* The soft time limit is raised in the finally clause of perform_scan.
Overrun(f, a) ==
    LET t == PerformScan(f, a)
    IN  /\ at[t] \in Updating
        /\ "time" \in Faults
        /\ read' = [read EXCEPT ![t] = NothingRead]
        /\ Goto(t, "failed")
        /\ UNCHANGED <<dbVars, agent, unread, subject, outbox, plan, userVars, redelivered>>

-----------------------------------------------------------------------------
(* The user, the administrator and the workers *)

\* postscan_valid looks at the progress of the session only.
AcceptPostscan ==
    /\ postscan = "none"
    /\ session.progress = "full"
    /\ postscan' = "accepted"
    /\ UNCHANGED <<dbVars, agent, taskVars, copied, redelivered>>

\* Variant: only infected files are left out.
CopyNotInfectedFiles ==
    /\ postscan = "accepted"
    /\ postscan' = "copied"
    /\ copied' = {f \in Top : Created(f) /\ infected[f] # "infected"}
    /\ UNCHANGED <<dbVars, agent, taskVars, redelivered>>

\* The task postscan_copy copies the files that are clean by then.
CopyCleanFiles ==
    /\ postscan = "accepted"
    /\ postscan' = "copied"
    /\ copied' = {f \in Top : Created(f) /\ infected[f] = "clean"}
    /\ UNCHANGED <<dbVars, agent, taskVars, redelivered>>

DeactivateAgent(a) ==
    /\ AgentFaults
    /\ agent[a] = "active"
    /\ agent' = [agent EXCEPT ![a] = "inactive"]
    /\ UNCHANGED <<dbVars, taskVars, userVars, redelivered>>

\* The Scan rows of the agent stay, without an agent.
DeleteAgent(a) ==
    /\ AgentFaults
    /\ agent[a] # "deleted"
    /\ agent' = [agent EXCEPT ![a] = "deleted"]
    /\ UNCHANGED <<dbVars, taskVars, userVars, redelivered>>

\* acks_late: a task whose worker is lost returns to the broker, and what
\* it has committed stays.
Redeliver(t) ==
    /\ Cardinality(redelivered) < MaxRedeliveries
    /\ t \notin redelivered
    /\ t.kind \in Redeliverable
    /\ at[t] \notin Idle
    /\ redelivered' = redelivered \cup {t}
    /\ at' = [at EXCEPT ![t] = "queued"]
    /\ outbox' = [outbox EXCEPT ![t] = {}]
    /\ read' = [read EXCEPT ![t] = NothingRead]
    /\ UNCHANGED <<dbVars, agent, unread, subject, plan, userVars>>

-----------------------------------------------------------------------------
(* Specification *)

IngestStep == StartIngest \/ CountPath \/ CreateFile \/ RejectPath \/ EndIngest

ScanFileStep(f) ==
    \/ StartScanFile(f) \/ ReuseChildren(f) \/ FailExtraction(f)
    \/ ExtractRejected(f) \/ ExtractValid(f) \/ CountAgents(f)
    \/ NothingToScan(f) \/ NoScannerFound(f)
    \/ CreateScans(f) \/ FailScans(f) \/ EndScanFile(f)

PerformScanStep(f, a) ==
    StartPerformScan(f, a) \/ SaveResult(f, a) \/ LeaveScan(f, a)

UpdateStep(t) ==
    \/ ReadScanState(t) \/ JudgeScanState(t) \/ SaveScanState(t) \/ FailScanState(t)
    \/ CountFiles(t) \/ SaveProgress(t) \/ Publish(t)

\* A task is cut short.
FaultStep ==
    \/ BreakIngest
    \/ \E f \in Top : BreakExtraction(f)
    \/ \E f \in File, a \in Agent : Overrun(f, a)
    \/ \E t \in Task : RefusePublication(t)

WorkerStep ==
    \/ IngestStep
    \/ \E f \in Top : ScanFileStep(f)
    \/ \E f \in File, a \in Agent : PerformScanStep(f, a)
    \/ \E t \in Task : UpdateStep(t)
    \/ FaultStep

Next ==
    \/ WorkerStep
    \/ AcceptPostscan
    \/ CopyCleanFiles
    \/ \E a \in Agent : DeactivateAgent(a) \/ DeleteAgent(a)
    \/ \E t \in Task : Redeliver(t)

Spec == Init /\ [][Next]_vars

\* Some worker is always there to take the next step of some task.
FairSpec == Spec /\ WF_vars(WorkerStep)

-----------------------------------------------------------------------------
(* Properties *)

\* The files whose scans decide the verdict on f.
Leaves(f) == IF Children(f) = {} THEN {f} ELSE Children(f)

\* Enough agents have answered on x, too few of them found something, and
\* no answer is outstanding.
EarnedClean(x) ==
    /\ row[x] = "valid"
    /\ Scans(x) # {}
    /\ Pending(x) = {}
    /\ Scale * Cardinality(With(x, {"error"})) < (Scale - ValidIndex) * Cardinality(Scans(x))
    /\ Scale * Cardinality(With(x, {"infected"})) < (Scale - CleanIndex) * Cardinality(Scans(x))

\* A stored verdict "clean" (infected=False, what postscan_copy and the
\* clean counter of Session.state() select) is backed by the finished scans
\* of the file, or of every member of the archive, whatever the order in
\* which the workers create, fill in and aggregate the scans.
CleanIsEarned ==
    \A f \in File : infected[f] = "clean" => \A x \in Leaves(f) : EarnedClean(x)

\* A file with progress 100 has no scan outstanding, neither of its own nor
\* of a member: update_scan_state never runs ahead of the scans.
FullIsDone ==
    \A f \in File : progress[f] = "full" => \A x \in Leaves(f) : Pending(x) = {}

\* The same of every verdict as it becomes "clean", when a lost scan_file is
\* run again and finds the children, notes and scans of its first run: the
\* archive may then have been scanned itself, before its members were
\* extracted.  A re-scan keeps its verdict until then, with or without ground.
CleanHasGround ==
    [][redelivered \subseteq ScanFileTask =>
         \A f \in File : infected[f] # "clean" /\ infected'[f] = "clean" =>
           \/ EarnedClean(f)'
           \/ Children(f)' # {} /\ \A m \in Children(f)' : EarnedClean(m)']_vars

IngestOver == at[Ingest] \in {"none"} \cup Over

\* Once every path is indexed, a session with progress 100 has no valid file
\* left to scan (update_progress, run by concurrent tasks).
CompleteMeansScanned ==
    IngestOver /\ Complete => \A f \in ValidTop : progress[f] = "full"

\* What postscan_copy has put on the user's device stays backed by finished
\* clean scans, although it may copy while the session is still scanned.
CopiedAreClean == \A f \in copied : \A x \in Leaves(f) : EarnedClean(x)

Quiescent == \A t \in Task : at[t] \in {"none"} \cup Over

\* Some perform_scan ran out of time in the middle of its updates.
Overran == \E t \in PerformScanTask : at[t] = "failed"

Owned(f) == {f} \cup MembersOf(f)

AnyScan(f) == \E x \in Leaves(f) : Scans(x) # {}

\* When no task is left, no File row is out of date: the updates perform_scan
\* makes in its finally clause, in their order, leave none behind, unless one
\* of them ran out of time there.
FilesSettle ==
    Quiescent /\ ~Overran => \A f \in File : row[f] = "valid" /\ AnyScan(f) =>
        /\ infected[f] \in VerdictOf(f)
        /\ (progress[f] = "full") <=>
             IF Children(f) = {} THEN Pending(f) = {}
             ELSE \A m \in ValidChildren(f) : progress[m] = "full"

\* When no task is left, the Session row is up to date, unless a re-scanned
\* archive has kept its 100 because update_scan_state fails for it, or an
\* update ran out of time.
SessionSettles ==
    Quiescent /\ ~Overran /\ ValidTop # {} =>
        \/ (session.progress = "full") <=> \A f \in ValidTop : progress[f] = "full"
        \/ \E f \in ValidTop : NoValidChild(f) /\ progress[f] = "full"

\* The same when a perform_scan that had already saved its result is run
\* again and saves another one, in the middle of the updates for the first.
LateResultsSettle == redelivered \subseteq PerformScanTask => FilesSettle /\ SessionSettles

\* A scan of f stays open: its agent is gone or its driver raised what
\* perform_scan does not catch, or its task was never sent.
LeftOpen(f) ==
    \E a \in Pending(f) :
       \/ agent[a] = "deleted" \/ a \in Escapes
       \/ at[PerformScan(f, a)] = "none" /\ \E g \in Top : at[ScanFile(g)] = "refused"

\* No scan of f or of a member was created: an agent went away in between,
\* or scan_file was never sent or ended before.
NeverScanned(f) ==
    /\ row[f] = "valid" /\ ~AnyScan(f)
    /\ \/ \E a \in Agent : agent[a] # "active"
       \/ \E g \in Top : f \in Owned(g) /\ at[ScanFile(g)] \in {"refused", "failed"}

\* Why a session may stay below 100: the indexing, or the updates of a
\* perform_scan, ended before their time, or one of its files is like this.
Cause ==
    \/ at[Ingest] \in {"refused", "failed"}
    \/ Overran
    \/ \E f \in File : LeftOpen(f) \/ NeverScanned(f) \/ NoValidChild(f)

\* When no task is left, the session is finished or one of the causes above
\* has kept it: none that the workers' interleaving makes by itself.
StuckHasCause == Quiescent /\ session.progress # "full" => Cause

\* The progress of a file never leaves 100, nor does that of a session whose
\* paths are all indexed: no late update writes what it read too early.
FullStaysFull ==
    [][/\ \A f \in File : progress[f] = "full" => progress'[f] = "full"
       /\ IngestOver /\ session.progress = "full" => session'.progress = "full"]_vars

\* A known verdict on a file without children is never taken back, nor is
\* the verdict "clean" on an archive.
VerdictIsFinal ==
    [][\A f \in File :
         infected[f] = "clean" \/ (infected[f] = "infected" /\ Children(f) = {})
            => infected'[f] = infected[f]]_vars

\* Every session comes to rest, with progress 100 or for a cause: whatever the
\* drivers, the broker and the disk do, no task waits for ever for a row, a
\* result or another task.
SessionEnds == <>[](Quiescent /\ (session.progress = "full" \/ Cause))

-----------------------------------------------------------------------------
(* Why a verdict is earned: without a redelivery every task runs once.     *)

\* A path is indexed once, and only then is its scan_file published.
IndexedOnce ==
    /\ \A f \in Top : at[Ingest] = "queued" \/ f \in unread => row[f] = "none"
    /\ \A f \in Top : at[ScanFile(f)] # "none" => row[f] = "valid"
    /\ outbox[Ingest] \subseteq {ScanFile(f) : f \in ValidTop}

\* Until scan_file creates them, the file and its members have no scans;
\* until it extracts them, no member is there, and then first the rejected.
UnscannedYet ==
    \A f \in Top :
      /\ at[ScanFile(f)] \in {"none", "queued", "extract", "bulk", "count"} =>
           \A x \in Owned(f) : Scans(x) = {}
      /\ at[ScanFile(f)] \in {"none", "queued", "extract"} => Children(f) = {}
      /\ at[ScanFile(f)] = "bulk" => \A m \in Children(f) : row[m] = "rejected"
      /\ \A x \in plan[f].todo : x \in Owned(f) /\ row[x] = "valid" /\ Scans(x) = {}

\* One perform_scan is published for each scan, by the task that created it.
PublishedOnce ==
    /\ \A t \in Task : \A u \in outbox[t] : at[u] = "none"
    /\ \A f \in Top : outbox[ScanFile(f)] \subseteq
         {PerformScan(x, a) : x \in Owned(f), a \in Agent}
    /\ \A x \in File, a \in Agent : outbox[PerformScan(x, a)] = {}

\* A scan is pending until its perform_scan answers, and only of a valid file.
AnsweredOnce ==
    /\ \A t \in Task, x \in File, a \in Agent :
         PerformScan(x, a) \in outbox[t] => scan[x][a] = "pending"
    /\ \A x \in File, a \in Agent :
         /\ at[PerformScan(x, a)] # "none" => scan[x][a] # "none"
         /\ at[PerformScan(x, a)] \in {"none", "queued", "scanning"} =>
              scan[x][a] \in {"none", "pending"}
         /\ scan[x][a] # "none" => row[x] = "valid"

\* However the workers interleave, no task is published twice and no scan is
\* created, or filled in, more than once: what CleanIsEarned rests on.
TasksRunOnce == IndexedOnce /\ UnscannedYet /\ PublishedOnce /\ AnsweredOnce

-----------------------------------------------------------------------------
(* What the code's own words promise, and what it does not keep. *)

\* postscan_valid says 'Scan is not yet complete' until the scan is: no
\* post-scan operation before every path of the session has been read.
PostscanWaitsForIngest == postscan # "none" => session.analyze = "full"

\* Session.state() titles a progress of 100 'Scanning files finished'.
ScanningFinished ==
    session.progress = "full" => \A f \in Top : \A x \in Leaves(f) : Pending(x) = {}

=============================================================================
