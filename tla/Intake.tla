------------------------------- MODULE Intake -------------------------------
(***************************************************************************)
(* How one session comes to be and may be ended from outside: an upload, a *)
(* URL or a path is turned into a File row, tasks are published under an   *)
(* entry of the TaskLog, and the user terminates or deletes the session or *)
(* cleans the disk up while they run.  What the scans of a session mean    *)
(* for its verdicts is left to ScanSession; files here are plain files.    *)
(***************************************************************************)
EXTENDS Naturals, FiniteSets, Sequences

CONSTANTS
    Scanner,      \* the active agents
    MaxFiles,     \* bound on the File rows of a session
    MaxLosses     \* bound on losses of the celery worker

ASSUME IntakeAssumption == MaxFiles \in Nat \ {0} /\ MaxLosses \in Nat

VARIABLES
    request,   \* the request: its source, its scan and extract flags
    exists,    \* the Session row: "none", "there" or "deleted"
    total,     \* Session.progress: "none", "part" or "full"
    files,     \* File rows: "none", "valid", "refused" or "cleaned" (deleted=True), or
               \* "written": a file in the storage that has no row yet
    stored,    \* files in the storage
    rows,      \* Scan rows: "none", "pending" or "answered"
    place,     \* where each task is
    todo,      \* what the request or a running task still has to publish
    log,       \* TaskLog: the tasks with an entry
    revoked,   \* ids of waiting tasks that the worker remembers as revoked
    sent,      \* revokes broadcast to the worker that it has not handled yet
    up,        \* the worker is running
    losses,    \* how often it has been lost
    terminate, \* the terminate request: its stage, the entries left, the tasks that were waiting
    cleaning   \* files whose source cleanup_disk has deleted, not yet marked

sessionVars == <<exists, total, files, stored, rows>>
brokerVars == <<place, todo, log>>
workerVars == <<revoked, sent, up, losses>>
intakeVars == <<request, sessionVars, brokerVars, workerVars, terminate, cleaning>>

FileNo == 1 .. MaxFiles

Client == [kind |-> "request"]
CreateTask == [kind |-> "create"]
ScanTask(f) == [kind |-> "scan_file", file |-> f]
RowTask(f, a) == [kind |-> "perform_scan", file |-> f, agent |-> a]

IntakeTask ==
    {CreateTask} \cup {ScanTask(f) : f \in FileNo} \cup {RowTask(f, a) : f \in FileNo, a \in Scanner}

\* "ended": the task is over and its entry removed, the message not yet acknowledged;
\* "dropped": it was purged or terminated by itself, which leaves its entry.
Running == {"running", "stored", "saved", "publishing"}
Alive == {"queued", "ended"} \cup Running

IntakeTypeOK ==
    /\ request \in [source : {"none", "upload", "url", "path"}, scan : BOOLEAN, extract : BOOLEAN]
    /\ exists \in {"none", "there", "deleted"}
    /\ total \in {"none", "part", "full"}
    /\ files \in [FileNo -> {"none", "written", "valid", "refused", "cleaned"}]
    /\ stored \subseteq FileNo
    /\ rows \in [FileNo \X Scanner -> {"none", "pending", "answered"}]
    /\ place \in [IntakeTask -> {"none", "unsent", "gone", "dropped"} \cup Alive]
    /\ todo \in [IntakeTask \cup {Client} -> SUBSET IntakeTask]
    /\ log \subseteq IntakeTask
    /\ revoked \subseteq IntakeTask
    /\ sent \subseteq IntakeTask
    /\ up \in BOOLEAN
    /\ losses \in 0 .. MaxLosses
    /\ terminate \in [stage : {"idle", "revoking", "done", "broken"},
                      left : SUBSET IntakeTask, waiting : SUBSET IntakeTask]
    /\ cleaning \subseteq FileNo

IntakeInit ==
    /\ request = [source |-> "none", scan |-> FALSE, extract |-> FALSE]
    /\ exists = "none"
    /\ total = "none"
    /\ files = [f \in FileNo |-> "none"]
    /\ stored = {}
    /\ rows = [p \in FileNo \X Scanner |-> "none"]
    /\ place = [t \in IntakeTask |-> "none"]
    /\ todo = [t \in IntakeTask \cup {Client} |-> {}]
    /\ log = {}
    /\ revoked = {}
    /\ sent = {}
    /\ up = TRUE
    /\ losses = 0
    /\ terminate = [stage |-> "idle", left |-> {}, waiting |-> {}]
    /\ cleaning = {}

-----------------------------------------------------------------------------
(* The request *)

\* The next file of the session.
Unused(f) ==
    /\ files[f] = "none" /\ f \notin stored
    /\ \A g \in FileNo : IF g < f THEN files[g] # "none" ELSE files[g] # "written"

\* The file that the running task has written to the storage.
LastWritten(f) == files[f] = "written" /\ \A g \in FileNo : files[g] = "written" => g <= f

\* What follows the creation of a file.  (set_file_info comes before it; whatever
\* becomes of that task only its own FileInfo row depends on it.)
FollowUps(f, scan) == IF scan THEN {ScanTask(f)} ELSE {}

\* FileSerializer.create: all in the request; its tasks are published at the end.
Upload(scan, extract) ==
    /\ request.source = "none"
    /\ request' = [source |-> "upload", scan |-> scan, extract |-> extract]
    /\ exists' = "there"
    /\ files' = [files EXCEPT ![1] = "valid"]
    /\ stored' = {1}
    /\ todo' = [todo EXCEPT ![Client] = FollowUps(1, scan)]
    /\ UNCHANGED <<total, rows, place, log, workerVars, terminate, cleaning>>

\* create_from_url of the manager: the session, then the task.
FromUrl(scan, extract) ==
    /\ request.source = "none"
    /\ request' = [source |-> "url", scan |-> scan, extract |-> extract]
    /\ exists' = "there"
    /\ todo' = [todo EXCEPT ![Client] = {CreateTask}]
    /\ UNCHANGED <<total, files, stored, rows, place, log, workerVars, terminate, cleaning>>

\* create_from_path of the manager: the session, then a call without the
\* session's key, which fails.
FromPath(scan, extract) ==
    /\ request.source = "none"
    /\ request' = [source |-> "path", scan |-> scan, extract |-> extract]
    /\ exists' = "there"
    /\ UNCHANGED <<total, files, stored, rows, brokerVars, workerVars, terminate, cleaning>>

-----------------------------------------------------------------------------
(* Publishing *)

\* Variant: the tasks that a task publishes get no entry.
RegisterRequests(t) == IF t.kind = "perform_scan" THEN log ELSE log \cup {t}

\* register_task_id
Register(t) == log \cup {t}

\* The entry is created first; a message that cannot be sent ends the publisher's work.
PublishNext(p) ==
    \E t \in todo[p] :
        /\ log' = Register(t)
        /\ \/ place' = [place EXCEPT ![t] = "queued"] /\ todo' = [todo EXCEPT ![p] = @ \ {t}]
           \/ place' = [place EXCEPT ![t] = "unsent"] /\ todo' = [todo EXCEPT ![p] = {}]
        /\ UNCHANGED <<request, sessionVars, workerVars, terminate, cleaning>>

-----------------------------------------------------------------------------
(* The tasks *)

StartTask(t) ==
    /\ up
    /\ place[t] = "queued"
    /\ place' = [place EXCEPT ![t] = IF t \notin revoked THEN "running"
                                     ELSE IF t \in log THEN "dropped" ELSE "gone"]
    /\ revoked' = revoked \ {t}
    /\ UNCHANGED <<request, sessionVars, todo, log, sent, up, losses, terminate, cleaning>>

\* Variant: the entry of a task stays.
KeepEntry(t) == place' = [place EXCEPT ![t] = "ended"] /\ log' = log

\* task_postrun: remove_task_id, whether the task succeeded or not.
Over(t) == place' = [place EXCEPT ![t] = "ended"] /\ log' = log \ {t}

Acknowledged(t) ==
    /\ up
    /\ place[t] = "ended"
    /\ place' = [place EXCEPT ![t] = "gone"]
    /\ UNCHANGED <<request, sessionVars, todo, log, workerVars, terminate, cleaning>>

Valid(fs) == {f \in FileNo : fs[f] \in {"valid", "cleaned"}}

Scanned(f, rs) ==
    /\ \E a \in Scanner : rs[<<f, a>>] # "none"
    /\ \A a \in Scanner : rs[<<f, a>>] # "pending"

\* Variant: refused files are waited for as well.
RecountEvery(fs, rs) ==
    IF \A f \in FileNo : fs[f] \in {"none", "written"} \/ Scanned(f, rs)
    THEN "full" ELSE "part"

\* update_scan_state and update_progress together.
Recount(fs, rs) == IF \A f \in Valid(fs) : Scanned(f, rs) THEN "full" ELSE "part"

\* create_from_url refuses the address or the size, or cannot download the file.
Refuse ==
    /\ place[CreateTask] = "running"
    /\ exists = "there"
    /\ \E f \in FileNo :
          /\ Unused(f)
          /\ files' = [files EXCEPT ![f] = "refused"]
          /\ total' = Recount(files', rows)
    /\ Over(CreateTask)
    /\ UNCHANGED <<request, exists, stored, rows, todo, workerVars, terminate, cleaning>>

\* File.objects.create: the FileField writes the download to the storage ...
Store ==
    /\ place[CreateTask] = "running"
    /\ \E f \in FileNo :
          /\ Unused(f)
          /\ stored' = stored \cup {f}
          /\ files' = [files EXCEPT ![f] = "written"]
    /\ place' = [place EXCEPT ![CreateTask] = "stored"]
    /\ UNCHANGED <<request, exists, total, rows, todo, log, workerVars, terminate, cleaning>>

\* ... before its row is inserted ...
InsertRow ==
    /\ place[CreateTask] = "stored"
    /\ exists = "there"
    /\ \E f \in FileNo : LastWritten(f) /\ files' = [files EXCEPT ![f] = "valid"]
    /\ place' = [place EXCEPT ![CreateTask] = "saved"]
    /\ UNCHANGED <<request, exists, total, stored, rows>>
    /\ UNCHANGED <<todo, log, workerVars, terminate, cleaning>>

\* ... which fails when the session is gone by then or the name is too long.
FailInsert ==
    /\ place[CreateTask] = "stored"
    /\ Over(CreateTask)
    /\ UNCHANGED <<request, sessionVars, todo, workerVars, terminate, cleaning>>

\* A download whose mimetype is refused gets its row and loses its source in one transaction.
RefuseType ==
    /\ place[CreateTask] = "stored"
    /\ exists = "there"
    /\ \E f \in FileNo :
          /\ LastWritten(f)
          /\ files' = [files EXCEPT ![f] = "refused"]
          /\ stored' = stored \ {f}
          /\ total' = Recount(files', rows)
    /\ Over(CreateTask)
    /\ UNCHANGED <<request, exists, rows, todo, workerVars, terminate, cleaning>>

Newest == CHOOSE f \in Valid(files) : \A g \in Valid(files) : g <= f

\* Once it has the row it deletes the source again, counts, and goes on to publish.
DropSource ==
    /\ place[CreateTask] = "saved"
    /\ IF exists = "there"
       THEN /\ stored' = stored \ {Newest}
            /\ total' = Recount(files, rows)
            /\ todo' = [todo EXCEPT ![CreateTask] = FollowUps(Newest, request.scan)]
            /\ place' = [place EXCEPT ![CreateTask] = "publishing"]
            /\ log' = log
       ELSE UNCHANGED <<stored, total, todo>> /\ Over(CreateTask)
    /\ UNCHANGED <<request, exists, files, rows, workerVars, terminate, cleaning>>

EndPublishing(t) ==
    /\ place[t] = "publishing"
    /\ todo[t] = {}
    /\ Over(t)
    /\ UNCHANGED <<request, sessionVars, todo, workerVars, terminate, cleaning>>

\* A task whose row is gone, a scan_file that opens a missing source to see
\* whether it is an archive, that is told to skip the file, or that finds Scan rows.
CannotScan(f) ==
    \/ exists = "deleted"
    \/ request.extract /\ f \notin stored
    \/ files[f] = "cleaned"
    \/ \E a \in Scanner : rows[<<f, a>>] # "none"

SkipFile(f) ==
    /\ place[ScanTask(f)] = "running"
    /\ CannotScan(f)
    /\ Over(ScanTask(f))
    /\ UNCHANGED <<request, sessionVars, todo, workerVars, terminate, cleaning>>

CreateRows(f) ==
    /\ place[ScanTask(f)] = "running"
    /\ ~CannotScan(f)
    /\ rows' = [p \in DOMAIN rows |-> IF p[1] = f THEN "pending" ELSE rows[p]]
    /\ total' = Recount(files, rows')
    /\ todo' = [todo EXCEPT ![ScanTask(f)] = {RowTask(f, a) : a \in Scanner}]
    /\ place' = [place EXCEPT ![ScanTask(f)] = "publishing"]
    /\ UNCHANGED <<request, exists, files, stored, log, workerVars, terminate, cleaning>>

\* perform_scan answers with a result or an error, or ends in an exception that
\* it does not expect and leaves the row as it is.
AnswerRow(f, a) ==
    /\ place[RowTask(f, a)] = "running"
    /\ IF exists = "there"
       THEN rows' \in {rows, [rows EXCEPT ![<<f, a>>] = "answered"]} /\ total' = Recount(files, rows')
       ELSE UNCHANGED <<rows, total>>
    /\ Over(RowTask(f, a))
    /\ UNCHANGED <<request, exists, files, stored, todo, workerVars, terminate, cleaning>>

-----------------------------------------------------------------------------
(* The worker *)

\* It is lost with everything it remembers and what was broadcast to it; what it had
\* not acknowledged is delivered again.
LoseWorker ==
    /\ up
    /\ losses < MaxLosses
    /\ losses' = losses + 1
    /\ up' = FALSE
    /\ revoked' = {} /\ sent' = {}
    /\ place' = [t \in IntakeTask |-> IF place[t] \in Alive THEN "queued" ELSE place[t]]
    /\ todo' = [p \in DOMAIN todo |-> IF p = Client THEN todo[p] ELSE {}]
    /\ UNCHANGED <<request, sessionVars, log, terminate, cleaning>>

RestartWorker ==
    /\ ~up
    /\ up' = TRUE
    /\ UNCHANGED <<request, sessionVars, brokerVars, revoked, sent, losses, terminate, cleaning>>

-----------------------------------------------------------------------------
(* terminate, delete and cleanup *)

\* The entries are read once.
BeginTerminate ==
    /\ exists # "none"
    /\ terminate.stage = "idle"
    /\ terminate' = [stage |-> "revoking", left |-> log,
                     waiting |-> {t \in IntakeTask : place[t] = "queued"}]
    /\ UNCHANGED <<request, sessionVars, brokerVars, workerVars, cleaning>>

\* control.revoke is a broadcast nobody acknowledges: a worker that is not there is
\* told nothing.
Broadcast(t) == IF up THEN sent \cup {t} ELSE sent

\* The revoke is sent, the entry deleted.
RevokeTask(t) ==
    /\ t \in terminate.left
    /\ terminate' = [terminate EXCEPT !.left = @ \ {t}]
    /\ log' = log \ {t}
    /\ sent' = Broadcast(t)
    /\ UNCHANGED <<request, sessionVars, place, todo, revoked, up, losses, cleaning>>

\* The worker hears of it: a running task is killed, a waiting one remembered.
DeliverRevoke(t) ==
    /\ up
    /\ t \in sent
    /\ sent' = sent \ {t}
    /\ revoked' = IF place[t] = "queued" THEN revoked \cup {t} ELSE revoked
    /\ IF place[t] \in Running
       THEN /\ place' = [place EXCEPT ![t] = IF t \in log THEN "dropped" ELSE "gone"]
            /\ todo' = [todo EXCEPT ![t] = {}]
       ELSE UNCHANGED <<place, todo>>
    /\ UNCHANGED <<request, sessionVars, log, up, losses, terminate, cleaning>>

EndTerminate ==
    /\ terminate.stage = "revoking"
    /\ terminate.left = {}
    /\ terminate' = [terminate EXCEPT !.stage = "done"]
    /\ UNCHANGED <<request, sessionVars, brokerVars, workerVars, cleaning>>

\* The connection to the broker breaks, before or after the last revoke was sent.
BreakTerminate ==
    /\ terminate.left # {}
    /\ terminate' = [terminate EXCEPT !.stage = "broken", !.left = {}]
    /\ sent' \in {sent} \cup {Broadcast(t) : t \in terminate.left}
    /\ UNCHANGED <<request, sessionVars, brokerVars, revoked, up, losses, cleaning>>

\* terminate of the TaskViewSet: one task by its id, whatever session it is of.
TerminateTask(t) ==
    /\ place[t] \in {"queued"} \cup Running
    /\ sent' = Broadcast(t)
    /\ UNCHANGED <<request, sessionVars, brokerVars, revoked, up, losses, terminate, cleaning>>

\* terminateall of the TaskViewSet: purge takes the messages that are not reserved yet.
Purge(t) ==
    /\ place[t] = "queued"
    /\ place' = [place EXCEPT ![t] = "dropped"]
    /\ UNCHANGED <<request, sessionVars, todo, log, workerVars, terminate, cleaning>>

\* Variant: deleting a File row leaves its source.
DeleteRowsOnly ==
    /\ exists = "there"
    /\ exists' = "deleted"
    /\ files' = [f \in FileNo |-> IF files[f] = "written" THEN "written" ELSE "none"]
    /\ rows' = [p \in DOMAIN rows |-> "none"]
    /\ stored' = stored
    /\ UNCHANGED <<request, total, brokerVars, workerVars, terminate, cleaning>>

\* Rows of files and scans go with the session, and sources with their rows
\* (post_delete_file), but for a source that has none; the entries of the TaskLog stay.
DeleteSession ==
    /\ exists = "there"
    /\ exists' = "deleted"
    /\ files' = [f \in FileNo |-> IF files[f] = "written" THEN "written" ELSE "none"]
    /\ rows' = [p \in DOMAIN rows |-> "none"]
    /\ stored' = {f \in stored : files[f] \in {"none", "written"}}
    /\ UNCHANGED <<request, total, brokerVars, workerVars, terminate, cleaning>>

\* cleanup_disk: the source of any old file, scanned or not, then its row.
CleanSource(f) ==
    /\ files[f] = "valid"
    /\ f \notin cleaning
    /\ stored' = stored \ {f}
    /\ cleaning' = cleaning \cup {f}
    /\ UNCHANGED <<request, exists, total, files, rows, brokerVars, workerVars, terminate>>

MarkCleaned(f) ==
    /\ f \in cleaning
    /\ cleaning' = cleaning \ {f}
    /\ files' = [files EXCEPT ![f] = IF @ = "valid" THEN "cleaned" ELSE @]
    /\ UNCHANGED <<request, exists, total, stored, rows, brokerVars, workerVars, terminate>>

-----------------------------------------------------------------------------
(* Specification *)

TaskStep ==
    \/ \E t \in IntakeTask : StartTask(t) \/ Acknowledged(t) \/ EndPublishing(t)
    \/ \E p \in DOMAIN todo : PublishNext(p)
    \/ Refuse \/ Store \/ InsertRow \/ FailInsert \/ RefuseType \/ DropSource
    \/ \E f \in FileNo : SkipFile(f) \/ CreateRows(f)
    \/ \E f \in FileNo, a \in Scanner : AnswerRow(f, a)

IntakeNext ==
    \/ \E scan, extract \in BOOLEAN :
          Upload(scan, extract) \/ FromUrl(scan, extract) \/ FromPath(scan, extract)
    \/ TaskStep
    \/ LoseWorker \/ RestartWorker
    \/ BeginTerminate \/ EndTerminate \/ BreakTerminate
    \/ \E t \in IntakeTask : RevokeTask(t) \/ DeliverRevoke(t) \/ TerminateTask(t) \/ Purge(t)
    \/ DeleteSession
    \/ \E f \in FileNo : CleanSource(f) \/ MarkCleaned(f)

IntakeSpec == IntakeInit /\ [][IntakeNext]_intakeVars

-----------------------------------------------------------------------------
(* Properties *)

\* Once terminate has answered, no task that was published before it read the TaskLog
\* starts, unless the worker was lost, which forgets what was revoked, or has not heard
\* of the revoke yet: nobody waits until it has.
TerminatedStayDown ==
    [][\A t \in terminate.waiting :
          terminate.stage = "done" /\ place[t] = "queued" /\ place'[t] = "running" =>
              losses > 0 \/ t \in sent]_intakeVars

\* An entry of the TaskLog belongs to a task that waits or runs, unless its message was
\* never sent or the task was purged, or revoked without terminate getting to its entry.
EntriesHaveTasks == \A t \in log : place[t] \in {"queued", "unsent", "dropped"} \cup Running

\* A stored file has a row, so that delete and cleanup reach it, unless the task that
\* stores it has not inserted the row yet, or ended between the two: it was terminated,
\* the row refused, or the worker lost.
StoredHaveRows ==
    \A f \in stored :
        \/ files[f] \notin {"none", "written"}
        \/ /\ files[f] = "written"
           /\ place[CreateTask] \in {"stored", "ended", "gone", "dropped"} \/ losses > 0

Quiet ==
    /\ todo[Client] = {}
    /\ \A t \in IntakeTask : place[t] \notin Alive
    /\ terminate.stage # "revoking"
    /\ exists = "there"

\* Why a session on which nothing runs any more may not be at 100.
StoppedShort ==
    \/ request.source = "path" \/ ~request.scan
    \/ \E t \in IntakeTask : place[t] \in {"unsent", "dropped"}
    \/ terminate.stage # "idle"
    \/ request.source = "url" /\ request.extract
    \/ \E f \in FileNo : files[f] \in {"cleaned", "written"} \/ f \in cleaning
    \/ \E f \in FileNo, a \in Scanner : rows[<<f, a>>] = "pending" /\ place[RowTask(f, a)] = "gone"
    \/ losses > 0 /\ \E f \in Valid(files) :
          \/ place[ScanTask(f)] = "none"
          \/ \E a \in Scanner : rows[<<f, a>>] = "pending" /\ place[RowTask(f, a)] = "none"

\* A session on which nothing runs any more is at 100, unless it was asked for by
\* path, not to be scanned, terminated, cleaned up, cut short by a message that was
\* not sent, a row that was refused, a task that was dropped or a scan that was not
\* answered, run again by a second worker, or is an extraction of a download, whose
\* source is gone.
QuietIsFull == Quiet /\ total # "full" => StoppedShort

\* Every scan finds the source of its file, unless the disk was cleaned up.
SourceIsThere ==
    \A f \in Valid(files), a \in Scanner :
        place[RowTask(f, a)] = "running" => f \in stored \/ files[f] = "cleaned" \/ f \in cleaning
=============================================================================
