----------------------------- MODULE AgentUpdate -----------------------------
(***************************************************************************)
(* The virus-definition updates of one Agent (agents/): the views           *)
(* update_from_disk and update_from_upload set the updating flag of the     *)
(* Agent row under its lock and publish the task perform_update, which      *)
(* clears the flag in its finally clause.  Meanwhile an administrator may   *)
(* delete the UpdateFile or PATCH the agent, which saves the whole row as   *)
(* it was read.                                                             *)
(***************************************************************************)
EXTENDS Naturals, FiniteSets

CONSTANTS
    Update,          \* accepted or attempted updates, each with its UpdateFile and its task
    Editor,          \* PATCH requests on the agent
    BrokerFaults,    \* publishing the task may fail
    Deletions,       \* UpdateFile rows may be deleted
    MaxRedeliveries  \* bound on how often a task is run again (acks_late)

ASSUME UpdateAssumption ==
    /\ BrokerFaults \in BOOLEAN
    /\ Deletions \in BOOLEAN
    /\ MaxRedeliveries \in Nat

VARIABLES
    updating,     \* Agent.updating
    file,         \* UpdateFile row of each update: "none", "stored" or "deleted"
    task,         \* where each update is
    editor,       \* where each PATCH is: "idle", "read" or "written"
    seen,         \* the flag a PATCH has read and will write back
    redelivered   \* number of redeliveries so far

vars == <<updating, file, task, editor, seen, redelivered>>

TaskStage == {"none", "committed", "lost", "queued", "running", "answered", "cleared",
              "done", "missing"}

TypeOK ==
    /\ updating \in BOOLEAN
    /\ file \in [Update -> {"none", "stored", "deleted"}]
    /\ task \in [Update -> TaskStage]
    /\ editor \in [Editor -> {"idle", "read", "written"}]
    /\ seen \in [Editor -> BOOLEAN]
    /\ redelivered \in Nat

Init ==
    /\ updating = FALSE
    /\ file = [u \in Update |-> "none"]
    /\ task = [u \in Update |-> "none"]
    /\ editor = [e \in Editor |-> "idle"]
    /\ seen = [e \in Editor |-> FALSE]
    /\ redelivered = 0

Move(u, from, to) == task[u] = from /\ task' = [task EXCEPT ![u] = to]

-----------------------------------------------------------------------------
(* The request and the task *)

\* Variant: the view does not filter on updating=False.
AcceptAnyway(u) ==
    /\ Move(u, "none", "committed")
    /\ updating' = TRUE
    /\ file' = [file EXCEPT ![u] = "stored"]
    /\ UNCHANGED <<editor, seen, redelivered>>

\* filter(updating=False).select_for_update(): PostgreSQL evaluates the
\* filter again once it has the lock, so the transaction is one step.
Accept(u) ==
    /\ Move(u, "none", "committed")
    /\ ~updating
    /\ updating' = TRUE
    /\ file' = [file EXCEPT ![u] = "stored"]
    /\ UNCHANGED <<editor, seen, redelivered>>

\* transaction.on_commit: the broker is called after the commit ...
Publish(u) ==
    /\ Move(u, "committed", "queued")
    /\ UNCHANGED <<updating, file, editor, seen, redelivered>>

\* ... and when that fails, the flag stays set.
FailToPublish(u) ==
    /\ BrokerFaults
    /\ Move(u, "committed", "lost")
    /\ UNCHANGED <<updating, file, editor, seen, redelivered>>

StartUpdate(u) ==
    /\ Move(u, "queued", "running")
    /\ file[u] = "stored"
    /\ UNCHANGED <<updating, file, editor, seen, redelivered>>

\* UpdateFile.objects.get is outside the try: the flag stays set.
MissUpdateFile(u) ==
    /\ Move(u, "queued", "missing")
    /\ file[u] = "deleted"
    /\ UNCHANGED <<updating, file, editor, seen, redelivered>>

\* The antivirus answers or fails and the row is saved, which creates it
\* again when it was deleted meanwhile.
SaveStatus(u) ==
    /\ Move(u, "running", "answered")
    /\ file' = [file EXCEPT ![u] = "stored"]
    /\ UNCHANGED <<updating, editor, seen, redelivered>>

\* Variant: the finally clause is missing.
KeepUpdating(u) ==
    /\ Move(u, "answered", "cleared")
    /\ UNCHANGED <<updating, file, editor, seen, redelivered>>

\* finally: Agent.objects.filter(...).update(updating=False)
ClearUpdating(u) ==
    /\ Move(u, "answered", "cleared")
    /\ updating' = FALSE
    /\ UNCHANGED <<file, editor, seen, redelivered>>

Acknowledge(u) ==
    /\ Move(u, "cleared", "done")
    /\ UNCHANGED <<updating, file, editor, seen, redelivered>>

-----------------------------------------------------------------------------
(* The administrator and the broker *)

DeleteUpdateFile(u) ==
    /\ Deletions
    /\ file[u] = "stored"
    /\ file' = [file EXCEPT ![u] = "deleted"]
    /\ UNCHANGED <<updating, task, editor, seen, redelivered>>

\* PATCH: get_object() reads the Agent row ...
ReadAgent(e) ==
    /\ editor[e] = "idle"
    /\ editor' = [editor EXCEPT ![e] = "read"]
    /\ seen' = [seen EXCEPT ![e] = updating]
    /\ UNCHANGED <<updating, file, task, redelivered>>

\* ... and save() writes every column of it, the updating flag included.
WriteAgent(e) ==
    /\ editor[e] = "read"
    /\ editor' = [editor EXCEPT ![e] = "written"]
    /\ updating' = seen[e]
    /\ UNCHANGED <<file, task, seen, redelivered>>

\* acks_late: a task whose worker is lost before the acknowledgement.
Redeliver(u) ==
    /\ redelivered < MaxRedeliveries
    /\ task[u] \in {"running", "answered", "cleared"}
    /\ task' = [task EXCEPT ![u] = "queued"]
    /\ redelivered' = redelivered + 1
    /\ UNCHANGED <<updating, file, editor, seen>>

TaskStep(u) ==
    \/ Publish(u) \/ StartUpdate(u) \/ MissUpdateFile(u)
    \/ SaveStatus(u) \/ ClearUpdating(u) \/ Acknowledge(u)

\* The steps a worker always takes.  Saving the status is not one of them: the
\* antivirus has to answer first, its connection has no timeout
\* (sync_request_timeout is None) and the task no time limit.
FairStep(u) ==
    Publish(u) \/ StartUpdate(u) \/ MissUpdateFile(u) \/ ClearUpdating(u) \/ Acknowledge(u)

Next ==
    \/ \E u \in Update : \/ Accept(u) \/ TaskStep(u) \/ FailToPublish(u)
                         \/ DeleteUpdateFile(u) \/ Redeliver(u)
    \/ \E e \in Editor : ReadAgent(e) \/ WriteAgent(e)

Spec == Init /\ [][Next]_vars

\* A worker is always there for the next step of a published task; the host of
\* the antivirus need never answer.
FairSpec == Spec /\ \A u \in Update : WF_vars(FairStep(u))

-----------------------------------------------------------------------------
(* Properties *)

\* Updates the flag has to stand for.
UnderWay == {u \in Update : task[u] \in {"committed", "lost", "queued", "running", "answered",
                                         "missing"}}

\* The view answers 'Agent is already in update process': two updates are
\* never run against the same antivirus at the same time.
OneUpdateAtATime ==
    \A u, v \in Update : task[u] \in {"running", "answered"} /\ task[v] \in {"running", "answered"}
                            => u = v

\* What may leave the flag set: a task that was never published, one that
\* found its UpdateFile deleted, or a PATCH that wrote the flag back.
LeftSet ==
    \/ \E u \in Update : task[u] \in {"lost", "missing"}
    \/ \E e \in Editor : editor[e] = "written" /\ seen[e]

AtRest == \A u \in Update : task[u] \in {"none", "lost", "done", "missing"}

\* When nothing is under way and the flag is still set, the agent refuses every
\* further update: that is so only for one of the causes of LeftSet.
StuckFlagHasCause == AtRest /\ updating => LeftSet

\* No update waits for ever for an antivirus that does not answer.
HostsAnswer == \A u \in Update : []<>(task[u] # "running")

\* Every update that is accepted is over some day, and the agent accepts another,
\* unless one of those causes has left the flag set or a host hangs: nothing ends
\* an update whose antivirus never answers, and its agent refuses every other.
UpdatesEnd == HostsAnswer => (updating ~> (~updating \/ LeftSet))

\* Nobody has written the flag back, and no task was run again.
Undisturbed == redelivered = 0 /\ \A e \in Editor : editor[e] # "written"

\* Until then the flag implements OneAtATime: an update is accepted only when
\* the task of the one before has cleared the flag.
Abstract == INSTANCE OneAtATime WITH
    current <- UnderWay,
    over    <- {u \in Update : task[u] \in {"cleared", "done"}},
    void    <- ~Undisturbed

ImplementsOneAtATime == Abstract!Spec
=============================================================================
