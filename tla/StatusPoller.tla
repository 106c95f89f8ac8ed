---------------------------- MODULE StatusPoller ----------------------------
(***************************************************************************)
(* The status of the agents: the service that asks every active agent in   *)
(* turn and writes what it answers into the row, while administrators      *)
(* PATCH and delete the rows.  Every request to an agent waits without a   *)
(* limit, and only some exceptions are expected.                           *)
(***************************************************************************)
EXTENDS Naturals

CONSTANTS
    Polled,  \* the agents
    Form     \* PATCH requests on them

VARIABLES
    row,     \* Agent.active of each: "active", "inactive", or "deleted" without a row
    status,  \* Agent.status: "none" or what was measured last, "set"
    host,    \* how each agent answers for now
    poller,  \* the service: "down", "resting", "asking", "waiting" or "writing"
    toAsk,   \* the agents of this pass it has still to ask
    asked,   \* the agent it is at, if any
    fresh,   \* agents whose status this pass has written
    form,    \* each PATCH: its stage, its agent, the columns it has read
    late     \* agents whose status was written when they were inactive, and is still in
             \* the row or in a PATCH that has read it

pollerVars == <<poller, toAsk, asked, fresh>>
pollVars == <<row, status, host, pollerVars, form, late>>

Measure == {"up", "failed"}
NoForm == [stage |-> "idle", agent |-> {}, active |-> FALSE, status |-> "none"]

PollTypeOK ==
    /\ row \in [Polled -> {"active", "inactive", "deleted"}]
    /\ status \in [Polled -> {"none", "set"}]
    /\ host \in [Polled -> Measure \cup {"raises", "hangs"}]
    /\ poller \in {"down", "resting", "asking", "waiting", "writing"}
    /\ toAsk \subseteq Polled /\ asked \subseteq Polled /\ fresh \subseteq Polled
    /\ form \in [Form -> [stage : {"idle", "read"}, agent : SUBSET Polled,
                          active : BOOLEAN, status : {"none", "set"}]]
    /\ late \subseteq Polled

PollInit ==
    /\ row = [a \in Polled |-> "active"]
    /\ status = [a \in Polled |-> "none"]
    /\ host = [a \in Polled |-> "up"]
    /\ poller = "down"
    /\ toAsk = {} /\ asked = {} /\ fresh = {}
    /\ form = [e \in Form |-> NoForm]
    /\ late = {}

-----------------------------------------------------------------------------
(* The service *)

\* systemd starts it, and starts it again whatever ended it.
StartPoller ==
    /\ poller = "down"
    /\ poller' = "resting"
    /\ UNCHANGED <<row, status, host, toAsk, asked, fresh, form, late>>

\* The query is evaluated once, in the order of the table.
StartPass ==
    /\ poller = "resting"
    /\ poller' = "asking"
    /\ toAsk' = {a \in Polled : row[a] = "active"}
    /\ fresh' = {}
    /\ UNCHANGED <<row, status, host, asked, form, late>>

AskAgent(a) ==
    /\ poller = "asking" /\ a \in toAsk
    /\ poller' = "waiting"
    /\ asked' = {a}
    /\ toAsk' = toAsk \ {a}
    /\ UNCHANGED <<row, status, host, fresh, form, late>>

\* Variant: the first agent in trouble ends the pass.
BreakPass(a) == IF host[a] = "failed" THEN {} ELSE toAsk

Remaining(a) == toAsk

\* Trouble with an agent is its status; an exception that is not expected ends the
\* service.  One that does not answer is waited for.
GetAnswer(a) ==
    /\ poller = "waiting" /\ a \in asked
    /\ host[a] # "hangs"
    /\ IF host[a] = "raises"
       THEN poller' = "down" /\ toAsk' = {} /\ asked' = {}
       ELSE poller' = "writing" /\ toAsk' = Remaining(a) /\ asked' = asked
    /\ UNCHANGED <<row, status, host, fresh, form, late>>

\* filter(pk=agent.pk).update(status=status), active or not.
WriteStatus(a) ==
    /\ poller = "writing" /\ a \in asked
    /\ poller' = "asking"
    /\ asked' = {}
    /\ fresh' = fresh \cup {a}
    /\ status' = [status EXCEPT ![a] = IF row[a] = "deleted" THEN "none" ELSE "set"]
    /\ late' = IF row[a] = "inactive" THEN late \cup {a} ELSE late
    /\ UNCHANGED <<row, host, toAsk, form>>

EndPass ==
    /\ poller = "asking" /\ toAsk = {}
    /\ poller' = "resting"
    /\ UNCHANGED <<row, status, host, toAsk, asked, fresh, form, late>>

-----------------------------------------------------------------------------
(* The agents and the administrators *)

ChangeHost(a) ==
    /\ \E h \in Measure \cup {"raises", "hangs"} : h # host[a] /\ host' = [host EXCEPT ![a] = h]
    /\ UNCHANGED <<row, status, pollerVars, form, late>>

\* PATCH: get_object() reads the row ...
ReadForm(e, a) ==
    /\ form[e].stage = "idle" /\ row[a] # "deleted"
    /\ form' = [form EXCEPT ![e] = [stage |-> "read", agent |-> {a}, active |-> row[a] = "active",
                                    status |-> status[a]]]
    /\ UNCHANGED <<row, status, host, pollerVars, late>>

\* Variant: an agent that is made inactive keeps its status.
KeptStatus(e, given) == form[e].status

FormStatus(e, given) == IF given = {FALSE} THEN "none" ELSE form[e].status

\* A PATCH that has read a status from the row of an inactive agent will write it again.
HoldsLate(e, a) == form[e].agent = {a} /\ ~form[e].active /\ form[e].status # "none"

\* ... and save() writes every column, as given or as read, and inserts a row again
\* that was deleted meanwhile.
SaveForm(e, given) ==
    /\ form[e].stage = "read"
    /\ form' = [form EXCEPT ![e] = NoForm]
    /\ \E a \in form[e].agent :
          /\ row' = [row EXCEPT ![a] = IF TRUE \in given \/ (given = {} /\ form[e].active)
                                      THEN "active" ELSE "inactive"]
          /\ status' = [status EXCEPT ![a] = FormStatus(e, given)]
          /\ late' = IF given = {FALSE} /\ ~\E o \in Form \ {e} : HoldsLate(o, a)
                     THEN late \ {a} ELSE late
    /\ UNCHANGED <<host, pollerVars>>

DeleteAgent(a) ==
    /\ row[a] # "deleted"
    /\ row' = [row EXCEPT ![a] = "deleted"]
    /\ status' = [status EXCEPT ![a] = "none"]
    /\ UNCHANGED <<host, pollerVars, form, late>>

-----------------------------------------------------------------------------
(* Specification *)

PollStep ==
    \/ StartPoller \/ StartPass \/ EndPass
    \/ \E a \in Polled : AskAgent(a) \/ GetAnswer(a) \/ WriteStatus(a)

PollNext ==
    \/ PollStep
    \/ \E a \in Polled : ChangeHost(a) \/ DeleteAgent(a)
    \/ \E e \in Form : \/ \E a \in Polled : ReadForm(e, a)
                       \/ \E given \in {{}, {TRUE}, {FALSE}} : SaveForm(e, given)

\* The service runs whenever it can, and is started again whenever it is down.
PollFairness == WF_pollVars(PollStep)

PollSpec == PollInit /\ [][PollNext]_pollVars /\ PollFairness

-----------------------------------------------------------------------------
(* Properties *)

\* Only the poller puts a status on an inactive agent, when it was made inactive during
\* the pass: it stays there, for an inactive agent is not asked again, until the agent is
\* made inactive once more, and longer if a PATCH that has read it is under way then.
InactiveHaveNone ==
    \A a \in Polled : row[a] = "inactive" /\ status[a] # "none" => a \in late

\* An agent that stays active is asked again and again, whatever the others answer,
\* unless one keeps ending the service or one never answers at all.
ActiveAreAsked ==
    \A a \in Polled :
        \/ []<>(row[a] # "active")
        \/ []<>(a \in fresh)
        \/ []<>(poller = "down")
        \/ \E b \in Polled : <>[](poller = "waiting" /\ b \in asked) /\ []<>(host[b] = "hangs")
=============================================================================
