----------------------------- MODULE OneAtATime -----------------------------
(***************************************************************************)
(* What the updating flag of an Agent promises: the updates of one agent   *)
(* are run one at a time.  An update is accepted only when no other is     *)
(* under way; it ends, or it is abandoned and then blocks the others.  The *)
(* promise is void once somebody else has written the flag, or a task that *)
(* was over has been run again.                                            *)
(***************************************************************************)
CONSTANT Update  \* the update files sent to the agent

VARIABLES
    current,  \* the set of updates under way: at most one
    over,     \* the updates that are over
    void      \* the promise is void

vars == <<current, over, void>>

Init == current = {} /\ over = {} /\ void = FALSE

Accept(u) ==
    /\ ~void
    /\ current = {}
    /\ u \notin over
    /\ current' = {u}
    /\ UNCHANGED <<over, void>>

Finish(u) ==
    /\ ~void
    /\ u \in current
    /\ current' = {}
    /\ over' = over \cup {u}
    /\ UNCHANGED void

Breach ==
    /\ void' = TRUE
    /\ current' \in SUBSET Update
    /\ over' \in SUBSET Update

Next == Breach \/ \E u \in Update : Accept(u) \/ Finish(u)

Spec == Init /\ [][Next]_vars
=============================================================================
