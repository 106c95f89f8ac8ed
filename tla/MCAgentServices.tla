--------------------------- MODULE MCAgentServices ---------------------------
(***************************************************************************)
(* The two things that go on in the rows of the agents: updates of the     *)
(* virus definitions and the polling of the status.  They write different  *)
(* columns, so a behaviour shows one of them; and the hosts change only    *)
(* where the PATCHes come one at a time.                                   *)
(***************************************************************************)
EXTENDS AgentUpdate, StatusPoller

VARIABLE focus  \* "update", "poll" or "edit"

\* The PATCH that is sent where they come one at a time.
OneForm == CHOOSE e \in Form : TRUE

MCInit == Init /\ PollInit /\ focus \in {"update", "poll", "edit"}

MCNext ==
    /\ focus' = focus
    /\ \/ focus = "update" /\ Next /\ UNCHANGED pollVars
       \/ /\ focus = "poll" /\ PollNext /\ UNCHANGED vars
          /\ \A e \in Form \ {OneForm} : form'[e] = NoForm
       \/ focus = "edit" /\ PollNext /\ UNCHANGED <<vars, host>>

MCFairness ==
    /\ \A u \in Update : WF_vars(focus = "update" /\ FairStep(u))
    /\ WF_pollVars(focus # "update" /\ PollStep)

MCSpec == MCInit /\ [][MCNext]_<<vars, pollVars, focus>> /\ MCFairness

=============================================================================
