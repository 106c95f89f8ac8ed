----------------------------- MODULE MCServices -----------------------------
(***************************************************************************)
(* The services around the scan, one in each behaviour: they meet only in  *)
(* the session, of which each module has the part that matters to it.      *)
(***************************************************************************)
EXTENDS Intake, Removable, Export, Console

CONSTANT MaxDisturbances  \* bound on what goes wrong, or is done from outside, with an intake

VARIABLE focus

MCNameOf == [f \in Item |-> "same.doc"]
Revised == CHOOSE f \in Item : TRUE

allVars == <<intakeVars, removableVars, exportVars, consoleVars, focus>>

MCInit ==
    /\ IntakeInit /\ RemovableInit /\ ExportInit /\ ConsoleInit
    /\ focus \in {"intake", "removable", "transfer", "receipt", "settings", "videos"}

\* A task that is not sent, purged, or terminated by itself is all that goes wrong.
Dropped ==
    {t \in IntakeTask : \/ place[t] \in {"unsent", "dropped"}
                        \/ t \in (revoked \cup sent) \cap log /\ terminate.stage = "idle"}

Disturbances ==
    losses + Cardinality({f \in FileNo : files[f] = "cleaned" \/ f \in cleaning})
           + (IF terminate.stage = "idle" THEN 0 ELSE 1) + (IF exists = "deleted" THEN 1 ELSE 0)
           + MaxDisturbances * Cardinality(Dropped)

\* A session that has got a second row is not terminated as well, and a terminated
\* session has no task terminated by itself.
FocusIntake ==
    /\ focus = "intake"
    /\ IntakeNext
    /\ Disturbances' <= MaxDisturbances
    /\ terminate'.stage # "idle" => files'[2] = "none"
    /\ terminate.stage # "idle" => sent' \subseteq sent \cup terminate.left
    /\ UNCHANGED <<removableVars, exportVars, consoleVars, focus>>

\* Two copies at a time, or one with a medium that comes back or a service that stops.
FocusRemovable ==
    /\ focus = "removable"
    /\ RemovableNext
    /\ inserts' + stops' > 1 => \E j \in Job : \A i \in Job \ {j} : job'[i] = "queued"
    /\ UNCHANGED <<intakeVars, exportVars, consoleVars, focus>>

\* A transfer tells clean files from the others; during it the verdict of one file is
\* revised, and only if it was clean.
FocusExport ==
    /\ focus \in {"transfer", "receipt"}
    /\ ExportNext
    /\ IF focus = "transfer"
       THEN /\ receipt' = receipt
            /\ \A f \in Item : verdict'[f] # verdict[f] =>
                  /\ verdict'[f] # "unknown"
                  /\ verdict[f] \in {"none", "open"} \/ (f = Revised /\ verdict[f] = "clean")
       ELSE transfer' = transfer
    /\ UNCHANGED <<intakeVars, removableVars, consoleVars, focus>>

FocusConsole ==
    /\ focus \in {"settings", "videos"}
    /\ ConsoleNext
    /\ IF focus = "settings" THEN videoVars' = videoVars ELSE settingVars' = settingVars
    /\ UNCHANGED <<intakeVars, removableVars, exportVars, focus>>

MCNext == FocusIntake \/ FocusRemovable \/ FocusExport \/ FocusConsole

MCSpec == MCInit /\ [][MCNext]_allVars

-----------------------------------------------------------------------------
(* Properties *)

\* The variables of each service keep their types.
ServicesTypeOK == IntakeTypeOK /\ RemovableTypeOK /\ ExportTypeOK /\ ConsoleTypeOK
=============================================================================
