------------------------------ MODULE Verdict ------------------------------
(***************************************************************************)
(* How scans/models/file.py turns the results of the antivirus agents into *)
(* a verdict and a progress.  Pure operators, shared by every module that  *)
(* computes a verdict or a progress.                                       *)
(*                                                                         *)
(* The Boolean column "infected" (NULL, True, False) is a verdict:         *)
(* "unknown", "infected", "clean".  The Float column "progress" is only    *)
(* ever compared with NULL and with 100, so it is "none", "part" (a number *)
(* other than 100) or "full" (100).                                        *)
(***************************************************************************)
EXTENDS Integers

CONSTANTS
    Scale,       \* denominator of the two indices, which the code keeps as floats in (0, 1]
    CleanIndex,  \* settings['clean_acceptance_index'] * Scale
    ValidIndex   \* settings['valid_acceptance_index'] * Scale

\* System.set_settings refuses an index outside (0, 1].
ASSUME IndexAssumption ==
    /\ Scale \in Nat \ {0}
    /\ CleanIndex \in 1..Scale
    /\ ValidIndex \in 1..Scale

VerdictValue  == {"unknown", "infected", "clean"}
ProgressValue == {"none", "part", "full"}

\* Variant: no decimal is kept.
CoarseRoundedProgress(done, total) == IF 200 * done >= 199 * total THEN "full" ELSE "part"

(***************************************************************************)
(* round(100 * done / total, 1), total > 0.  One decimal is kept, so every *)
(* ratio of at least 99.95 % (and at most 100.05 %) is stored as 100.      *)
(***************************************************************************)
RoundedProgress(done, total) ==
    IF 2000 * done >= 1999 * total /\ 2000 * done <= 2001 * total
    THEN "full"
    ELSE "part"

\* Variant: the failure of the antivirus is stored as the verdict.
FailingLeafVerdict(total, pending, noResult, detections) ==
    IF total = 0 \/ pending > 0 THEN "unknown"
    ELSE IF noResult > 0 THEN "error"
    ELSE IF detections > 0 THEN "infected" ELSE "clean"

(***************************************************************************)
(* The verdict on a file without children: total scans, of which pending   *)
(* have no status yet, noResult have no infected_num (the pending ones and *)
(* those whose antivirus failed) and detections found something.           *)
(***************************************************************************)
LeafVerdict(total, pending, noResult, detections) ==
    IF \/ total = 0
       \/ pending > 0
       \/ Scale * noResult >= (Scale - ValidIndex) * total
    THEN "unknown"
    ELSE IF Scale * detections >= (Scale - CleanIndex) * total
         THEN "infected"
         ELSE "clean"

\* Variant: the loop over the children ends at the first clean one.
FirstCleanArchiveVerdicts(verdicts) == IF "clean" \in verdicts THEN {"clean"} ELSE verdicts

\* Variant: the loop has no break, so the last child decides.
LastArchiveVerdicts(verdicts) == verdicts

(***************************************************************************)
(* The verdict on an archive is that of the first child that is not clean; *)
(* the query names no order, so any child that is not clean may come       *)
(* first.  verdicts is the set of the children's verdicts.                 *)
(***************************************************************************)
ArchiveVerdicts(verdicts) ==
    IF verdicts \subseteq {"clean"} THEN {"clean"} ELSE verdicts \ {"clean"}
=============================================================================
