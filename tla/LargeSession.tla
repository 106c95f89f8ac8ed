---------------------------- MODULE LargeSession ----------------------------
(***************************************************************************)
(* Session.update_progress in a session of N valid files whose scans end   *)
(* one after the other: what the rounding of the progress to one decimal   *)
(* does to a session far larger than ScanSession can be checked with.      *)
(***************************************************************************)
EXTENDS Verdict, TLAPS

CONSTANT N  \* valid files of the session

ASSUME NAssumption == N \in Nat \ {0}

VARIABLES
    scanned,  \* files whose progress is 100
    progress  \* Session.progress

vars == <<scanned, progress>>

TypeOK ==
    /\ scanned \in 0..N
    /\ progress \in ProgressValue

Init ==
    /\ scanned = 0
    /\ progress = "none"

\* The last scan of one more file ends, and update_progress runs.
FinishFile ==
    /\ scanned < N
    /\ scanned' = scanned + 1
    /\ progress' = RoundedProgress(scanned', N)

Next == FinishFile

Spec == Init /\ [][Next]_vars

\* Session.state() titles a progress of 100 'Scanning files finished', and
\* postscan_valid lets the post-scan operations go on: no file is left.
FinishedMeansAll == progress = "full" => scanned = N

\* The progress is a value the code knows, and no file is counted twice.
LEMMA TypeCorrect == Spec => []TypeOK
<1>1. Init => TypeOK
  BY NAssumption DEF Init, TypeOK, ProgressValue
<1>2. TypeOK /\ [Next]_vars => TypeOK'
  <2> SUFFICES ASSUME TypeOK, [Next]_vars PROVE TypeOK'
    OBVIOUS
  <2>1. CASE FinishFile
    BY <2>1, NAssumption DEF TypeOK, FinishFile, RoundedProgress, ProgressValue
  <2>2. CASE UNCHANGED vars
    BY <2>2 DEF TypeOK, vars
  <2>3. QED
    BY <2>1, <2>2 DEF Next
<1>3. QED
  BY <1>1, <1>2, PTL DEF Spec

\* Below 2000 files one missing file is still a tenth of a percent more than
\* what round() gives away, so the session is not finished before its files.
THEOREM SmallSessionsFinish == N < 2000 => (Spec => []FinishedMeansAll)
<1> SUFFICES ASSUME N < 2000 PROVE Spec => []FinishedMeansAll
  OBVIOUS
<1>1. Init => FinishedMeansAll
  BY DEF Init, FinishedMeansAll
<1>2. TypeOK /\ FinishedMeansAll /\ [Next]_vars => FinishedMeansAll'
  <2> SUFFICES ASSUME TypeOK, FinishedMeansAll, [Next]_vars PROVE FinishedMeansAll'
    OBVIOUS
  <2>1. CASE FinishFile
    <3>1. ASSUME scanned' < N PROVE ~(2000 * scanned' >= 1999 * N)
      BY <2>1, <3>1, NAssumption DEF TypeOK, FinishFile
    <3>2. CASE scanned' < N
      BY <2>1, <3>1, <3>2 DEF FinishFile, FinishedMeansAll, RoundedProgress
    <3>3. CASE scanned' = N
      BY <3>3 DEF FinishedMeansAll
    <3>4. scanned' < N \/ scanned' = N
      BY <2>1, NAssumption DEF TypeOK, FinishFile
    <3>5. QED
      BY <3>2, <3>3, <3>4
  <2>2. CASE UNCHANGED vars
    BY <2>2 DEF FinishedMeansAll, vars
  <2>3. QED
    BY <2>1, <2>2 DEF Next
<1>3. QED
  BY <1>1, <1>2, TypeCorrect, PTL DEF Spec
=============================================================================
