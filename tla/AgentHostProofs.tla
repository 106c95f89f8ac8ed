--------------------------- MODULE AgentHostProofs ---------------------------
(***************************************************************************)
(* Theorems about AgentHost, for any number of scans, any numbers of       *)
(* threats and any set of drivers.                                         *)
(***************************************************************************)
EXTENDS AgentHost, FiniteSetTheorems, WellFoundedInduction, TLAPS

-----------------------------------------------------------------------------
(* The types *)

\* A finite set of numbers that is not empty has a greatest one.
LEMMA MostExists ==
    ASSUME NEW S \in SUBSET Nat, IsFiniteSet(S), S # {}
    PROVE  Most(S) \in S /\ \A m \in S : m <= Most(S)
<1> DEFINE Below(n) == {m \in S : m <= n}
           R == OpToRel(<, Nat)
           T == {Cardinality(S) - Cardinality(Below(n)) : n \in S}
<1>1. \A n \in S : /\ IsFiniteSet(Below(n))
                   /\ Cardinality(Below(n)) \in Nat
                   /\ Cardinality(S) - Cardinality(Below(n)) \in Nat
  <2>1. Cardinality(S) \in Nat
    BY FS_CardinalityType
  <2>2. ASSUME NEW n \in S
        PROVE  IsFiniteSet(Below(n)) /\ Cardinality(Below(n)) <= Cardinality(S)
    BY FS_Subset
  <2>3. ASSUME NEW n \in S PROVE Cardinality(Below(n)) \in Nat
    BY <2>2, FS_CardinalityType
  <2>4. QED
    BY <2>1, <2>2, <2>3
<1>2. PICK x \in T : \A y \in T : ~ (<<y, x>> \in R)
  <2>1. T \subseteq Nat /\ T # {}
    BY <1>1
  <2> HIDE DEF R, T
  <2>2. IsWellFoundedOn(R, Nat)
    BY NatLessThanWellFounded DEF R
  <2>3. QED
    BY <2>1, <2>2, WFMin
<1>3. PICK n \in S : x = Cardinality(S) - Cardinality(Below(n))
  OBVIOUS
<1>4. ASSUME NEW m \in S PROVE m <= n
  <2> SUFFICES ASSUME n < m PROVE FALSE
    OBVIOUS
  <2>0. \A k \in S : k \in Nat
    OBVIOUS
  <2>1. Below(n) \subseteq Below(m) /\ m \in Below(m) /\ m \notin Below(n)
    <3>1. \A k \in S : k <= n => k <= m
      BY <2>0
    <3>2. m <= m /\ ~ (m <= n)
      BY <2>0
    <3>3. QED
      BY <3>1, <3>2
  <2>2. Cardinality(Below(n)) < Cardinality(Below(m))
    <3> HIDE DEF Below
    <3>1. IsFiniteSet(Below(m))
      BY <1>1
    <3>2. /\ Cardinality(Below(n)) <= Cardinality(Below(m))
          /\ Cardinality(Below(n)) # Cardinality(Below(m))
      BY <2>1, <3>1, FS_Subset
    <3>3. QED
      BY <1>1, <3>2
  <2>3. Cardinality(S) - Cardinality(Below(m)) < x
    <3>1. /\ Cardinality(S) \in Nat
          /\ Cardinality(Below(m)) \in Nat
          /\ Cardinality(Below(n)) \in Nat
      BY <1>1, FS_CardinalityType
    <3> HIDE DEF Below, R, T
    <3>2. Cardinality(S) - Cardinality(Below(m)) < Cardinality(S) - Cardinality(Below(n))
      BY <2>2, <3>1
    <3>3. QED
      BY <1>3, <3>2
  <2>4. <<Cardinality(S) - Cardinality(Below(m)), x>> \in R
    <3>1. x \in Nat
      BY <1>1, <1>3
    <3> HIDE DEF Below
    <3>2. QED
      BY <1>1, <2>3, <3>1 DEF OpToRel
  <2>5. QED
    BY <1>2, <2>4
<1>5. QED
  BY <1>4 DEF Most


\* What the row of a scan may hold.
AnswerType == [status : {0, 200, 498, 499}, found : Nat \cup {Null}]

\* What get_infected_num ends with is a number, no number, or an exception.
LEMMA CountsType ==
    ASSUME NEW d \in DriverType, NEW r \in Report
    PROVE  Counts(d, r) \subseteq Nat \cup {Null, AVException, OtherException}
<1>1. r.found \in Nat
  BY HostAssumption DEF HostAssumption, Report
<1>2. r.found % 10 \in Nat /\ r.found \div 10 \in Nat
  BY <1>1
<1>3. (IF r.found > 0 THEN 1 ELSE 0) \in Nat
  BY <1>1
<1>4. (IF r.found < 10 THEN r.found ELSE r.found \div 10) \in Nat
  BY <1>1, <1>2
<1>5. (IF Echoed(d, r, Alarming) THEN r.found + 1 ELSE r.found) \in Nat
  BY <1>1
<1> DEFINE All == Nat \cup {Null, AVException, OtherException}
<1>6. {AVException} \subseteq All /\ {AVException, OtherException} \subseteq All
         /\ {Null, OtherException} \subseteq All /\ {0} \subseteq All /\ {1} \subseteq All
  OBVIOUS
<1>7. \A n \in Nat : {n} \subseteq All
  OBVIOUS
<1>8. d.reads \in {"number", "last digit", "first digit", "singular", "words", "status",
                   "lenient", "elements", "hits", "nothing"}
  BY DEF DriverType
<1> HIDE DEF All
<1>n. CASE d.reads = "number"
  <2>1. \/ Counts(d, r) = {0} \/ Counts(d, r) = {r.found} \/ Counts(d, r) = {AVException}
    BY <1>n DEF Counts
  <2>2. QED
    BY <1>1, <1>6, <1>7, <2>1
<1>9. CASE d.reads \in {"lenient", "elements"}
  BY <1>1, <1>6, <1>7, <1>9 DEF Counts
<1>10. CASE d.reads \in {"nothing", "singular"}
  BY <1>1, <1>6, <1>7, <1>10 DEF Counts
<1>h. CASE d.reads = "hits"
  <2>1. Counts(d, r) = {IF Echoed(d, r, Alarming) THEN r.found + 1 ELSE r.found}
    BY <1>h DEF Counts
  <2>2. QED
    BY <1>5, <1>7, <2>1
<1>11. CASE d.reads \in {"last digit", "first digit"}
  BY <1>2, <1>4, <1>6, <1>7, <1>11 DEF Counts
<1> DEFINE Some == {IF r.found > 0 THEN 1 ELSE 0}
<1>12. Some \subseteq All
  BY <1>6
<1>s. CASE d.reads = "status"
  BY <1>6, <1>12, <1>s DEF Counts
<1>w. CASE d.reads = "words"
  <2>1. \/ Counts(d, r) = {1} \/ Counts(d, r) = {0} \/ Counts(d, r) = Some
        \/ Counts(d, r) = {AVException}
    BY <1>w DEF Counts
  <2>2. QED
    BY <1>6, <1>12, <2>1
<1>14. QED
  BY <1>8, <1>n, <1>9, <1>10, <1>h, <1>11, <1>s, <1>w DEF All

\* Every answer that a driver may give fits into the row.
LEMMA AnswersType ==
    ASSUME NEW d \in DriverType, NEW exit, NEW r \in Report
    PROVE  /\ Answers(d, exit, r) \subseteq AnswerType
           /\ {Open, Refused, Unreachable} \subseteq AnswerType
<1>1. {Open, Refused, Unreachable} \subseteq AnswerType
  BY DEF Open, Refused, Unreachable, Answer, AnswerType
<1>2. Crashed(d) \in AnswerType
  BY <1>1 DEF Crashed
<1>3. NoTime(d) \subseteq AnswerType
  BY <1>1, <1>2 DEF NoTime, DriverType
<1>4. ASSUME NEW n \in Counts(d, r) PROVE Stored(d, n) \in AnswerType
  <2>1. n \in Nat \cup {Null, AVException, OtherException}
    BY CountsType
  <2>2. n \in Nat \cup {Null} => Answer(200, n) \in AnswerType
    BY DEF Answer, AnswerType
  <2>3. QED
    BY <1>1, <1>2, <2>1, <2>2 DEF Stored
<1>5. QED
  BY <1>1, <1>3, <1>4 DEF Answers

\* A step of one scan judges it by an answer, or leaves all answers as they are.
LEMMA JudgeType ==
    ASSUME TypeOK, NEW s \in Scan,
           \/ ReadReport(s) \/ FailReading(s) \/ RefuseExitCode(s) \/ GiveUp(s) \/ TimeOut(s)
    PROVE  \E a \in AnswerType : Judge(s, a)
<1>1. driver \in DriverType /\ Visible(s) \subseteq Report
  BY HostAssumption DEF HostAssumption, TypeOK, Visible
<1>2. {Refused, Unreachable, Crashed(driver)} \subseteq AnswerType
  BY DEF Refused, Unreachable, Open, Crashed, Answer, AnswerType
<1>3. CASE ReadReport(s)
  BY <1>1, <1>3, AnswersType DEF ReadReport
<1>4. CASE FailReading(s) \/ RefuseExitCode(s) \/ GiveUp(s) \/ TimeOut(s)
  BY <1>2, <1>4 DEF FailReading, RefuseExitCode, GiveUp, TimeOut
<1>5. QED
  BY <1>3, <1>4

\* What the antivirus finds at the path it was given is in a file of a scan.
LEMMA FoundType ==
    ASSUME TypeOK, NEW s \in Scan, AtPath(s) # {}
    PROVE  Most({threats[x] : x \in AtPath(s)}) \in Threats
<1> DEFINE F == {threats[x] : x \in AtPath(s)}
<1>1. AtPath(s) \subseteq Scan
  BY DEF TypeOK, AtPath
<1>2. F \subseteq Threats /\ F # {}
  BY <1>1 DEF TypeOK
<1>3. IsFiniteSet(F)
  <2>1. IsFiniteSet(AtPath(s))
    BY <1>1, HostAssumption, FS_Subset DEF HostAssumption
  <2> DEFINE f == [x \in AtPath(s) |-> threats[x]]
  <2>2. f \in Surjection(AtPath(s), F)
    BY DEF Surjection
  <2>3. QED
    BY <2>1, <2>2, FS_Surjection
<1>4. F \in SUBSET Nat
  BY <1>2, HostAssumption DEF HostAssumption
<1>5. Most(F) \in F
  BY <1>2, <1>3, <1>4, MostExists
<1>6. QED
  BY <1>2, <1>5


\* What an update records of itself.
UpdateType == [
    stage  : {"idle", "moved", "installed", "failed", "restoring", "done"},
    moved  : BOOLEAN,
    status : {0, 200, 498, 499}]

\* An update goes on, or ends, with a record of the type.
LEMMA UpdateStays ==
    ASSUME update \in UpdateType
    PROVE  /\ \A to \in {"moved", "installed", "failed", "restoring"}, moved \in BOOLEAN :
                 Proceed(to, moved) => update' \in UpdateType
           /\ \A status \in {0, 200, 498, 499} : End(status) => update' \in UpdateType
<1>1. ASSUME NEW to \in {"moved", "installed", "failed", "restoring"}, NEW moved \in BOOLEAN,
             Proceed(to, moved)
      PROVE  update' \in UpdateType
  BY <1>1 DEF Proceed, UpdateType
<1>2. ASSUME NEW status \in {0, 200, 498, 499}, End(status)
      PROVE  update' \in UpdateType
  <2>1. update' = [stage |-> "done", moved |-> update.moved, status |-> status]
    BY <1>2, ZenonT(30) DEF End, UpdateType
  <2>2. update.moved \in BOOLEAN
    BY DEF UpdateType
  <2>3. QED
    BY <2>1, <2>2 DEF UpdateType
<1>3. QED
  BY <1>1, <1>2

\* The steps of a driver, of an antivirus and of an update keep the types.
LEMMA TypeIsKept ==
    ASSUME TypeOK, [Next]_vars
    PROVE  TypeOK'
<1>0. /\ update \in UpdateType
      /\ answer \in [Scan -> AnswerType]
      /\ driver \in DriverType
  BY HostAssumption DEF HostAssumption, TypeOK, UpdateType, AnswerType
<1>a. ASSUME UNCHANGED <<driver, threats, name>>, aim' \in [Scan -> Scan],
             stage' \in [Scan -> {"queued", "launched", "judged", "done"}],
             antivirus' \in [Scan -> {"off", "running", "ok", "found", "failed"}],
             reports' \subseteq Report, copies' \subseteq Scan, answer' \in [Scan -> AnswerType],
             UNCHANGED updateVars
      PROVE  TypeOK'
  BY <1>a DEF TypeOK, AnswerType, updateVars
<1>b. ASSUME UNCHANGED <<driver, scanVars>>,
             program' \in {"old", "none", "mixed", "new"}, backup' \in {"none", "whole", "part"},
             update' \in UpdateType
      PROVE  TypeOK'
  BY <1>b DEF TypeOK, UpdateType, scanVars, inputVars
<1>1. ASSUME NEW s \in Scan, StartScan(s)
      PROVE  TypeOK'
  <2>1. stage' \in [Scan -> {"queued", "launched", "judged", "done"}]
    BY <1>1 DEF StartScan, Enter, TypeOK
  <2>2. /\ antivirus' \in [Scan -> {"off", "running", "ok", "found", "failed"}]
        /\ reports' \subseteq Report
        /\ copies' \subseteq Scan
    BY <1>1 DEF StartScan, TypeOK
  <2>3. aim' \in [Scan -> Scan]
    <3>1. PICK late \in SUBSET Overwritten(s) :
             aim' = [x \in Scan |-> IF x \in late THEN s ELSE aim[x]]
      BY <1>1 DEF StartScan
    <3>2. QED
      BY <3>1 DEF TypeOK
  <2>4. QED
    BY <1>1, <1>0, <1>a, <2>1, <2>2, <2>3 DEF StartScan
<1>f. ASSUME NEW s \in Scan, FailStart(s)
      PROVE  TypeOK'
  <2>1. stage' \in [Scan -> {"queued", "launched", "judged", "done"}]
    BY <1>f DEF FailStart, Enter, TypeOK
  <2>2. Refused \in AnswerType /\ Unreachable \in AnswerType
    BY DEF Refused, Unreachable, Answer, AnswerType
  <2>3. answer' \in [Scan -> AnswerType]
    BY <1>f, <1>0, <2>2 DEF FailStart
  <2>4. QED
    BY <1>f, <1>a, <2>1, <2>3 DEF FailStart, TypeOK, inputVars
<1>2. ASSUME NEW s \in Scan,
             ReadReport(s) \/ FailReading(s) \/ RefuseExitCode(s) \/ GiveUp(s) \/ TimeOut(s)
      PROVE  TypeOK'
  <2>1. UNCHANGED <<driver, inputVars, antivirus, reports, copies, updateVars>>
    BY <1>2 DEF ReadReport, FailReading, RefuseExitCode, GiveUp, TimeOut
  <2>2. PICK a \in AnswerType : Judge(s, a)
    BY <1>2, JudgeType
  <2>3. stage' \in [Scan -> {"queued", "launched", "judged", "done"}]
    BY <2>2 DEF Judge, Enter, TypeOK
  <2>4. answer' \in [Scan -> AnswerType]
    BY <1>0, <2>2 DEF Judge
  <2>5. QED
    BY <1>a, <2>1, <2>3, <2>4 DEF TypeOK, inputVars
<1>3. ASSUME NEW s \in Scan, Clean(s)
      PROVE  TypeOK'
  <2>1. stage' \in [Scan -> {"queued", "launched", "judged", "done"}]
    BY <1>3 DEF Clean, Enter, TypeOK
  <2>2. reports' \subseteq Report /\ copies' \subseteq Scan
    BY <1>3 DEF Clean, TypeOK
  <2>3. QED
    BY <1>3, <1>0, <1>a, <2>1, <2>2 DEF Clean, TypeOK, inputVars
<1>4. ASSUME NEW s \in Scan, LoseConnection(s)
      PROVE  TypeOK'
  <2>1. stage' \in [Scan -> {"queued", "launched", "judged", "done"}]
    BY <1>4 DEF LoseConnection, Enter, TypeOK
  <2>2. Unreachable \in AnswerType
    BY DEF Unreachable, Answer, AnswerType
  <2>3. answer' \in [Scan -> AnswerType]
    BY <1>4, <1>0, <2>2 DEF LoseConnection
  <2>4. QED
    BY <1>4, <1>a, <2>1, <2>3 DEF LoseConnection, TypeOK, inputVars
<1>5. ASSUME NEW s \in Scan, BeginReport(s)
      PROVE  TypeOK'
  <2>1. Partial(s) \in Report
    BY HostAssumption DEF HostAssumption, Partial, Report, Nature
  <2>2. reports' \subseteq Report
    BY <1>5, <2>1 DEF BeginReport, TypeOK
  <2>3. QED
    BY <1>5, <1>0, <1>a, <2>2 DEF BeginReport, TypeOK, inputVars
<1>6. ASSUME NEW s \in Scan, EndReport(s)
      PROVE  TypeOK'
  <2> DEFINE Found(n) ==
        IF n \in {"regular", "untimed"} THEN Most({threats[x] : x \in AtPath(s)}) ELSE 0
  <2>1. PICK n \in IF AtPath(s) = {} THEN {"blind", "odd"} ELSE Nature, exit \in {"ok", "found"} :
           /\ reports' = {r \in reports : r.of # s}
                            \cup {[of |-> s, nature |-> n, found |-> Found(n), full |-> TRUE]}
           /\ antivirus' = [antivirus EXCEPT ![s] = exit]
    BY <1>6 DEF EndReport
  <2>2. n \in Nature
    BY DEF Nature
  <2>3. Found(n) \in Threats
    BY FoundType, HostAssumption DEF HostAssumption
  <2> HIDE DEF Found
  <2>4. [of |-> s, nature |-> n, found |-> Found(n), full |-> TRUE] \in Report
    BY <2>2, <2>3 DEF Report
  <2>5. reports' \subseteq Report
    <3>1. {r \in reports : r.of # s} \subseteq Report
      BY DEF TypeOK
    <3>2. QED
      BY <2>1, <2>4, <3>1
  <2>6. antivirus' \in [Scan -> {"off", "running", "ok", "found", "failed"}]
    BY <2>1 DEF TypeOK
  <2>7. UNCHANGED <<driver, inputVars, stage, copies, answer, updateVars>>
    BY <1>6 DEF EndReport
  <2>8. QED
    BY <1>0, <1>a, <2>5, <2>6, <2>7 DEF TypeOK, inputVars
<1>7. ASSUME NEW s \in Scan, Break(s)
      PROVE  TypeOK'
  <2>1. antivirus' \in [Scan -> {"off", "running", "ok", "found", "failed"}]
    BY <1>7 DEF Break, TypeOK
  <2>2. QED
    BY <1>7, <1>0, <1>a, <2>1 DEF Break, TypeOK, inputVars
<1>8. CASE RefuseUpdate \/ MoveAside \/ DeleteBackup \/ DiscardUnpacked \/ Restore \/ LoseUpdate
  <2>1. UNCHANGED <<driver, scanVars>>
    BY <1>8 DEF RefuseUpdate, MoveAside, DeleteBackup, DiscardUnpacked, Restore, LoseUpdate
  <2>2. program' \in {"old", "none", "mixed", "new"} /\ backup' \in {"none", "whole", "part"}
    <3>1. program \in {"old", "none", "mixed", "new"} /\ backup \in {"none", "whole", "part"}
      BY DEF TypeOK
    <3>2. CASE RefuseUpdate \/ LoseUpdate
      BY <3>1, <3>2 DEF RefuseUpdate, LoseUpdate
    <3>3. CASE MoveAside
      BY <3>1, <3>3 DEF MoveAside
    <3>4. CASE DeleteBackup \/ DiscardUnpacked
      BY <3>1, <3>4 DEF DeleteBackup, DiscardUnpacked
    <3>5. CASE Restore
      BY <3>1, <3>5 DEF Restore
    <3>6. QED
      BY <1>8, <3>2, <3>3, <3>4, <3>5
  <2>3. update' \in UpdateType
    <3>1. CASE RefuseUpdate \/ LoseUpdate
      BY <1>0, <3>1, UpdateStays DEF RefuseUpdate, LoseUpdate
    <3>2. CASE MoveAside
      BY <1>0, <3>2, UpdateStays DEF MoveAside
    <3>3. CASE DeleteBackup \/ DiscardUnpacked
      <4>1. End(200) \/ End(499) \/ Proceed("failed", TRUE) \/ Proceed("restoring", TRUE)
        BY <3>3 DEF DeleteBackup, DiscardUnpacked
      <4>2. CASE End(200) \/ End(499)
        BY <1>0, <4>2, UpdateStays
      <4>3. ASSUME NEW to \in {"failed", "restoring"}, NEW moved \in BOOLEAN,
                   moved, Proceed(to, moved)
            PROVE  update' \in UpdateType
        BY <1>0, <4>3, UpdateStays, ZenonT(30)
      <4>4. CASE Proceed("failed", TRUE) \/ Proceed("restoring", TRUE)
        BY <4>3, <4>4
      <4>5. QED
        BY <4>1, <4>2, <4>4
    <3>4. CASE Restore
      BY <1>0, <3>4, UpdateStays DEF Restore
    <3>5. QED
      BY <1>8, <3>1, <3>2, <3>3, <3>4
  <2>4. QED
    BY <1>b, <2>1, <2>2, <2>3
<1>9. CASE Unpack \/ Install
  <2>1. UNCHANGED <<driver, scanVars, backup>>
    BY <1>9 DEF Unpack, Install
  <2>2. program' \in {"old", "none", "mixed", "new"}
    <3>1. program' \in {"new", "mixed", program}
      BY <1>9 DEF Unpack, Install
    <3>2. QED
      BY <3>1 DEF TypeOK
  <2>3. update.moved \in BOOLEAN
    BY <1>0 DEF UpdateType
  <2>4. update' \in UpdateType
    <3>1. \E to \in {"installed", "failed"} : Proceed(to, update.moved) \/ Proceed(to, FALSE)
      BY <1>9 DEF Unpack, Install
    <3>2. \A to \in {"installed", "failed"}, moved \in BOOLEAN :
            Proceed(to, moved) => update' \in UpdateType
      BY <1>0, UpdateStays
    <3>3. QED
      BY <2>3, <3>1, <3>2
  <2>5. QED
    BY <1>b, <2>1, <2>2, <2>4 DEF TypeOK
<1>10. CASE EndUpdate \/ FailUpdate
  <2>1. /\ UNCHANGED <<driver, inputVars, stage, antivirus, reports, answer, program, backup>>
        /\ copies' \in {{}, copies}
    BY <1>10 DEF EndUpdate, FailUpdate, Wipe
  <2>2. update' \in UpdateType
    BY <1>10, <1>0, UpdateStays DEF EndUpdate, FailUpdate
  <2>3. QED
    BY <2>1, <2>2 DEF TypeOK, UpdateType, inputVars
<1>11. CASE UNCHANGED vars
  BY <1>11, <1>0, <1>b DEF vars, updateVars, TypeOK
<1>12. QED
  BY <1>1, <1>f, <1>2, <1>3, <1>4, <1>5, <1>6, <1>7, <1>8, <1>9, <1>10, <1>11
     DEF Next, DriverStep, AntivirusStep, UpdateStep

\* The first states have the types.
LEMMA TypeAtFirst ==
    ASSUME Init
    PROVE  TypeOK
<1>1. update \in UpdateType
  BY DEF Init, UpdateType
<1>2. Open \in AnswerType
  BY DEF Open, Answer, AnswerType
<1>3. answer \in [Scan -> AnswerType]
  BY <1>2 DEF Init
<1>4. QED
  BY <1>1, <1>3 DEF Init, TypeOK, UpdateType, AnswerType

\* The host keeps its types.
THEOREM HostKeepsTypes == Spec => []TypeOK
BY TypeAtFirst, TypeIsKept, PTL DEF Spec


-----------------------------------------------------------------------------
(* Copies *)

\* A step of a scan or of an update keeps no copy without its cause.
LEMMA CopiesStep ==
    ASSUME TypeOK, CopiesAreRemoved, [Next]_vars
    PROVE  CopiesAreRemoved'
<1>a. ASSUME UNCHANGED <<stage, answer>>, copies' \subseteq copies
      PROVE  CopiesAreRemoved'
  BY <1>a DEF CopiesAreRemoved
<1>1. ASSUME NEW s \in Scan, StartScan(s)
      PROVE  CopiesAreRemoved'
  <2>1. /\ stage' = [stage EXCEPT ![s] = "launched"]
        /\ copies' \subseteq copies \cup {s}
        /\ answer' = answer
    BY <1>1 DEF StartScan, Enter
  <2>2. QED
    BY <2>1 DEF CopiesAreRemoved, TypeOK
<1>f. ASSUME NEW s \in Scan, FailStart(s)
      PROVE  CopiesAreRemoved'
  BY <1>f DEF FailStart, Enter, CopiesAreRemoved, TypeOK
<1>2. ASSUME NEW s \in Scan,
             ReadReport(s) \/ FailReading(s) \/ RefuseExitCode(s) \/ GiveUp(s) \/ TimeOut(s)
      PROVE  CopiesAreRemoved'
  <2>1. copies' = copies
    BY <1>2 DEF ReadReport, FailReading, RefuseExitCode, GiveUp, TimeOut
  <2>2. PICK a \in AnswerType : Judge(s, a)
    BY <1>2, JudgeType
  <2>3. QED
    BY <2>1, <2>2 DEF CopiesAreRemoved, TypeOK, Judge, Enter
<1>3. ASSUME NEW s \in Scan, Clean(s)
      PROVE  CopiesAreRemoved'
  BY <1>3 DEF Clean, Enter, CopiesAreRemoved, Namesakes, TypeOK
<1>4. ASSUME NEW s \in Scan, LoseConnection(s)
      PROVE  CopiesAreRemoved'
  <2>1. /\ stage' = [stage EXCEPT ![s] = "done"]
        /\ answer' = [answer EXCEPT ![s] = Unreachable]
        /\ copies' = copies
    BY <1>4 DEF LoseConnection, Enter
  <2>2. QED
    BY <2>1 DEF CopiesAreRemoved, TypeOK
<1>5. ASSUME NEW s \in Scan, AntivirusStep(s)
      PROVE  CopiesAreRemoved'
  BY <1>5, <1>a DEF AntivirusStep, BeginReport, EndReport, Break
<1>6. CASE RefuseUpdate \/ MoveAside \/ Unpack \/ Install \/ DeleteBackup
             \/ DiscardUnpacked \/ Restore \/ LoseUpdate
  <2>1. UNCHANGED scanVars
    BY <1>6 DEF RefuseUpdate, MoveAside, Unpack, Install, DeleteBackup, DiscardUnpacked, Restore,
                LoseUpdate
  <2>2. QED
    BY <1>a, <2>1 DEF scanVars
<1>7. CASE EndUpdate \/ FailUpdate
  BY <1>7, <1>a DEF EndUpdate, FailUpdate, Wipe
<1>8. CASE UNCHANGED vars
  BY <1>8, <1>a DEF vars, scanVars
<1>9. QED
  BY <1>1, <1>f, <1>2, <1>3, <1>4, <1>5, <1>6, <1>7, <1>8 DEF Next, DriverStep, UpdateStep

\* The finally clause removes the copy of every scan whose connection holds.
THEOREM CopiesDoNotStay == Spec => []CopiesAreRemoved
<1>1. Init => CopiesAreRemoved
  BY DEF Init, CopiesAreRemoved
<1>2. QED
  BY <1>1, CopiesStep, HostKeepsTypes, PTL DEF Spec

-----------------------------------------------------------------------------
(* Updates *)

\* Between its steps an update knows what it has left: nothing is installed while
\* it is to be unpacked or restored, the new version is installed when that went
\* well, and the backup is whole unless deleting it has begun.
UpdateKnows ==
    /\ update.stage = "idle" => ~update.moved
    /\ update.stage \in {"moved", "restoring"} => program = "none"
    /\ update.stage = "installed" /\ driver.update # "lax" => program = "new"
    /\ update.stage \in {"moved", "installed"} /\ update.moved => backup = "whole"
    /\ update.stage = "failed" /\ update.moved => backup \in {"whole", "part"}

\* What a step does to the installation.
LEMMA UpdateStepKnows ==
    ASSUME TypeOK, UpdateKnows, SuccessIsNew, [Next]_vars
    PROVE  /\ UpdateKnows'
           /\ SuccessIsNew'
           /\ driver.update = "swap" /\ SomeWhole => SomeWhole' \/ backup = "part"
<1> DEFINE Kept == driver.update = "swap" /\ SomeWhole => SomeWhole' \/ backup = "part"
<1>0. /\ update \in UpdateType
      /\ program \in {"old", "none", "mixed", "new"}
      /\ backup \in {"none", "whole", "part"}
  BY DEF TypeOK, UpdateType
<1>t. update.moved \in BOOLEAN
  BY <1>0 DEF UpdateType
<1>a. ASSUME UNCHANGED <<driver, updateVars>>
      PROVE  UpdateKnows' /\ SuccessIsNew' /\ Kept
  BY <1>a DEF UpdateKnows, SuccessIsNew, SomeWhole, updateVars
<1>e. ASSUME NEW status \in {0, 200, 498, 499}, End(status)
      PROVE  update'.stage = "done" /\ update'.status = status
  BY <1>e, <1>0 DEF End, UpdateType
<1>p. ASSUME NEW to \in {"moved", "installed", "failed", "restoring"}, NEW moved \in BOOLEAN,
             Proceed(to, moved)
      PROVE  update'.stage = to /\ update'.moved = moved
  BY <1>p DEF Proceed
<1>1. ASSUME NEW s \in Scan, DriverStep(s) \/ AntivirusStep(s)
      PROVE  UpdateKnows' /\ SuccessIsNew' /\ Kept
  BY <1>1, <1>a
     DEF DriverStep, AntivirusStep, StartScan, FailStart, ReadReport, FailReading, RefuseExitCode,
         GiveUp, TimeOut, Clean, LoseConnection, BeginReport, EndReport, Break
<1>2. CASE RefuseUpdate \/ LoseUpdate
  <2>1. UNCHANGED <<driver, program, backup>> /\ (End(498) \/ End(499))
    BY <1>2 DEF RefuseUpdate, LoseUpdate
  <2>2. QED
    BY <1>e, <2>1 DEF UpdateKnows, SuccessIsNew, SomeWhole
<1>3. CASE MoveAside
  <2>1. CASE program = "none"
    <3>1. UNCHANGED <<driver, program, backup>> /\ Proceed("moved", FALSE)
      BY <1>3, <2>1 DEF MoveAside
    <3>2. update'.stage = "moved" /\ update'.moved = FALSE
      BY <3>1 DEF Proceed
    <3>3. QED
      BY <2>1, <3>1, <3>2 DEF UpdateKnows, SuccessIsNew, SomeWhole
  <2>2. CASE program # "none"
    <3>1. driver' = driver /\ program' = "none" /\ backup' = "whole" /\ Proceed("moved", TRUE)
      BY <1>3, <2>2 DEF MoveAside
    <3>2. update'.stage = "moved"
      BY <3>1 DEF Proceed
    <3>3. QED
      BY <3>1, <3>2 DEF UpdateKnows, SuccessIsNew, SomeWhole
  <2>3. QED
    BY <2>1, <2>2
<1>4. CASE Unpack
  <2>1. /\ UNCHANGED <<driver, backup>>
        /\ \/ driver.update = "swap" /\ update.stage = "moved"
           \/ driver.update = "extract" /\ update.stage = "idle"
        /\ \/ program' = "new" /\ Proceed("installed", update.moved)
           \/ program' \in {program, "mixed"} /\ Proceed("failed", update.moved)
    BY <1>4 DEF Unpack
  <2>2. \/ program' = "new" /\ update'.stage = "installed"
        \/ program' \in {program, "mixed"} /\ update'.stage = "failed"
    BY <2>1 DEF Proceed
  <2>3. update'.moved = update.moved
    BY <2>1 DEF Proceed
  <2>4. driver.update = "swap" => update.stage = "moved"
    BY <2>1
  <2>5. update.moved => backup = "whole"
    BY <2>1 DEF UpdateKnows
  <2>6. UpdateKnows' /\ SuccessIsNew'
    BY <2>1, <2>2, <2>3, <2>5 DEF UpdateKnows, SuccessIsNew
  <2>7. Kept
    BY <2>1, <2>4 DEF UpdateKnows, SomeWhole
  <2>8. QED
    BY <2>6, <2>7
<1>5. CASE Install
  <2>1. /\ UNCHANGED <<driver, backup>>
        /\ driver.update \in {"install", "lax"}
        /\ \/ program' = "new" /\ Proceed("installed", FALSE)
           \/ Proceed("failed", FALSE)
           \/ driver.update = "lax" /\ Proceed("installed", FALSE)
    BY <1>5 DEF Install
  <2>2. /\ update'.moved = FALSE
        /\ \/ program' = "new" /\ update'.stage = "installed"
           \/ update'.stage = "failed"
           \/ driver.update = "lax" /\ update'.stage = "installed"
    BY <2>1 DEF Proceed
  <2>3. QED
    BY <2>1, <2>2 DEF UpdateKnows, SuccessIsNew
<1>6. CASE DeleteBackup
  <2>1. /\ UNCHANGED <<driver, program>>
        /\ update.stage = "installed"
        /\ \/ backup' = "none" /\ End(200)
           \/ backup' = "part" /\ Proceed("failed", TRUE)
    BY <1>6 DEF DeleteBackup
  <2>2. \/ update'.stage = "done"
        \/ update'.stage = "failed" /\ backup' = "part"
    BY <2>1, <1>e DEF Proceed
  <2>3. driver.update # "lax" => program' = "new"
    BY <2>1 DEF UpdateKnows
  <2>4. QED
    BY <2>1, <2>2, <2>3 DEF UpdateKnows, SuccessIsNew, SomeWhole
<1>7. CASE EndUpdate
  <2>1. /\ UNCHANGED <<driver, program, backup>>
        /\ update.stage = "installed"
        /\ End(200)
    BY <1>7 DEF EndUpdate
  <2>2. update'.stage = "done"
    BY <2>1, <1>e
  <2>3. QED
    BY <2>1, <2>2 DEF UpdateKnows, SuccessIsNew, SomeWhole
<1>8. CASE DiscardUnpacked
  <2>1. /\ UNCHANGED <<driver, backup>>
        /\ update.stage = "failed" /\ update.moved
        /\ \/ program' = "none" /\ Proceed("restoring", TRUE)
           \/ program' = "mixed" /\ End(499)
    BY <1>8 DEF DiscardUnpacked
  <2>2. \/ program' = "none" /\ update'.stage = "restoring"
        \/ update'.stage = "done" /\ update'.status = 499
    BY <2>1, <1>e DEF Proceed
  <2>3. backup \in {"whole", "part"}
    BY <2>1 DEF UpdateKnows
  <2>4. QED
    BY <2>1, <2>2, <2>3 DEF UpdateKnows, SuccessIsNew, SomeWhole
<1>9. CASE Restore
  <2>1. /\ driver' = driver
        /\ update.stage = "restoring"
        /\ program' = IF backup = "whole" THEN "old" ELSE "mixed"
        /\ End(498)
    BY <1>9 DEF Restore
  <2>2. update'.stage = "done" /\ update'.status = 498
    BY <2>1, <1>e
  <2>3. QED
    BY <2>1, <2>2 DEF UpdateKnows, SuccessIsNew, SomeWhole
<1>10. CASE FailUpdate
  <2>1. UNCHANGED <<driver, program, backup>> /\ End(498)
    BY <1>10 DEF FailUpdate
  <2>2. QED
    BY <1>e, <2>1 DEF UpdateKnows, SuccessIsNew, SomeWhole
<1>11. CASE UNCHANGED vars
  BY <1>11, <1>a DEF vars
<1>12. QED
  BY <1>1, <1>2, <1>3, <1>4, <1>5, <1>6, <1>7, <1>8, <1>9, <1>10, <1>11 DEF Next, UpdateStep

\* What an update knows holds at every time.
LEMMA UpdatesKnow == Spec => [](UpdateKnows /\ SuccessIsNew)
<1>1. Init => UpdateKnows /\ SuccessIsNew
  BY DEF Init, UpdateKnows, SuccessIsNew
<1>2. TypeOK /\ UpdateKnows /\ SuccessIsNew /\ [Next]_vars => (UpdateKnows /\ SuccessIsNew)'
  BY UpdateStepKnows
<1>3. QED
  BY <1>1, <1>2, HostKeepsTypes, PTL DEF Spec

\* A successful update has installed the new version.
THEOREM SuccessesAreNew == Spec => []SuccessIsNew
BY UpdatesKnow, PTL

\* An update that moves the antivirus aside keeps a complete one.
THEOREM OneStaysWhole == Spec => LastWholeKept
<1>1. ASSUME TypeOK, UpdateKnows, SuccessIsNew, [Next]_vars
      PROVE  [driver.update = "swap" /\ SomeWhole => SomeWhole' \/ backup = "part"]_vars
  BY <1>1, UpdateStepKnows
<1>2. QED
  BY <1>1, HostKeepsTypes, UpdatesKnow, PTL DEF Spec, LastWholeKept


-----------------------------------------------------------------------------
(* The table of drivers *)

\* The driver is one of the table, but for the way it reads dates, which is a
\* matter of the status poller.
OfTable == \A d \in Driver : \E e \in Drivers : d = [e EXCEPT !.dates = d.dates]

\* What reading a report may end with in a driver besides an AVException.
Fails(d) == d.reads \in {"status", "lenient", "elements"} \/ d.time = "crashes" \/ d.raises # {}

\* What the causes of answers need to know of the table: a driver that does not
\* wait for the exit code does not make its check depend on it, and one that can
\* fail with an unexpected exception turns that into an AVException or is listed.
Expected(d) ==
    /\ d.spawns => d.tally # "exit 0"
    /\ ~d.wraps /\ Fails(d) => d \in MayLeaveOpen

\* Every driver of the table is as expected.
LEMMA TableIsExpected == \A d \in Drivers : Expected(d)
<1>1. Expected(AdawareBackend) /\ Expected(ArcabitBackend) /\ Expected(AvastBackend) /\
      Expected(AvgBackend) /\ Expected(AviraBackend) /\ Expected(BitdefenderBackend)
  BY DEF Expected, Fails, MayLeaveOpen, AVBackend, AdawareBackend, ArcabitBackend, AvastBackend,
         AvgBackend, AviraBackend, BitdefenderBackend
<1>2. Expected(BullguardBackend) /\ Expected(ClamavBackend) /\ Expected(ComodoBackend) /\
      Expected(DrwebBackend) /\ Expected(EmsisoftBackend) /\ Expected(EscanBackend)
  BY DEF Expected, Fails, MayLeaveOpen, AVBackend, BullguardBackend, ClamavBackend, ComodoBackend,
         DrwebBackend, EmsisoftBackend, EscanBackend
<1>3. Expected(EsetBackend) /\ Expected(FprotBackend) /\ Expected(FsecureBackend) /\
      Expected(GdataBackend) /\ Expected(GridinsoftBackend) /\ Expected(IkarusBackend)
  BY DEF Expected, Fails, MayLeaveOpen, AVBackend, EsetBackend, FprotBackend, FsecureBackend,
         GdataBackend, GridinsoftBackend, IkarusBackend
<1>4. Expected(KasperskyBackend) /\ Expected(KsevenBackend) /\ Expected(MaxBackend) /\
      Expected(McafeeBackend) /\ Expected(NanoBackend) /\ Expected(PadvishBackend)
  BY DEF Expected, Fails, MayLeaveOpen, AVBackend, KasperskyBackend, KsevenBackend, MaxBackend,
         McafeeBackend, NanoBackend, PadvishBackend
<1>5. Expected(QuickhealBackend) /\ Expected(SecureaplusBackend) /\ Expected(SophosBackend) /\
      Expected(SymantecBackend) /\ Expected(Totalsecurity360Backend) /\ Expected(TrendmicroBackend)
  BY DEF Expected, Fails, MayLeaveOpen, AVBackend, QuickhealBackend, SecureaplusBackend,
         SophosBackend, SymantecBackend, Totalsecurity360Backend, TrendmicroBackend
<1>6. Expected(TrustportBackend) /\ Expected(TwisterBackend) /\ Expected(VipreBackend) /\
      Expected(WinessentialsBackend) /\ Expected(XvirusBackend) /\ Expected(ZillyaBackend)
  BY DEF Expected, Fails, MayLeaveOpen, AVBackend, TrustportBackend, TwisterBackend, VipreBackend,
         WinessentialsBackend, XvirusBackend, ZillyaBackend
<1>7. Expected(ZonerBackend)
  BY DEF Expected, Fails, MayLeaveOpen, AVBackend, ZonerBackend
<1>8. QED
  BY <1>1, <1>2, <1>3, <1>4, <1>5, <1>6, <1>7 DEF Drivers

\* So is every driver that is considered, and it differs from a driver of the table
\* in nothing that a scan depends on.
LEMMA DriversAreExpected ==
    ASSUME OfTable, NEW d \in Driver
    PROVE  /\ d.spawns => d.tally # "exit 0"
           /\ ~d.wraps /\ Fails(d) => \E e \in MayLeaveOpen : d = [e EXCEPT !.dates = d.dates]
<1>1. PICK e \in Drivers : d = [e EXCEPT !.dates = d.dates]
  BY DEF OfTable
<1>2. Expected(e)
  BY TableIsExpected
<1>3. /\ d.spawns = e.spawns /\ d.tally = e.tally /\ d.wraps = e.wraps
      /\ d.reads = e.reads /\ d.time = e.time /\ d.raises = e.raises
  BY <1>1, HostAssumption DEF HostAssumption, DriverType
<1>4. QED
  BY <1>1, <1>2, <1>3 DEF Expected, Fails


-----------------------------------------------------------------------------
(* Open answers *)

\* A driver that ends a scan with an open row can fail with an exception that
\* perform_scan does not expect.
LEMMA OpenAnswers ==
    ASSUME OfTable, driver \in Driver, NEW exit, NEW r \in Report, Open \in Answers(driver, exit, r)
    PROVE  \E d \in MayLeaveOpen : driver = [d EXCEPT !.dates = driver.dates]
<1>1. Refused # Open /\ \A n : Answer(200, n) # Open
  BY DEF Refused, Open, Answer
<1>2. driver \in DriverType
  BY HostAssumption DEF HostAssumption
<1>3. CASE Open \in NoTime(driver)
  <2>1. ~driver.wraps /\ driver.time = "crashes"
    BY <1>1, <1>2, <1>3 DEF NoTime, Crashed, DriverType
  <2>2. QED
    BY <2>1, DriversAreExpected DEF Fails
<1>4. CASE \E n \in Counts(driver, r) : Open = Stored(driver, n)
  <2>1. PICK n \in Counts(driver, r) : Open = Stored(driver, n)
    BY <1>4
  <2>2. n = OtherException /\ ~driver.wraps
    BY <1>1, <2>1 DEF Stored, Crashed
  <2>3. r.found \in Nat
    BY HostAssumption DEF HostAssumption, Report
  <2>4. r.found % 10 \in Nat /\ r.found \div 10 \in Nat
    BY <2>3
  <2>5. driver.reads \in {"status", "lenient", "elements"}
    <3>1. driver.reads \in {"number", "last digit", "first digit", "singular", "words", "status",
                            "lenient", "elements", "hits", "nothing"}
      BY <1>2 DEF DriverType
    <3>2. ASSUME driver.reads \notin {"status", "lenient", "elements"}
          PROVE  n \in {AVException, 0, 1, r.found, r.found + 1, r.found % 10, r.found \div 10}
      <4> HIDE DEF AVException
      <4>1. n \in Counts(driver, r)
        BY <2>1
      <4>2. CASE driver.reads \in {"number", "singular", "hits", "words", "nothing"}
        BY <4>1, <4>2 DEF Counts
      <4>3. CASE driver.reads \in {"last digit", "first digit"}
        BY <4>1, <4>3 DEF Counts
      <4>4. QED
        BY <3>1, <3>2, <4>2, <4>3
    <3>3. OtherException \notin {AVException, 0, 1, r.found, r.found + 1, r.found % 10,
                                 r.found \div 10}
      BY <2>3, <2>4 DEF AVException, OtherException
    <3>4. QED
      BY <2>2, <3>2, <3>3
  <2>6. QED
    BY <2>2, <2>5, DriversAreExpected DEF Fails
<1>5. QED
  BY <1>1, <1>3, <1>4 DEF Answers

\* A step leaves no row open without its cause.
LEMMA OpenStep ==
    ASSUME OfTable, TypeOK, OpenHasCause, [Next]_vars
    PROVE  OpenHasCause'
<1>0. Refused # Open /\ Unreachable # Open
  BY DEF Refused, Unreachable, Open, Answer
<1>d. driver' = driver
  BY ZenonT(30)
     DEF Next, DriverStep, AntivirusStep, UpdateStep, StartScan, FailStart, ReadReport, FailReading,
         RefuseExitCode, GiveUp, TimeOut, Clean, LoseConnection, BeginReport, EndReport, Break,
         RefuseUpdate, MoveAside,
         Unpack, Install, DeleteBackup, EndUpdate, DiscardUnpacked, Restore, FailUpdate, LoseUpdate,
         scanVars, updateVars, vars
<1>a. ASSUME UNCHANGED <<stage, answer>>
      PROVE  OpenHasCause'
  BY <1>a, <1>d DEF OpenHasCause
<1>b. ASSUME NEW s \in Scan, NEW a, Judge(s, a), a # Open
      PROVE  OpenHasCause'
  BY <1>b, <1>d DEF OpenHasCause, Judge, Enter, TypeOK
<1>1. ASSUME NEW s \in Scan, StartScan(s)
      PROVE  OpenHasCause'
  BY <1>1, <1>d DEF StartScan, Enter, OpenHasCause, TypeOK
<1>f. ASSUME NEW s \in Scan, FailStart(s)
      PROVE  OpenHasCause'
  <2>1. PICK a \in {Refused, Unreachable} : answer' = [answer EXCEPT ![s] = a]
    BY <1>f DEF FailStart
  <2>2. QED
    BY <1>f, <2>1, <1>0, <1>d DEF FailStart, Enter, OpenHasCause, TypeOK
<1>r. ASSUME NEW s \in Scan, FailReading(s)
      PROVE  OpenHasCause'
  <2>1. Judge(s, Crashed(driver)) /\ driver.raises # {}
    BY <1>r DEF FailReading
  <2>2. CASE driver.wraps
    BY <1>0, <1>b, <2>1, <2>2 DEF Crashed
  <2>3. CASE ~driver.wraps
    <3>1. driver \in Driver /\ Fails(driver)
      BY <2>1 DEF Fails, TypeOK
    <3>2. \E d \in MayLeaveOpen : driver = [d EXCEPT !.dates = driver.dates]
      BY <2>3, <3>1, DriversAreExpected
    <3>3. QED
      BY <1>d, <3>2 DEF OpenHasCause
  <2>4. QED
    BY <2>2, <2>3
<1>2. ASSUME NEW s \in Scan, ReadReport(s)
      PROVE  OpenHasCause'
  <2>1. PICK r \in Visible(s) : \E a \in Answers(driver, antivirus[s], r) : Judge(s, a)
    BY <1>2 DEF ReadReport
  <2>2. PICK a \in Answers(driver, antivirus[s], r) : Judge(s, a)
    BY <2>1
  <2>3. CASE a = Open
    <3>1. r \in Report
      BY DEF Visible, TypeOK
    <3>2. \E d \in MayLeaveOpen : driver = [d EXCEPT !.dates = driver.dates]
      BY <2>2, <2>3, <3>1, OpenAnswers DEF TypeOK
    <3>3. QED
      BY <1>d, <3>2 DEF OpenHasCause
  <2>4. QED
    BY <1>b, <2>2, <2>3
<1>3. ASSUME NEW s \in Scan, RefuseExitCode(s) \/ GiveUp(s) \/ TimeOut(s)
      PROVE  OpenHasCause'
  <2>1. Judge(s, Refused) \/ Judge(s, Unreachable)
    BY <1>3 DEF RefuseExitCode, GiveUp, TimeOut
  <2>2. QED
    BY <1>0, <1>b, <2>1
<1>4. ASSUME NEW s \in Scan, Clean(s)
      PROVE  OpenHasCause'
  BY <1>4, <1>d DEF Clean, Enter, OpenHasCause, TypeOK
<1>5. ASSUME NEW s \in Scan, LoseConnection(s)
      PROVE  OpenHasCause'
  <2>1. /\ stage' = [stage EXCEPT ![s] = "done"]
        /\ answer' = [answer EXCEPT ![s] = Unreachable]
        /\ stage[s] \in {"launched", "judged"}
    BY <1>5 DEF LoseConnection, Enter
  <2>2. QED
    BY <2>1, <1>0, <1>d DEF OpenHasCause, TypeOK
<1>6. ASSUME NEW s \in Scan, AntivirusStep(s)
      PROVE  OpenHasCause'
  BY <1>6, <1>a DEF AntivirusStep, BeginReport, EndReport, Break
<1>7. CASE UpdateStep
  <2>1. UNCHANGED <<stage, answer>>
    BY <1>7 DEF UpdateStep, RefuseUpdate, MoveAside, Unpack, Install, DeleteBackup, EndUpdate,
                DiscardUnpacked, Restore, FailUpdate, LoseUpdate, scanVars
  <2>2. QED
    BY <1>a, <2>1
<1>8. CASE UNCHANGED vars
  BY <1>8, <1>a DEF vars, scanVars
<1>9. QED
  BY <1>1, <1>f, <1>r, <1>2, <1>3, <1>4, <1>5, <1>6, <1>7, <1>8 DEF Next, DriverStep

\* With the drivers of the table, a row stays open only because of one that is listed.
THEOREM OpenRowsHaveCauses ==
    ASSUME OfTable
    PROVE  Spec => []OpenHasCause
<1>1. Init => OpenHasCause
  BY DEF Init, OpenHasCause
<1>2. TypeOK /\ OpenHasCause /\ [Next]_vars => OpenHasCause'
  BY OpenStep
<1>3. QED
  BY <1>1, <1>2, HostKeepsTypes, PTL DEF Spec


-----------------------------------------------------------------------------
(* Wrong verdicts *)

\* A scan that has not been judged has no answer yet.
AnswersWait == \A s \in Scan : stage[s] \in {"queued", "launched"} => answer[s] = Open

\* Unless the antivirus was given a directory, its report of a scan tells what the
\* file holds that it found where the scan had sent it, or that it has scanned
\* nothing.  When it has reported it is sent nowhere else.
ReportsTell ==
    /\ \A s \in Scan : stage[s] = "queued" => antivirus[s] = "off"
    /\ \A r \in reports :
          /\ antivirus[r.of] # "off"
          /\ r.nature \in {"regular", "untimed"} => antivirus[r.of] # "running"
          /\ ~driver.whole =>
                r.found = IF r.nature \in {"regular", "untimed"} THEN threats[aim[r.of]] ELSE 0

\* Scan s is being answered with the number n.
Answered(s, n) == stage[s] = "launched" /\ answer'[s] = Answer(200, n)

\* The drivers, the reports and the numbers of threats have the types that the
\* lemmas about them ask for.
LEMMA ThreatsType ==
    ASSUME TypeOK, NEW s \in Scan
    PROVE  driver \in DriverType /\ Visible(s) \subseteq Report /\ threats[s] \in Nat
<1>1. driver \in Driver /\ threats[s] \in Threats /\ Visible(s) \subseteq Report
  BY DEF TypeOK, Visible
<1>2. Driver \subseteq DriverType /\ Threats \subseteq Nat
  BY HostAssumption DEF HostAssumption
<1>3. QED
  BY <1>1, <1>2

\* A step judges only the scans that it ends.
LEMMA AnswersStep ==
    ASSUME TypeOK, AnswersWait, [Next]_vars
    PROVE  AnswersWait'
<1>a. ASSUME UNCHANGED <<stage, answer>>
      PROVE  AnswersWait'
  BY <1>a DEF AnswersWait
<1>b. ASSUME NEW s \in Scan, NEW to \in {"judged", "done"}, stage' = [stage EXCEPT ![s] = to],
             \A t \in Scan : t # s => answer'[t] = answer[t]
      PROVE  AnswersWait'
  BY <1>b DEF AnswersWait, TypeOK
<1>1. ASSUME NEW s \in Scan, StartScan(s)
      PROVE  AnswersWait'
  BY <1>1 DEF StartScan, Enter, AnswersWait, TypeOK
<1>f. ASSUME NEW s \in Scan, FailStart(s)
      PROVE  AnswersWait'
  <2>1. PICK a \in {Refused, Unreachable} : answer' = [answer EXCEPT ![s] = a]
    BY <1>f DEF FailStart
  <2>2. stage' = [stage EXCEPT ![s] = "judged"]
    BY <1>f DEF FailStart, Enter
  <2>3. QED
    BY <1>b, <2>1, <2>2, ZenonT(30) DEF TypeOK
<1>2. ASSUME NEW s \in Scan,
             ReadReport(s) \/ FailReading(s) \/ RefuseExitCode(s) \/ GiveUp(s) \/ TimeOut(s)
      PROVE  AnswersWait'
  <2>1. PICK a \in AnswerType : Judge(s, a)
    BY <1>2, JudgeType
  <2>2. QED
    BY <1>b, <2>1, ZenonT(30) DEF Judge, Enter, TypeOK
<1>3. ASSUME NEW s \in Scan, Clean(s)
      PROVE  AnswersWait'
  BY <1>3, <1>b DEF Clean, Enter
<1>4. ASSUME NEW s \in Scan, LoseConnection(s)
      PROVE  AnswersWait'
  <2>1. /\ stage' = [stage EXCEPT ![s] = "done"]
        /\ answer' = [answer EXCEPT ![s] = Unreachable]
    BY <1>4 DEF LoseConnection, Enter
  <2>2. QED
    BY <1>b, <2>1, ZenonT(30) DEF TypeOK
<1>5. ASSUME NEW s \in Scan, AntivirusStep(s)
      PROVE  AnswersWait'
  BY <1>5, <1>a DEF AntivirusStep, BeginReport, EndReport, Break
<1>6. CASE UpdateStep
  <2>1. UNCHANGED <<stage, answer>>
    BY <1>6 DEF UpdateStep, RefuseUpdate, MoveAside, Unpack, Install, DeleteBackup, EndUpdate,
                DiscardUnpacked, Restore, FailUpdate, LoseUpdate, scanVars
  <2>2. QED
    BY <1>a, <2>1
<1>7. CASE UNCHANGED vars
  BY <1>7, <1>a DEF vars, scanVars
<1>8. QED
  BY <1>1, <1>f, <1>2, <1>3, <1>4, <1>5, <1>6, <1>7 DEF Next, DriverStep

\* The antivirus reports what it finds at the path.
LEMMA ReportsStep ==
    ASSUME TypeOK, ReportsTell, [Next]_vars
    PROVE  ReportsTell'
<1>t. \A r \in reports : r.of \in Scan
  BY DEF TypeOK, Report
<1>a. ASSUME UNCHANGED <<driver, inputVars, antivirus>>, reports' \subseteq reports,
             \A s \in Scan : stage'[s] = "queued" => stage[s] = "queued"
      PROVE  ReportsTell'
  BY <1>a, <1>t DEF ReportsTell, inputVars
<1>b. ASSUME NEW s \in Scan, NEW to \in {"launched", "judged", "done"},
             stage' = [stage EXCEPT ![s] = to]
      PROVE  \A t \in Scan : stage'[t] = "queued" => stage[t] = "queued"
  BY <1>b DEF TypeOK
<1>1. ASSUME NEW s \in Scan, StartScan(s)
      PROVE  ReportsTell'
  <2>1. PICK late \in SUBSET Overwritten(s) :
           aim' = [x \in Scan |-> IF x \in late THEN s ELSE aim[x]]
    BY <1>1 DEF StartScan
  <2>2. /\ antivirus' = [antivirus EXCEPT ![s] = "running"]
        /\ stage' = [stage EXCEPT ![s] = "launched"]
        /\ antivirus[s] = "off"
        /\ reports' \subseteq reports
        /\ UNCHANGED <<driver, threats>>
    BY <1>1 DEF StartScan, Enter, ReportsTell
  <2>3. \A t \in Scan : stage'[t] = "queued" => antivirus'[t] = "off"
    BY <2>2 DEF ReportsTell, TypeOK
  <2>4. ASSUME NEW r \in reports'
        PROVE  /\ antivirus'[r.of] # "off"
               /\ r.nature \in {"regular", "untimed"} => antivirus'[r.of] # "running"
               /\ ~driver.whole =>
                     r.found = IF r.nature \in {"regular", "untimed"}
                               THEN threats[aim'[r.of]] ELSE 0
    <3>1. r \in reports /\ r.of \in Scan /\ r.of # s
      BY <1>t, <2>2 DEF ReportsTell
    <3>2. antivirus'[r.of] = antivirus[r.of]
      BY <2>2, <3>1 DEF TypeOK
    <3>3. r.nature \in {"regular", "untimed"} => aim'[r.of] = aim[r.of]
      BY <2>1, <3>1 DEF ReportsTell, Overwritten
    <3>4. QED
      BY <3>1, <3>2, <3>3 DEF ReportsTell
  <2>5. QED
    BY <2>2, <2>3, <2>4 DEF ReportsTell
<1>f. ASSUME NEW s \in Scan, FailStart(s)
      PROVE  ReportsTell'
  BY <1>f, <1>a, <1>b DEF FailStart, Enter
<1>2. ASSUME NEW s \in Scan,
             ReadReport(s) \/ FailReading(s) \/ RefuseExitCode(s) \/ GiveUp(s) \/ TimeOut(s)
      PROVE  ReportsTell'
  <2>1. UNCHANGED <<driver, inputVars, antivirus, reports>>
    BY <1>2 DEF ReadReport, FailReading, RefuseExitCode, GiveUp, TimeOut
  <2>2. PICK a \in AnswerType : Judge(s, a)
    BY <1>2, JudgeType
  <2>3. QED
    BY <1>a, <1>b, <2>1, <2>2 DEF Judge, Enter
<1>l. ASSUME NEW s \in Scan, LoseConnection(s)
      PROVE  ReportsTell'
  BY <1>l, <1>a, <1>b DEF LoseConnection, Enter
<1>k. ASSUME NEW s \in Scan, Break(s)
      PROVE  ReportsTell'
  <2>1. /\ antivirus' = [antivirus EXCEPT ![s] = "failed"]
        /\ UNCHANGED <<driver, inputVars, stage, reports>>
        /\ antivirus[s] = "running"
    BY <1>k DEF Break, Works
  <2>2. \A t \in Scan : antivirus'[t] \in {antivirus[t], "failed"}
    BY <2>1 DEF TypeOK
  <2>3. \A t \in Scan : stage'[t] = "queued" => antivirus'[t] = "off"
    BY <2>1 DEF ReportsTell, TypeOK
  <2>4. QED
    BY <1>t, <2>1, <2>2, <2>3 DEF ReportsTell, inputVars
<1>3. ASSUME NEW s \in Scan, Clean(s)
      PROVE  ReportsTell'
  BY <1>3, <1>a, <1>b DEF Clean, Enter
<1>4. ASSUME NEW s \in Scan, BeginReport(s)
      PROVE  ReportsTell'
  <2>1. /\ UNCHANGED <<driver, inputVars, antivirus, stage>>
        /\ reports' = reports \cup {Partial(s)}
        /\ antivirus[s] = "running"
    BY <1>4 DEF BeginReport, Works
  <2>2. Partial(s).of = s /\ Partial(s).nature = "odd" /\ Partial(s).found = 0
    BY DEF Partial
  <2>3. QED
    BY <2>1, <2>2 DEF ReportsTell, inputVars
<1>5. ASSUME NEW s \in Scan, EndReport(s)
      PROVE  ReportsTell'
  <2> DEFINE Found(n) ==
        IF n \in {"regular", "untimed"} THEN Most({threats[x] : x \in AtPath(s)}) ELSE 0
  <2>1. PICK n \in IF AtPath(s) = {} THEN {"blind", "odd"} ELSE Nature, exit \in {"ok", "found"} :
           /\ reports' = {r \in reports : r.of # s}
                            \cup {[of |-> s, nature |-> n, found |-> Found(n), full |-> TRUE]}
           /\ antivirus' = [antivirus EXCEPT ![s] = exit]
    BY <1>5 DEF EndReport
  <2>2. UNCHANGED <<driver, inputVars, stage>> /\ antivirus[s] = "running"
    BY <1>5 DEF EndReport, Works
  <2>3. antivirus'[s] = exit /\ \A t \in Scan : t # s => antivirus'[t] = antivirus[t]
    BY <2>1 DEF TypeOK
  <2>4. ~driver.whole => Found(n) = IF n \in {"regular", "untimed"} THEN threats[aim[s]] ELSE 0
    <3> SUFFICES ASSUME ~driver.whole, n \in {"regular", "untimed"}
                 PROVE  Most({threats[x] : x \in AtPath(s)}) = threats[aim[s]]
      OBVIOUS
    <3>1. AtPath(s) = {aim[s]}
      BY <2>1 DEF AtPath
    <3>2. {threats[x] : x \in AtPath(s)} = {threats[aim[s]]}
      BY <3>1
    <3>3. threats[aim[s]] \in Nat
      <4>1. aim[s] \in Scan
        BY DEF TypeOK
      <4>2. QED
        BY <4>1, ThreatsType
    <3>4. Most({threats[aim[s]]}) \in {threats[aim[s]]}
      BY <3>3, MostExists, FS_Singleton
    <3>5. QED
      BY <3>2, <3>4
  <2> HIDE DEF Found
  <2>5. \A t \in Scan : stage'[t] = "queued" => antivirus'[t] = "off"
    BY <2>2, <2>3 DEF ReportsTell
  <2>6. ASSUME NEW r \in reports'
        PROVE  /\ antivirus'[r.of] # "off"
               /\ r.nature \in {"regular", "untimed"} => antivirus'[r.of] # "running"
               /\ ~driver.whole =>
                     r.found = IF r.nature \in {"regular", "untimed"}
                               THEN threats[aim[r.of]] ELSE 0
    <3>1. CASE r \in reports /\ r.of # s
      <4>1. antivirus'[r.of] = antivirus[r.of]
        BY <1>t, <2>3, <3>1
      <4>2. QED
        BY <3>1, <4>1 DEF ReportsTell
    <3>2. CASE r = [of |-> s, nature |-> n, found |-> Found(n), full |-> TRUE]
      <4>1. r.of = s /\ r.nature = n /\ r.found = Found(n)
        BY <3>2
      <4>2. QED
        BY <2>3, <2>4, <4>1
    <3>3. QED
      BY <2>1, <3>1, <3>2
  <2>7. QED
    BY <2>2, <2>5, <2>6 DEF ReportsTell, inputVars
<1>6. CASE UpdateStep
  <2>1. UNCHANGED <<driver, inputVars, antivirus, stage, reports>>
    BY <1>6 DEF UpdateStep, RefuseUpdate, MoveAside, Unpack, Install, DeleteBackup, EndUpdate,
                DiscardUnpacked, Restore, FailUpdate, LoseUpdate, scanVars
  <2>2. QED
    BY <1>a, <2>1
<1>7. CASE UNCHANGED vars
  BY <1>7, <1>a DEF vars, scanVars
<1>8. QED
  BY <1>1, <1>f, <1>2, <1>l, <1>k, <1>3, <1>4, <1>5, <1>6, <1>7
     DEF Next, DriverStep, AntivirusStep

\* Both hold at every time.
LEMMA ReportsAreTrue == Spec => [](AnswersWait /\ ReportsTell)
<1>1. Init => AnswersWait /\ ReportsTell
  BY DEF Init, AnswersWait, ReportsTell
<1>2. TypeOK /\ AnswersWait /\ ReportsTell /\ [Next]_vars => (AnswersWait /\ ReportsTell)'
  BY AnswersStep, ReportsStep
<1>3. QED
  BY <1>1, <1>2, HostKeepsTypes, PTL DEF Spec

\* A verdict is what the driver reads in a report that has passed its check.
LEMMA VerdictIsRead ==
    ASSUME TypeOK, AnswersWait, [Next]_vars, NEW s \in Scan, NEW n \in Nat, Answered(s, n)
    PROVE  Proceeds(s) /\ \E r \in Visible(s) : /\ ~NothingScanned(driver, antivirus[s], r)
                                                /\ n \in Counts(driver, r)
<1>0. /\ stage[s] = "launched" /\ answer[s] = Open /\ answer'[s] = Answer(200, n)
      /\ Answer(200, n) \notin {Open, Refused, Unreachable}
  BY DEF Answered, AnswersWait, Open, Refused, Unreachable, Answer
<1>a. answer' # answer
  BY <1>0
<1>1. \E t \in Scan : DriverStep(t)
  <2>1. ~ UpdateStep
    BY <1>a DEF UpdateStep, RefuseUpdate, MoveAside, Unpack, Install, DeleteBackup, EndUpdate,
                DiscardUnpacked, Restore, FailUpdate, LoseUpdate, scanVars
  <2>2. ~ \E t \in Scan : AntivirusStep(t)
    BY <1>a DEF AntivirusStep, BeginReport, EndReport, Break
  <2>3. QED
    BY <1>a, <2>1, <2>2 DEF Next, vars, scanVars
<1>2. PICK t \in Scan : DriverStep(t)
  BY <1>1
<1>b. ASSUME NEW a, answer' = [answer EXCEPT ![t] = a]
      PROVE  t = s /\ a = Answer(200, n)
  BY <1>0, <1>b DEF TypeOK
<1>3. ReadReport(t)
  <2>1. ~ StartScan(t) /\ ~ Clean(t)
    BY <1>a DEF StartScan, Clean
  <2>2. ~ RefuseExitCode(t) /\ ~ GiveUp(t) /\ ~ TimeOut(t) /\ ~ LoseConnection(t)
    BY <1>0, <1>b DEF RefuseExitCode, GiveUp, TimeOut, LoseConnection, Judge
  <2>3. ~ FailReading(t)
    BY <1>0, <1>b DEF FailReading, Judge, Crashed
  <2>4. ~ FailStart(t)
    BY <1>0, <1>b DEF FailStart
  <2>5. QED
    BY <1>2, <2>1, <2>2, <2>3, <2>4 DEF DriverStep
<1>4. PICK r \in Visible(t) : \E a \in Answers(driver, antivirus[t], r) : Judge(t, a)
  BY <1>3 DEF ReadReport
<1>5. t = s /\ Answer(200, n) \in Answers(driver, antivirus[t], r)
  BY <1>4, <1>b DEF Judge
<1>6. /\ Answer(200, n) # Refused
      /\ Answer(200, n) \notin NoTime(driver)
  <2>1. NoTime(driver) \subseteq {Open, Refused}
    <3>1. driver.time \in {"required", "crashes", "measured"}
      BY ThreatsType DEF DriverType
    <3>2. QED
      BY <3>1 DEF NoTime, Crashed
  <2>2. QED
    BY <1>0, <2>1
<1>7. ~ NothingScanned(driver, antivirus[t], r)
  BY <1>5, <1>6 DEF Answers
<1>8. PICK m \in Counts(driver, r) : Answer(200, n) = Stored(driver, m)
  BY <1>5, <1>6 DEF Answers
<1>9. m = n
  BY <1>0, <1>8 DEF Stored, Crashed, Answer
<1>10. QED
  BY <1>3, <1>5, <1>7, <1>8, <1>9 DEF ReadReport

\* A report on a file without threats is counted as some only when a word in the
\* name of the file is taken for that of an infected one.
LEMMA NothingCounted ==
    ASSUME NEW d \in DriverType, NEW r \in Report, r.found = 0, ~Echoed(d, r, Alarming)
    PROVE  Counts(d, r) \subseteq {0, Null, AVException, OtherException}
<1> DEFINE Few == {0, Null, AVException, OtherException}
<1>1. r.found % 10 = 0 /\ ~ (r.found > 0) /\ r.found < 10
  BY SMT
<1>2. d.reads \in {"number", "last digit", "first digit", "singular", "words", "status",
                   "lenient", "elements", "hits", "nothing"}
  BY DEF DriverType
<1>3. {AVException} \subseteq Few /\ {AVException, OtherException} \subseteq Few
         /\ {Null, OtherException} \subseteq Few /\ {0} \subseteq Few
  OBVIOUS
<1> HIDE DEF Few
<1>4. CASE d.reads \in {"number", "lenient", "elements"}
  BY <1>3, <1>4 DEF Counts
<1>5. CASE d.reads \in {"hits", "nothing", "singular"}
  BY <1>3, <1>5 DEF Counts
<1>6. CASE d.reads \in {"last digit", "first digit"}
  BY <1>1, <1>3, <1>6 DEF Counts
<1>7. CASE d.reads \in {"words", "status"}
  BY <1>1, <1>3, <1>7 DEF Counts
<1>8. QED
  BY <1>2, <1>4, <1>5, <1>6, <1>7 DEF Few

\* A count of zero has been read in a report of no threats, was the last digit of
\* their number, the number of words in an unexpected report, or is owed to a word
\* in the name of the file.
LEMMA ZeroCounted ==
    ASSUME NEW d \in DriverType, NEW r \in Report, 0 \in Counts(d, r)
    PROVE  \/ d.reads = "last digit" /\ r.found % 10 = 0
           \/ d.reads = "hits" /\ r.nature = "odd"
           \/ Echoed(d, r, Calming)
           \/ r.found = 0 /\ r.nature # "odd"
<1>1. r.found \in Nat
  BY HostAssumption DEF HostAssumption, Report
<1>2. 0 \notin {Null, AVException, OtherException} /\ 0 # 1 /\ 0 # r.found + 1
  BY <1>1 DEF Null, AVException, OtherException
<1>3. d.reads \in {"number", "last digit", "first digit", "singular", "words", "status",
                   "lenient", "elements", "hits", "nothing"}
  BY DEF DriverType
<1> HIDE DEF Null, AVException, OtherException
<1>4. CASE d.reads = "first digit"
  <2>1. ~ (r.found < 10) => r.found \div 10 # 0
    BY <1>1
  <2>2. CASE Understood(r)
    <3>1. Counts(d, r) = {IF r.found < 10 THEN r.found ELSE r.found \div 10}
      BY <1>4, <2>2 DEF Counts
    <3>2. QED
      BY <2>1, <2>2, <3>1 DEF Understood
  <2>3. CASE ~ Understood(r)
    BY <1>2, <1>4, <2>3 DEF Counts
  <2>4. QED
    BY <2>2, <2>3
<1>5. CASE d.reads \in {"number", "lenient", "elements"}
  BY <1>2, <1>5 DEF Counts, Understood
<1>6. CASE d.reads \in {"nothing", "singular", "last digit"}
  BY <1>2, <1>6 DEF Counts, Understood
<1>9. CASE d.reads = "hits"
  <2>1. Counts(d, r) \subseteq {r.found, r.found + 1}
    BY <1>9 DEF Counts
  <2>2. r.found = 0
    BY <1>2, <2>1
  <2>3. QED
    BY <1>9, <2>2
<1>7. CASE d.reads \in {"words", "status"}
  <2>1. ~ (r.found > 0) => r.found = 0
    BY <1>1
  <2>3. CASE Counts(d, r) = {IF r.found > 0 THEN 1 ELSE 0} /\ r.nature # "odd"
    BY <1>2, <2>1, <2>3
  <2>4. CASE Counts(d, r) \subseteq {1, Null, AVException, OtherException}
    BY <1>2, <2>4
  <2>5. CASE d.reads = "words"
    BY <2>3, <2>4, <2>5 DEF Counts
  <2>6. CASE d.reads = "status"
    BY <2>3, <2>4, <2>6 DEF Counts, Understood
  <2>7. QED
    BY <1>7, <2>5, <2>6
<1>8. QED
  BY <1>3, <1>4, <1>5, <1>6, <1>7, <1>9

\* What a scan has read of its own file is what the file holds.
LEMMA OwnReportTells ==
    ASSUME TypeOK, ReportsTell, NEW s \in Scan, NEW r \in Visible(s), ~ OfAnother(s)
    PROVE  /\ r.of = s
           /\ r.found = IF r.nature \in {"regular", "untimed"} THEN threats[s] ELSE 0
<1>1. ~ ReadsAnother(s) /\ ~ driver.whole /\ aim[s] = s
  BY DEF OfAnother
<1>2. r.of = s
  BY <1>1 DEF Visible, ReadsAnother
<1>3. r \in reports
  BY DEF Visible
<1>4. QED
  BY <1>1, <1>2, <1>3 DEF ReportsTell

\* Which alarms a step may store for a file without threats.
LEMMA AlarmStep ==
    ASSUME TypeOK, TypeOK', AnswersWait, ReportsTell, [Next]_vars,
           NEW s \in Scan, threats[s] = 0, CalledInfected(s)
    PROVE  OfAnother(s) \/ (driver.echoes /\ name[s] \in Alarming)
<1> SUFFICES ASSUME ~ OfAnother(s), ~ (driver.echoes /\ name[s] \in Alarming)
             PROVE  FALSE
  OBVIOUS
<1>1. PICK n \in Nat : n > 0 /\ Answered(s, n)
  <2>1. /\ answer'[s].status = 200
        /\ answer'[s].found \in Nat \cup {Null}
        /\ answer'[s].found > 0
        /\ answer'[s] \in AnswerType
    BY DEF CalledInfected, TypeOK, AnswerType
  <2>2. answer'[s].found \in Nat
    BY <2>1 DEF Null
  <2>3. answer'[s] = Answer(200, answer'[s].found)
    BY <2>1 DEF Answer, AnswerType
  <2>4. QED
    BY <2>1, <2>2, <2>3 DEF Answered, CalledInfected
<1>2. PICK r \in Visible(s) : n \in Counts(driver, r)
  BY <1>1, VerdictIsRead
<1>3. r.of = s /\ r.found = 0
  BY OwnReportTells
<1>4. n \in {0, Null, AVException, OtherException}
  BY <1>2, <1>3, ThreatsType, NothingCounted DEF Echoed
<1>5. QED
  BY <1>1, <1>4 DEF Null, AVException, OtherException

\* Which misses a step may store for a file that holds threats.
LEMMA MissStep ==
    ASSUME OfTable, TypeOK, AnswersWait, ReportsTell, [Next]_vars,
           NEW s \in Scan, threats[s] > 0, CalledClean(s)
    PROVE  \/ OfAnother(s)
           \/ driver.reads = "last digit" /\ threats[s] % 10 = 0
           \/ driver.reads = "hits" /\ \E r \in Visible(s) : r.nature = "odd"
           \/ driver.echoes /\ name[s] \in Calming
           \/ /\ driver.tally = "never" \/ (driver.tally = "exit 0" /\ antivirus[s] = "found")
              /\ \E r \in Visible(s) : r.of = s /\ r.nature = "blind"
<1> SUFFICES ASSUME ~ OfAnother(s), ~ (driver.echoes /\ name[s] \in Calming)
             PROVE  \/ driver.reads = "last digit" /\ threats[s] % 10 = 0
                    \/ driver.reads = "hits" /\ \E r \in Visible(s) : r.nature = "odd"
                    \/ /\ \/ driver.tally = "never"
                          \/ driver.tally = "exit 0" /\ antivirus[s] = "found"
                       /\ \E r \in Visible(s) : r.of = s /\ r.nature = "blind"
  OBVIOUS
<1>0. Answered(s, 0)
  BY DEF CalledClean, Answered
<1>1. Proceeds(s)
  BY <1>0, VerdictIsRead
<1>2. PICK r \in Visible(s) : /\ ~NothingScanned(driver, antivirus[s], r)
                              /\ 0 \in Counts(driver, r)
  BY <1>0, VerdictIsRead
<1>3. /\ r.of = s
      /\ r.found = IF r.nature \in {"regular", "untimed"} THEN threats[s] ELSE 0
  BY OwnReportTells
<1>4. driver \in DriverType /\ r \in Report /\ threats[s] \in Nat
  BY ThreatsType
<1>e. ~Echoed(driver, r, Calming)
  BY <1>3 DEF Echoed
<1>5. r.nature \in {"regular", "untimed", "blind", "odd"}
  BY <1>4 DEF Report, Nature
<1>6. CASE r.nature = "blind"
  <2>1. /\ driver.tally # "always"
        /\ driver.tally = "exit 0" => antivirus[s] # "ok"
    BY <1>2, <1>6 DEF NothingScanned
  <2>2. driver.tally = "exit 0" => antivirus[s] = "found"
    <3>1. driver.spawns => driver.tally # "exit 0"
      <4>1. driver \in Driver
        BY DEF TypeOK
      <4>2. QED
        BY <4>1, DriversAreExpected
    <3>2. QED
      BY <1>1, <2>1, <3>1 DEF Proceeds
  <2>3. driver.tally \in {"never", "exit 0"}
    BY <1>4, <2>1 DEF DriverType
  <2>4. QED
    BY <1>3, <1>6, <2>2, <2>3
<1>7. CASE r.nature \in {"regular", "untimed"}
  <2>1. r.found = threats[s] /\ r.found # 0
    BY <1>3, <1>4, <1>7
  <2>2. QED
    BY <1>2, <1>4, <1>7, <1>e, <2>1, ZeroCounted
<1>8. CASE r.nature = "odd" /\ driver.reads = "hits"
  BY <1>8
<1>9. CASE r.nature = "odd" /\ driver.reads # "hits"
  <2>1. driver.reads = "last digit"
    BY <1>2, <1>4, <1>9, <1>e, ZeroCounted
  <2>2. Counts(driver, r) = {AVException}
    BY <1>9, <2>1 DEF Counts, Understood
  <2>3. 0 # AVException
    BY DEF AVException
  <2>4. QED
    BY <1>2, <2>2, <2>3
<1>10. QED
  BY <1>5, <1>6, <1>7, <1>8, <1>9

\* Whatever the drivers, a file without threats is called infected only when the
\* answer may be that of another file or a word of its own name.
THEOREM AlarmsHaveCauses == Spec => AlarmHasCause
<1>1. ASSUME TypeOK, TypeOK', AnswersWait, ReportsTell, [Next]_vars
      PROVE  [\A s \in Scan : threats[s] = 0 /\ CalledInfected(s) =>
                 OfAnother(s) \/ (driver.echoes /\ name[s] \in Alarming)]_vars
  BY <1>1, AlarmStep
<1>2. QED
  BY <1>1, HostKeepsTypes, ReportsAreTrue, PTL DEF Spec, AlarmHasCause

\* With the drivers of the table, a file that holds threats is called clean for one
\* of the named reasons only.
THEOREM MissesHaveCauses ==
    ASSUME OfTable
    PROVE  Spec => MissHasCause
<1>1. ASSUME TypeOK, AnswersWait, ReportsTell, [Next]_vars
      PROVE  [\A s \in Scan : threats[s] > 0 /\ CalledClean(s) =>
                 \/ OfAnother(s)
                 \/ driver.reads = "last digit" /\ threats[s] % 10 = 0
                 \/ driver.reads = "hits" /\ \E r \in Visible(s) : r.nature = "odd"
                 \/ driver.echoes /\ name[s] \in Calming
                 \/ /\ driver.tally = "never" \/ (driver.tally = "exit 0" /\ antivirus[s] = "found")
                    /\ \E r \in Visible(s) : r.of = s /\ r.nature = "blind"]_vars
  BY <1>1, MissStep
<1>2. QED
  BY <1>1, HostKeepsTypes, ReportsAreTrue, PTL DEF Spec, MissHasCause
=============================================================================
