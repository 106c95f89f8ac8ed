----------------------------- MODULE AgentHost -----------------------------
(***************************************************************************)
(* The host of one agent: the scans that several perform_scan tasks ask of  *)
(* its antivirus at the same time, and the updates of that antivirus.  All  *)
(* of them go through the one driver of the agent; they share the media     *)
(* root of the host, the reports the antivirus writes and its installation. *)
(***************************************************************************)
EXTENDS DriverTable, Integers, FiniteSets

CONSTANTS
    Scan,       \* concurrent scans, each of one file
    Driver,     \* the drivers to consider
    Threats,    \* numbers of threats a file may hold
    Name,       \* names of files
    Alarming,   \* the names that contain what a driver takes for the word of an infected file
    Calming     \* ... and for the word of a clean one

ASSUME HostAssumption ==
    /\ IsFiniteSet(Scan)
    /\ Driver \subseteq DriverType
    /\ 0 \in Threats /\ Threats \subseteq Nat
    /\ Alarming \subseteq Name /\ Calming \subseteq Name

VARIABLES
    driver,    \* the driver of the agent
    threats,   \* what the file of each scan really holds
    name,      \* what it is called
    stage,     \* where each scan is in the driver
    antivirus, \* what the antivirus does for each scan, and how it exited
    reports,   \* the reports there are
    copies,    \* the scans whose file is in the media root, one for a name at most
    aim,       \* the scan whose file the antivirus finds where each scan sends it
    answer,    \* what each scan is answered: the status code and infected_num of its row
    program,   \* the installed antivirus
    backup,    \* the directory an update has moved aside
    update     \* the update: its stage, its status code, whether it has moved the antivirus

inputVars == <<threats, name, aim>>
scanVars == <<inputVars, stage, antivirus, reports, copies, answer>>
updateVars == <<program, backup, update>>
vars == <<driver, scanVars, updateVars>>

-----------------------------------------------------------------------------
(* What a driver makes of a report *)

\* The antivirus has scanned the file ("regular", or "untimed" when it does not
\* tell the time), has scanned nothing ("blind"), or words its report in a way the
\* driver does not expect ("odd").
Nature == {"regular", "untimed", "blind", "odd"}

Report == [of : Scan, nature : Nature, found : Threats, full : BOOLEAN]

\* What is there of a report while the antivirus is still writing it.
Partial(s) == [of |-> s, nature |-> "odd", found |-> 0, full |-> FALSE]

Understood(r) == r.nature # "odd"

\* What get_infected_num may end with besides a number: no number at all, an
\* AVException, another exception.
Null == -1
AVException == -2
OtherException == -3

\* A word that the driver looks for stands in the name of the file, which stands in
\* the report.
Echoed(d, r, words) == d.echoes /\ name[r.of] \in words

\* The words of an infected file are looked for before those of a clean one; drweb
\* looks for the words of a clean one before the number.
Counts(d, r) ==
    CASE d.reads = "nothing" -> {AVException}
      [] d.reads = "hits"    -> {IF Echoed(d, r, Alarming) THEN r.found + 1 ELSE r.found}
      [] d.reads = "words" /\ Echoed(d, r, Alarming) -> {1}
      [] d.reads = "words" /\ r.nature \in {"blind", "odd"} /\ Echoed(d, r, Calming)
                       /\ ~Echoed(d, r, Alarming) -> {0}
      [] d.reads = "number" /\ Echoed(d, r, Calming) -> {0}
      [] d.reads = "status"  -> IF Understood(r) THEN {IF r.found > 0 THEN 1 ELSE 0}
                                ELSE {Null, OtherException}
      [] d.reads = "number" /\ Understood(r) /\ ~Echoed(d, r, Calming) -> {r.found}
      [] d.reads \in {"lenient", "elements"} /\ Understood(r) -> {r.found}
      [] d.reads = "last digit" /\ Understood(r)  -> {r.found % 10}
      [] d.reads = "first digit" /\ Understood(r) -> {IF r.found < 10 THEN r.found ELSE r.found \div 10}
      [] d.reads = "singular" /\ r.found <= 1 /\ Understood(r) -> {r.found}
      [] d.reads = "words" /\ r.nature \in {"regular", "untimed"} /\ ~Echoed(d, r, Alarming) ->
            {IF r.found > 0 THEN 1 ELSE 0}
      [] d.reads \in {"lenient", "elements"} /\ ~Understood(r) -> {AVException, OtherException}
      [] OTHER -> {AVException}

\* on_scan_exit_ok, on_scan_exit_fail: the check that something was scanned,
\* which most drivers make only when the exit code was 0.
NothingScanned(d, exit, r) ==
    /\ d.tally = "always" \/ (d.tally = "exit 0" /\ exit = "ok")
    /\ r.nature \in {"blind", "odd"}

Answer(status, found) == [status |-> status, found |-> found]

Open == Answer(0, Null)
Refused == Answer(498, Null)
Unreachable == Answer(499, Null)

\* Variant: a driver that wraps nothing.
AlwaysOpen(d) == Open

\* perform_scan catches no other exception: the row stays open, unless the
\* driver has turned it into an AVException.
Crashed(d) == IF d.wraps THEN Refused ELSE Open

\* Variant: whatever get_infected_num returns is stored.
StoredAsIs(d, n) == Answer(200, n)

Stored(d, n) ==
    IF n = AVException THEN Refused ELSE IF n = OtherException THEN Crashed(d) ELSE Answer(200, n)

\* get_scan_time of a report in which there is no time.
NoTime(d) ==
    CASE d.time = "required" -> {Refused}
      [] d.time = "crashes"  -> {Crashed(d)}
      [] d.time = "measured" -> {}

\* AVBackend.scan, on_success: the check, then the scan time, then the number.
Answers(d, exit, r) ==
    IF NothingScanned(d, exit, r) THEN {Refused}
    ELSE (IF r.nature \in {"untimed", "odd"} THEN NoTime(d) ELSE {})
         \cup (IF r.nature = "untimed" /\ d.time # "measured" THEN {}
               ELSE {Stored(d, n) : n \in Counts(d, r)})

-----------------------------------------------------------------------------
(* Initial states *)

TypeOK ==
    /\ driver \in Driver
    /\ threats \in [Scan -> Threats]
    /\ name \in [Scan -> Name]
    /\ aim \in [Scan -> Scan]
    /\ stage \in [Scan -> {"queued", "launched", "judged", "done"}]
    /\ antivirus \in [Scan -> {"off", "running", "ok", "found", "failed"}]
    /\ reports \subseteq Report
    /\ copies \subseteq Scan
    /\ answer \in [Scan -> [status : {0, 200, 498, 499}, found : Nat \cup {Null}]]
    /\ program \in {"old", "none", "mixed", "new"}
    /\ backup \in {"none", "whole", "part"}
    /\ update \in [stage : {"idle", "moved", "installed", "failed", "restoring",
                            "done"}, moved : BOOLEAN,
                   status : {0, 200, 498, 499}]

Init ==
    /\ driver \in Driver
    /\ threats \in [Scan -> Threats]
    /\ name \in [Scan -> Name]
    /\ aim = [s \in Scan |-> s]
    /\ stage = [s \in Scan |-> "queued"]
    /\ antivirus = [s \in Scan |-> "off"]
    /\ reports = {}
    /\ copies = {}
    /\ answer = [s \in Scan |-> Open]
    /\ \/ program = "old" /\ backup = "none"
       \/ program = "none" /\ backup = "whole" /\ driver.update = "swap"
    /\ update = [stage |-> "idle", moved |-> FALSE, status |-> 0]

-----------------------------------------------------------------------------
(* A scan: the driver *)

Enter(s, from, to) == stage[s] = from /\ stage' = [stage EXCEPT ![s] = to]

\* The scans under way whose input that of scan s overwrites: a copy is called as
\* the file is, whatever its directory was, and there is one file of orders.
Overwritten(s) ==
    {x \in Scan \ {s} :
        /\ antivirus[x] = "running"
        /\ driver.takes = "order" \/ (driver.takes = "copy" /\ name[x] = name[s])}

\* The copies of files with the name of that of scan s.
Namesakes(s) == {x \in copies : name[x] = name[s]}

\* scan: earlier reports are removed, the file is copied, by the drivers that do;
\* then the command is started.  Of the scans whose input is overwritten those are
\* redirected whose antivirus has not read it yet.
StartScan(s) ==
    /\ Enter(s, "queued", "launched")
    /\ reports' = IF driver.clears THEN {} ELSE reports
    /\ copies' = IF driver.takes = "copy" THEN (copies \ Namesakes(s)) \cup {s} ELSE copies
    /\ \E late \in SUBSET Overwritten(s) :
          aim' = [x \in Scan |-> IF x \in late THEN s ELSE aim[x]]
    /\ antivirus' = [antivirus EXCEPT ![s] = "running"]
    /\ UNCHANGED <<driver, threats, name, answer, updateVars>>

\* The file is not there, or copying it or removing earlier reports fails.
FailStart(s) ==
    /\ Enter(s, "queued", "judged")
    /\ \E a \in {Refused, Unreachable} : answer' = [answer EXCEPT ![s] = a]
    /\ UNCHANGED <<driver, inputVars, antivirus, reports, copies, updateVars>>

Judge(s, a) == Enter(s, "launched", "judged") /\ answer' = [answer EXCEPT ![s] = a]

\* invoke.run awaits the exit code, Popen does not.
Proceeds(s) ==
    driver.spawns \/ antivirus[s] = "ok" \/ (antivirus[s] = "found" /\ driver.accepts)

\* Variant: every driver reads the last report there is.
EveryReport(s) == reports

\* The reports that a scan may take for its own.
Visible(s) == IF driver.log = "shared" THEN reports ELSE {r \in reports : r.of = s}

ReadReport(s) ==
    /\ Proceeds(s)
    /\ \E r \in Visible(s) :
          /\ r.full \/ driver.awaits = "any"
          /\ \E a \in Answers(driver, antivirus[s], r) : Judge(s, a)
    /\ UNCHANGED <<driver, inputVars, antivirus, reports, copies, updateVars>>

\* Decoding what stands in a report, of another scan or half-written, or looking for
\* the window of the antivirus, which another scan closes, raises an exception.
FailReading(s) ==
    /\ Proceeds(s)
    /\ \/ "codec" \in driver.raises /\ \E r \in Visible(s) : ~Understood(r)
       \/ "window" \in driver.raises
    /\ Judge(s, Crashed(driver))
    /\ UNCHANGED <<driver, inputVars, antivirus, reports, copies, updateVars>>

\* on_scan_exit_fail: an exit code that the driver does not accept.
RefuseExitCode(s) ==
    /\ ~driver.spawns
    /\ antivirus[s] = "failed" \/ (antivirus[s] = "found" /\ ~driver.accepts)
    /\ Judge(s, Refused)
    /\ UNCHANGED <<driver, inputVars, antivirus, reports, copies, updateVars>>

\* 'After 10 tries, log is still empty'; a log of its own is removed first, which
\* fails when it is not there.
GiveUp(s) ==
    /\ driver.log # "output"
    /\ Proceeds(s)
    /\ Judge(s, IF driver.log = "own" /\ Visible(s) = {} THEN Unreachable ELSE Refused)
    /\ UNCHANGED <<driver, inputVars, antivirus, reports, copies, updateVars>>

\* The soft time limit of perform_scan, while the driver waits.
TimeOut(s) ==
    /\ Judge(s, IF driver.wraps THEN Refused ELSE Unreachable)
    /\ UNCHANGED <<driver, inputVars, antivirus, reports, copies, updateVars>>

\* Variant: the copy is removed on the path of success only.
CleanAfterSuccess(s) ==
    /\ Enter(s, "judged", "done")
    /\ copies' = IF answer[s].status = 200 THEN copies \ Namesakes(s) ELSE copies
    /\ reports' = IF driver.log = "shared" THEN reports ELSE {r \in reports : r.of # s}
    /\ UNCHANGED <<driver, inputVars, antivirus, answer, updateVars>>

\* The finally clause of scan removes what is there by the name of the copy, or all
\* of the media root.
Clean(s) ==
    /\ Enter(s, "judged", "done")
    /\ copies' = IF driver.whole THEN {} ELSE copies \ Namesakes(s)
    /\ reports' = IF driver.log = "shared" THEN reports ELSE {r \in reports : r.of # s}
    /\ UNCHANGED <<driver, inputVars, antivirus, answer, updateVars>>

\* The connection to the host breaks: EOFError.  In the finally clause that, or the
\* failure to remove the copy (OSError), replaces the answer.
LoseConnection(s) ==
    /\ Enter(s, "launched", "done") \/ (driver.takes = "copy" /\ Enter(s, "judged", "done"))
    /\ answer' = [answer EXCEPT ![s] = Unreachable]
    /\ UNCHANGED <<driver, inputVars, antivirus, reports, copies, updateVars>>

-----------------------------------------------------------------------------
(* The antivirus *)

\* Variant: every driver that copies has the whole directory scanned.
InMediaRoot(s) == IF driver.takes # "copy" THEN {aim[s]} ELSE copies

\* The scans whose files it finds at the path it was given.
AtPath(s) ==
    IF driver.whole THEN copies
    ELSE IF driver.takes = "copy" /\ Namesakes(s) = {} THEN {} ELSE {aim[s]}

\* It goes on when the driver has stopped waiting, which matters only where
\* another scan may read what it writes.
Works(s) == antivirus[s] = "running" /\ (stage[s] = "launched" \/ driver.log = "shared")

BeginReport(s) ==
    /\ Works(s)
    /\ driver.log # "output"
    /\ program # "none"
    /\ \A r \in reports : r.of # s
    /\ reports' = reports \cup {Partial(s)}
    /\ UNCHANGED <<driver, inputVars, stage, antivirus, copies, answer, updateVars>>

Most(S) == CHOOSE n \in S : \A m \in S : m <= n

\* It ends with a report.  It may fail to scan for reasons of its own, and
\* has nothing to scan when the file is gone.
EndReport(s) ==
    /\ Works(s)
    /\ program # "none"
    /\ \E n \in IF AtPath(s) = {} THEN {"blind", "odd"} ELSE Nature, exit \in {"ok", "found"} :
          \* only where somebody asks for the time, or for the exit code
          /\ n = "untimed" => driver.time # "measured"
          /\ exit = "found" => ~driver.spawns
          /\ LET found == IF n \in {"regular", "untimed"}
                          THEN Most({threats[x] : x \in AtPath(s)}) ELSE 0
             IN  /\ exit = "found" => found > 0 \/ n \in {"blind", "odd"}
                 /\ reports' = {r \in reports : r.of # s}
                                 \cup {[of |-> s, nature |-> n, found |-> found, full |-> TRUE]}
                 /\ antivirus' = [antivirus EXCEPT ![s] = exit]
    /\ UNCHANGED <<driver, inputVars, stage, copies, answer, updateVars>>

\* It does not start, or breaks off.
Break(s) ==
    /\ Works(s)
    /\ antivirus' = [antivirus EXCEPT ![s] = "failed"]
    /\ UNCHANGED <<driver, inputVars, stage, reports, copies, answer, updateVars>>

-----------------------------------------------------------------------------
(* An update of the antivirus *)

Proceed(to, moved) == update' = [stage |-> to, moved |-> moved, status |-> 0]
End(status) == update' = [update EXCEPT !.stage = "done", !.status = status]

\* AVBackend.update
RefuseUpdate ==
    /\ update.stage = "idle"
    /\ driver.update = "none"
    /\ End(498)
    /\ UNCHANGED <<driver, scanVars, program, backup>>

\* Variant: the installed antivirus is deleted instead.
DeleteInstalled ==
    /\ update.stage = "idle"
    /\ driver.update = "swap"
    /\ program' = "none"
    /\ Proceed("moved", program # "none")
    /\ UNCHANGED <<driver, scanVars, backup>>

\* The installed antivirus is moved aside, if there is one.
MoveAside ==
    /\ update.stage = "idle"
    /\ driver.update = "swap"
    /\ IF program = "none"
       THEN Proceed("moved", FALSE) /\ UNCHANGED <<program, backup>>
       ELSE Proceed("moved", TRUE) /\ program' = "none" /\ backup' = "whole"
    /\ UNCHANGED <<driver, scanVars>>

\* The archive is unpacked where the antivirus belongs; that fails before
\* anything is written, or half-way.
Unpack ==
    /\ \/ driver.update = "swap" /\ update.stage = "moved"
       \/ driver.update = "extract" /\ update.stage = "idle"
    /\ \/ program' = "new" /\ Proceed("installed", update.moved)
       \/ program' \in {program, "mixed"} /\ Proceed("failed", update.moved)
    /\ UNCHANGED <<driver, scanVars, backup>>

\* The installers of the archive are run; a failing one may go unnoticed.
Install ==
    /\ driver.update \in {"install", "lax"}
    /\ update.stage = "idle"
    /\ \/ program' = "new" /\ Proceed("installed", FALSE)
       \/ program' \in {program, "mixed"} /\ Proceed("failed", FALSE)
       \/ driver.update = "lax" /\ program' \in {program, "mixed"} /\ Proceed("installed", FALSE)
    /\ UNCHANGED <<driver, scanVars, backup>>

\* shutil.rmtree(path_old): the last step of a swap, which may break off.
DeleteBackup ==
    /\ update.stage = "installed"
    /\ update.moved
    /\ \/ backup' = "none" /\ End(200)
       \/ backup' = "part" /\ Proceed("failed", TRUE)
    /\ UNCHANGED <<driver, scanVars, program>>

\* The finally clause of the drivers that unpack into the media root.
Wipe == copies' = IF driver.wipes THEN {} ELSE copies

EndUpdate ==
    /\ update.stage = "installed"
    /\ ~update.moved
    /\ End(200)
    /\ Wipe
    /\ UNCHANGED <<driver, inputVars, stage, antivirus, reports, answer, program, backup>>

\* The handler of a swap deletes what was unpacked, when that and the backup
\* are both there; deleting may fail in turn ...
DiscardUnpacked ==
    /\ update.stage = "failed"
    /\ update.moved /\ program # "none"
    /\ \/ program' = "none" /\ Proceed("restoring", TRUE)
       \/ program' = "mixed" /\ End(499)
    /\ UNCHANGED <<driver, scanVars, backup>>

\* ... and moves the backup back.
Restore ==
    /\ update.stage = "restoring"
    /\ program' = IF backup = "whole" THEN "old" ELSE "mixed"
    /\ backup' = "none"
    /\ End(498)
    /\ UNCHANGED <<driver, scanVars>>

\* Variant: the exception does not leave the driver.
FailQuietly ==
    /\ update.stage = "failed"
    /\ ~update.moved \/ program = "none"
    /\ End(200)
    /\ Wipe
    /\ UNCHANGED <<driver, inputVars, stage, antivirus, reports, answer, program, backup>>

FailUpdate ==
    /\ update.stage = "failed"
    /\ ~update.moved \/ program = "none"
    /\ End(498)
    /\ Wipe
    /\ UNCHANGED <<driver, inputVars, stage, antivirus, reports, answer, program, backup>>

\* The connection to the host breaks during an update.
LoseUpdate ==
    /\ update.stage \in {"moved", "installed", "failed", "restoring"}
    /\ End(499)
    /\ UNCHANGED <<driver, scanVars, program, backup>>

-----------------------------------------------------------------------------
(* Specification *)

DriverStep(s) ==
    \/ StartScan(s) \/ FailStart(s) \/ ReadReport(s) \/ FailReading(s) \/ RefuseExitCode(s)
    \/ GiveUp(s) \/ TimeOut(s) \/ Clean(s) \/ LoseConnection(s)

AntivirusStep(s) == BeginReport(s) \/ EndReport(s) \/ Break(s)

UpdateStep ==
    \/ RefuseUpdate \/ MoveAside \/ Unpack \/ Install \/ DeleteBackup
    \/ EndUpdate \/ DiscardUnpacked \/ Restore \/ FailUpdate \/ LoseUpdate

Next == (\E s \in Scan : DriverStep(s) \/ AntivirusStep(s)) \/ UpdateStep

Spec == Init /\ [][Next]_vars

-----------------------------------------------------------------------------
(* Properties *)

\* Scan s is being stored as that of a clean file, or of an infected one.
CalledClean(s) == stage[s] = "launched" /\ answer'[s] = Answer(200, 0)
CalledInfected(s) == stage[s] = "launched" /\ answer'[s].status = 200 /\ answer'[s].found > 0

ReadsAnother(s) == driver.log = "shared" /\ \E r \in reports : r.of # s

\* The answer may be that of another file: from a shared report, from another copy
\* in the same directory or by the same name, or from an overwritten order.
OfAnother(s) == ReadsAnother(s) \/ driver.whole \/ aim[s] # s

\* A file that holds threats is stored as clean (infected_num 0) only when the answer
\* may be that of another file, or by a driver that keeps one digit of the number of
\* threats, counts words in an unexpected report, takes the name of the file for a
\* word of the antivirus, or does not check that anything was scanned.
MissHasCause ==
    [][\A s \in Scan : threats[s] > 0 /\ CalledClean(s) =>
          \/ OfAnother(s)
          \/ driver.reads = "last digit" /\ threats[s] % 10 = 0
          \/ driver.reads = "hits" /\ \E r \in Visible(s) : r.nature = "odd"
          \/ driver.echoes /\ name[s] \in Calming
          \/ /\ driver.tally = "never" \/ (driver.tally = "exit 0" /\ antivirus[s] = "found")
             /\ \E r \in Visible(s) : r.of = s /\ r.nature = "blind"]_vars

\* A file without threats is stored as infected only when the answer may be that of
\* another file, or when the name of the file is taken for a word of the antivirus.
AlarmHasCause ==
    [][\A s \in Scan : threats[s] = 0 /\ CalledInfected(s) =>
          OfAnother(s) \/ (driver.echoes /\ name[s] \in Alarming)]_vars

\* Only these drivers can fail in a way perform_scan does not expect, which leaves
\* the Scan row open for ever: all others answer every scan they end.
MayLeaveOpen == {
    AdawareBackend, AviraBackend, DrwebBackend, GdataBackend, KsevenBackend, MaxBackend,
    McafeeBackend, SecureaplusBackend, SymantecBackend, Totalsecurity360Backend,
    TrustportBackend, WinessentialsBackend, XvirusBackend}

OpenHasCause ==
    \A s \in Scan : stage[s] \in {"judged", "done"} /\ answer[s] = Open =>
        \E d \in MayLeaveOpen : driver = [d EXCEPT !.dates = driver.dates]

\* A copy stays in the media root of the host only when the connection broke.
CopiesAreRemoved == \A s \in copies : stage[s] = "done" => answer[s] = Unreachable

\* An update recorded as successful has installed the new version, unless the
\* driver does not look at what its installers return.
SuccessIsNew == update.stage = "done" /\ update.status = 200 /\ driver.update # "lax" => program = "new"

\* Some complete antivirus is there, installed or moved aside.
SomeWhole == program \in {"old", "new"} \/ backup = "whole"

\* An update that moves the antivirus aside never loses the last complete one,
\* except in its handler when deleting the backup had broken off.
LastWholeKept == [][driver.update = "swap" /\ SomeWhole => SomeWhole' \/ backup = "part"]_vars
=============================================================================
