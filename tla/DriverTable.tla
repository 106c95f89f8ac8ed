---------------------------- MODULE DriverTable ----------------------------
(***************************************************************************)
(* The antivirus drivers (agents/backends/): what distinguishes the class   *)
(* of one antivirus from another in the way it prepares a scan, waits for   *)
(* the antivirus, reads its report and installs an update.  Patterns, paths *)
(* and command lines are left out; what they make of a report is kept.      *)
(***************************************************************************)

\* The fields of a driver and their values.
DriverType == [
    takes   : {"name", "file", "copy", "order"},  \* passes the path on, checks it first, copies the
                                           \* file, or writes the path into the one file of orders
    wraps   : BOOLEAN,                     \* scan turns every exception into an AVException
    whole   : BOOLEAN,                     \* scans, and afterwards deletes, the whole media root
    spawns  : BOOLEAN,                     \* starts the antivirus without waiting for its exit code
    accepts : BOOLEAN,                     \* reads the report after some non-zero exit code as well
    log     : {"output", "own", "shared"}, \* where the report is: its output, a file of its own, a
                                           \* place that every scan of the antivirus writes to
    clears  : BOOLEAN,                     \* empties that place before the scan
    awaits  : {"marker", "any"},           \* reads the report when complete, or as soon as it is there
    tally   : {"never", "exit 0", "always"},  \* when a report that nothing was scanned is refused
    reads   : {"number", "last digit", "first digit", "singular", "words", "status", "lenient",
               "elements", "hits", "nothing"},  \* what get_infected_num looks for
    echoes  : BOOLEAN,                     \* it looks for words next to which the path stands as well
    raises  : SUBSET {"codec", "window"},  \* reading may fail: on text that is cut off or not in the
                                           \* codec expected, or on a window that is not there
    time    : {"measured", "required", "crashes"},  \* without a scan time: its own, refused, an error
    update  : {"none", "extract", "swap", "install", "lax"},  \* lax: a failed installer may go unnoticed
    wipes   : BOOLEAN,                     \* an update ends with rmtree(MEDIA_ROOT)
    dates   : {"none", "refuse", "crash"}  \* get_last_update on a date that it cannot read
]

\* The base class: the command is awaited, any non-zero exit code is a failure,
\* a number is matched in the output, there is no offline update.
AVBackend == [
    takes |-> "name", wraps |-> FALSE, whole |-> FALSE, spawns |-> FALSE, accepts |-> FALSE,
    log |-> "output", clears |-> FALSE, awaits |-> "marker", tally |-> "never", reads |-> "number",
    echoes |-> FALSE, raises |-> {}, time |-> "measured", update |-> "none", wipes |-> FALSE,
    dates |-> "none"]

\* Any status but 'Infected' is stored as NULL; the time is parsed unchecked.
AdawareBackend == [AVBackend EXCEPT
    !.tally = "exit 0", !.reads = "status", !.time = "crashes", !.update = "swap", !.dates = "crash"]

ArcabitBackend == [AVBackend EXCEPT
    !.takes = "file", !.accepts = TRUE, !.reads = "words", !.echoes = TRUE]

AvastBackend == [AVBackend EXCEPT
    !.accepts = TRUE, !.time = "required", !.update = "lax", !.wipes = TRUE, !.dates = "crash"]

AvgBackend == [AVBackend EXCEPT
    !.takes = "file", !.accepts = TRUE, !.time = "required", !.update = "lax", !.wipes = TRUE,
    !.dates = "crash"]

\* Exit code 200 skips the check of the scanned files; .*(\d+) keeps the last digit.
AviraBackend == [AVBackend EXCEPT
    !.accepts = TRUE, !.log = "shared", !.clears = TRUE, !.tally = "exit 0", !.reads = "last digit",
    !.raises = {"codec"}, !.dates = "crash"]

\* The class has no infected_pattern: get_infected_num always raises.
BitdefenderBackend == [AVBackend EXCEPT !.reads = "nothing"]

BullguardBackend == [AVBackend EXCEPT
    !.takes = "copy", !.wraps = TRUE, !.spawns = TRUE, !.log = "shared", !.clears = TRUE,
    !.awaits = "any", !.reads = "elements", !.raises = {"codec", "window"}, !.dates = "crash"]

ClamavBackend == [AVBackend EXCEPT
    !.accepts = TRUE, !.time = "required", !.update = "extract", !.dates = "crash"]

ComodoBackend == [AVBackend EXCEPT !.update = "extract", !.dates = "refuse"]

\* A phrase for 'no infected objects' anywhere in the log goes before their number.
DrwebBackend == [AVBackend EXCEPT
    !.takes = "file", !.accepts = TRUE, !.log = "own", !.awaits = "any", !.echoes = TRUE,
    !.raises = {"codec"}, !.time = "required", !.dates = "crash"]

EmsisoftBackend == [AVBackend EXCEPT
    !.accepts = TRUE, !.tally = "exit 0", !.update = "swap", !.dates = "crash"]

EscanBackend == [AVBackend EXCEPT
    !.accepts = TRUE, !.tally = "exit 0", !.update = "swap", !.dates = "crash"]

EsetBackend == [AVBackend EXCEPT
    !.accepts = TRUE, !.tally = "exit 0", !.time = "required", !.update = "swap", !.dates = "crash"]

FprotBackend == [AVBackend EXCEPT
    !.accepts = TRUE, !.time = "required", !.update = "extract", !.dates = "refuse"]

FsecureBackend == [AVBackend EXCEPT !.takes = "file", !.accepts = TRUE, !.dates = "crash"]

\* The directory it would move aside is named after the update file, not the antivirus.
GdataBackend == [AVBackend EXCEPT
    !.accepts = TRUE, !.tally = "always", !.time = "crashes", !.update = "extract", !.dates = "crash"]

GridinsoftBackend == [AVBackend EXCEPT
    !.takes = "file", !.reads = "words", !.echoes = TRUE, !.dates = "crash"]

IkarusBackend == [AVBackend EXCEPT
    !.accepts = TRUE, !.tally = "exit 0", !.reads = "last digit", !.time = "required",
    !.update = "extract", !.dates = "crash"]

KasperskyBackend == [AVBackend EXCEPT
    !.accepts = TRUE, !.tally = "exit 0", !.update = "install", !.dates = "crash"]

\* The report is read off the window of the scanner, whichever scan that shows.
KsevenBackend == [AVBackend EXCEPT
    !.takes = "file", !.spawns = TRUE, !.log = "shared", !.tally = "always", !.reads = "first digit",
    !.raises = {"window"}, !.update = "install", !.wipes = TRUE, !.dates = "crash"]

MaxBackend == [AVBackend EXCEPT
    !.takes = "file", !.accepts = TRUE, !.reads = "lenient", !.time = "required", !.dates = "refuse"]

McafeeBackend == [AVBackend EXCEPT
    !.takes = "file", !.spawns = TRUE, !.log = "shared", !.clears = TRUE, !.raises = {"codec"},
    !.update = "install", !.wipes = TRUE, !.dates = "crash"]

NanoBackend == [AVBackend EXCEPT
    !.takes = "file", !.accepts = TRUE, !.time = "required", !.dates = "crash"]

PadvishBackend == [AVBackend EXCEPT
    !.takes = "copy", !.tally = "exit 0", !.reads = "words", !.update = "install", !.dates = "crash"]

\* Its update wipes the directory that holds the copies of its scans.
QuickhealBackend == [AVBackend EXCEPT
    !.takes = "copy", !.wraps = TRUE, !.spawns = TRUE, !.log = "shared", !.clears = TRUE,
    !.raises = {"codec"}, !.time = "required", !.update = "lax", !.wipes = TRUE, !.dates = "crash"]

SecureaplusBackend == [AVBackend EXCEPT
    !.takes = "file", !.spawns = TRUE, !.log = "shared", !.clears = TRUE, !.raises = {"codec"},
    !.dates = "crash"]

\* Only 'No viruses' and '1 virus was discovered.' are understood.
SophosBackend == [AVBackend EXCEPT !.accepts = TRUE, !.reads = "singular", !.dates = "crash"]

\* Empties /var/log/syslog and waits for any 'Scan Complete' in it.
SymantecBackend == [AVBackend EXCEPT
    !.log = "shared", !.clears = TRUE, !.tally = "exit 0", !.raises = {"codec"},
    !.update = "install", !.wipes = TRUE, !.dates = "crash"]

\* The path goes into MEDIA_ROOT\scan_file.txt, which the antivirus is started with.
Totalsecurity360Backend == [AVBackend EXCEPT
    !.takes = "order", !.spawns = TRUE, !.log = "shared", !.clears = TRUE, !.awaits = "any",
    !.raises = {"codec", "window"}, !.dates = "crash"]

\* Scans and then deletes the whole media root; reads the log of the day.
TrendmicroBackend == [AVBackend EXCEPT
    !.takes = "copy", !.wraps = TRUE, !.whole = TRUE, !.log = "shared", !.awaits = "any",
    !.raises = {"codec"}, !.dates = "refuse"]

TrustportBackend == [AVBackend EXCEPT
    !.takes = "file", !.spawns = TRUE, !.log = "own", !.awaits = "any", !.reads = "elements",
    !.raises = {"codec"}]

\* Counts the words 'Virus.' in whatever the log holds.
TwisterBackend == [AVBackend EXCEPT
    !.takes = "file", !.spawns = TRUE, !.log = "shared", !.clears = TRUE, !.awaits = "any",
    !.reads = "hits", !.echoes = TRUE]

VipreBackend == [AVBackend EXCEPT
    !.takes = "copy", !.wraps = TRUE, !.accepts = TRUE, !.log = "shared", !.clears = TRUE,
    !.awaits = "any", !.tally = "always", !.reads = "words", !.raises = {"codec"},
    !.update = "install", !.dates = "crash"]

WinessentialsBackend == [AVBackend EXCEPT
    !.accepts = TRUE, !.reads = "lenient", !.update = "install", !.wipes = TRUE, !.dates = "crash"]

XvirusBackend == [AVBackend EXCEPT
    !.takes = "file", !.log = "shared", !.clears = TRUE, !.awaits = "any",
    !.raises = {"codec"}, !.dates = "crash"]

ZillyaBackend == [AVBackend EXCEPT
    !.takes = "copy", !.wraps = TRUE, !.time = "required", !.dates = "crash"]

ZonerBackend == [AVBackend EXCEPT
    !.takes = "copy", !.wraps = TRUE, !.accepts = TRUE, !.reads = "words", !.echoes = TRUE,
    !.dates = "crash"]

Drivers == {
    AdawareBackend, ArcabitBackend, AvastBackend, AvgBackend, AviraBackend, BitdefenderBackend,
    BullguardBackend, ClamavBackend, ComodoBackend, DrwebBackend, EmsisoftBackend, EscanBackend,
    EsetBackend, FprotBackend, FsecureBackend, GdataBackend, GridinsoftBackend, IkarusBackend,
    KasperskyBackend, KsevenBackend, MaxBackend, McafeeBackend, NanoBackend, PadvishBackend,
    QuickhealBackend, SecureaplusBackend, SophosBackend, SymantecBackend, Totalsecurity360Backend,
    TrendmicroBackend, TrustportBackend, TwisterBackend, VipreBackend, WinessentialsBackend,
    XvirusBackend, ZillyaBackend, ZonerBackend}
=============================================================================
