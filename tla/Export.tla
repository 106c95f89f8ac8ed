------------------------------- MODULE Export -------------------------------
(***************************************************************************)
(* What leaves a session after the scan: its clean files, sent to an FTP,  *)
(* SFTP or WebDAV server by postscan_ftp, postscan_sftp, postscan_webdav,  *)
(* and the receipt that postscan_print prints.  The three transfers differ *)
(* in the library they call, not in their control, and are one here.       *)
(***************************************************************************)
EXTENDS Integers, FiniteSets

CONSTANTS
    Item,        \* files of the session
    NameOf,      \* their display names
    Transfer,    \* requests to send the files to the server
    MaxReruns    \* bound on transfers that a lost worker leaves to be run again

ASSUME ExportAssumption ==
    Item # {} /\ IsFiniteSet(Item) /\ DOMAIN NameOf = Item /\ MaxReruns \in Nat

VARIABLES
    indexing,  \* the session is still being indexed
    verdict,   \* of each File row: "none" without a row, "open", "clean", "infected", "unknown"
    full,      \* Session.progress is 100
    onDisk,    \* files whose source is there
    transfer,  \* where each transfer is
    left,      \* the files it has still to send
    current,   \* the file it is sending, if any
    listed,    \* the files it had to send
    begun,     \* the files that it has begun to send, in this run or one before
    directory, \* the session's directory is on the server
    remote,    \* under each name in it: "none", "part" or the file
    broken,    \* transfers that lost their connection
    reruns,
    receipt    \* the receipt: where it is, its numbers, the infected files it names, whether
               \* it was accepted before the session was complete, and whether a verdict was
               \* revised between its queries

sourceVars == <<indexing, verdict, full, onDisk>>
sendingVars == <<left, current, listed, begun>>
serverVars == <<directory, remote>>
transferVars == <<transfer, sendingVars, serverVars, broken, reruns>>
exportVars == <<sourceVars, transferVars, receipt>>

Name == {NameOf[f] : f \in Item}
Connected == {"connected", "making", "listing", "sending"}
Judgement == {"clean", "infected", "unknown"}
With(v) == {f \in Item : verdict[f] = v}
Indexed == {f \in Item : verdict[f] # "none"}

ExportTypeOK ==
    /\ indexing \in BOOLEAN
    /\ verdict \in [Item -> {"none", "open"} \cup Judgement]
    /\ full \in BOOLEAN
    /\ onDisk \subseteq Item
    /\ transfer \in [Transfer -> {"idle", "checking", "refused", "queued", "counted", "done", "failed"}
                               \cup Connected]
    /\ left \in [Transfer -> SUBSET Item]
    /\ current \in [Transfer -> SUBSET Item]
    /\ listed \in [Transfer -> SUBSET Item]
    /\ begun \in [Transfer -> SUBSET Item]
    /\ directory \in BOOLEAN
    /\ remote \in [Name -> {"none", "part"} \cup Item]
    /\ broken \subseteq Transfer
    /\ receipt \in [stage : {"idle", "total", "infected", "clean", "names", "printed"},
                    total : Nat, infected : Nat, clean : Nat, names : SUBSET Item,
                    early : BOOLEAN, revised : BOOLEAN]

ExportInit ==
    /\ indexing = TRUE
    /\ verdict = [f \in Item |-> "none"]
    /\ full = FALSE
    /\ onDisk = Item
    /\ transfer = [t \in Transfer |-> "idle"]
    /\ left = [t \in Transfer |-> {}]
    /\ current = [t \in Transfer |-> {}]
    /\ listed = [t \in Transfer |-> {}]
    /\ begun = [t \in Transfer |-> {}]
    /\ directory = FALSE
    /\ remote = [n \in Name |-> "none"]
    /\ broken = {}
    /\ reruns = 0
    /\ receipt = [stage |-> "idle", total |-> 0, infected |-> 0, clean |-> 0, names |-> {},
                  early |-> FALSE, revised |-> FALSE]

-----------------------------------------------------------------------------
(* The session, as ScanSession has it *)

\* postscan_print is between its queries.
Counting == receipt.stage \notin {"idle", "printed"}

IndexFile(f) ==
    /\ indexing
    /\ verdict[f] = "none"
    /\ verdict' = [verdict EXCEPT ![f] = "open"]
    /\ UNCHANGED <<indexing, full, onDisk, transferVars, receipt>>

EndIndexing ==
    /\ indexing
    /\ indexing' = FALSE
    /\ UNCHANGED <<verdict, full, onDisk, transferVars, receipt>>

\* The progress is counted over the files there are when a verdict comes in.  A
\* perform_scan that is run again may bring another verdict.
JudgeFile(f) ==
    /\ verdict[f] # "none"
    /\ \E v \in Judgement :
          /\ verdict' = [verdict EXCEPT ![f] = v]
          /\ receipt' = [receipt EXCEPT !.revised =
                                        @ \/ (Counting /\ verdict[f] \notin {"open", v})]
    /\ full' = \A g \in Item : verdict'[g] # "open"
    /\ UNCHANGED <<indexing, onDisk, transferVars>>

\* cleanup_disk
DeleteSource(f) ==
    /\ f \in onDisk \cap Indexed
    /\ onDisk' = onDisk \ {f}
    /\ UNCHANGED <<indexing, verdict, full, transferVars, receipt>>

-----------------------------------------------------------------------------
(* A transfer *)

Move(t, from, to) == transfer[t] = from /\ transfer' = [transfer EXCEPT ![t] = to]

\* postscan_valid ...
RequestTransfer(t) ==
    /\ full
    /\ Move(t, "idle", "checking")
    /\ UNCHANGED <<sourceVars, sendingVars, serverVars, broken, reruns, receipt>>

\* ... then check_ftp, check_sftp or check_webdav: the request is refused when the
\* server cannot be logged in to.
CheckServer(t) ==
    /\ Move(t, "checking", "queued") \/ Move(t, "checking", "refused")
    /\ UNCHANGED <<sourceVars, sendingVars, serverVars, broken, reruns, receipt>>

\* 'No clean file found'
CountClean(t) ==
    /\ Move(t, "queued", IF With("clean") = {} THEN "failed" ELSE "counted")
    /\ UNCHANGED <<sourceVars, sendingVars, serverVars, broken, reruns, receipt>>

Connect(t) ==
    /\ \/ Move(t, "counted", "connected") /\ broken' = broken
       \/ Move(t, "counted", "failed") /\ broken' = broken \cup {t}
    /\ UNCHANGED <<sourceVars, sendingVars, serverVars, reruns, receipt>>

\* Variant: the directory is made without looking.
NeverFound(t) ==
    /\ Move(t, "connected", "making")
    /\ UNCHANGED <<sourceVars, sendingVars, serverVars, broken, reruns, receipt>>

LookForDirectory(t) ==
    /\ Move(t, "connected", IF directory THEN "listing" ELSE "making")
    /\ UNCHANGED <<sourceVars, sendingVars, serverVars, broken, reruns, receipt>>

\* The server refuses to make a directory that is there by now.
MakeRemoteDirectory(t) ==
    /\ IF directory THEN Move(t, "making", "failed") ELSE Move(t, "making", "listing")
    /\ directory' = TRUE
    /\ UNCHANGED <<sourceVars, sendingVars, remote, broken, reruns, receipt>>

\* The query is evaluated where the loop starts.
ListClean(t) ==
    /\ Move(t, "listing", "sending")
    /\ left' = [left EXCEPT ![t] = With("clean")]
    /\ listed' = [listed EXCEPT ![t] = With("clean")]
    /\ UNCHANGED <<sourceVars, current, begun, serverVars, broken, reruns, receipt>>

Put(f, content) == remote' = [remote EXCEPT ![NameOf[f]] = content]

\* Variant: a file without a source is passed over.
SkipMissing(t) ==
    /\ transfer[t] = "sending"
    /\ \E f \in left[t] \ onDisk : left' = [left EXCEPT ![t] = @ \ {f}]
    /\ UNCHANGED <<sourceVars, transfer, current, listed, begun, serverVars, broken, reruns, receipt>>

\* A file without a source ends the transfer.
MissSource(t) ==
    /\ current[t] = {} /\ left[t] \ onDisk # {}
    /\ Move(t, "sending", "failed")
    /\ UNCHANGED <<sourceVars, sendingVars, serverVars, broken, reruns, receipt>>

\* An upload truncates what has the name, and is complete some time later.
BeginUpload(t, f) ==
    /\ transfer[t] = "sending"
    /\ current[t] = {} /\ f \in left[t] \cap onDisk
    /\ current' = [current EXCEPT ![t] = {f}]
    /\ begun' = [begun EXCEPT ![t] = @ \cup {f}]
    /\ Put(f, "part")
    /\ UNCHANGED <<sourceVars, transfer, left, listed, directory, broken, reruns, receipt>>

EndUpload(t, f) ==
    /\ transfer[t] = "sending"
    /\ f \in current[t]
    /\ Put(f, f)
    /\ current' = [current EXCEPT ![t] = {}]
    /\ left' = [left EXCEPT ![t] = @ \ {f}]
    /\ UNCHANGED <<sourceVars, transfer, listed, begun, directory, broken, reruns, receipt>>

EndTransfer(t) ==
    /\ left[t] = {}
    /\ Move(t, "sending", "done")
    /\ UNCHANGED <<sourceVars, sendingVars, serverVars, broken, reruns, receipt>>

BreakConnection(t) ==
    /\ transfer[t] \in Connected
    /\ transfer' = [transfer EXCEPT ![t] = "failed"]
    /\ broken' = broken \cup {t}
    /\ UNCHANGED <<sourceVars, sendingVars, serverVars, reruns, receipt>>

\* The worker is lost before it has acknowledged the task (acks_late).
RunAgain(t) ==
    /\ transfer[t] \in {"counted", "done", "failed"} \cup Connected
    /\ reruns < MaxReruns
    /\ reruns' = reruns + 1
    /\ transfer' = [transfer EXCEPT ![t] = "queued"]
    /\ left' = [left EXCEPT ![t] = {}]
    /\ current' = [current EXCEPT ![t] = {}]
    /\ broken' = broken \ {t}
    /\ UNCHANGED <<sourceVars, listed, begun, serverVars, receipt>>

-----------------------------------------------------------------------------
(* The receipt *)

RequestReceipt ==
    /\ full
    /\ receipt.stage = "idle"
    /\ receipt' = [receipt EXCEPT !.stage = "total", !.early = indexing \/ With("open") # {}]
    /\ UNCHANGED <<sourceVars, transferVars>>

\* postscan_print asks the database four times, one query after the other.
CountTotal ==
    /\ receipt.stage = "total"
    /\ receipt' = [receipt EXCEPT !.stage = "infected", !.total = Cardinality(Indexed)]
    /\ UNCHANGED <<sourceVars, transferVars>>

\* Variant: the infected files are what the total leaves.
CountTheRest ==
    /\ receipt.stage = "infected"
    /\ receipt' = [receipt EXCEPT !.stage = "clean",
                      !.infected = receipt.total - Cardinality(Indexed \ With("infected"))]
    /\ UNCHANGED <<sourceVars, transferVars>>

\* Variant: every file that is not clean counts as infected, those without a verdict too.
CountUnclean ==
    /\ receipt.stage = "infected"
    /\ receipt' = [receipt EXCEPT !.stage = "clean",
                      !.infected = Cardinality(Indexed \ With("clean"))]
    /\ UNCHANGED <<sourceVars, transferVars>>

CountInfected ==
    /\ receipt.stage = "infected"
    /\ receipt' = [receipt EXCEPT !.stage = "clean", !.infected = Cardinality(With("infected"))]
    /\ UNCHANGED <<sourceVars, transferVars>>

CountCleanFiles ==
    /\ receipt.stage = "clean"
    /\ receipt' = [receipt EXCEPT !.stage = "names", !.clean = Cardinality(With("clean"))]
    /\ UNCHANGED <<sourceVars, transferVars>>

ListInfected ==
    /\ receipt.stage = "names"
    /\ receipt' = [receipt EXCEPT !.stage = "printed", !.names = With("infected")]
    /\ UNCHANGED <<sourceVars, transferVars>>

-----------------------------------------------------------------------------
(* Specification *)

TransferStep(t) ==
    \/ RequestTransfer(t) \/ CheckServer(t) \/ CountClean(t) \/ Connect(t) \/ LookForDirectory(t)
    \/ MakeRemoteDirectory(t) \/ ListClean(t) \/ MissSource(t) \/ EndTransfer(t)
    \/ BreakConnection(t) \/ RunAgain(t)
    \/ \E f \in Item : BeginUpload(t, f) \/ EndUpload(t, f)

ExportNext ==
    \/ \E f \in Item : IndexFile(f) \/ JudgeFile(f) \/ DeleteSource(f)
    \/ EndIndexing
    \/ \E t \in Transfer : TransferStep(t)
    \/ RequestReceipt \/ CountTotal \/ CountInfected \/ CountCleanFiles \/ ListInfected

ExportSpec == ExportInit /\ [][ExportNext]_exportVars

-----------------------------------------------------------------------------
(* Properties *)

\* A transfer that ends without an error has sent every file that it listed: each
\* is there under its name, unless a file of the same name took its place or another
\* transfer of the session has begun to send one: it may still be at it, have failed,
\* or have been run again when the verdict on the file was no longer clean.
SentIsThere ==
    \A t \in Transfer : transfer[t] = "done" =>
        \A f \in listed[t] :
            \/ remote[NameOf[f]] \in {g \in Item : NameOf[g] = NameOf[f]}
            \/ /\ remote[NameOf[f]] = "part"
               /\ \E u \in Transfer \ {t} : \E g \in begun[u] : NameOf[g] = NameOf[f]

\* A transfer fails only when there is no clean file, a source was cleaned up, its
\* connection broke, or another transfer made the directory at the same time; in
\* particular one that runs again after its worker was lost does not fail for what
\* its first run has left on the server.
FailureHasCause ==
    [][\A t \in Transfer : transfer[t] # "failed" /\ transfer'[t] = "failed" =>
          \/ With("clean") = {} \/ ~(left[t] \subseteq onDisk) \/ t \in broken'
          \/ transfer[t] = "making" /\
                 \E u \in Transfer \ {t} : transfer[u] \notin {"idle", "checking", "refused"}]_exportVars

\* Although a receipt is made of four queries and the session may still be scanned
\* between them, it names every infected file that it counts and counts no file twice,
\* unless a verdict was revised meanwhile; and what it counts are files of its total,
\* unless it was accepted before the session was complete.
ReceiptHolds ==
    receipt.stage = "printed" /\ ~receipt.revised =>
        /\ receipt.infected <= Cardinality(receipt.names)
        /\ receipt.infected + receipt.clean <= Cardinality(Indexed)
        /\ ~receipt.early => receipt.infected + receipt.clean <= receipt.total
=============================================================================
