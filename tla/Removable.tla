----------------------------- MODULE Removable -----------------------------
(***************************************************************************)
(* A removable medium (a USB partition or a CD): the udev service mounts   *)
(* and unmounts it, post-scan copies are written to it and unmount it, and *)
(* the user unmounts it through the API or pulls it out.  They all go by   *)
(* what check_disk reads from the list of mounts.  (The status cached for   *)
(* the user interface is left out: no decision depends on it.)             *)
(***************************************************************************)
EXTENDS Naturals, Sequences

CONSTANTS
    Job,          \* post-scan copies to this medium, of one file each
    Udev, View,   \* the udev service; the unmount request of the API
    MaxInserts,   \* bound on how often a medium is inserted
    MaxStops      \* bound on stops of the service

ASSUME RemovableAssumption ==
    /\ Udev \notin Job /\ View \notin Job /\ Udev # View
    /\ MaxInserts \in Nat /\ MaxStops \in Nat

VARIABLES
    medium,   \* "in" or "out"
    mounted,  \* the mount: "no", "yes", or "stale" when its medium is out
    service,  \* the udev service: "off", "listing", "starting" or "polling"
    events,   \* udev events the service has still to read
    op,       \* the call of System.mount or System.unmount each process is in
    job,      \* where each copy is
    folder,   \* where its directory was made: "none", "medium" or "host"
    data,     \* where its file is: "none", "cache", "medium", "host" or "lost"
    slipped,  \* copies that were unmounted between finding the device and making the directory
    pulled,   \* copies whose medium was pulled while they wrote
    freed,    \* copies whose last call, unmount, has returned True
    reasons,  \* why the present medium may not be mounted
    inserts, stops

deviceVars == <<medium, mounted, inserts>>
serviceVars == <<service, events, stops>>
copyVars == <<job, folder, data, slipped, pulled, freed>>
removableVars == <<deviceVars, serviceVars, op, copyVars, reasons>>

Process == Job \cup {Udev, View}
NoOp == [what |-> "none", at |-> "idle", ok |-> FALSE]
Op(what, at, ok) == [what |-> what, at |-> at, ok |-> ok]

RemovableTypeOK ==
    /\ medium \in {"in", "out"}
    /\ mounted \in {"no", "yes", "stale"}
    /\ service \in {"off", "listing", "starting", "polling"}
    /\ events \in Seq({"add", "remove", "eject"})
    /\ op \in [Process -> [what : {"none", "mount", "unmount"}, ok : BOOLEAN,
                           at : {"idle", "command", "check", "returned"}]]
    /\ job \in [Job -> {"queued", "found", "made", "copying", "unmounting", "done", "failed"}]
    /\ folder \in [Job -> {"none", "medium", "host"}]
    /\ data \in [Job -> {"none", "cache", "medium", "host", "lost"}]
    /\ slipped \subseteq Job /\ pulled \subseteq Job /\ freed \subseteq Job
    /\ reasons \subseteq {"unmounted", "failed", "missed", "stale"}

RemovableInit ==
    /\ medium = "out"
    /\ mounted = "no"
    /\ service = "off"
    /\ events = <<>>
    /\ op = [p \in Process |-> NoOp]
    /\ job = [j \in Job |-> "queued"]
    /\ folder = [j \in Job |-> "none"]
    /\ data = [j \in Job |-> "none"]
    /\ slipped = {} /\ pulled = {} /\ freed = {}
    /\ reasons = {}
    /\ inserts = 0 /\ stops = 0

CheckDisk == mounted # "no"

-----------------------------------------------------------------------------
(* The medium *)

\* An event reaches the service only once it polls.
Notify(e) == events' = IF service = "polling" THEN Append(events, e) ELSE events

Missed == IF service = "starting" THEN {"missed"} ELSE {}

Insert ==
    /\ medium = "out"
    /\ inserts < MaxInserts
    /\ medium' = "in"
    /\ inserts' = inserts + 1
    /\ Notify("add")
    /\ reasons' = Missed \cup IF mounted = "stale" THEN reasons \cup {"stale"} ELSE {}
    /\ UNCHANGED <<mounted, service, stops, op, copyVars>>

\* What was not written back is lost with the medium that is pulled.
Pull ==
    /\ medium = "in"
    /\ medium' = "out"
    /\ mounted' = IF mounted = "yes" THEN "stale" ELSE mounted
    /\ data' = [j \in Job |-> IF data[j] = "cache" THEN "lost" ELSE data[j]]
    /\ folder' = [j \in Job |-> IF folder[j] = "medium" THEN "none" ELSE folder[j]]
    /\ pulled' = pulled \cup {j \in Job : data[j] = "cache" \/ (job[j] = "copying" /\ folder[j] = "medium")}
    /\ Notify("remove")
    /\ reasons' = Missed
    /\ UNCHANGED <<inserts, service, stops, op, job, slipped, freed>>

\* The eject button of a drive asks first.
RequestEject ==
    /\ medium = "in"
    /\ service = "polling"
    /\ events = <<>>
    /\ events' = <<"eject">>
    /\ UNCHANGED <<deviceVars, service, stops, op, copyVars, reasons>>

-----------------------------------------------------------------------------
(* System.mount and System.unmount *)

\* mount and unmount read the list of mounts first ...
BeginMount(p) ==
    op' = [op EXCEPT ![p] = IF CheckDisk THEN Op("mount", "returned", TRUE)
                            ELSE Op("mount", "command", FALSE)]

BeginUnmount(p) ==
    op' = [op EXCEPT ![p] = IF CheckDisk THEN Op("unmount", "command", FALSE)
                            ELSE Op("unmount", "returned", TRUE)]

\* ... then run the command, which may fail,
MountCommand(p) ==
    /\ op[p].what = "mount" /\ op[p].at = "command"
    /\ \/ medium = "in" /\ mounted = "no" /\ mounted' = "yes" /\ reasons' = {}
       \/ mounted' = mounted /\ reasons' = reasons \cup {"failed"}
    /\ op' = [op EXCEPT ![p].at = "check"]
    /\ UNCHANGED <<medium, inserts, serviceVars, copyVars>>

\* as umount does when a file is open; it writes back what was cached.
UnmountCommand(p) ==
    /\ op[p].what = "unmount" /\ op[p].at = "command"
    /\ op' = [op EXCEPT ![p].at = "check"]
    /\ \/ /\ mounted # "no"
          /\ \A j \in Job : job[j] = "copying" => folder[j] = "host"
          /\ mounted' = "no"
          /\ data' = [j \in Job |-> IF data[j] = "cache" THEN "medium" ELSE data[j]]
          /\ slipped' = slipped \cup {j \in Job : job[j] = "found"}
          /\ reasons' = reasons \cup {"unmounted"}
       \/ UNCHANGED <<mounted, data, slipped, reasons>>
    /\ UNCHANGED <<medium, inserts, serviceVars, job, folder, pulled, freed>>

\* and go by the list of mounts again.
CheckAgain(p) ==
    /\ op[p].at = "check"
    /\ op' = [op EXCEPT ![p].at = "returned", ![p].ok = (op[p].what = "mount") = CheckDisk]
    /\ UNCHANGED <<deviceVars, serviceVars, copyVars, reasons>>

-----------------------------------------------------------------------------
(* The udev service *)

StartService ==
    /\ service = "off"
    /\ service' = "listing"
    /\ UNCHANGED <<deviceVars, events, stops, op, copyVars, reasons>>

\* It is stopped, or an exception ends it: what it was told is forgotten.
StopService ==
    /\ service # "off"
    /\ stops < MaxStops
    /\ stops' = stops + 1
    /\ service' = "off"
    /\ events' = <<>>
    /\ op' = [op EXCEPT ![Udev] = NoOp]
    /\ reasons' = reasons \cup {"missed"}
    /\ UNCHANGED <<deviceVars, copyVars>>

\* Variant: it only waits for what is inserted from now on.
ListNothing ==
    /\ service = "listing"
    /\ service' = "starting"
    /\ UNCHANGED <<deviceVars, events, stops, op, copyVars, reasons>>

\* mount_devices
ListDevices ==
    /\ service = "listing"
    /\ service' = "starting"
    /\ IF medium = "in" THEN BeginMount(Udev) ELSE op' = op
    /\ UNCHANGED <<deviceVars, events, stops, copyVars, reasons>>

\* monitor_udev
StartPolling ==
    /\ service = "starting"
    /\ op[Udev] = NoOp
    /\ service' = "polling"
    /\ UNCHANGED <<deviceVars, events, stops, op, copyVars, reasons>>

HandleEvent ==
    /\ service = "polling"
    /\ op[Udev] = NoOp
    /\ events # <<>>
    /\ events' = Tail(events)
    /\ IF Head(events) = "add" THEN BeginMount(Udev) ELSE BeginUnmount(Udev)
    /\ UNCHANGED <<deviceVars, service, stops, copyVars, reasons>>

\* Variant: the directory is deleted whatever unmount returned.
DeletesAnyway(o) == o.what = "unmount"

\* Only what unmount has freed is deleted.
Deletes(o) == o.what = "unmount" /\ o.ok

\* rmtree below /mnt deletes what is there, be it on the host or on the medium.
FinishEvent ==
    /\ op[Udev].at = "returned"
    /\ op' = [op EXCEPT ![Udev] = NoOp]
    /\ IF Deletes(op[Udev])
       THEN LET there == IF mounted = "no" THEN {"host"} ELSE {"medium", "cache"}
            IN  /\ data' = [j \in Job |-> IF data[j] \in there THEN "lost" ELSE data[j]]
                /\ folder' = [j \in Job |-> IF folder[j] \in there THEN "none" ELSE folder[j]]
       ELSE UNCHANGED <<data, folder>>
    /\ UNCHANGED <<deviceVars, serviceVars, job, slipped, pulled, freed, reasons>>

-----------------------------------------------------------------------------
(* The unmount request *)

RequestUnmount ==
    /\ op[View] = NoOp
    /\ BeginUnmount(View)
    /\ UNCHANGED <<deviceVars, serviceVars, copyVars, reasons>>

AnswerRequest ==
    /\ op[View].at = "returned"
    /\ op' = [op EXCEPT ![View] = NoOp]
    /\ UNCHANGED <<deviceVars, serviceVars, copyVars, reasons>>

-----------------------------------------------------------------------------
(* postscan_copy *)

EnterJob(j, from, to) == job[j] = from /\ job' = [job EXCEPT ![j] = to]

\* Variant: the directory alone is taken for the device.
FindDirectory(j) ==
    /\ EnterJob(j, "queued", "found")
    /\ UNCHANGED <<deviceVars, serviceVars, op, folder, data, slipped, pulled, freed, reasons>>

\* It fails when nothing is mounted there.
FindDevice(j) ==
    /\ IF CheckDisk THEN EnterJob(j, "queued", "found") ELSE EnterJob(j, "queued", "failed")
    /\ UNCHANGED <<deviceVars, serviceVars, op, folder, data, slipped, pulled, freed, reasons>>

\* makedirs makes the path, also when nothing is mounted there any more.
MakeDirectory(j) ==
    /\ IF mounted = "stale"
       THEN EnterJob(j, "found", "failed") /\ folder' = folder
       ELSE /\ EnterJob(j, "found", "made")
            /\ folder' = [folder EXCEPT ![j] = IF mounted = "yes" THEN "medium" ELSE "host"]
    /\ UNCHANGED <<deviceVars, serviceVars, op, data, slipped, pulled, freed, reasons>>

\* The directory is hidden when something else is mounted by then.
OpenFile(j) ==
    /\ IF (folder[j] = "medium" /\ mounted = "yes") \/ (folder[j] = "host" /\ mounted = "no")
       THEN EnterJob(j, "made", "copying")
       ELSE EnterJob(j, "made", "failed")
    /\ UNCHANGED <<deviceVars, serviceVars, op, folder, data, slipped, pulled, freed, reasons>>

\* Writing to a medium that is out may go unnoticed; then comes unmount.
CopyFile(j) ==
    /\ job[j] = "copying"
    /\ \/ /\ j \notin pulled
          /\ data' = [data EXCEPT ![j] = IF folder[j] = "host" THEN "host"
                                         ELSE IF folder[j] = "none" THEN "lost" ELSE "cache"]
          /\ EnterJob(j, "copying", "unmounting")
          /\ BeginUnmount(j)
       \/ /\ j \in pulled
          /\ data' = [data EXCEPT ![j] = "lost"]
          /\ \/ EnterJob(j, "copying", "failed") /\ op' = op
             \/ EnterJob(j, "copying", "unmounting") /\ BeginUnmount(j)
    /\ UNCHANGED <<deviceVars, serviceVars, folder, slipped, pulled, freed, reasons>>

\* What unmount returned is not looked at.
EndCopy(j) ==
    /\ op[j].at = "returned"
    /\ EnterJob(j, "unmounting", "done")
    /\ freed' = IF op[j].ok THEN freed \cup {j} ELSE freed
    /\ op' = [op EXCEPT ![j] = NoOp]
    /\ UNCHANGED <<deviceVars, serviceVars, folder, data, slipped, pulled, reasons>>

-----------------------------------------------------------------------------
(* Specification *)

RemovableNext ==
    \/ Insert \/ Pull \/ RequestEject
    \/ \E p \in Process : MountCommand(p) \/ UnmountCommand(p) \/ CheckAgain(p)
    \/ StartService \/ StopService \/ ListDevices \/ StartPolling \/ HandleEvent \/ FinishEvent
    \/ RequestUnmount \/ AnswerRequest
    \/ \E j \in Job : FindDevice(j) \/ MakeDirectory(j) \/ OpenFile(j) \/ CopyFile(j) \/ EndCopy(j)

RemovableSpec == RemovableInit /\ [][RemovableNext]_removableVars

-----------------------------------------------------------------------------
(* Properties *)

\* A copy that has ended after a successful unmount is on the medium, unless the
\* medium was pulled before, or unmounted before the directory was made on it: then
\* the file is on the host.
CopiesArrive == \A j \in freed : data[j] = "medium" \/ j \in pulled \/ j \in slipped

\* The service never deletes what is on a medium, although it deletes the directory
\* the medium was mounted on while other processes mount nothing but unmount.
MediumIsKept == [][\A j \in Job : data[j] = "medium" => data'[j] = "medium"]_removableVars

\* When nothing is under way a medium that is in is mounted, unless it was unmounted
\* since, could not be mounted, came when the service was not listening, or another
\* one, pulled without an unmount, still holds the mount point.
InsertedIsMounted ==
    /\ medium = "in" /\ mounted # "yes"
    /\ service = "polling" /\ events = <<>> /\ op = [p \in Process |-> NoOp]
    => reasons # {}
=============================================================================
