------------------------------- MODULE Console -------------------------------
(***************************************************************************)
(* What administrators change in the console: the settings, one cached     *)
(* dictionary laid over the values of the environment, and the video that  *)
(* is shown.  Both are read, changed and stored without a lock.            *)
(***************************************************************************)
EXTENDS Naturals, FiniteSets

CONSTANTS
    Patch,       \* PATCH requests on the settings
    VideoRequest, \* requests that create a video or activate one
    Video        \* the videos they may be about

VARIABLES
    env,         \* the value of url_scan in the environment
    cached,      \* each setting in the cache, "unset" where it is not
    patch,       \* each PATCH: its stage, the settings it names, the settings it has read
    overtaken,   \* PATCHes that have read the settings before another change
    show,        \* row of each video: "none", "off" or "on"
    recording,   \* the videos whose file is there
    videoRequest, \* each video request: its stage, its video, whether it shall be active, and is new
    raced         \* two video requests, or one and a deletion, have overlapped

settingVars == <<env, cached, patch, overtaken>>
videoVars == <<show, recording, videoRequest, raced>>
consoleVars == <<settingVars, videoVars>>

\* url_scan is among the values of the environment and is in no serializer; the
\* serializers have a default for the port, which a PATCH without a port takes.
Setting == {"host", "port", "url_scan"}
Named == {"host", "port"}
Defaulted == {"port"}

NoPatch == [stage |-> "idle", names |-> {}, read |-> [k \in Setting |-> "unset"]]
NoRequest == [stage |-> "idle", video |-> {}, active |-> FALSE, creates |-> FALSE]

SettingValue == {"unset", "default", "yes", "no"} \cup Patch

ConsoleTypeOK ==
    /\ env \in {"yes", "no"}
    /\ cached \in [Setting -> SettingValue]
    /\ patch \in [Patch -> [stage : {"idle", "read", "stored", "refused"},
                            names : SUBSET Named, read : [Setting -> SettingValue]]]
    /\ overtaken \subseteq Patch
    /\ show \in [Video -> {"none", "off", "on"}]
    /\ recording \subseteq Video
    /\ videoRequest \in [VideoRequest -> [stage : {"idle", "got", "cleared", "over"},
                                     video : SUBSET Video, active : BOOLEAN, creates : BOOLEAN]]
    /\ raced \in BOOLEAN

ConsoleInit ==
    /\ env = "no"
    /\ cached = [k \in Setting |-> "unset"]
    /\ patch = [p \in Patch |-> NoPatch]
    /\ overtaken = {}
    /\ show = [v \in Video |-> "none"]
    /\ recording = {}
    /\ videoRequest = [r \in VideoRequest |-> NoRequest]
    /\ raced = FALSE

-----------------------------------------------------------------------------
(* The settings *)

\* get_settings: the cache over the environment.
GetSettings == [cached EXCEPT !["url_scan"] = IF @ = "unset" THEN env ELSE @]

\* The settings are stored whole; who has read them before has read old ones.
SetSettings(values, by) ==
    /\ cached' = values
    /\ overtaken' = overtaken \cup {p \in Patch \ by : patch[p].stage = "read"}

\* provision: reset_settings, which knows nothing of url_scan, or delete_settings.
ResetSettings ==
    /\ SetSettings([k \in Setting |-> IF k \in Named THEN "default" ELSE "unset"], {})
    /\ UNCHANGED <<env, patch, videoVars>>

DeleteSettings ==
    /\ SetSettings([k \in Setting |-> "unset"], {})
    /\ UNCHANGED <<env, patch, videoVars>>

\* The server is started again with another environment; requests are cut off.
Redeploy ==
    /\ env' = IF env = "yes" THEN "no" ELSE "yes"
    /\ patch' = [p \in Patch |-> IF patch[p].stage = "read" THEN [patch[p] EXCEPT !.stage = "refused"]
                                 ELSE patch[p]]
    /\ UNCHANGED <<cached, overtaken, videoVars>>

\* update_settings reads the settings ...
ReadSettings(p) ==
    /\ patch[p].stage = "idle"
    /\ \E names \in SUBSET Named \ {{}} :
          patch' = [patch EXCEPT ![p] = [stage |-> "read", names |-> names, read |-> GetSettings]]
    /\ UNCHANGED <<env, cached, overtaken, videoVars>>

\* Variant: the settings that are not named are not kept.
NamedOnly(p) == [k \in Setting |-> IF k \in patch[p].names THEN p ELSE "default"]

Merged(p) ==
    [k \in Setting |->
        IF k \in patch[p].names THEN p
        ELSE IF k \in Defaulted THEN "default" ELSE patch[p].read[k]]

\* ... and stores them with the change, or refuses a value and stores nothing.
StoreSettings(p) ==
    /\ patch[p].stage = "read"
    /\ patch' = [patch EXCEPT ![p].stage = "stored"]
    /\ SetSettings(Merged(p), {p})
    /\ UNCHANGED <<env, videoVars>>

RefuseSettings(p) ==
    /\ patch[p].stage = "read"
    /\ patch' = [patch EXCEPT ![p].stage = "refused"]
    /\ UNCHANGED <<env, cached, overtaken, videoVars>>

-----------------------------------------------------------------------------
(* The videos *)

Busy == {r \in VideoRequest : videoRequest[r].stage \in {"got", "cleared"}}

Begin(r, v, active, creates) ==
    /\ videoRequest[r].stage = "idle"
    /\ videoRequest' = [videoRequest EXCEPT ![r] = [stage |-> "got", video |-> {v}, active |-> active,
                                          creates |-> creates]]
    /\ raced' = (raced \/ Busy # {})

CreateVideo(r, v, active) ==
    /\ v \notin recording /\ show[v] = "none"
    /\ \A q \in Busy : v \notin videoRequest[q].video
    /\ Begin(r, v, active, TRUE)
    /\ UNCHANGED <<settingVars, show, recording>>

\* The view reads the row that is to be activated or deactivated.
GetVideo(r, v, active) ==
    /\ show[v] # "none"
    /\ Begin(r, v, active, FALSE)
    /\ UNCHANGED <<settingVars, show, recording>>

\* Variant: only the request's own video is deactivated.
OwnInactive(r) == [v \in Video |-> IF v \in videoRequest[r].video /\ show[v] = "on" THEN "off" ELSE show[v]]

\* All of them, in a transaction of its own.
AllInactive(r) == [v \in Video |-> IF show[v] = "on" THEN "off" ELSE show[v]]

DeactivateAll(r) ==
    /\ videoRequest[r].stage = "got" /\ videoRequest[r].active
    /\ videoRequest' = [videoRequest EXCEPT ![r].stage = "cleared"]
    /\ show' = AllInactive(r)
    /\ UNCHANGED <<settingVars, recording, raced>>

\* create, or save, which inserts a row again that was deleted meanwhile.
SaveVideo(r) ==
    /\ videoRequest[r].stage = IF videoRequest[r].active THEN "cleared" ELSE "got"
    /\ videoRequest' = [videoRequest EXCEPT ![r].stage = "over"]
    /\ \E v \in videoRequest[r].video :
          /\ show' = [show EXCEPT ![v] = IF videoRequest[r].active THEN "on" ELSE "off"]
          /\ recording' = IF videoRequest[r].creates THEN recording \cup {v} ELSE recording
    /\ UNCHANGED <<settingVars, raced>>

\* post_delete_video deletes the file with the row.
DeleteVideo(v) ==
    /\ show[v] # "none"
    /\ show' = [show EXCEPT ![v] = "none"]
    /\ recording' = recording \ {v}
    /\ raced' = (raced \/ \E r \in Busy : v \in videoRequest[r].video)
    /\ UNCHANGED <<settingVars, videoRequest>>

-----------------------------------------------------------------------------
(* Specification *)

ConsoleNext ==
    \/ ResetSettings \/ DeleteSettings \/ Redeploy
    \/ \E p \in Patch : ReadSettings(p) \/ StoreSettings(p) \/ RefuseSettings(p)
    \/ \E r \in VideoRequest :
          \/ \E v \in Video, active \in BOOLEAN : CreateVideo(r, v, active) \/ GetVideo(r, v, active)
          \/ DeactivateAll(r) \/ SaveVideo(r)
    \/ \E v \in Video : DeleteVideo(v)

ConsoleSpec == ConsoleInit /\ [][ConsoleNext]_consoleVars

-----------------------------------------------------------------------------
(* Properties *)

\* A PATCH changes no setting that it does not name, except the port, unless the
\* settings were changed between its read and its write; in particular what other
\* administrators have set stays.
OnlyNamedChanges ==
    [][\A p \in Patch, k \in Setting \ Defaulted :
          /\ patch[p].stage = "read" /\ patch'[p].stage = "stored"
          /\ k \notin patch[p].names /\ p \notin overtaken
          => GetSettings'[k] = GetSettings[k]]_consoleVars

\* As long as requests on videos do not overlap, at most one video is active, and
\* every row has its file.
OneVideoActive ==
    ~raced => /\ Cardinality({v \in Video : show[v] = "on"}) <= 1
              /\ \A v \in Video : show[v] # "none" => v \in recording
=============================================================================
