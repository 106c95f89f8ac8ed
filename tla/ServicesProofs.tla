--------------------------- MODULE ServicesProofs ---------------------------
(***************************************************************************)
(* The services around the scan, proved for any number of requests, tasks, *)
(* files, copies and losses: the intake of a session, removable media,     *)
(* exports and receipts, and the settings and videos of the console.       *)
(***************************************************************************)
EXTENDS MCServices, FiniteSetTheorems, WellFoundedInduction, TLAPS


-----------------------------------------------------------------------------
(* The console *)

\* Every value that is stored, or read to be stored, is one a setting may have.
LEMMA ConsoleTypes == ConsoleSpec => []ConsoleTypeOK
<1> USE DEF ConsoleTypeOK, settingVars, videoVars
<1>1. ConsoleInit => ConsoleTypeOK
  <2> SUFFICES ASSUME ConsoleInit PROVE ConsoleTypeOK
    OBVIOUS
  <2>1. [k \in Setting |-> "unset"] \in [Setting -> SettingValue]
    BY DEF SettingValue
  <2>2. NoPatch \in [stage : {"idle", "read", "stored", "refused"},
                     names : SUBSET Named, read : [Setting -> SettingValue]]
    BY <2>1 DEF NoPatch
  <2>3. NoRequest \in [stage : {"idle", "got", "cleared", "over"},
                       video : SUBSET Video, active : BOOLEAN, creates : BOOLEAN]
    BY DEF NoRequest
  <2> HIDE DEF settingVars, videoVars
  <2>4. QED
    BY <2>1, <2>2, <2>3 DEF ConsoleInit
<1>2. ASSUME ConsoleTypeOK, [ConsoleNext]_consoleVars PROVE ConsoleTypeOK'
  <2>0. GetSettings \in [Setting -> SettingValue]
    BY <1>2 DEF GetSettings, Setting, SettingValue
  <2>1. CASE ResetSettings
    BY <1>2, <2>1 DEF ResetSettings, SetSettings, SettingValue
  <2>2. CASE DeleteSettings
    BY <1>2, <2>2 DEF DeleteSettings, SetSettings, SettingValue
  <2>3. CASE Redeploy
    BY <1>2, <2>3 DEF Redeploy
  <2>4. ASSUME NEW p \in Patch, ReadSettings(p) PROVE ConsoleTypeOK'
    BY <1>2, <2>0, <2>4 DEF ReadSettings
  <2>5. ASSUME NEW p \in Patch, StoreSettings(p) PROVE ConsoleTypeOK'
    <3>1. Merged(p) \in [Setting -> SettingValue]
      BY <1>2 DEF Merged, SettingValue
    <3>2. QED
      BY <1>2, <2>5, <3>1, ZenonT(30) DEF StoreSettings, SetSettings
  <2>6. ASSUME NEW p \in Patch, RefuseSettings(p) PROVE ConsoleTypeOK'
    BY <1>2, <2>6, ZenonT(30) DEF RefuseSettings
  <2>7. ASSUME NEW r \in VideoRequest, NEW v \in Video, NEW active \in BOOLEAN,
               CreateVideo(r, v, active) \/ GetVideo(r, v, active)
        PROVE  ConsoleTypeOK'
    <3>1. PICK creates \in BOOLEAN : Begin(r, v, active, creates)
      BY <2>7 DEF CreateVideo, GetVideo
    <3>2. videoRequest' = [videoRequest EXCEPT ![r] = [stage |-> "got", video |-> {v},
                                                       active |-> active, creates |-> creates]]
      BY <3>1 DEF Begin
    <3>3. raced' \in BOOLEAN /\ UNCHANGED <<settingVars, show, recording>>
      BY <1>2, <2>7, <3>1 DEF CreateVideo, GetVideo, Begin
    <3>4. QED
      BY <1>2, <3>2, <3>3
  <2>8. ASSUME NEW r \in VideoRequest, DeactivateAll(r) PROVE ConsoleTypeOK'
    BY <1>2, <2>8, ZenonT(30) DEF DeactivateAll, AllInactive
  <2>9. ASSUME NEW r \in VideoRequest, SaveVideo(r) PROVE ConsoleTypeOK'
    <3>1. PICK v \in videoRequest[r].video :
            /\ show' = [show EXCEPT ![v] = IF videoRequest[r].active THEN "on" ELSE "off"]
            /\ recording' = IF videoRequest[r].creates THEN recording \cup {v} ELSE recording
      BY <2>9 DEF SaveVideo
    <3>2. v \in Video
      BY <1>2
    <3>3. QED
      BY <1>2, <2>9, <3>1, <3>2 DEF SaveVideo
  <2>10. ASSUME NEW v \in Video, DeleteVideo(v) PROVE ConsoleTypeOK'
    BY <1>2, <2>10 DEF DeleteVideo
  <2>11. CASE UNCHANGED consoleVars
    BY <1>2, <2>11 DEF consoleVars
  <2>12. QED
    BY <1>2, <2>1, <2>2, <2>3, <2>4, <2>5, <2>6, <2>7, <2>8, <2>9, <2>10, <2>11 DEF ConsoleNext
<1>3. QED
  BY <1>1, <1>2, PTL DEF ConsoleSpec

\* What a PATCH has read is what holds, until somebody else stores the settings.
ReadHolds ==
    \A p \in Patch : patch[p].stage = "read" /\ p \notin overtaken => patch[p].read = GetSettings

\* A PATCH changes no setting that it does not name, except the port, unless the
\* settings were stored by somebody else between its read and its write.
THEOREM PatchesChangeTheNamed == ConsoleSpec => OnlyNamedChanges
<1> USE DEF ConsoleTypeOK, settingVars, videoVars
<1>1. ConsoleInit => ReadHolds
  BY DEF ConsoleInit, ReadHolds, NoPatch
<1>2. ASSUME ConsoleTypeOK, ReadHolds, [ConsoleNext]_consoleVars PROVE ReadHolds'
  <2> SUFFICES ASSUME NEW p \in Patch, patch'[p].stage = "read", p \notin overtaken'
               PROVE  patch'[p].read = GetSettings'
    BY DEF ReadHolds
  <2>1. ASSUME NEW values, NEW by, SetSettings(values, by), p \notin by, patch[p].stage = "read"
        PROVE  FALSE
    BY <2>1 DEF SetSettings
  <2>2. CASE ResetSettings \/ DeleteSettings
    BY <2>1, <2>2 DEF ResetSettings, DeleteSettings
  <2>3. ~Redeploy
    BY <1>2 DEF Redeploy
  <2>4. ASSUME NEW q \in Patch, ReadSettings(q)
        PROVE  patch'[p].read = GetSettings'
    <3>1. GetSettings' = GetSettings /\ overtaken' = overtaken
      BY <2>4 DEF ReadSettings, GetSettings
    <3>2. CASE p = q
      BY <1>2, <2>4, <3>1, <3>2 DEF ReadSettings
    <3>3. CASE p # q
      BY <1>2, <2>4, <3>1, <3>3 DEF ReadSettings, ReadHolds
    <3>4. QED
      BY <3>2, <3>3
  <2>5. ASSUME NEW q \in Patch, StoreSettings(q) PROVE FALSE
    <3>1. p # q /\ patch[p].stage = "read"
      BY <1>2, <2>5 DEF StoreSettings
    <3>2. QED
      BY <2>1, <2>5, <3>1 DEF StoreSettings
  <2>6. ASSUME NEW q \in Patch, RefuseSettings(q) PROVE patch'[p].read = GetSettings'
    BY <1>2, <2>6, ZenonT(30) DEF RefuseSettings, ReadHolds, GetSettings
  <2>7. CASE \/ \E r \in VideoRequest :
                  \/ \E v \in Video, active \in BOOLEAN :
                        CreateVideo(r, v, active) \/ GetVideo(r, v, active)
                  \/ DeactivateAll(r) \/ SaveVideo(r)
             \/ \E v \in Video : DeleteVideo(v)
             \/ UNCHANGED consoleVars
    <3>1. UNCHANGED settingVars
      BY <2>7 DEF CreateVideo, GetVideo, DeactivateAll, SaveVideo, DeleteVideo, consoleVars
    <3>2. QED
      BY <1>2, <3>1 DEF ReadHolds, GetSettings
  <2>8. QED
    BY <1>2, <2>2, <2>3, <2>4, <2>5, <2>6, <2>7 DEF ConsoleNext
<1>3. ASSUME ConsoleTypeOK, ReadHolds, [ConsoleNext]_consoleVars
      PROVE  [\A p \in Patch, k \in Setting \ Defaulted :
                /\ patch[p].stage = "read" /\ patch'[p].stage = "stored"
                /\ k \notin patch[p].names /\ p \notin overtaken
                => GetSettings'[k] = GetSettings[k]]_consoleVars
  <2> SUFFICES ASSUME NEW p \in Patch, NEW k \in Setting \ Defaulted,
                      patch[p].stage = "read", patch'[p].stage = "stored",
                      k \notin patch[p].names, p \notin overtaken
               PROVE  GetSettings'[k] = GetSettings[k]
    OBVIOUS
  <2>1. StoreSettings(p)
    <3>1. \A q \in Patch : StoreSettings(q) => q = p
      BY <1>3 DEF StoreSettings
    <3>2. ~Redeploy
      BY <1>3 DEF Redeploy
    <3>3. \A q \in Patch : ~ReadSettings(q) /\ ~RefuseSettings(q)
      BY <1>3 DEF ReadSettings, RefuseSettings
    <3>4. /\ ~ResetSettings /\ ~DeleteSettings /\ ~UNCHANGED consoleVars
          /\ \A r \in VideoRequest :
               /\ \A v \in Video, active \in BOOLEAN :
                    ~CreateVideo(r, v, active) /\ ~GetVideo(r, v, active)
               /\ ~DeactivateAll(r) /\ ~SaveVideo(r)
          /\ \A v \in Video : ~DeleteVideo(v)
      BY <1>3 DEF ResetSettings, DeleteSettings, consoleVars, CreateVideo, GetVideo, Begin,
                  DeactivateAll, SaveVideo, DeleteVideo
    <3>5. QED
      BY <1>3, <3>1, <3>2, <3>3, <3>4 DEF ConsoleNext
  <2>2. cached'[k] = GetSettings[k] /\ env' = env
    BY <1>3, <2>1 DEF StoreSettings, SetSettings, Merged, ReadHolds, Setting
  <2>3. cached' \in [Setting -> SettingValue]
    BY <1>3, <2>1 DEF StoreSettings, SetSettings, Merged, SettingValue
  <2>4. QED
    BY <1>3, <2>2, <2>3 DEF GetSettings, Setting
<1>4. QED
  BY <1>1, <1>2, <1>3, ConsoleTypes, PTL DEF ConsoleSpec, OnlyNamedChanges

\* While requests on videos do not overlap: one of them at a time, which leaves no
\* video active before it makes its own so, and saves a row that has its file.
VideosInTurn ==
    ~raced =>
      /\ \A v, w \in Video : show[v] = "on" /\ show[w] = "on" => v = w
      /\ \A v \in Video : show[v] # "none" => v \in recording
      /\ \A r, q \in Busy : r = q
      /\ \A r \in Busy :
           /\ videoRequest[r].stage = "cleared" => \A v \in Video : show[v] # "on"
           /\ videoRequest[r].creates \/ \A v \in videoRequest[r].video : show[v] # "none"

\* As long as requests on videos do not overlap, at most one video is active, and
\* every row has its file.
THEOREM VideosTakeTurns == ConsoleSpec => []OneVideoActive
<1> USE DEF ConsoleTypeOK, settingVars, videoVars
<1>1. ConsoleInit => VideosInTurn
  BY DEF ConsoleInit, VideosInTurn, Busy, NoRequest
<1>2. ASSUME ConsoleTypeOK, VideosInTurn, [ConsoleNext]_consoleVars PROVE VideosInTurn'
  <2>1. ASSUME UNCHANGED videoVars PROVE VideosInTurn'
    BY <1>2, <2>1 DEF VideosInTurn, Busy
  <2>2. CASE \/ ResetSettings \/ DeleteSettings \/ Redeploy \/ UNCHANGED consoleVars
             \/ \E p \in Patch : ReadSettings(p) \/ StoreSettings(p) \/ RefuseSettings(p)
    BY <2>1, <2>2 DEF ResetSettings, DeleteSettings, Redeploy, consoleVars, ReadSettings,
                      StoreSettings, RefuseSettings
  <2>3. ASSUME NEW r \in VideoRequest, NEW v \in Video, NEW active \in BOOLEAN,
               NEW creates \in BOOLEAN, Begin(r, v, active, creates),
               creates \/ show[v] # "none", UNCHANGED <<show, recording>>
        PROVE  VideosInTurn'
    <3>1. raced' \/ (~raced /\ Busy = {})
      BY <2>3 DEF Begin
    <3>2. Busy = {} => Busy' = {r}
      BY <1>2, <2>3 DEF Begin, Busy
    <3>3. videoRequest'[r] = [stage |-> "got", video |-> {v}, active |-> active,
                              creates |-> creates]
      BY <1>2, <2>3 DEF Begin
    <3>4. QED
      BY <1>2, <2>3, <3>1, <3>2, <3>3 DEF VideosInTurn
  <2>4. ASSUME NEW r \in VideoRequest, DeactivateAll(r) PROVE VideosInTurn'
    <3>1. /\ \A v \in Video : show'[v] # "on" /\ (show'[v] = "none" <=> show[v] = "none")
          /\ UNCHANGED <<recording, raced>>
      BY <1>2, <2>4 DEF DeactivateAll, AllInactive
    <3>2. Busy' = Busy
      BY <1>2, <2>4 DEF DeactivateAll, Busy
    <3>3. \A q \in VideoRequest : /\ videoRequest'[q].creates = videoRequest[q].creates
                                  /\ videoRequest'[q].video = videoRequest[q].video
      BY <1>2, <2>4 DEF DeactivateAll
    <3>4. QED
      BY <1>2, <3>1, <3>2, <3>3 DEF VideosInTurn, Busy
  <2>5. ASSUME NEW r \in VideoRequest, SaveVideo(r) PROVE VideosInTurn'
    <3>1. PICK v \in videoRequest[r].video :
            /\ show' = [show EXCEPT ![v] = IF videoRequest[r].active THEN "on" ELSE "off"]
            /\ recording' = IF videoRequest[r].creates THEN recording \cup {v} ELSE recording
      BY <2>5 DEF SaveVideo
    <3>2. v \in Video /\ r \in Busy /\ raced' = raced
      BY <1>2, <2>5 DEF SaveVideo, Busy
    <3>3. Busy' = Busy \ {r}
      BY <1>2, <2>5 DEF SaveVideo, Busy
    <3>4. ASSUME ~raced
          PROVE  /\ Busy' = {}
                 /\ v \in recording'
                 /\ videoRequest[r].active => \A w \in Video : show[w] # "on"
      <4>1. Busy = {r}
        BY <1>2, <3>2, <3>4 DEF VideosInTurn
      <4>2. v \in recording'
        BY <1>2, <3>1, <3>2, <3>4 DEF VideosInTurn
      <4>3. videoRequest[r].active => \A w \in Video : show[w] # "on"
        BY <1>2, <2>5, <3>2, <3>4 DEF VideosInTurn, SaveVideo
      <4>4. QED
        BY <3>3, <4>1, <4>2, <4>3
    <3>5. QED
      BY <1>2, <3>1, <3>2, <3>4 DEF VideosInTurn
  <2>6. ASSUME NEW v \in Video, DeleteVideo(v) PROVE VideosInTurn'
    <3>1. /\ \A w \in Video : show'[w] = IF w = v THEN "none" ELSE show[w]
          /\ recording' = recording \ {v}
          /\ UNCHANGED videoRequest
          /\ ~raced' => ~raced /\ \A r \in Busy : v \notin videoRequest[r].video
      BY <1>2, <2>6 DEF DeleteVideo
    <3>2. Busy' = Busy
      BY <3>1 DEF Busy
    <3>3. \A r \in Busy : videoRequest[r].video \subseteq Video
      BY <1>2 DEF Busy
    <3>4. QED
      BY <1>2, <3>1, <3>2, <3>3 DEF VideosInTurn
  <2>7. \A r \in VideoRequest, v \in Video, active \in BOOLEAN :
          CreateVideo(r, v, active) \/ GetVideo(r, v, active) => VideosInTurn'
    BY <2>3 DEF CreateVideo, GetVideo
  <2>8. QED
    BY <1>2, <2>2, <2>4, <2>5, <2>6, <2>7 DEF ConsoleNext
<1>3. ConsoleTypeOK /\ VideosInTurn => OneVideoActive
  <2> SUFFICES ASSUME VideosInTurn, ~raced
               PROVE  Cardinality({v \in Video : show[v] = "on"}) <= 1
    BY DEF VideosInTurn, OneVideoActive
  <2> DEFINE on == {v \in Video : show[v] = "on"}
  <2>1. \A v, w \in on : v = w
    BY DEF VideosInTurn
  <2> HIDE DEF on
  <2>2. on = {} \/ \E v \in on : on = {v}
    BY <2>1
  <2>3. Cardinality(on) = 0 \/ Cardinality(on) = 1
    BY <2>2, FS_EmptySet, FS_Singleton
  <2>4. QED
    BY <2>3 DEF on
<1>4. QED
  BY <1>1, <1>2, <1>3, ConsoleTypes, PTL DEF ConsoleSpec


-----------------------------------------------------------------------------
(* Exports *)

\* What the session, the transfers, the server and the receipt are keeps its types.
LEMMA ExportTypes == ExportSpec => []ExportTypeOK
<1> USE DEF ExportTypeOK, sourceVars, transferVars, sendingVars, serverVars
<1> DEFINE Receipt == [stage : {"idle", "total", "infected", "clean", "names", "printed"},
                       total : Nat, infected : Nat, clean : Nat, names : SUBSET Item,
                       early : BOOLEAN, revised : BOOLEAN]
<1>1. ExportInit => ExportTypeOK
  <2> SUFFICES ASSUME ExportInit PROVE ExportTypeOK
    OBVIOUS
  <2>1. receipt \in Receipt
    BY DEF ExportInit
  <2> HIDE DEF Receipt
  <2>2. /\ full \in BOOLEAN /\ indexing \in BOOLEAN /\ directory \in BOOLEAN
        /\ onDisk \subseteq Item /\ broken \subseteq Transfer
    BY DEF ExportInit
  <2>3. /\ verdict \in [Item -> {"none", "open"} \cup Judgement]
        /\ remote \in [Name -> {"none", "part"} \cup Item]
    BY DEF ExportInit
  <2>4. /\ left \in [Transfer -> SUBSET Item] /\ current \in [Transfer -> SUBSET Item]
        /\ listed \in [Transfer -> SUBSET Item] /\ begun \in [Transfer -> SUBSET Item]
        /\ transfer \in [Transfer -> {"idle"}]
    BY DEF ExportInit
  <2>5. QED
    BY <2>1, <2>2, <2>3, <2>4 DEF Receipt
<1>2. ASSUME ExportTypeOK, [ExportNext]_exportVars PROVE ExportTypeOK'
  <2>0. \A f \in Item : NameOf[f] \in Name
    BY DEF Name
  <2>1. ASSUME NEW f \in Item, IndexFile(f) \/ JudgeFile(f) \/ DeleteSource(f)
        PROVE  ExportTypeOK'
    <3>1. CASE IndexFile(f)
      BY <1>2, <3>1 DEF IndexFile
    <3>2. CASE JudgeFile(f)
      <4>1. PICK v \in Judgement :
              /\ verdict' = [verdict EXCEPT ![f] = v]
              /\ receipt' = [receipt EXCEPT !.revised =
                                @ \/ (Counting /\ verdict[f] \notin {"open", v})]
        BY <3>2 DEF JudgeFile
      <4>2. full' \in BOOLEAN
        BY <3>2 DEF JudgeFile
      <4>3. receipt' \in Receipt
        <5>1. PICK b \in BOOLEAN : receipt' = [receipt EXCEPT !.revised = b]
          <6>1. (receipt.revised \/ (Counting /\ verdict[f] \notin {"open", v})) \in BOOLEAN
            OBVIOUS
          <6>2. QED
            BY <4>1, <6>1
        <5>2. QED
          BY <1>2, <5>1
      <4>4. QED
        BY <1>2, <3>2, <4>1, <4>2, <4>3 DEF JudgeFile
    <3>3. CASE DeleteSource(f)
      BY <1>2, <3>3 DEF DeleteSource
    <3>4. QED
      BY <2>1, <3>1, <3>2, <3>3
  <2>2. CASE EndIndexing
    BY <1>2, <2>2 DEF EndIndexing
  <2>3. ASSUME NEW t \in Transfer, TransferStep(t) PROVE ExportTypeOK'
    <3>1. CASE RequestTransfer(t) \/ CheckServer(t) \/ CountClean(t) \/ LookForDirectory(t)
      BY <1>2, <3>1 DEF RequestTransfer, CheckServer, CountClean, LookForDirectory, Move,
                        Connected
    <3>2. CASE Connect(t)
      BY <1>2, <3>2 DEF Connect, Move, Connected
    <3>3. CASE MakeRemoteDirectory(t)
      BY <1>2, <3>3 DEF MakeRemoteDirectory, Move, Connected
    <3>4. CASE ListClean(t)
      BY <1>2, <3>4 DEF ListClean, Move, Connected, With
    <3>5. CASE MissSource(t) \/ EndTransfer(t)
      BY <1>2, <3>5 DEF MissSource, EndTransfer, Move
    <3>6. CASE BreakConnection(t)
      BY <1>2, <3>6 DEF BreakConnection
    <3>7. CASE RunAgain(t)
      BY <1>2, <3>7 DEF RunAgain
    <3>8. ASSUME NEW f \in Item, BeginUpload(t, f) PROVE ExportTypeOK'
      BY <1>2, <2>0, <3>8 DEF BeginUpload, Put
    <3>9. ASSUME NEW f \in Item, EndUpload(t, f) PROVE ExportTypeOK'
      BY <1>2, <2>0, <3>9 DEF EndUpload, Put
    <3>10. QED
      BY <2>3, <3>1, <3>2, <3>3, <3>4, <3>5, <3>6, <3>7, <3>8, <3>9 DEF TransferStep
  <2>4. CASE RequestReceipt \/ CountTotal \/ CountInfected \/ CountCleanFiles \/ ListInfected
    <3>1. \A S \in SUBSET Item : Cardinality(S) \in Nat
      BY ExportAssumption, FS_Subset, FS_CardinalityType
    <3>2. /\ Cardinality(Indexed) \in Nat
          /\ \A v : With(v) \in SUBSET Item /\ Cardinality(With(v)) \in Nat
      BY <3>1 DEF Indexed, With
    <3>3. UNCHANGED <<sourceVars, transferVars>>
      BY <2>4 DEF RequestReceipt, CountTotal, CountInfected, CountCleanFiles, ListInfected
    <3>4. receipt' \in Receipt
      <4>1. CASE RequestReceipt
        <5>1. PICK e \in BOOLEAN : receipt' = [receipt EXCEPT !.stage = "total", !.early = e]
          BY <4>1 DEF RequestReceipt
        <5>2. QED
          BY <1>2, <5>1
      <4>2. CASE CountTotal
        BY <1>2, <3>2, <4>2 DEF CountTotal
      <4>3. CASE CountInfected
        BY <1>2, <3>2, <4>3 DEF CountInfected
      <4>4. CASE CountCleanFiles
        BY <1>2, <3>2, <4>4 DEF CountCleanFiles
      <4>5. CASE ListInfected
        BY <1>2, <3>2, <4>5 DEF ListInfected
      <4>6. QED
        BY <2>4, <4>1, <4>2, <4>3, <4>4, <4>5
    <3>5. QED
      BY <1>2, <3>3, <3>4
  <2>5. CASE UNCHANGED exportVars
    BY <1>2, <2>5 DEF exportVars
  <2>6. QED
    BY <1>2, <2>1, <2>2, <2>3, <2>4, <2>5 DEF ExportNext
<1>3. QED
  BY <1>1, <1>2, PTL DEF ExportSpec

\* A file that a transfer has sent is there, unless it is sending a file of the same
\* name, or another transfer has begun to.
Arrived(t, f) ==
    \/ remote[NameOf[f]] \in {g \in Item : NameOf[g] = NameOf[f]}
    \/ /\ remote[NameOf[f]] = "part"
       /\ \/ \E u \in Transfer \ {t} : \E g \in begun[u] : NameOf[g] = NameOf[f]
          \/ \E g \in current[t] : NameOf[g] = NameOf[f]

\* A transfer sends one file at a time, and those it has sent have arrived.
Sending(t) ==
    /\ \A g, h \in current[t] : g = h
    /\ transfer[t] \notin {"sending", "failed"} => current[t] = {}
    /\ transfer[t] = "done" => left[t] = {}
    /\ transfer[t] \in {"sending", "done"} =>
         /\ current[t] \subseteq left[t] /\ left[t] \subseteq listed[t]
         /\ \A f \in listed[t] \ left[t] : Arrived(t, f)

SendingInv == \A t \in Transfer : Sending(t)

\* A transfer that finds no directory, and then cannot make it, is not the only one.
NotAlone ==
    \A t \in Transfer : directory /\ transfer[t] = "making" =>
        \E u \in Transfer \ {t} : transfer[u] \notin {"idle", "checking", "refused"}

\* Every step keeps what was sent where it is, or writes a file of that name.
LEMMA SendingStep ==
    ASSUME ExportTypeOK, SendingInv, [ExportNext]_exportVars
    PROVE  SendingInv'
<1> USE DEF ExportTypeOK, sourceVars, transferVars, sendingVars, serverVars
<1>1. ASSUME UNCHANGED transferVars PROVE SendingInv'
  BY <1>1 DEF SendingInv, Sending, Arrived
<1>2. ASSUME NEW f \in Item, IndexFile(f) \/ JudgeFile(f) \/ DeleteSource(f)
      PROVE  SendingInv'
  BY <1>1, <1>2 DEF IndexFile, JudgeFile, DeleteSource
<1>3. CASE \/ EndIndexing \/ UNCHANGED exportVars
           \/ RequestReceipt \/ CountTotal \/ CountInfected \/ CountCleanFiles \/ ListInfected
  BY <1>1, <1>3 DEF EndIndexing, exportVars, RequestReceipt, CountTotal, CountInfected,
                    CountCleanFiles, ListInfected
<1>4. ASSUME NEW t \in Transfer, TransferStep(t) PROVE SendingInv'
  <2>1. \A u \in Transfer : Sending(u)
    BY DEF SendingInv
  <2>2. ASSUME NEW s, transfer' = [transfer EXCEPT ![t] = s],
               s \in {"sending", "failed"} \/ current[t] = {},
               s \notin {"sending", "done"}, UNCHANGED <<sendingVars, remote>>
        PROVE  SendingInv'
    BY <2>1, <2>2 DEF SendingInv, Sending, Arrived
  <2>3. CASE \/ RequestTransfer(t) \/ CheckServer(t) \/ CountClean(t) \/ Connect(t)
             \/ LookForDirectory(t) \/ MakeRemoteDirectory(t)
    <3>1. /\ UNCHANGED <<sendingVars, remote>>
          /\ transfer[t] \notin {"sending", "failed"}
          /\ \E s \in {"checking", "queued", "refused", "failed", "counted", "connected",
                       "listing", "making"} : transfer' = [transfer EXCEPT ![t] = s]
      BY <2>3 DEF RequestTransfer, CheckServer, CountClean, Connect, LookForDirectory,
                  MakeRemoteDirectory, Move
    <3>2. current[t] = {}
      BY <2>1, <3>1 DEF Sending
    <3>3. QED
      BY <2>2, <3>1, <3>2
  <2>4. CASE MissSource(t) \/ BreakConnection(t)
    BY <2>2, <2>4 DEF MissSource, BreakConnection, Move
  <2>5. CASE RunAgain(t)
    BY <2>1, <2>5 DEF RunAgain, SendingInv, Sending, Arrived
  <2>6. CASE ListClean(t)
    <3>1. /\ transfer[t] = "listing" /\ transfer' = [transfer EXCEPT ![t] = "sending"]
          /\ left' = [left EXCEPT ![t] = With("clean")]
          /\ listed' = [listed EXCEPT ![t] = With("clean")]
          /\ UNCHANGED <<current, begun, remote>>
      BY <2>6 DEF ListClean, Move
    <3>2. current[t] = {}
      BY <2>1, <3>1 DEF Sending
    <3>3. \A u \in Transfer, f \in Item : u # t /\ Arrived(u, f) => Arrived(u, f)'
      BY <3>1 DEF Arrived
    <3>4. ASSUME NEW u \in Transfer, u # t PROVE Sending(u)'
      <4>1. /\ transfer'[u] = transfer[u] /\ left'[u] = left[u]
            /\ listed'[u] = listed[u] /\ current'[u] = current[u]
        BY <3>1, <3>4
      <4>2. QED
        BY <2>1, <3>3, <3>4, <4>1 DEF Sending
    <3>5. Sending(t)'
      BY <3>1, <3>2 DEF Sending
    <3>6. QED
      BY <3>4, <3>5 DEF SendingInv
  <2>7. CASE EndTransfer(t)
    <3>1. /\ left[t] = {} /\ transfer[t] = "sending"
          /\ transfer' = [transfer EXCEPT ![t] = "done"]
          /\ UNCHANGED <<sendingVars, remote>>
      BY <2>7 DEF EndTransfer, Move
    <3>2. QED
      BY <2>1, <3>1 DEF SendingInv, Sending, Arrived
  <2>8. ASSUME NEW f \in Item, BeginUpload(t, f) PROVE SendingInv'
    <3>1. /\ transfer[t] = "sending" /\ current[t] = {} /\ f \in left[t]
          /\ current' = [current EXCEPT ![t] = {f}]
          /\ begun' = [begun EXCEPT ![t] = @ \cup {f}]
          /\ UNCHANGED <<transfer, left, listed>>
          /\ \A n \in Name : remote'[n] = IF n = NameOf[f] THEN "part" ELSE remote[n]
      BY <2>8 DEF BeginUpload, Put
    <3>2. f \in begun'[t] /\ \A u \in Transfer : begun[u] \subseteq begun'[u]
      BY <3>1
    <3>3. \A g \in Item : NameOf[g] \in Name
      BY DEF Name
    <3>4. ASSUME NEW u \in Transfer, NEW g \in Item, Arrived(u, g) PROVE Arrived(u, g)'
      <4>1. CASE NameOf[g] = NameOf[f]
        BY <3>1, <3>2, <3>3, <4>1 DEF Arrived
      <4>2. CASE NameOf[g] # NameOf[f]
        BY <3>1, <3>2, <3>3, <3>4, <4>2 DEF Arrived
      <4>3. QED
        BY <4>1, <4>2
    <3>5. QED
      BY <2>1, <3>1, <3>4 DEF SendingInv, Sending
  <2>9. ASSUME NEW f \in Item, EndUpload(t, f) PROVE SendingInv'
    <3>1. /\ transfer[t] = "sending" /\ f \in current[t]
          /\ current' = [current EXCEPT ![t] = {}]
          /\ left' = [left EXCEPT ![t] = @ \ {f}]
          /\ UNCHANGED <<transfer, listed, begun>>
          /\ \A n \in Name : remote'[n] = IF n = NameOf[f] THEN f ELSE remote[n]
      BY <2>9 DEF EndUpload, Put
    <3>2. \A g \in Item : NameOf[g] \in Name
      BY DEF Name
    <3>3. current[t] = {f} /\ f \in left[t]
      BY <2>1, <3>1 DEF Sending
    <3>4. ASSUME NEW u \in Transfer, NEW g \in Item, Arrived(u, g) \/ g = f
          PROVE  Arrived(u, g)'
      <4>1. CASE NameOf[g] = NameOf[f]
        BY <3>1, <3>2, <4>1 DEF Arrived
      <4>2. CASE NameOf[g] # NameOf[f]
        BY <3>1, <3>2, <3>3, <3>4, <4>2 DEF Arrived
      <4>3. QED
        BY <4>1, <4>2
    <3>5. QED
      BY <2>1, <3>1, <3>3, <3>4 DEF SendingInv, Sending
  <2>10. QED
    BY <1>4, <2>3, <2>4, <2>5, <2>6, <2>7, <2>8, <2>9 DEF TransferStep
<1>5. QED
  BY <1>2, <1>3, <1>4 DEF ExportNext

\* A transfer that ends without an error has sent every file that it listed: each
\* is there under its name, unless a file of the same name took its place or another
\* transfer of the session has begun to send one.
THEOREM SentFilesAreThere == ExportSpec => []SentIsThere
<1>1. ExportInit => SendingInv
  BY DEF ExportInit, SendingInv, Sending
<1>2. SendingInv => SentIsThere
  BY DEF SendingInv, Sending, Arrived, SentIsThere
<1>3. QED
  BY <1>1, <1>2, SendingStep, ExportTypes, PTL DEF ExportSpec

\* A transfer fails only when there is no clean file, a source was cleaned up, its
\* connection broke, or another transfer made the directory at the same time; one
\* that is run again does not fail for what its first run has left on the server.
THEOREM FailuresHaveCauses == ExportSpec => FailureHasCause
<1> USE DEF ExportTypeOK, sourceVars, transferVars, sendingVars, serverVars
<1>1. ExportInit => NotAlone
  BY DEF ExportInit, NotAlone
<1>2. ASSUME ExportTypeOK, NotAlone, [ExportNext]_exportVars PROVE NotAlone'
  <2>1. ASSUME UNCHANGED <<transfer, directory>> PROVE NotAlone'
    BY <1>2, <2>1 DEF NotAlone
  <2>2. CASE \/ \E f \in Item : IndexFile(f) \/ JudgeFile(f) \/ DeleteSource(f)
             \/ EndIndexing \/ UNCHANGED exportVars
             \/ RequestReceipt \/ CountTotal \/ CountInfected \/ CountCleanFiles
             \/ ListInfected
    BY <2>1, <2>2 DEF IndexFile, JudgeFile, DeleteSource, EndIndexing, exportVars,
       RequestReceipt, CountTotal, CountInfected, CountCleanFiles, ListInfected
  <2>3. ASSUME NEW t \in Transfer, TransferStep(t) PROVE NotAlone'
    <3>1. \/ UNCHANGED transfer
          \/ \E s : transfer' = [transfer EXCEPT ![t] = s]
      BY <2>3 DEF TransferStep, RequestTransfer, CheckServer, CountClean, Connect,
         LookForDirectory, MakeRemoteDirectory, ListClean, MissSource, EndTransfer,
         BreakConnection, RunAgain, BeginUpload, EndUpload, Move
    <3>2. \A u \in Transfer : transfer[u] \notin {"idle", "checking", "refused"} =>
            transfer'[u] \notin {"idle", "checking", "refused"}
      BY <1>2, <2>3 DEF TransferStep, RequestTransfer, CheckServer, CountClean, Connect,
         LookForDirectory, MakeRemoteDirectory, ListClean, MissSource, EndTransfer,
         BreakConnection, RunAgain, BeginUpload, EndUpload, Move
    <3>3. CASE MakeRemoteDirectory(t)
      <4>1. transfer'[t] \in {"failed", "listing"} /\ transfer[t] = "making"
        BY <1>2, <3>3 DEF MakeRemoteDirectory, Move
      <4>2. QED
        BY <1>2, <3>1, <4>1 DEF NotAlone
    <3>4. CASE ~MakeRemoteDirectory(t)
      <4>1. UNCHANGED directory
        BY <2>3, <3>4 DEF TransferStep, RequestTransfer, CheckServer, CountClean, Connect,
           LookForDirectory, ListClean, MissSource, EndTransfer, BreakConnection, RunAgain,
           BeginUpload, EndUpload
      <4>2. directory => \A u \in Transfer : transfer'[u] = "making" => transfer[u] = "making"
        BY <1>2, <2>3, <3>4 DEF TransferStep, RequestTransfer, CheckServer, CountClean,
           Connect, LookForDirectory, ListClean, MissSource, EndTransfer, BreakConnection,
           RunAgain, BeginUpload, EndUpload, Move
      <4>3. QED
        BY <1>2, <3>2, <4>1, <4>2 DEF NotAlone
    <3>5. QED
      BY <3>3, <3>4
  <2>4. QED
    BY <1>2, <2>2, <2>3 DEF ExportNext
<1>3. ASSUME ExportTypeOK, NotAlone, [ExportNext]_exportVars
      PROVE  [\A t \in Transfer : transfer[t] # "failed" /\ transfer'[t] = "failed" =>
                \/ With("clean") = {} \/ ~(left[t] \subseteq onDisk) \/ t \in broken'
                \/ transfer[t] = "making" /\
                      \E u \in Transfer \ {t} :
                         transfer[u] \notin {"idle", "checking", "refused"}]_exportVars
  <2> SUFFICES ASSUME NEW t \in Transfer, transfer[t] # "failed", transfer'[t] = "failed",
                      With("clean") # {}, left[t] \subseteq onDisk, t \notin broken'
               PROVE  transfer[t] = "making" /\ directory
    BY <1>3 DEF NotAlone
  <2>1. PICK u \in Transfer : TransferStep(u)
    BY <1>3 DEF ExportNext, IndexFile, JudgeFile, DeleteSource, EndIndexing, exportVars,
       RequestReceipt, CountTotal, CountInfected, CountCleanFiles, ListInfected
  <2>2. \/ CountClean(u) \/ Connect(u) \/ MakeRemoteDirectory(u) \/ MissSource(u)
        \/ BreakConnection(u)
    BY <1>3, <2>1 DEF TransferStep, RequestTransfer, CheckServer, LookForDirectory, ListClean,
       EndTransfer, RunAgain, BeginUpload, EndUpload, Move
  <2>3. u = t
    BY <1>3, <2>2 DEF CountClean, Connect, MakeRemoteDirectory, MissSource, BreakConnection, Move
  <2>4. MakeRemoteDirectory(t)
    BY <1>3, <2>2, <2>3 DEF CountClean, Connect, MissSource, BreakConnection, Move
  <2>5. QED
    BY <1>3, <2>4 DEF MakeRemoteDirectory, Move
<1>4. QED
  BY <1>1, <1>2, <1>3, ExportTypes, PTL DEF ExportSpec, FailureHasCause

\* Sets that have no element in common are counted one after the other.
LEMMA Apart ==
    ASSUME NEW S, IsFiniteSet(S), NEW T, IsFiniteSet(T), S \cap T = {}
    PROVE  IsFiniteSet(S \cup T) /\ Cardinality(S \cup T) = Cardinality(S) + Cardinality(T)
<1>1. IsFiniteSet(S \cup T)
  BY FS_Union
<1>2. Cardinality(S \cup T) = Cardinality(S) + Cardinality(T) - Cardinality(S \cap T)
  BY FS_Union
<1>3. Cardinality(S \cap T) = 0 /\ Cardinality(S) \in Nat /\ Cardinality(T) \in Nat
  BY FS_EmptySet, FS_CardinalityType
<1>4. QED
  BY <1>1, <1>2, <1>3

\* What a receipt holds so far is at most what there is, as long as no verdict was revised:
\* until it is printed verdicts only come in, and to a complete session no file comes.
ReceiptSoFar ==
    receipt.stage # "idle" /\ ~receipt.revised =>
      /\ ~receipt.early => ~indexing
      /\ ~receipt.early /\ receipt.stage \in {"infected", "clean"} =>
           receipt.total = Cardinality(Indexed)
      /\ receipt.stage \in {"clean", "names"} =>
           receipt.infected <= Cardinality(With("infected"))
      /\ receipt.stage \in {"names", "printed"} =>
           /\ receipt.infected + receipt.clean <= Cardinality(Indexed)
           /\ ~receipt.early => receipt.infected + receipt.clean <= receipt.total
      /\ receipt.stage = "printed" => receipt.infected <= Cardinality(receipt.names)

\* The files of a session are finitely many, and counted as numbers.
LEMMA Counted ==
    /\ IsFiniteSet(Indexed) /\ Cardinality(Indexed) \in Nat
    /\ \A v : IsFiniteSet(With(v)) /\ Cardinality(With(v)) \in Nat
<1>1. \A S \in SUBSET Item : IsFiniteSet(S) /\ Cardinality(S) \in Nat
  BY ExportAssumption, FS_Subset, FS_CardinalityType
<1>2. QED
  BY <1>1 DEF Indexed, With

\* A receipt made of four queries while the session may still be scanned names every
\* infected file it counts and counts no file twice, unless a verdict was revised
\* meanwhile (postscan_print): for any number of files and in any order of the steps.
THEOREM ReceiptsHold == ExportSpec => []ReceiptHolds
<1> USE DEF ExportTypeOK, sourceVars, transferVars, sendingVars, serverVars
<1>1. ExportInit => ReceiptSoFar
  BY DEF ExportInit, ReceiptSoFar
<1>2. ASSUME ExportTypeOK, ReceiptSoFar, [ExportNext]_exportVars PROVE ReceiptSoFar'
  <2>0. /\ receipt.total \in Nat /\ receipt.infected \in Nat /\ receipt.clean \in Nat
        /\ receipt \in [stage : {"idle", "total", "infected", "clean", "names", "printed"},
                         total : Nat, infected : Nat, clean : Nat, names : SUBSET Item,
                         early : BOOLEAN, revised : BOOLEAN]
    BY <1>2
  <2>1. ASSUME UNCHANGED <<receipt, verdict>>, indexing' => indexing PROVE ReceiptSoFar'
    BY <1>2, <2>1 DEF ReceiptSoFar, With, Indexed
  <2>2. ASSUME NEW f \in Item, IndexFile(f) PROVE ReceiptSoFar'
    <3>1. /\ Indexed \subseteq Indexed' /\ With("infected")' = With("infected")
          /\ indexing /\ UNCHANGED <<indexing, receipt>>
      BY <1>2, <2>2 DEF IndexFile, Indexed, With
    <3>2. IsFiniteSet(Indexed') /\ Cardinality(Indexed') \in Nat
      BY ExportAssumption, FS_Subset, FS_CardinalityType DEF Indexed
    <3>3. Cardinality(Indexed) <= Cardinality(Indexed') /\ Cardinality(Indexed) \in Nat
      BY <3>1, <3>2, FS_Subset, Counted
    <3>4. QED
      BY <1>2, <2>0, <3>1, <3>2, <3>3 DEF ReceiptSoFar
  <2>3. ASSUME NEW f \in Item, JudgeFile(f), receipt'.stage # "idle", ~receipt'.revised
        PROVE  ReceiptSoFar'
    <3>1. PICK v \in Judgement :
            /\ verdict' = [verdict EXCEPT ![f] = v]
            /\ receipt' = [receipt EXCEPT !.revised =
                              @ \/ (Counting /\ verdict[f] \notin {"open", v})]
      BY <2>3 DEF JudgeFile
    <3>2. /\ ~receipt.revised /\ (Counting => verdict[f] \in {"open", v})
          /\ receipt'.stage = receipt.stage /\ receipt'.early = receipt.early
          /\ receipt'.total = receipt.total /\ receipt'.infected = receipt.infected
          /\ receipt'.clean = receipt.clean /\ receipt'.names = receipt.names
      BY <2>0, <2>3, <3>1
    <3>3. Indexed' = Indexed /\ indexing' = indexing
      BY <1>2, <2>3, <3>1 DEF JudgeFile, Indexed, Judgement
    <3>4. Counting => With("infected") \subseteq With("infected")'
      BY <1>2, <3>1, <3>2 DEF With
    <3>5. IsFiniteSet(With("infected")') /\ Cardinality(With("infected")') \in Nat
      BY ExportAssumption, FS_Subset, FS_CardinalityType DEF With
    <3>6. Counting => Cardinality(With("infected")) <= Cardinality(With("infected")')
      BY <3>4, <3>5, FS_Subset
    <3>7. Cardinality(With("infected")) \in Nat
      BY Counted
    <3>8. QED
      BY <1>2, <2>0, <3>2, <3>3, <3>5, <3>6, <3>7 DEF ReceiptSoFar, Counting
  <2>4. CASE \/ \E f \in Item : DeleteSource(f)
             \/ EndIndexing \/ UNCHANGED exportVars
             \/ \E t \in Transfer : TransferStep(t)
    BY <2>1, <2>4 DEF DeleteSource, EndIndexing, exportVars, TransferStep, RequestTransfer,
       CheckServer, CountClean, Connect, LookForDirectory, MakeRemoteDirectory, ListClean,
       MissSource, EndTransfer, BreakConnection, RunAgain, BeginUpload, EndUpload
  <2>5. ASSUME UNCHANGED sourceVars
        PROVE  Indexed' = Indexed /\ \A v : With(v)' = With(v)
    BY <2>5 DEF Indexed, With
  <2>6. CASE RequestReceipt
    <3>1. /\ receipt.stage = "idle" /\ UNCHANGED sourceVars
          /\ receipt' = [receipt EXCEPT !.stage = "total",
                                        !.early = indexing \/ With("open") # {}]
      BY <2>6 DEF RequestReceipt
    <3>2. receipt'.stage = "total" /\ (~receipt'.early => ~indexing)
      BY <2>0, <3>1
    <3>3. QED
      BY <3>1, <3>2 DEF ReceiptSoFar
  <2>7. CASE CountTotal
    BY <1>2, <2>0, <2>5, <2>7 DEF CountTotal, ReceiptSoFar
  <2>8. CASE CountInfected
    <3>1. Cardinality(With("infected")) \in Nat
      BY Counted
    <3>2. QED
      BY <1>2, <2>0, <2>5, <2>8, <3>1 DEF CountInfected, ReceiptSoFar
  <2>9. CASE CountCleanFiles
    <3> DEFINE i == With("infected")
               c == With("clean")
    <3>1. IsFiniteSet(i) /\ IsFiniteSet(c) /\ i \cap c = {}
      BY Counted DEF With
    <3>2. i \cup c \subseteq Indexed
      BY DEF With, Indexed
    <3>3. Cardinality(i) + Cardinality(c) <= Cardinality(Indexed)
      <4> HIDE DEF i, c
      <4>1. Cardinality(i \cup c) = Cardinality(i) + Cardinality(c)
        BY <3>1, Apart
      <4>2. Cardinality(i \cup c) <= Cardinality(Indexed)
        BY <3>2, Counted, FS_Subset
      <4>3. QED
        BY <4>1, <4>2
    <3>4. /\ Cardinality(i) \in Nat /\ Cardinality(c) \in Nat /\ Cardinality(Indexed) \in Nat
      BY Counted
    <3>5. /\ receipt.stage = "clean" /\ UNCHANGED sourceVars
          /\ receipt' = [receipt EXCEPT !.stage = "names", !.clean = Cardinality(c)]
      BY <2>9 DEF CountCleanFiles
    <3>6. /\ receipt'.stage = "names" /\ receipt'.clean = Cardinality(c)
          /\ receipt'.infected = receipt.infected /\ receipt'.total = receipt.total
          /\ receipt'.early = receipt.early /\ receipt'.revised = receipt.revised
      BY <2>0, <3>5
    <3>7. ~receipt.revised =>
            /\ receipt.infected <= Cardinality(i)
            /\ ~receipt.early => ~indexing /\ receipt.total = Cardinality(Indexed)
      BY <1>2, <3>5 DEF ReceiptSoFar
    <3>8. Indexed' = Indexed /\ i' = i /\ indexing' = indexing
      BY <2>5, <3>5
    <3> HIDE DEF i, c
    <3>9. ~receipt.revised => receipt.infected + Cardinality(c) <= Cardinality(Indexed)
      BY <2>0, <3>3, <3>4, <3>7
    <3>10. QED
      BY <3>6, <3>7, <3>8, <3>9 DEF ReceiptSoFar, i
  <2>10. CASE ListInfected
    BY <1>2, <2>0, <2>5, <2>10 DEF ListInfected, ReceiptSoFar
  <2>11. QED
    <3>1. ASSUME NEW f \in Item, JudgeFile(f) PROVE ReceiptSoFar'
      <4>1. CASE receipt'.stage # "idle" /\ ~receipt'.revised
        BY <2>3, <3>1, <4>1
      <4>2. CASE ~(receipt'.stage # "idle" /\ ~receipt'.revised)
        BY <4>2 DEF ReceiptSoFar
      <4>3. QED
        BY <4>1, <4>2
    <3>2. QED
      BY <1>2, <2>2, <2>4, <2>6, <2>7, <2>8, <2>9, <2>10, <3>1 DEF ExportNext
<1>3. ReceiptSoFar => ReceiptHolds
  BY DEF ReceiptSoFar, ReceiptHolds
<1>4. QED
  BY <1>1, <1>2, <1>3, ExportTypes, PTL DEF ExportSpec


-----------------------------------------------------------------------------
(* Removable media *)

\* What a call of System.mount or System.unmount is at.
Call == [what : {"none", "mount", "unmount"}, ok : BOOLEAN,
         at : {"idle", "command", "check", "returned"}]

\* Every call is one of the two, or none.
LEMMA Calls ==
    /\ NoOp \in Call
    /\ \A what \in {"mount", "unmount"}, at \in {"command", "returned"}, ok \in BOOLEAN :
         Op(what, at, ok) \in Call
BY DEF NoOp, Op, Call

\* A call that begins goes by the list of mounts.
LEMMA BeginCall ==
    ASSUME RemovableTypeOK, NEW p \in Process, BeginMount(p) \/ BeginUnmount(p)
    PROVE  /\ \E o \in Call : op' = [op EXCEPT ![p] = o]
           /\ op' \in [Process -> Call]
<1>1. PICK o \in Call : op' = [op EXCEPT ![p] = o]
  BY Calls DEF BeginMount, BeginUnmount
<1>2. op \in [Process -> Call]
  BY DEF RemovableTypeOK, Call
<1>3. QED
  BY <1>1, <1>2

\* What the medium, the service, the calls and the copies are keeps its types.
LEMMA RemovableTypes == RemovableSpec => []RemovableTypeOK
<1> USE DEF deviceVars, serviceVars, copyVars
<1>1. RemovableInit => RemovableTypeOK
  <2> SUFFICES ASSUME RemovableInit PROVE RemovableTypeOK
    OBVIOUS
  <2>1. op \in [Process -> Call]
    BY Calls DEF RemovableInit
  <2>2. events \in Seq({"add", "remove", "eject"})
    BY DEF RemovableInit
  <2>3. QED
    BY <2>1, <2>2 DEF RemovableInit, RemovableTypeOK, Call
<1>2. ASSUME RemovableTypeOK, [RemovableNext]_removableVars PROVE RemovableTypeOK'
  <2>0. /\ Udev \in Process /\ View \in Process /\ Job \subseteq Process
        /\ op \in [Process -> Call]
    BY <1>2 DEF Process, RemovableTypeOK, Call
  <2>1. ASSUME NEW e \in {"add", "remove", "eject"}, Notify(e)
        PROVE  events' \in Seq({"add", "remove", "eject"})
    BY <1>2, <2>1 DEF Notify, RemovableTypeOK
  <2>2. CASE Insert
    BY <1>2, <2>1, <2>2 DEF Insert, Missed, RemovableTypeOK
  <2>3. CASE Pull
    BY <1>2, <2>1, <2>3 DEF Pull, Missed, RemovableTypeOK
  <2>4. CASE RequestEject
    BY <1>2, <2>4 DEF RequestEject, RemovableTypeOK
  <2>5. ASSUME NEW p \in Process, MountCommand(p) PROVE RemovableTypeOK'
    <3>1. op' \in [Process -> Call]
      BY <2>0, <2>5 DEF MountCommand, Call
    <3>2. QED
      BY <1>2, <2>5, <3>1 DEF MountCommand, RemovableTypeOK, Call
  <2>6. ASSUME NEW p \in Process, UnmountCommand(p) PROVE RemovableTypeOK'
    <3>1. op' \in [Process -> Call]
      BY <2>0, <2>6 DEF UnmountCommand, Call
    <3>2. QED
      BY <1>2, <2>6, <3>1 DEF UnmountCommand, RemovableTypeOK, Call
  <2>7. ASSUME NEW p \in Process, CheckAgain(p) PROVE RemovableTypeOK'
    <3>1. op' \in [Process -> Call]
      <4>1. ((op[p].what = "mount") = CheckDisk) \in BOOLEAN
        OBVIOUS
      <4>2. PICK ok \in BOOLEAN : op' = [op EXCEPT ![p].at = "returned", ![p].ok = ok]
        BY <2>7, <4>1 DEF CheckAgain
      <4>3. QED
        BY <2>0, <4>2 DEF Call
    <3>2. QED
      BY <1>2, <2>7, <3>1 DEF CheckAgain, RemovableTypeOK, Call
  <2>8. CASE StartService \/ StartPolling
    BY <1>2, <2>8 DEF StartService, StartPolling, RemovableTypeOK
  <2>9. CASE StopService
    <3>1. op' \in [Process -> Call]
      BY <2>0, <2>9, Calls DEF StopService
    <3>2. QED
      BY <1>2, <2>9, <3>1 DEF StopService, RemovableTypeOK, Call
  <2>10. CASE ListDevices
    <3>1. op' \in [Process -> Call]
      BY <1>2, <2>0, <2>10, BeginCall DEF ListDevices
    <3>2. QED
      BY <1>2, <2>10, <3>1 DEF ListDevices, RemovableTypeOK, Call
  <2>11. CASE HandleEvent
    <3>1. op' \in [Process -> Call]
      BY <1>2, <2>0, <2>11, BeginCall DEF HandleEvent
    <3>2. events' \in Seq({"add", "remove", "eject"})
      BY <1>2, <2>11 DEF HandleEvent, RemovableTypeOK
    <3>3. QED
      BY <1>2, <2>11, <3>1, <3>2 DEF HandleEvent, RemovableTypeOK, Call
  <2>12. CASE FinishEvent
    <3>1. op' \in [Process -> Call]
      BY <2>0, <2>12, Calls DEF FinishEvent
    <3>2. QED
      BY <1>2, <2>12, <3>1 DEF FinishEvent, RemovableTypeOK, Call
  <2>13. CASE RequestUnmount
    <3>1. op' \in [Process -> Call]
      BY <1>2, <2>0, <2>13, BeginCall DEF RequestUnmount
    <3>2. QED
      BY <1>2, <2>13, <3>1 DEF RequestUnmount, RemovableTypeOK, Call
  <2>14. CASE AnswerRequest
    <3>1. op' \in [Process -> Call]
      BY <2>0, <2>14, Calls DEF AnswerRequest
    <3>2. QED
      BY <1>2, <2>14, <3>1 DEF AnswerRequest, RemovableTypeOK, Call
  <2>15. ASSUME NEW j \in Job, FindDevice(j) \/ MakeDirectory(j) \/ OpenFile(j)
         PROVE  RemovableTypeOK'
    BY <1>2, <2>15 DEF FindDevice, MakeDirectory, OpenFile, EnterJob, RemovableTypeOK
  <2>16. ASSUME NEW j \in Job, CopyFile(j) PROVE RemovableTypeOK'
    <3>1. op' \in [Process -> Call]
      BY <1>2, <2>0, <2>16, BeginCall DEF CopyFile
    <3>2. data' \in [Job -> {"none", "cache", "medium", "host", "lost"}]
      BY <1>2, <2>16 DEF CopyFile, RemovableTypeOK
    <3>3. job' \in [Job -> {"queued", "found", "made", "copying", "unmounting", "done",
                            "failed"}]
      BY <1>2, <2>16 DEF CopyFile, EnterJob, RemovableTypeOK
    <3>4. QED
      BY <1>2, <2>16, <3>1, <3>2, <3>3 DEF CopyFile, RemovableTypeOK, Call
  <2>17. ASSUME NEW j \in Job, EndCopy(j) PROVE RemovableTypeOK'
    <3>1. op' \in [Process -> Call]
      BY <2>0, <2>17, Calls DEF EndCopy
    <3>2. QED
      BY <1>2, <2>17, <3>1 DEF EndCopy, EnterJob, RemovableTypeOK, Call
  <2>18. CASE UNCHANGED removableVars
    BY <1>2, <2>18 DEF removableVars, RemovableTypeOK
  <2>19. QED
    BY <1>2, <2>2, <2>3, <2>4, <2>5, <2>6, <2>7, <2>8, <2>9, <2>10, <2>11, <2>12, <2>13,
       <2>14, <2>15, <2>16, <2>17, <2>18 DEF RemovableNext
<1>3. QED
  BY <1>1, <1>2, PTL DEF RemovableSpec

\* Only the service mounts, and what it is about to delete is not mounted.
OnlyUdevMounts ==
    /\ \A p \in Process : op[p].what = "mount" => p = Udev
    /\ op[Udev].what = "unmount" /\ op[Udev].at = "returned" /\ op[Udev].ok => mounted = "no"

\* Where the file of a copy is that found its device and whose medium was not pulled.
OnItsWay(j) ==
    /\ job[j] = "found" => mounted # "no"
    /\ job[j] = "made" => folder[j] # "host"
    /\ job[j] = "copying" => folder[j] = "medium" /\ mounted = "yes"
    /\ job[j] = "unmounting" => data[j] = "medium" \/ (data[j] = "cache" /\ mounted = "yes")
    /\ op[j].at = "returned" /\ op[j].ok => data[j] = "medium"
    /\ j \in freed => data[j] = "medium"

CopyInv ==
    /\ OnlyUdevMounts
    /\ \A j \in Job :
         /\ job[j] # "unmounting" => op[j] = NoOp
         /\ job[j] \in {"queued", "found", "made", "copying"} => data[j] = "none"
         /\ j \in freed => job[j] = "done"
         /\ j \notin pulled \cup slipped => OnItsWay(j)

\* A call that begins is made by its process, and done when there is nothing to do.
LEMMA CallBegun ==
    ASSUME RemovableTypeOK, NEW p \in Process
    PROVE  /\ BeginMount(p) => /\ op'[p].what = "mount"
                               /\ op'[p].at = (IF mounted = "no" THEN "command" ELSE "returned")
           /\ BeginUnmount(p) =>
                /\ op'[p].what = "unmount"
                /\ op'[p].at = (IF mounted = "no" THEN "returned" ELSE "command")
           /\ BeginMount(p) \/ BeginUnmount(p) =>
                \A q \in Process : q # p => op'[q] = op[q]
BY DEF BeginMount, BeginUnmount, Op, CheckDisk, RemovableTypeOK

\* Every step keeps the copies on their way.
LEMMA CopyStep ==
    ASSUME RemovableTypeOK, CopyInv, [RemovableNext]_removableVars
    PROVE  CopyInv'
<1> USE DEF deviceVars, serviceVars, copyVars
<1>0. /\ Udev \in Process /\ View \in Process /\ Job \subseteq Process
      /\ Udev \notin Job /\ View \notin Job /\ Udev # View
  BY RemovableAssumption DEF Process
<1>1. CASE Insert
  BY <1>1 DEF Insert, CopyInv, OnlyUdevMounts, OnItsWay, RemovableTypeOK
<1>2. CASE Pull
  BY <1>2 DEF Pull, CopyInv, OnlyUdevMounts, OnItsWay, RemovableTypeOK
<1>3. CASE RequestEject \/ StartService \/ StartPolling \/ UNCHANGED removableVars
  BY <1>3 DEF RequestEject, StartService, StartPolling, removableVars, CopyInv, OnlyUdevMounts,
     OnItsWay
<1>4. ASSUME NEW p \in Process, MountCommand(p) PROVE CopyInv'
  <2>0. p = Udev
    BY <1>4 DEF MountCommand, CopyInv, OnlyUdevMounts
  <2>1. /\ op' = [op EXCEPT ![Udev].at = "check"]
        /\ UNCHANGED <<job, folder, data, slipped, pulled, freed>>
        /\ mounted' = mounted \/ (mounted = "no" /\ mounted' = "yes")
    BY <1>4, <2>0 DEF MountCommand
  <2>2. /\ \A q \in Process : op'[q].what = op[q].what
        /\ op'[Udev].at = "check"
        /\ \A j \in Job : op'[j] = op[j]
    BY <1>0, <2>1 DEF RemovableTypeOK
  <2>3. QED
    BY <1>0, <2>1, <2>2 DEF CopyInv, OnlyUdevMounts, OnItsWay
<1>5. ASSUME NEW p \in Process, UnmountCommand(p) PROVE CopyInv'
  <2>1. /\ \A q \in Process : op'[q].what = op[q].what
        /\ \A q \in Process : q # p => op'[q] = op[q]
        /\ op'[p].at = "check" /\ op[p].at = "command" /\ op[p] # NoOp
    BY <1>5 DEF UnmountCommand, RemovableTypeOK, NoOp
  <2>2. UNCHANGED <<job, folder, pulled, freed>>
    BY <1>5 DEF UnmountCommand
  <2>3. CASE UNCHANGED <<mounted, data, slipped>>
    BY <1>0, <2>1, <2>2, <2>3 DEF CopyInv, OnlyUdevMounts, OnItsWay
  <2>4. CASE /\ mounted # "no"
             /\ \A j \in Job : job[j] = "copying" => folder[j] = "host"
             /\ mounted' = "no"
             /\ data' = [j \in Job |-> IF data[j] = "cache" THEN "medium" ELSE data[j]]
             /\ slipped' = slipped \cup {j \in Job : job[j] = "found"}
    <3>1. \A j \in Job : data'[j] = IF data[j] = "cache" THEN "medium" ELSE data[j]
      BY <2>4
    <3>2. OnlyUdevMounts'
      BY <1>0, <2>1, <2>4 DEF CopyInv, OnlyUdevMounts
    <3>3. ASSUME NEW j \in Job
          PROVE  /\ job'[j] # "unmounting" => op'[j] = NoOp
                 /\ job'[j] \in {"queued", "found", "made", "copying"} => data'[j] = "none"
                 /\ j \in freed' => job'[j] = "done"
      BY <1>0, <2>1, <2>2, <3>1 DEF CopyInv
    <3>4. ASSUME NEW j \in Job, j \notin pulled' \cup slipped' PROVE OnItsWay(j)'
      BY <1>0, <2>1, <2>2, <2>4, <3>1, <3>4 DEF CopyInv, OnItsWay
    <3>5. QED
      BY <3>2, <3>3, <3>4 DEF CopyInv
  <2>5. QED
    BY <1>5, <2>3, <2>4 DEF UnmountCommand
<1>6. ASSUME NEW p \in Process, CheckAgain(p) PROVE CopyInv'
  <2>1. /\ \A q \in Process : op'[q].what = op[q].what
        /\ \A q \in Process : q # p => op'[q] = op[q]
        /\ op[p].at = "check" /\ op[p] # NoOp
    BY <1>6 DEF CheckAgain, RemovableTypeOK, NoOp
  <2>2. op[p].what # "mount" /\ op'[p].ok => mounted = "no"
    <3>1. op'[p].ok = ((op[p].what = "mount") = CheckDisk)
      BY <1>6 DEF CheckAgain, RemovableTypeOK
    <3>2. QED
      BY <3>1 DEF CheckDisk
  <2>3. UNCHANGED <<mounted, copyVars>>
    BY <1>6 DEF CheckAgain
  <2>4. OnlyUdevMounts'
    BY <1>0, <2>1, <2>2, <2>3 DEF CopyInv, OnlyUdevMounts
  <2>5. ASSUME NEW j \in Job, j \notin pulled \cup slipped PROVE OnItsWay(j)'
    BY <1>0, <2>1, <2>2, <2>3, <2>5 DEF CopyInv, OnItsWay, OnlyUdevMounts
  <2>6. QED
    BY <1>0, <2>1, <2>3, <2>4, <2>5 DEF CopyInv
<1>7. ASSUME UNCHANGED <<mounted, copyVars>>, \A j \in Job : op'[j] = op[j], OnlyUdevMounts'
      PROVE  CopyInv'
  BY <1>7 DEF CopyInv, OnItsWay
<1>8. CASE StopService
  BY <1>0, <1>7, <1>8
     DEF StopService, CopyInv, OnlyUdevMounts, NoOp, RemovableTypeOK
<1>9. CASE ListDevices \/ HandleEvent
  <2>1. UNCHANGED op \/ BeginMount(Udev) \/ BeginUnmount(Udev)
    BY <1>9 DEF ListDevices, HandleEvent
  <2>2. \A q \in Process : q # Udev => op'[q] = op[q]
    BY <1>0, <2>1, CallBegun
  <2>3. UNCHANGED <<mounted, copyVars>>
    BY <1>9 DEF ListDevices, HandleEvent
  <2>4. OnlyUdevMounts'
    BY <1>0, <2>1, <2>2, <2>3, CallBegun DEF CopyInv, OnlyUdevMounts
  <2>5. QED
    BY <1>0, <1>7, <2>2, <2>3, <2>4
<1>10. CASE FinishEvent
  <2>1. /\ \A q \in Process : q # Udev => op'[q] = op[q]
        /\ op'[Udev] = NoOp
    BY <1>0, <1>10 DEF FinishEvent, RemovableTypeOK
  <2>2. OnlyUdevMounts'
    BY <1>0, <2>1 DEF CopyInv, OnlyUdevMounts, NoOp
  <2>3. UNCHANGED <<mounted, job, slipped, pulled, freed>>
    BY <1>10 DEF FinishEvent
  <2>4. ASSUME NEW j \in Job
        PROVE  /\ data'[j] = data[j] \/ (data[j] = "host" /\ data'[j] = "lost")
               /\ folder'[j] = folder[j] \/ (folder[j] = "host" /\ folder'[j] = "none")
    <3>1. CASE Deletes(op[Udev])
      <4>1. mounted = "no"
        BY <1>10, <3>1 DEF FinishEvent, Deletes, CopyInv, OnlyUdevMounts
      <4>2. /\ data' = [i \in Job |-> IF data[i] \in {"host"} THEN "lost" ELSE data[i]]
            /\ folder' = [i \in Job |-> IF folder[i] \in {"host"} THEN "none" ELSE folder[i]]
        BY <1>10, <3>1, <4>1 DEF FinishEvent
      <4>3. QED
        BY <4>2
    <3>2. CASE ~Deletes(op[Udev])
      BY <1>10, <3>2 DEF FinishEvent
    <3>3. QED
      BY <3>1, <3>2
  <2>5. QED
    BY <1>0, <2>1, <2>2, <2>3, <2>4 DEF CopyInv, OnItsWay
<1>11. CASE RequestUnmount \/ AnswerRequest
  <2>1. /\ \A q \in Process : q # View => op'[q] = op[q]
        /\ op'[View].what # "mount"
    BY <1>0, <1>11, CallBegun DEF RequestUnmount, AnswerRequest, NoOp, RemovableTypeOK
  <2>2. UNCHANGED <<mounted, copyVars>>
    BY <1>11 DEF RequestUnmount, AnswerRequest
  <2>3. QED
    BY <1>0, <1>7, <2>1, <2>2 DEF CopyInv, OnlyUdevMounts
<1>12. ASSUME NEW j \in Job, FindDevice(j) \/ MakeDirectory(j) \/ OpenFile(j)
       PROVE  CopyInv'
  <2>1. UNCHANGED <<mounted, op, data, slipped, pulled, freed>>
    BY <1>12 DEF FindDevice, MakeDirectory, OpenFile
  <2>2. OnlyUdevMounts'
    BY <2>1 DEF CopyInv, OnlyUdevMounts
  <2>3. \A i \in Job : i # j => job'[i] = job[i] /\ folder'[i] = folder[i]
    BY <1>12 DEF FindDevice, MakeDirectory, OpenFile, EnterJob, RemovableTypeOK
  <2>4. /\ job[j] \in {"queued", "found", "made"}
        /\ job'[j] \in {"found", "made", "copying", "failed"}
        /\ job'[j] = "found" => mounted # "no"
        /\ job'[j] = "made" => job[j] = "found" /\ mounted # "stale"
                              /\ folder'[j] = IF mounted = "yes" THEN "medium" ELSE "host"
        /\ job'[j] = "copying" => /\ job[j] = "made" /\ folder'[j] = folder[j]
                                  /\ \/ folder[j] = "medium" /\ mounted = "yes"
                                     \/ folder[j] = "host" /\ mounted = "no"
    BY <1>12 DEF FindDevice, MakeDirectory, OpenFile, EnterJob, RemovableTypeOK, CheckDisk
  <2>5. ASSUME NEW i \in Job, i \notin pulled \cup slipped PROVE OnItsWay(i)'
    <3>1. CASE i # j
      BY <2>1, <2>3, <2>5, <3>1 DEF CopyInv, OnItsWay
    <3>2. CASE i = j
      BY <2>1, <2>4, <2>5, <3>2 DEF CopyInv, OnItsWay, RemovableTypeOK
    <3>3. QED
      BY <3>1, <3>2
  <2>6. QED
    BY <2>1, <2>2, <2>3, <2>4, <2>5 DEF CopyInv
<1>13. ASSUME NEW j \in Job, CopyFile(j) PROVE CopyInv'
  <2>1. UNCHANGED <<mounted, folder, slipped, pulled, freed>>
    BY <1>13 DEF CopyFile
  <2>2. /\ job[j] = "copying" /\ job'[j] \in {"unmounting", "failed"}
        /\ \A i \in Job : i # j => job'[i] = job[i] /\ data'[i] = data[i]
    BY <1>13 DEF CopyFile, EnterJob, RemovableTypeOK
  <2>3. /\ job'[j] = "unmounting" => BeginUnmount(j)
        /\ job'[j] = "failed" => op' = op
    BY <1>13 DEF CopyFile, EnterJob, RemovableTypeOK
  <2>4. \A q \in Process : q # j => op'[q] = op[q]
    BY <1>0, <2>2, <2>3, CallBegun
  <2>5. OnlyUdevMounts'
    BY <1>0, <2>1, <2>2, <2>3, <2>4, CallBegun DEF CopyInv, OnlyUdevMounts
  <2>6. j \notin pulled /\ folder[j] = "medium" => data'[j] = "cache" /\ job'[j] = "unmounting"
    BY <1>13 DEF CopyFile, EnterJob, RemovableTypeOK
  <2>7. ASSUME NEW i \in Job, i \notin pulled \cup slipped PROVE OnItsWay(i)'
    <3>1. CASE i # j
      BY <1>0, <2>1, <2>2, <2>4, <2>7, <3>1 DEF CopyInv, OnItsWay
    <3>2. CASE i = j
      <4>1. folder[j] = "medium" /\ mounted = "yes" /\ j \notin freed
        BY <2>2, <2>7, <3>2 DEF CopyInv, OnItsWay
      <4>2. op'[j].at = "command"
        BY <1>0, <2>3, <2>6, <2>7, <3>2, <4>1, CallBegun
      <4>3. QED
        BY <2>1, <2>6, <2>7, <3>2, <4>1, <4>2 DEF OnItsWay
    <3>3. QED
      BY <3>1, <3>2
  <2>8. job'[j] # "unmounting" => op'[j] = NoOp
    BY <2>2, <2>3 DEF CopyInv
  <2>9. QED
    BY <1>0, <2>1, <2>2, <2>4, <2>5, <2>7, <2>8 DEF CopyInv
<1>14. ASSUME NEW j \in Job, EndCopy(j) PROVE CopyInv'
  <2>1. UNCHANGED <<mounted, folder, data, slipped, pulled>>
    BY <1>14 DEF EndCopy
  <2>2. /\ job[j] = "unmounting" /\ job'[j] = "done"
        /\ op[j].at = "returned" /\ op'[j] = NoOp
        /\ freed' = IF op[j].ok THEN freed \cup {j} ELSE freed
        /\ \A i \in Job : i # j => job'[i] = job[i]
        /\ \A q \in Process : q # j => op'[q] = op[q]
    BY <1>0, <1>14 DEF EndCopy, EnterJob, RemovableTypeOK
  <2>3. OnlyUdevMounts'
    BY <1>0, <2>1, <2>2 DEF CopyInv, OnlyUdevMounts, NoOp
  <2>4. ASSUME NEW i \in Job, i \notin pulled \cup slipped PROVE OnItsWay(i)'
    <3>1. CASE i # j
      BY <1>0, <2>1, <2>2, <2>4, <3>1 DEF CopyInv, OnItsWay
    <3>2. CASE i = j
      BY <2>1, <2>2, <2>4, <3>2 DEF CopyInv, OnItsWay, NoOp
    <3>3. QED
      BY <3>1, <3>2
  <2>5. QED
    BY <1>0, <2>1, <2>2, <2>3, <2>4 DEF CopyInv
<1>15. QED
  BY <1>1, <1>2, <1>3, <1>4, <1>5, <1>6, <1>8, <1>9, <1>10, <1>11, <1>12, <1>13, <1>14
     DEF RemovableNext

\* The invariant holds in every state.
LEMMA CopiesOnTheirWay == RemovableSpec => []CopyInv
<1>1. RemovableInit => CopyInv
  BY RemovableAssumption
     DEF RemovableInit, CopyInv, OnlyUdevMounts, OnItsWay, NoOp, Process
<1>2. QED
  BY <1>1, CopyStep, RemovableTypes, PTL DEF RemovableSpec

\* A copy that has ended after a successful unmount is on the medium, unless the
\* medium was pulled before, or unmounted before the directory was made on it.
THEOREM FreedCopiesArrive == RemovableSpec => []CopiesArrive
<1>1. RemovableTypeOK /\ CopyInv => CopiesArrive
  BY DEF RemovableTypeOK, CopyInv, OnItsWay, CopiesArrive
<1>2. QED
  BY <1>1, RemovableTypes, CopiesOnTheirWay, PTL

\* The service never deletes what is on a medium, although it deletes the directory
\* the medium was mounted on while other processes mount nothing but unmount.
THEOREM MediumStays == RemovableSpec => MediumIsKept
<1>1. ASSUME RemovableTypeOK, CopyInv, [RemovableNext]_removableVars
      PROVE  [\A j \in Job : data[j] = "medium" => data'[j] = "medium"]_removableVars
  <2> SUFFICES ASSUME NEW j \in Job, data[j] = "medium" PROVE data'[j] = "medium"
    OBVIOUS
  <2> USE DEF deviceVars, serviceVars, copyVars
  <2>1. CASE Pull
    BY <1>1, <2>1 DEF Pull
  <2>2. ASSUME NEW p \in Process, UnmountCommand(p) PROVE data'[j] = "medium"
    BY <1>1, <2>2 DEF UnmountCommand
  <2>3. CASE FinishEvent
    <3>1. CASE Deletes(op[Udev])
      <4>1. mounted = "no"
        BY <1>1, <2>3, <3>1 DEF FinishEvent, Deletes, CopyInv, OnlyUdevMounts
      <4>2. data' = [i \in Job |-> IF data[i] \in {"host"} THEN "lost" ELSE data[i]]
        BY <2>3, <3>1, <4>1 DEF FinishEvent
      <4>3. QED
        BY <4>2
    <3>2. CASE ~Deletes(op[Udev])
      BY <2>3, <3>2 DEF FinishEvent
    <3>3. QED
      BY <3>1, <3>2
  <2>4. ASSUME NEW i \in Job, CopyFile(i) PROVE data'[j] = "medium"
    <3>1. i # j
      BY <1>1, <2>4 DEF CopyFile, CopyInv
    <3>2. QED
      BY <1>1, <2>4, <3>1 DEF CopyFile, RemovableTypeOK
  <2>5. ASSUME \/ Insert \/ RequestEject \/ StartService \/ StopService \/ ListDevices
               \/ StartPolling \/ HandleEvent \/ RequestUnmount \/ AnswerRequest
               \/ UNCHANGED removableVars
               \/ \E p \in Process : MountCommand(p) \/ CheckAgain(p)
               \/ \E i \in Job : FindDevice(i) \/ MakeDirectory(i) \/ OpenFile(i) \/ EndCopy(i)
        PROVE  UNCHANGED data
    BY <2>5 DEF Insert, RequestEject, StartService, StopService, ListDevices, StartPolling,
       HandleEvent, RequestUnmount, AnswerRequest, removableVars, MountCommand, CheckAgain,
       FindDevice, MakeDirectory, OpenFile, EndCopy
  <2>6. QED
    BY <1>1, <2>1, <2>2, <2>3, <2>4, <2>5 DEF RemovableNext
<1>2. QED
  BY <1>1, RemovableTypes, CopiesOnTheirWay, PTL DEF RemovableSpec, MediumIsKept

\* The service is about to run mount, on a mount point that was free.
AboutToMount == op[Udev].what = "mount" /\ op[Udev].at = "command"

\* A medium that is in, not mounted, and for no reason, will be found or is being mounted.
WillBeMounted ==
    medium = "in" /\ mounted # "yes" /\ reasons = {} =>
      /\ mounted = "no"
      /\ \/ service \in {"off", "listing"}
         \/ AboutToMount
         \/ service = "polling" /\ \E i \in 1 .. Len(events) : events[i] = "add"

\* Every step keeps the service informed, or is a reason.
LEMMA WillBeStep ==
    ASSUME RemovableTypeOK, CopyInv, WillBeMounted, [RemovableNext]_removableVars
    PROVE  WillBeMounted'
<1> USE DEF deviceVars, serviceVars, copyVars
<1>0. /\ Udev \in Process /\ Udev \notin Job /\ Udev # View
      /\ View \in Process /\ Job \subseteq Process
  BY RemovableAssumption DEF Process
<1>1. CASE Insert
  <2>1. CASE service = "polling"
    <3>1. events' = Append(events, "add") /\ events \in Seq({"add", "remove", "eject"})
      BY <1>1, <2>1 DEF Insert, Notify, RemovableTypeOK
    <3>2. Len(events') \in 1 .. Len(events') /\ events'[Len(events')] = "add"
      BY <3>1
    <3>3. mounted' \in {"no", "yes"} \/ reasons' # {}
      BY <1>1 DEF Insert, RemovableTypeOK
    <3>4. QED
      BY <1>1, <2>1, <3>2, <3>3 DEF Insert, WillBeMounted
  <2>2. CASE service # "polling"
    BY <1>1, <2>2 DEF Insert, Missed, WillBeMounted, RemovableTypeOK
  <2>3. QED
    BY <2>1, <2>2
<1>2. CASE Pull
  BY <1>2 DEF Pull, WillBeMounted
<1>3. ASSUME UNCHANGED <<medium, mounted, reasons, service>>, AboutToMount => AboutToMount',
             UNCHANGED events
      PROVE  WillBeMounted'
  BY <1>3 DEF WillBeMounted
<1>4. CASE RequestEject
  <2>1. Len(events) = 0
    BY <1>4 DEF RequestEject
  <2>2. QED
    BY <1>4, <2>1 DEF RequestEject, WillBeMounted, AboutToMount
<1>5. ASSUME NEW p \in Process, MountCommand(p) PROVE WillBeMounted'
  BY <1>5 DEF MountCommand, WillBeMounted
<1>6. ASSUME NEW p \in Process, UnmountCommand(p) PROVE WillBeMounted'
  <2>1. op' = [op EXCEPT ![p].at = "check"] /\ op[p].what = "unmount"
    BY <1>6 DEF UnmountCommand
  <2>2. AboutToMount => AboutToMount'
    BY <1>0, <2>1 DEF AboutToMount, RemovableTypeOK
  <2>3. UNCHANGED <<medium, service, events>>
    BY <1>6 DEF UnmountCommand
  <2>4. UNCHANGED <<mounted, reasons>> \/ reasons' # {}
    BY <1>6 DEF UnmountCommand
  <2>5. QED
    BY <1>3, <2>2, <2>3, <2>4 DEF WillBeMounted
<1>7. ASSUME NEW p \in Process, CheckAgain(p) PROVE WillBeMounted'
  <2>1. op[p].at = "check" /\ \A q \in Process : q # p => op'[q] = op[q]
    BY <1>7 DEF CheckAgain, RemovableTypeOK
  <2>2. AboutToMount => AboutToMount'
    BY <1>0, <2>1 DEF AboutToMount
  <2>3. QED
    BY <1>3, <1>7, <2>2 DEF CheckAgain
<1>8. CASE StartService
  BY <1>8 DEF StartService, WillBeMounted
<1>9. CASE StopService
  BY <1>9 DEF StopService, WillBeMounted
<1>10. CASE ListDevices
  <2>1. medium = "in" /\ mounted = "no" => AboutToMount'
    BY <1>0, <1>10, CallBegun DEF ListDevices, AboutToMount
  <2>2. QED
    BY <1>10, <2>1 DEF ListDevices, WillBeMounted
<1>11. CASE StartPolling
  BY <1>11 DEF StartPolling, WillBeMounted, AboutToMount, NoOp
<1>12. CASE HandleEvent
  <2>1. ~AboutToMount /\ service = "polling" /\ UNCHANGED <<medium, mounted, reasons, service>>
    BY <1>12 DEF HandleEvent, AboutToMount, NoOp
  <2>2. SUFFICES ASSUME mounted = "no", NEW i \in 1 .. Len(events), events[i] = "add"
                 PROVE  AboutToMount' \/ \E k \in 1 .. Len(events') : events'[k] = "add"
    BY <2>1 DEF WillBeMounted
  <2>3. CASE Head(events) = "add"
    BY <1>0, <1>12, <2>2, <2>3, CallBegun DEF HandleEvent, AboutToMount
  <2>4. CASE Head(events) # "add"
    <3>1. events' = Tail(events) /\ events \in Seq({"add", "remove", "eject"})
      BY <1>12 DEF HandleEvent, RemovableTypeOK
    <3>2. i # 1
      BY <2>2, <2>4, <3>1
    <3>3. i - 1 \in 1 .. Len(events') /\ events'[i - 1] = "add"
      BY <2>2, <3>1, <3>2
    <3>4. QED
      BY <3>3
  <2>5. QED
    BY <2>3, <2>4
<1>13. CASE FinishEvent
  <2>1. ~AboutToMount
    BY <1>13 DEF FinishEvent, AboutToMount
  <2>2. QED
    BY <1>3, <1>13, <2>1 DEF FinishEvent
<1>14. CASE RequestUnmount \/ AnswerRequest
  <2>1. op'[Udev] = op[Udev]
    BY <1>0, <1>14, CallBegun DEF RequestUnmount, AnswerRequest, RemovableTypeOK
  <2>2. QED
    BY <1>3, <1>14, <2>1 DEF RequestUnmount, AnswerRequest, AboutToMount
<1>15. ASSUME NEW j \in Job,
              FindDevice(j) \/ MakeDirectory(j) \/ OpenFile(j) \/ CopyFile(j) \/ EndCopy(j)
       PROVE  WillBeMounted'
  <2>1. j \in Process /\ j # Udev
    BY <1>0
  <2>2. op'[Udev] = op[Udev]
    <3>1. CASE CopyFile(j)
      <4>1. UNCHANGED op \/ BeginUnmount(j)
        BY <3>1 DEF CopyFile
      <4>2. QED
        BY <1>0, <2>1, <4>1, CallBegun
    <3>2. CASE ~CopyFile(j)
      BY <1>0, <1>15, <2>1, <3>2
         DEF FindDevice, MakeDirectory, OpenFile, EndCopy, RemovableTypeOK
    <3>3. QED
      BY <3>1, <3>2
  <2>3. UNCHANGED <<medium, mounted, reasons, service, events>>
    BY <1>15 DEF FindDevice, MakeDirectory, OpenFile, CopyFile, EndCopy
  <2>4. QED
    BY <1>3, <2>2, <2>3 DEF AboutToMount
<1>16. CASE UNCHANGED removableVars
  BY <1>3, <1>16 DEF removableVars, AboutToMount
<1>17. QED
  BY <1>1, <1>2, <1>4, <1>5, <1>6, <1>7, <1>8, <1>9, <1>10, <1>11, <1>12, <1>13, <1>14, <1>15,
     <1>16 DEF RemovableNext

\* When nothing is under way a medium that is in is mounted, unless it was unmounted
\* since, could not be mounted, came when the service was not listening, or another
\* one, pulled without an unmount, still holds the mount point.
THEOREM MediaAreMounted == RemovableSpec => []InsertedIsMounted
<1>1. RemovableInit => WillBeMounted
  BY DEF RemovableInit, WillBeMounted
<1>2. WillBeMounted => InsertedIsMounted
  <2>1. Len(<<>>) = 0 /\ Udev \in Process
    BY DEF Process
  <2>2. QED
    BY <2>1 DEF WillBeMounted, AboutToMount, InsertedIsMounted, NoOp
<1>3. QED
  BY <1>1, <1>2, WillBeStep, RemovableTypes, CopiesOnTheirWay, PTL DEF RemovableSpec

-----------------------------------------------------------------------------
(* The intake of a session *)

\* A set of numbers of files that is not empty has a greatest one.
LEMMA NewestExists ==
    ASSUME NEW S, S \subseteq FileNo, S # {}, MaxFiles \in Nat
    PROVE  \E f \in S : \A g \in S : g <= f
<1> DEFINE R == OpToRel(<, Nat)
           T == {MaxFiles - f : f \in S}
<1>1. /\ T \subseteq Nat
      /\ T # {}
      /\ \A f \in S : f \in Nat
  <2>1. \A f \in S : f \in Nat /\ MaxFiles - f \in Nat
    BY DEF FileNo
  <2>2. QED
    BY <2>1
<1>2. PICK x \in T : \A y \in T : ~ (<<y, x>> \in R)
  <2> HIDE DEF R, T
  <2>1. IsWellFoundedOn(R, Nat)
    BY NatLessThanWellFounded DEF R
  <2>2. QED
    BY <1>1, <2>1, WFMin
<1>3. \A y \in T : ~ (y < x)
  BY <1>1, <1>2 DEF OpToRel
<1>4. PICK f \in S : x = MaxFiles - f
  OBVIOUS
<1>5. ASSUME NEW g \in S PROVE g <= f
  <2>1. ~ (MaxFiles - g < x)
    BY <1>3
  <2>2. QED
    BY <1>1, <1>4, <2>1
<1>6. QED
  BY <1>5

\* What a task is, seen from the request and from the tasks that publish it.
LEMMA IntakeTasks ==
    /\ CreateTask \in IntakeTask
    /\ \A f \in FileNo : ScanTask(f) \in IntakeTask /\ ScanTask(f) # CreateTask
    /\ \A f \in FileNo, a \in Scanner :
         RowTask(f, a) \in IntakeTask /\ RowTask(f, a) # CreateTask
    /\ \A f, g \in FileNo, a \in Scanner : RowTask(f, a) # ScanTask(g)
    /\ \A f, g \in FileNo : ScanTask(f) = ScanTask(g) => f = g
    /\ \A f, g \in FileNo, a, b \in Scanner : RowTask(f, a) = RowTask(g, b) => f = g /\ a = b
    /\ Client \notin IntakeTask
    /\ \A t \in IntakeTask : \/ t = CreateTask
                             \/ \E f \in FileNo : t = ScanTask(f)
                             \/ \E f \in FileNo, a \in Scanner : t = RowTask(f, a)
<1>1. /\ \A f \in FileNo : ScanTask(f).kind = "scan_file" /\ ScanTask(f).file = f
      /\ \A f \in FileNo, a \in Scanner : /\ RowTask(f, a).kind = "perform_scan"
                                          /\ RowTask(f, a).file = f
                                          /\ RowTask(f, a).agent = a
      /\ CreateTask.kind = "create" /\ Client.kind = "request"
  BY DEF CreateTask, ScanTask, RowTask, Client
<1>2. \A t \in IntakeTask : \/ t = CreateTask
                            \/ \E f \in FileNo : t = ScanTask(f)
                            \/ \E f \in FileNo, a \in Scanner : t = RowTask(f, a)
  BY DEF IntakeTask
<1>3. /\ CreateTask \in IntakeTask
      /\ \A f \in FileNo : ScanTask(f) \in IntakeTask
      /\ \A f \in FileNo, a \in Scanner : RowTask(f, a) \in IntakeTask
  BY DEF IntakeTask
<1>4. \A t \in IntakeTask : t.kind # "request"
  BY <1>1, <1>2
<1>5. QED
  BY <1>1, <1>2, <1>3, <1>4

\* While the task that stores the download has written a file it is there, and once it
\* has inserted the row the session has it, unless it was deleted.
SavedHasRow ==
    /\ place[CreateTask] = "stored" => \E f \in FileNo : files[f] = "written"
    /\ place[CreateTask] = "saved" => exists # "there" \/ Valid(files) # {}

\* Before the request nothing is published.
NothingYet ==
    request.source = "none" => /\ \A t \in IntakeTask : place[t] = "none"
                               /\ \A p \in IntakeTask \cup {Client} : todo[p] = {}

\* The file whose source is deleted is a file of the session.
LEMMA NewestIsFile ==
    ASSUME IntakeAssumption, IntakeTypeOK, Valid(files) # {}
    PROVE  Newest \in Valid(files) /\ Newest \in FileNo
<1>1. Valid(files) \subseteq FileNo /\ MaxFiles \in Nat
  BY IntakeAssumption DEF Valid, IntakeAssumption
<1>2. \E f \in Valid(files) : \A g \in Valid(files) : g <= f
  BY <1>1, NewestExists
<1>3. Newest \in Valid(files)
  BY <1>2 DEF Newest
<1>4. QED
  BY <1>1, <1>3

\* What the types of the intake's variables rest on.
IntakeBase == IntakeTypeOK /\ SavedHasRow /\ NothingYet

\* The request, the session, the tasks and their entries keep their types.
LEMMA IntakeTypes == IntakeSpec => []IntakeBase
<1> USE DEF sessionVars, brokerVars, workerVars
<1>1. IntakeInit => IntakeBase
  <2> SUFFICES ASSUME IntakeInit PROVE IntakeBase
    OBVIOUS
  <2>1. /\ request \in [source : {"none", "upload", "url", "path"},
                        scan : BOOLEAN, extract : BOOLEAN]
        /\ terminate \in [stage : {"idle", "revoking", "done", "broken"},
                          left : SUBSET IntakeTask, waiting : SUBSET IntakeTask]
    BY DEF IntakeInit
  <2>2. losses \in 0 .. MaxLosses
    BY IntakeAssumption DEF IntakeAssumption, IntakeInit
  <2>3. place \in [IntakeTask -> {"none", "unsent", "gone", "dropped"} \cup Alive]
    BY DEF IntakeInit, Alive
  <2>4. SavedHasRow /\ NothingYet
    BY IntakeTasks DEF IntakeInit, SavedHasRow, NothingYet
  <2>5. IntakeTypeOK
    BY <2>1, <2>2, <2>3 DEF IntakeInit, IntakeTypeOK
  <2>6. QED
    BY <2>4, <2>5 DEF IntakeBase
<1>2. ASSUME IntakeBase, [IntakeNext]_intakeVars PROVE IntakeBase'
  <2> USE DEF IntakeTypeOK
  <2>0. /\ CreateTask \in IntakeTask
        /\ Client \in IntakeTask \cup {Client}
        /\ 1 \in FileNo
        /\ \A f \in FileNo : FollowUps(f, TRUE) \subseteq IntakeTask
        /\ \A f \in FileNo : FollowUps(f, FALSE) \subseteq IntakeTask
        /\ IntakeTypeOK
        /\ SavedHasRow
        /\ NothingYet
    BY <1>2, IntakeTasks, IntakeAssumption
       DEF IntakeBase, IntakeAssumption, FileNo, FollowUps
  <2>1. ASSUME NEW s \in BOOLEAN, NEW e \in BOOLEAN, Upload(s, e)
        PROVE  IntakeBase'
    <3>1. IntakeTypeOK'
      BY <2>0, <2>1 DEF Upload
    <3>2. SavedHasRow'
      BY <2>0, <2>1 DEF Upload, NothingYet, SavedHasRow, Valid
    <3>3. NothingYet'
      BY <2>0, <2>1 DEF Upload, NothingYet
    <3>4. QED
      BY <3>1, <3>2, <3>3 DEF IntakeBase
  <2>2. ASSUME NEW s \in BOOLEAN, NEW e \in BOOLEAN, FromUrl(s, e)
        PROVE  IntakeBase'
    <3>1. IntakeTypeOK'
      BY <2>0, <2>2 DEF FromUrl
    <3>2. SavedHasRow'
      BY <2>0, <2>2 DEF FromUrl, NothingYet, SavedHasRow, Valid
    <3>3. NothingYet'
      BY <2>0, <2>2 DEF FromUrl, NothingYet
    <3>4. QED
      BY <3>1, <3>2, <3>3 DEF IntakeBase
  <2>3. ASSUME NEW s \in BOOLEAN, NEW e \in BOOLEAN, FromPath(s, e)
        PROVE  IntakeBase'
    <3>1. IntakeTypeOK'
      BY <2>0, <2>3 DEF FromPath
    <3>2. SavedHasRow'
      BY <2>0, <2>3 DEF FromPath, NothingYet, SavedHasRow, Valid
    <3>3. NothingYet'
      BY <2>0, <2>3 DEF FromPath, NothingYet
    <3>4. QED
      BY <3>1, <3>2, <3>3 DEF IntakeBase
  <2>4. ASSUME NEW p \in DOMAIN todo, PublishNext(p)
        PROVE  IntakeBase'
    <3>1. IntakeTypeOK'
      <4>1. todo' \in [IntakeTask \cup {Client} -> SUBSET IntakeTask]
        BY <2>0, <2>4 DEF PublishNext
      <4>2. place' \in [IntakeTask -> {"none", "unsent", "gone", "dropped"} \cup Alive]
        BY <2>0, <2>4 DEF PublishNext, Alive
      <4>3. log' \subseteq IntakeTask
        BY <2>0, <2>4 DEF PublishNext, Register
      <4>4. QED
        BY <2>0, <2>4, <4>1, <4>2, <4>3 DEF PublishNext
    <3>2. SavedHasRow'
      BY <2>0, <2>4 DEF PublishNext, SavedHasRow, Valid
    <3>3. NothingYet'
      BY <2>0, <2>4 DEF PublishNext, NothingYet
    <3>4. QED
      BY <3>1, <3>2, <3>3 DEF IntakeBase
  <2>5. ASSUME NEW t \in IntakeTask, StartTask(t)
        PROVE  IntakeBase'
    <3>1. IntakeTypeOK'
      BY <2>0, <2>5 DEF StartTask, Alive, Running
    <3>2. SavedHasRow'
      BY <2>0, <2>5 DEF StartTask, SavedHasRow, Valid
    <3>3. NothingYet'
      BY <2>0, <2>5 DEF StartTask, NothingYet
    <3>4. QED
      BY <3>1, <3>2, <3>3 DEF IntakeBase
  <2>6. ASSUME NEW t \in IntakeTask, Acknowledged(t) \/ EndPublishing(t) \/ Purge(t)
        PROVE  IntakeBase'
    <3>1. IntakeTypeOK'
      BY <2>0, <2>6 DEF Acknowledged, EndPublishing, Purge, Over, Alive
    <3>2. SavedHasRow'
      BY <2>0, <2>6 DEF Acknowledged, EndPublishing, Purge, Over, SavedHasRow, Valid
    <3>3. NothingYet'
      BY <2>0, <2>6 DEF Acknowledged, EndPublishing, Purge, Over, NothingYet
    <3>4. QED
      BY <3>1, <3>2, <3>3 DEF IntakeBase
  <2>7. ASSUME NEW t \in IntakeTask, DeliverRevoke(t)
        PROVE  IntakeBase'
    <3>1. IntakeTypeOK'
      <4>1. /\ todo' \in [IntakeTask \cup {Client} -> SUBSET IntakeTask]
            /\ place' \in [IntakeTask -> {"none", "unsent", "gone", "dropped"} \cup Alive]
        BY <2>0, <2>7 DEF DeliverRevoke, Alive
      <4>2. revoked' \subseteq IntakeTask /\ sent' \subseteq IntakeTask
        BY <2>0, <2>7 DEF DeliverRevoke
      <4>3. QED
        BY <2>0, <2>7, <4>1, <4>2 DEF DeliverRevoke
    <3>2. SavedHasRow'
      BY <2>0, <2>7 DEF DeliverRevoke, SavedHasRow, Valid
    <3>3. NothingYet'
      BY <2>0, <2>7 DEF DeliverRevoke, Running, NothingYet
    <3>4. QED
      BY <3>1, <3>2, <3>3 DEF IntakeBase
  <2>8. CASE Refuse
    <3>1. IntakeTypeOK'
      BY <2>0, <2>8 DEF Refuse, Over, Recount, Alive
    <3>2. SavedHasRow'
      BY <2>0, <2>8 DEF Refuse, Over, SavedHasRow, Valid
    <3>3. NothingYet'
      BY <2>0, <2>8 DEF Refuse, Over, NothingYet
    <3>4. QED
      BY <3>1, <3>2, <3>3 DEF IntakeBase
  <2>9. CASE Store \/ InsertRow \/ FailInsert \/ RefuseType
    <3>1. IntakeTypeOK'
      <4>1. CASE Store
        BY <2>0, <4>1 DEF Store, Alive, Running
      <4>2. CASE InsertRow
        BY <2>0, <4>2 DEF InsertRow, Alive, Running
      <4>3. CASE FailInsert \/ RefuseType
        BY <2>0, <4>3 DEF FailInsert, RefuseType, Over, Recount, Alive
      <4>4. QED
        BY <2>9, <4>1, <4>2, <4>3
    <3>2. SavedHasRow'
      BY <2>0, <2>9 DEF Store, InsertRow, FailInsert, RefuseType, Over, SavedHasRow, Valid
    <3>3. NothingYet'
      BY <2>0, <2>9 DEF Store, InsertRow, FailInsert, RefuseType, Over, NothingYet
    <3>4. QED
      BY <3>1, <3>2, <3>3 DEF IntakeBase
  <2>10. CASE DropSource
    <3>1. exists = "there" => Newest \in FileNo
      BY <2>0, <2>10, IntakeAssumption, NewestIsFile DEF DropSource, SavedHasRow
    <3>2. exists = "there" => FollowUps(Newest, request.scan) \subseteq IntakeTask
      BY <2>0, <3>1
    <3>3. IntakeTypeOK'
      BY <2>0, <2>10, <3>2 DEF DropSource, Over, Recount, Alive, Running
    <3>4. SavedHasRow'
      BY <2>0, <2>10 DEF DropSource, Over, SavedHasRow, Valid
    <3>5. NothingYet'
      BY <2>0, <2>10 DEF DropSource, Over, NothingYet
    <3>6. QED
      BY <3>3, <3>4, <3>5 DEF IntakeBase
  <2>11. ASSUME NEW f \in FileNo, SkipFile(f)
        PROVE  IntakeBase'
    <3>1. IntakeTypeOK'
      BY <2>0, <2>11, IntakeTasks DEF SkipFile, Over, Alive
    <3>2. SavedHasRow'
      BY <2>0, <2>11, IntakeTasks DEF SkipFile, Over, SavedHasRow, Valid
    <3>3. NothingYet'
      BY <2>0, <2>11, IntakeTasks DEF SkipFile, Over, NothingYet
    <3>4. QED
      BY <3>1, <3>2, <3>3 DEF IntakeBase
  <2>12. ASSUME NEW f \in FileNo, CreateRows(f)
        PROVE  IntakeBase'
    <3>1. IntakeTypeOK'
      BY <2>0, <2>12, IntakeTasks DEF CreateRows, Recount, Alive, Running
    <3>2. SavedHasRow'
      BY <2>0, <2>12, IntakeTasks DEF CreateRows, SavedHasRow, Valid
    <3>3. NothingYet'
      BY <2>0, <2>12, IntakeTasks DEF CreateRows, NothingYet
    <3>4. QED
      BY <3>1, <3>2, <3>3 DEF IntakeBase
  <2>13. ASSUME NEW f \in FileNo, NEW a \in Scanner, AnswerRow(f, a)
        PROVE  IntakeBase'
    <3>1. IntakeTypeOK'
      BY <2>0, <2>13, IntakeTasks, ZenonT(30) DEF AnswerRow, Over, Recount, Alive
    <3>2. SavedHasRow'
      BY <2>0, <2>13, IntakeTasks DEF AnswerRow, Over, SavedHasRow, Valid
    <3>3. NothingYet'
      BY <2>0, <2>13, IntakeTasks DEF AnswerRow, Over, NothingYet
    <3>4. QED
      BY <3>1, <3>2, <3>3 DEF IntakeBase
  <2>14. CASE LoseWorker
    <3>1. IntakeTypeOK'
      <4>1. DOMAIN todo = IntakeTask \cup {Client}
        BY <2>0
      <4>2. /\ todo' \in [IntakeTask \cup {Client} -> SUBSET IntakeTask]
            /\ place' \in [IntakeTask -> {"none", "unsent", "gone", "dropped"} \cup Alive]
        BY <2>0, <2>14, <4>1 DEF LoseWorker, Alive
      <4>3. losses' \in 0 .. MaxLosses
        BY <2>0, <2>14, IntakeAssumption DEF LoseWorker, IntakeAssumption
      <4>4. QED
        BY <2>0, <2>14, <4>2, <4>3 DEF LoseWorker
    <3>2. SavedHasRow'
      BY <2>0, <2>14 DEF LoseWorker, Alive, SavedHasRow, Valid
    <3>3. NothingYet'
      <4>1. DOMAIN todo = IntakeTask \cup {Client}
        BY <2>0
      <4>2. /\ \A t \in IntakeTask : place[t] = "none" => place'[t] = "none"
            /\ \A p \in IntakeTask \cup {Client} : todo[p] = {} => todo'[p] = {}
        BY <2>0, <2>14, <4>1 DEF LoseWorker, Alive, Running
      <4>3. QED
        BY <2>0, <2>14, <4>2 DEF LoseWorker, NothingYet
    <3>4. QED
      BY <3>1, <3>2, <3>3 DEF IntakeBase
  <2>15. CASE RestartWorker \/ BeginTerminate \/ EndTerminate
    <3>1. IntakeTypeOK'
      <4>1. terminate' \in [stage : {"idle", "revoking", "done", "broken"},
                            left : SUBSET IntakeTask, waiting : SUBSET IntakeTask]
        BY <2>0, <2>15 DEF RestartWorker, BeginTerminate, EndTerminate
      <4>2. up' \in BOOLEAN
        BY <2>0, <2>15 DEF RestartWorker, BeginTerminate, EndTerminate
      <4>3. QED
        BY <2>0, <2>15, <4>1, <4>2 DEF RestartWorker, BeginTerminate, EndTerminate
    <3>2. SavedHasRow'
      BY <2>0, <2>15 DEF RestartWorker, BeginTerminate, EndTerminate, SavedHasRow, Valid
    <3>3. NothingYet'
      BY <2>0, <2>15 DEF RestartWorker, BeginTerminate, EndTerminate, NothingYet
    <3>4. QED
      BY <3>1, <3>2, <3>3 DEF IntakeBase
  <2>16. ASSUME NEW t \in IntakeTask, RevokeTask(t) \/ TerminateTask(t)
        PROVE  IntakeBase'
    <3>1. IntakeTypeOK'
      BY <2>0, <2>16 DEF RevokeTask, TerminateTask, Broadcast
    <3>2. SavedHasRow'
      BY <2>0, <2>16 DEF RevokeTask, TerminateTask, SavedHasRow, Valid
    <3>3. NothingYet'
      BY <2>0, <2>16 DEF RevokeTask, TerminateTask, NothingYet
    <3>4. QED
      BY <3>1, <3>2, <3>3 DEF IntakeBase
  <2>17. CASE BreakTerminate
    <3>1. IntakeTypeOK'
      <4>1. sent' \subseteq IntakeTask
        BY <2>0, <2>17 DEF BreakTerminate, Broadcast
      <4>2. QED
        BY <2>0, <2>17, <4>1 DEF BreakTerminate
    <3>2. SavedHasRow'
      BY <2>0, <2>17 DEF BreakTerminate, SavedHasRow, Valid
    <3>3. NothingYet'
      BY <2>0, <2>17 DEF BreakTerminate, NothingYet
    <3>4. QED
      BY <3>1, <3>2, <3>3 DEF IntakeBase
  <2>18. CASE DeleteSession
    <3>1. IntakeTypeOK'
      BY <2>0, <2>18 DEF DeleteSession
    <3>2. SavedHasRow'
      BY <2>0, <2>18 DEF DeleteSession, SavedHasRow, Valid
    <3>3. NothingYet'
      BY <2>0, <2>18 DEF DeleteSession, NothingYet
    <3>4. QED
      BY <3>1, <3>2, <3>3 DEF IntakeBase
  <2>19. ASSUME NEW f \in FileNo, CleanSource(f) \/ MarkCleaned(f)
        PROVE  IntakeBase'
    <3>1. IntakeTypeOK'
      BY <2>0, <2>19 DEF CleanSource, MarkCleaned
    <3>2. SavedHasRow'
      BY <2>0, <2>19 DEF CleanSource, MarkCleaned, SavedHasRow, Valid
    <3>3. NothingYet'
      BY <2>0, <2>19 DEF CleanSource, MarkCleaned, NothingYet
    <3>4. QED
      BY <3>1, <3>2, <3>3 DEF IntakeBase
  <2>20. CASE UNCHANGED intakeVars
    BY <2>0, <2>20 DEF intakeVars, IntakeBase, SavedHasRow, NothingYet, Valid
  <2>21. QED
    BY <1>2, <2>1, <2>2, <2>3, <2>4, <2>5, <2>6, <2>7, <2>8, <2>9, <2>10, <2>11, <2>12, <2>13,
       <2>14, <2>15, <2>16, <2>17, <2>18, <2>19, <2>20 DEF IntakeNext, TaskStep
<1>3. QED
  BY <1>1, <1>2, PTL DEF IntakeSpec

\* Where a task is while its entry is in the TaskLog.
Kept == {"queued", "unsent", "dropped"} \cup Running

\* An entry of the TaskLog belongs to a task that waits or runs, unless its message was
\* never sent, or that was dropped by itself (BaseTask.register_task_id and on_postrun,
\* TaskLog.terminate): true of any number of tasks, files and losses, and of a terminate
\* that breaks off.
THEOREM EntriesAreOfTasks == IntakeSpec => []EntriesHaveTasks
<1> USE DEF sessionVars, brokerVars, workerVars
<1>1. IntakeInit => EntriesHaveTasks
  BY DEF IntakeInit, EntriesHaveTasks
<1>2. ASSUME IntakeTypeOK, EntriesHaveTasks, [IntakeNext]_intakeVars
      PROVE  EntriesHaveTasks'
  <2> SUFFICES ASSUME NEW t \in log'
               PROVE  place'[t] \in Kept
    BY DEF EntriesHaveTasks, Kept
  <2>0. /\ log \subseteq IntakeTask
        /\ place \in [IntakeTask -> {"none", "unsent", "gone", "dropped"} \cup Alive]
        /\ t \in log => place[t] \in Kept
    BY <1>2 DEF IntakeTypeOK, EntriesHaveTasks, Kept
  <2>1. ASSUME NEW s \in BOOLEAN, NEW e \in BOOLEAN,
               Upload(s, e) \/ FromUrl(s, e) \/ FromPath(s, e)
        PROVE  place'[t] \in Kept
    BY <2>0, <2>1 DEF Upload, FromUrl, FromPath
  <2>2. ASSUME NEW p \in DOMAIN todo, PublishNext(p) PROVE place'[t] \in Kept
    <3>1. PICK u \in todo[p] : /\ log' = log \cup {u}
                               /\ \E where \in {"queued", "unsent"} :
                                     place' = [place EXCEPT ![u] = where]
      BY <2>2 DEF PublishNext, Register
    <3>2. u \in IntakeTask
      BY <1>2, <2>2 DEF IntakeTypeOK, PublishNext
    <3>3. QED
      BY <2>0, <3>1, <3>2 DEF Kept
  <2>3. ASSUME NEW u \in IntakeTask,
               \/ StartTask(u) \/ Acknowledged(u) \/ EndPublishing(u)
               \/ DeliverRevoke(u) \/ Purge(u)
        PROVE  place'[t] \in Kept
    BY <2>0, <2>3 DEF StartTask, Acknowledged, EndPublishing, DeliverRevoke, Purge, Over,
                      Running, Kept
  <2>4. CASE Refuse \/ Store \/ InsertRow \/ FailInsert \/ RefuseType \/ DropSource
    BY <2>0, <2>4, IntakeTasks DEF Refuse, Store, InsertRow, FailInsert, RefuseType, DropSource,
                                   Over, Running, Kept
  <2>5. ASSUME NEW f \in FileNo, SkipFile(f) \/ CreateRows(f) PROVE place'[t] \in Kept
    BY <2>0, <2>5, IntakeTasks DEF SkipFile, CreateRows, Over, Running, Kept
  <2>6. ASSUME NEW f \in FileNo, NEW a \in Scanner, AnswerRow(f, a) PROVE place'[t] \in Kept
    BY <2>0, <2>6, IntakeTasks DEF AnswerRow, Over, Kept
  <2>7. CASE LoseWorker
    BY <2>0, <2>7 DEF LoseWorker, Alive, Running, Kept
  <2>8. CASE RestartWorker \/ BeginTerminate \/ EndTerminate
    BY <1>2, <2>0, <2>8 DEF RestartWorker, BeginTerminate, EndTerminate
  <2>9. ASSUME NEW u \in IntakeTask, RevokeTask(u) \/ TerminateTask(u) PROVE place'[t] \in Kept
    BY <2>0, <2>9 DEF RevokeTask, TerminateTask
  <2>10. CASE BreakTerminate
    BY <2>0, <2>10 DEF BreakTerminate
  <2>11. CASE DeleteSession \/ UNCHANGED intakeVars
    BY <2>0, <2>11 DEF DeleteSession, intakeVars
  <2>12. ASSUME NEW f \in FileNo, CleanSource(f) \/ MarkCleaned(f) PROVE place'[t] \in Kept
    BY <2>0, <2>12 DEF CleanSource, MarkCleaned
  <2>13. QED
    BY <1>2, <2>1, <2>2, <2>3, <2>4, <2>5, <2>6, <2>7, <2>8, <2>9, <2>10, <2>11, <2>12
       DEF IntakeNext, TaskStep
<1>3. QED
  BY <1>1, <1>2, IntakeTypes, PTL DEF IntakeSpec, IntakeBase

\* Only an upload from a URL, whose session the request has created, publishes the task
\* that stores the download.
CreateIsFromUrl ==
    \/ request.source = "url" /\ exists # "none"
    \/ /\ place[CreateTask] = "none"
       /\ \A p \in IntakeTask \cup {Client} : CreateTask \notin todo[p]

\* Only the request publishes the task that stores a download, once; and neither it nor
\* that task publishes two tasks.
OneAtMost ==
    /\ \A p \in IntakeTask \cup {Client} : CreateTask \in todo[p] =>
          p = Client /\ place[CreateTask] = "none"
    /\ \A p \in {Client, CreateTask} : \A t, u \in todo[p] : t = u

\* The request and the download have one task to publish.
LEMMA PublishersHaveOne == IntakeSpec => []OneAtMost
<1> USE DEF sessionVars, brokerVars, workerVars
<1>1. IntakeInit => OneAtMost
  BY IntakeTasks DEF IntakeInit, OneAtMost
<1>2. ASSUME IntakeBase, OneAtMost, [IntakeNext]_intakeVars
      PROVE  OneAtMost'
  <2>0. /\ place \in [IntakeTask -> {"none", "unsent", "gone", "dropped"} \cup Alive]
        /\ todo \in [IntakeTask \cup {Client} -> SUBSET IntakeTask]
        /\ CreateTask \in IntakeTask
        /\ Client \notin IntakeTask
        /\ 1 \in FileNo
        /\ \A f \in FileNo : ScanTask(f) \in IntakeTask /\ CreateTask # ScanTask(f)
        /\ request.source = "none" =>
             \A t \in IntakeTask : place[t] = "none" /\ \A p \in DOMAIN todo : todo[p] = {}
    BY <1>2, IntakeTasks, IntakeAssumption
       DEF IntakeBase, IntakeTypeOK, IntakeAssumption, FileNo, NothingYet
  \* A step that sets nothing to be published, and publishes no task that stores a download.
  <2>1. ASSUME \A p \in IntakeTask \cup {Client} : todo'[p] \subseteq todo[p],
               place[CreateTask] = "none" => place'[CreateTask] = "none"
        PROVE  OneAtMost'
    BY <1>2, <2>0, <2>1 DEF OneAtMost
  <2>2. ASSUME NEW s \in BOOLEAN, NEW e \in BOOLEAN,
               Upload(s, e) \/ FromUrl(s, e) \/ FromPath(s, e)
        PROVE  OneAtMost'
    <3>1. /\ \A p \in IntakeTask : todo'[p] = {}
          /\ todo'[Client] = {} \/ \E t \in IntakeTask : todo'[Client] = {t}
          /\ place'[CreateTask] = "none"
      BY <2>0, <2>2 DEF Upload, FollowUps, FromUrl, FromPath
    <3>2. QED
      BY <2>0, <3>1 DEF OneAtMost
  <2>3. ASSUME NEW p \in DOMAIN todo, PublishNext(p) PROVE OneAtMost'
    <3>1. PICK u \in todo[p] :
            /\ \E where \in {"queued", "unsent"} : place' = [place EXCEPT ![u] = where]
            /\ \A q \in DOMAIN todo : todo'[q] \subseteq todo[q]
            /\ u \notin todo'[p]
      BY <2>0, <2>3 DEF PublishNext
    <3>2. QED
      BY <1>2, <2>0, <3>1 DEF OneAtMost
  <2>4. ASSUME NEW u \in IntakeTask,
               \/ StartTask(u) \/ Acknowledged(u) \/ EndPublishing(u)
               \/ TerminateTask(u) \/ Purge(u) \/ RevokeTask(u) \/ DeliverRevoke(u)
        PROVE  OneAtMost'
    BY <2>0, <2>1, <2>4 DEF StartTask, Acknowledged, EndPublishing, TerminateTask, Purge,
                            RevokeTask, DeliverRevoke, Over, Running
  <2>5. CASE Refuse \/ Store \/ InsertRow \/ FailInsert \/ RefuseType
    BY <2>0, <2>1, <2>5 DEF Refuse, Store, InsertRow, FailInsert, RefuseType, Over
  <2>6. CASE DropSource
    <3>1. CASE exists # "there"
      BY <2>0, <2>1, <2>6, <3>1 DEF DropSource, Over
    <3>2. CASE exists = "there"
      <4>1. PICK f \in FileNo : todo' = [todo EXCEPT ![CreateTask] = FollowUps(f, request.scan)]
        BY <1>2, <2>6, <3>2, IntakeAssumption, NewestIsFile
           DEF DropSource, IntakeBase, SavedHasRow
      <4>2. place' = [place EXCEPT ![CreateTask] = "publishing"] /\ place[CreateTask] = "saved"
        BY <2>6, <3>2 DEF DropSource
      <4>3. QED
        BY <1>2, <2>0, <4>1, <4>2 DEF FollowUps, OneAtMost
    <3>3. QED
      BY <3>1, <3>2
  <2>7. ASSUME NEW f \in FileNo, SkipFile(f) PROVE OneAtMost'
    BY <2>0, <2>1, <2>7 DEF SkipFile, Over
  <2>8. ASSUME NEW f \in FileNo, CreateRows(f) PROVE OneAtMost'
    <3>1. CreateTask \notin {RowTask(f, a) : a \in Scanner}
      BY IntakeTasks
    <3>2. /\ place' = [place EXCEPT ![ScanTask(f)] = "publishing"]
          /\ todo' = [todo EXCEPT ![ScanTask(f)] = {RowTask(f, a) : a \in Scanner}]
      BY <2>8 DEF CreateRows
    <3>3. QED
      BY <1>2, <2>0, <3>1, <3>2 DEF OneAtMost
  <2>9. ASSUME NEW f \in FileNo, NEW a \in Scanner, AnswerRow(f, a) PROVE OneAtMost'
    BY <2>0, <2>1, <2>9, IntakeTasks DEF AnswerRow, Over
  <2>10. CASE LoseWorker
    BY <2>0, <2>1, <2>10 DEF LoseWorker, Alive, Running
  <2>11. CASE BreakTerminate
    BY <2>0, <2>1, <2>11 DEF BreakTerminate
  <2>12. CASE \/ RestartWorker \/ BeginTerminate \/ EndTerminate \/ DeleteSession
              \/ UNCHANGED intakeVars
              \/ \E f \in FileNo : CleanSource(f) \/ MarkCleaned(f)
    <3>1. place' = place /\ todo' = todo
      BY <2>12 DEF RestartWorker, BeginTerminate, EndTerminate, DeleteSession, intakeVars,
                   CleanSource, MarkCleaned
    <3>2. QED
      BY <2>1, <3>1
  <2>13. QED
    BY <1>2, <2>2, <2>3, <2>4, <2>5, <2>6, <2>7, <2>8, <2>9, <2>10, <2>11, <2>12
       DEF IntakeNext, TaskStep
<1>3. QED
  BY <1>1, <1>2, IntakeTypes, PTL DEF IntakeSpec

\* As long as the worker is not lost there is at most one file in the storage that has no
\* row, and it is the task's that stores the download, or was when it ended.
OneWritten ==
    losses = 0 =>
        \A f, g \in FileNo :
            files[f] = "written" =>
                /\ place[CreateTask] \in {"stored", "ended", "gone", "dropped"}
                /\ files[g] = "written" => f = g

\* What the rows of stored files rest on.
StoredBase == StoredHaveRows /\ OneWritten /\ CreateIsFromUrl

\* Stored files have rows, and the download is written once.
LEMMA RowsOfStored == IntakeSpec => []StoredBase
<1> USE DEF sessionVars, brokerVars, workerVars
<1>1. IntakeInit => StoredBase
  BY IntakeTasks DEF IntakeInit, StoredBase, StoredHaveRows, OneWritten, CreateIsFromUrl
<1>2. ASSUME IntakeBase, OneAtMost, StoredBase, [IntakeNext]_intakeVars PROVE StoredBase'
  <2>0. /\ stored \subseteq FileNo
        /\ files \in [FileNo -> {"none", "written", "valid", "refused", "cleaned"}]
        /\ exists \in {"none", "there", "deleted"}
        /\ losses \in Nat
        /\ place \in [IntakeTask -> {"none", "unsent", "gone", "dropped"} \cup Alive]
        /\ todo \in [IntakeTask \cup {Client} -> SUBSET IntakeTask]
        /\ CreateTask \in IntakeTask
        /\ Client \notin IntakeTask
        /\ 1 \in FileNo
        /\ \A f \in FileNo : ScanTask(f) \in IntakeTask /\ CreateTask # ScanTask(f)
        /\ request.source = "none" =>
             \A t \in IntakeTask : place[t] = "none" /\ \A p \in DOMAIN todo : todo[p] = {}
        /\ StoredHaveRows /\ OneWritten /\ CreateIsFromUrl
    BY <1>2, IntakeTasks, IntakeAssumption
       DEF IntakeBase, IntakeTypeOK, IntakeAssumption, FileNo, NothingYet, StoredBase
  \* A step that writes no file, leaves those without a row as they are, publishes no task
  \* that stores a download, and does not start that task again.
  <2>1. ASSUME UNCHANGED <<request, exists, losses>>,
               stored' \subseteq stored,
               \A f \in stored' : files[f] # "none" => files'[f] # "none",
               \A f \in FileNo : files'[f] = "written" <=> files[f] = "written",
               \A p \in IntakeTask \cup {Client} : todo'[p] \subseteq todo[p],
               place'[CreateTask] = "none" <=> place[CreateTask] = "none",
               place[CreateTask] \in {"stored", "ended", "gone", "dropped"} =>
                  place'[CreateTask] \in {"stored", "ended", "gone", "dropped"}
        PROVE  StoredBase'
    <3>1. StoredHaveRows'
      BY <2>0, <2>1 DEF StoredHaveRows
    <3>2. OneWritten'
      BY <2>0, <2>1 DEF OneWritten
    <3>3. CreateIsFromUrl'
      BY <2>0, <2>1 DEF CreateIsFromUrl
    <3>4. QED
      BY <3>1, <3>2, <3>3 DEF StoredBase
  <2>2. ASSUME NEW s \in BOOLEAN, NEW e \in BOOLEAN,
               Upload(s, e) \/ FromUrl(s, e) \/ FromPath(s, e)
        PROVE  StoredBase'
    <3>1. /\ place' = place /\ losses' = losses
          /\ \A f \in FileNo : files'[f] = "written" => files[f] = "written"
          /\ \A f \in stored' : (f \in stored /\ files' = files) \/ files'[f] = "valid"
          /\ \A t \in IntakeTask : place[t] = "none"
          /\ \A p \in IntakeTask : todo'[p] = {}
          /\ \/ CreateTask \notin todo'[Client]
             \/ request'.source = "url" /\ exists' = "there"
      BY <2>0, <2>2 DEF Upload, FromUrl, FromPath, FollowUps
    <3>2. QED
      BY <2>0, <3>1 DEF StoredBase, StoredHaveRows, OneWritten, CreateIsFromUrl
  <2>3. ASSUME NEW p \in DOMAIN todo, PublishNext(p) PROVE StoredBase'
    <3>1. PICK u \in todo[p] :
            /\ \E where \in {"queued", "unsent"} : place' = [place EXCEPT ![u] = where]
            /\ \A q \in DOMAIN todo : todo'[q] \subseteq todo[q]
      BY <2>0, <2>3 DEF PublishNext
    <3>2. UNCHANGED <<request, sessionVars, losses>>
      BY <2>3 DEF PublishNext
    <3>3. /\ u \in IntakeTask
          /\ u = CreateTask =>
               request.source = "url" /\ exists # "none" /\ place[CreateTask] = "none"
      BY <1>2, <2>0, <3>1 DEF CreateIsFromUrl, OneAtMost
    <3>4. UNCHANGED <<request, exists, files, stored, losses>>
      BY <3>2
    <3>5. StoredHaveRows' /\ OneWritten'
      BY <2>0, <3>1, <3>3, <3>4 DEF StoredHaveRows, OneWritten
    <3>6. CreateIsFromUrl'
      BY <2>0, <3>1, <3>3, <3>4 DEF CreateIsFromUrl
    <3>7. QED
      BY <3>5, <3>6 DEF StoredBase
  <2>4. ASSUME NEW u \in IntakeTask,
               \/ StartTask(u) \/ Acknowledged(u) \/ EndPublishing(u)
               \/ DeliverRevoke(u) \/ Purge(u) \/ RevokeTask(u) \/ TerminateTask(u)
        PROVE  StoredBase'
    <3>1. /\ UNCHANGED <<request, sessionVars, losses>>
          /\ \A p \in IntakeTask \cup {Client} : todo'[p] \subseteq todo[p]
      BY <2>0, <2>4 DEF StartTask, Acknowledged, EndPublishing, DeliverRevoke, Purge,
                        RevokeTask, TerminateTask
    <3>2. /\ place'[CreateTask] = "none" <=> place[CreateTask] = "none"
          /\ place[CreateTask] \in {"stored", "ended", "gone", "dropped"} =>
               place'[CreateTask] \in {"stored", "ended", "gone", "dropped"}
      BY <2>0, <2>4 DEF StartTask, Acknowledged, EndPublishing, DeliverRevoke, Purge,
                        RevokeTask, TerminateTask, Over, Running
    <3>3. UNCHANGED <<request, exists, files, stored, losses>>
      BY <3>1
    <3>4. QED
      BY <2>1, <3>1, <3>2, <3>3
  <2>5. CASE Refuse
    <3>1. PICK f \in FileNo : /\ files[f] = "none" /\ f \notin stored
                              /\ files' = [files EXCEPT ![f] = "refused"]
      BY <2>5 DEF Refuse, Unused
    <3>2. /\ place[CreateTask] = "running" /\ place'[CreateTask] = "ended"
          /\ UNCHANGED <<request, exists, stored, todo, losses>>
      BY <2>0, <2>5 DEF Refuse, Over
    <3>3. QED
      BY <2>0, <2>1, <3>1, <3>2
  <2>6. CASE Store
    <3>1. PICK f \in FileNo : /\ files' = [files EXCEPT ![f] = "written"]
                              /\ stored' = stored \cup {f}
      BY <2>6 DEF Store
    <3>2. /\ place[CreateTask] = "running" /\ place'[CreateTask] = "stored"
          /\ UNCHANGED <<request, exists, todo, losses>>
      BY <2>0, <2>6 DEF Store
    <3>3. StoredHaveRows'
      BY <2>0, <3>1, <3>2 DEF StoredHaveRows
    <3>4. OneWritten'
      BY <2>0, <3>1, <3>2 DEF OneWritten
    <3>5. CreateIsFromUrl'
      BY <2>0, <3>2 DEF CreateIsFromUrl
    <3>6. QED
      BY <3>3, <3>4, <3>5 DEF StoredBase
  <2>7. CASE InsertRow \/ RefuseType
    <3>1. PICK f \in FileNo : /\ files[f] = "written"
                              /\ \E row \in {"valid", "refused"} :
                                    files' = [files EXCEPT ![f] = row]
                              /\ stored' \subseteq stored
      BY <2>7 DEF InsertRow, RefuseType, LastWritten
    <3>2. /\ place[CreateTask] = "stored" /\ place'[CreateTask] \in {"saved", "ended"}
          /\ UNCHANGED <<request, exists, todo, losses>>
      BY <2>0, <2>7 DEF InsertRow, RefuseType, Over
    <3>3. StoredHaveRows'
      BY <2>0, <3>1, <3>2 DEF StoredHaveRows, OneWritten
    <3>4. OneWritten'
      BY <2>0, <3>1, <3>2 DEF OneWritten
    <3>5. CreateIsFromUrl'
      BY <2>0, <3>2 DEF CreateIsFromUrl
    <3>6. QED
      BY <3>3, <3>4, <3>5 DEF StoredBase
  <2>8. CASE FailInsert
    <3>1. /\ place[CreateTask] = "stored" /\ place'[CreateTask] = "ended"
          /\ UNCHANGED <<request, exists, files, stored, todo, losses>>
      BY <2>0, <2>8 DEF FailInsert, Over
    <3>2. QED
      BY <2>0, <2>1, <3>1
  <2>9. CASE DropSource
    <3>1. /\ stored' \subseteq stored
          /\ place[CreateTask] = "saved" /\ place'[CreateTask] \in {"publishing", "ended"}
          /\ UNCHANGED <<request, exists, files, losses>>
      BY <2>0, <2>9 DEF DropSource, Over
    <3>2. StoredHaveRows'
      BY <2>0, <3>1 DEF StoredHaveRows
    <3>3. OneWritten'
      BY <2>0, <3>1 DEF OneWritten
    <3>4. CreateIsFromUrl'
      BY <2>0, <3>1 DEF CreateIsFromUrl
    <3>5. QED
      BY <3>2, <3>3, <3>4 DEF StoredBase
  <2>10. ASSUME NEW f \in FileNo, SkipFile(f) \/ CreateRows(f) PROVE StoredBase'
    <3>1. CreateTask \notin {RowTask(f, a) : a \in Scanner}
      BY IntakeTasks
    <3>2. /\ UNCHANGED <<request, exists, files, stored, losses>>
          /\ place'[CreateTask] = place[CreateTask]
          /\ \A p \in IntakeTask \cup {Client} : CreateTask \in todo'[p] => CreateTask \in todo[p]
      BY <2>0, <2>10, <3>1 DEF SkipFile, CreateRows, Over
    <3>3. StoredHaveRows'
      BY <2>0, <3>2 DEF StoredHaveRows
    <3>4. OneWritten'
      BY <2>0, <3>2 DEF OneWritten
    <3>5. CreateIsFromUrl'
      BY <2>0, <3>2 DEF CreateIsFromUrl
    <3>6. QED
      BY <3>3, <3>4, <3>5 DEF StoredBase
  <2>11. ASSUME NEW f \in FileNo, NEW a \in Scanner, AnswerRow(f, a) PROVE StoredBase'
    <3>1. /\ UNCHANGED <<request, exists, files, stored, todo, losses>>
          /\ place'[CreateTask] = place[CreateTask]
      BY <2>0, <2>11, IntakeTasks DEF AnswerRow, Over
    <3>2. QED
      BY <2>0, <2>1, <3>1
  <2>12. CASE LoseWorker
    <3>1. /\ place[CreateTask] = "none" => place'[CreateTask] = "none"
          /\ \A q \in DOMAIN todo : todo'[q] \subseteq todo[q]
          /\ UNCHANGED <<request, exists, files, stored>>
      BY <2>0, <2>12 DEF LoseWorker, Alive, Running
    <3>2. losses' > 0
      BY <2>0, <2>12 DEF LoseWorker
    <3>3. StoredHaveRows'
      BY <2>0, <3>1, <3>2 DEF StoredHaveRows
    <3>4. OneWritten'
      BY <3>2 DEF OneWritten
    <3>5. CreateIsFromUrl'
      BY <2>0, <3>1 DEF CreateIsFromUrl
    <3>6. QED
      BY <3>3, <3>4, <3>5 DEF StoredBase
  <2>13. CASE \/ RestartWorker \/ BeginTerminate \/ EndTerminate \/ BreakTerminate
              \/ UNCHANGED intakeVars
    <3>1. UNCHANGED <<request, exists, files, stored, todo, place, losses>>
      BY <2>13 DEF RestartWorker, BeginTerminate, EndTerminate, BreakTerminate, intakeVars
    <3>2. QED
      BY <2>0, <2>1, <3>1
  <2>14. CASE DeleteSession
    <3>1. /\ exists' = "deleted"
          /\ files' = [f \in FileNo |-> IF files[f] = "written" THEN "written" ELSE "none"]
          /\ stored' = {f \in stored : files[f] \in {"none", "written"}}
          /\ UNCHANGED <<request, todo, place, losses>>
      BY <2>14 DEF DeleteSession
    <3>2. StoredHaveRows'
      BY <2>0, <3>1 DEF StoredHaveRows
    <3>3. OneWritten'
      BY <2>0, <3>1 DEF OneWritten
    <3>4. CreateIsFromUrl'
      BY <2>0, <3>1 DEF CreateIsFromUrl
    <3>5. QED
      BY <3>2, <3>3, <3>4 DEF StoredBase
  <2>15. ASSUME NEW f \in FileNo, CleanSource(f) \/ MarkCleaned(f) PROVE StoredBase'
    <3>1. /\ UNCHANGED <<request, exists, todo, place, losses>>
          /\ stored' \subseteq stored
          /\ \A g \in FileNo : files[g] # "none" => files'[g] # "none"
          /\ \A g \in FileNo : files'[g] = "written" <=> files[g] = "written"
      BY <2>0, <2>15 DEF CleanSource, MarkCleaned
    <3>2. QED
      BY <2>0, <2>1, <3>1
  <2>16. QED
    BY <1>2, <2>2, <2>3, <2>4, <2>5, <2>6, <2>7, <2>8, <2>9, <2>10, <2>11, <2>12, <2>13,
       <2>14, <2>15 DEF IntakeNext, TaskStep
<1>3. QED
  BY <1>1, <1>2, IntakeTypes, PublishersHaveOne, PTL DEF IntakeSpec

\* A file in the storage has a row, by which delete and cleanup reach it, unless the task
\* that stores the download is between the two or ended there: terminated, refused the row,
\* or lost with its worker (FileManager.create_from_url, post_delete_file).  True of any
\* number of files, and of a task that stores its download several times.
THEOREM StoredFilesHaveRows == IntakeSpec => []StoredHaveRows
BY RowsOfStored, PTL DEF StoredBase

\* Who publishes a task: the request the task that stores a download and those of an
\* upload, the task that stored it those of a download, and scan_file its scans.
Publisher(source, t) ==
    CASE t = CreateTask -> Client
      [] t.kind = "scan_file" -> IF source = "upload" THEN Client ELSE CreateTask
      [] t.kind = "perform_scan" -> ScanTask(t.file)

\* The publisher of each kind of task.
LEMMA Publishers ==
    ASSUME NEW source
    PROVE  /\ Publisher(source, CreateTask) = Client
           /\ \A f \in FileNo :
                Publisher(source, ScanTask(f)) = IF source = "upload" THEN Client ELSE CreateTask
           /\ \A f \in FileNo, a \in Scanner : Publisher(source, RowTask(f, a)) = ScanTask(f)
<1>1. /\ CreateTask.kind = "create"
      /\ \A f \in FileNo : ScanTask(f).kind = "scan_file"
      /\ \A f \in FileNo, a \in Scanner : RowTask(f, a).kind = "perform_scan"
      /\ \A f \in FileNo, a \in Scanner : RowTask(f, a).file = f
  BY DEF CreateTask, ScanTask, RowTask
<1>2. \A f \in FileNo :
        Publisher(source, ScanTask(f)) = IF source = "upload" THEN Client ELSE CreateTask
  BY <1>1 DEF Publisher
<1>3. \A f \in FileNo, a \in Scanner : Publisher(source, RowTask(f, a)) = ScanTask(f)
  BY <1>1 DEF Publisher
<1>4. Publisher(source, CreateTask) = Client
  BY <1>1 DEF Publisher
<1>5. QED
  BY <1>2, <1>3, <1>4

\* What a task is before it publishes.
Early == {"none", "queued", "running", "stored", "saved"}

\* As long as the worker is not lost, every task is published once: what is still to be
\* published is nowhere yet, its publisher is at it, and a task that has not come to
\* publishing has published nothing.
PublishedOnce ==
    losses = 0 =>
        /\ \A p \in IntakeTask \cup {Client} : \A t \in todo[p] :
              p = Publisher(request.source, t) /\ place[t] = "none"
        /\ \A p \in IntakeTask : todo[p] # {} => place[p] = "publishing"
        /\ \A p, t \in IntakeTask :
              p = Publisher(request.source, t) /\ place[p] \in Early => place[t] = "none"

\* ... and a task that waited when terminate read the TaskLog had an entry, as all have
\* that wait or run before, so that it is revoked or about to be.
WaitingAreRevoked ==
    /\ terminate.left # {} => terminate.stage = "revoking"
    /\ losses = 0 =>
         /\ up
         /\ terminate.stage = "idle" =>
              \A t \in IntakeTask : place[t] \in {"queued"} \cup Running => t \in log
         /\ \A t \in terminate.waiting :
              /\ place[t] # "none"
              /\ place[t] = "queued" /\ terminate.stage # "broken" =>
                   t \in revoked \cup sent \cup terminate.left

\* Without a loss every task is published once, by one publisher.
LEMMA EveryTaskOnce == IntakeSpec => []PublishedOnce
<1> USE DEF sessionVars, brokerVars, workerVars
<1>1. IntakeInit => PublishedOnce
  BY DEF IntakeInit, PublishedOnce
<1>2. ASSUME IntakeBase, CreateIsFromUrl, PublishedOnce, [IntakeNext]_intakeVars
      PROVE  PublishedOnce'
  <2> SUFFICES ASSUME losses' = 0
               PROVE  /\ \A p \in IntakeTask \cup {Client} : \A t \in todo'[p] :
                            p = Publisher(request'.source, t) /\ place'[t] = "none"
                      /\ \A p \in IntakeTask : todo'[p] # {} => place'[p] = "publishing"
                      /\ \A p, t \in IntakeTask :
                            /\ p = Publisher(request'.source, t)
                            /\ place'[p] \in Early
                            => place'[t] = "none"
    BY DEF PublishedOnce
  <2> DEFINE Good == /\ \A p \in IntakeTask \cup {Client} : \A t \in todo'[p] :
                            p = Publisher(request'.source, t) /\ place'[t] = "none"
                     /\ \A p \in IntakeTask : todo'[p] # {} => place'[p] = "publishing"
                     /\ \A p, t \in IntakeTask :
                           /\ p = Publisher(request'.source, t)
                           /\ place'[p] \in Early
                           => place'[t] = "none"
  <2>0. /\ losses \in Nat
        /\ place \in [IntakeTask -> {"none", "unsent", "gone", "dropped"} \cup Alive]
        /\ todo \in [IntakeTask \cup {Client} -> SUBSET IntakeTask]
        /\ CreateTask \in IntakeTask
        /\ Client \notin IntakeTask
        /\ 1 \in FileNo
        /\ \A f \in FileNo : ScanTask(f) \in IntakeTask /\ CreateTask # ScanTask(f)
        /\ \A f \in FileNo, a \in Scanner : RowTask(f, a) \in IntakeTask
        /\ request.source = "none" =>
             \A t \in IntakeTask : place[t] = "none" /\ \A p \in DOMAIN todo : todo[p] = {}
    BY <1>2, IntakeTasks, IntakeAssumption
       DEF IntakeBase, IntakeTypeOK, IntakeAssumption, FileNo, NothingYet
  \* A step that publishes nothing, sets nothing to be published, and leaves no task in an
  \* early place that it was not in, keeps the three facts.
  <2>1. ASSUME losses = 0, request' = request,
               \A p \in IntakeTask \cup {Client} : todo'[p] \subseteq todo[p],
               \A t \in IntakeTask : place[t] = "none" => place'[t] = "none",
               \A t \in IntakeTask : place'[t] \in Early => place[t] \in Early,
               \A t \in IntakeTask : todo'[t] # {} => place'[t] = place[t]
        PROVE  Good
    <3>1. \A p \in IntakeTask \cup {Client} : \A t \in todo'[p] :
            p = Publisher(request'.source, t) /\ place'[t] = "none"
      BY <1>2, <2>0, <2>1 DEF PublishedOnce
    <3>2. \A p \in IntakeTask : todo'[p] # {} => place'[p] = "publishing"
      BY <1>2, <2>0, <2>1 DEF PublishedOnce
    <3>3. \A p, t \in IntakeTask :
            p = Publisher(request'.source, t) /\ place'[p] \in Early => place'[t] = "none"
      BY <1>2, <2>0, <2>1 DEF PublishedOnce
    <3>4. QED
      BY <3>1, <3>2, <3>3
  <2>2. ASSUME NEW s \in BOOLEAN, NEW e \in BOOLEAN, Upload(s, e) PROVE Good
    <3>1. /\ \A t \in IntakeTask : place'[t] = "none"
          /\ \A p \in IntakeTask : todo'[p] = {}
          /\ todo'[Client] \subseteq {ScanTask(1)}
          /\ request'.source = "upload"
      BY <2>0, <2>2 DEF Upload, FollowUps
    <3>2. Publisher(request'.source, ScanTask(1)) = Client
      BY <2>0, <3>1, Publishers
    <3>3. QED
      BY <2>0, <3>1, <3>2
  <2>3. ASSUME NEW s \in BOOLEAN, NEW e \in BOOLEAN, FromUrl(s, e) \/ FromPath(s, e) PROVE Good
    <3>1. /\ \A t \in IntakeTask : place'[t] = "none"
          /\ \A p \in IntakeTask : todo'[p] = {}
          /\ todo'[Client] \subseteq {CreateTask}
      BY <2>0, <2>3 DEF FromUrl, FromPath
    <3>2. Publisher(request'.source, CreateTask) = Client
      BY Publishers
    <3>3. QED
      BY <2>0, <3>1, <3>2
  <2>4. ASSUME NEW p \in DOMAIN todo, PublishNext(p) PROVE Good
    <3>1. PICK u \in todo[p] :
            /\ \E where \in {"queued", "unsent"} : place' = [place EXCEPT ![u] = where]
            /\ \A q \in DOMAIN todo : todo'[q] \subseteq todo[q]
            /\ u \notin todo'[p]
            /\ request' = request /\ losses' = losses
      BY <2>0, <2>4 DEF PublishNext
    <3>2. /\ u \in IntakeTask
          /\ p = Publisher(request.source, u) /\ place[u] = "none"
          /\ p \in IntakeTask => place[p] = "publishing"
      BY <1>2, <2>0, <3>1 DEF PublishedOnce
    <3>3. \A q \in IntakeTask \cup {Client} : \A t \in todo'[q] :
            q = Publisher(request'.source, t) /\ place'[t] = "none"
      BY <1>2, <2>0, <3>1, <3>2 DEF PublishedOnce
    <3>4. \A q \in IntakeTask : todo'[q] # {} => place'[q] = "publishing"
      BY <1>2, <2>0, <3>1, <3>2 DEF PublishedOnce
    <3>5. \A q, t \in IntakeTask :
            q = Publisher(request'.source, t) /\ place'[q] \in Early => place'[t] = "none"
      <4> SUFFICES ASSUME NEW q \in IntakeTask, NEW t \in IntakeTask,
                          q = Publisher(request.source, t), place'[q] \in Early
                   PROVE  place'[t] = "none"
        BY <3>1
      <4>1. CASE t = u
        BY <2>0, <3>1, <3>2, <4>1 DEF Early
      <4>2. CASE t # u /\ q = u
        <5>1. place[t] = "none"
          <6>1. place[q] \in Early /\ losses = 0
            BY <3>1, <3>2, <4>2 DEF Early
          <6>2. QED
            BY <1>2, <6>1 DEF PublishedOnce
        <5>2. QED
          BY <2>0, <3>1, <4>2, <5>1
      <4>3. CASE t # u /\ q # u
        BY <1>2, <2>0, <3>1, <3>2, <4>3 DEF PublishedOnce
      <4>4. QED
        BY <4>1, <4>2, <4>3
    <3>6. QED
      BY <3>3, <3>4, <3>5
  <2>5. ASSUME NEW u \in IntakeTask,
               \/ StartTask(u) \/ Acknowledged(u) \/ EndPublishing(u)
               \/ TerminateTask(u) \/ Purge(u) \/ RevokeTask(u) \/ DeliverRevoke(u)
        PROVE  Good
    <3>1. /\ losses = 0 /\ request' = request
          /\ \A t \in IntakeTask : place[t] = "none" => place'[t] = "none"
          /\ \A t \in IntakeTask : place'[t] \in Early => place[t] \in Early
          /\ \A p \in IntakeTask \cup {Client} : todo'[p] \subseteq todo[p]
          /\ \A t \in IntakeTask : todo'[t] # {} => place'[t] = place[t]
      BY <1>2, <2>0, <2>5 DEF StartTask, Acknowledged, EndPublishing, TerminateTask, Purge,
                        RevokeTask, DeliverRevoke, Over, Running, Early, PublishedOnce
    <3>2. QED
      BY <2>1, <3>1
  <2>6. CASE Refuse \/ Store \/ InsertRow \/ FailInsert \/ RefuseType
    <3>1. /\ losses = 0 /\ request' = request
          /\ \A t \in IntakeTask : place[t] = "none" => place'[t] = "none"
          /\ \A t \in IntakeTask : place'[t] \in Early => place[t] \in Early
          /\ todo' = todo
          /\ \A t \in IntakeTask : todo'[t] # {} => place'[t] = place[t]
      BY <1>2, <2>0, <2>6 DEF Refuse, Store, InsertRow, FailInsert, RefuseType, Over, Early,
                              PublishedOnce
    <3>2. QED
      BY <2>1, <3>1
  <2>7. CASE DropSource
    <3>0. place[CreateTask] = "saved" /\ losses = 0 /\ request' = request
      BY <2>7 DEF DropSource
    <3>1. CASE exists # "there"
      <4>1. /\ \A t \in IntakeTask : place[t] = "none" => place'[t] = "none"
            /\ \A t \in IntakeTask : place'[t] \in Early => place[t] \in Early
            /\ todo' = todo
            /\ \A t \in IntakeTask : todo'[t] # {} => place'[t] = place[t]
        BY <1>2, <2>0, <2>7, <3>0, <3>1 DEF DropSource, Over, Early, PublishedOnce
      <4>2. QED
        BY <2>1, <3>0, <4>1
    <3>2. CASE exists = "there"
      <4>1. PICK f \in FileNo : todo' = [todo EXCEPT ![CreateTask] = FollowUps(f, request.scan)]
        BY <1>2, <2>7, <3>0, <3>2, IntakeAssumption, NewestIsFile
           DEF DropSource, IntakeBase, SavedHasRow
      <4>2. place' = [place EXCEPT ![CreateTask] = "publishing"]
        BY <2>7, <3>2 DEF DropSource
      <4>3. /\ Publisher(request.source, ScanTask(f)) = CreateTask
            /\ place[ScanTask(f)] = "none"
            /\ ScanTask(f) # CreateTask
        BY <1>2, <2>0, <3>0, Publishers DEF CreateIsFromUrl, PublishedOnce, Early
      <4>4. \A q \in IntakeTask \cup {Client} : \A t \in todo'[q] :
              q = Publisher(request'.source, t) /\ place'[t] = "none"
        BY <1>2, <2>0, <3>0, <4>1, <4>2, <4>3 DEF PublishedOnce, FollowUps
      <4>5. \A q \in IntakeTask : todo'[q] # {} => place'[q] = "publishing"
        BY <1>2, <2>0, <3>0, <4>1, <4>2 DEF PublishedOnce
      <4>6. \A q, t \in IntakeTask :
              q = Publisher(request'.source, t) /\ place'[q] \in Early => place'[t] = "none"
        BY <1>2, <2>0, <3>0, <4>2 DEF PublishedOnce, Early
      <4>7. QED
        BY <4>4, <4>5, <4>6
    <3>3. QED
      BY <3>1, <3>2
  <2>8. ASSUME NEW f \in FileNo, SkipFile(f) PROVE Good
    <3>1. /\ losses = 0 /\ request' = request
          /\ \A t \in IntakeTask : place[t] = "none" => place'[t] = "none"
          /\ \A t \in IntakeTask : place'[t] \in Early => place[t] \in Early
          /\ todo' = todo
          /\ \A t \in IntakeTask : todo'[t] # {} => place'[t] = place[t]
      BY <1>2, <2>0, <2>8 DEF SkipFile, Over, Early, PublishedOnce
    <3>2. QED
      BY <2>1, <3>1
  <2>9. ASSUME NEW f \in FileNo, CreateRows(f) PROVE Good
    <3>1. /\ losses = 0 /\ request' = request /\ place[ScanTask(f)] = "running"
          /\ place' = [place EXCEPT ![ScanTask(f)] = "publishing"]
          /\ todo' = [todo EXCEPT ![ScanTask(f)] = {RowTask(f, a) : a \in Scanner}]
      BY <2>9 DEF CreateRows
    <3>2. \A a \in Scanner : /\ Publisher(request.source, RowTask(f, a)) = ScanTask(f)
                             /\ place[RowTask(f, a)] = "none"
                             /\ RowTask(f, a) # ScanTask(f)
      BY <1>2, <2>0, <3>1, Publishers, IntakeTasks DEF PublishedOnce, Early
    <3>3. \A q \in IntakeTask \cup {Client} : \A t \in todo'[q] :
            q = Publisher(request'.source, t) /\ place'[t] = "none"
      BY <1>2, <2>0, <3>1, <3>2 DEF PublishedOnce
    <3>4. \A q \in IntakeTask : todo'[q] # {} => place'[q] = "publishing"
      BY <1>2, <2>0, <3>1 DEF PublishedOnce
    <3>5. \A q, t \in IntakeTask :
            q = Publisher(request'.source, t) /\ place'[q] \in Early => place'[t] = "none"
      BY <1>2, <2>0, <3>1 DEF PublishedOnce, Early
    <3>6. QED
      BY <3>3, <3>4, <3>5
  <2>10. ASSUME NEW f \in FileNo, NEW a \in Scanner, AnswerRow(f, a) PROVE Good
    <3>1. /\ losses = 0 /\ request' = request
          /\ \A t \in IntakeTask : place[t] = "none" => place'[t] = "none"
          /\ \A t \in IntakeTask : place'[t] \in Early => place[t] \in Early
          /\ todo' = todo
          /\ \A t \in IntakeTask : todo'[t] # {} => place'[t] = place[t]
      BY <1>2, <2>0, <2>10 DEF AnswerRow, Over, Early, PublishedOnce
    <3>2. QED
      BY <2>1, <3>1
  <2>11. CASE LoseWorker
    BY <2>0, <2>11 DEF LoseWorker
  <2>12. CASE \/ RestartWorker \/ BeginTerminate \/ EndTerminate \/ DeleteSession
              \/ UNCHANGED intakeVars
              \/ \E f \in FileNo : CleanSource(f) \/ MarkCleaned(f)
    <3>1. losses = 0 /\ request' = request /\ place' = place /\ todo' = todo
      BY <2>12 DEF RestartWorker, BeginTerminate, EndTerminate, DeleteSession, intakeVars,
                   CleanSource, MarkCleaned
    <3>2. QED
      BY <2>1, <3>1
  <2>13. CASE BreakTerminate
    <3>1. /\ losses = 0 /\ request' = request
          /\ \A t \in IntakeTask : place[t] = "none" => place'[t] = "none"
          /\ \A t \in IntakeTask : place'[t] \in Early => place[t] \in Early
          /\ \A p \in IntakeTask \cup {Client} : todo'[p] \subseteq todo[p]
          /\ \A t \in IntakeTask : todo'[t] # {} => place'[t] = place[t]
      BY <2>13 DEF BreakTerminate
    <3>2. QED
      BY <2>1, <3>1
  <2>14. QED
    BY <1>2, <2>2, <2>3, <2>4, <2>5, <2>6, <2>7, <2>8, <2>9, <2>10, <2>11, <2>12, <2>13
       DEF IntakeNext, TaskStep
<1>3. QED
  BY <1>1, <1>2, IntakeTypes, RowsOfStored, PTL DEF IntakeSpec, StoredBase


\* Whatever waited when terminate read the TaskLog is revoked or about to be.
LEMMA WaitingTasksAreRevoked == IntakeSpec => []WaitingAreRevoked
<1> USE DEF sessionVars, brokerVars, workerVars
<1>1. IntakeInit => WaitingAreRevoked
  BY DEF IntakeInit, WaitingAreRevoked, Running
<1>2. ASSUME IntakeBase, PublishedOnce, WaitingAreRevoked, [IntakeNext]_intakeVars
      PROVE  WaitingAreRevoked'
  <2>0. /\ losses \in Nat
        /\ place \in [IntakeTask -> {"none", "unsent", "gone", "dropped"} \cup Alive]
        /\ todo \in [IntakeTask \cup {Client} -> SUBSET IntakeTask]
        /\ terminate \in [stage : {"idle", "revoking", "done", "broken"},
                          left : SUBSET IntakeTask, waiting : SUBSET IntakeTask]
        /\ CreateTask \in IntakeTask
        /\ \A f \in FileNo : ScanTask(f) \in IntakeTask
        /\ \A f \in FileNo, a \in Scanner : RowTask(f, a) \in IntakeTask
    BY <1>2, IntakeTasks, IntakeAssumption
       DEF IntakeBase, IntakeTypeOK, IntakeAssumption
  \* A step that has no task waiting or running that did not before, and takes no entry and
  \* no revocation from one that waits.
  <2>1. ASSUME terminate' = terminate, losses' = losses, up' = up,
               \A t \in IntakeTask : place[t] # "none" => place'[t] # "none",
               \A t \in IntakeTask : place'[t] \in {"queued"} \cup Running =>
                  /\ place[t] \in {"queued"} \cup Running
                  /\ t \in log => t \in log',
               \A t \in IntakeTask : place'[t] = "queued" =>
                  /\ place[t] = "queued"
                  /\ t \in revoked \cup sent => t \in revoked' \cup sent'
        PROVE  WaitingAreRevoked'
    BY <1>2, <2>0, <2>1 DEF WaitingAreRevoked
  <2>2. ASSUME NEW s \in BOOLEAN, NEW e \in BOOLEAN,
               Upload(s, e) \/ FromUrl(s, e) \/ FromPath(s, e)
        PROVE  WaitingAreRevoked'
    BY <2>0, <2>1, <2>2 DEF Upload, FromUrl, FromPath
  <2>3. ASSUME NEW p \in DOMAIN todo, PublishNext(p) PROVE WaitingAreRevoked'
    <3>1. PICK u \in todo[p] : /\ log' = log \cup {u}
                               /\ \E where \in {"queued", "unsent"} :
                                     place' = [place EXCEPT ![u] = where]
      BY <2>3 DEF PublishNext, Register
    <3>2. /\ u \in IntakeTask
          /\ losses = 0 => place[u] = "none"
          /\ UNCHANGED <<terminate, losses, up, revoked, sent>>
      BY <1>2, <2>0, <2>3, <3>1 DEF PublishNext, PublishedOnce
    <3>3. QED
      BY <1>2, <2>0, <3>1, <3>2 DEF WaitingAreRevoked, Running
  <2>4. ASSUME NEW u \in IntakeTask,
               \/ StartTask(u) \/ Acknowledged(u) \/ EndPublishing(u) \/ DeliverRevoke(u)
               \/ Purge(u) \/ TerminateTask(u)
        PROVE  WaitingAreRevoked'
    <3>1. UNCHANGED <<terminate, losses, up>>
      BY <2>4 DEF StartTask, Acknowledged, EndPublishing, DeliverRevoke, Purge, TerminateTask
    <3>2. \A t \in IntakeTask :
            /\ place[t] # "none" => place'[t] # "none"
            /\ place'[t] \in {"queued"} \cup Running =>
                  /\ place[t] \in {"queued"} \cup Running
                  /\ t \in log => t \in log'
      BY <2>0, <2>4 DEF StartTask, Acknowledged, EndPublishing, DeliverRevoke, Purge,
                        TerminateTask, Over, Running
    <3>3. \A t \in IntakeTask : place'[t] = "queued" =>
            /\ place[t] = "queued"
            /\ t \in revoked \cup sent => t \in revoked' \cup sent'
      BY <2>0, <2>4 DEF StartTask, Acknowledged, EndPublishing, DeliverRevoke, Purge,
                        TerminateTask, Broadcast, Over, Running
    <3>4. QED
      BY <2>1, <3>1, <3>2, <3>3
  <2>5. CASE Refuse \/ Store \/ InsertRow \/ FailInsert \/ RefuseType \/ DropSource
    BY <2>0, <2>1, <2>5 DEF Refuse, Store, InsertRow, FailInsert, RefuseType, DropSource, Over,
                            Running
  <2>6. ASSUME NEW f \in FileNo, SkipFile(f) \/ CreateRows(f) PROVE WaitingAreRevoked'
    BY <2>0, <2>1, <2>6 DEF SkipFile, CreateRows, Over, Running
  <2>7. ASSUME NEW f \in FileNo, NEW a \in Scanner, AnswerRow(f, a) PROVE WaitingAreRevoked'
    BY <2>0, <2>1, <2>7 DEF AnswerRow, Over, Running
  <2>8. CASE LoseWorker
    BY <1>2, <2>0, <2>8 DEF LoseWorker, WaitingAreRevoked
  <2>9. CASE RestartWorker
    BY <1>2, <2>0, <2>9 DEF RestartWorker, WaitingAreRevoked
  <2>10. CASE BeginTerminate
    <3>1. /\ terminate'.left = log
          /\ terminate'.waiting = {t \in IntakeTask : place[t] = "queued"}
          /\ terminate'.stage = "revoking"
          /\ UNCHANGED <<place, log, revoked, sent, losses, up>>
          /\ terminate.stage = "idle"
      BY <2>10 DEF BeginTerminate
    <3>2. losses = 0 => up /\ \A t \in IntakeTask : place[t] = "queued" => t \in log
      BY <1>2, <3>1 DEF WaitingAreRevoked
    <3>3. QED
      BY <2>0, <3>1, <3>2 DEF WaitingAreRevoked
  <2>11. ASSUME NEW u \in IntakeTask, RevokeTask(u) PROVE WaitingAreRevoked'
    <3>1. /\ terminate'.left = terminate.left \ {u}
          /\ terminate'.stage = terminate.stage /\ terminate'.waiting = terminate.waiting
          /\ terminate.stage = "revoking"
          /\ UNCHANGED <<losses, up>>
      BY <1>2, <2>0, <2>11 DEF RevokeTask, WaitingAreRevoked
    <3>2. /\ UNCHANGED <<place, revoked>>
          /\ sent \subseteq sent'
          /\ up => u \in sent'
      BY <2>0, <2>11 DEF RevokeTask, Broadcast
    <3>3. QED
      BY <1>2, <2>0, <3>1, <3>2 DEF WaitingAreRevoked
  <2>12. CASE EndTerminate
    <3>1. /\ terminate'.left = terminate.left /\ terminate'.waiting = terminate.waiting
          /\ terminate'.stage = "done" /\ terminate.left = {} /\ terminate.stage = "revoking"
          /\ UNCHANGED <<place, log, revoked, sent, losses, up>>
      BY <2>0, <2>12 DEF EndTerminate
    <3>2. QED
      BY <1>2, <2>0, <3>1 DEF WaitingAreRevoked
  <2>13. CASE BreakTerminate
    <3>1. /\ terminate'.left = {} /\ terminate'.waiting = terminate.waiting
          /\ terminate'.stage = "broken"
          /\ UNCHANGED <<losses, up, place>>
      BY <2>0, <2>13 DEF BreakTerminate
    <3>2. QED
      BY <1>2, <2>0, <3>1 DEF WaitingAreRevoked
  <2>14. CASE \/ DeleteSession \/ UNCHANGED intakeVars
              \/ \E f \in FileNo : CleanSource(f) \/ MarkCleaned(f)
    <3>1. UNCHANGED <<terminate, losses, up, place, log, revoked, sent>>
      BY <2>14 DEF DeleteSession, intakeVars, CleanSource, MarkCleaned
    <3>2. QED
      BY <2>1, <3>1
  <2>15. QED
    BY <1>2, <2>2, <2>3, <2>4, <2>5, <2>6, <2>7, <2>8, <2>9, <2>10, <2>11, <2>12, <2>13, <2>14
       DEF IntakeNext, TaskStep
<1>3. QED
  BY <1>1, <1>2, IntakeTypes, EveryTaskOnce, PTL DEF IntakeSpec

\* Once terminate has answered, no task that waited when it read the TaskLog starts, as
\* long as the worker is not lost and has heard of the revoke (SessionViewSet.terminate,
\* TaskLog.terminate).
THEOREM TerminatedTasksStayDown == IntakeSpec => TerminatedStayDown
<1> USE DEF sessionVars, brokerVars, workerVars
<1>1. ASSUME IntakeBase, WaitingAreRevoked, [IntakeNext]_intakeVars
      PROVE  [\A t \in terminate.waiting :
                terminate.stage = "done" /\ place[t] = "queued" /\ place'[t] = "running"
                  => losses > 0 \/ t \in sent]_intakeVars
  <2> SUFFICES ASSUME NEW t \in terminate.waiting, IntakeNext, losses = 0,
                      t \notin sent, terminate.stage = "done", place[t] = "queued",
                      place'[t] = "running"
               PROVE  FALSE
    BY <1>1, IntakeAssumption DEF IntakeBase, IntakeTypeOK, IntakeAssumption
  <2>0. /\ place \in [IntakeTask -> {"none", "unsent", "gone", "dropped"} \cup Alive]
        /\ todo \in [IntakeTask \cup {Client} -> SUBSET IntakeTask]
        /\ t \in IntakeTask
        /\ t \in revoked
    BY <1>1 DEF IntakeBase, IntakeTypeOK, WaitingAreRevoked
  <2>1. \A u \in IntakeTask : ~ StartTask(u)
    BY <2>0 DEF StartTask
  <2>2. \A p \in DOMAIN todo : ~ PublishNext(p)
    BY <2>0 DEF PublishNext
  <2>3. \A u \in IntakeTask : /\ ~ Acknowledged(u) /\ ~ EndPublishing(u)
                              /\ ~ DeliverRevoke(u) /\ ~ Purge(u)
    BY <2>0 DEF Acknowledged, EndPublishing, DeliverRevoke, Purge, Over
  <2>4. /\ ~ Refuse /\ ~ Store /\ ~ InsertRow /\ ~ FailInsert /\ ~ RefuseType
        /\ ~ DropSource
    BY <2>0, IntakeTasks DEF Refuse, Store, InsertRow, FailInsert, RefuseType, DropSource, Over
  <2>5. \A f \in FileNo : ~ SkipFile(f) /\ ~ CreateRows(f)
    BY <2>0, IntakeTasks DEF SkipFile, CreateRows, Over
  <2>6. \A f \in FileNo, a \in Scanner : ~ AnswerRow(f, a)
    BY <2>0, IntakeTasks DEF AnswerRow, Over
  <2>7. ~ LoseWorker
    BY <2>0 DEF LoseWorker, Alive
  <2>8. place' # place
    OBVIOUS
  <2>9. QED
    BY <2>1, <2>2, <2>3, <2>4, <2>5, <2>6, <2>7, <2>8
       DEF IntakeNext, TaskStep, Upload, FromUrl, FromPath, RestartWorker, BeginTerminate,
           EndTerminate, BreakTerminate, RevokeTask, TerminateTask, DeleteSession,
           CleanSource, MarkCleaned
<1>2. QED
  BY <1>1, IntakeTypes, WaitingTasksAreRevoked, PTL DEF IntakeSpec, TerminatedStayDown

-----------------------------------------------------------------------------
(* The intake of a session: nothing is left to do only at 100 *)

\* The session comes with the request, and its files and scans after it.
Requested ==
    /\ exists = "none" <=> request.source = "none"
    /\ exists = "none" => /\ \A f \in FileNo : files[f] = "none"
                          /\ \A f \in FileNo, a \in Scanner : rows[<<f, a>>] = "none"
                          /\ cleaning = {}

\* No scan of the file has begun.
NoRows(f) == \A a \in Scanner : rows[<<f, a>>] = "none"

\* scan_file and the scans of a file.
TasksOf(f) == {ScanTask(f)} \cup {RowTask(f, a) : a \in Scanner}

\* Nothing is done about a file before it has a row; what cleanup_disk is at has one.
RowsFirst ==
    exists = "there" =>
        \A f \in FileNo :
            /\ files[f] \in {"none", "written"} =>
                  /\ NoRows(f)
                  /\ \A t \in TasksOf(f) : /\ place[t] = "none"
                                           /\ \A p \in IntakeTask \cup {Client} : t \notin todo[p]
            /\ f \in cleaning => files[f] = "valid"

\* The source of an upload stays until cleanup_disk deletes it.
UploadsAreStored ==
    exists = "there" /\ request.source = "upload" =>
        \A f \in Valid(files) : f \in stored \/ f \in cleaning \/ files[f] = "cleaned"

\* One run of the task stores one file.
OneDownload ==
    losses = 0 /\ request.source # "upload" =>
        /\ place[CreateTask] \in {"none", "queued", "running", "stored"} => Valid(files) = {}
        /\ place[CreateTask] = "saved" => \A f, g \in Valid(files) : f = g

\* What the broker and the worker do leaves the request and the session alone.
LEMMA BrokerSteps ==
    ASSUME \/ \E t \in IntakeTask : \/ StartTask(t) \/ Acknowledged(t) \/ EndPublishing(t)
                                    \/ RevokeTask(t) \/ TerminateTask(t) \/ Purge(t)
                                    \/ DeliverRevoke(t)
           \/ \E p \in DOMAIN todo : PublishNext(p)
           \/ \E f \in FileNo : SkipFile(f)
           \/ FailInsert
           \/ LoseWorker \/ RestartWorker \/ BeginTerminate \/ EndTerminate \/ BreakTerminate
           \/ UNCHANGED intakeVars
    PROVE  UNCHANGED <<request, exists, total, files, stored, rows, cleaning>>
BY DEF sessionVars, brokerVars, workerVars, intakeVars, StartTask, Acknowledged, EndPublishing,
       RevokeTask, TerminateTask, Purge, DeliverRevoke, PublishNext, SkipFile, FailInsert,
       LoseWorker, RestartWorker, BeginTerminate, EndTerminate, BreakTerminate

\* There is no session, and nothing of one, before the request.
LEMMA RequestFirst == IntakeSpec => []Requested
<1> USE DEF sessionVars, brokerVars, workerVars
<1>1. IntakeInit => Requested
  <2> SUFFICES ASSUME IntakeInit PROVE Requested
    OBVIOUS
  <2>1. \A f \in FileNo, a \in Scanner : rows[<<f, a>>] = "none"
    BY DEF IntakeInit
  <2>2. QED
    BY <2>1 DEF IntakeInit, Requested
<1>2. ASSUME IntakeBase, CreateIsFromUrl, Requested, [IntakeNext]_intakeVars
      PROVE  Requested'
  <2>0. /\ exists \in {"none", "there", "deleted"}
        /\ CreateTask \in IntakeTask
        /\ \A f \in FileNo : ScanTask(f) \in IntakeTask
        /\ \A f \in FileNo, a \in Scanner : RowTask(f, a) \in IntakeTask
        /\ exists = "none" => \A t \in IntakeTask : place[t] = "none"
    BY <1>2, IntakeTasks DEF IntakeBase, IntakeTypeOK, NothingYet, Requested
  <2>1. ASSUME NEW s \in BOOLEAN, NEW e \in BOOLEAN,
               Upload(s, e) \/ FromUrl(s, e) \/ FromPath(s, e)
        PROVE  Requested'
    BY <2>1 DEF Upload, FromUrl, FromPath, Requested
  <2>2. CASE Refuse \/ Store \/ InsertRow \/ RefuseType \/ DropSource
    BY <1>2, <2>0, <2>2 DEF Refuse, Store, InsertRow, RefuseType, DropSource, Requested
  <2>3. ASSUME NEW f \in FileNo, CreateRows(f) PROVE Requested'
    BY <1>2, <2>0, <2>3 DEF CreateRows, Requested
  <2>4. ASSUME NEW f \in FileNo, NEW a \in Scanner, AnswerRow(f, a) PROVE Requested'
    BY <1>2, <2>0, <2>4 DEF AnswerRow, Requested
  <2>5. CASE DeleteSession
    BY <1>2, <2>5 DEF DeleteSession, Requested
  <2>6. ASSUME NEW f \in FileNo, CleanSource(f) \/ MarkCleaned(f) PROVE Requested'
    <3>1. /\ exists' = exists /\ request' = request /\ rows' = rows
          /\ files[f] = "none" => cleaning' \subseteq cleaning
          /\ \A g \in FileNo : files[g] = "none" => files'[g] = "none"
      BY <1>2, <2>6 DEF CleanSource, MarkCleaned, IntakeBase, IntakeTypeOK
    <3>2. QED
      BY <1>2, <3>1 DEF Requested
  <2>7. CASE UNCHANGED <<request, exists, total, files, stored, rows, cleaning>>
    BY <1>2, <2>7 DEF Requested
  <2>8. QED
    BY <1>2, <2>1, <2>2, <2>3, <2>4, <2>5, <2>6, <2>7, BrokerSteps DEF IntakeNext, TaskStep
<1>3. QED
  BY <1>1, <1>2, IntakeTypes, RowsOfStored, PTL DEF IntakeSpec, StoredBase

\* Only cleanup_disk takes the source of an upload.
LEMMA UploadsStayStored == IntakeSpec => []UploadsAreStored
<1> USE DEF sessionVars, brokerVars, workerVars
<1>1. IntakeInit => UploadsAreStored
  BY DEF IntakeInit, UploadsAreStored
<1>2. ASSUME IntakeBase, CreateIsFromUrl, Requested, UploadsAreStored, [IntakeNext]_intakeVars
      PROVE  UploadsAreStored'
  <2>0. /\ files \in [FileNo -> {"none", "written", "valid", "refused", "cleaned"}]
        /\ stored \subseteq FileNo
        /\ place[CreateTask] = "none" \/ request.source = "url"
        /\ exists = "none" <=> request.source = "none"
        /\ exists = "none" => \A f \in FileNo : files[f] = "none"
    BY <1>2 DEF IntakeBase, IntakeTypeOK, CreateIsFromUrl, Requested
  <2>1. ASSUME NEW s \in BOOLEAN, NEW e \in BOOLEAN,
               Upload(s, e) \/ FromUrl(s, e) \/ FromPath(s, e)
        PROVE  UploadsAreStored'
    BY <2>0, <2>1 DEF Upload, FromUrl, FromPath, UploadsAreStored, Valid
  <2>2. CASE Refuse \/ Store \/ InsertRow \/ RefuseType \/ DropSource
    BY <2>0, <2>2 DEF Refuse, Store, InsertRow, RefuseType, DropSource, UploadsAreStored
  <2>3. ASSUME NEW f \in FileNo, CreateRows(f) PROVE UploadsAreStored'
    BY <1>2, <2>3 DEF CreateRows, UploadsAreStored, Valid
  <2>4. ASSUME NEW f \in FileNo, NEW a \in Scanner, AnswerRow(f, a) PROVE UploadsAreStored'
    BY <1>2, <2>4 DEF AnswerRow, UploadsAreStored, Valid
  <2>5. CASE DeleteSession
    BY <2>5 DEF DeleteSession, UploadsAreStored
  <2>6. ASSUME NEW f \in FileNo, CleanSource(f) PROVE UploadsAreStored'
    BY <1>2, <2>0, <2>6 DEF CleanSource, UploadsAreStored, Valid
  <2>7. ASSUME NEW f \in FileNo, MarkCleaned(f) PROVE UploadsAreStored'
    BY <1>2, <2>0, <2>7 DEF MarkCleaned, UploadsAreStored, Valid
  <2>8. CASE UNCHANGED <<request, exists, total, files, stored, rows, cleaning>>
    BY <1>2, <2>8 DEF UploadsAreStored, Valid
  <2>9. QED
    BY <1>2, <2>1, <2>2, <2>3, <2>4, <2>5, <2>6, <2>7, <2>8, BrokerSteps DEF IntakeNext, TaskStep
<1>3. QED
  BY <1>1, <1>2, IntakeTypes, RowsOfStored, RequestFirst, PTL DEF IntakeSpec, StoredBase


\* The row of a file comes before its tasks and its scans.
LEMMA RowsComeFirst == IntakeSpec => []RowsFirst
<1> USE DEF sessionVars, brokerVars, workerVars
<1>1. IntakeInit => RowsFirst
  BY DEF IntakeInit, RowsFirst
<1>2. ASSUME IntakeBase, Requested, CreateIsFromUrl, RowsFirst, [IntakeNext]_intakeVars
      PROVE  RowsFirst'
  <2>0. /\ place \in [IntakeTask -> {"none", "unsent", "gone", "dropped"} \cup Alive]
        /\ todo \in [IntakeTask \cup {Client} -> SUBSET IntakeTask]
        /\ files \in [FileNo -> {"none", "written", "valid", "refused", "cleaned"}]
        /\ exists \in {"none", "there", "deleted"}
        /\ rows \in [FileNo \X Scanner -> {"none", "pending", "answered"}]
        /\ cleaning \subseteq FileNo
        /\ CreateTask \in IntakeTask
        /\ Client \notin IntakeTask
        /\ 1 \in FileNo
        /\ \A f \in FileNo : TasksOf(f) \subseteq IntakeTask /\ CreateTask \notin TasksOf(f)
        /\ \A f, g \in FileNo : f # g => TasksOf(f) \cap TasksOf(g) = {}
        /\ \A f \in FileNo : ScanTask(f) \in TasksOf(f)
        /\ \A f \in FileNo, a \in Scanner : RowTask(f, a) \in TasksOf(f)
        /\ request.source = "none" =>
             \A t \in IntakeTask : place[t] = "none" /\ \A p \in DOMAIN todo : todo[p] = {}
    BY <1>2, IntakeTasks, IntakeAssumption
       DEF IntakeBase, IntakeTypeOK, IntakeAssumption, FileNo, NothingYet, TasksOf
  \* A step of the broker or the worker that sets nothing to be published and publishes
  \* nothing.
  <2>1. ASSUME UNCHANGED <<exists, files, rows, cleaning>>,
               \A p \in IntakeTask \cup {Client} : todo'[p] \subseteq todo[p],
               \A t \in IntakeTask : place[t] = "none" => place'[t] = "none"
        PROVE  RowsFirst'
    BY <1>2, <2>0, <2>1 DEF RowsFirst, NoRows
  <2>2. ASSUME NEW s \in BOOLEAN, NEW e \in BOOLEAN,
               Upload(s, e) \/ FromUrl(s, e) \/ FromPath(s, e)
        PROVE  RowsFirst'
    <3>1. /\ exists = "none" /\ rows' = rows /\ cleaning' = cleaning
          /\ \A t \in IntakeTask : place'[t] = "none"
          /\ \A p \in IntakeTask : todo'[p] = {}
          /\ \A f \in FileNo : files'[f] # "valid" => TasksOf(f) \cap todo'[Client] = {}
      BY <1>2, <2>0, <2>2 DEF Upload, FollowUps, FromUrl, FromPath, Requested
    <3>2. QED
      BY <1>2, <2>0, <3>1 DEF RowsFirst, NoRows, Requested
  <2>3. ASSUME NEW p \in DOMAIN todo, PublishNext(p) PROVE RowsFirst'
    <3>1. PICK u \in todo[p] :
            /\ \E where \in {"queued", "unsent"} : place' = [place EXCEPT ![u] = where]
            /\ \A q \in DOMAIN todo : todo'[q] \subseteq todo[q]
            /\ UNCHANGED <<exists, files, rows, cleaning>>
      BY <2>0, <2>3, SMTT(20) DEF PublishNext
    <3>2. QED
      BY <1>2, <2>0, <3>1 DEF RowsFirst, NoRows
  <2>4. ASSUME NEW u \in IntakeTask,
               \/ StartTask(u) \/ Acknowledged(u) \/ EndPublishing(u)
               \/ TerminateTask(u) \/ Purge(u) \/ RevokeTask(u) \/ DeliverRevoke(u)
        PROVE  RowsFirst'
    BY <2>0, <2>1, <2>4 DEF StartTask, Acknowledged, EndPublishing, TerminateTask, Purge,
                            RevokeTask, DeliverRevoke, Over, Running
  <2>5. CASE Refuse \/ Store \/ InsertRow \/ RefuseType
    <3>1. PICK f \in FileNo :
            /\ files[f] \in {"none", "written"}
            /\ \E status \in {"refused", "written", "valid"} :
                  files' = [files EXCEPT ![f] = status]
            /\ UNCHANGED <<exists, rows, todo, cleaning>>
      BY <2>5 DEF Refuse, Store, InsertRow, RefuseType, Unused, LastWritten
    <3>2. \A t \in IntakeTask : place[t] = "none" => place'[t] = "none"
      BY <2>0, <2>5 DEF Refuse, Store, InsertRow, RefuseType, Over
    <3>3. QED
      BY <1>2, <2>0, <3>1, <3>2 DEF RowsFirst, NoRows
  <2>6. CASE DropSource
    <3>1. CASE exists # "there"
      BY <2>0, <2>1, <2>6, <3>1 DEF DropSource, Over
    <3>2. CASE exists = "there"
      <4>1. PICK f \in FileNo : /\ todo' = [todo EXCEPT ![CreateTask] = FollowUps(f, request.scan)]
                                /\ f \in Valid(files)
        BY <1>2, <2>6, <3>2, IntakeAssumption, NewestIsFile
           DEF DropSource, IntakeBase, SavedHasRow
      <4>2. /\ place' = [place EXCEPT ![CreateTask] = "publishing"]
            /\ UNCHANGED <<exists, files, rows, cleaning>>
        BY <2>6, <3>2 DEF DropSource
      <4>3. \A g \in FileNo, p \in IntakeTask \cup {Client} : \A t \in TasksOf(g) :
              files[g] \in {"none", "written"} /\ t \notin todo[p] => t \notin todo'[p]
        BY <2>0, <4>1 DEF FollowUps, Valid
      <4>4. QED
        BY <1>2, <2>0, <3>2, <4>2, <4>3 DEF RowsFirst, NoRows
    <3>3. QED
      BY <3>1, <3>2
  <2>7. ASSUME NEW f \in FileNo, SkipFile(f) PROVE RowsFirst'
    BY <2>0, <2>1, <2>7 DEF SkipFile, Over
  <2>8. ASSUME NEW f \in FileNo, CreateRows(f) PROVE RowsFirst'
    <3>1. {RowTask(f, a) : a \in Scanner} \subseteq TasksOf(f)
      BY <2>0
    <3>2. /\ place' = [place EXCEPT ![ScanTask(f)] = "publishing"]
          /\ todo' = [todo EXCEPT ![ScanTask(f)] = {RowTask(f, a) : a \in Scanner}]
          /\ UNCHANGED <<exists, files, cleaning>>
          /\ place[ScanTask(f)] = "running"
      BY <2>8 DEF CreateRows
    <3>3. \A g \in FileNo, a \in Scanner : g # f => rows'[<<g, a>>] = rows[<<g, a>>]
      BY <2>0, <2>8 DEF CreateRows
    <3>4. QED
      BY <1>2, <2>0, <3>1, <3>2, <3>3 DEF RowsFirst, NoRows
  <2>9. ASSUME NEW f \in FileNo, NEW a \in Scanner, AnswerRow(f, a) PROVE RowsFirst'
    <3>1. /\ UNCHANGED <<exists, files, cleaning, todo>>
          /\ \A t \in IntakeTask : place[t] = "none" => place'[t] = "none"
          /\ RowTask(f, a) \in TasksOf(f) /\ place[RowTask(f, a)] # "none"
      BY <2>0, <2>9 DEF AnswerRow, Over
    <3>2. \A g \in FileNo, b \in Scanner :
            rows'[<<g, b>>] = rows[<<g, b>>] \/ rows[<<g, b>>] # "none" \/ <<g, b>> = <<f, a>>
      BY <2>0, <2>9 DEF AnswerRow
    <3>3. QED
      BY <1>2, <2>0, <3>1, <3>2 DEF RowsFirst, NoRows
  <2>10. CASE LoseWorker
    BY <2>0, <2>1, <2>10 DEF LoseWorker, Alive, Running
  <2>11. CASE BreakTerminate
    BY <2>0, <2>1, <2>11 DEF BreakTerminate
  <2>12. CASE FailInsert \/ RestartWorker \/ BeginTerminate \/ EndTerminate \/ UNCHANGED intakeVars
    BY <2>0, <2>1, <2>12 DEF FailInsert, Over, RestartWorker, BeginTerminate, EndTerminate,
                             intakeVars
  <2>13. CASE DeleteSession
    BY <2>13 DEF DeleteSession, RowsFirst
  <2>14. ASSUME NEW f \in FileNo, CleanSource(f) \/ MarkCleaned(f) PROVE RowsFirst'
    <3>1. /\ UNCHANGED <<exists, rows, todo, place>>
          /\ \A g \in FileNo : files'[g] \in {"none", "written"} => files[g] = files'[g]
          /\ \A g \in FileNo : g \in cleaning' => files'[g] = "valid" \/ (exists # "there")
      BY <1>2, <2>0, <2>14 DEF CleanSource, MarkCleaned, RowsFirst
    <3>2. QED
      BY <1>2, <3>1 DEF RowsFirst, NoRows
  <2>15. QED
    BY <1>2, <2>2, <2>3, <2>4, <2>5, <2>6, <2>7, <2>8, <2>9, <2>10, <2>11, <2>12, <2>13, <2>14
       DEF IntakeNext, TaskStep
<1>3. QED
  BY <1>1, <1>2, IntakeTypes, RequestFirst, RowsOfStored, PTL DEF IntakeSpec, StoredBase


\* Without a loss or a termination, a pending scan whose task is not published is about to
\* be, or scan_file was dropped while it published, or could not send another scan.
RowsHaveTasks ==
    exists = "there" /\ losses = 0 /\ terminate.stage = "idle" =>
        \A f \in FileNo, a \in Scanner :
            rows[<<f, a>>] = "pending" /\ place[RowTask(f, a)] = "none" =>
                \/ RowTask(f, a) \in todo[ScanTask(f)]
                \/ place[ScanTask(f)] = "dropped"
                \/ \E b \in Scanner : place[RowTask(f, b)] = "unsent"

\* What keeps a session from 100 whatever its tasks do.
CutShort ==
    \/ request.source = "path" \/ ~request.scan
    \/ terminate.stage # "idle"
    \/ request.source = "url" /\ request.extract
    \/ \E f \in FileNo : files[f] = "cleaned" \/ f \in cleaning

\* scan_file of the file is still to come, or will not: it was not sent or dropped, or the
\* task that would publish it was dropped, or lost with the worker.
ToBeScanned(f) ==
    \/ place[ScanTask(f)] \in {"unsent", "dropped"}
    \/ place[ScanTask(f)] \in {"queued", "running"} /\ ScanTask(f) \in log
    \/ /\ place[ScanTask(f)] = "none"
       /\ \/ losses > 0
          \/ place[CreateTask] \in {"saved", "dropped"}
          \/ ScanTask(f) \in todo[Client]
          \/ place[CreateTask] = "publishing" /\ ScanTask(f) \in todo[CreateTask]

\* A file without scans is still to be scanned.
FilesHaveTasks ==
    exists = "there" /\ ~CutShort => \A f \in Valid(files) : NoRows(f) => ToBeScanned(f)

\* The task that stores the download, and counts, is still to come, or will not.
ToBeCounted ==
    \/ request.source = "path" \/ terminate.stage # "idle"
    \/ CreateTask \in todo[Client]
    \/ place[CreateTask] \in {"unsent", "dropped"}
    \/ place[CreateTask] \in {"queued", "running", "stored"} /\ CreateTask \in log
    \/ \E f \in FileNo : files[f] = "written"

\* A session whose files are all scanned is at 100, unless it has not been counted yet.
CountIsRight ==
    exists = "there" /\ (\A f \in Valid(files) : Scanned(f, rows)) => total = "full" \/ ToBeCounted
\* A worker that is not lost downloads once.
LEMMA DownloadsAreSingle == IntakeSpec => []OneDownload
<1> USE DEF sessionVars, brokerVars, workerVars
<1>1. IntakeInit => OneDownload
  BY DEF IntakeInit, OneDownload, Valid
<1>2. ASSUME IntakeBase, Requested, CreateIsFromUrl, OneAtMost, OneDownload,
             [IntakeNext]_intakeVars
      PROVE  OneDownload'
  <2>0. /\ place \in [IntakeTask -> {"none", "unsent", "gone", "dropped"} \cup Alive]
        /\ files \in [FileNo -> {"none", "written", "valid", "refused", "cleaned"}]
        /\ losses \in Nat
        /\ CreateTask \in IntakeTask
        /\ \A f \in FileNo : ScanTask(f) \in IntakeTask /\ CreateTask # ScanTask(f)
        /\ \A f \in FileNo, a \in Scanner : CreateTask # RowTask(f, a)
        /\ request.source = "none" =>
             /\ \A t \in IntakeTask : place[t] = "none"
             /\ \A f \in FileNo : files[f] = "none"
    BY <1>2, IntakeTasks, IntakeAssumption
       DEF IntakeBase, IntakeTypeOK, IntakeAssumption, NothingYet, Requested
  \* A step that neither adds a file nor brings the task that stores it back.
  <2>1. ASSUME losses' = losses, request' = request, Valid(files') \subseteq Valid(files),
               \/ place'[CreateTask] = place[CreateTask]
               \/ place'[CreateTask] = "saved" /\ place[CreateTask] = "saved"
               \/ place'[CreateTask] \notin {"none", "queued", "running", "stored", "saved"}
               \/ /\ place'[CreateTask] \in {"queued", "running", "stored"}
                  /\ place[CreateTask] \in {"none", "queued", "running"}
        PROVE  OneDownload'
    BY <1>2, <2>1 DEF OneDownload
  <2>2. ASSUME NEW s \in BOOLEAN, NEW e \in BOOLEAN, Upload(s, e) PROVE OneDownload'
    BY <2>2 DEF Upload, OneDownload
  <2>3. ASSUME NEW s \in BOOLEAN, NEW e \in BOOLEAN, FromUrl(s, e) \/ FromPath(s, e)
        PROVE  OneDownload'
    BY <2>0, <2>3 DEF FromUrl, FromPath, OneDownload, Valid
  <2>4. ASSUME NEW p \in DOMAIN todo, PublishNext(p) PROVE OneDownload'
    <3>1. PICK u \in todo[p] :
            /\ \E where \in {"queued", "unsent"} : place' = [place EXCEPT ![u] = where]
            /\ UNCHANGED <<files, request, losses>>
      BY <2>4 DEF PublishNext
    <3>2. p \in IntakeTask \cup {Client} /\ (u = CreateTask => place[CreateTask] = "none")
      BY <1>2, <2>4 DEF OneAtMost, IntakeBase, IntakeTypeOK
    <3>3. QED
      BY <2>0, <2>1, <3>1, <3>2
  <2>5. ASSUME NEW u \in IntakeTask,
               \/ StartTask(u) \/ Acknowledged(u) \/ EndPublishing(u)
               \/ TerminateTask(u) \/ Purge(u) \/ RevokeTask(u) \/ DeliverRevoke(u)
        PROVE  OneDownload'
    BY <2>0, <2>1, <2>5 DEF StartTask, Acknowledged, EndPublishing, TerminateTask, Purge,
                            RevokeTask, DeliverRevoke, Over, Running
  <2>6. CASE Refuse \/ Store \/ RefuseType \/ FailInsert
    <3>1. /\ losses' = losses /\ request' = request
          /\ \/ place'[CreateTask] = "ended"
             \/ place'[CreateTask] = "stored" /\ place[CreateTask] = "running"
      BY <2>0, <2>6 DEF Refuse, Store, RefuseType, FailInsert, Over
    <3>2. Valid(files') \subseteq Valid(files)
      BY <2>0, <2>6 DEF Refuse, Store, RefuseType, FailInsert, Valid
    <3>3. QED
      BY <2>1, <3>1, <3>2
  <2>7. CASE InsertRow
    <3>1. PICK f \in FileNo :
            /\ files' = [files EXCEPT ![f] = "valid"]
            /\ UNCHANGED <<request, losses>>
            /\ place[CreateTask] = "stored"
      BY <2>7 DEF InsertRow
    <3>2. place'[CreateTask] = "saved"
      BY <2>0, <2>7 DEF InsertRow
    <3>3. QED
      BY <1>2, <2>0, <3>1, <3>2 DEF OneDownload, Valid
  <2>8. CASE DropSource
    BY <2>0, <2>1, <2>8 DEF DropSource, Over
  <2>9. ASSUME NEW f \in FileNo, SkipFile(f) \/ CreateRows(f) PROVE OneDownload'
    BY <2>0, <2>1, <2>9 DEF SkipFile, CreateRows, Over
  <2>10. ASSUME NEW f \in FileNo, NEW a \in Scanner, AnswerRow(f, a) PROVE OneDownload'
    BY <2>0, <2>1, <2>10, IntakeTasks DEF AnswerRow, Over
  <2>11. CASE LoseWorker
    BY <2>0, <2>11 DEF LoseWorker, OneDownload
  <2>12. CASE BreakTerminate
    BY <2>0, <2>1, <2>12 DEF BreakTerminate
  <2>13. CASE RestartWorker \/ BeginTerminate \/ EndTerminate \/ UNCHANGED intakeVars
    BY <2>1, <2>13 DEF RestartWorker, BeginTerminate, EndTerminate, intakeVars
  <2>14. CASE DeleteSession \/ \E f \in FileNo : CleanSource(f) \/ MarkCleaned(f)
    <3>1. UNCHANGED <<request, losses, place>> /\ Valid(files') \subseteq Valid(files)
      BY <2>0, <2>14 DEF DeleteSession, CleanSource, MarkCleaned, Valid
    <3>2. QED
      BY <2>1, <3>1
  <2>15. QED
    BY <1>2, <2>2, <2>3, <2>4, <2>5, <2>6, <2>7, <2>8, <2>9, <2>10, <2>11, <2>12, <2>13, <2>14
       DEF IntakeNext, TaskStep
<1>3. QED
  BY <1>1, <1>2, IntakeTypes, RequestFirst, RowsOfStored, PublishersHaveOne, PTL
     DEF IntakeSpec, StoredBase

\* Pending scans have tasks.
LEMMA RowsGetTasks == IntakeSpec => []RowsHaveTasks
<1> USE DEF sessionVars, brokerVars, workerVars
<1>1. IntakeInit => RowsHaveTasks
  BY DEF IntakeInit, RowsHaveTasks
<1>2. ASSUME IntakeBase, Requested, PublishedOnce, WaitingAreRevoked, RowsHaveTasks,
             [IntakeNext]_intakeVars
      PROVE  RowsHaveTasks'
  <2> SUFFICES ASSUME exists' = "there", losses' = 0, terminate'.stage = "idle",
                      NEW f \in FileNo, NEW a \in Scanner,
                      rows'[<<f, a>>] = "pending", place'[RowTask(f, a)] = "none"
               PROVE  \/ RowTask(f, a) \in todo'[ScanTask(f)]
                      \/ place'[ScanTask(f)] = "dropped"
                      \/ \E b \in Scanner : place'[RowTask(f, b)] = "unsent"
    BY DEF RowsHaveTasks
  <2> DEFINE Cared == \/ RowTask(f, a) \in todo'[ScanTask(f)]
                      \/ place'[ScanTask(f)] = "dropped"
                      \/ \E b \in Scanner : place'[RowTask(f, b)] = "unsent"
  <2>0. /\ place \in [IntakeTask -> {"none", "unsent", "gone", "dropped"} \cup Alive]
        /\ todo \in [IntakeTask \cup {Client} -> SUBSET IntakeTask]
        /\ rows \in [FileNo \X Scanner -> {"none", "pending", "answered"}]
        /\ losses \in Nat
        /\ terminate \in [stage : {"idle", "revoking", "done", "broken"},
                          left : SUBSET IntakeTask, waiting : SUBSET IntakeTask]
        /\ CreateTask \in IntakeTask
        /\ Client \notin IntakeTask
        /\ \A g \in FileNo : ScanTask(g) \in IntakeTask /\ CreateTask # ScanTask(g)
        /\ \A g, h \in FileNo : ScanTask(g) = ScanTask(h) => g = h
        /\ \A g \in FileNo, b \in Scanner : /\ RowTask(g, b) \in IntakeTask
                                            /\ CreateTask # RowTask(g, b)
                                            /\ \A h \in FileNo : RowTask(g, b) # ScanTask(h)
        /\ <<f, a>> \in FileNo \X Scanner
    BY <1>2, IntakeTasks, IntakeAssumption DEF IntakeBase, IntakeTypeOK, IntakeAssumption
  <2>1. ASSUME exists = "there", losses = 0, terminate.stage = "idle",
               rows[<<f, a>>] = "pending", place[RowTask(f, a)] = "none"
        PROVE  \/ RowTask(f, a) \in todo[ScanTask(f)] /\ place[ScanTask(f)] = "publishing"
               \/ place[ScanTask(f)] = "dropped"
               \/ \E b \in Scanner : place[RowTask(f, b)] = "unsent"
    BY <1>2, <2>0, <2>1 DEF RowsHaveTasks, PublishedOnce
  \* A step that answers rows at most, and takes no task away from what it publishes nor
  \* one that was dropped or not sent.
  <2>2. ASSUME UNCHANGED <<exists, losses>>, terminate.stage = "idle",
               rows'[<<f, a>>] = rows[<<f, a>>] \/ rows'[<<f, a>>] = "answered",
               place[RowTask(f, a)] = "none" \/ place'[RowTask(f, a)] # "none",
               place[ScanTask(f)] = "publishing" =>
                  todo'[ScanTask(f)] = todo[ScanTask(f)] \/ place'[ScanTask(f)] = "dropped",
               \A t \in IntakeTask : place[t] \in {"unsent", "dropped"} => place'[t] = place[t]
        PROVE  Cared
    BY <2>0, <2>1, <2>2
  <2>3. ASSUME NEW s \in BOOLEAN, NEW e \in BOOLEAN,
               Upload(s, e) \/ FromUrl(s, e) \/ FromPath(s, e)
        PROVE  Cared
    BY <1>2, <2>3 DEF Upload, FromUrl, FromPath, Requested
  <2>4. ASSUME NEW p \in DOMAIN todo, PublishNext(p) PROVE Cared
    <3>1. PICK u \in todo[p] :
            \/ /\ place' = [place EXCEPT ![u] = "queued"]
               /\ todo' = [todo EXCEPT ![p] = @ \ {u}]
            \/ /\ place' = [place EXCEPT ![u] = "unsent"]
               /\ todo' = [todo EXCEPT ![p] = {}]
      BY <2>4 DEF PublishNext
    <3>2. /\ UNCHANGED <<exists, losses, rows, terminate>>
          /\ u \in IntakeTask /\ place[u] = "none" /\ p = Publisher(request.source, u)
      BY <1>2, <2>0, <2>4, <3>1 DEF PublishNext, PublishedOnce
    <3>3. u # RowTask(f, a) /\ place[RowTask(f, a)] = "none"
      BY <2>0, <3>1, <3>2
    <3>4. \/ RowTask(f, a) \in todo[ScanTask(f)] /\ place[ScanTask(f)] = "publishing"
          \/ place[ScanTask(f)] = "dropped"
          \/ \E b \in Scanner : place[RowTask(f, b)] = "unsent"
      BY <2>1, <3>2, <3>3
    <3>5. CASE RowTask(f, a) \in todo[ScanTask(f)] /\ p = ScanTask(f)
      <4>1. CASE u \in {RowTask(f, b) : b \in Scanner}
        BY <2>0, <3>1, <3>3, <3>5, <4>1
      <4>2. CASE u \notin {RowTask(f, b) : b \in Scanner}
        <5>1. \/ u = CreateTask
              \/ \E g \in FileNo : u = ScanTask(g)
              \/ \E g \in FileNo, b \in Scanner : g # f /\ u = RowTask(g, b)
          BY <3>2, <4>2, IntakeTasks
        <5>2. p # ScanTask(f)
          <6>1. CASE u = CreateTask \/ \E g \in FileNo : u = ScanTask(g)
            <7>1. p \in {Client, CreateTask}
              BY <3>2, <6>1, Publishers
            <7>2. QED
              BY <2>0, <7>1
          <6>2. ASSUME NEW g \in FileNo, NEW b \in Scanner, g # f, u = RowTask(g, b)
                PROVE  p # ScanTask(f)
            <7>1. p = ScanTask(g)
              BY <3>2, <6>2, Publishers
            <7>2. QED
              BY <2>0, <6>2, <7>1
          <6>3. QED
            BY <5>1, <6>1, <6>2
        <5>3. QED
          BY <3>5, <5>2
      <4>3. QED
        BY <4>1, <4>2
    <3>6. CASE RowTask(f, a) \in todo[ScanTask(f)] /\ p # ScanTask(f)
      BY <2>0, <3>1, <3>6
    <3>7. QED
      BY <2>0, <3>1, <3>2, <3>4, <3>5, <3>6
  <2>5. ASSUME NEW u \in IntakeTask,
               \/ StartTask(u) \/ Acknowledged(u) \/ EndPublishing(u)
               \/ TerminateTask(u) \/ Purge(u)
        PROVE  Cared
    BY <2>0, <2>2, <2>5 DEF StartTask, Acknowledged, EndPublishing, TerminateTask, Purge,
                            Over, Running
  <2>6. ASSUME NEW u \in IntakeTask, RevokeTask(u) \/ DeliverRevoke(u) PROVE Cared
    <3>1. CASE RevokeTask(u)
      BY <1>2, <2>0, <3>1 DEF RevokeTask, WaitingAreRevoked
    <3>2. CASE DeliverRevoke(u)
      <4>1. UNCHANGED <<exists, losses, rows, terminate>>
        BY <3>2 DEF DeliverRevoke
      <4>2. place[u] \in Running => u \in log
        BY <1>2, <4>1 DEF WaitingAreRevoked
      <4>3. QED
        BY <2>0, <2>2, <3>2, <4>1, <4>2 DEF DeliverRevoke, Running
    <3>3. QED
      BY <2>6, <3>1, <3>2
  <2>7. CASE Refuse \/ Store \/ InsertRow \/ FailInsert \/ RefuseType
    BY <2>0, <2>2, <2>7 DEF Refuse, Store, InsertRow, FailInsert, RefuseType, Over
  <2>8. CASE DropSource
    BY <2>0, <2>2, <2>8 DEF DropSource, Over
  <2>9. ASSUME NEW g \in FileNo, SkipFile(g) PROVE Cared
    BY <2>0, <2>2, <2>9 DEF SkipFile, Over
  <2>10. ASSUME NEW g \in FileNo, CreateRows(g) PROVE Cared
    <3>1. /\ place' = [place EXCEPT ![ScanTask(g)] = "publishing"]
          /\ todo' = [todo EXCEPT ![ScanTask(g)] = {RowTask(g, b) : b \in Scanner}]
          /\ UNCHANGED <<exists, losses, terminate>>
          /\ place[ScanTask(g)] = "running"
      BY <2>10 DEF CreateRows
    <3>2. CASE g = f
      BY <2>0, <3>1, <3>2
    <3>3. CASE g # f
      <4>1. rows'[<<f, a>>] = rows[<<f, a>>]
        BY <2>0, <2>10, <3>3 DEF CreateRows
      <4>2. QED
        BY <2>0, <2>2, <3>1, <3>3, <4>1
    <3>4. QED
      BY <3>2, <3>3
  <2>11. ASSUME NEW g \in FileNo, NEW b \in Scanner, AnswerRow(g, b) PROVE Cared
    <3>1. rows'[<<f, a>>] = rows[<<f, a>>] \/ rows'[<<f, a>>] = "answered"
      BY <2>0, <2>11 DEF AnswerRow
    <3>2. QED
      BY <2>0, <2>2, <2>11, <3>1 DEF AnswerRow, Over
  <2>12. CASE LoseWorker
    BY <2>0, <2>12 DEF LoseWorker
  <2>13. CASE BreakTerminate
    BY <2>0, <2>13 DEF BreakTerminate
  <2>14. CASE BeginTerminate \/ EndTerminate
    BY <2>0, <2>14 DEF BeginTerminate, EndTerminate
  <2>15. CASE \/ RestartWorker \/ UNCHANGED intakeVars
              \/ \E g \in FileNo : CleanSource(g) \/ MarkCleaned(g)
    <3>1. UNCHANGED <<exists, losses, terminate, rows, place, todo>>
      BY <2>15 DEF RestartWorker, intakeVars, CleanSource, MarkCleaned
    <3>2. QED
      BY <2>0, <2>2, <3>1
  <2>16. CASE DeleteSession
    BY <2>16 DEF DeleteSession
  <2>17. QED
    BY <1>2, <2>3, <2>4, <2>5, <2>6, <2>7, <2>8, <2>9, <2>10, <2>11, <2>12, <2>13, <2>14,
       <2>15, <2>16 DEF IntakeNext, TaskStep
<1>3. QED
  BY <1>1, <1>2, IntakeTypes, RequestFirst, EveryTaskOnce, WaitingTasksAreRevoked, PTL
     DEF IntakeSpec


\* Files without scans are still to be scanned, as long as there is a scanner: without one
\* scan_file creates no row.
LEMMA FilesGetTasks == ASSUME Scanner # {} PROVE IntakeSpec => []FilesHaveTasks
<1> USE DEF sessionVars, brokerVars, workerVars
<1>1. IntakeInit => FilesHaveTasks
  BY DEF IntakeInit, FilesHaveTasks
<1>2. ASSUME IntakeBase, CreateIsFromUrl, Requested, WaitingAreRevoked, OneAtMost, RowsFirst,
             UploadsAreStored, OneDownload, FilesHaveTasks, [IntakeNext]_intakeVars
      PROVE  FilesHaveTasks'
  <2> SUFFICES ASSUME exists' = "there", ~CutShort', NEW f \in FileNo, f \in Valid(files'),
                      NoRows(f)'
               PROVE  ToBeScanned(f)'
    BY DEF FilesHaveTasks, Valid
  <2>0. /\ place \in [IntakeTask -> {"none", "unsent", "gone", "dropped"} \cup Alive]
        /\ todo \in [IntakeTask \cup {Client} -> SUBSET IntakeTask]
        /\ rows \in [FileNo \X Scanner -> {"none", "pending", "answered"}]
        /\ files \in [FileNo -> {"none", "written", "valid", "refused", "cleaned"}]
        /\ losses \in Nat
        /\ request.scan \in BOOLEAN
        /\ request.source \in {"none", "upload", "url", "path"}
        /\ terminate \in [stage : {"idle", "revoking", "done", "broken"},
                          left : SUBSET IntakeTask, waiting : SUBSET IntakeTask]
        /\ CreateTask \in IntakeTask
        /\ Client \notin IntakeTask
        /\ 1 \in FileNo
        /\ \A g \in FileNo : ScanTask(g) \in IntakeTask /\ CreateTask # ScanTask(g)
        /\ \A g, h \in FileNo : ScanTask(g) = ScanTask(h) => g = h
        /\ \A g \in FileNo, b \in Scanner : /\ RowTask(g, b) \in IntakeTask
                                            /\ CreateTask # RowTask(g, b)
                                            /\ \A h \in FileNo : RowTask(g, b) # ScanTask(h)
        /\ exists = "none" => /\ \A t \in IntakeTask : place[t] = "none"
                              /\ \A g \in FileNo : files[g] = "none"
        /\ exists = "none" <=> request.source = "none"
    BY <1>2, IntakeTasks, IntakeAssumption
       DEF IntakeBase, IntakeTypeOK, IntakeAssumption, FileNo, NothingYet, Requested
  <2>1. ASSUME exists = "there", ~CutShort, f \in Valid(files), NoRows(f)
        PROVE  ToBeScanned(f)
    BY <1>2, <2>1 DEF FilesHaveTasks
  \* A step that does not concern the file.
  <2>2. ASSUME UNCHANGED <<request, exists, losses, terminate, files, cleaning>>, NoRows(f),
               todo' = todo,
               place'[ScanTask(f)] = place[ScanTask(f)],
               place'[CreateTask] = place[CreateTask],
               ScanTask(f) \in log => ScanTask(f) \in log'
        PROVE  ToBeScanned(f)'
    BY <2>0, <2>1, <2>2 DEF CutShort, ToBeScanned, Valid
  <2>3. ASSUME NEW s \in BOOLEAN, NEW e \in BOOLEAN, Upload(s, e) PROVE ToBeScanned(f)'
    <3>1. exists = "none" /\ place' = place /\ request'.scan = s
          /\ todo'[Client] = FollowUps(1, s) /\ files' = [files EXCEPT ![1] = "valid"]
      BY <2>0, <2>3 DEF Upload
    <3>2. f = 1 /\ s = TRUE
      BY <2>0, <3>1 DEF Valid, CutShort
    <3>3. QED
      BY <2>0, <3>1, <3>2 DEF FollowUps, ToBeScanned
  <2>4. ASSUME NEW s \in BOOLEAN, NEW e \in BOOLEAN, FromUrl(s, e) \/ FromPath(s, e)
        PROVE  ToBeScanned(f)'
    BY <2>0, <2>4 DEF FromUrl, FromPath, Valid
  <2>5. ASSUME NEW p \in DOMAIN todo, PublishNext(p) PROVE ToBeScanned(f)'
    <3>1. PICK u \in todo[p] :
            /\ \/ /\ place' = [place EXCEPT ![u] = "queued"]
                  /\ todo' = [todo EXCEPT ![p] = @ \ {u}]
               \/ /\ place' = [place EXCEPT ![u] = "unsent"]
                  /\ todo' = [todo EXCEPT ![p] = {}]
            /\ log' = log \cup {u}
      BY <2>5 DEF PublishNext, Register
    <3>2. /\ UNCHANGED <<request, exists, losses, terminate, files, cleaning, rows>>
          /\ u \in IntakeTask /\ p \in IntakeTask \cup {Client}
          /\ u = CreateTask => place[CreateTask] = "none"
          /\ p \in {Client, CreateTask} => \A t \in todo[p] : t = u
      BY <1>2, <2>0, <2>5, <3>1 DEF PublishNext, OneAtMost
    <3>3. ToBeScanned(f)
      BY <2>1, <3>2 DEF CutShort, NoRows, Valid
    <3>4. CASE u = ScanTask(f)
      BY <2>0, <3>1, <3>2, <3>4 DEF ToBeScanned
    <3>5. CASE u # ScanTask(f)
      <4>1. /\ place'[ScanTask(f)] = place[ScanTask(f)]
            /\ place[CreateTask] # "none" => place'[CreateTask] = place[CreateTask]
            /\ ScanTask(f) \in todo[Client] => ScanTask(f) \in todo'[Client]
            /\ ScanTask(f) \in todo[CreateTask] => ScanTask(f) \in todo'[CreateTask]
        BY <2>0, <3>1, <3>2, <3>5
      <4>2. QED
        BY <2>0, <3>1, <3>2, <3>3, <4>1 DEF ToBeScanned
    <3>6. QED
      BY <3>4, <3>5
  <2>6. ASSUME NEW u \in IntakeTask,
               \/ StartTask(u) \/ Acknowledged(u) \/ EndPublishing(u)
               \/ TerminateTask(u) \/ Purge(u)
        PROVE  ToBeScanned(f)'
    <3>1. ToBeScanned(f)
      BY <2>1, <2>6 DEF StartTask, Acknowledged, EndPublishing, TerminateTask, Purge, CutShort,
                        NoRows, Valid
    <3>2. QED
      BY <2>0, <2>6, <3>1 DEF StartTask, Acknowledged, EndPublishing, TerminateTask, Purge, Over,
                              Running, ToBeScanned
  <2>7. ASSUME NEW u \in IntakeTask, RevokeTask(u) \/ DeliverRevoke(u) PROVE ToBeScanned(f)'
    <3>1. CASE RevokeTask(u)
      BY <1>2, <2>0, <3>1 DEF RevokeTask, WaitingAreRevoked, CutShort
    <3>2. CASE DeliverRevoke(u)
      <4>1. ToBeScanned(f)
        BY <2>1, <3>2 DEF DeliverRevoke, CutShort, NoRows, Valid
      <4>2. /\ terminate.stage = "idle" /\ losses' = losses /\ log' = log
            /\ \/ place[u] \notin Running /\ place' = place /\ todo' = todo
               \/ /\ place[u] \in Running
                  /\ place' = [place EXCEPT ![u] = IF u \in log THEN "dropped" ELSE "gone"]
                  /\ todo' = [todo EXCEPT ![u] = {}]
        BY <3>2 DEF DeliverRevoke, CutShort
      <4>3. losses = 0 /\ place[u] \in Running => u \in log
        BY <1>2, <4>2 DEF WaitingAreRevoked
      <4>4. QED
        BY <2>0, <4>1, <4>2, <4>3 DEF Running, ToBeScanned
    <3>3. QED
      BY <2>7, <3>1, <3>2
  <2>8. CASE Refuse \/ Store \/ FailInsert \/ RefuseType
    <3>1. f \in Valid(files)
      BY <2>0, <2>8 DEF Refuse, Store, FailInsert, RefuseType, Valid
    <3>2. \A g \in FileNo : files[g] = "cleaned" => files'[g] = "cleaned"
      BY <2>0, <2>8 DEF Refuse, Store, FailInsert, RefuseType, Unused, LastWritten
    <3>3. UNCHANGED <<request, exists, terminate, cleaning, rows, todo, losses>>
      BY <2>8 DEF Refuse, Store, FailInsert, RefuseType
    <3>4. ~CutShort /\ NoRows(f)
      BY <3>2, <3>3 DEF CutShort, NoRows
    <3>5. ToBeScanned(f)
      BY <2>1, <3>1, <3>3, <3>4
    <3>6. QED
      BY <2>0, <2>8, <3>3, <3>5 DEF Refuse, Store, FailInsert, RefuseType, Over, ToBeScanned
  <2>9. CASE InsertRow
    <3>1. PICK g \in FileNo : /\ files[g] = "written"
                              /\ files' = [files EXCEPT ![g] = "valid"]
                              /\ place' = [place EXCEPT ![CreateTask] = "saved"]
                              /\ place[CreateTask] = "stored"
                              /\ UNCHANGED <<log, exists, todo, request, terminate, cleaning,
                                             losses, rows>>
      BY <2>9 DEF InsertRow, LastWritten
    <3>2. CASE g = f
      BY <1>2, <2>0, <3>1, <3>2 DEF RowsFirst, TasksOf, ToBeScanned
    <3>3. CASE g # f
      <4>1. f \in Valid(files) /\ ~CutShort /\ NoRows(f)
        BY <2>0, <3>1, <3>3 DEF Valid, CutShort, NoRows
      <4>2. ToBeScanned(f)
        BY <2>1, <3>1, <4>1
      <4>3. QED
        BY <2>0, <3>1, <4>2 DEF ToBeScanned
    <3>4. QED
      BY <3>2, <3>3
  <2>10. CASE DropSource
    <3>1. /\ place' = [place EXCEPT ![CreateTask] = "publishing"]
          /\ place[CreateTask] = "saved"
          /\ todo' = [todo EXCEPT ![CreateTask] = FollowUps(Newest, request.scan)]
          /\ UNCHANGED <<log, exists, request, terminate, cleaning, losses, rows, files>>
      BY <2>10 DEF DropSource
    <3>2. f \in Valid(files) /\ ~CutShort /\ NoRows(f)
      BY <3>1 DEF CutShort, NoRows, Valid
    <3>3. ToBeScanned(f)
      BY <2>1, <3>1, <3>2
    <3>4. Newest \in Valid(files)
      BY <1>2, <3>2, IntakeAssumption, NewestIsFile DEF IntakeBase
    <3>5. losses = 0 => f = Newest
      BY <1>2, <2>0, <3>1, <3>2, <3>4 DEF OneDownload, CreateIsFromUrl
    <3>6. request.scan = TRUE
      BY <2>0, <3>2 DEF CutShort
    <3>7. QED
      BY <2>0, <3>1, <3>3, <3>5, <3>6 DEF FollowUps, ToBeScanned
  <2>11. ASSUME NEW g \in FileNo, SkipFile(g) PROVE ToBeScanned(f)'
    <3>1. /\ UNCHANGED <<request, exists, losses, terminate, files, cleaning, todo, rows, stored>>
          /\ place[ScanTask(g)] = "running" /\ CannotScan(g)
          /\ place' = [place EXCEPT ![ScanTask(g)] = "ended"] /\ log' = log \ {ScanTask(g)}
      BY <2>11 DEF SkipFile, Over
    <3>2. f \in Valid(files) /\ ~CutShort /\ NoRows(f)
      BY <3>1 DEF CutShort, NoRows, Valid
    <3>3. g # f
      <4> SUFFICES ASSUME g = f PROVE FALSE
        OBVIOUS
      <4>1. request.extract /\ f \notin stored
        BY <2>0, <3>1, <3>2 DEF CannotScan, CutShort, NoRows
      <4>2. request.source = "upload"
        BY <2>0, <3>1, <3>2, <4>1 DEF CutShort
      <4>3. QED
        BY <1>2, <3>1, <3>2, <4>1, <4>2 DEF UploadsAreStored, CutShort
    <3>4. QED
      BY <2>0, <2>2, <3>1, <3>2, <3>3
  <2>12. ASSUME NEW g \in FileNo, CreateRows(g) PROVE ToBeScanned(f)'
    <3>1. /\ place' = [place EXCEPT ![ScanTask(g)] = "publishing"]
          /\ todo' = [todo EXCEPT ![ScanTask(g)] = {RowTask(g, b) : b \in Scanner}]
          /\ UNCHANGED <<exists, losses, terminate, files, cleaning, request, log>>
      BY <2>12 DEF CreateRows
    <3>2. \A b \in Scanner : rows'[<<g, b>>] = "pending"
      BY <2>0, <2>12 DEF CreateRows
    <3>3. g # f
      BY <3>2 DEF NoRows
    <3>4. \A b \in Scanner : rows'[<<f, b>>] = rows[<<f, b>>]
      BY <2>0, <2>12, <3>3 DEF CreateRows
    <3>5. f \in Valid(files) /\ ~CutShort /\ NoRows(f)
      BY <3>1, <3>4 DEF CutShort, NoRows, Valid
    <3>6. ToBeScanned(f)
      BY <2>1, <3>1, <3>5
    <3>7. QED
      BY <2>0, <3>1, <3>3, <3>6 DEF ToBeScanned
  <2>13. ASSUME NEW g \in FileNo, NEW b \in Scanner, AnswerRow(g, b) PROVE ToBeScanned(f)'
    <3>1. \A a \in Scanner : rows[<<f, a>>] = "none" \/ rows'[<<f, a>>] # "none"
      BY <2>0, <2>13 DEF AnswerRow
    <3>2. NoRows(f)
      BY <3>1 DEF NoRows
    <3>3. QED
      BY <2>0, <2>2, <2>13, <3>2 DEF AnswerRow, Over
  <2>14. CASE LoseWorker
    <3>1. ToBeScanned(f)
      BY <2>1, <2>14 DEF LoseWorker, CutShort, NoRows, Valid
    <3>2. /\ \A t \in IntakeTask : place'[t] = IF place[t] \in Alive THEN "queued" ELSE place[t]
          /\ log' = log /\ losses' = losses + 1
      BY <2>14 DEF LoseWorker
    <3>3. QED
      BY <2>0, <3>1, <3>2 DEF Alive, Running, ToBeScanned
  <2>15. CASE BeginTerminate \/ EndTerminate \/ BreakTerminate
    <3>1. terminate'.stage # "idle"
      <4>1. CASE BeginTerminate
        BY <4>1 DEF BeginTerminate
      <4>2. CASE EndTerminate
        BY <2>0, <4>2 DEF EndTerminate
      <4>3. CASE BreakTerminate
        BY <2>0, <4>3 DEF BreakTerminate
      <4>4. QED
        BY <2>15, <4>1, <4>2, <4>3
    <3>2. QED
      BY <3>1 DEF CutShort
  <2>16. CASE RestartWorker \/ UNCHANGED intakeVars
    BY <2>2, <2>16 DEF RestartWorker, intakeVars, NoRows
  <2>17. CASE DeleteSession
    BY <2>17 DEF DeleteSession
  <2>18. ASSUME NEW g \in FileNo, CleanSource(g) \/ MarkCleaned(g) PROVE ToBeScanned(f)'
    BY <1>2, <2>0, <2>18 DEF CleanSource, MarkCleaned, RowsFirst, CutShort
  <2>19. QED
    BY <1>2, <2>3, <2>4, <2>5, <2>6, <2>7, <2>8, <2>9, <2>10, <2>11, <2>12, <2>13, <2>14,
       <2>15, <2>16, <2>17, <2>18 DEF IntakeNext, TaskStep
<1>3. QED
  BY <1>1, <1>2, IntakeTypes, RequestFirst, RowsOfStored, WaitingTasksAreRevoked,
     PublishersHaveOne, RowsComeFirst, UploadsStayStored, DownloadsAreSingle, PTL
     DEF IntakeSpec, StoredBase


\* The progress of a session is that of its files.
LEMMA CountStaysRight == IntakeSpec => []CountIsRight
<1> USE DEF sessionVars, brokerVars, workerVars
<1>1. IntakeInit => CountIsRight
  BY DEF IntakeInit, CountIsRight
<1>2. ASSUME IntakeBase, CreateIsFromUrl, Requested, WaitingAreRevoked, OneAtMost, RowsFirst,
             CountIsRight, [IntakeNext]_intakeVars
      PROVE  CountIsRight'
  <2> SUFFICES ASSUME exists' = "there", \A f \in Valid(files') : Scanned(f, rows')
               PROVE  total' = "full" \/ ToBeCounted'
    BY DEF CountIsRight, Valid, Scanned
  <2>0. /\ place \in [IntakeTask -> {"none", "unsent", "gone", "dropped"} \cup Alive]
        /\ todo \in [IntakeTask \cup {Client} -> SUBSET IntakeTask]
        /\ files \in [FileNo -> {"none", "written", "valid", "refused", "cleaned"}]
        /\ terminate \in [stage : {"idle", "revoking", "done", "broken"},
                          left : SUBSET IntakeTask, waiting : SUBSET IntakeTask]
        /\ CreateTask \in IntakeTask
        /\ Client \notin IntakeTask
        /\ 1 \in FileNo
        /\ \A g \in FileNo : ScanTask(g) \in IntakeTask /\ CreateTask # ScanTask(g)
        /\ \A g \in FileNo, b \in Scanner : /\ RowTask(g, b) \in IntakeTask
                                            /\ CreateTask # RowTask(g, b)
        /\ exists = "none" => /\ \A g \in FileNo : NoRows(g)
                              /\ \A p \in DOMAIN todo : todo[p] = {}
                              /\ \A t \in IntakeTask : place[t] = "none"
    BY <1>2, IntakeTasks, IntakeAssumption
       DEF IntakeBase, IntakeTypeOK, IntakeAssumption, FileNo, NothingYet, Requested, NoRows
  <2>1. ASSUME exists = "there", Valid(files) \subseteq Valid(files'), rows' = rows
        PROVE  total = "full" \/ ToBeCounted
    BY <1>2, <2>1 DEF CountIsRight
  \* A step that does not concern the task that stores a download.
  <2>2. ASSUME UNCHANGED <<request, exists, total, rows, terminate>>,
               Valid(files) \subseteq Valid(files'),
               \A f \in FileNo : files[f] = "written" => files'[f] = "written",
               todo'[Client] = todo[Client],
               place'[CreateTask] = place[CreateTask],
               CreateTask \in log => CreateTask \in log'
        PROVE  total' = "full" \/ ToBeCounted'
    BY <2>1, <2>2 DEF ToBeCounted
  <2>3. ASSUME Recount(files', rows') = total'
        PROVE  total' = "full"
    BY <2>3 DEF Recount
  <2>4. ASSUME NEW s \in BOOLEAN, NEW e \in BOOLEAN, Upload(s, e)
        PROVE  total' = "full" \/ ToBeCounted'
    <3>1. 1 \in Valid(files') /\ NoRows(1) /\ rows' = rows
      BY <1>2, <2>0, <2>4 DEF Upload, Requested, Valid
    <3>2. QED
      BY <3>1 DEF Scanned, NoRows
  <2>5. ASSUME NEW s \in BOOLEAN, NEW e \in BOOLEAN, FromUrl(s, e) \/ FromPath(s, e)
        PROVE  total' = "full" \/ ToBeCounted'
    BY <2>0, <2>5 DEF FromUrl, FromPath, ToBeCounted
  <2>6. ASSUME NEW p \in DOMAIN todo, PublishNext(p)
        PROVE  total' = "full" \/ ToBeCounted'
    <3>1. PICK u \in todo[p] :
            /\ \/ /\ place' = [place EXCEPT ![u] = "queued"]
                  /\ todo' = [todo EXCEPT ![p] = @ \ {u}]
               \/ /\ place' = [place EXCEPT ![u] = "unsent"]
                  /\ todo' = [todo EXCEPT ![p] = {}]
            /\ log' = log \cup {u}
      BY <2>6 DEF PublishNext, Register
    <3>2. /\ UNCHANGED <<request, exists, total, terminate, files, rows>>
          /\ u \in IntakeTask /\ p \in IntakeTask \cup {Client}
          /\ p = Client => \A t \in todo[p] : t = u
      BY <1>2, <2>0, <2>6, <3>1 DEF PublishNext, OneAtMost
    <3>3. total = "full" \/ ToBeCounted
      BY <2>1, <3>2
    <3>4. CASE u = CreateTask
      BY <2>0, <3>1, <3>2, <3>4 DEF ToBeCounted
    <3>5. CASE u # CreateTask
      <4>1. /\ place'[CreateTask] = place[CreateTask]
            /\ CreateTask \in todo[Client] => CreateTask \in todo'[Client]
        BY <2>0, <3>1, <3>2, <3>5
      <4>2. QED
        BY <3>1, <3>2, <3>3, <4>1 DEF ToBeCounted
    <3>6. QED
      BY <3>4, <3>5
  <2>7. ASSUME NEW u \in IntakeTask,
               \/ StartTask(u) \/ Acknowledged(u) \/ EndPublishing(u)
               \/ TerminateTask(u) \/ Purge(u)
        PROVE  total' = "full" \/ ToBeCounted'
    <3>1. total = "full" \/ ToBeCounted
      BY <2>1, <2>7 DEF StartTask, Acknowledged, EndPublishing, TerminateTask, Purge
    <3>2. QED
      BY <2>0, <2>7, <3>1 DEF StartTask, Acknowledged, EndPublishing, TerminateTask, Purge, Over,
                              Running, ToBeCounted
  <2>8. ASSUME NEW u \in IntakeTask, RevokeTask(u) \/ DeliverRevoke(u)
        PROVE  total' = "full" \/ ToBeCounted'
    <3>1. CASE RevokeTask(u)
      <4>1. terminate'.stage = "revoking"
        BY <1>2, <2>0, <3>1 DEF RevokeTask, WaitingAreRevoked
      <4>2. QED
        BY <4>1 DEF ToBeCounted
    <3>2. CASE DeliverRevoke(u)
      <4>1. total = "full" \/ ToBeCounted
        BY <2>1, <3>2 DEF DeliverRevoke
      <4>2. QED
        BY <2>0, <3>2, <4>1 DEF DeliverRevoke, Running, ToBeCounted
    <3>3. QED
      BY <2>8, <3>1, <3>2
  <2>9. CASE Refuse \/ RefuseType
    BY <2>3, <2>9 DEF Refuse, RefuseType
  <2>10. CASE Store \/ InsertRow \/ FailInsert
    <3>1. CASE Store
      <4>1. \E g \in FileNo : files'[g] = "written"
        BY <2>0, <3>1 DEF Store
      <4>2. QED
        BY <4>1 DEF ToBeCounted
    <3>2. CASE InsertRow
      <4>1. PICK g \in FileNo : /\ files[g] = "written"
                                /\ files' = [files EXCEPT ![g] = "valid"]
                                /\ exists = "there" /\ rows' = rows
        BY <3>2 DEF InsertRow, LastWritten
      <4>2. NoRows(g) /\ g \in Valid(files')
        BY <1>2, <2>0, <4>1 DEF RowsFirst, Valid
      <4>3. QED
        BY <4>1, <4>2 DEF Scanned, NoRows
    <3>3. CASE FailInsert
      <4>1. \E g \in FileNo : files'[g] = "written"
        BY <1>2, <3>3 DEF FailInsert, IntakeBase, SavedHasRow
      <4>2. QED
        BY <4>1 DEF ToBeCounted
    <3>4. QED
      BY <2>10, <3>1, <3>2, <3>3
  <2>11. CASE DropSource
    BY <2>3, <2>11 DEF DropSource
  <2>12. ASSUME NEW f \in FileNo, SkipFile(f) PROVE total' = "full" \/ ToBeCounted'
    BY <2>0, <2>2, <2>12 DEF SkipFile, Over
  <2>13. ASSUME NEW f \in FileNo, CreateRows(f) PROVE total' = "full" \/ ToBeCounted'
    BY <2>3, <2>13 DEF CreateRows
  <2>14. ASSUME NEW f \in FileNo, NEW a \in Scanner, AnswerRow(f, a)
         PROVE  total' = "full" \/ ToBeCounted'
    BY <2>3, <2>14 DEF AnswerRow
  <2>15. CASE LoseWorker
    <3>1. total = "full" \/ ToBeCounted
      BY <2>1, <2>15 DEF LoseWorker
    <3>2. /\ \A t \in IntakeTask : place'[t] = IF place[t] \in Alive THEN "queued" ELSE place[t]
          /\ UNCHANGED <<log, request, total, terminate, files>>
          /\ todo'[Client] = todo[Client]
      BY <2>0, <2>15 DEF LoseWorker
    <3>3. QED
      BY <2>0, <3>1, <3>2 DEF Alive, Running, ToBeCounted
  <2>16. CASE BeginTerminate \/ EndTerminate \/ BreakTerminate
    <3>1. terminate'.stage # "idle"
      <4>1. CASE BeginTerminate
        BY <4>1 DEF BeginTerminate
      <4>2. CASE EndTerminate
        BY <2>0, <4>2 DEF EndTerminate
      <4>3. CASE BreakTerminate
        BY <2>0, <4>3 DEF BreakTerminate
      <4>4. QED
        BY <2>16, <4>1, <4>2, <4>3
    <3>2. QED
      BY <3>1 DEF ToBeCounted
  <2>17. CASE RestartWorker \/ UNCHANGED intakeVars
    BY <2>2, <2>17 DEF RestartWorker, intakeVars
  <2>18. CASE DeleteSession
    BY <2>18 DEF DeleteSession
  <2>19. ASSUME NEW f \in FileNo, CleanSource(f) \/ MarkCleaned(f)
         PROVE  total' = "full" \/ ToBeCounted'
    <3>1. /\ Valid(files) \subseteq Valid(files')
          /\ \A g \in FileNo : files[g] = "written" => files'[g] = "written"
      BY <2>0, <2>19 DEF CleanSource, MarkCleaned, Valid
    <3>2. UNCHANGED <<request, exists, total, rows, terminate, todo, place, log>>
      BY <2>19 DEF CleanSource, MarkCleaned
    <3>3. QED
      BY <2>2, <3>1, <3>2
  <2>20. QED
    BY <1>2, <2>4, <2>5, <2>6, <2>7, <2>8, <2>9, <2>10, <2>11, <2>12, <2>13, <2>14, <2>15,
       <2>16, <2>17, <2>18, <2>19 DEF IntakeNext, TaskStep
<1>3. QED
  BY <1>1, <1>2, IntakeTypes, RequestFirst, RowsOfStored, WaitingTasksAreRevoked,
     PublishersHaveOne, RowsComeFirst, PTL DEF IntakeSpec, StoredBase

\* A session on which nothing runs any more is at 100, unless something that the property
\* names cut it short (the tasks of scans/tasks.py, TaskLog, FileManager.create_from_url,
\* cleanup_disk): true of any number of files and losses of the worker, and of any scanners
\* as long as there is one.
THEOREM QuietSessionsAreFull == ASSUME Scanner # {} PROVE IntakeSpec => []QuietIsFull
<1>1. ASSUME IntakeBase, Requested, PublishedOnce, RowsHaveTasks, FilesHaveTasks, CountIsRight
      PROVE  QuietIsFull
  <2> SUFFICES ASSUME Quiet, total # "full", ~StoppedShort PROVE FALSE
    BY DEF QuietIsFull
  <2>0. /\ place \in [IntakeTask -> {"none", "unsent", "gone", "dropped"} \cup Alive]
        /\ todo \in [IntakeTask \cup {Client} -> SUBSET IntakeTask]
        /\ losses \in Nat
        /\ exists = "there" /\ terminate.stage = "idle"
        /\ CreateTask \in IntakeTask
        /\ \A g \in FileNo : ScanTask(g) \in IntakeTask
        /\ \A g \in FileNo, b \in Scanner : RowTask(g, b) \in IntakeTask
        /\ \A t \in IntakeTask : place[t] \in {"none", "gone"}
        /\ todo[Client] = {}
    BY <1>1, IntakeTasks, IntakeAssumption
       DEF IntakeBase, IntakeTypeOK, IntakeAssumption, Quiet, StoppedShort
  <2>1. ~ToBeCounted /\ ~CutShort
    BY <2>0 DEF ToBeCounted, CutShort, StoppedShort
  <2>2. PICK f \in Valid(files) : ~Scanned(f, rows)
    BY <1>1, <2>0, <2>1 DEF CountIsRight
  <2>3. f \in FileNo
    BY DEF Valid
  <2>4. CASE NoRows(f)
    <3>1. ToBeScanned(f)
      BY <1>1, <2>0, <2>1, <2>4 DEF FilesHaveTasks
    <3>2. place[ScanTask(f)] = "none" /\ losses > 0
      BY <2>0, <2>3, <3>1 DEF ToBeScanned
    <3>3. QED
      BY <3>2 DEF StoppedShort
  <2>5. CASE ~NoRows(f)
    <3>1. PICK a \in Scanner : rows[<<f, a>>] = "pending"
      BY <2>2, <2>5 DEF Scanned, NoRows
    <3>2. place[RowTask(f, a)] = "none"
      BY <2>0, <2>3, <3>1 DEF StoppedShort
    <3>3. losses = 0
      BY <2>0, <3>1, <3>2 DEF StoppedShort
    <3>4. RowTask(f, a) \in todo[ScanTask(f)]
      BY <1>1, <2>0, <2>3, <3>1, <3>2, <3>3 DEF RowsHaveTasks
    <3>5. QED
      BY <1>1, <2>0, <2>3, <3>3, <3>4 DEF PublishedOnce
  <2>6. QED
    BY <2>4, <2>5
<1>2. QED
  BY <1>1, IntakeTypes, RequestFirst, EveryTaskOnce, RowsGetTasks, FilesGetTasks,
     CountStaysRight, PTL

-----------------------------------------------------------------------------
(* The services together *)

\* The behaviours of the composed module are behaviours of each service: what one does
\* leaves the others alone.
THEOREM EachServiceInPart ==
    MCSpec => IntakeSpec /\ RemovableSpec /\ ExportSpec /\ ConsoleSpec
<1> USE DEF allVars
<1>1. MCInit => IntakeInit /\ RemovableInit /\ ExportInit /\ ConsoleInit
  BY DEF MCInit
<1>2. ASSUME [MCNext]_allVars
      PROVE  /\ [IntakeNext]_intakeVars
             /\ [RemovableNext]_removableVars
             /\ [ExportNext]_exportVars
             /\ [ConsoleNext]_consoleVars
  BY <1>2 DEF MCNext, FocusIntake, FocusRemovable, FocusExport, FocusConsole
<1>3. QED
  BY <1>1, <1>2, PTL DEF MCSpec, IntakeSpec, RemovableSpec, ExportSpec, ConsoleSpec

\* The variables of each service keep their types in every behaviour in which each does
\* what its module says, however their steps interleave.
THEOREM ServicesKeepTypes ==
    IntakeSpec /\ RemovableSpec /\ ExportSpec /\ ConsoleSpec => []ServicesTypeOK
<1>1. IntakeBase /\ RemovableTypeOK /\ ExportTypeOK /\ ConsoleTypeOK => ServicesTypeOK
  BY DEF IntakeBase, ServicesTypeOK
<1>2. QED
  BY <1>1, IntakeTypes, RemovableTypes, ExportTypes, ConsoleTypes, PTL
=============================================================================
