-------------------------- MODULE BootImage_proofs --------------------------
(***************************************************************************)
(* Proofs about BootImage, for any files, image sizes, power cuts, faults  *)
(* and uploads: the running image is never written, a boot is directed     *)
(* only at a whole image, and no report is pieced together of two panics.  *)
(* Then, as instances: SmartConnect, the WiFi manager, and its             *)
(* diagnostics.                                                            *)
(***************************************************************************)
EXTENDS BootImage, WellFoundedInduction, TLAPS

-----------------------------------------------------------------------------
(* The two partitions.                                                     *)

SlotsOK ==
    /\ slot \in [Slots -> {"old", "new", "bad", "torn"}]
    /\ boot \in Slots /\ running \in Slots
    /\ img \in {"new", "bad"}
    /\ card \in {"absent", "unreadable", "no_image", "new", "bad"}
    /\ pc = "sd_begin" => card \in {"new", "bad"}
    /\ pc = "sd_open" => Mounted
    /\ pc = "sd_delete" => card \in {"new", "bad"}

ImageInv == SlotsOK /\ RunningIsIntact

\* What a step may do to the partitions: nothing, a write to the partition the
\* device does not run from, a selection, or a boot.
Fills ==
    \E c \in {"new", "bad", "torn"} :
        slot' = [slot EXCEPT ![NextSlot] = c] /\ UNCHANGED <<boot, running>>

Effect == UNCHANGED images \/ Fills \/ Selects \/ (Load /\ UNCHANGED <<slot, boot>>)

LEMMA EffectKeeps == ASSUME ImageInv, Effect PROVE RunningIsIntact'
                     /\ slot' \in [Slots -> {"old", "new", "bad", "torn"}]
                     /\ boot' \in Slots /\ running' \in Slots
<1> USE DEF ImageInv, SlotsOK, RunningIsIntact, Slots, images
<1>1. NextSlot \in Slots /\ NextSlot # running
  BY DEF NextSlot
<1>2. CASE UNCHANGED images
  BY <1>2
<1>3. CASE Fills
  BY <1>1, <1>3 DEF Fills
<1>4. CASE Selects
  BY <1>1, <1>4 DEF Selects
<1>5. CASE Load /\ UNCHANGED <<slot, boot>>
  <2>1. 3 - boot \in Slots
    OBVIOUS
  <2>2. running' \in Slots /\ (slot[running'] \in Whole)
    BY <1>5, <2>1 DEF Load
  <2> QED
    BY <1>5, <2>2
<1> QED
  BY <1>2, <1>3, <1>4, <1>5 DEF Effect

LEMMA EffectSelects ==
    ASSUME ImageInv, Effect, boot' # boot PROVE slot[boot'] \in Whole
  BY DEF Effect, Fills, Selects, Load, EndAccepts, images

LEMMA PutFills == ASSUME NEW c \in {"new", "bad", "torn"}, Put(c) PROVE Fills
  BY DEF Put, Fills

LEMMA ImageInit == Init => ImageInv
  BY DEF Init, ImageInv, SlotsOK, RunningIsIntact, Slots, Whole

\* Every step has one of those effects, and keeps what the image is taken from.
LEMMA ImageEffect ==
    ASSUME ImageInv, [Next]_vars
    PROVE  /\ Effect
           /\ img' \in {"new", "bad"}
           /\ card' = card
           /\ pc' = "sd_begin" => card \in {"new", "bad"}
           /\ pc' = "sd_open" => Mounted
           /\ pc' = "sd_delete" => card \in {"new", "bad"}
<1> USE DEF ImageInv, SlotsOK, Effect, To, At, ota, Quiet
<1>1. CASE Restarts \/ PowerCut
  BY <1>1 DEF Restarts, PowerCut, Reboot, Load
<1>2. CASE PanicRecorded \/ PanicFaults
  BY <1>2 DEF PanicRecorded, PanicFaults, Reboot, Load
<1>3. CASE FilesystemUp \/ CardUp
  BY <1>3 DEF FilesystemUp, CardUp, SdUpdates
<1>4. CASE SdOpen
  BY <1>4 DEF SdOpen, Mounted
<1>5. CASE SdDelete
  BY <1>5 DEF SdDelete, DeleteNext
<1>6. CASE SdBegin
  BY <1>6, PutFills DEF SdBegin, Begins, Fault
<1>7. CASE SdWrite
  BY <1>7, PutFills DEF SdWrite, Writes, Fault
<1>8. CASE SdEnd
  BY <1>8 DEF SdEnd, Fault
<1>9. CASE ButtonPass \/ NvsUp \/ Report
  BY <1>9 DEF ButtonPass, NvsUp, Report, Fault
<1>10. CASE SafeUp
  BY <1>10 DEF SafeUp, Fault
<1>11. CASE Panics
  BY <1>11 DEF Panics, Fault
<1>12. CASE UploadArrives \/ UploadLost \/ ResetAsked
  BY <1>12 DEF UploadArrives, UploadLost, ResetAsked, Fault
<1>13. ASSUME NEW i \in {"new", "bad"}, PartBegins(i)
       PROVE  /\ Effect
              /\ img' \in {"new", "bad"} /\ card' = card
              /\ pc' \notin {"sd_begin", "sd_open", "sd_delete"}
  BY <1>13, PutFills DEF PartBegins, Begins, Fault
<1>14. CASE PartData
  BY <1>14, PutFills DEF PartData, Writes, Fault
<1>15. CASE UploadFinishes
  BY <1>15 DEF UploadFinishes, Fault
<1>16. CASE FactoryReset
  BY <1>16 DEF FactoryReset, DeleteNext
<1>17. CASE Presses
  BY <1>17 DEF Presses, Mounted
<1>18. CASE UNCHANGED vars
  BY <1>18 DEF vars, Mounted
<1> QED
  BY <1>1, <1>2, <1>3, <1>4, <1>5, <1>6, <1>7, <1>8, <1>9, <1>10, <1>11, <1>12,
     <1>13, <1>14, <1>15, <1>16, <1>17, <1>18 DEF Next, Steps

LEMMA ImageStep == ImageInv /\ [Next]_vars => ImageInv'
<1> SUFFICES ASSUME ImageInv, [Next]_vars PROVE ImageInv'
  OBVIOUS
<1>1. Mounted' = Mounted
  BY ImageEffect DEF Mounted
<1> QED
  BY <1>1, ImageEffect, EffectKeeps DEF ImageInv, SlotsOK

(* The partition the device runs from is never written: neither update     *)
(* picks it, whatever was selected before.                                 *)
THEOREM RunningIsNeverWritten == Spec => []RunningIsIntact
<1>1. ImageInv => RunningIsIntact
  BY DEF ImageInv
<1> QED
  BY ImageInit, ImageStep, <1>1, PTL DEF Spec

(* A boot is directed only at an image that is whole when it is selected.  *)
THEOREM OnlyWholeIsSelected == Spec => SelectsWhole
<1>1. ImageInv /\ [Next]_vars => [boot' # boot => slot[boot'] \in Whole]_vars
  BY ImageEffect, EffectSelects
<1> QED
  BY ImageInit, ImageStep, <1>1, PTL DEF Spec, SelectsWhole

-----------------------------------------------------------------------------
(* The crash record.                                                       *)

\* Valid is whole: the mark is off all the while a record is filled in.
RecordInv ==
    rec \in [magic : BOOLEAN, whole : BOOLEAN] /\ (rec.magic => rec.whole) /\ toldTorn = FALSE

LEMMA RecordInit == Init => RecordInv
  BY DEF Init, RecordInv

LEMMA RecordStep == RecordInv /\ [Next]_vars => RecordInv'
<1> SUFFICES ASSUME RecordInv, [Next]_vars PROVE RecordInv'
  OBVIOUS
<1> USE DEF RecordInv, Quiet, MarkWhileFilling
<1>1. CASE Restarts \/ PanicFaults
  BY <1>1 DEF Restarts, PanicFaults, Reboot
<1>2. CASE PowerCut \/ PanicRecorded
  <2>1. CASE PowerCut
    BY <2>1 DEF PowerCut, Reboot
  <2>2. CASE PanicRecorded
    BY <2>2 DEF PanicRecorded, Reboot
  <2> QED
    BY <1>2, <2>1, <2>2
<1>3. CASE Panics
  BY <1>3 DEF Panics
<1>4. CASE SafeUp
  <2>1. UNCHANGED toldTorn
    BY <1>4 DEF SafeUp
  <2>2. CASE UNCHANGED rec
    BY <2>1, <2>2
  <2>3. CASE rec' = [magic |-> FALSE, whole |-> FALSE]
    BY <2>1, <2>3
  <2> QED
    BY <1>4, <2>2, <2>3 DEF SafeUp
<1>5. CASE Report
  BY <1>5 DEF Report
<1>6. CASE Presses
  BY <1>6 DEF Presses
<1>7. CASE FilesystemUp \/ CardUp \/ SdOpen \/ SdDelete \/ SdBegin \/ SdWrite \/ SdEnd
  BY <1>7 DEF FilesystemUp, CardUp, SdOpen, SdDelete, SdBegin, SdWrite, SdEnd
<1>8. CASE ButtonPass \/ NvsUp \/ UploadArrives \/ PartData \/ UploadFinishes
  BY <1>8 DEF ButtonPass, NvsUp, UploadArrives, PartData, UploadFinishes
<1>9. CASE PartBegins("new") \/ PartBegins("bad") \/ UploadLost \/ ResetAsked
           \/ FactoryReset
  BY <1>9 DEF PartBegins, UploadLost, ResetAsked, FactoryReset
<1>10. CASE UNCHANGED vars
  BY <1>10 DEF vars
<1> QED
  BY <1>1, <1>2, <1>3, <1>4, <1>5, <1>6, <1>7, <1>8, <1>9, <1>10 DEF Next, Steps

(* The report of a crash is never pieced together of two panics            *)
(* (crash_report.c, the panic handler and crash_report_emit_pending).      *)
THEOREM ReportsAreNeverTorn == Spec => []ReportsAreWhole
<1>1. RecordInv => ReportsAreWhole
  BY DEF RecordInv, ReportsAreWhole
<1> QED
  BY RecordInit, RecordStep, <1>1, PTL DEF Spec

-----------------------------------------------------------------------------
(* The types, and the three together.                                      *)

Settings ==
    /\ files \subseteq {Files[i] : i \in 1 .. Len(Files)} /\ nvs \in {"kept", "erased"}
    /\ pc \in Phases
    /\ button \in BOOLEAN /\ started \in BOOLEAN

Counts == held \in 0 .. Hold /\ put \in 0 .. Chunks

LEMMA SettingsInit == Init => Settings
  BY DEF Init, Settings, Phases

LEMMA SettingsStep == Settings /\ [Next]_vars => Settings'
<1> SUFFICES ASSUME Settings, [Next]_vars PROVE Settings'
  OBVIOUS
<1> USE DEF Settings, Phases, To, At, ota, stored
<1>1. CASE Restarts \/ PowerCut \/ PanicRecorded \/ PanicFaults
  <2>1. Reboot
    BY <1>1 DEF Restarts, PowerCut, PanicRecorded, PanicFaults
  <2> QED
    BY <2>1 DEF Reboot, Load
<1>2. CASE Panics \/ SafeUp
  BY <1>2 DEF Panics, SafeUp
<1>3. CASE FilesystemUp \/ CardUp \/ SdOpen
  BY <1>3 DEF FilesystemUp, CardUp, SdOpen
<1>4. CASE SdDelete \/ FactoryReset
  BY <1>4 DEF SdDelete, FactoryReset, DeleteNext
<1>5. CASE SdBegin \/ SdWrite \/ SdEnd
  BY <1>5 DEF SdBegin, SdWrite, SdEnd, Begins, Writes
<1>6. CASE ButtonPass \/ NvsUp \/ Report
  BY <1>6 DEF ButtonPass, NvsUp, Report
<1>7. CASE UploadArrives \/ UploadLost \/ ResetAsked
  BY <1>7 DEF UploadArrives, UploadLost, ResetAsked
<1>8. CASE PartBegins("new") \/ PartBegins("bad")
  BY <1>8 DEF PartBegins, Begins
<1>9. CASE PartData \/ UploadFinishes
  BY <1>9 DEF PartData, Writes, UploadFinishes
<1>10. CASE Presses
  BY <1>10 DEF Presses
<1>11. CASE UNCHANGED vars
  BY <1>11 DEF vars
<1> QED
  BY <1>1, <1>2, <1>3, <1>4, <1>5, <1>6, <1>7, <1>8, <1>9, <1>10, <1>11 DEF Next, Steps

LEMMA CountsInit == Init => Counts
  BY BootAssumption DEF Init, Counts

LEMMA CountsStep == Counts /\ [Next]_vars => Counts'
<1> SUFFICES ASSUME Counts, [Next]_vars PROVE Counts'
  OBVIOUS
<1> USE BootAssumption DEF Counts, ota
<1>1. CASE Restarts \/ PowerCut \/ PanicRecorded \/ PanicFaults
  BY <1>1 DEF Restarts, PowerCut, PanicRecorded, PanicFaults, Reboot
<1>2. CASE Panics \/ SafeUp
  BY <1>2 DEF Panics, SafeUp
<1>3. CASE FilesystemUp \/ CardUp \/ SdOpen \/ SdDelete \/ FactoryReset
  BY <1>3 DEF FilesystemUp, CardUp, SdOpen, SdDelete, FactoryReset
<1>4. CASE SdBegin \/ SdEnd
  BY <1>4 DEF SdBegin, SdEnd, Begins
<1>5. CASE SdWrite \/ PartData
  BY <1>5 DEF SdWrite, PartData, Writes
<1>6. CASE ButtonPass
  BY <1>6 DEF ButtonPass
<1>7. CASE NvsUp \/ Report \/ UploadArrives \/ UploadLost \/ ResetAsked
  BY <1>7 DEF NvsUp, Report, UploadArrives, UploadLost, ResetAsked
<1>8. CASE PartBegins("new") \/ PartBegins("bad")
  BY <1>8 DEF PartBegins, Begins
<1>9. CASE UploadFinishes \/ Presses
  BY <1>9 DEF UploadFinishes, Presses
<1>10. CASE UNCHANGED vars
  BY <1>10 DEF vars
<1> QED
  BY <1>1, <1>2, <1>3, <1>4, <1>5, <1>6, <1>7, <1>8, <1>9, <1>10 DEF Next, Steps

(* Every variable of the boot keeps its type: no update writes past the    *)
(* chunks of its image, and the button is counted no further than the hold *)
(* that starts safe mode.                                                  *)
THEOREM TypeCorrect == Spec => []TypeOK
<1>1. ImageInv /\ RecordInv /\ Settings /\ Counts => TypeOK
  <2> SUFFICES ASSUME ImageInv, RecordInv, Settings, Counts PROVE TypeOK
    OBVIOUS
  <2>1. /\ slot \in [Slots -> {"old", "new", "bad", "torn"}]
        /\ boot \in Slots /\ running \in Slots /\ img \in {"new", "bad"}
    BY DEF ImageInv, SlotsOK
  <2>2. rec \in [magic : BOOLEAN, whole : BOOLEAN] /\ toldTorn \in BOOLEAN
    BY DEF RecordInv
  <2> QED
    BY <2>1, <2>2 DEF Settings, Counts, TypeOK
<1> QED
  BY ImageInit, ImageStep, RecordInit, RecordStep, SettingsInit, SettingsStep, CountsInit,
     CountsStep, <1>1, PTL DEF Spec

(* Whatever cuts a boot or an update short, altogether (main.c, sdcard.c,  *)
(* safemode.c, crash_report.c).                                            *)
THEOREM ImagesStayWhole == Spec => ImagesAreWhole
  BY TypeCorrect, RunningIsNeverWritten, OnlyWholeIsSelected, ReportsAreNeverTorn, PTL
  DEF ImagesAreWhole
-----------------------------------------------------------------------------
(* The home and drive modes, which the settings configure.                   *)
CONSTANTS DriveDelay, HomeDelay, Configs, NoNet, MaxModeSaves, MaxRadioFaults

VARIABLES st, timer, todo, wifi, join, ble, flags, networks, cfg, motion, linked,
          awake, mode_saves, radio_faults, moving, still

Modes == INSTANCE SmartConnect
         WITH held <- networks, saves <- mode_saves, faults <- radio_faults,
              MaxSaves <- MaxModeSaves, MaxFaults <- MaxRadioFaults

\* The delays, and that the shortest timeout there is, is one.
ModeConstants ==
    /\ DriveDelay \in Nat /\ HomeDelay \in Nat /\ Modes!MinTimeout \in Nat
    /\ \A c \in Configs : c.timeout \in Nat /\ Modes!MinTimeout <= c.timeout

Calls == {"home_flags", "ble_disable", "sta_disconnect", "disable", "deinit", "home_up",
          "drive_flags", "drive_up", "clear_home", "clear_drive"}
Ends  == {"home_up", "drive_up", "deinit"}

\* A list of calls to make ends in one that enters a state, and what is left of
\* a delay and what the car has done of it make up the delay.
TodoInv == todo \in Seq(Calls) /\ (todo # <<>> => todo[Len(todo)] \in Ends)
DelayInv ==
    /\ timer \in Nat /\ moving \in Nat /\ still \in Nat /\ cfg \in Configs
    /\ st = "WAIT_ON" => timer + moving >= DriveDelay
    /\ st = "WAIT_OFF" => timer + still >= HomeDelay
    /\ st = "DRIVE_TIMEOUT" => timer + still >= Modes!MinTimeout

LEMMA Concat ==
    ASSUME NEW S, NEW a \in Seq(S), NEW b \in Seq(S)
    PROVE  /\ a \o b \in Seq(S) /\ Len(a \o b) = Len(a) + Len(b)
           /\ \A i \in 1 .. Len(b) : (a \o b)[Len(a) + i] = b[i]
<1>1. a \o b \in Seq(S)
  OBVIOUS
<1>2. Len(a \o b) = Len(a) + Len(b)
  OBVIOUS
<1>3. \A i \in 1 .. Len(b) : (a \o b)[Len(a) + i] = b[i]
  OBVIOUS
<1> QED
  BY <1>1, <1>2, <1>3

\* What takes the drive mode down, by any of its two connections.
LEMMA DriveList ==
    ASSUME NEW S,
           {"clear_drive", "sta_disconnect", "ble_disable", "disable", "deinit"} \subseteq S
    PROVE  Modes!DisableDrive \in Seq(S) /\ Len(Modes!DisableDrive) = 4
<1> DEFINE a == <<"clear_drive">>
           c == <<"disable", "deinit">>
<1>1. /\ a \in Seq(S) /\ <<"sta_disconnect">> \in Seq(S)
      /\ <<"ble_disable">> \in Seq(S) /\ c \in Seq(S)
  OBVIOUS
<1>2. Len(a) = 1 /\ Len(<<"sta_disconnect">>) = 1 /\ Len(<<"ble_disable">>) = 1 /\ Len(c) = 2
  OBVIOUS
<1>3. PICK m \in Seq(S) : Len(m) = 1 /\ Modes!DisableDrive = a \o m \o c
  BY <1>1, <1>2 DEF Modes!DisableDrive
<1> HIDE DEF a, c
<1>4. a \o m \in Seq(S) /\ Len(a \o m) = 2
  <2>1. a \o m \in Seq(S) /\ Len(a \o m) = Len(a) + Len(m)
    BY <1>1, Concat
  <2> QED
    BY <1>2, <1>3, <2>1
<1>5. (a \o m) \o c \in Seq(S) /\ Len((a \o m) \o c) = Len(a \o m) + Len(c)
  BY <1>1, <1>4, Concat
<1> QED
  BY <1>2, <1>3, <1>4, <1>5

\* The lists a pass may begin, and which of the two radios they bring up.
LEMMA Lists ==
    /\ \A l \in {Modes!EnableHome, Modes!EnableDrive, Modes!DisableHome,
                  Modes!DisableDrive \o Modes!EnableHome} :
          l \in Seq(Calls) /\ l # <<>> /\ l[Len(l)] \in Ends
    /\ \A i \in 1 .. Len(Modes!EnableDrive) : Modes!EnableDrive[i] # "home_up"
    /\ \A l \in {Modes!EnableHome, Modes!DisableHome,
                  Modes!DisableDrive \o Modes!EnableHome} :
          (\A i \in 1 .. Len(l) : l[i] # "drive_up") /\ l # Modes!EnableDrive
<1>1. /\ Modes!EnableHome \in Seq(Calls \ {"drive_up"}) /\ Len(Modes!EnableHome) = 6
      /\ Modes!EnableHome[6] = "home_up"
  BY DEF Modes!EnableHome, Calls
<1>2. /\ Modes!EnableDrive \in Seq(Calls \ {"home_up"}) /\ Len(Modes!EnableDrive) = 5
      /\ Modes!EnableDrive[5] = "drive_up"
  BY DEF Modes!EnableDrive, Calls
<1>3. /\ Modes!DisableHome \in Seq(Calls \ {"drive_up"}) /\ Len(Modes!DisableHome) = 4
      /\ Modes!DisableHome[4] = "deinit"
  BY DEF Modes!DisableHome, Calls
<1>4. Modes!DisableDrive \in Seq(Calls \ {"drive_up"}) /\ Len(Modes!DisableDrive) = 4
  BY DriveList DEF Calls
<1>5. /\ Modes!DisableDrive \o Modes!EnableHome \in Seq(Calls \ {"drive_up"})
      /\ Len(Modes!DisableDrive \o Modes!EnableHome) = 10
      /\ (Modes!DisableDrive \o Modes!EnableHome)[10] = "home_up"
  <2> DEFINE S == Calls \ {"drive_up"}
             H == Modes!EnableHome
  <2>1. H \in Seq(S) /\ Len(H) = 6 /\ H[6] = "home_up" /\ 6 \in 1 .. Len(H)
        /\ Modes!DisableDrive \in Seq(S) /\ Len(Modes!DisableDrive) = 4
    BY <1>1, <1>4
  <2> DEFINE M == Modes!DisableDrive
  <2> HIDE DEF S, H, M
  <2>2. M \in Seq(S) /\ Len(M) = 4
    BY <2>1 DEF M
  <2>3. /\ M \o H \in Seq(S) /\ Len(M \o H) = Len(M) + Len(H)
        /\ (M \o H)[Len(M) + 6] = H[6]
    <3>1. M \o H \in Seq(S) /\ Len(M \o H) = Len(M) + Len(H)
      BY <2>1, <2>2, Concat
    <3>2. \A i \in 1 .. Len(H) : (M \o H)[Len(M) + i] = H[i]
      <4>1. H \in Seq(S) /\ M \in Seq(S)
        BY <2>1, <2>2
      <4> QED
        BY <4>1, Concat
    <3> QED
      BY <2>1, <3>1, <3>2
  <2>4. Len(M \o H) = 10 /\ (M \o H)[10] = "home_up"
    BY <2>1, <2>2, <2>3
  <2> QED
    BY <2>3, <2>4 DEF S, H, M
<1>6. \A x, l : l \in Seq(Calls \ {x})
                => l \in Seq(Calls) /\ \A i \in 1 .. Len(l) : l[i] # x
  <2> SUFFICES ASSUME NEW x, NEW l \in Seq(Calls \ {x})
               PROVE  l \in Seq(Calls) /\ \A i \in 1 .. Len(l) : l[i] # x
    OBVIOUS
  <2>1. \A i \in 1 .. Len(l) : l[i] \in Calls \ {x}
    OBVIOUS
  <2>2. Len(l) \in Nat /\ l \in [1 .. Len(l) -> Calls \ {x}]
    OBVIOUS
  <2>3. l \in [1 .. Len(l) -> Calls]
    BY <2>2
  <2>4. l \in Seq(Calls)
    BY <2>2, <2>3
  <2> QED
    BY <2>1, <2>4
<1> DEFINE A == Modes!EnableHome
           B == Modes!EnableDrive
           C == Modes!DisableHome
           D == Modes!DisableDrive \o Modes!EnableHome
<1> HIDE DEF A, B, C, D
<1>7. \A l \in {A, B, C, D} : l \in Seq(Calls)
  BY <1>1, <1>2, <1>3, <1>5, <1>6 DEF A, B, C, D
<1>8. \A l \in {A, B, C, D} : l # <<>> /\ l[Len(l)] \in Ends
  <2>1. Len(A) = 6 /\ A[6] \in Ends /\ Len(B) = 5 /\ B[5] \in Ends
    BY <1>1, <1>2 DEF A, B, Ends
  <2>2. Len(C) = 4 /\ C[4] \in Ends /\ Len(D) = 10 /\ D[10] \in Ends
    BY <1>3, <1>5 DEF C, D, Ends
  <2>3. A # <<>> /\ B # <<>> /\ C # <<>> /\ D # <<>>
    <3>1. Len(A) # 0 /\ Len(B) # 0 /\ Len(C) # 0 /\ Len(D) # 0
      BY <2>1, <2>2
    <3>2. \A s : Len(s) # 0 => s # <<>>
      OBVIOUS
    <3> QED
      BY <3>1, <3>2, Zenon
  <2>4. /\ A[Len(A)] \in Ends /\ B[Len(B)] \in Ends
        /\ C[Len(C)] \in Ends /\ D[Len(D)] \in Ends
    <3>1. \A s, n : Len(s) = n /\ s[n] \in Ends => s[Len(s)] \in Ends
      OBVIOUS
    <3> QED
      BY <2>1, <2>2, <3>1, Zenon
  <2> QED
    BY <2>3, <2>4
<1>9. \A i \in 1 .. Len(B) : B[i] # "home_up"
  BY <1>2, <1>6 DEF B
<1>10. \A l \in {A, C, D} : \A i \in 1 .. Len(l) : l[i] # "drive_up"
  BY <1>1, <1>3, <1>5, <1>6 DEF A, C, D
<1>11. \A l \in {A, C, D} : l # B
  <2>1. B[5] = "drive_up" /\ 5 \in 1 .. Len(B)
    BY <1>2 DEF B
  <2> QED
    BY <1>10, <2>1
<1> QED
  BY <1>7, <1>8, <1>9, <1>10, <1>11 DEF A, B, C, D

\* The new list of calls of a pass.
LEMMA PassTodo ==
    ASSUME Modes!Pass
    PROVE  todo' \in {<<>>, Modes!EnableHome, Modes!EnableDrive, Modes!DisableHome,
                      Modes!DisableDrive \o Modes!EnableHome}
  BY DEF Modes!Pass, Modes!Stay, Modes!Go, Modes!Change, Modes!FromInit, Modes!FromWaitOn,
         Modes!FromWaitOff, Modes!FromDrive, Modes!FromTimeout, Modes!FromHome

LEMMA TodoStep == TodoInv /\ [Modes!Next]_(Modes!vars) => TodoInv'
<1> SUFFICES ASSUME TodoInv, [Modes!Next]_(Modes!vars) PROVE TodoInv'
  OBVIOUS
<1>1. CASE Modes!Switch
  <2>1. todo \in Seq(Calls) /\ todo # <<>> /\ todo' = Tail(todo)
        /\ todo[Len(todo)] \in Ends
    BY <1>1 DEF Modes!Switch, TodoInv
  <2>2. Tail(todo) \in Seq(Calls) /\ Len(Tail(todo)) = Len(todo) - 1
        /\ \A i \in 1 .. Len(todo) - 1 : Tail(todo)[i] = todo[i + 1]
    BY <2>1
  <2>3. ASSUME todo' # <<>> PROVE todo'[Len(todo')] = todo[Len(todo)]
    <3>1. Len(todo) \in Nat /\ Len(todo') = Len(todo) - 1 /\ Len(todo') # 0 /\ Len(todo) # 0
      BY <2>1, <2>2, <2>3
    <3> QED
      BY <2>1, <2>2, <3>1
  <2> QED
    BY <2>1, <2>2, <2>3 DEF TodoInv
<1>2. CASE Modes!Pass
  <2>1. todo' = <<>> \/ (todo' \in Seq(Calls) /\ todo' # <<>> /\ todo'[Len(todo')] \in Ends)
    BY <1>2, PassTodo, Lists
  <2>2. <<>> \in Seq(Calls)
    OBVIOUS
  <2> QED
    BY <2>1, <2>2 DEF TodoInv
<1>3. CASE Modes!Wake
  BY <1>3, Lists DEF TodoInv, Modes!Wake, Modes!Boot
<1>4. CASE UNCHANGED todo
  BY <1>4 DEF TodoInv
<1>5. Modes!Moves \/ Modes!PhoneLinks \/ Modes!Save \/ Modes!GoToSleep
      \/ Modes!SleepTeardown \/ UNCHANGED Modes!vars => UNCHANGED todo
  BY DEF Modes!Moves, Modes!PhoneLinks, Modes!Save, Modes!GoToSleep, Modes!SleepTeardown,
         Modes!Rest, Modes!vars
<1> QED
  BY <1>1, <1>2, <1>3, <1>4, <1>5 DEF Modes!Next

\* What a pass makes of the two ages and of the timer.
LEMMA PassAges ==
    ASSUME ModeConstants, DelayInv, Modes!Pass
    PROVE  /\ moving' \in Nat /\ still' \in Nat
           /\ motion # "still" => moving' > moving \/ moving' >= Modes!Top
           /\ motion # "moving" => still' > still \/ still' >= Modes!Top
           /\ Modes!Left \in Nat /\ timer <= Modes!Left + 1 /\ (Modes!Expired <=> Modes!Left = 0)
           /\ Modes!Top \in Nat /\ Modes!Top >= DriveDelay /\ Modes!Top >= HomeDelay
           /\ Modes!Top >= Modes!MinTimeout /\ cfg' = cfg
<1>1. timer \in Nat /\ moving \in Nat /\ still \in Nat
  BY DEF DelayInv
<1>2. /\ Modes!Top \in Nat /\ Modes!Top >= DriveDelay /\ Modes!Top >= HomeDelay
      /\ Modes!Top >= Modes!MinTimeout
  BY DEF ModeConstants, Modes!Top
<1>3. Modes!Left \in Nat /\ timer <= Modes!Left + 1 /\ (Modes!Expired <=> Modes!Left = 0)
  BY <1>1 DEF Modes!Left, Modes!Expired
<1>4. /\ moving' = (IF motion = "still" THEN 0 ELSE Modes!Cap(moving))
      /\ still' = (IF motion = "moving" THEN 0 ELSE Modes!Cap(still))
      /\ cfg' = cfg
  BY DEF Modes!Pass
<1>5. \A n \in Nat : Modes!Cap(n) \in Nat /\ (Modes!Cap(n) > n \/ Modes!Cap(n) >= Modes!Top)
  BY <1>2 DEF Modes!Cap
<1> QED
  BY <1>1, <1>2, <1>3, <1>4, <1>5


\* The arithmetic of a delay that goes on, and of one that begins.
LEMMA DelayGoesOn ==
    \A t, l, m, n, d \in Nat :
        t + m >= d /\ t <= l + 1 /\ (n > m \/ n >= d) => l + n >= d
  OBVIOUS

LEMMA DelayBegins == \A t, n, d \in Nat : t >= d => t + n >= d
  OBVIOUS

\* A pass keeps the delays, and begins a change only when one is over.
LEMMA PassDelay ==
    ASSUME ModeConstants, DelayInv, Modes!Pass
    PROVE  /\ DelayInv'
           /\ todo' = Modes!EnableDrive => moving' >= DriveDelay
           /\ st = "WAIT_OFF" /\ todo' # <<>> => still' >= HomeDelay
           /\ st = "DRIVE_TIMEOUT" /\ todo' # <<>> => still' >= Modes!MinTimeout
<1> DEFINE Left == Modes!Left
           Min == Modes!MinTimeout
           Due == /\ todo' = Modes!EnableDrive => moving' >= DriveDelay
                  /\ st = "WAIT_OFF" /\ todo' # <<>> => still' >= HomeDelay
                  /\ st = "DRIVE_TIMEOUT" /\ todo' # <<>> => still' >= Min
           Delays == /\ st' = "WAIT_ON" => timer' + moving' >= DriveDelay
                     /\ st' = "WAIT_OFF" => timer' + still' >= HomeDelay
                     /\ st' = "DRIVE_TIMEOUT" => timer' + still' >= Min
<1>1. /\ timer \in Nat /\ moving \in Nat /\ still \in Nat /\ cfg \in Configs
      /\ cfg.timeout \in Nat /\ cfg.timeout >= Min
      /\ DriveDelay \in Nat /\ HomeDelay \in Nat /\ Min \in Nat
  BY DEF DelayInv, ModeConstants
<1>2. /\ moving' \in Nat /\ still' \in Nat /\ Left \in Nat /\ timer <= Left + 1
      /\ motion # "still" => moving' > moving \/ moving' >= DriveDelay
      /\ motion # "moving" => still' > still \/ (still' >= HomeDelay /\ still' >= Min)
      /\ (Modes!Expired <=> Left = 0) /\ cfg' = cfg
  <2>1. /\ moving' \in Nat /\ still' \in Nat /\ Left \in Nat /\ timer <= Left + 1
        /\ (Modes!Expired <=> Left = 0) /\ cfg' = cfg
    BY PassAges
  <2>2. /\ motion # "still" => moving' > moving \/ moving' >= Modes!Top
        /\ motion # "moving" => still' > still \/ still' >= Modes!Top
        /\ Modes!Top \in Nat /\ Modes!Top >= DriveDelay /\ Modes!Top >= HomeDelay
        /\ Modes!Top >= Min
    BY PassAges
  <2> QED
    BY <1>1, <2>1, <2>2
<1>3. /\ todo = <<>> /\ Modes!EnableDrive # <<>>
      /\ Modes!DisableHome # Modes!EnableDrive /\ Modes!EnableHome # Modes!EnableDrive
      /\ Modes!DisableDrive \o Modes!EnableHome # Modes!EnableDrive
  BY Lists DEF Modes!Pass
<1> HIDE DEF Left, Min
\* What is left and what has passed of a delay that goes on.
<1>4. motion # "still" /\ st = "WAIT_ON" => Left + moving' >= DriveDelay
  <2> SUFFICES ASSUME motion # "still", st = "WAIT_ON" PROVE Left + moving' >= DriveDelay
    OBVIOUS
  <2>1. timer + moving >= DriveDelay
    BY DEF DelayInv
  <2> QED
    <3>1. moving' > moving \/ moving' >= DriveDelay
      BY <1>2
    <3>2. timer <= Left + 1 /\ Left \in Nat /\ moving' \in Nat
      BY <1>2
    <3> QED
      BY <1>1, <2>1, <3>1, <3>2, DelayGoesOn
<1>5. motion # "moving" /\ st = "WAIT_OFF" => Left + still' >= HomeDelay
  <2> SUFFICES ASSUME motion # "moving", st = "WAIT_OFF" PROVE Left + still' >= HomeDelay
    OBVIOUS
  <2>1. timer + still >= HomeDelay
    BY DEF DelayInv
  <2> QED
    <3>1. still' > still \/ still' >= HomeDelay
      BY <1>2
    <3>2. timer <= Left + 1 /\ Left \in Nat /\ still' \in Nat
      BY <1>2
    <3> QED
      BY <1>1, <2>1, <3>1, <3>2, DelayGoesOn
<1>6. motion # "moving" /\ st = "DRIVE_TIMEOUT" => Left + still' >= Min
  <2> SUFFICES ASSUME motion # "moving", st = "DRIVE_TIMEOUT" PROVE Left + still' >= Min
    OBVIOUS
  <2>1. timer + still >= Min
    BY DEF DelayInv, Min
  <2> QED
    <3>1. still' > still \/ still' >= Min
      BY <1>2
    <3>2. timer <= Left + 1 /\ Left \in Nat /\ still' \in Nat
      BY <1>2
    <3> QED
      BY <1>1, <2>1, <3>1, <3>2, DelayGoesOn
<1>7. ASSUME timer' \in Nat, Delays, Due  PROVE DelayInv' /\ Due
  BY <1>1, <1>2, <1>7 DEF DelayInv, Min
\* The three things a pass may do: go on, enter a state, begin a change.
<1>8. ASSUME st' = st, timer' = Left, todo' = <<>>, st = "WAIT_ON" => motion # "still",
             st \in {"WAIT_OFF", "DRIVE_TIMEOUT"} => motion # "moving"
      PROVE  timer' \in Nat /\ Delays /\ Due
  BY <1>2, <1>3, <1>4, <1>5, <1>6, <1>8
<1>9. ASSUME todo' = <<>>, timer' \in Nat,
             \/ st' = "WAIT_ON" /\ timer' = DriveDelay
             \/ st' = "WAIT_OFF" /\ timer' = HomeDelay
             \/ st' = "DRIVE"
             \/ st' = "DRIVE_TIMEOUT" /\ timer' = cfg.timeout
      PROVE  timer' \in Nat /\ Delays /\ Due
  <2>1. Due
    BY <1>3, <1>9
  <2>2. ASSUME st' = "DRIVE_TIMEOUT" PROVE timer' + still' >= Min
    <3>1. timer' = cfg.timeout
      BY <1>9, <2>2
    <3>2. cfg.timeout >= Min /\ cfg.timeout \in Nat /\ Min \in Nat /\ still' \in Nat
      BY <1>1, <1>2
    <3> QED
      BY <3>1, <3>2, DelayBegins
  <2>3. ASSUME st' = "WAIT_ON" PROVE timer' + moving' >= DriveDelay
    <3>1. timer' = DriveDelay /\ DriveDelay \in Nat /\ moving' \in Nat
      BY <1>1, <1>2, <1>9, <2>3
    <3>2. timer' \in Nat /\ timer' >= DriveDelay
      BY <3>1
    <3> QED
      BY <3>1, <3>2, DelayBegins
  <2>4. ASSUME st' = "WAIT_OFF" PROVE timer' + still' >= HomeDelay
    <3>1. timer' = HomeDelay /\ HomeDelay \in Nat /\ still' \in Nat
      BY <1>1, <1>2, <1>9, <2>4
    <3>2. timer' \in Nat /\ timer' >= HomeDelay
      BY <3>1
    <3> QED
      BY <3>1, <3>2, DelayBegins
  <2> QED
    BY <1>9, <2>1, <2>2, <2>3, <2>4
<1>10. ASSUME st' = st, timer' = Left, Modes!Expired,
              \/ st = "WAIT_ON" /\ motion # "still"
              \/ /\ st \in {"WAIT_OFF", "DRIVE_TIMEOUT"} /\ motion # "moving"
                 /\ todo' # Modes!EnableDrive
       PROVE  timer' \in Nat /\ Delays /\ Due
  <2>1. Left = 0 /\ timer' = 0
    BY <1>2, <1>10
  <2>2. st = "WAIT_ON" => moving' >= DriveDelay
    BY <1>2, <1>4, <1>10, <2>1
  <2>3. st = "WAIT_OFF" => still' >= HomeDelay
    BY <1>2, <1>5, <1>10, <2>1
  <2>4. st = "DRIVE_TIMEOUT" => still' >= Min
    BY <1>2, <1>6, <1>10, <2>1
  <2>5. Delays
    BY <1>2, <1>10, <2>1, <2>2, <2>3, <2>4
  <2>6. Due
    BY <1>10, <2>2, <2>3, <2>4
  <2> QED
    BY <2>1, <2>5, <2>6
<1>11. CASE motion = "invalid"
  <2>2. st' = st /\ timer' = Left /\ todo' = <<>>
    BY <1>3, <1>11 DEF Modes!Pass, Modes!Stay, Modes!FromInit, Modes!FromHome, Modes!Go,
         Modes!Change, Left
  <2> QED
    BY <1>2, <1>7, <1>8, <1>11, <2>2
<1>12. CASE motion # "invalid" /\ st = "INIT"
  <2>1. /\ todo' = <<>>
        /\ \/ st' = "WAIT_ON" /\ timer' = DriveDelay
           \/ st' = "WAIT_OFF" /\ timer' = HomeDelay
    BY <1>3, <1>12 DEF Modes!Pass, Modes!FromInit, Modes!Go
  <2> QED
    BY <1>1, <1>7, <1>9, <2>1
<1>13. CASE motion # "invalid" /\ st = "WAIT_ON"
  <2>1. \/ motion = "still" /\ todo' = <<>> /\ st' = "WAIT_OFF" /\ timer' = HomeDelay
        \/ /\ motion # "still" /\ st' = st /\ timer' = Left
           /\ todo' = <<>> \/ Modes!Expired
    BY <1>3, <1>13
    DEF Modes!Pass, Modes!FromWaitOn, Modes!Go, Modes!Change, Modes!Stay, Left
  <2> QED
    BY <1>1, <1>7, <1>8, <1>9, <1>10, <1>13, <2>1
<1>14. CASE motion # "invalid" /\ st = "WAIT_OFF"
  <2>1. \/ motion = "moving" /\ todo' = <<>> /\ st' = "WAIT_ON" /\ timer' = DriveDelay
        \/ /\ motion # "moving" /\ st' = st /\ timer' = Left
           /\ todo' = <<>> \/ (Modes!Expired /\ todo' = Modes!EnableHome)
    BY <1>3, <1>14
    DEF Modes!Pass, Modes!FromWaitOff, Modes!Go, Modes!Change, Modes!Stay, Left
  <2> QED
    BY <1>1, <1>3, <1>7, <1>8, <1>9, <1>10, <1>14, <2>1
<1>15. CASE motion # "invalid" /\ st = "DRIVE"
  <2>1. /\ todo' = <<>>
        /\ \/ st' = "DRIVE_TIMEOUT" /\ timer' = cfg.timeout
           \/ st' = "DRIVE" /\ timer' = Left
    BY <1>3, <1>15 DEF Modes!Pass, Modes!FromDrive, Modes!Go, Modes!Stay, Left
  <2> QED
    BY <1>1, <1>2, <1>7, <1>9, <2>1
<1>16. CASE motion # "invalid" /\ st = "DRIVE_TIMEOUT"
  <2>1. \/ todo' = <<>> /\ st' = "DRIVE" /\ timer' = Left
        \/ /\ motion # "moving" /\ st' = st /\ timer' = Left
           /\ \/ todo' = <<>>
              \/ Modes!Expired /\ todo' = Modes!DisableDrive \o Modes!EnableHome
    BY <1>3, <1>16
    DEF Modes!Pass, Modes!FromTimeout, Modes!Go, Modes!Change, Modes!Stay, Left
  <2>2. CASE todo' = <<>> /\ st' = "DRIVE" /\ timer' = Left
    BY <1>2, <1>7, <1>9, <2>2
  <2>3. CASE motion # "moving" /\ st' = st /\ timer' = Left /\ todo' = <<>>
    BY <1>2, <1>7, <1>8, <1>16, <2>3
  <2>4. CASE /\ motion # "moving" /\ st' = st /\ timer' = Left /\ Modes!Expired
             /\ todo' = Modes!DisableDrive \o Modes!EnableHome
    <3>1. todo' # Modes!EnableDrive /\ st \in {"WAIT_OFF", "DRIVE_TIMEOUT"}
      BY <1>3, <1>16, <2>4
    <3>2. timer' \in Nat /\ Delays /\ Due
      BY <1>10, <2>4, <3>1
    <3> QED
      BY <1>7, <3>2 DEF Min
  <2> QED
    BY <2>1, <2>2, <2>3, <2>4
<1>17. CASE motion # "invalid"
            /\ st \notin {"INIT", "WAIT_ON", "WAIT_OFF", "DRIVE", "DRIVE_TIMEOUT"}
  <2>1. st' = st /\ timer' = Left /\ todo' \in {<<>>, Modes!DisableHome}
    BY <1>3, <1>17 DEF Modes!Pass, Modes!FromHome, Modes!Change, Modes!Stay, Left
  <2> QED
    BY <1>2, <1>3, <1>7, <1>17, <2>1
<1> QED
  BY <1>11, <1>12, <1>13, <1>14, <1>15, <1>16, <1>17 DEF Min
LEMMA DelayStep ==
    ASSUME ModeConstants
    PROVE  TodoInv /\ DelayInv /\ [Modes!Next]_(Modes!vars) => DelayInv'
<1> SUFFICES ASSUME TodoInv, DelayInv, [Modes!Next]_(Modes!vars) PROVE DelayInv'
  OBVIOUS
<1>1. DriveDelay \in Nat
  BY DEF ModeConstants
<1>2. CASE Modes!Pass
  BY <1>2, PassDelay
<1>3. CASE Modes!Switch
  <2>1. UNCHANGED <<moving, still, cfg>> /\ todo # <<>>
    BY <1>3 DEF Modes!Switch
  <2>2. CASE UNCHANGED <<st, timer>>
    BY <2>1, <2>2 DEF DelayInv
  <2>3. CASE st' \in {"HOME", "DRIVE"} /\ UNCHANGED timer
    BY <2>1, <2>3 DEF DelayInv
  <2>4. CASE st' \notin {"WAIT_OFF", "DRIVE_TIMEOUT"} /\ timer' = DriveDelay
    <3>1. timer' + moving' >= DriveDelay /\ timer' \in Nat
      <4>1. moving' \in Nat /\ timer' \in Nat /\ timer' >= DriveDelay
        BY <1>1, <2>1, <2>4 DEF DelayInv
      <4> QED
        BY <1>1, <4>1, DelayBegins
    <3> QED
      BY <2>1, <2>4, <3>1 DEF DelayInv
  <2>5. ASSUME Len(todo) # 1 PROVE UNCHANGED <<st, timer>>
    <3>1. Len(todo) > 1
      <4>1. Len(todo) \in Nat /\ Len(todo) # 0
        BY <2>1 DEF TodoInv
      <4> QED
        BY <2>5, <4>1
    <3> QED
      BY <1>3, <2>5, <3>1 DEF Modes!Switch
  <2>6. ASSUME Len(todo) = 1
        PROVE  \/ UNCHANGED <<st, timer>> \/ (st' \in {"HOME", "DRIVE"} /\ UNCHANGED timer)
               \/ (st' \notin {"WAIT_OFF", "DRIVE_TIMEOUT"} /\ timer' = DriveDelay)
    <3>1. Head(todo) \in Ends
      <4>1. Head(todo) = todo[Len(todo)]
        BY <2>1, <2>6 DEF TodoInv
      <4> QED
        BY <2>1, <4>1 DEF TodoInv
    <3>2. ~(Len(todo) > 1)
      BY <2>6
    <3>3. CASE Head(todo) = "deinit"
      BY <1>3, <2>6, <3>2, <3>3 DEF Modes!Switch
    <3>4. CASE Head(todo) \in {"home_up", "drive_up"}
      BY <1>3, <2>6, <3>2, <3>4 DEF Modes!Switch
    <3> QED
      BY <3>1, <3>3, <3>4 DEF Ends
  <2> QED
    BY <2>2, <2>3, <2>4, <2>5, <2>6
<1>4. CASE Modes!Wake
  BY <1>4 DEF DelayInv, Modes!Wake, Modes!Boot
<1>5. CASE Modes!Save
  BY <1>5 DEF DelayInv, Modes!Save
<1>6. CASE UNCHANGED <<st, timer, cfg, moving, still>>
  BY <1>6 DEF DelayInv
<1>7. Modes!Moves \/ Modes!PhoneLinks \/ Modes!GoToSleep \/ Modes!SleepTeardown
      \/ UNCHANGED Modes!vars => UNCHANGED <<st, timer, cfg, moving, still>>
  BY DEF Modes!Moves, Modes!PhoneLinks, Modes!GoToSleep, Modes!SleepTeardown,
         Modes!Rest, Modes!vars
<1> QED
  BY <1>2, <1>3, <1>4, <1>5, <1>6, <1>7 DEF Modes!Next

\* Only a pass begins a change.
LEMMA OnlyPassBegins ==
    ASSUME [Modes!Next]_(Modes!vars), todo = <<>>, awake, todo' # <<>>
    PROVE  Modes!Pass
  BY DEF Modes!Next, Modes!vars, Modes!Switch, Modes!Wake, Modes!Moves, Modes!PhoneLinks,
         Modes!Save, Modes!GoToSleep, Modes!SleepTeardown, Modes!Rest

LEMMA BeginsDue ==
    ASSUME ModeConstants, DelayInv, [Modes!Next]_(Modes!vars)
    PROVE  /\ Modes!Begins("drive_up") => moving' >= DriveDelay
           /\ (st = "WAIT_OFF" /\ Modes!Begins("home_up")) => still' >= HomeDelay
           /\ (st = "DRIVE_TIMEOUT" /\ Modes!Begins("home_up")) => still' >= Modes!MinTimeout
<1>1. ASSUME NEW call, Modes!Begins(call) PROVE Modes!Pass /\ todo' # <<>>
  <2>1. todo = <<>> /\ awake /\ \E i \in 1 .. Len(todo') : todo'[i] = call
    BY <1>1 DEF Modes!Begins
  <2>2. todo' # <<>>
    BY <2>1
  <2> QED
    BY <2>1, <2>2, OnlyPassBegins
<1>2. ASSUME Modes!Begins("drive_up") PROVE moving' >= DriveDelay
  <2>1. Modes!Pass /\ todo' # <<>>
    BY <1>1, <1>2
  <2>2. \E i \in 1 .. Len(todo') : todo'[i] = "drive_up"
    BY <1>2 DEF Modes!Begins
  <2>3. todo' = Modes!EnableDrive
    BY <2>1, <2>2, PassTodo, Lists
  <2> QED
    BY <2>1, <2>3, PassDelay
<1>3. ASSUME Modes!Begins("home_up")
      PROVE  /\ st = "WAIT_OFF" => still' >= HomeDelay
             /\ st = "DRIVE_TIMEOUT" => still' >= Modes!MinTimeout
  <2>1. Modes!Pass /\ todo' # <<>>
    BY <1>1, <1>3
  <2> QED
    BY <2>1, PassDelay
<1> QED
  BY <1>2, <1>3

LEMMA ModeInit == ASSUME ModeConstants PROVE Modes!Init => TodoInv /\ DelayInv
  BY Lists DEF ModeConstants, Modes!Init, TodoInv, DelayInv

(* A change of mode needs the whole delay of the same behaviour of the car,   *)
(* for any delays, settings and number of faults: a pass that sees the other  *)
(* behaviour resets the delay it would have ended.                            *)
THEOREM SwitchesAreDebounced ==
    ASSUME ModeConstants PROVE Modes!FairSpec => Modes!SwitchIsDebounced
<1> DEFINE Inv == TodoInv /\ DelayInv
<1>1. Modes!Init => Inv
  BY ModeInit
<1>2. Inv /\ [Modes!Next]_(Modes!vars) => Inv'
  BY TodoStep, DelayStep
<1>3. Inv /\ [Modes!Next]_(Modes!vars)
      => [/\ Modes!Begins("drive_up") => moving' >= DriveDelay
          /\ (st = "WAIT_OFF" /\ Modes!Begins("home_up")) => still' >= HomeDelay
          /\ (st = "DRIVE_TIMEOUT" /\ Modes!Begins("home_up"))
                 => still' >= Modes!MinTimeout]_(Modes!vars)
  BY BeginsDue
<1> HIDE DEF Inv
<1> QED
  BY <1>1, <1>2, <1>3, PTL DEF Modes!FairSpec, Modes!SwitchIsDebounced

Stops == {"sta_disconnect", "disable", "deinit"}

\* The call k places before the last of a change that ends at home, on the road,
\* or between the two.
HomeAt(c, k) ==
    /\ k = 0 => c = "home_up"
    /\ k \in 1 .. 3 => c \in Stops
    /\ k = 4 => c = "ble_disable"
    /\ k = 5 => c = "home_flags"
    /\ k > 5 => c \in Stops \cup {"clear_drive", "ble_disable"}
DriveAt(c, k) ==
    /\ k <= 4
    /\ k = 0 => c = "drive_up"
    /\ k = 1 => c = "deinit"
    /\ k \in 2 .. 3 => c \in Stops
    /\ k = 4 => c = "drive_flags"
LeaveAt(c, k) == c \in Stops \cup {"clear_home"} /\ (k = 0 => c = "deinit")

ToHome == st \in {"INIT", "WAIT_OFF", "DRIVE_TIMEOUT"}

\* The state says which change is under way.
ScriptInv ==
    /\ todo \in Seq(Calls) /\ st \in Modes!States
    /\ \A i \in 1 .. Len(todo) :
          /\ ToHome => HomeAt(todo[i], Len(todo) - i)
          /\ st = "WAIT_ON" => DriveAt(todo[i], Len(todo) - i)
          /\ st = "HOME" => LeaveAt(todo[i], Len(todo) - i)
          /\ st # "DRIVE"

\* What the calls made so far have done, as long as none failed.
FlagsAre(f) == flags \cap {"home", "drive"} = {f}
RadioInv ==
    /\ radio_faults \in Nat
    /\ awake /\ radio_faults = 0 =>
          /\ ble \in {"off", "on"} /\ (linked => ble = "on") /\ linked \in BOOLEAN
          /\ st \in {"INIT", "WAIT_ON", "WAIT_OFF", "HOME"} => ble = "off"
          /\ ToHome /\ todo # <<>> =>
                 /\ Len(todo) <= 5 => FlagsAre("home")
                 /\ Len(todo) <= 4 => ble = "off"
          /\ st = "WAIT_ON" /\ todo # <<>> =>
                 /\ Len(todo) <= 4 => FlagsAre("drive")
                 /\ Len(todo) = 1 => wifi = "none"
          /\ st = "HOME" /\ todo = <<>> => wifi \in {"AP", "APSTA"} /\ FlagsAre("home")
          /\ st \in {"DRIVE", "DRIVE_TIMEOUT"} /\ todo = <<>> =>
                 /\ FlagsAre("drive")
                 /\ \/ wifi \in {"STA", "none"} /\ ble = "off"
                    \/ ble = "on" /\ wifi = (IF linked THEN "idle" ELSE "AP")

LEMMA Roles ==
    /\ \A i \in 1 .. Len(Modes!EnableHome) :
          HomeAt(Modes!EnableHome[i], Len(Modes!EnableHome) - i)
    /\ \A i \in 1 .. Len(Modes!EnableDrive) :
          DriveAt(Modes!EnableDrive[i], Len(Modes!EnableDrive) - i)
    /\ \A i \in 1 .. Len(Modes!DisableHome) :
          LeaveAt(Modes!DisableHome[i], Len(Modes!DisableHome) - i)
    /\ \A i \in 1 .. Len(Modes!DisableDrive \o Modes!EnableHome) :
          HomeAt((Modes!DisableDrive \o Modes!EnableHome)[i],
                 Len(Modes!DisableDrive \o Modes!EnableHome) - i)
    /\ Len(Modes!EnableHome) = 6 /\ Len(Modes!EnableDrive) = 5
    /\ Len(Modes!DisableDrive \o Modes!EnableHome) = 10
<1>1. /\ Len(Modes!EnableHome) = 6 /\ Modes!EnableHome \in Seq(Calls)
      /\ \A i \in 1 .. 6 : HomeAt(Modes!EnableHome[i], 6 - i)
  BY DEF Modes!EnableHome, HomeAt, Stops, Calls
<1>2. /\ Len(Modes!EnableDrive) = 5
      /\ \A i \in 1 .. 5 : DriveAt(Modes!EnableDrive[i], 5 - i)
  BY DEF Modes!EnableDrive, DriveAt, Stops
<1>3. /\ Len(Modes!DisableHome) = 4
      /\ \A i \in 1 .. 4 : LeaveAt(Modes!DisableHome[i], 4 - i)
  BY DEF Modes!DisableHome, LeaveAt, Stops
<1>4. /\ Len(Modes!DisableDrive) = 4 /\ Modes!DisableDrive \in Seq(Calls)
      /\ \A i \in 1 .. 4 : Modes!DisableDrive[i] \in Stops \cup {"clear_drive", "ble_disable"}
  <2> DEFINE S == Stops \cup {"clear_drive", "ble_disable"}
  <2>1. Modes!DisableDrive \in Seq(S) /\ Modes!DisableDrive \in Seq(Calls)
        /\ Len(Modes!DisableDrive) = 4
    BY DriveList DEF Stops, Calls
  <2> HIDE DEF S
  <2>2. ASSUME NEW l \in Seq(S), NEW n \in Nat, Len(l) = n
        PROVE  \A i \in 1 .. n : l[i] \in S
    BY <2>2
  <2>3. \A i \in 1 .. 4 : Modes!DisableDrive[i] \in S
    BY <2>1, <2>2
  <2> QED
    BY <2>1, <2>3 DEF S
<1>5. ASSUME NEW m \in Seq(Calls), NEW h \in Seq(Calls), Len(m) = 4, Len(h) = 6
      PROVE  /\ Len(m \o h) = 10
             /\ \A i \in 1 .. 4 : (m \o h)[i] = m[i]
             /\ \A i \in 5 .. 10 : (m \o h)[i] = h[i - 4]
  <2>1. /\ Len(m \o h) = Len(m) + Len(h)
        /\ \A i \in 1 .. Len(m) : (m \o h)[i] = m[i]
        /\ \A i \in 1 .. Len(h) : (m \o h)[Len(m) + i] = h[i]
    <3>1. \A i \in 1 .. Len(m) : (m \o h)[i] = m[i]
      OBVIOUS
    <3> QED
      BY <3>1, Concat
  <2>2. ASSUME NEW i \in 5 .. 10 PROVE (m \o h)[i] = h[i - 4]
    <3>1. i - 4 \in 1 .. Len(h) /\ Len(m) + (i - 4) = i
      BY <1>5, <2>2
    <3>2. (m \o h)[Len(m) + (i - 4)] = h[i - 4]
      BY <2>1, <3>1
    <3> QED
      BY <3>1, <3>2
  <2> QED
    BY <1>5, <2>1, <2>2
<1> DEFINE D == Modes!DisableDrive \o Modes!EnableHome
<1>6. /\ Len(D) = 10
      /\ \A i \in 1 .. 4 : D[i] = Modes!DisableDrive[i]
      /\ \A i \in 5 .. 10 : D[i] = Modes!EnableHome[i - 4]
  BY <1>1, <1>4, <1>5
<1> HIDE DEF D
<1>7. ASSUME NEW i \in 1 .. 10 PROVE HomeAt(D[i], 10 - i)
  <2>1. CASE i \in 1 .. 4
    <3>1. D[i] \in Stops \cup {"clear_drive", "ble_disable"} /\ 10 - i > 5
      BY <1>4, <1>6, <2>1
    <3> QED
      BY <3>1 DEF HomeAt
  <2>2. CASE i \in 5 .. 10
    <3>1. D[i] = Modes!EnableHome[i - 4] /\ i - 4 \in 1 .. 6 /\ 6 - (i - 4) = 10 - i
      BY <1>6, <2>2
    <3> QED
      BY <1>1, <3>1
  <2> QED
    BY <2>1, <2>2
<1> QED
  BY <1>1, <1>2, <1>3, <1>6, <1>7 DEF D

\* A pass begins a change of the kind its state is left by.
LEMMA PassScript ==
    ASSUME Modes!Pass, st \in Modes!States
    PROVE  /\ st' \in Modes!States
           /\ \/ todo' = <<>>
              \/ /\ todo' \in {Modes!EnableHome, Modes!DisableDrive \o Modes!EnableHome}
                 /\ st \in {"WAIT_OFF", "DRIVE_TIMEOUT"} /\ st' = st
              \/ todo' = Modes!EnableDrive /\ st = "WAIT_ON" /\ st' = st
              \/ todo' = Modes!DisableHome /\ st = "HOME" /\ st' = st
<1>1. CASE motion = "invalid"
  BY <1>1 DEF Modes!Pass, Modes!Stay
<1>2. CASE motion # "invalid"
  BY <1>2
  DEF Modes!States, Modes!Pass, Modes!Stay, Modes!Go, Modes!Change, Modes!FromInit,
      Modes!FromWaitOn, Modes!FromWaitOff, Modes!FromDrive, Modes!FromTimeout, Modes!FromHome
<1> QED
  BY <1>1, <1>2

\* What a pass may make of the state, when no change begins.
LEMMA PassStates ==
    ASSUME Modes!Pass, st \in Modes!States, todo' = <<>>
    PROVE  \/ st' = st
           \/ st \in {"INIT", "WAIT_ON", "WAIT_OFF"} /\ st' \in {"WAIT_ON", "WAIT_OFF"}
           \/ st \in {"DRIVE", "DRIVE_TIMEOUT"} /\ st' \in {"DRIVE", "DRIVE_TIMEOUT"}
<1>1. todo = <<>> /\ Modes!EnableHome # <<>> /\ Modes!EnableDrive # <<>>
      /\ Modes!DisableHome # <<>> /\ Modes!DisableDrive \o Modes!EnableHome # <<>>
  BY Lists DEF Modes!Pass
<1>2. CASE motion = "invalid"
  BY <1>2 DEF Modes!Pass, Modes!Stay
<1>3. CASE motion # "invalid"
  BY <1>1, <1>3
  DEF Modes!States, Modes!Pass, Modes!Stay, Modes!Go, Modes!Change, Modes!FromInit,
      Modes!FromWaitOn, Modes!FromWaitOff, Modes!FromDrive, Modes!FromTimeout, Modes!FromHome
<1> QED
  BY <1>2, <1>3

\* A list keeps its roles when its first call has been made.
LEMMA RolesLeft ==
    ASSUME ScriptInv, todo # <<>>
    PROVE  /\ Tail(todo) \in Seq(Calls) /\ Len(Tail(todo)) = Len(todo) - 1
           /\ Len(todo) \in Nat \ {0} /\ Head(todo) = todo[1] /\ 1 \in 1 .. Len(todo)
           /\ \A i \in 1 .. Len(todo) - 1 :
                 /\ ToHome => HomeAt(Tail(todo)[i], (Len(todo) - 1) - i)
                 /\ st = "WAIT_ON" => DriveAt(Tail(todo)[i], (Len(todo) - 1) - i)
                 /\ st = "HOME" => LeaveAt(Tail(todo)[i], (Len(todo) - 1) - i)
           /\ ToHome => HomeAt(Head(todo), Len(todo) - 1)
           /\ st = "WAIT_ON" => DriveAt(Head(todo), Len(todo) - 1)
           /\ st = "HOME" => LeaveAt(Head(todo), Len(todo) - 1)
           /\ st # "DRIVE"
<1>1. todo \in Seq(Calls)
  BY DEF ScriptInv
<1>2. /\ Tail(todo) \in Seq(Calls) /\ Len(Tail(todo)) = Len(todo) - 1
      /\ Len(todo) \in Nat \ {0} /\ Head(todo) = todo[1] /\ 1 \in 1 .. Len(todo)
      /\ \A i \in 1 .. Len(todo) - 1 : Tail(todo)[i] = todo[i + 1]
  BY <1>1
<1>3. ASSUME NEW i \in 1 .. Len(todo) - 1
      PROVE  /\ i + 1 \in 1 .. Len(todo) /\ (Len(todo) - 1) - i = Len(todo) - (i + 1)
             /\ Tail(todo)[i] = todo[i + 1]
  BY <1>2
<1>4. /\ ToHome => HomeAt(Head(todo), Len(todo) - 1)
      /\ st = "WAIT_ON" => DriveAt(Head(todo), Len(todo) - 1)
      /\ st = "HOME" => LeaveAt(Head(todo), Len(todo) - 1)
      /\ st # "DRIVE"
  BY <1>2 DEF ScriptInv
<1>5. ASSUME NEW i \in 1 .. Len(todo) - 1
      PROVE  /\ ToHome => HomeAt(Tail(todo)[i], (Len(todo) - 1) - i)
             /\ st = "WAIT_ON" => DriveAt(Tail(todo)[i], (Len(todo) - 1) - i)
             /\ st = "HOME" => LeaveAt(Tail(todo)[i], (Len(todo) - 1) - i)
  BY <1>3 DEF ScriptInv
<1> QED
  BY <1>2, <1>4, <1>5

\* The state that a call leads to.
LEMMA SwitchState ==
    ASSUME ScriptInv, Modes!Switch
    PROVE  /\ todo # <<>> /\ todo' = Tail(todo)
           /\ \/ st' = st
              \/ /\ Len(todo) = 1 /\ todo' = <<>>
                 /\ \/ Head(todo) = "home_up" /\ ToHome /\ st' = "HOME"
                    \/ Head(todo) = "drive_up" /\ st = "WAIT_ON" /\ st' = "DRIVE"
                    \/ Head(todo) = "deinit" /\ st = "HOME" /\ st' = "WAIT_ON"
           /\ Len(todo) = 1 => \/ ToHome /\ Head(todo) = "home_up" /\ st' \in {"INIT", "HOME"}
                               \/ st = "WAIT_ON" /\ Head(todo) = "drive_up" /\ st' = "DRIVE"
                               \/ st = "HOME" /\ Head(todo) = "deinit" /\ st' = "WAIT_ON"
           /\ Len(todo) # 1 => st' = st
<1>1. todo # <<>> /\ todo' = Tail(todo)
  BY DEF Modes!Switch
<1>2. /\ Len(todo) \in Nat \ {0} /\ Len(Tail(todo)) = Len(todo) - 1
      /\ Tail(todo) \in Seq(Calls) /\ st # "DRIVE"
      /\ ToHome => HomeAt(Head(todo), Len(todo) - 1)
      /\ st = "WAIT_ON" => DriveAt(Head(todo), Len(todo) - 1)
      /\ st = "HOME" => LeaveAt(Head(todo), Len(todo) - 1)
  BY <1>1, RolesLeft
<1>3. ASSUME Len(todo) # 1 PROVE st' = st
  <2>1. Len(todo) > 1
    BY <1>2, <1>3
  <2> QED
    BY <2>1 DEF Modes!Switch
<1>4. ASSUME Len(todo) = 1
      PROVE  /\ todo' = <<>>
             /\ \/ ToHome /\ Head(todo) = "home_up"
                \/ st = "WAIT_ON" /\ Head(todo) = "drive_up"
                \/ st = "HOME" /\ Head(todo) = "deinit"
  <2>1. Len(todo) - 1 = 0
    BY <1>4
  <2>2. todo' = <<>>
    BY <1>1, <1>2, <2>1
  <2>3. st \in {"INIT", "WAIT_ON", "WAIT_OFF", "DRIVE_TIMEOUT", "HOME"}
    BY <1>2 DEF ScriptInv, Modes!States
  <2> QED
    BY <1>2, <2>1, <2>2, <2>3 DEF HomeAt, DriveAt, LeaveAt, ToHome
<1>5. ASSUME Len(todo) = 1
      PROVE  st' = IF st = "INIT" THEN st
                   ELSE CASE Head(todo) = "home_up"  -> "HOME"
                          [] Head(todo) = "drive_up" -> "DRIVE"
                          [] OTHER                   -> "WAIT_ON"
  <2>1. ~(Len(todo) > 1)
    BY <1>5
  <2> QED
    BY <2>1 DEF Modes!Switch
<1>6. ASSUME Len(todo) = 1
      PROVE  \/ ToHome /\ Head(todo) = "home_up" /\ st' \in {"INIT", "HOME"} /\ (st' = "INIT" => st' = st)
             \/ st = "WAIT_ON" /\ Head(todo) = "drive_up" /\ st' = "DRIVE"
             \/ st = "HOME" /\ Head(todo) = "deinit" /\ st' = "WAIT_ON"
  BY <1>4, <1>5, <1>6 DEF ToHome
<1> QED
  BY <1>1, <1>3, <1>4, <1>6

LEMMA ScriptStep ==
    ScriptInv /\ [Modes!Next]_(Modes!vars) => ScriptInv'
<1> SUFFICES ASSUME ScriptInv, [Modes!Next]_(Modes!vars) PROVE ScriptInv'
  OBVIOUS
<1>0. st \in Modes!States /\ todo \in Seq(Calls)
  BY DEF ScriptInv
<1>1. ASSUME todo' = <<>>, st' \in Modes!States PROVE ScriptInv'
  <2>1. <<>> \in Seq(Calls) /\ Len(<<>>) = 0 /\ 1 .. 0 = {}
    OBVIOUS
  <2> QED
    BY <1>1, <2>1 DEF ScriptInv
<1>2. CASE Modes!Switch
  <2>1. todo # <<>> /\ todo' = Tail(todo)
    BY <1>2, SwitchState
  <2>2. CASE Len(todo) = 1
    <3>1. todo' = <<>>
      BY <2>1, <2>2, RolesLeft
    <3>2. st' \in Modes!States
      BY <1>2, <2>2, SwitchState DEF Modes!States
    <3> QED
      BY <1>1, <3>1, <3>2
  <2>3. CASE st' = st
    BY <1>0, <2>1, <2>3, RolesLeft DEF ScriptInv, ToHome
  <2> QED
    BY <1>2, <2>2, <2>3, SwitchState
<1>3. CASE Modes!Pass
  <2>1. /\ st' \in Modes!States
        /\ \/ todo' = <<>>
           \/ /\ todo' \in {Modes!EnableHome, Modes!DisableDrive \o Modes!EnableHome}
              /\ st \in {"WAIT_OFF", "DRIVE_TIMEOUT"} /\ st' = st
           \/ todo' = Modes!EnableDrive /\ st = "WAIT_ON" /\ st' = st
           \/ todo' = Modes!DisableHome /\ st = "HOME" /\ st' = st
    BY <1>0, <1>3, PassScript
  <2>2. CASE todo' = <<>>
    BY <1>1, <2>1, <2>2
  <2>3. ASSUME todo' # <<>> PROVE todo' \in Seq(Calls)
    BY <2>1, <2>3, Lists
  <2>4. CASE todo' = Modes!EnableHome /\ st' \in {"WAIT_OFF", "DRIVE_TIMEOUT"}
    BY <2>1, <2>3, <2>4, Roles, Lists DEF ScriptInv, ToHome
  <2>5. CASE /\ todo' = Modes!DisableDrive \o Modes!EnableHome
             /\ st' \in {"WAIT_OFF", "DRIVE_TIMEOUT"}
    <3> DEFINE D == Modes!DisableDrive \o Modes!EnableHome
    <3>1. D \in Seq(Calls) /\ todo' = D /\ \A i \in 1 .. Len(D) : HomeAt(D[i], Len(D) - i)
      BY <2>5, Roles, Lists
    <3> HIDE DEF D
    <3> QED
      BY <2>1, <2>5, <3>1 DEF ScriptInv, ToHome
  <2>6. CASE todo' = Modes!EnableDrive /\ st' = "WAIT_ON"
    BY <2>1, <2>6, Roles, Lists DEF ScriptInv, ToHome
  <2>7. CASE todo' = Modes!DisableHome /\ st' = "HOME"
    BY <2>1, <2>7, Roles, Lists DEF ScriptInv, ToHome
  <2> QED
    BY <2>1, <2>2, <2>4, <2>5, <2>6, <2>7
<1>4. CASE Modes!Wake
  <2>1. todo' = Modes!EnableHome /\ st' = "INIT"
    BY <1>4 DEF Modes!Wake, Modes!Boot
  <2> QED
    BY <2>1, Roles, Lists DEF ScriptInv, ToHome, Modes!States
<1>5. CASE UNCHANGED <<st, todo>>
  BY <1>5 DEF ScriptInv, ToHome
<1>6. Modes!Moves \/ Modes!PhoneLinks \/ Modes!Save \/ Modes!GoToSleep
      \/ Modes!SleepTeardown \/ UNCHANGED Modes!vars => UNCHANGED <<st, todo>>
  BY DEF Modes!Moves, Modes!PhoneLinks, Modes!Save, Modes!GoToSleep, Modes!SleepTeardown,
         Modes!Rest, Modes!vars
<1> QED
  BY <1>2, <1>3, <1>4, <1>5, <1>6 DEF Modes!Next

\* What one call does to the radios, when none fails.
LEMMA CallEffect ==
    ASSUME NEW c, Modes!Call(c), radio_faults \in Nat, radio_faults' = 0
    PROVE  /\ radio_faults = 0
           /\ c \in Stops => UNCHANGED <<ble, flags, linked>>
           /\ c = "deinit" => wifi' = "none"
           /\ c \in {"clear_home", "clear_drive"} => UNCHANGED <<ble, linked>>
           /\ c = "home_flags" => /\ flags' \cap {"home", "drive"} = {"home"}
                                  /\ UNCHANGED <<ble, linked>>
           /\ c = "drive_flags" => /\ flags' \cap {"home", "drive"} = {"drive"}
                                   /\ UNCHANGED <<ble, linked>>
           /\ c = "ble_disable" => /\ ble' = (IF ble = "on" THEN "off" ELSE ble)
                                   /\ linked' = (linked /\ ble' = "on") /\ UNCHANGED flags
           /\ c = "home_up" => wifi' \in {"AP", "APSTA"} /\ UNCHANGED <<ble, flags, linked>>
<1>1. CASE c \in Stops
  BY <1>1 DEF Stops, Modes!Call, Modes!WifiStop
<1>2. CASE c \in {"clear_home", "clear_drive"}
  BY <1>2 DEF Stops, Modes!Call, Modes!SetFlags
<1>3. CASE c = "home_flags"
  BY <1>3 DEF Stops, Modes!Call, Modes!SetFlags
<1>4. CASE c = "drive_flags"
  BY <1>4 DEF Stops, Modes!Call, Modes!SetFlags
<1>5. CASE c = "ble_disable"
  BY <1>5 DEF Stops, Modes!Call, Modes!BleDisable
<1>6. CASE c = "home_up"
  BY <1>6 DEF Stops, Modes!Call, Modes!HomeUp, Modes!WifiUp
<1>7. CASE c \notin Stops \cup {"clear_home", "clear_drive", "home_flags", "drive_flags",
                                "ble_disable", "home_up"}
  <2>1. Modes!DriveUp
    BY <1>7 DEF Stops, Modes!Call
  <2>2. radio_faults = 0
    BY <2>1 DEF Modes!DriveUp, Modes!BleEnable, Modes!WifiUp
  <2> QED
    BY <1>7, <2>2 DEF Stops
<1> QED
  BY <1>1, <1>2, <1>3, <1>4, <1>5, <1>6, <1>7 DEF Stops

\* Any of the three drive connections, brought up from radios that are down.
LEMMA DriveUpEffect ==
    ASSUME Modes!Call("drive_up"), radio_faults \in Nat, radio_faults' = 0,
           ble = "off", wifi = "none", linked = FALSE
    PROVE  /\ UNCHANGED flags /\ linked' = FALSE
           /\ \/ wifi' \in {"STA", "none"} /\ ble' = "off"
              \/ ble' = "on" /\ wifi' = "AP"
<1>1. Modes!DriveUp /\ radio_faults' # radio_faults + 1
  BY DEF Modes!Call
<1>2. ASSUME NEW mode, NEW net, Modes!WifiUp(mode, net) PROVE wifi' = mode
  BY <1>1, <1>2 DEF Modes!WifiUp
<1>3. CASE cfg.conn = "ble"
  <2>1. Modes!BleEnable /\ UNCHANGED <<flags, linked>>
    BY <1>1, <1>3 DEF Modes!DriveUp
  <2>2. ble' = "on" /\ Modes!WifiUp("AP", NoNet)
    BY <1>1, <2>1 DEF Modes!BleEnable
  <2> QED
    BY <1>2, <2>1, <2>2
<1>4. CASE cfg.conn = "wifi" /\ networks.drive # NoNet
  <2>1. /\ Modes!BleDisable /\ linked' = (linked /\ ble' = "on") /\ UNCHANGED flags
        /\ Modes!WifiUp("STA", networks.drive)
    BY <1>1, <1>4 DEF Modes!DriveUp
  <2> QED
    BY <1>2, <2>1 DEF Modes!BleDisable
<1>5. CASE cfg.conn # "ble" /\ ~(cfg.conn = "wifi" /\ networks.drive # NoNet)
  BY <1>1, <1>5 DEF Modes!DriveUp, Modes!BleDisable
<1> QED
  BY <1>3, <1>4, <1>5

LEMMA RadioStep ==
    ScriptInv /\ ScriptInv' /\ RadioInv /\ [Modes!Next]_(Modes!vars) => RadioInv'
<1> SUFFICES ASSUME ScriptInv, ScriptInv', RadioInv, [Modes!Next]_(Modes!vars)
             PROVE  RadioInv'
  OBVIOUS
<1>0. radio_faults \in Nat /\ st \in Modes!States /\ st' \in Modes!States
  BY DEF RadioInv, ScriptInv
<1>1. radio_faults' \in Nat /\ (radio_faults' = 0 => radio_faults = 0)
  <2>1. radio_faults' \in {radio_faults, radio_faults + 1}
    <3>1. ASSUME NEW c, Modes!Call(c) PROVE radio_faults' \in {radio_faults, radio_faults + 1}
      BY <3>1 DEF Modes!Call, Modes!SetFlags, Modes!BleDisable, Modes!WifiStop, Modes!HomeUp,
                  Modes!DriveUp, Modes!BleEnable, Modes!WifiUp
    <3> QED
      BY <3>1 DEF Modes!Next, Modes!vars, Modes!Switch, Modes!Pass, Modes!Wake, Modes!Moves,
         Modes!PhoneLinks, Modes!Save, Modes!GoToSleep, Modes!SleepTeardown, Modes!Rest,
         Modes!world
  <2> QED
    BY <1>0, <2>1
<1>2. CASE radio_faults' # 0 \/ ~awake'
  BY <1>1, <1>2 DEF RadioInv
<1> SUFFICES ASSUME radio_faults' = 0, awake' PROVE RadioInv'
  BY <1>2
<1>3. CASE Modes!Wake
  <2>1. ble' = "off" /\ linked' = FALSE /\ st' = "INIT" /\ ~(Len(todo') <= 5)
    BY <1>3, Roles DEF Modes!Wake, Modes!Boot
  <2> QED
    BY <1>1, <2>1 DEF RadioInv, ToHome
<1>4. CASE ~Modes!Wake
  <2>1. awake
    BY <1>4 DEF Modes!Next, Modes!vars, Modes!Switch, Modes!Pass, Modes!Moves,
         Modes!PhoneLinks, Modes!Save, Modes!GoToSleep, Modes!SleepTeardown, Modes!Rest,
         Modes!world
  <2>2. /\ ble \in {"off", "on"} /\ (linked => ble = "on") /\ linked \in BOOLEAN
        /\ st \in {"INIT", "WAIT_ON", "WAIT_OFF", "HOME"} => ble = "off"
    BY <1>1, <2>1 DEF RadioInv
  <2>3. CASE Modes!Switch
    <3>1. /\ Modes!Call(Head(todo)) /\ todo # <<>> /\ todo' = Tail(todo)
          /\ Len(todo) \in Nat \ {0} /\ Len(todo') = Len(todo) - 1
          /\ (todo' = <<>> <=> Len(todo) = 1)
      <4>1. Modes!Call(Head(todo)) /\ todo # <<>> /\ todo' = Tail(todo)
        BY <2>3 DEF Modes!Switch
      <4>2. Tail(todo) \in Seq(Calls) /\ Len(todo) \in Nat \ {0} /\ Len(Tail(todo)) = Len(todo) - 1
        BY <4>1, RolesLeft
      <4> QED
        BY <4>1, <4>2
    <3>2. CASE ToHome
      <4>1. HomeAt(Head(todo), Len(todo) - 1)
        BY <3>1, <3>2, RolesLeft
      <4>2. CASE Len(todo) = 1
        <5>1. Head(todo) = "home_up"
          BY <4>1, <4>2 DEF HomeAt
        <5>2. wifi' \in {"AP", "APSTA"} /\ UNCHANGED <<ble, flags, linked>> /\ todo' = <<>>
          BY <1>0, <3>1, <4>2, <5>1, CallEffect
        <5>3. ble = "off" /\ FlagsAre("home")
          BY <1>1, <2>1, <3>1, <3>2, <4>2 DEF RadioInv
        <5>4. st' \in {"INIT", "HOME"}
          BY <2>3, <3>2, <4>2, SwitchState DEF ToHome
        <5> QED
          BY <1>1, <2>2, <5>2, <5>3, <5>4 DEF RadioInv, FlagsAre, ToHome
      <4>3. CASE Len(todo) \in 2 .. 4
        <5>1. Head(todo) \in Stops
          BY <4>1, <4>3 DEF HomeAt
        <5>2. UNCHANGED <<ble, flags, linked>>
          BY <1>0, <3>1, <5>1, CallEffect
        <5>3. ble = "off" /\ FlagsAre("home")
          BY <1>1, <2>1, <3>1, <3>2, <4>3 DEF RadioInv
        <5>4. st' = st /\ todo' # <<>>
          BY <2>3, <3>1, <4>3, SwitchState
        <5> QED
          BY <1>1, <2>2, <3>2, <5>2, <5>3, <5>4 DEF RadioInv, FlagsAre, ToHome
      <4>4. CASE Len(todo) = 5
        <5>1. Head(todo) = "ble_disable"
          BY <4>1, <4>4 DEF HomeAt
        <5>2. ble' = "off" /\ linked' = FALSE /\ UNCHANGED flags
          BY <1>0, <2>2, <3>1, <5>1, CallEffect
        <5>3. FlagsAre("home")
          BY <1>1, <2>1, <3>1, <3>2, <4>4 DEF RadioInv
        <5>4. st' = st /\ todo' # <<>>
          BY <2>3, <3>1, <4>4, SwitchState
        <5> QED
          BY <1>1, <3>2, <5>2, <5>3, <5>4 DEF RadioInv, FlagsAre, ToHome
      <4>5. CASE Len(todo) = 6
        <5>1. Head(todo) = "home_flags"
          BY <4>1, <4>5 DEF HomeAt
        <5>2. FlagsAre("home")' /\ UNCHANGED <<ble, linked>>
          BY <1>0, <3>1, <5>1, CallEffect DEF FlagsAre
        <5>3. st' = st /\ todo' # <<>> /\ Len(todo') = 5
          BY <2>3, <3>1, <4>5, SwitchState
        <5> QED
          BY <1>1, <2>2, <3>2, <5>2, <5>3 DEF RadioInv, FlagsAre, ToHome
      <4>6. CASE Len(todo) > 6
        <5>1. Head(todo) \in Stops \cup {"clear_drive", "ble_disable"}
          BY <3>1, <4>1, <4>6 DEF HomeAt
        <5>2. ble' \in {"off", "on"} /\ linked' \in BOOLEAN /\ (linked' => ble' = "on")
              /\ (ble = "off" => ble' = "off")
          BY <1>0, <2>2, <3>1, <5>1, CallEffect
        <5>3. st' = st /\ todo' # <<>> /\ Len(todo') > 5
          BY <2>3, <3>1, <4>6, SwitchState
        <5> QED
          BY <1>1, <2>2, <3>2, <5>2, <5>3 DEF RadioInv, ToHome
      <4>7. Len(todo) = 1 \/ Len(todo) \in 2 .. 4 \/ Len(todo) \in {5, 6} \/ Len(todo) > 6
        <5>1. \A n \in Nat \ {0} : n = 1 \/ n \in 2 .. 4 \/ n \in {5, 6} \/ n > 6
          OBVIOUS
        <5>2. Len(todo) \in Nat \ {0}
          BY <3>1
        <5> QED
          BY <5>1, <5>2, Zenon
      <4> QED
        BY <4>2, <4>3, <4>4, <4>5, <4>6, <4>7
    <3>3. CASE st = "WAIT_ON"
      <4>1. DriveAt(Head(todo), Len(todo) - 1)
        BY <3>1, <3>3, RolesLeft
      <4>2. ble = "off" /\ linked = FALSE
        BY <2>2, <3>3
      <4>3. CASE Len(todo) = 1
        <5>1. Head(todo) = "drive_up" /\ st' = "DRIVE" /\ todo' = <<>>
          BY <2>3, <3>1, <3>3, <4>1, <4>3, SwitchState DEF DriveAt, ToHome
        <5>2. wifi = "none" /\ FlagsAre("drive")
          BY <1>1, <2>1, <3>1, <3>3, <4>3 DEF RadioInv
        <5>3. /\ UNCHANGED flags /\ linked' = FALSE
              /\ \/ wifi' \in {"STA", "none"} /\ ble' = "off"
                 \/ ble' = "on" /\ wifi' = "AP"
          BY <1>0, <3>1, <4>2, <5>1, <5>2, DriveUpEffect
        <5> QED
          BY <1>1, <5>1, <5>2, <5>3 DEF RadioInv, FlagsAre, ToHome
      <4>4. CASE Len(todo) = 2
        <5>1. Head(todo) = "deinit"
          BY <4>1, <4>4 DEF DriveAt
        <5>2. UNCHANGED <<ble, flags, linked>> /\ wifi' = "none"
          BY <1>0, <3>1, <5>1, CallEffect DEF Stops
        <5>3. FlagsAre("drive")
          BY <1>1, <2>1, <3>1, <3>3, <4>4 DEF RadioInv
        <5>4. st' = st /\ todo' # <<>>
          BY <2>3, <3>1, <4>4, SwitchState
        <5> QED
          BY <1>1, <2>2, <3>3, <5>2, <5>3, <5>4 DEF RadioInv, FlagsAre, ToHome
      <4>5. CASE Len(todo) \in 3 .. 4
        <5>1. Head(todo) \in Stops
          BY <4>1, <4>5 DEF DriveAt
        <5>2. UNCHANGED <<ble, flags, linked>>
          BY <1>0, <3>1, <5>1, CallEffect
        <5>3. FlagsAre("drive")
          BY <1>1, <2>1, <3>1, <3>3, <4>5 DEF RadioInv
        <5>4. st' = st /\ todo' # <<>> /\ Len(todo') # 1
          BY <2>3, <3>1, <4>5, SwitchState
        <5> QED
          BY <1>1, <2>2, <3>3, <5>2, <5>3, <5>4 DEF RadioInv, FlagsAre, ToHome
      <4>6. CASE Len(todo) = 5
        <5>1. Head(todo) = "drive_flags"
          BY <4>1, <4>6 DEF DriveAt
        <5>2. FlagsAre("drive")' /\ UNCHANGED <<ble, linked>>
          BY <1>0, <3>1, <5>1, CallEffect DEF FlagsAre
        <5>3. st' = st /\ todo' # <<>> /\ Len(todo') # 1
          BY <2>3, <3>1, <4>6, SwitchState
        <5> QED
          BY <1>1, <2>2, <3>3, <5>2, <5>3 DEF RadioInv, FlagsAre, ToHome
      <4>7. Len(todo) \in 1 .. 5
        <5>1. Len(todo) - 1 <= 4
          BY <4>1 DEF DriveAt
        <5>2. Len(todo) \in Nat \ {0}
          BY <3>1
        <5>3. \A n \in Nat \ {0} : n - 1 <= 4 => n \in 1 .. 5
          OBVIOUS
        <5> QED
          BY <5>1, <5>2, <5>3, Zenon
      <4> QED
        BY <4>3, <4>4, <4>5, <4>6, <4>7
    <3>4. CASE st = "HOME"
      <4>1. Head(todo) \in Stops \cup {"clear_home"}
        BY <3>1, <3>4, RolesLeft DEF LeaveAt
      <4>2. UNCHANGED <<ble, linked>>
        BY <1>0, <3>1, <4>1, CallEffect
      <4>3. \/ st' = st /\ todo' # <<>>
            \/ st' = "WAIT_ON" /\ todo' = <<>>
        BY <2>3, <3>1, <3>4, SwitchState DEF ToHome
      <4> QED
        BY <1>1, <2>2, <3>4, <4>2, <4>3 DEF RadioInv, ToHome
    <3>5. st # "DRIVE"
      BY <3>1, RolesLeft
    <3> QED
      BY <1>0, <3>2, <3>3, <3>4, <3>5 DEF ToHome, Modes!States
  <2>4. CASE Modes!Pass
    <3>1. UNCHANGED <<wifi, ble, flags, linked>> /\ todo = <<>>
      BY <2>4 DEF Modes!Pass, Modes!radios, Modes!world
    <3>2. CASE todo' = <<>>
      <4>1. \/ st' = st
            \/ st \in {"INIT", "WAIT_ON", "WAIT_OFF"} /\ st' \in {"WAIT_ON", "WAIT_OFF"}
            \/ st \in {"DRIVE", "DRIVE_TIMEOUT"} /\ st' \in {"DRIVE", "DRIVE_TIMEOUT"}
        BY <1>0, <2>4, <3>2, PassStates
      <4> QED
        BY <1>1, <2>1, <3>1, <3>2, <4>1 DEF RadioInv, FlagsAre, ToHome
    <3>3. CASE todo' # <<>>
      <4>1. st' = st /\ st # "INIT" /\ st # "DRIVE"
            /\ (ToHome => Len(todo') > 5) /\ (st = "WAIT_ON" => Len(todo') = 5)
        <5>1. st' = st /\ st # "INIT" /\ st # "DRIVE"
              /\ \/ todo' \in {Modes!EnableHome, Modes!DisableDrive \o Modes!EnableHome}
                 \/ todo' = Modes!EnableDrive /\ ~ToHome
                 \/ st = "HOME"
              /\ (st = "WAIT_ON" => todo' = Modes!EnableDrive)
          BY <1>0, <2>4, <3>3, PassScript DEF ToHome
        <5>2. Len(Modes!EnableHome) > 5 /\ Len(Modes!DisableDrive \o Modes!EnableHome) > 5
              /\ Len(Modes!EnableDrive) = 5
          BY Roles
        <5> QED
          BY <5>1, <5>2 DEF ToHome
      <4> QED
        BY <1>1, <2>2, <3>1, <3>3, <4>1 DEF RadioInv, ToHome
    <3> QED
      BY <3>2, <3>3
  <2>5. CASE Modes!PhoneLinks
    <3>1. /\ ble = "on" /\ linked' = ~linked /\ UNCHANGED <<st, todo, ble, flags>>
          /\ wifi' = (IF linked \/ wifi = "none" THEN Modes!WifiBack ELSE "idle")
      BY <2>5 DEF Modes!PhoneLinks, Modes!Rest
    <3>2. st \in {"DRIVE", "DRIVE_TIMEOUT"}
      BY <1>0, <2>2, <3>1 DEF Modes!States
    <3>3. todo = <<>> => /\ FlagsAre("drive")
                         /\ wifi = (IF linked THEN "idle" ELSE "AP")
      BY <1>1, <2>1, <3>1, <3>2 DEF RadioInv
    <3>4. todo = <<>> => wifi' = (IF linked' THEN "idle" ELSE "AP")
      BY <2>2, <3>1, <3>3 DEF Modes!WifiBack
    <3>5. todo # <<>> /\ Len(todo) <= 4 => FALSE
      BY <1>1, <2>1, <3>1, <3>2 DEF RadioInv, ToHome, ScriptInv
    <3>6. todo # <<>> /\ Len(todo) <= 5 /\ ToHome => FlagsAre("home")
      BY <1>1, <2>1, <3>1, <3>2 DEF RadioInv
    <3> QED
      BY <1>1, <2>2, <3>1, <3>2, <3>3, <3>4, <3>5, <3>6 DEF RadioInv, FlagsAre, ToHome
  <2>6. CASE UNCHANGED <<st, todo, wifi, ble, flags, linked>>
    BY <1>1, <2>1, <2>6 DEF RadioInv, FlagsAre, ToHome
  <2>7. Modes!Moves \/ Modes!Save \/ Modes!GoToSleep \/ UNCHANGED Modes!vars
        => UNCHANGED <<st, todo, wifi, ble, flags, linked>>
    BY DEF Modes!Moves, Modes!Save, Modes!GoToSleep, Modes!Rest, Modes!radios, Modes!vars,
           Modes!world
  <2>8. ~Modes!SleepTeardown
    BY <2>1 DEF Modes!SleepTeardown
  <2> QED
    BY <1>4, <2>3, <2>4, <2>5, <2>6, <2>7, <2>8 DEF Modes!Next
<1> QED
  BY <1>3, <1>4

LEMMA RadioInit == Modes!Init => ScriptInv /\ RadioInv
<1> SUFFICES ASSUME Modes!Init PROVE ScriptInv /\ RadioInv
  OBVIOUS
<1>1. /\ st = "INIT" /\ todo = Modes!EnableHome /\ ble = "off" /\ linked = FALSE
      /\ radio_faults = 0
  BY DEF Modes!Init
<1>4. ~(Len(todo) <= 5)
  BY <1>1, Roles
<1>5. radio_faults \in Nat /\ st = "INIT" /\ ble = "off" /\ linked = FALSE
  BY <1>1
<1>2. ScriptInv
  BY <1>1, Roles, Lists DEF ScriptInv, ToHome, Modes!States
<1>3. RadioInv
  BY <1>4, <1>5 DEF RadioInv, ToHome
<1> QED
  BY <1>2, <1>3

(* Between changes the radios and the mode flags are those of the mode the   *)
(* task believes in, for any settings saved at any moment and any delays, as *)
(* long as no radio failed to come up.                                       *)
THEOREM RadiosFollowMode == Modes!FairSpec => []Modes!RadiosMatchMode
<1> DEFINE Inv == ScriptInv /\ RadioInv
<1>1. Modes!Init => Inv
  BY RadioInit
<1>2. Inv /\ [Modes!Next]_(Modes!vars) => Inv'
  BY ScriptStep, RadioStep
<1>3. Inv => Modes!RadiosMatchMode
  <2> SUFFICES ASSUME Inv, awake, radio_faults = 0, todo = <<>>
               PROVE  /\ st = "HOME" => /\ wifi \in {"AP", "APSTA"} /\ ble = "off"
                                        /\ flags \cap {"home", "drive"} = {"home"}
                      /\ st \in {"DRIVE", "DRIVE_TIMEOUT"} =>
                            /\ flags \cap {"home", "drive"} = {"drive"}
                            /\ <<wifi, ble>> \in {<<"STA", "off">>, <<"none", "off">>,
                                                  <<IF linked THEN "idle" ELSE "AP", "on">>}
    BY DEF Modes!RadiosMatchMode, Modes!Settled
  <2> QED
    BY DEF RadioInv, FlagsAre
<1> HIDE DEF Inv
<1> QED
  BY <1>1, <1>2, <1>3, PTL DEF Modes!FairSpec

-----------------------------------------------------------------------------
(* The types of the home and drive modes.                                    *)

Nets == {NoNet} \cup {c.home : c \in Configs} \cup {c.drive : c \in Configs}
CarInv ==
    /\ cfg \in Configs /\ st \in Modes!States /\ timer \in Nat
    /\ moving \in 0 .. Modes!Top /\ still \in 0 .. Modes!Top
RadiosTyped ==
    /\ wifi \in {"none", "idle", "AP", "STA", "APSTA"} /\ ble \in {"off", "half", "on"}
    /\ flags \subseteq {"home", "drive", "autopid"}
    /\ join \in Nets /\ networks.home \in Nets /\ networks.drive \in Nets
    /\ motion \in {"moving", "still", "invalid"} /\ {linked, awake} \subseteq BOOLEAN

LEMMA ModeTypes == Modes!TypeOK <=> CarInv /\ (/\ wifi \in {"none", "idle", "AP", "STA", "APSTA"}
                                                /\ ble \in {"off", "half", "on"}
                                                /\ flags \subseteq {"home", "drive", "autopid"}
                                                /\ join \in Nets
                                                /\ motion \in {"moving", "still", "invalid"}
                                                /\ {linked, awake} \subseteq BOOLEAN)
  BY DEF Modes!TypeOK, CarInv, Nets

LEMMA ModeStarts == ASSUME ModeConstants PROVE Modes!Init => CarInv /\ RadiosTyped
<1> SUFFICES ASSUME Modes!Init PROVE CarInv /\ RadiosTyped
  OBVIOUS
<1>1. cfg \in Configs
  BY DEF Modes!Init
<1>2. CarInv
  BY DEF Modes!Init, CarInv, Modes!States, Modes!Top, ModeConstants
<1>3. NoNet \in Nets /\ cfg.home \in Nets /\ cfg.drive \in Nets
  BY <1>1 DEF Nets
<1>4. networks.home = cfg.home /\ networks.drive = cfg.drive
  BY DEF Modes!Init
<1> QED
  BY <1>2, <1>3, <1>4 DEF Modes!Init, RadiosTyped

LEMMA CarStep ==
    ASSUME ModeConstants, CarInv, [Modes!Next]_(Modes!vars)  PROVE CarInv'
<1>1. CASE Modes!Pass
  <2>1. cfg' = cfg
    BY <1>1 DEF Modes!Pass
  <2>2. Modes!Top \in Nat
    BY DEF Modes!Top, ModeConstants
  <2>3. moving' \in 0 .. Modes!Top /\ still' \in 0 .. Modes!Top
    BY <1>1, <2>2 DEF Modes!Pass, Modes!Cap, CarInv
  <2>4. Modes!Left \in Nat /\ cfg.timeout \in Nat
    BY DEF Modes!Left, CarInv, ModeConstants
  <2>5. /\ timer' \in {Modes!Left, DriveDelay, HomeDelay, cfg.timeout}
        /\ st' \in {st, "WAIT_ON", "WAIT_OFF", "DRIVE_TIMEOUT", "DRIVE"}
    BY <1>1 DEF Modes!Pass, Modes!Stay, Modes!Go, Modes!Change, Modes!FromInit,
       Modes!FromWaitOn, Modes!FromWaitOff, Modes!FromDrive, Modes!FromTimeout,
       Modes!FromHome
  <2>6. timer' \in Nat
    BY <2>4, <2>5 DEF ModeConstants
  <2>7. st' \in Modes!States
    BY <2>5 DEF CarInv, Modes!States
  <2> QED
    BY <2>1, <2>3, <2>6, <2>7 DEF CarInv, Modes!Top
<1>2. CASE Modes!Switch
  <2>1. timer' \in {timer, DriveDelay} /\ UNCHANGED <<cfg, moving, still>>
    BY <1>2 DEF Modes!Switch
  <2>2. st' \in {st, "HOME", "DRIVE", "WAIT_ON"}
    BY <1>2 DEF Modes!Switch
  <2> QED
    BY <2>1, <2>2 DEF CarInv, Modes!States, ModeConstants, Modes!Top
<1>3. CASE Modes!Wake
  BY <1>3 DEF Modes!Wake, Modes!Boot, CarInv, Modes!States, Modes!Top, ModeConstants
<1>4. CASE Modes!Save
  BY <1>4 DEF Modes!Save, CarInv, Modes!Top
<1>5. CASE \/ Modes!Moves \/ Modes!PhoneLinks \/ Modes!GoToSleep \/ Modes!SleepTeardown
           \/ UNCHANGED Modes!vars
  <2>1. UNCHANGED <<cfg, st, timer, moving, still>>
    BY <1>5 DEF Modes!Moves, Modes!PhoneLinks, Modes!GoToSleep, Modes!SleepTeardown,
       Modes!Rest, Modes!vars
  <2> QED
    BY <2>1 DEF CarInv, Modes!Top
<1> QED
  BY <1>1, <1>2, <1>3, <1>4, <1>5 DEF Modes!Next

\* What a call makes of the radios.
LEMMA CallTyped ==
    ASSUME RadiosTyped, NEW c, Modes!Call(c)
    PROVE  /\ wifi' \in {"none", "idle", "AP", "STA", "APSTA"} /\ ble' \in {"off", "half", "on"}
           /\ flags' \subseteq {"home", "drive", "autopid"}
           /\ join' \in Nets /\ linked' \in BOOLEAN
<1> USE DEF RadiosTyped
<1>1. NoNet \in Nets
  BY DEF Nets
<1>2. CASE c \in {"home_flags", "drive_flags", "clear_home", "clear_drive"}
  <2>1. /\ UNCHANGED <<wifi, join, ble, linked>>
        /\ flags' \subseteq flags \cup {"home", "drive", "autopid"}
    BY <1>2 DEF Modes!Call, Modes!SetFlags
  <2> QED
    BY <2>1
<1>3. CASE c = "ble_disable"
  BY <1>3 DEF Modes!Call, Modes!BleDisable, Modes!WifiBack
<1>4. CASE c \in {"sta_disconnect", "disable", "deinit"}
  BY <1>1, <1>4 DEF Modes!Call, Modes!WifiStop
<1>5. CASE c = "home_up"
  BY <1>1, <1>5 DEF Modes!Call, Modes!HomeUp, Modes!WifiUp
<1>6. CASE /\ c \notin {"home_flags", "drive_flags", "clear_home", "clear_drive"}
           /\ c \notin {"ble_disable", "sta_disconnect", "disable", "deinit", "home_up"}
  <2>1. Modes!DriveUp
    BY <1>6 DEF Modes!Call
  <2>2. CASE cfg.conn = "ble"
    BY <1>1, <2>1, <2>2 DEF Modes!DriveUp, Modes!BleEnable, Modes!WifiUp
  <2>3. CASE cfg.conn = "wifi" /\ networks.drive # NoNet
    BY <1>1, <2>1, <2>3 DEF Modes!DriveUp, Modes!BleDisable, Modes!WifiUp
  <2>4. CASE cfg.conn # "ble" /\ ~(cfg.conn = "wifi" /\ networks.drive # NoNet)
    BY <1>1, <2>1, <2>4 DEF Modes!DriveUp, Modes!BleDisable
  <2> QED
    BY <2>2, <2>3, <2>4
<1> QED
  BY <1>2, <1>3, <1>4, <1>5, <1>6

LEMMA RadiosStep ==
    ASSUME CarInv, RadiosTyped, [Modes!Next]_(Modes!vars)  PROVE RadiosTyped'
<1>1. CASE Modes!Switch
  <2>1. Modes!Call(Head(todo)) /\ UNCHANGED <<networks, motion, awake>>
    BY <1>1 DEF Modes!Switch
  <2> QED
    BY <2>1, CallTyped DEF RadiosTyped, Nets
<1>2. CASE Modes!Wake
  <2>1. NoNet \in Nets /\ cfg.home \in Nets /\ cfg.drive \in Nets
    BY DEF Nets, CarInv
  <2>2. networks'.home = cfg.home /\ networks'.drive = cfg.drive
    BY <1>2 DEF Modes!Wake, Modes!Boot
  <2> QED
    BY <1>2, <2>1, <2>2 DEF Modes!Wake, Modes!Boot, RadiosTyped, Nets
<1>3. CASE Modes!PhoneLinks
  BY <1>3 DEF Modes!PhoneLinks, Modes!Rest, Modes!WifiBack, RadiosTyped, Nets
<1>4. CASE Modes!SleepTeardown
  <2>1. NoNet \in Nets
    BY DEF Nets
  <2> QED
    BY <1>4, <2>1 DEF Modes!SleepTeardown, Modes!Rest, Modes!BleDisable, RadiosTyped, Nets
<1>5. CASE Modes!Moves \/ Modes!GoToSleep
  BY <1>5 DEF Modes!Moves, Modes!GoToSleep, Modes!Rest, Modes!radios, RadiosTyped, Nets
<1>6. CASE Modes!Pass \/ Modes!Save \/ UNCHANGED Modes!vars
  BY <1>6 DEF Modes!Pass, Modes!Save, Modes!vars, Modes!radios, Modes!world, RadiosTyped, Nets
<1> QED
  BY <1>1, <1>2, <1>3, <1>4, <1>5, <1>6 DEF Modes!Next

LEMMA ModesTyped == ASSUME ModeConstants PROVE Modes!FairSpec => []Modes!TypeOK
<1>1. ModeConstants /\ CarInv /\ RadiosTyped /\ [Modes!Next]_(Modes!vars)
      => (CarInv /\ RadiosTyped)'
  BY CarStep, RadiosStep
<1>2. CarInv /\ RadiosTyped => Modes!TypeOK
  BY ModeTypes DEF RadiosTyped
<1> QED
  BY ModeStarts, <1>1, <1>2, PTL DEF Modes!FairSpec

\* The radios are those of the mode, and a mode changes only after its delay
\* without a pause. (SmartConnect.)
RadiosFollow ==
    /\ []Modes!TypeOK /\ []Modes!RadiosMatchMode
    /\ Modes!SwitchIsDebounced

(* SmartConnect keeps its radios and its delays, for any delays, settings    *)
(* and number of faults.                                                     *)
THEOREM ModesStayTrue == ASSUME ModeConstants PROVE Modes!FairSpec => RadiosFollow
  BY ModesTyped, RadiosFollowMode, SwitchesAreDebounced, PTL DEF RadiosFollow

-----------------------------------------------------------------------------
(* The WiFi manager.                                                         *)
CONSTANTS Networks, BanAfter, MaxEvents, WifiModes, AutoDisable, Open

VARIABLES mode, wifi_enabled, connected, stations, tries, attempted, upBit, downBit,
          ours, fails, ban, cursor, hpc, rpc, fast, mpc, radio, air, wifi_link,
          wifi_events, around, quick

Wifi == INSTANCE WifiMgr WITH enabled <- wifi_enabled,
                              link <- wifi_link, events <- wifi_events

\* Every quick retry since the last address was one of the tries.
TriesBound == tries \in 0 .. 2 /\ quick \in 0 .. 2 /\ quick <= tries

LEMMA TriesHold == Wifi!Spec => []TriesBound
<1>1. Wifi!Init => TriesBound
  BY DEF Wifi!Init, TriesBound
<1>2. ASSUME TriesBound, [Wifi!Next]_(Wifi!vars) PROVE TriesBound'
  <2>1. CASE Wifi!Attempt
    BY <1>2, <2>1 DEF Wifi!Attempt, Wifi!CountTry, Wifi!IsQuick, TriesBound
  <2>2. CASE Wifi!OnAddress
    BY <1>2, <2>2 DEF Wifi!OnAddress, TriesBound
  <2>3. CASE UNCHANGED <<tries, quick>>
    BY <1>2, <2>3 DEF TriesBound
  <2>4. CASE \/ Wifi!JoinSucceeds \/ Wifi!JoinFails \/ Wifi!LinkLost \/ Wifi!StationMoves
             \/ \E n \in Networks : Wifi!BanLapses(n)
    BY <2>3, <2>4, Zenon DEF Wifi!JoinSucceeds, Wifi!JoinFails, Wifi!LinkLost,
       Wifi!StationMoves, Wifi!BanLapses, Wifi!Elsewhere, Wifi!status
  <2>5. CASE \/ Wifi!OnStart \/ Wifi!OnDisconnect \/ Wifi!ApBack \/ Wifi!OnStation
             \/ Wifi!Top
    BY <2>3, <2>5, Zenon DEF Wifi!OnStart, Wifi!OnDisconnect, Wifi!ApBack,
       Wifi!OnStation, Wifi!Top, Wifi!status
  <2>6. CASE (\E seen \in SUBSET Networks : Wifi!Scan(seen)) \/ Wifi!ScanFailed
    BY <2>3, <2>6, Zenon DEF Wifi!Scan, Wifi!ScanFailed, Wifi!ScanEnds
  <2>7. CASE \/ Wifi!Disable \/ Wifi!RadioOff \/ Wifi!Forget \/ Wifi!Enable
             \/ Wifi!EnableBits \/ Wifi!EnableTask \/ Wifi!Leave
    BY <2>3, <2>7, Zenon DEF Wifi!Disable, Wifi!RadioOff, Wifi!Forget, Wifi!Enable,
       Wifi!EnableBits, Wifi!EnableTask, Wifi!Leave, Wifi!status
  <2>8. CASE UNCHANGED Wifi!vars
    BY <2>3, <2>8, Zenon DEF Wifi!vars, Wifi!status
  <2> QED
    BY <1>2, <2>1, <2>2, <2>4, <2>5, <2>6, <2>7, <2>8, Zenon DEF Wifi!Next
<1> QED
  BY <1>1, <1>2, PTL DEF Wifi!Spec

(* A dropped link earns at most two quick retries until an address is held   *)
(* again, whatever networks, bans and mode switches there are                *)
(* (wifi_mgr.c, wifi_reconnect_task).                                        *)
THEOREM RetriesAreFew == Wifi!Spec => []Wifi!NoTightLoop
<1>1. TriesBound => Wifi!NoTightLoop
  BY DEF TriesBound, Wifi!NoTightLoop
<1> QED
  BY TriesHold, <1>1, PTL

-----------------------------------------------------------------------------
(* The types of the WiFi manager: what its tasks do, what it knows of the    *)
(* networks, and the events on their way.                                    *)

\* As wifi_mgr.c keeps them: the configured network is the first, its fallbacks
\* follow.
WifiConstants ==
    /\ \E n \in Nat \ {0} : Networks = 1 .. n
    /\ BanAfter \in Nat \ {0} /\ MaxEvents \in Nat \ {0}
    /\ WifiModes \subseteq {"STA", "APSTA"}

WifiEvents == {"start", "address", "lost", "refused", "left", "station", "station_gone",
               "ap_stop"}

WifiTold ==
    /\ mode \in WifiModes /\ radio \in {"off", "STA", "APSTA"}
    /\ {wifi_enabled, connected, upBit, downBit, ours, fast, around} \subseteq BOOLEAN
    /\ hpc \in {"idle", "delay"} /\ rpc \in {"none", "top", "delay", "scan"}
    /\ mpc \in {"idle", "stop", "clear", "start", "bits", "task"}
    /\ air \in {"idle", "joining", "joined"} /\ stations \in {0, 1}
NetsTold ==
    /\ attempted \in Networks /\ cursor \in Networks /\ wifi_link \in Networks
    /\ fails \in [Networks -> 0 .. BanAfter] /\ ban \in [Networks -> {"none", "live", "over"}]
EventsTold == wifi_events \in Seq(WifiEvents) /\ Len(wifi_events) <= MaxEvents

\* A set of numbers has a least one, and 1 .. n a greatest.
LEMMA LeastIs ==
    ASSUME NEW S \in SUBSET Nat, S # {}  PROVE Wifi!Min(S) \in S
<1> DEFINE R == OpToRel(<, Nat)
<1>1. IsWellFoundedOn(R, Nat)
  BY NatLessThanWellFounded
<1>2. \E x \in S : \A y \in S : ~(<<y, x>> \in R)
  <2> HIDE DEF R
  <2> QED
    BY <1>1, WFMin
<1>3. PICK x \in S : \A y \in S : ~(<<y, x>> \in R)
  BY <1>2
<1>4. \A y \in S : x <= y
  <2> SUFFICES ASSUME NEW y \in S PROVE x <= y
    OBVIOUS
  <2>1. ~(<<y, x>> \in {s \in Nat \X Nat : s[1] < s[2]})
    BY <1>3 DEF OpToRel
  <2> QED
    BY <2>1
<1> QED
  BY <1>3, <1>4 DEF Wifi!Min

LEMMA LastNetwork ==
    ASSUME NEW n \in Nat \ {0}, Networks = 1 .. n  PROVE Wifi!Max(Networks) = n
  BY DEF Wifi!Max

\* Networks taken in turn are networks.
LEMMA TurnIs ==
    ASSUME NEW n \in Nat \ {0}, NEW k \in Int  PROVE (k % n) + 1 \in 1 .. n
  OBVIOUS

LEMMA AskedTyped ==
    ASSUME NetsTold, NEW S, Wifi!Asked(S)
    PROVE  ban' \in [Networks -> {"none", "live", "over"}]
  BY DEF NetsTold, Wifi!Asked

LEMMA SelectTyped ==
    ASSUME WifiConstants, NetsTold, NEW seen \in SUBSET Networks, Wifi!ScanSelect(seen)
    PROVE  /\ attempted' \in Networks /\ cursor' \in Networks /\ wifi_link' \in Networks
           /\ ban' \in [Networks -> {"none", "live", "over"}] /\ air' = "joining"
<1>1. CASE seen = {}
  BY <1>1 DEF Wifi!ScanSelect, Wifi!Connect, NetsTold
<1>2. CASE seen # {}
  <2> DEFINE free == {n \in seen : ~Wifi!ShouldSkip(n)}
             among == IF free = {} THEN seen ELSE free
  <2> HIDE DEF free
  <2>1. free \subseteq seen
    BY DEF free
  <2>2. Networks \subseteq Nat
    BY DEF WifiConstants
  <2>3. among \in SUBSET Nat /\ among # {} /\ among \subseteq Networks
    BY <1>2, <2>1, <2>2
  <2>4. Wifi!Min(among) \in Networks
    <3> HIDE DEF among
    <3> QED
      BY <2>3, LeastIs
  <2>5. Wifi!Connect(Wifi!Min(among)) /\ Wifi!Asked(Wifi!AskedIn(seen)) /\ cursor' = cursor
    BY <1>2 DEF Wifi!ScanSelect, free
  <2> HIDE DEF among
  <2> QED
    BY <2>4, <2>5, AskedTyped DEF Wifi!Connect, NetsTold
<1> QED
  BY <1>1, <1>2

LEMMA TurnTyped ==
    ASSUME WifiConstants, NetsTold, Wifi!InTurn
    PROVE  /\ attempted' \in Networks /\ cursor' \in Networks /\ wifi_link' \in Networks
           /\ ban' \in [Networks -> {"none", "live", "over"}] /\ air' = "joining"
<1>1. PICK n \in Nat \ {0} : Networks = 1 .. n
  BY DEF WifiConstants
<1> DEFINE at(i) == ((cursor + i - 1) % n) + 1
           free == {i \in 1 .. n : ~Wifi!ShouldSkip(at(i))}
           one  == IF free = {} THEN 1 ELSE Wifi!Min(free)
<1>2. one \in 1 .. n
  <2>1. free \in SUBSET Nat /\ free \subseteq 1 .. n
    OBVIOUS
  <2> HIDE DEF free
  <2>2. free # {} => Wifi!Min(free) \in free
    BY <2>1, LeastIs
  <2>3. CASE free = {}
    BY <2>3
  <2>4. CASE free # {}
    BY <2>1, <2>2, <2>4
  <2> QED
    BY <2>3, <2>4
<1>3. /\ Wifi!Connect(at(one)) /\ cursor' = at(one)
      /\ Wifi!Asked({at(j) : j \in 1 .. (IF free = {} THEN n ELSE one)})
  BY <1>1, LastNetwork DEF Wifi!InTurn
<1>4. at(one) \in Networks
  <2> HIDE DEF one
  <2>1. cursor + one - 1 \in Int
    BY <1>1, <1>2 DEF NetsTold
  <2> QED
    BY <1>1, <2>1, TurnIs
<1>5. ban' \in [Networks -> {"none", "live", "over"}]
  <2> HIDE DEF at, free, one
  <2> QED
    BY <1>3, AskedTyped
<1> HIDE DEF at, free, one
<1> QED
  BY <1>3, <1>4, <1>5 DEF Wifi!Connect

LEMMA NetsStep ==
    ASSUME WifiConstants, NetsTold, [Wifi!Next]_(Wifi!vars)  PROVE NetsTold'
<1>1. 1 \in Networks
  BY DEF WifiConstants
<1>2. ASSUME UNCHANGED fails,
             /\ attempted' \in Networks /\ cursor' \in Networks /\ wifi_link' \in Networks
             /\ ban' \in [Networks -> {"none", "live", "over"}]
      PROVE  NetsTold'
  BY <1>2 DEF NetsTold
<1>3. CASE Wifi!OnStart
  <2>1. fails' = fails
    BY <1>3 DEF Wifi!OnStart
  <2>2. CASE UNCHANGED <<cursor, ban, attempted, wifi_link>>
    BY <2>1, <2>2 DEF NetsTold
  <2>3. CASE (\E seen \in SUBSET Networks : Wifi!ScanSelect(seen)) \/ Wifi!InTurn
    BY <1>2, <2>1, <2>3, SelectTyped, TurnTyped
  <2>4. CASE Wifi!Connect(wifi_link) /\ UNCHANGED <<ban, cursor>>
    BY <2>1, <2>4 DEF Wifi!Connect, NetsTold
  <2> QED
    BY <1>3, <2>2, <2>3, <2>4 DEF Wifi!OnStart
<1>4. CASE Wifi!OnDisconnect
  <2>1. UNCHANGED <<attempted, cursor, wifi_link>>
    BY <1>4 DEF Wifi!OnDisconnect
  <2>2. CASE UNCHANGED <<fails, ban>>
    BY <2>1, <2>2 DEF NetsTold
  <2>3. CASE Wifi!ChargeFailure(attempted)
    <3>1. /\ fails' \in [Networks -> 0 .. BanAfter]
          /\ ban' \in [Networks -> {"none", "live", "over"}]
      BY <2>3 DEF Wifi!ChargeFailure, NetsTold, WifiConstants
    <3> QED
      BY <2>1, <3>1 DEF NetsTold
  <2> QED
    BY <1>4, <2>2, <2>3 DEF Wifi!OnDisconnect
<1>5. CASE Wifi!OnAddress
  <2>1. /\ UNCHANGED <<attempted, cursor, wifi_link>>
        /\ fails' = [fails EXCEPT ![attempted] = 0] /\ ban' = [ban EXCEPT ![attempted] = "none"]
    BY <1>5 DEF Wifi!OnAddress
  <2>2. fails' \in [Networks -> 0 .. BanAfter]
    BY <2>1 DEF NetsTold, WifiConstants
  <2>3. ban' \in [Networks -> {"none", "live", "over"}]
    BY <2>1 DEF NetsTold
  <2> QED
    BY <2>1, <2>2, <2>3 DEF NetsTold
<1>6. CASE Wifi!Attempt
  <2>1. UNCHANGED <<fails, cursor>>
    BY <1>6 DEF Wifi!Attempt
  <2>2. CASE UNCHANGED <<attempted, wifi_link, ban>>
    BY <2>1, <2>2 DEF NetsTold
  <2>3. CASE Wifi!Direct
    <3>1. ban' \in [Networks -> {"none", "live", "over"}]
      BY <2>3, AskedTyped DEF Wifi!Direct
    <3>2. attempted' \in Networks /\ wifi_link' \in Networks
      BY <2>3 DEF Wifi!Direct, Wifi!Connect, NetsTold
    <3> QED
      BY <1>2, <2>1, <3>1, <3>2 DEF NetsTold
  <2> QED
    BY <1>6, <2>2, <2>3 DEF Wifi!Attempt
<1>7. CASE (\E seen \in SUBSET Networks : Wifi!Scan(seen)) \/ Wifi!ScanFailed
  BY <1>2, <1>7, SelectTyped, TurnTyped DEF Wifi!Scan, Wifi!ScanFailed, Wifi!ScanEnds
<1>8. ASSUME NEW n \in Networks, Wifi!BanLapses(n)  PROVE NetsTold'
  <2>1. UNCHANGED <<attempted, cursor, wifi_link, fails>> /\ ban' = [ban EXCEPT ![n] = "over"]
    BY <1>8 DEF Wifi!BanLapses, Wifi!driver, Wifi!status
  <2> QED
    BY <2>1 DEF NetsTold
<1>9. CASE Wifi!Enable
  BY <1>1, <1>9 DEF Wifi!Enable, Wifi!bans, NetsTold
<1>10. CASE \/ Wifi!JoinSucceeds \/ Wifi!JoinFails \/ Wifi!LinkLost \/ Wifi!StationMoves
            \/ Wifi!ApBack \/ Wifi!OnStation \/ Wifi!Top
  <2>1. UNCHANGED <<attempted, cursor, wifi_link, fails, ban>>
    BY <1>10, Zenon DEF Wifi!JoinSucceeds, Wifi!JoinFails, Wifi!LinkLost, Wifi!StationMoves,
       Wifi!ApBack, Wifi!OnStation, Wifi!Top, Wifi!Elsewhere, Wifi!status, Wifi!bans,
       Wifi!driver
  <2> QED
    BY <2>1 DEF NetsTold
<1>11. CASE \/ Wifi!Disable \/ Wifi!RadioOff \/ Wifi!Forget \/ Wifi!EnableBits
            \/ Wifi!EnableTask \/ Wifi!Leave \/ UNCHANGED Wifi!vars
  <2>1. UNCHANGED <<attempted, cursor, wifi_link, fails, ban>>
    BY <1>11, Zenon DEF Wifi!Disable, Wifi!RadioOff, Wifi!Forget, Wifi!EnableBits,
       Wifi!EnableTask, Wifi!Leave, Wifi!vars, Wifi!status, Wifi!bans, Wifi!driver
  <2> QED
    BY <2>1 DEF NetsTold
<1> QED
  BY <1>3, <1>4, <1>5, <1>6, <1>7, <1>8, <1>9, <1>10, <1>11 DEF Wifi!Next

LEMMA ToldStep ==
    ASSUME WifiConstants, NetsTold, WifiTold, [Wifi!Next]_(Wifi!vars)  PROVE WifiTold'
<1> USE DEF WifiTold
<1>1. CASE Wifi!JoinSucceeds \/ Wifi!JoinFails \/ Wifi!LinkLost \/ Wifi!StationMoves
  BY <1>1 DEF Wifi!JoinSucceeds, Wifi!JoinFails, Wifi!LinkLost, Wifi!StationMoves,
     Wifi!Elsewhere, Wifi!status
<1>2. CASE \E n \in Networks : Wifi!BanLapses(n)
  BY <1>2 DEF Wifi!BanLapses, Wifi!driver, Wifi!status
<1>3. CASE Wifi!OnStart
  <2>1. air' \in {air, "joining"}
    <3>1. CASE UNCHANGED air
      BY <3>1
    <3>2. CASE (\E seen \in SUBSET Networks : Wifi!ScanSelect(seen)) \/ Wifi!InTurn
      BY <3>2, SelectTyped, TurnTyped
    <3>3. CASE Wifi!Connect(wifi_link)
      BY <3>3 DEF Wifi!Connect
    <3> QED
      BY <1>3, <3>1, <3>2, <3>3 DEF Wifi!OnStart
  <2>2. UNCHANGED <<mode, wifi_enabled, connected, stations, upBit, downBit, ours, hpc, rpc,
                    fast, mpc, radio, around>>
    BY <1>3 DEF Wifi!OnStart
  <2> QED
    BY <2>1, <2>2
<1>4. CASE Wifi!OnDisconnect \/ Wifi!ApBack \/ Wifi!OnAddress \/ Wifi!OnStation
  <2>1. CASE Wifi!OnDisconnect
    BY <2>1 DEF Wifi!OnDisconnect, Wifi!AfterDisconnect
  <2>2. CASE Wifi!ApBack
    BY <2>2 DEF Wifi!ApBack, Wifi!status
  <2>3. CASE Wifi!OnAddress
    BY <2>3 DEF Wifi!OnAddress
  <2>4. CASE Wifi!OnStation
    BY <2>4 DEF Wifi!OnStation
  <2> QED
    BY <1>4, <2>1, <2>2, <2>3, <2>4
<1>5. CASE Wifi!Top
  BY <1>5 DEF Wifi!Top, Wifi!status, Wifi!driver
<1>6. CASE Wifi!Attempt
  <2>1. air' \in {air, "joining"} /\ downBit' \in {downBit, FALSE} /\ rpc' \in {"scan", "top"}
    BY <1>6 DEF Wifi!Attempt, Wifi!Direct, Wifi!Connect
  <2>2. /\ fast' = (fast /\ rpc' = "scan")
        /\ UNCHANGED <<mode, wifi_enabled, connected, stations, upBit, ours, hpc, mpc, radio,
                       around>>
    BY <1>6 DEF Wifi!Attempt
  <2> QED
    BY <2>1, <2>2
<1>7. CASE (\E seen \in SUBSET Networks : Wifi!Scan(seen)) \/ Wifi!ScanFailed
  <2>1. air' = "joining" /\ Wifi!ScanEnds
    BY <1>7, SelectTyped, TurnTyped DEF Wifi!Scan, Wifi!ScanFailed
  <2> QED
    BY <2>1 DEF Wifi!ScanEnds
<1>8. CASE Wifi!Disable \/ Wifi!RadioOff \/ Wifi!Forget
  <2>1. CASE Wifi!Disable
    BY <2>1 DEF Wifi!Disable, Wifi!status, Wifi!driver
  <2>2. CASE Wifi!RadioOff
    BY <2>2 DEF Wifi!RadioOff, Wifi!status
  <2>3. CASE Wifi!Forget
    BY <2>3 DEF Wifi!Forget, Wifi!driver
  <2> QED
    BY <1>8, <2>1, <2>2, <2>3
<1>9. CASE Wifi!Enable
  <2>1. radio' = mode /\ mode' = mode /\ wifi_enabled' = TRUE /\ mpc' = "bits"
        /\ UNCHANGED <<connected, stations, upBit, downBit, ours, hpc, rpc, fast, air, around>>
    BY <1>9 DEF Wifi!Enable, Wifi!AfterStart
  <2> QED
    BY <2>1 DEF WifiConstants
<1>10. CASE Wifi!EnableBits \/ Wifi!EnableTask \/ Wifi!Leave \/ UNCHANGED Wifi!vars
  BY <1>10 DEF Wifi!EnableBits, Wifi!EnableTask, Wifi!Leave, Wifi!vars, Wifi!status,
     Wifi!driver
<1> QED
  BY <1>1, <1>2, <1>3, <1>4, <1>5, <1>6, <1>7, <1>8, <1>9, <1>10 DEF Wifi!Next

\* What is raised fits, what is handled makes room.
LEMMA RaisedTyped ==
    ASSUME WifiConstants, EventsTold, NEW e \in WifiEvents,
           Wifi!Raise(e) \/ Wifi!RaiseNext(e)
    PROVE  EventsTold'
<1>1. wifi_events \in Seq(WifiEvents) /\ Len(wifi_events) \in Nat
  BY DEF EventsTold
<1>2. CASE Wifi!Raise(e)
  <2>1. /\ Append(wifi_events, e) \in Seq(WifiEvents)
        /\ Len(Append(wifi_events, e)) = Len(wifi_events) + 1
    BY <1>1
  <2>2. Len(wifi_events) < MaxEvents /\ wifi_events' = Append(wifi_events, e)
    BY <1>2 DEF Wifi!Raise
  <2>3. Len(wifi_events) + 1 <= MaxEvents
    BY <1>1, <2>2 DEF WifiConstants
  <2> QED
    BY <2>1, <2>2, <2>3 DEF EventsTold
<1>3. CASE Wifi!RaiseNext(e)
  <2>1. wifi_events' = <<e>> /\ <<e>> \in Seq(WifiEvents) /\ Len(<<e>>) = 1
    BY <1>3 DEF Wifi!RaiseNext
  <2>2. 1 <= MaxEvents
    BY DEF WifiConstants
  <2> QED
    BY <2>1, <2>2 DEF EventsTold
<1> QED
  BY <1>2, <1>3

LEMMA HandledTyped ==
    ASSUME WifiConstants, EventsTold, wifi_events # <<>>, wifi_events' = Tail(wifi_events)
    PROVE  EventsTold'
<1>1. wifi_events \in Seq(WifiEvents) /\ Len(wifi_events) <= MaxEvents
  BY DEF EventsTold
<1>2. /\ Tail(wifi_events) \in Seq(WifiEvents) /\ Len(wifi_events) \in Nat
      /\ Len(Tail(wifi_events)) = Len(wifi_events) - 1
  BY <1>1
<1>3. Len(wifi_events) - 1 <= MaxEvents
  BY <1>1, <1>2 DEF WifiConstants
<1> QED
  BY <1>2, <1>3 DEF EventsTold

LEMMA EventsStep ==
    ASSUME WifiConstants, EventsTold, [Wifi!Next]_(Wifi!vars)  PROVE EventsTold'
<1>1. CASE Wifi!JoinSucceeds \/ Wifi!JoinFails \/ Wifi!LinkLost
  BY <1>1, RaisedTyped DEF Wifi!JoinSucceeds, Wifi!JoinFails, Wifi!LinkLost, WifiEvents
<1>2. CASE Wifi!StationMoves \/ Wifi!Enable \/ Wifi!Leave
  BY <1>2, RaisedTyped DEF Wifi!StationMoves, Wifi!Enable, Wifi!Leave, WifiEvents
<1>3. CASE Wifi!OnStart \/ Wifi!OnDisconnect \/ Wifi!OnStation
  BY <1>3, HandledTyped DEF Wifi!OnStart, Wifi!OnDisconnect, Wifi!OnStation, Wifi!Handles
<1>4. CASE Wifi!OnAddress
  <2>1. CASE wifi_events' = Tail(wifi_events)
    BY <1>4, <2>1, HandledTyped DEF Wifi!OnAddress
  <2>2. CASE wifi_events' = Append(Tail(wifi_events), "ap_stop")
    <3>1. wifi_events # <<>>
      BY <1>4 DEF Wifi!OnAddress
    <3> QED
      BY <2>2, <3>1 DEF EventsTold, WifiEvents
  <2> QED
    BY <1>4, <2>1, <2>2 DEF Wifi!OnAddress
<1>5. CASE Wifi!RadioOff
  <2>1. Len(wifi_events') <= MaxEvents
    BY <1>5 DEF Wifi!RadioOff
  <2> DEFINE a == IF connected /\ air = "joined" THEN <<"left">> ELSE <<>>
             b == IF radio = "APSTA" THEN <<"ap_stop">> ELSE <<>>
  <2>2. a \in Seq(WifiEvents) /\ b \in Seq(WifiEvents)
    <3>1. <<>> \in Seq(WifiEvents) /\ <<"left">> \in Seq(WifiEvents)
          /\ <<"ap_stop">> \in Seq(WifiEvents)
      BY DEF WifiEvents
    <3> QED
      BY <3>1, Zenon
  <2>3. wifi_events' = wifi_events \o a \o b
    BY <1>5 DEF Wifi!RadioOff
  <2> HIDE DEF a, b
  <2> QED
    BY <2>1, <2>2, <2>3 DEF EventsTold
<1>6. CASE \/ \E n \in Networks : Wifi!BanLapses(n)
           \/ \E seen \in SUBSET Networks : Wifi!Scan(seen)
           \/ Wifi!ApBack \/ Wifi!Top \/ Wifi!Attempt \/ Wifi!ScanFailed
  <2>1. wifi_events' = wifi_events
    BY <1>6, Zenon DEF Wifi!BanLapses, Wifi!ApBack, Wifi!Top, Wifi!Attempt, Wifi!Scan,
       Wifi!ScanFailed, Wifi!ScanEnds, Wifi!driver
  <2> QED
    BY <2>1 DEF EventsTold
<1>7. CASE Wifi!Disable \/ Wifi!Forget \/ Wifi!EnableBits \/ Wifi!EnableTask
           \/ UNCHANGED Wifi!vars
  <2>1. wifi_events' = wifi_events
    BY <1>7, Zenon DEF Wifi!Disable, Wifi!Forget, Wifi!EnableBits, Wifi!EnableTask, Wifi!vars,
       Wifi!driver
  <2> QED
    BY <2>1 DEF EventsTold
<1> QED
  BY <1>1, <1>2, <1>3, <1>4, <1>5, <1>6, <1>7 DEF Wifi!Next

LEMMA WifiStarts == ASSUME WifiConstants PROVE Wifi!Init => NetsTold /\ WifiTold /\ EventsTold
<1> SUFFICES ASSUME Wifi!Init PROVE NetsTold /\ WifiTold /\ EventsTold
  OBVIOUS
<1>1. PICK n \in Nat \ {0} : Networks = 1 .. n
  BY DEF WifiConstants
<1>2. 1 \in Networks /\ cursor \in Networks
  BY <1>1, LastNetwork DEF Wifi!Init
<1>3. NetsTold
  BY <1>2 DEF Wifi!Init, NetsTold, WifiConstants
<1>4. WifiTold
  BY DEF Wifi!Init, WifiTold
<1>5. EventsTold
  BY DEF Wifi!Init, EventsTold, WifiConstants
<1> QED
  BY <1>3, <1>4, <1>5

\* A lost link is taken up again at most twice without a wait. (WifiMgr.)
RetriesStayFew == Wifi!TypeOK /\ Wifi!NoTightLoop

(* No list of networks, event or mode switch makes the retries a tight loop, *)
(* and what the manager remembers of the networks stays what it can be.      *)
THEOREM RetriesAlwaysFew == ASSUME WifiConstants PROVE Wifi!Spec => []RetriesStayFew
<1> DEFINE Inv == NetsTold /\ WifiTold /\ EventsTold
<1>1. WifiConstants /\ Inv /\ [Wifi!Next]_(Wifi!vars) => Inv'
  BY NetsStep, ToldStep, EventsStep
<1>2. Inv /\ TriesBound => Wifi!TypeOK
  BY DEF NetsTold, WifiTold, EventsTold, TriesBound, Wifi!TypeOK
<1> HIDE DEF Inv
<1>3. WifiConstants /\ Wifi!Init => Inv
  BY WifiStarts DEF Inv
<1> QED
  BY <1>1, <1>2, <1>3, TriesHold, RetriesAreFew, PTL DEF Wifi!Spec, RetriesStayFew
-----------------------------------------------------------------------------
(* The WiFi diagnostics, as an instance, whatever the ring loses.          *)

CONSTANTS Reasons, RingN, TallyN, Repeat, Half, MaxDrops, Horizon, MaxLost

VARIABLES now, sampler, diag_link, hook, start, total, drops, tally, evlAt, evlReason,
          suppressed, facts, dropped, warned, warnAt, hand, diag_up, told, real, diag_said

Diag == INSTANCE WifiDiag WITH link <- diag_link, up <- diag_up, said <- diag_said

\* The ring holds something; the rest of the constants is arbitrary.

DiagConstants ==
    /\ RingN \in Nat \ {0} /\ Repeat \in Nat /\ Half \in Nat /\ MaxDrops \in Nat
    /\ Horizon \in Nat \ {0}

\* The clock, and the linked time that has gone by on it.
ClockInv ==
    /\ now \in 1 .. Diag!End /\ start \in 0 .. now /\ total \in Nat
    /\ Diag!LinkedTimeIsReal
    /\ evlAt \in 0 .. now /\ warnAt \in 0 .. now

LEMMA ClockStep ==
    ASSUME DiagConstants, ClockInv, [Diag!Next]_(Diag!vars)  PROVE ClockInv'
<1> USE DEF ClockInv, DiagConstants, Diag!End, Diag!LinkedTimeIsReal
<1>1. CASE Diag!Tick
  BY <1>1 DEF Diag!Tick, Diag!counts, Diag!throttle, Diag!drain
<1>2. CASE Diag!NoteGotIp
  <2>1. start' = now /\ UNCHANGED <<now, total, evlAt, warnAt>>
    BY <1>2 DEF Diag!NoteGotIp, Diag!clock, Diag!throttle, Diag!drain
  <2> QED
    BY <2>1
<1>3. ASSUME NEW r \in Reasons, Diag!NoteDisconnected(r) PROVE ClockInv'
  <2>1. /\ total' = IF start = 0 THEN total ELSE total + now - start
        /\ start' = 0 /\ UNCHANGED <<now, warnAt>>
    BY <1>3 DEF Diag!NoteDisconnected, Diag!Bank, Diag!clock, Diag!drain
  <2>2. evlAt' = now \/ evlAt' = evlAt
    BY <1>3 DEF Diag!NoteDisconnected, Diag!Throttle
  <2> QED
    BY <2>1, <2>2
<1>4. CASE Diag!DrainEnds
  <2>1. warnAt' = now \/ warnAt' = warnAt
    BY <1>4 DEF Diag!DrainEnds, Diag!Warn
  <2>2. UNCHANGED <<now, start, total, evlAt>>
    BY <1>4 DEF Diag!DrainEnds, Diag!clock, Diag!counts, Diag!throttle
  <2> QED
    BY <2>1, <2>2
<1>5. CASE UNCHANGED <<now, start, total, evlAt, warnAt>>
  BY <1>5
<1>6. ASSUME Diag!Next, ~Diag!Tick, ~Diag!NoteGotIp, ~Diag!DrainEnds,
             ~\E r \in Reasons : Diag!NoteDisconnected(r)
      PROVE  UNCHANGED <<now, start, total, evlAt, warnAt>>
  BY <1>6 DEF Diag!Next, Diag!NoteConnected, Diag!NoteOther, Diag!Push, Diag!Pop,
              Diag!Format, Diag!clock, Diag!counts, Diag!throttle, Diag!drain
<1>7. UNCHANGED Diag!vars => UNCHANGED <<now, start, total, evlAt, warnAt>>
  BY DEF Diag!vars, Diag!clock, Diag!counts, Diag!throttle, Diag!drain
<1> QED
  BY <1>1, <1>2, <1>3, <1>4, <1>5, <1>6, <1>7

\* The tally has no more of a reason than there were disconnects for it.
TallyInv ==
    /\ drops \in 0 .. MaxDrops /\ suppressed \in 0 .. drops
    /\ tally \in [Reasons -> 0 .. MaxDrops] /\ real \in [Reasons -> 0 .. MaxDrops]
    /\ \A r \in Reasons : tally[r] <= real[r] /\ real[r] <= drops

LEMMA TallyStep ==
    ASSUME DiagConstants, TallyInv, [Diag!Next]_(Diag!vars)  PROVE TallyInv'
<1> USE DEF TallyInv, DiagConstants
<1>1. ASSUME NEW r \in Reasons, Diag!NoteDisconnected(r) PROVE TallyInv'
  <2>1. drops < MaxDrops /\ drops' = drops + 1 /\ real' = [real EXCEPT ![r] = @ + 1]
    BY <1>1 DEF Diag!NoteDisconnected
  <2>2. tally' = tally \/ tally' = [tally EXCEPT ![r] = @ + 1]
    BY <1>1 DEF Diag!NoteDisconnected, Diag!Tally
  <2>3. suppressed' = 0 \/ suppressed' = suppressed + 1
    BY <1>1 DEF Diag!NoteDisconnected, Diag!Throttle
  <2>4. drops' \in 0 .. MaxDrops /\ suppressed' \in 0 .. drops'
    BY <2>1, <2>3
  <2>5. /\ real' \in [Reasons -> 0 .. MaxDrops] /\ real'[r] = real[r] + 1
        /\ \A q \in Reasons : real[q] <= real'[q] /\ real'[q] <= drops'
    BY <2>1
  <2>6. CASE tally' = tally
    BY <2>4, <2>5, <2>6
  <2>7. CASE tally' = [tally EXCEPT ![r] = @ + 1]
    <3>1. \A q \in Reasons : tally'[q] = IF q = r THEN tally[q] + 1 ELSE tally[q]
      BY <2>7
    <3>2. \A q \in Reasons : tally'[q] \in 0 .. MaxDrops /\ tally'[q] <= real'[q]
      BY <2>1, <2>4, <2>5, <3>1
    <3>3. tally' \in [Reasons -> 0 .. MaxDrops]
      BY <2>7, <3>2
    <3> QED
      BY <2>4, <2>5, <3>2, <3>3
  <2> QED
    BY <2>2, <2>6, <2>7
<1>2. ASSUME Diag!Next, ~\E r \in Reasons : Diag!NoteDisconnected(r)
      PROVE  UNCHANGED <<drops, suppressed, tally, real>>
  BY <1>2 DEF Diag!Next, Diag!Tick, Diag!NoteConnected, Diag!NoteGotIp, Diag!NoteOther,
              Diag!Push, Diag!Pop, Diag!Format, Diag!DrainEnds, Diag!counts, Diag!throttle
<1>3. UNCHANGED Diag!vars => UNCHANGED <<drops, suppressed, tally, real>>
  BY DEF Diag!vars, Diag!counts, Diag!throttle
<1> QED
  BY <1>1, <1>2, <1>3

\* What waits and what is in hand are facts; only the event task's carry counts.
FactInv ==
    /\ hook \in [Diag!Tasks -> Diag!Facts \cup {Diag!NoFact}]
    /\ hand \in Diag!Facts \cup {Diag!NoFact}
    /\ facts \in Seq(Diag!Facts) /\ Len(facts) <= RingN
    /\ told \in Nat /\ dropped \in Nat /\ warned \in Nat /\ diag_said \in Nat
    /\ ~hook["reconnect"].line

\* What the two exceptions the model writes do to a fact.
WideFacts == [waits : BOOLEAN, line : BOOLEAN, suppressed : Nat]

LEMMA FactExcept ==
    ASSUME NEW f \in WideFacts, NEW s \in Nat
    PROVE  LET g == [f EXCEPT !.waits = TRUE]
               h == [f EXCEPT !.line = TRUE, !.suppressed = s]
           IN  /\ g \in WideFacts /\ g.waits = TRUE
               /\ g.line = f.line /\ g.suppressed = f.suppressed
               /\ h \in WideFacts /\ h.waits = f.waits
               /\ h.line = TRUE /\ h.suppressed = s
<1>1. [f EXCEPT !.waits = TRUE] \in WideFacts
  BY DEF WideFacts
<1>2. [f EXCEPT !.waits = TRUE].waits = TRUE
  BY DEF WideFacts
<1>3. [f EXCEPT !.waits = TRUE].line = f.line
  BY DEF WideFacts
<1>4. [f EXCEPT !.waits = TRUE].suppressed = f.suppressed
  BY DEF WideFacts
<1>5. [f EXCEPT !.line = TRUE, !.suppressed = s] \in WideFacts
  BY DEF WideFacts
<1>6. [f EXCEPT !.line = TRUE, !.suppressed = s].waits = f.waits
  BY DEF WideFacts
<1>7. [f EXCEPT !.line = TRUE, !.suppressed = s].line = TRUE
  BY DEF WideFacts
<1>8. [f EXCEPT !.line = TRUE, !.suppressed = s].suppressed = s
  BY DEF WideFacts
<1> QED
  BY <1>1, <1>2, <1>3, <1>4, <1>5, <1>6, <1>7, <1>8, Zenon

LEMMA FactIs ==
    ASSUME MaxDrops \in Nat
    PROVE  /\ Diag!Fact \in Diag!Facts /\ Diag!Fact.line = FALSE
           /\ Diag!NoFact.line = FALSE /\ Diag!NoFact \notin Diag!Facts
           /\ \A s \in 0 .. MaxDrops :
                 LET f == [Diag!Fact EXCEPT !.line = TRUE, !.suppressed = s]
                 IN  f \in Diag!Facts /\ f.line = TRUE /\ f.suppressed = s
<1>1. ASSUME NEW f \in WideFacts, f.waits = TRUE, f.suppressed \in 0 .. MaxDrops
      PROVE  f \in Diag!Facts
  BY <1>1 DEF Diag!Facts, WideFacts
<1>2. Diag!NoFact \in WideFacts /\ Diag!NoFact.waits = FALSE /\ Diag!NoFact.line = FALSE
      /\ Diag!NoFact.suppressed = 0
  BY DEF Diag!NoFact, WideFacts
<1>0. 0 \in Nat /\ 0 \in 0 .. MaxDrops
  OBVIOUS
<1>3. Diag!Fact \in WideFacts /\ Diag!Fact.waits = TRUE
      /\ Diag!Fact.line = Diag!NoFact.line /\ Diag!Fact.suppressed = Diag!NoFact.suppressed
  BY <1>0, <1>2, FactExcept, Zenon DEF Diag!Fact
<1>4. Diag!NoFact \notin Diag!Facts
  BY <1>2 DEF Diag!Facts
<1>5. ASSUME NEW s \in 0 .. MaxDrops
      PROVE  LET f == [Diag!Fact EXCEPT !.line = TRUE, !.suppressed = s]
             IN  f \in Diag!Facts /\ f.line = TRUE /\ f.suppressed = s
  <2>0. s \in Nat
    OBVIOUS
  <2> DEFINE f == [Diag!Fact EXCEPT !.line = TRUE, !.suppressed = s]
  <2>1. f \in WideFacts /\ f.waits = TRUE /\ f.line = TRUE /\ f.suppressed = s
    BY <1>3, <2>0, FactExcept, Zenon
  <2> HIDE DEF f
  <2>2. f \in Diag!Facts
    BY <1>1, <2>1
  <2> QED
    BY <2>1, <2>2 DEF f
<1>6. Diag!Fact \in Diag!Facts
  BY <1>0, <1>1, <1>2, <1>3
<1> QED
  BY <1>2, <1>3, <1>4, <1>5, <1>6, Zenon

\* What a hook may be about to push after a disconnect.
LEMMA LineIs ==
    ASSUME DiagConstants, TallyInv, FactInv, NEW r \in Reasons, Diag!NoteDisconnected(r)
    PROVE  \E f \in Diag!Facts :
              /\ hook["sys_evt"] = Diag!NoFact /\ hook' = [hook EXCEPT !["sys_evt"] = f]
              /\ \/ f.line = TRUE /\ f.suppressed = suppressed /\ suppressed' = 0
                 \/ f.line = FALSE /\ suppressed' = suppressed + 1
<1>1. suppressed \in 0 .. MaxDrops /\ MaxDrops \in Nat
  BY DEF TallyInv, DiagConstants
<1>2. CASE Diag!Emits(r)
  <2>1. /\ hook["sys_evt"] = Diag!NoFact /\ suppressed' = 0
        /\ hook' = [hook EXCEPT !["sys_evt"] =
                       [Diag!Fact EXCEPT !.line = TRUE, !.suppressed = suppressed]]
    BY <1>2, Zenon DEF Diag!NoteDisconnected, Diag!Fills, Diag!Throttle
  <2>2. [Diag!Fact EXCEPT !.line = TRUE, !.suppressed = suppressed] \in Diag!Facts
        /\ [Diag!Fact EXCEPT !.line = TRUE, !.suppressed = suppressed].line = TRUE
        /\ [Diag!Fact EXCEPT !.line = TRUE, !.suppressed = suppressed].suppressed = suppressed
    BY <1>1, FactIs, Zenon
  <2> QED
    BY <2>1, <2>2, Zenon
<1>3. CASE ~Diag!Emits(r)
  <2>1. /\ hook["sys_evt"] = Diag!NoFact /\ suppressed' = suppressed + 1
        /\ hook' = [hook EXCEPT !["sys_evt"] = Diag!Fact]
    BY <1>3, Zenon DEF Diag!NoteDisconnected, Diag!Fills, Diag!Throttle
  <2> QED
    BY <1>1, <2>1, FactIs
<1> QED
  BY <1>2, <1>3

\* The queue, once a fact is pushed: one longer, or as long and one lost.
LEMMA QueueIs ==
    ASSUME DiagConstants, FactInv, NEW f \in Diag!Facts, Diag!Queue(f)
    PROVE  /\ facts' \in Seq(Diag!Facts) /\ Len(facts') <= RingN /\ dropped' \in Nat
           /\ dropped' = 0 => facts' = Append(facts, f) /\ dropped = 0
<1>1. facts \in Seq(Diag!Facts) /\ Len(facts) <= RingN /\ RingN \in Nat \ {0}
      /\ dropped \in Nat
  BY DEF FactInv, DiagConstants
<1>2. CASE Len(facts) >= RingN
  <2>1. facts' = Append(Tail(facts), f) /\ dropped' = dropped + 1
    BY <1>2, Zenon DEF Diag!Queue
  <2>2. Tail(facts) \in Seq(Diag!Facts) /\ Len(Tail(facts)) = Len(facts) - 1
    BY <1>1, <1>2
  <2>3. facts' \in Seq(Diag!Facts) /\ Len(facts') = Len(Tail(facts)) + 1
    BY <2>1, <2>2
  <2>4. Len(facts') <= RingN /\ dropped' \in Nat /\ dropped' # 0
    BY <1>1, <2>1, <2>2, <2>3
  <2> QED
    BY <2>3, <2>4
<1>3. CASE ~(Len(facts) >= RingN)
  <2>1. facts' = Append(facts, f) /\ dropped' = dropped
    BY <1>3, Zenon DEF Diag!Queue
  <2> QED
    BY <1>1, <1>3, <2>1
<1> QED
  BY <1>2, <1>3

LEMMA FactStep ==
    ASSUME DiagConstants, TallyInv, FactInv, [Diag!Next]_(Diag!vars)  PROVE FactInv'
<1>0. /\ hook \in [Diag!Tasks -> Diag!Facts \cup {Diag!NoFact}]
      /\ hand \in Diag!Facts \cup {Diag!NoFact}
      /\ facts \in Seq(Diag!Facts) /\ Len(facts) <= RingN /\ told \in Nat /\ dropped \in Nat
      /\ warned \in Nat /\ diag_said \in Nat /\ ~hook["reconnect"].line
      /\ Diag!Tasks = {"sys_evt", "reconnect"} /\ MaxDrops \in Nat
      /\ Diag!Fact \in Diag!Facts /\ ~Diag!Fact.line /\ ~Diag!NoFact.line
  BY FactIs DEF FactInv, Diag!Tasks, DiagConstants
<1>1. ASSUME NEW t \in Diag!Tasks, NEW f \in Diag!Facts \cup {Diag!NoFact},
             hook' = [hook EXCEPT ![t] = f], t = "sys_evt" \/ ~f.line
      PROVE  hook' \in [Diag!Tasks -> Diag!Facts \cup {Diag!NoFact}]
             /\ ~hook'["reconnect"].line
  BY <1>0, <1>1
<1>2. CASE Diag!NoteConnected \/ Diag!NoteGotIp \/ \E t \in Diag!Tasks : Diag!NoteOther(t)
  <2>1. UNCHANGED <<hand, facts, told, dropped, warned, diag_said>>
    BY <1>2 DEF Diag!NoteConnected, Diag!NoteGotIp, Diag!NoteOther, Diag!ring, Diag!drain
  <2>2. PICK t \in Diag!Tasks : hook' = [hook EXCEPT ![t] = Diag!Fact]
    BY <1>0, <1>2 DEF Diag!NoteConnected, Diag!NoteGotIp, Diag!NoteOther, Diag!Fills
  <2> QED
    BY <1>0, <1>1, <2>1, <2>2 DEF FactInv
<1>3. CASE \E r \in Reasons : Diag!NoteDisconnected(r)
  <2>1. UNCHANGED <<hand, facts, told, dropped, warned, diag_said>>
    BY <1>3 DEF Diag!NoteDisconnected, Diag!ring, Diag!drain
  <2>2. PICK f \in Diag!Facts : hook' = [hook EXCEPT !["sys_evt"] = f]
    BY <1>3, LineIs
  <2> QED
    BY <1>0, <1>1, <2>1, <2>2 DEF FactInv
<1>4. ASSUME NEW t \in Diag!Tasks, Diag!Push(t) PROVE FactInv'
  <2>1. /\ UNCHANGED <<hand, told, warned, diag_said>> /\ Diag!Queue(hook[t])
        /\ hook[t] \in Diag!Facts /\ hook' = [hook EXCEPT ![t] = Diag!NoFact]
    BY <1>0, <1>4 DEF Diag!Push, Diag!drain
  <2>2. facts' \in Seq(Diag!Facts) /\ Len(facts') <= RingN /\ dropped' \in Nat
    BY <2>1, QueueIs
  <2> QED
    BY <1>0, <1>1, <2>1, <2>2 DEF FactInv
<1>5. CASE Diag!Pop
  <2>1. /\ UNCHANGED <<hook, told, dropped, warned, diag_said>>
        /\ facts # <<>> /\ hand' = Head(facts) /\ facts' = Tail(facts)
    BY <1>5 DEF Diag!Pop
  <2>2. Head(facts) \in Diag!Facts /\ Tail(facts) \in Seq(Diag!Facts)
        /\ Len(Tail(facts)) <= RingN
    <3>1. Len(facts) \in Nat /\ RingN \in Nat /\ Len(Tail(facts)) = Len(facts) - 1
      BY <1>0, <2>1 DEF DiagConstants
    <3> QED
      BY <1>0, <2>1, <3>1
  <2> QED
    BY <1>0, <2>1, <2>2 DEF FactInv
<1>6. CASE Diag!Format
  <2>1. /\ UNCHANGED <<hook, facts, dropped, warned, diag_said>>
        /\ hand \in Diag!Facts /\ hand' = Diag!NoFact /\ told' = told + Diag!Carried(hand)
    BY <1>0, <1>6 DEF Diag!Format, Diag!ring
  <2>2. Diag!Carried(hand) \in Nat
    BY <2>1 DEF Diag!Carried, Diag!Facts
  <2> QED
    BY <1>0, <2>1, <2>2 DEF FactInv
<1>7. CASE Diag!DrainEnds
  <2>1. UNCHANGED <<hook, facts, dropped, hand, told>>
    BY <1>7 DEF Diag!DrainEnds, Diag!ring
  <2>2. /\ warned' = dropped \/ warned' = warned
        /\ diag_said' = dropped \/ diag_said' = diag_said
    BY <1>7 DEF Diag!DrainEnds, Diag!Warn
  <2> QED
    BY <1>0, <2>1, <2>2 DEF FactInv
<1>8. CASE Diag!Tick \/ UNCHANGED Diag!vars
  BY <1>8 DEF FactInv, Diag!Tick, Diag!vars, Diag!ring, Diag!drain
<1> QED
  BY <1>2, <1>3, <1>4, <1>5, <1>6, <1>7, <1>8 DEF Diag!Next
LEMMA CarriedIs ==
    ASSUME MaxDrops \in Nat
    PROVE  /\ \A f \in Diag!Facts \cup {Diag!NoFact} : Diag!Carried(f) \in Nat
           /\ \A f \in Diag!Facts \cup {Diag!NoFact} :
                 f.line = FALSE => Diag!Carried(f) = 0
           /\ \A f \in Diag!Facts : f.line = TRUE => Diag!Carried(f) = 1 + f.suppressed
           /\ Diag!Carried(Diag!Fact) = 0 /\ Diag!Carried(Diag!NoFact) = 0
<1>1. ASSUME NEW f \in Diag!Facts PROVE Diag!Carried(f) \in Nat
  BY <1>1 DEF Diag!Carried, Diag!Facts
<1>2. Diag!Carried(Diag!Fact) = 0 /\ Diag!Carried(Diag!NoFact) = 0
  BY FactIs, Zenon DEF Diag!Carried
<1>3. \A f \in Diag!Facts : f.line = FALSE => Diag!Carried(f) = 0
  BY Zenon DEF Diag!Carried
<1>4. \A f \in Diag!Facts : f.line = TRUE => Diag!Carried(f) = 1 + f.suppressed
  BY Zenon DEF Diag!Carried
<1> QED
  BY <1>1, <1>2, <1>3, <1>4

\* The running sums, with what they are sums of as arguments.
Sums(s, t, h, q) ==
    /\ s \in [0 .. Len(q) -> 0 .. MaxDrops]
    /\ s[0] = t + Diag!Carried(h)
    /\ \A i \in 1 .. Len(q) : s[i] = s[i - 1] + Diag!Carried(q[i])

\* One fact more at the end of the queue.
LEMMA SumsPush ==
    ASSUME MaxDrops \in Nat, NEW q \in Seq(Diag!Facts), NEW f \in Diag!Facts, NEW t, NEW h,
           NEW s, Sums(s, t, h, q), s[Len(q)] + Diag!Carried(f) <= MaxDrops
    PROVE  \E z : Sums(z, t, h, Append(q, f)) /\ z[Len(q) + 1] = s[Len(q)] + Diag!Carried(f)
<1> DEFINE n == Len(q)
           c == Diag!Carried(f)
           p == Append(q, f)
           z == [i \in 0 .. n + 1 |-> IF i <= n THEN s[i] ELSE s[n] + c]
<1>1. n \in Nat /\ c \in Nat /\ s \in [0 .. n -> 0 .. MaxDrops]
  BY CarriedIs DEF Sums
<1>2. Len(p) = n + 1 /\ (\A i \in 1 .. n : p[i] = q[i]) /\ p[n + 1] = f
  OBVIOUS
<1>3. s[n] + c <= MaxDrops /\ s[0] = t + Diag!Carried(h)
      /\ \A i \in 1 .. n : s[i] = s[i - 1] + Diag!Carried(q[i])
  BY DEF Sums
<1> HIDE DEF n, c, p
<1>4. z \in [0 .. n + 1 -> 0 .. MaxDrops]
  BY <1>1, <1>3
<1>5. z[0] = s[0] /\ z[n + 1] = s[n] + c
  BY <1>1
<1>6. ASSUME NEW i \in 1 .. n + 1 PROVE z[i] = z[i - 1] + Diag!Carried(p[i])
  <2>1. CASE i <= n
    <3>1. z[i] = s[i] /\ z[i - 1] = s[i - 1] /\ i \in 1 .. n
      BY <1>1, <1>6, <2>1
    <3> QED
      BY <1>2, <1>3, <3>1
  <2>2. CASE i = n + 1
    <3>1. z[i - 1] = s[n] /\ p[i] = f
      BY <1>1, <1>2, <2>2
    <3> QED
      BY <1>5, <2>2, <3>1 DEF c
  <2> QED
    BY <1>1, <1>6, <2>1, <2>2
<1>7. Sums(z, t, h, p)
  BY <1>2, <1>3, <1>4, <1>5, <1>6 DEF Sums
<1> QED
  BY <1>5, <1>7 DEF p, n, c

\* The first fact taken out of it.
LEMMA SumsPop ==
    ASSUME MaxDrops \in Nat, NEW q \in Seq(Diag!Facts), q # <<>>, NEW t \in Nat,
           NEW s, Sums(s, t, Diag!NoFact, q)
    PROVE  \E z : Sums(z, t, Head(q), Tail(q)) /\ z[Len(Tail(q))] = s[Len(q)]
<1> DEFINE n == Len(q)
           p == Tail(q)
           z == [i \in 0 .. n - 1 |-> s[i + 1]]
<1>1. n \in Nat /\ n > 0 /\ s \in [0 .. n -> 0 .. MaxDrops]
  BY DEF Sums
<1>2. Len(p) = n - 1 /\ (\A i \in 1 .. n - 1 : p[i] = q[i + 1]) /\ Head(q) = q[1]
  OBVIOUS
<1>3. s[0] = t + Diag!Carried(Diag!NoFact)
      /\ \A i \in 1 .. n : s[i] = s[i - 1] + Diag!Carried(q[i])
  BY DEF Sums
<1> HIDE DEF n, p
<1>4. z \in [0 .. n - 1 -> 0 .. MaxDrops]
  BY <1>1
<1>5. z[0] = t + Diag!Carried(Head(q))
  <2>1. z[0] = s[1] /\ s[1] = s[0] + Diag!Carried(q[1])
    BY <1>1, <1>3
  <2>2. Diag!Carried(Diag!NoFact) = 0
    BY CarriedIs
  <2> QED
    BY <1>2, <1>3, <2>1, <2>2
<1>6. ASSUME NEW i \in 1 .. n - 1 PROVE z[i] = z[i - 1] + Diag!Carried(p[i])
  <2>1. z[i] = s[i + 1] /\ z[i - 1] = s[i] /\ i + 1 \in 1 .. n /\ i + 1 - 1 = i
    BY <1>1, <1>6
  <2>2. s[i + 1] = s[i + 1 - 1] + Diag!Carried(q[i + 1])
    BY <1>3, <2>1
  <2> QED
    BY <1>2, <1>6, <2>1, <2>2
<1>7. Sums(z, t, Head(q), p)
  BY <1>2, <1>4, <1>5, <1>6 DEF Sums
<1>8. z[n - 1] = s[n]
  BY <1>1
<1> QED
  BY <1>2, <1>7, <1>8 DEF p, n

LEMMA DropsAre ==
    Diag!EveryDropTold <=>
        (dropped = 0 => \E s : /\ Sums(s, told, hand, facts)
                               /\ drops = s[Len(facts)] + Diag!Carried(hook["sys_evt"]) + suppressed)
BY Zenon DEF Diag!EveryDropTold, Sums

\* The tally of what is told, on the way and held back, over a step.
LEMMA DropsStep ==
    ASSUME DiagConstants, TallyInv, FactInv, Diag!EveryDropTold, [Diag!Next]_(Diag!vars)
    PROVE  Diag!EveryDropTold'
<1> DEFINE here == Diag!Carried(hook["sys_evt"])
<1>0. /\ hook \in [Diag!Tasks -> Diag!Facts \cup {Diag!NoFact}]
      /\ hand \in Diag!Facts \cup {Diag!NoFact} /\ facts \in Seq(Diag!Facts)
      /\ told \in Nat /\ hook["reconnect"].line = FALSE
      /\ "sys_evt" \in Diag!Tasks /\ "reconnect" \in Diag!Tasks /\ MaxDrops \in Nat
      /\ Diag!Tasks = {"sys_evt", "reconnect"} /\ "sys_evt" # "reconnect"
  BY DEF FactInv, Diag!Tasks, DiagConstants
<1>1. /\ here \in Nat /\ Diag!Carried(hand) \in Nat
      /\ Diag!Carried(Diag!NoFact) = 0 /\ Diag!Carried(Diag!Fact) = 0
  BY <1>0, CarriedIs
<1>2. drops \in Nat /\ drops <= MaxDrops /\ suppressed \in Nat
  BY <1>0 DEF TallyInv
<1>3. ASSUME UNCHANGED <<told, hand, facts>>, dropped' = 0 => dropped = 0,
             here' + drops + suppressed' = drops' + here + suppressed,
             here' \in Nat, drops' \in Nat, suppressed' \in Nat
      PROVE  Diag!EveryDropTold'
  <2> SUFFICES ASSUME dropped' = 0
               PROVE  \E s : /\ Sums(s, told, hand, facts)
                             /\ drops' = s[Len(facts)] + here' + suppressed'
    BY <1>3, DropsAre, Zenon DEF Diag!EveryDropTold, Sums
  <2>1. PICK s : Sums(s, told, hand, facts) /\ drops = s[Len(facts)] + here + suppressed
    BY <1>3, DropsAre, Zenon
  <2>2. s[Len(facts)] \in Nat
    BY <1>0, <2>1 DEF Sums
  <2>3. drops' = s[Len(facts)] + here' + suppressed'
    <3>1. /\ here \in Nat /\ drops \in Nat /\ suppressed \in Nat
          /\ drops = s[Len(facts)] + here + suppressed
      BY <1>1, <1>2, <2>1
    <3>2. here' + drops + suppressed' = drops' + here + suppressed
          /\ here' \in Nat /\ drops' \in Nat /\ suppressed' \in Nat
      BY <1>3
    <3>3. PICK a \in Nat, b \in Nat, c \in Nat : a = here /\ b = drops /\ c = suppressed
      BY <3>1
    <3>4. PICK x \in Nat, y \in Nat, z \in Nat : x = here' /\ y = drops' /\ z = suppressed'
      BY <3>2
    <3>5. PICK n \in Nat : n = s[Len(facts)]
      BY <2>2
    <3>6. b = n + a + c
      BY <3>1, <3>3, <3>5, Zenon
    <3>7. x + b + z = y + a + c
      BY <3>2, <3>3, <3>4, Zenon
    <3>8. y = n + x + z
      BY <3>6, <3>7
    <3> QED
      BY <3>4, <3>5, <3>8, Zenon
  <2> QED
    BY <2>1, <2>3
<1>4. CASE Diag!NoteConnected \/ Diag!NoteGotIp \/ \E t \in Diag!Tasks : Diag!NoteOther(t)
  <2>1. UNCHANGED <<told, hand, facts, dropped, drops, suppressed>>
    BY <1>4 DEF Diag!NoteConnected, Diag!NoteGotIp, Diag!NoteOther, Diag!counts,
                Diag!throttle, Diag!ring, Diag!drain
  <2>2. PICK t \in Diag!Tasks : hook[t] = Diag!NoFact /\ hook' = [hook EXCEPT ![t] = Diag!Fact]
    BY <1>0, <1>4 DEF Diag!NoteConnected, Diag!NoteGotIp, Diag!NoteOther, Diag!Fills
  <2>3. \/ hook'["sys_evt"] = hook["sys_evt"]
        \/ hook["sys_evt"] = Diag!NoFact /\ hook'["sys_evt"] = Diag!Fact
    BY <1>0, <2>2
  <2>4. here' = here
    BY <1>1, <2>3
  <2> HIDE DEF here
  <2> QED
    BY <1>1, <1>2, <1>3, <2>1, <2>4
<1>5. ASSUME NEW r \in Reasons, Diag!NoteDisconnected(r) PROVE Diag!EveryDropTold'
  <2>1. UNCHANGED <<told, hand, facts, dropped>> /\ drops' = drops + 1
    BY <1>5 DEF Diag!NoteDisconnected, Diag!ring, Diag!drain
  <2>2. PICK f \in Diag!Facts :
           /\ hook["sys_evt"] = Diag!NoFact /\ hook' = [hook EXCEPT !["sys_evt"] = f]
           /\ \/ f.line = TRUE /\ f.suppressed = suppressed /\ suppressed' = 0
              \/ f.line = FALSE /\ suppressed' = suppressed + 1
    BY <1>5, LineIs
  <2>3. hook'["sys_evt"] = f
    BY <1>0, <2>2
  <2>4. here = 0 /\ here' = Diag!Carried(f)
    BY <1>1, <2>2, <2>3
  <2>5. \/ here' = 1 + suppressed /\ suppressed' = 0
        \/ here' = 0 /\ suppressed' = suppressed + 1
    BY <1>0, <2>2, <2>4, CarriedIs
  <2> HIDE DEF here
  <2> QED
    BY <1>1, <1>2, <1>3, <2>1, <2>4, <2>5
<1>6. ASSUME NEW t \in Diag!Tasks, Diag!Push(t) PROVE Diag!EveryDropTold'
  <2>1. /\ UNCHANGED <<told, hand, drops, suppressed>> /\ Diag!Queue(hook[t])
        /\ hook[t] \in Diag!Facts /\ hook' = [hook EXCEPT ![t] = Diag!NoFact]
    BY <1>0, <1>6 DEF Diag!Push, Diag!drain, Diag!counts, Diag!throttle
  <2> SUFFICES ASSUME dropped' = 0
               PROVE  \E s : /\ Sums(s, told, hand, facts')
                             /\ drops = s[Len(facts')] + here' + suppressed
    BY <2>1, Zenon DEF Diag!EveryDropTold, Sums
  <2>2. facts' = Append(facts, hook[t]) /\ dropped = 0
    BY <2>1, QueueIs
  <2>3. Len(facts') = Len(facts) + 1
    BY <1>0, <2>1, <2>2
  <2>4. PICK s : Sums(s, told, hand, facts) /\ drops = s[Len(facts)] + here + suppressed
    BY <2>2, DropsAre, Zenon
  <2>5. s[Len(facts)] \in Nat
    BY <1>0, <2>4 DEF Sums
  <2>6. here = here' + Diag!Carried(hook[t]) /\ Diag!Carried(hook[t]) \in Nat /\ here' \in Nat
    <3>1. CASE t = "sys_evt"
      <4>1. hook'["sys_evt"] = Diag!NoFact
        BY <1>0, <2>1, <3>1
      <4>2. here' = 0 /\ here = Diag!Carried(hook[t])
        BY <1>1, <3>1, <4>1
      <4> HIDE DEF here
      <4> QED
        BY <1>1, <4>2
    <3>2. CASE t = "reconnect"
      <4>1. hook'["sys_evt"] = hook["sys_evt"]
        BY <1>0, <2>1, <3>2
      <4>2. here' = here /\ Diag!Carried(hook[t]) = 0
        BY <1>0, <2>1, <3>2, <4>1, CarriedIs
      <4> HIDE DEF here
      <4> QED
        BY <1>1, <4>2
    <3> QED
      BY <1>0, <3>1, <3>2
  <2> HIDE DEF here
  <2>7. s[Len(facts)] + Diag!Carried(hook[t]) <= MaxDrops
    <3>1. drops = s[Len(facts)] + here + suppressed /\ MaxDrops \in Nat
      BY <1>0, <2>4
    <3> QED
      BY <1>2, <2>5, <2>6, <3>1
  <2>8. PICK z : Sums(z, told, hand, Append(facts, hook[t]))
                 /\ z[Len(facts) + 1] = s[Len(facts)] + Diag!Carried(hook[t])
    BY <1>0, <2>1, <2>4, <2>7, SumsPush
  <2>9. drops = z[Len(facts')] + here' + suppressed
    BY <1>2, <2>3, <2>4, <2>5, <2>6, <2>8
  <2> QED
    BY <2>2, <2>8, <2>9
<1>7. CASE Diag!Pop
  <2>1. /\ UNCHANGED <<hook, told, dropped, drops, suppressed>> /\ hand = Diag!NoFact
        /\ facts # <<>> /\ hand' = Head(facts) /\ facts' = Tail(facts)
    BY <1>7 DEF Diag!Pop, Diag!counts, Diag!throttle
  <2> SUFFICES ASSUME dropped' = 0
               PROVE  \E s : /\ Sums(s, told, Head(facts), Tail(facts))
                             /\ drops = s[Len(Tail(facts))] + here + suppressed
    BY <2>1, Zenon DEF Diag!EveryDropTold, Sums
  <2>2. PICK s : Sums(s, told, Diag!NoFact, facts) /\ drops = s[Len(facts)] + here + suppressed
    BY <2>1, DropsAre, Zenon
  <2>3. PICK z : Sums(z, told, Head(facts), Tail(facts)) /\ z[Len(Tail(facts))] = s[Len(facts)]
    BY <1>0, <2>1, <2>2, SumsPop
  <2> QED
    BY <2>2, <2>3, Zenon
<1>8. CASE Diag!Format
  <2>1. /\ UNCHANGED <<hook, facts, dropped, drops, suppressed>>
        /\ hand' = Diag!NoFact /\ told' = told + Diag!Carried(hand)
    BY <1>8 DEF Diag!Format, Diag!ring, Diag!counts, Diag!throttle
  <2> SUFFICES ASSUME dropped' = 0
               PROVE  \E s : /\ Sums(s, told + Diag!Carried(hand), Diag!NoFact, facts)
                             /\ drops = s[Len(facts)] + here + suppressed
    BY <2>1, Zenon DEF Diag!EveryDropTold, Sums
  <2>2. PICK s : Sums(s, told, hand, facts) /\ drops = s[Len(facts)] + here + suppressed
    BY <2>1, DropsAre, Zenon
  <2>3. told + Diag!Carried(hand) + Diag!Carried(Diag!NoFact) = told + Diag!Carried(hand)
    BY <1>0, <1>1
  <2>4. Sums(s, told + Diag!Carried(hand), Diag!NoFact, facts)
    BY <2>2, <2>3, Zenon DEF Sums
  <2> QED
    BY <2>2, <2>4, Zenon
<1>9. CASE Diag!DrainEnds \/ Diag!Tick \/ UNCHANGED Diag!vars
  <2>1. UNCHANGED <<hook, told, hand, facts, dropped, drops, suppressed>>
    BY <1>9 DEF Diag!DrainEnds, Diag!Tick, Diag!vars, Diag!ring, Diag!drain, Diag!counts,
                Diag!throttle
  <2> QED
    BY <2>1, Zenon DEF Diag!EveryDropTold, Sums
<1> QED
  BY <1>4, <1>5, <1>6, <1>7, <1>8, <1>9 DEF Diag!Next

\* A reason the findings name accounts for half of the disconnects in the tally,
\* and the tally counts none that was not.
LEMMA NamedIsReal == TallyInv /\ DiagConstants => Diag!NamedReasonIsReal
<1> SUFFICES ASSUME TallyInv, DiagConstants, NEW r \in Diag!Named PROVE 2 * real[r] >= drops
  BY DEF Diag!NamedReasonIsReal
<1>1. r \in Reasons /\ 2 * tally[r] >= drops
  BY DEF Diag!Named
<1>2. tally[r] \in Nat /\ real[r] \in Nat /\ tally[r] <= real[r] /\ drops \in Nat
  BY <1>1 DEF TallyInv, DiagConstants
<1> QED
  BY <1>1, <1>2

\* While no fact is lost every disconnect is told once, the linked time is the
\* time it was linked, and the reason that is named is a main one.  (WifiDiag.)
DiagIsTrue ==
    /\ Diag!TypeOK /\ Diag!EveryDropTold
    /\ Diag!LinkedTimeIsReal /\ Diag!NamedReasonIsReal

DiagRest == /\ sampler \in BOOLEAN /\ diag_link \in BOOLEAN /\ diag_up \in BOOLEAN
            /\ evlReason \in Reasons \cup {Diag!NoReason}

DiagInv == DiagRest /\ ClockInv /\ TallyInv /\ FactInv /\ Diag!EveryDropTold

LEMMA RestStep == ASSUME DiagRest, [Diag!Next]_(Diag!vars)  PROVE DiagRest'
<1> USE DEF DiagRest
<1>1. ASSUME NEW r \in Reasons, Diag!NoteDisconnected(r) PROVE DiagRest'
  <2>1. diag_link' = FALSE /\ UNCHANGED <<sampler, diag_up>> /\ (evlReason' = r \/ evlReason' = evlReason)
    BY <1>1, Zenon DEF Diag!NoteDisconnected, Diag!clock, Diag!Throttle
  <2> QED
    BY <2>1
<1>2. CASE Diag!NoteConnected
  BY <1>2 DEF Diag!NoteConnected, Diag!clock, Diag!throttle
<1>3. CASE Diag!DrainEnds
  BY <1>3 DEF Diag!DrainEnds, Diag!clock, Diag!throttle, Diag!Sample
<1>4. CASE UNCHANGED <<sampler, diag_link, diag_up, evlReason>>
  BY <1>4
<1>5. CASE Diag!NoteGotIp \/ Diag!Tick \/ Diag!Pop \/ Diag!Format
           \/ (\E t \in Diag!Tasks : Diag!NoteOther(t) \/ Diag!Push(t)) \/ UNCHANGED Diag!vars
  BY <1>5 DEF Diag!NoteGotIp, Diag!Tick, Diag!Pop, Diag!Format, Diag!NoteOther, Diag!Push,
              Diag!clock, Diag!throttle, Diag!vars
<1> QED
  BY <1>1, <1>2, <1>3, <1>5 DEF Diag!Next

LEMMA DiagStarts == DiagConstants /\ Diag!Init => DiagInv
<1> SUFFICES ASSUME DiagConstants, Diag!Init PROVE DiagInv
  OBVIOUS
<1>0. MaxDrops \in Nat /\ RingN \in Nat /\ 0 \in 0 .. MaxDrops
  BY DEF DiagConstants
<1>1. DiagRest
  BY DEF DiagRest, Diag!Init
<1>2. ClockInv
  BY DEF ClockInv, Diag!Init, Diag!LinkedTimeIsReal, Diag!End, DiagConstants
<1>3. TallyInv
  <2>1. drops = 0 /\ suppressed = 0 /\ tally = [r \in Reasons |-> 0]
        /\ real = [r \in Reasons |-> 0]
    BY DEF Diag!Init
  <2> QED
    BY <1>0, <2>1 DEF TallyInv
<1>4. FactInv
  <2>1. /\ hook = [t \in Diag!Tasks |-> Diag!NoFact] /\ facts = <<>> /\ hand = Diag!NoFact
        /\ told = 0 /\ dropped = 0 /\ warned = 0 /\ diag_said = 0
    BY DEF Diag!Init
  <2>2. hook["reconnect"] = Diag!NoFact /\ Diag!NoFact.line = FALSE
    BY <1>0, <2>1, FactIs DEF Diag!Tasks
  <2>3. facts \in Seq(Diag!Facts) /\ Len(facts) <= RingN
    BY <1>0, <2>1
  <2>4. hook \in [Diag!Tasks -> Diag!Facts \cup {Diag!NoFact}]
    BY <2>1
  <2>5. ~hook["reconnect"].line
    BY <2>2
  <2>6. told \in Nat /\ dropped \in Nat /\ warned \in Nat /\ diag_said \in Nat
    BY <2>1
  <2> QED
    BY <2>1, <2>3, <2>4, <2>5, <2>6 DEF FactInv
<1>5. Diag!EveryDropTold
  <2> DEFINE s == [i \in 0 .. 0 |-> 0]
  <2>1. /\ hook["sys_evt"] = Diag!NoFact /\ facts = <<>> /\ hand = Diag!NoFact
        /\ told = 0 /\ drops = 0 /\ suppressed = 0
    BY DEF Diag!Init, Diag!Tasks
  <2>2. Diag!Carried(Diag!NoFact) = 0 /\ Len(facts) = 0
    BY <1>0, <2>1, CarriedIs
  <2>3. s \in [0 .. Len(facts) -> 0 .. MaxDrops] /\ s[0] = 0
    BY <1>0, <2>2
  <2> HIDE DEF s
  <2>4. Sums(s, told, hand, facts)
    BY <2>1, <2>2, <2>3 DEF Sums
  <2>5. drops = s[Len(facts)] + Diag!Carried(hook["sys_evt"]) + suppressed
    BY <2>1, <2>2, <2>3
  <2> QED
    BY <2>4, <2>5, DropsAre
<1> QED
  BY <1>1, <1>2, <1>3, <1>4, <1>5 DEF DiagInv

\* The diagnostics say what was: while no fact is lost every disconnect is on the
\* log exactly once, no second of linked time is counted twice, and a reason a
\* finding names is behind half of the disconnects - however many facts the ring
\* loses, whichever reasons come, and with the sampler task or without it.
THEOREM DiagStaysTrue == ASSUME DiagConstants PROVE Diag!Spec => []DiagIsTrue
<1>1. Diag!Init => DiagInv
  BY DiagStarts
<1>2. DiagInv /\ [Diag!Next]_(Diag!vars) => DiagInv'
  BY RestStep, ClockStep, TallyStep, FactStep, DropsStep, Zenon DEF DiagInv
<1>3. DiagInv => DiagIsTrue
  <2> SUFFICES ASSUME DiagInv PROVE DiagIsTrue
    OBVIOUS
  <2>1. Diag!TypeOK
    <3>1. now \in 1 .. Diag!End /\ start \in 0 .. Diag!End /\ total \in Nat
          /\ evlAt \in 0 .. Diag!End /\ warnAt \in 0 .. Diag!End
      <4>1. Diag!End \in Nat
        BY DEF Diag!End, DiagConstants
      <4> QED
        BY <4>1 DEF DiagInv, ClockInv
    <3>2. drops \in 0 .. MaxDrops /\ suppressed \in 0 .. MaxDrops
          /\ tally \in [Reasons -> 0 .. MaxDrops] /\ real \in [Reasons -> 0 .. MaxDrops]
      <4>1. MaxDrops \in Nat
        BY DEF DiagConstants
      <4>2. drops \in 0 .. MaxDrops /\ suppressed \in 0 .. drops
        BY DEF DiagInv, TallyInv
      <4>3. suppressed \in 0 .. MaxDrops
        BY <4>1, <4>2
      <4> QED
        BY <4>2, <4>3 DEF DiagInv, TallyInv
    <3> QED
      BY <3>1, <3>2, Zenon DEF DiagInv, DiagRest, FactInv, Diag!TypeOK
  <2> QED
    BY <2>1, NamedIsReal DEF DiagInv, ClockInv, DiagIsTrue
<1> QED
  BY <1>1, <1>2, <1>3, PTL DEF Diag!Spec
=============================================================================
