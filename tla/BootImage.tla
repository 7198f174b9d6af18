------------------------------ MODULE BootImage ------------------------------
(***************************************************************************)
(* The boot (main/main.c, app_main): the update from the SD card while the *)
(* button is held (main/sdcard.c), safe mode with its upload page and its  *)
(* factory reset (main/safemode.c), and the record a panic leaves for the  *)
(* next boot (components/crash_report).  Power can be cut at any step.     *)
(***************************************************************************)
EXTENDS Naturals, Sequences

CONSTANTS
    Files,      \* the configuration files, in the order they are deleted
    Chunks,     \* buffers an image is written in
    Hold,       \* passes of the button loop until safe mode: 5 seconds
    MaxCuts,    \* bound: power cuts
    MaxFaults,  \* bound: failed reads, writes and panics
    MaxUploads  \* bound: upload requests in safe mode

ASSUME BootAssumption == Chunks \in Nat /\ Hold \in Nat

VARIABLES
    slot, boot, running,     \* the images of the two partitions, otadata, what runs
    files, nvs,              \* configuration files present; NVS "kept" or "erased"
    rec,                     \* crash record: [magic, whole]
    pc, button, held,        \* where the boot is; the button; passes it was held
    card,                    \* "absent", "unreadable", "no_image", "new" or "bad"
    img, put,                \* the image being written, chunks written of it
    started,                 \* ota_started of the request
    toldTorn,                \* a torn record was reported (history)
    cuts, faults, uploads

images == <<slot, boot, running>>
stored == <<files, nvs>>
ota    == <<img, put, started>>
bounds == <<cuts, faults, uploads>>
vars == <<images, stored, rec, pc, button, held, card, ota, toldTorn, bounds>>

Slots == 1 .. 2
Whole == {"old", "new"}
Phases == {"fs", "card", "sd_open", "sd_delete", "sd_begin", "sd_write", "sd_end",
           "restart", "button", "safe_up", "safe", "up", "reset", "nvs", "report",
           "app", "panic", "dead"}

TypeOK ==
    /\ slot \in [Slots -> {"old", "new", "bad", "torn"}]
    /\ boot \in Slots /\ running \in Slots
    /\ files \subseteq {Files[i] : i \in 1 .. Len(Files)} /\ nvs \in {"kept", "erased"}
    /\ rec \in [magic : BOOLEAN, whole : BOOLEAN] /\ pc \in Phases
    /\ button \in BOOLEAN /\ held \in 0 .. Hold /\ put \in 0 .. Chunks
    /\ img \in {"new", "bad"} /\ started \in BOOLEAN /\ toldTorn \in BOOLEAN

Init ==
    /\ slot = <<"old", "torn">> /\ boot = 1 /\ running = 1
    /\ files = {Files[i] : i \in 1 .. Len(Files)} /\ nvs = "kept"
    /\ rec = [magic |-> FALSE, whole |-> FALSE]
    /\ pc = "fs" /\ button \in BOOLEAN /\ held = 0
    /\ card \in {"absent", "unreadable", "no_image", "new", "bad"}
    /\ img = "new" /\ put = 0 /\ started = FALSE /\ toldTorn = FALSE
    /\ cuts = 0 /\ faults = 0 /\ uploads = 0

At(p) == pc = p
To(p) == pc' = p
Fault == faults < MaxFaults /\ faults' = faults + 1 /\ UNCHANGED <<cuts, uploads>>

-----------------------------------------------------------------------------
(* Starting over.                                                          *)

\* The bootloader takes the selected image, or the other when that is no image.
Load ==
    LET other == 3 - boot
    IN  IF slot[boot] \in Whole THEN running' = boot /\ To("fs")
        ELSE IF slot[other] \in Whole THEN running' = other /\ To("fs")
        ELSE running' = running /\ To("dead")

Reboot ==
    /\ Load /\ held' = 0 /\ put' = 0 /\ started' = FALSE /\ img' = "new"
    /\ UNCHANGED <<slot, boot, stored, button, card, toldTorn>>

\* restart_tracker_restart.
Restarts == At("restart") /\ Reboot /\ UNCHANGED <<rec, bounds>>

\* A power cut loses the record with the RTC memory.
PowerCut ==
    /\ cuts < MaxCuts /\ cuts' = cuts + 1 /\ ~At("dead") /\ Reboot
    /\ rec' = [magic |-> FALSE, whole |-> FALSE] /\ UNCHANGED <<faults, uploads>>

\* The panic handler marks the record invalid, fills it in, and marks it valid.
MarkWhileFilling == FALSE

Panics ==
    /\ pc \notin {"panic", "dead"} /\ Fault /\ To("panic")
    /\ rec' = [magic |-> MarkWhileFilling, whole |-> FALSE]
    /\ UNCHANGED <<images, stored, button, held, card, ota, toldTorn>>

PanicRecorded ==
    /\ At("panic") /\ Reboot /\ rec' = [magic |-> TRUE, whole |-> TRUE]
    /\ UNCHANGED bounds

\* Walking the stack faults again.
PanicFaults == At("panic") /\ Reboot /\ UNCHANGED <<rec, bounds>>

-----------------------------------------------------------------------------
(* app_main to the SD card.                                                *)

Quiet == UNCHANGED <<rec, toldTorn>>

FilesystemUp ==
    /\ At("fs") /\ To("card")
    /\ UNCHANGED <<images, stored, button, held, card, ota, bounds>> /\ Quiet

Mounted == card \notin {"absent", "unreadable"}

SdUpdates == Mounted /\ button

CardUp ==
    /\ At("card") /\ To(IF SdUpdates THEN "sd_open" ELSE "button")
    /\ UNCHANGED <<images, stored, button, held, card, ota, bounds>> /\ Quiet

SdOpen ==
    /\ At("sd_open") /\ To(IF card = "no_image" THEN "button" ELSE "sd_delete")
    /\ UNCHANGED <<images, stored, button, held, card, ota, bounds>> /\ Quiet

\* filesystem_delete_config_files, one file at a time.
DeleteNext(then) ==
    LET left == {i \in 1 .. Len(Files) : Files[i] \in files}
    IN  IF left = {} THEN To(then) /\ UNCHANGED files
        ELSE /\ files' = files \ {Files[CHOOSE i \in left : \A j \in left : i <= j]}
             /\ UNCHANGED pc

SdDelete ==
    /\ At("sd_delete") /\ DeleteNext("sd_begin")
    /\ UNCHANGED <<images, nvs, button, held, card, ota, bounds>> /\ Quiet

\* esp_ota_get_next_update_partition(NULL).
NextSlot == 3 - running

Put(content) == slot' = [slot EXCEPT ![NextSlot] = content] /\ UNCHANGED <<boot, running>>
Begins(i) == img' = i /\ put' = 0 /\ started' = TRUE /\ Put("torn")

SdBegin ==
    /\ At("sd_begin")
    /\ \/ Begins(card) /\ To("sd_write") /\ UNCHANGED bounds
       \/ Fault /\ To("button") /\ UNCHANGED <<images, ota>>
    /\ UNCHANGED <<stored, button, held, card>> /\ Quiet

\* esp_ota_write: the last chunk makes the slot what was sent.
Writes ==
    /\ put < Chunks /\ put' = put + 1 /\ UNCHANGED <<img, started>>
    /\ Put(IF put + 1 = Chunks THEN img ELSE "torn")

\* A read error looks like the end of the file; a write error ends the update.
SdWrite ==
    /\ At("sd_write")
    /\ \/ Writes /\ UNCHANGED <<pc, bounds>>
       \/ put = Chunks /\ To("sd_end") /\ UNCHANGED <<images, ota, bounds>>
       \/ put < Chunks /\ Fault /\ pc' \in {"sd_end", "button"}
                       /\ UNCHANGED <<images, ota>>
    /\ UNCHANGED <<stored, button, held, card>> /\ Quiet

\* Mutant: the verdict of esp_ota_end is not looked at.
EndUnchecked(s) == TRUE

\* esp_ota_end checks the image.
EndAccepts(s) == s \in Whole

\* esp_ota_end, then esp_ota_set_boot_partition.
Selects == EndAccepts(slot[NextSlot]) /\ boot' = NextSlot /\ UNCHANGED <<slot, running>>

SdEnd ==
    /\ At("sd_end")
    /\ \/ Selects /\ To("restart") /\ UNCHANGED bounds
       \/ ~EndAccepts(slot[NextSlot]) /\ To("button") /\ UNCHANGED <<images, bounds>>
       \/ Fault /\ To("button") /\ UNCHANGED images
    /\ UNCHANGED <<stored, button, held, card, ota>> /\ Quiet

-----------------------------------------------------------------------------
(* safe_mode_check and safe mode.                                          *)

ButtonPass ==
    /\ At("button")
    /\ IF ~button THEN To("nvs") /\ UNCHANGED held
       ELSE IF held = Hold THEN To("safe_up") /\ UNCHANGED held
       ELSE held' = held + 1 /\ UNCHANGED pc
    /\ UNCHANGED <<images, stored, button, card, ota, bounds>> /\ Quiet

\* safemode_start: NVS, the access point and the server, or an abort.
SafeUp ==
    /\ At("safe_up")
    /\ \/ To("safe") /\ UNCHANGED <<rec, nvs, bounds>>
       \/ Fault /\ To("safe") /\ nvs' = "erased" /\ UNCHANGED rec
       \/ Fault /\ To("panic") /\ UNCHANGED nvs
                /\ rec' = [magic |-> MarkWhileFilling, whole |-> FALSE]
    /\ UNCHANGED <<images, files, button, held, card, ota, toldTorn>>

\* upload_firmware_handler's request starts with started clear.
UploadArrives ==
    /\ At("safe") /\ uploads < MaxUploads /\ uploads' = uploads + 1 /\ To("up")
    /\ started' = FALSE /\ UNCHANGED <<img, put, cuts, faults>>
    /\ UNCHANGED <<images, stored, button, held, card>> /\ Quiet

\* ota_on_part_begin; a second part named firmware begins again.
PartBegins(i) ==
    /\ At("up") /\ \/ Begins(i) /\ UNCHANGED <<pc, bounds>>
                   \/ Fault /\ To("safe") /\ UNCHANGED <<images, ota>>
    /\ UNCHANGED <<stored, button, held, card>> /\ Quiet

PartData ==
    /\ At("up") /\ started
    /\ \/ Writes /\ UNCHANGED <<pc, bounds>>
       \/ Fault /\ To("safe") /\ UNCHANGED <<images, ota>>
    /\ UNCHANGED <<stored, button, held, card>> /\ Quiet

\* ota_on_finished; what is lost after the last boundary fails the request.
UploadFinishes ==
    /\ At("up")
    /\ \/ /\ started /\ Selects
          /\ \/ To("restart") /\ UNCHANGED bounds
             \/ Fault /\ To("safe")
       \/ /\ ~started \/ ~EndAccepts(slot[NextSlot])
          /\ To("safe") /\ UNCHANGED <<images, bounds>>
    /\ UNCHANGED <<stored, button, held, card, ota>> /\ Quiet

UploadLost ==
    /\ At("up") /\ Fault /\ To("safe")
    /\ UNCHANGED <<images, stored, button, held, card, ota>> /\ Quiet

ResetAsked ==
    /\ At("safe") /\ To("reset")
    /\ UNCHANGED <<images, stored, button, held, card, ota, bounds>> /\ Quiet

\* factory_reset_handler: the files, then NVS, then the answer and the restart.
FactoryReset ==
    /\ At("reset")
    /\ \/ files # {} /\ DeleteNext("reset") /\ UNCHANGED nvs
       \/ files = {} /\ nvs' = "erased" /\ To("restart") /\ UNCHANGED files
    /\ UNCHANGED <<images, button, held, card, ota, bounds>> /\ Quiet

-----------------------------------------------------------------------------
(* The rest of app_main.                                                   *)

\* nvs_flash_init, erased when it has no free page or another version.
NvsUp ==
    /\ At("nvs") /\ To("report")
    /\ \/ UNCHANGED <<nvs, bounds>>
       \/ Fault /\ nvs' = "erased"
    /\ UNCHANGED <<images, files, button, held, card, ota>> /\ Quiet

\* crash_report_emit_pending.
Report ==
    /\ At("report") /\ To("app")
    /\ toldTorn' = (toldTorn \/ (rec.magic /\ ~rec.whole))
    /\ rec' = [rec EXCEPT !.magic = FALSE]
    /\ UNCHANGED <<images, stored, button, held, card, ota, bounds>>

Presses ==
    /\ button' = ~button
    /\ UNCHANGED <<images, stored, rec, pc, held, card, ota, toldTorn, bounds>>

Steps == \/ Restarts \/ PanicRecorded \/ FilesystemUp \/ CardUp \/ SdOpen \/ SdDelete
         \/ SdBegin \/ SdWrite \/ SdEnd \/ ButtonPass \/ SafeUp \/ NvsUp \/ Report

Next == \/ Steps \/ PowerCut \/ Panics \/ PanicFaults \/ UploadArrives
        \/ PartBegins("new") \/ PartBegins("bad") \/ PartData \/ UploadFinishes
        \/ UploadLost \/ ResetAsked \/ FactoryReset \/ Presses

Spec == Init /\ [][Next]_vars

\* The boot goes on; what people and the power do is theirs.
Fairness == WF_vars(Steps)

FairSpec == Spec /\ Fairness

-----------------------------------------------------------------------------
(* What must hold.                                                         *)

(* The partition the device runs from is never written: whatever was       *)
(* selected by an update whose request then failed, a second update in the *)
(* same boot goes to the other partition.                                  *)
RunningIsIntact == slot[running] \in Whole

(* A boot is only ever directed at an image that was whole when it was     *)
(* selected, whatever was cut off, misread or sent twice before.           *)
SelectsWhole == [][boot' # boot => slot[boot'] \in Whole]_vars

(* With the button let go for good the device ends in the application or   *)
(* in safe mode; a card left in the slot does not send it through the      *)
(* update over and over.                                                   *)
BootEnds == <>[](~button) => <>(pc \in {"app", "safe", "up", "reset"})

(* A report is never pieced together of two panics: a fault in the panic   *)
(* handler loses the record, whole or not (crash_report.c:69 and :97).     *)
ReportsAreWhole == ~toldTorn

(* Whatever cuts a boot or an update short: the device runs and selects    *)
(* whole images only, and what it reports of a panic is of one panic.      *)
ImagesAreWhole ==
    []TypeOK /\ []RunningIsIntact /\ []ReportsAreWhole /\ SelectsWhole

-----------------------------------------------------------------------------
(* Claims the code does not keep.                                          *)

(* An update from the card that does not land leaves the settings: they    *)
(* are deleted before the image is looked at (sdcard.c:75).                *)
SettingsOutlastFailure == At("button") /\ faults = 0 /\ cuts = 0 => files # {}

(* An upload that safe mode answers with "Firmware upload failed" leaves   *)
(* the selected image: one lost after its last boundary has been selected. *)
FailedUploadLeavesBoot == [][At("up") /\ pc' = "safe" => boot' = boot]_vars

(* A held button updates once: the restart finds it still held.            *)
HeldUpdatesOnce == At("sd_begin") => slot[running] # "new"
=============================================================================
