----------------------------- MODULE FlashFence -----------------------------
(***************************************************************************)
(* The ECU-flash fence: who may reboot the adapter, replace its firmware   *)
(* or replace a staged ROM image while a codec owns the ECU.  The HTTP     *)
(* handlers and the restart timer are in main/config_server.c, the rules   *)
(* in main/flash_fence_logic.c, the codecs in main/ncflash_fastwrite.c and *)
(* main/ncflash_fastread.c, the shell commands in                          *)
(* components/cmdline.                                                     *)
(*                                                                         *)
(* There is no lock.  Both sides raise their own flag, cross a full fence, *)
(* and then read the other's, so each raise and each read is a step of its *)
(* own.  httpd is one task, the shell another, the restart timer runs on   *)
(* the FreeRTOS timer task and the codecs inline on the CAN TX task.       *)
(***************************************************************************)
EXTENDS Naturals

CONSTANTS
    Ops,        \* the operations and faults that happen
    MaxRuns,    \* bound: codec runs started
    MaxBoots    \* bound: reboots

OpNames == {"reboot", "update", "sd", "write", "read", "session", "slcan",
            "factory", "start_fails"}

ASSUME FenceAssumption ==
    /\ Ops \subseteq OpNames
    /\ MaxRuns \in Nat
    /\ MaxBoots \in Nat

VARIABLES
    flash,    \* FLASH_ACTIVE_BIT
    pending,  \* s_reboot_pending
    ota,      \* s_ota_active
    armed,    \* xrestartTimer is running (auto-reload)
    session,  \* a bus claim is raised and not both expired and ownerless
    can,      \* CAN_ENABLE_BIT: the controller is on
    codec,    \* the codec on the CAN TX task
    task,     \* the request handler each of the two command tasks is in
    reset,    \* the timer callback: "clear" once it has seen the fence clear
    image,    \* which staged image is published under the name being flashed
    runs,     \* codec runs so far (bound)
    boots     \* reboots so far

vars == <<flash, pending, ota, armed, session, can, codec, task, reset, image,
          runs, boots>>

CodecPC == {"idle", "check", "ota_left", "pending_left", "refuse", "write",
            "read"}

Tasks == {"httpd", "shell"}

TaskPC == {"idle", "schedule", "start", "ota_check", "ota_xfer", "sd_xfer",
           "sd_swap", "factory"}

TypeOK ==
    /\ flash \in BOOLEAN /\ pending \in BOOLEAN /\ ota \in BOOLEAN
    /\ armed \in BOOLEAN /\ session \in BOOLEAN /\ can \in BOOLEAN
    /\ image \in BOOLEAN
    /\ codec \in CodecPC
    /\ task \in [Tasks -> TaskPC]
    /\ reset \in {"idle", "clear"}
    /\ runs \in Nat /\ boots \in Nat

Init ==
    /\ flash = FALSE /\ pending = FALSE /\ ota = FALSE /\ armed = FALSE
    /\ session = FALSE /\ can = TRUE /\ image = FALSE
    /\ codec = "idle"
    /\ task = [t \in Tasks |-> "idle"]
    /\ reset = "idle"
    /\ runs = 0 /\ boots = 0

\* flash_fence_eval over one coexistence snapshot.
Fence == IF flash THEN "flashing" ELSE IF session THEN "session" ELSE "clear"

\* A request is handled by an idle task; the bound stops requests, never a
\* reboot that was accepted.
Accepts(t, op) == op \in Ops /\ task[t] = "idle" /\ boots < MaxBoots

Go(t, pc) == task' = [task EXCEPT ![t] = pc]

-----------------------------------------------------------------------------
(* Reboot requests: the three HTTP handlers and the shell's "system -r".    *)

\* The fence is read; a fenced request is refused with nothing changed.
RebootCheck(t) ==
    /\ Accepts(t, "reboot")
    /\ Fence = "clear"
    /\ Go(t, "schedule")
    /\ UNCHANGED <<flash, pending, ota, armed, session, can, codec, reset,
                   image, runs, boots>>

\* config_server_schedule_reboot raises the flag first ...
RaisePending(t) ==
    /\ task[t] = "schedule"
    /\ pending' = TRUE
    /\ Go(t, "start")
    /\ UNCHANGED <<flash, ota, armed, session, can, codec, reset, image, runs,
                   boots>>

\* ... and then starts the timer ...
StartTimer(t) ==
    /\ task[t] = "start"
    /\ armed' = TRUE
    /\ Go(t, "idle")
    /\ UNCHANGED <<flash, pending, ota, session, can, codec, reset, image,
                   runs, boots>>

\* ... or fails to, the timer task's queue being full.
StartTimerFails(t) ==
    /\ "start_fails" \in Ops
    /\ task[t] = "start"
    /\ pending' = FALSE
    /\ Go(t, "idle")
    /\ UNCHANGED <<flash, ota, armed, session, can, codec, reset, image, runs,
                   boots>>

-----------------------------------------------------------------------------
(* The restart timer.                                                       *)

\* All that is in RAM is lost; the staged image is on the SD card.
Restart ==
    /\ flash' = FALSE /\ pending' = FALSE /\ ota' = FALSE /\ armed' = FALSE
    /\ session' = FALSE /\ can' = TRUE
    /\ codec' = "idle"
    /\ task' = [t \in Tasks |-> "idle"]
    /\ reset' = "idle"
    /\ boots' = boots + 1
    /\ UNCHANGED <<image, runs>>

\* Mutant: a timer that does not reload.
TimerFireOnce ==
    /\ armed /\ reset = "idle"
    /\ reset' = IF Fence = "flashing" THEN "idle" ELSE "clear"
    /\ armed' = FALSE
    /\ UNCHANGED <<flash, pending, ota, session, can, codec, task, image, runs,
                   boots>>

\* Mutant: a timer that asks nothing.
TimerFireAnyway ==
    /\ armed /\ reset = "idle"
    /\ Restart

\* vrestartTimerCallback: a running flash holds the reboot for another period.
TimerFire ==
    /\ armed /\ reset = "idle"
    /\ reset' = IF Fence = "flashing" THEN "idle" ELSE "clear"
    /\ UNCHANGED <<flash, pending, ota, armed, session, can, codec, task,
                   image, runs, boots>>

TimerRestart ==
    /\ reset = "clear"
    /\ Restart

-----------------------------------------------------------------------------
(* Firmware update: POST /upload.                                           *)

UploadStart ==
    /\ Accepts("httpd", "update")
    /\ ota' = TRUE
    /\ Go("httpd", "ota_check")
    /\ UNCHANGED <<flash, pending, armed, session, can, codec, reset, image,
                   runs, boots>>

\* An upload that goes on switches the CAN controller off.
UploadCheck ==
    /\ task["httpd"] = "ota_check"
    /\ IF Fence = "clear"
         THEN Go("httpd", "ota_xfer") /\ can' = FALSE /\ UNCHANGED ota
         ELSE Go("httpd", "idle") /\ ota' = FALSE /\ UNCHANGED can
    /\ UNCHANGED <<flash, pending, armed, session, codec, reset, image, runs,
                   boots>>

UploadFails ==
    /\ task["httpd"] = "ota_xfer"
    /\ ota' = FALSE
    /\ Go("httpd", "idle")
    /\ UNCHANGED <<flash, pending, armed, session, can, codec, reset, image,
                   runs, boots>>

\* The flag stays up; only the reboot clears it.
UploadDone ==
    /\ task["httpd"] = "ota_xfer"
    /\ Go("httpd", "schedule")
    /\ UNCHANGED <<flash, pending, ota, armed, session, can, codec, reset,
                   image, runs, boots>>

-----------------------------------------------------------------------------
(* Staged image: POST /upload/sd.  Only a running flash refuses it.         *)

SdUpload ==
    /\ Accepts("httpd", "sd")
    /\ Fence # "flashing"
    /\ Go("httpd", "sd_xfer")
    /\ UNCHANGED <<flash, pending, ota, armed, session, can, codec, reset,
                   image, runs, boots>>

SdRecheck ==
    /\ task["httpd"] = "sd_xfer"
    /\ Go("httpd", IF Fence = "flashing" THEN "idle" ELSE "sd_swap")
    /\ UNCHANGED <<flash, pending, ota, armed, session, can, codec, reset,
                   image, runs, boots>>

\* unlink and rename.
SdSwap ==
    /\ task["httpd"] = "sd_swap"
    /\ image' = ~image
    /\ Go("httpd", "idle")
    /\ UNCHANGED <<flash, pending, ota, armed, session, can, codec, reset,
                   runs, boots>>

-----------------------------------------------------------------------------
(* The shell's "factoryreset": a fence check, the deletion, three seconds,  *)
(* and a restart that does not go through the timer.                        *)

FactoryCheck ==
    /\ Accepts("shell", "factory")
    /\ Fence = "clear"
    /\ Go("shell", "factory")
    /\ UNCHANGED <<flash, pending, ota, armed, session, can, codec, reset,
                   image, runs, boots>>

FactoryRestart ==
    /\ task["shell"] = "factory"
    /\ Restart

-----------------------------------------------------------------------------
(* The codecs.                                                              *)

WriteRaise ==
    /\ "write" \in Ops /\ runs < MaxRuns
    /\ codec = "idle" /\ ~flash
    /\ flash' = TRUE
    /\ codec' = "check"
    /\ runs' = runs + 1
    /\ UNCHANGED <<pending, ota, armed, session, can, task, reset, image,
                   boots>>

\* flash_fence_write_may_start(pending, ota): C leaves the order of the two
\* reads open.
CheckPending ==
    /\ codec \in {"check", "pending_left"}
    /\ codec' = IF pending THEN "refuse"
                ELSE IF codec = "check" THEN "ota_left" ELSE "write"
    /\ UNCHANGED <<flash, pending, ota, armed, session, can, task, reset,
                   image, runs, boots>>

CheckOta ==
    /\ codec \in {"check", "ota_left"}
    /\ codec' = IF ota THEN "refuse"
                ELSE IF codec = "check" THEN "pending_left" ELSE "write"
    /\ UNCHANGED <<flash, pending, ota, armed, session, can, task, reset,
                   image, runs, boots>>

\* A fast read raises the bit and asks about neither flag.
ReadRaise ==
    /\ "read" \in Ops /\ runs < MaxRuns
    /\ codec = "idle" /\ ~flash
    /\ flash' = TRUE
    /\ codec' = "read"
    /\ runs' = runs + 1
    /\ UNCHANGED <<pending, ota, armed, session, can, task, reset, image,
                   boots>>

\* A refusal, and the cleanup label every codec run ends in.  A run that goes
\* on drains its receive queue at both ends with can_receive, which waits for
\* the controller.
CodecEnd ==
    /\ codec = "refuse" \/ (codec \in {"write", "read"} /\ can)
    /\ flash' = FALSE
    /\ codec' = "idle"
    /\ UNCHANGED <<pending, ota, armed, session, can, task, reset, image, runs,
                   boots>>

Codec == WriteRaise \/ CheckPending \/ CheckOta \/ ReadRaise \/ CodecEnd

\* The host claims the bus, or its claim ends or lapses.
Session ==
    /\ "session" \in Ops
    /\ session' = ~session
    /\ UNCHANGED <<flash, pending, ota, armed, can, codec, task, reset, image,
                   runs, boots>>

\* SLCAN opens and closes the channel on the codecs' own task, between runs.
Slcan ==
    /\ "slcan" \in Ops
    /\ codec = "idle"
    /\ can' = ~can
    /\ UNCHANGED <<flash, pending, ota, armed, session, codec, task, reset, image,
                   runs, boots>>

\* The poll engine switches a controller that nobody owns back on.
HealCan ==
    /\ ~can /\ ~flash /\ ~session /\ ~ota
    /\ can' = TRUE
    /\ UNCHANGED <<flash, pending, ota, armed, session, codec, task, reset, image,
                   runs, boots>>

-----------------------------------------------------------------------------

Schedule == \E t \in Tasks : RaisePending(t) \/ StartTimer(t) \/ StartTimerFails(t)

Update == UploadCheck \/ UploadFails \/ UploadDone

Stage == SdRecheck \/ SdSwap

Timer == TimerFire \/ TimerRestart

Next ==
    \/ \E t \in Tasks : RebootCheck(t)
    \/ Schedule
    \/ Timer
    \/ UploadStart \/ Update
    \/ SdUpload \/ Stage
    \/ FactoryCheck \/ FactoryRestart
    \/ Codec
    \/ Session \/ Slcan \/ HealCan

Spec == Init /\ [][Next]_vars

\* The tasks run on, a codec run is finite while the controller is on, and an
\* upload completes or fails.
Fairness ==
    /\ WF_vars(Schedule) /\ WF_vars(Update) /\ WF_vars(Stage) /\ WF_vars(Timer)
    /\ WF_vars(CheckPending \/ CheckOta \/ CodecEnd)
    /\ WF_vars(FactoryRestart) /\ WF_vars(HealCan)

FairSpec == Spec /\ Fairness

-----------------------------------------------------------------------------
(* Properties.                                                              *)

\* The adapter is never reset while a write that passed its start check holds
\* the ECU (config_server.c, config_server_schedule_reboot: "Neither order can
\* end in a reboot during TransferData").
NoRebootMidWrite == [][boots' # boots => codec # "write"]_vars

\* A write and a firmware update never run at once: whichever starts second
\* sees the other (config_server.c, upload_post_handler).
NoWriteDuringUpdate == ~(codec = "write" /\ task["httpd"] = "ota_xfer")

\* Writes, updates and resets share the adapter as ExclusiveWrite says.
Owner == IF codec = "write" THEN "write"
         ELSE IF reset = "clear" THEN "reset"
         ELSE IF task["httpd"] = "ota_xfer" THEN "update"
         ELSE "none"

Exclusive == INSTANCE ExclusiveWrite WITH owner <- Owner

WritesExclusive == Exclusive!Spec

\* A codec that runs on with the CAN controller switched off waits in
\* can_receive for a controller nobody switches on under it.
Hung == codec \in {"write", "read"} /\ ~can

\* An accepted reboot happens: the timer asks again until the flash is over
\* (config_server.c, vrestartTimerCallback: "a codec that hung would hold the
\* reboot until a power cycle").
RebootHappens ==
    \A n \in 0..MaxBoots : (armed /\ boots = n) ~> (boots # n \/ Hung)

\* The flash bit falls: every exit path of a codec clears it, a refusal too.
FlashEnds == flash ~> (~flash \/ Hung)

\* The inductive invariant behind the first three.  Each half of the handshake
\* leaves its flag up for as long as it relies on the other's answer; a codec
\* that has read FALSE from a flag got its bit up before the flag was raised.
Handshake ==
    /\ flash <=> codec # "idle"
    /\ armed => pending
    /\ \A t \in Tasks : task[t] = "start" => pending
    /\ reset = "clear" => pending /\ codec \notin {"ota_left", "write"}
    /\ task["httpd"] \in {"ota_check", "ota_xfer"} => ota
    /\ task["httpd"] = "ota_xfer" => codec \notin {"pending_left", "write"}
    /\ task["shell"] # "factory"

FenceInv == TypeOK /\ Handshake

\* What the fence is for: the handshake stands, no reset cuts a write short, and
\* write, update and reset have the adapter one at a time.
FenceSafe ==
    /\ []FenceInv /\ []NoWriteDuringUpdate
    /\ NoRebootMidWrite /\ WritesExclusive

-----------------------------------------------------------------------------
(* Claims of the comments the code does not keep, each with the operations  *)
(* that show it; NoRebootMidWrite is one of them with "factory" and with    *)
(* "start_fails".                                                           *)

\* A flash can postpone a reboot or a sleep, never cancel it (sleep_mode.c, the
\* sleep veto: "a flash is finite").  A codec that
\* starts, or runs on, under a controller an upload switched off never ends
\* ("read", "update", "session").
FlashIsFinite == flash ~> ~flash

\* The image a write streams from the card is not replaced under it
\* (config_server.c, the SD upload's second check: "pull it out from under the
\* codec").  A write may start between that check and the swap ("sd", "write").
ImageStable == [][image' # image => codec # "write"]_vars
=============================================================================
