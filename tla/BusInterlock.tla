---------------------------- MODULE BusInterlock ----------------------------
(***************************************************************************)
(* The single-owner interlock of the one CAN controller: the datalogger's  *)
(* poll task (components/fast_log/poll_log.c) against the four owners it   *)
(* parks for (main/can.c, can_should_park) and the parties that switch the *)
(* controller on and off: sleep (main/sleep_mode.c), firmware upload       *)
(* (main/config_server.c), the SLCAN channel commands (main/slcan.c) and   *)
(* can_rx_task (main/main.c), which forwards frames for a host session.    *)
(*                                                                         *)
(* Nothing here takes a lock: the poll task reads the four flags one after *)
(* the other, once per pass, and then works through a whole pass.  A step  *)
(* is one shared access.  can_enable, can_disable and can_set_silent are   *)
(* steps (the driver's own calls succeed); time is the environment's       *)
(* choice, except that the grace of a withheld bus is counted in passes.   *)
(***************************************************************************)
EXTENDS Naturals

CONSTANTS
    Ops,       \* what the environment does
    Pids,      \* the configured PIDs of one sweep
    Withheld   \* passes that make up POLLLOG_BUS_WITHHELD_MS

OpNames == {"flash", "park", "claim", "sleep", "upload", "slcan", "forward",
            "test"}

ASSUME BusAssumption ==
    /\ Ops \subseteq OpNames
    /\ Pids \in Nat
    /\ Withheld \in Nat

\* The owners, numbered in the order can_should_park reads their flags.
Owner == {"flash", "park", "claim", "fence"}

Place == [flash |-> 1, park |-> 2, claim |-> 3, fence |-> 4]

VARIABLES
    held,       \* the owners' flags
    stray,      \* poll frames on the wire since that flag went up (history)
    on,         \* CAN_ENABLE_BIT and the installed driver
    silent,     \* the mode the driver has, or will be installed in
    pc,         \* where the poll task is
    asked,      \* how many flags it has read lowered in this pass
    left,       \* PIDs left in this sweep
    target,     \* the mode it is flipping the bus to
    waited,     \* passes in which the bus was withheld
    normal,     \* s_bus_normal, the complement of s_quiesced
    answering,  \* s_ecu_answering
    ota,        \* s_ota_active
    upload,     \* the upload handler
    sleep,      \* the sleep task
    forward     \* can_rx_task

pollVars  == <<pc, asked, left, target, waited, normal, answering>>
busVars   == <<on, silent>>
ownerVars == <<held, stray>>
otherVars == <<ota, upload, sleep, forward>>
vars == <<ownerVars, busVars, pollVars, otherVars>>

PollPC == {"ask", "bus", "test", "sweep", "await", "listen",
           "stop", "silence", "start", "confirm"}

TypeOK ==
    /\ held \in [Owner -> BOOLEAN]
    /\ stray \in [Owner -> Nat]
    /\ on \in BOOLEAN /\ silent \in BOOLEAN
    /\ pc \in PollPC
    /\ asked \in 0..3
    /\ left \in 0..Pids
    /\ pc = "await" => left # 0
    /\ target \in {"normal", "quiet"}
    /\ waited \in Nat
    /\ normal \in BOOLEAN /\ answering \in BOOLEAN
    /\ ota \in BOOLEAN
    /\ upload \in {"idle", "check", "stop", "xfer"}
    /\ sleep \in {"awake", "fence", "wait", "asleep", "resume"}
    /\ forward \in {"idle", "drain"}

Init ==
    /\ held = [o \in Owner |-> FALSE]
    /\ stray = [o \in Owner |-> 0]
    /\ on = TRUE /\ silent = FALSE
    /\ pc = "ask" /\ asked = 0 /\ left = 0 /\ target = "normal" /\ waited = 0
    /\ normal = TRUE /\ answering = FALSE
    /\ ota = FALSE /\ upload = "idle" /\ sleep = "awake" /\ forward = "idle"

Owned == \E o \in Owner : held[o]

-----------------------------------------------------------------------------
(* The owners.                                                              *)

Raise(o) ==
    /\ held' = [held EXCEPT ![o] = TRUE]
    /\ stray' = [stray EXCEPT ![o] = 0]

Lower(o) ==
    /\ held' = [held EXCEPT ![o] = FALSE]
    /\ stray' = [stray EXCEPT ![o] = 0]

\* can_flash_active_set and _clear by a codec, and the leases of the host.  The
\* radio is off, so nobody asks, while the adapter sleeps.
OwnerRaises(o) ==
    /\ o \in Ops /\ ~held[o] /\ sleep # "asleep"
    /\ Raise(o)
    /\ UNCHANGED <<busVars, pollVars, otherVars>>

OwnerLowers(o) ==
    /\ o \in Ops /\ held[o]
    /\ Lower(o)
    /\ UNCHANGED <<busVars, pollVars, otherVars>>

\* SLCAN 'C' and 'O'/'L' on the port that is open in every mode; they run on
\* the codecs' own task.
SlcanClose ==
    /\ "slcan" \in Ops /\ ~held["flash"] /\ sleep # "asleep"
    /\ on' = FALSE
    /\ UNCHANGED <<ownerVars, silent, pollVars, otherVars>>

SlcanOpen ==
    /\ "slcan" \in Ops /\ ~held["flash"] /\ sleep # "asleep"
    /\ on' = TRUE
    /\ silent' \in IF on THEN {silent} ELSE BOOLEAN
    /\ UNCHANGED <<ownerVars, pollVars, otherVars>>

-----------------------------------------------------------------------------
(* The poll task, from the head of its loop.                                *)

\* can_should_park: one flag per step; any raised flag parks the pass.
Ask ==
    /\ pc = "ask"
    /\ \E o \in Owner :
         /\ Place[o] = asked + 1
         /\ IF held[o]
              THEN asked' = 0 /\ waited' = 0 /\ UNCHANGED pc
            ELSE IF asked = 3
              THEN asked' = 0 /\ pc' = "bus" /\ UNCHANGED waited
            ELSE asked' = asked + 1 /\ UNCHANGED <<pc, waited>>
    /\ UNCHANGED <<ownerVars, busVars, left, target, normal, answering, otherVars>>

\* Mutant: no self-heal.
PollBusHealless ==
    /\ pc = "bus"
    /\ pc' = IF on THEN "test" ELSE "ask"
    /\ answering' = (answering /\ on)
    /\ UNCHANGED <<ownerVars, busVars, asked, left, target, waited, normal,
                   otherVars>>

\* A controller that is off with no owner: the signals nobody maintains any
\* more are cleared, and after the grace the bus is taken back, unless an
\* upload is running.
PollBus ==
    /\ pc = "bus"
    /\ IF on
         THEN pc' = "test" /\ waited' = 0 /\ UNCHANGED <<target, answering>>
         ELSE /\ answering' = FALSE
              /\ IF ~ota /\ waited >= Withheld
                   THEN pc' = "silence" /\ target' = "normal" /\ waited' = 0
                   ELSE /\ pc' = "ask" /\ UNCHANGED target
                        /\ waited' = IF waited < Withheld THEN waited + 1 ELSE waited
    /\ UNCHANGED <<ownerVars, busVars, asked, left, normal, otherVars>>

\* can_send: a frame leaves when the controller is on and not listen-only.
OnWire == on /\ ~silent

Transmit ==
    stray' = [o \in Owner |-> IF OnWire /\ held[o] THEN stray[o] + 1 ELSE stray[o]]

\* The live test sends one frame before the sweep; it needs a bus that is not
\* quiesced.  A sweep follows, or, when quiesced, a look at the queue.
RunTest ==
    /\ pc = "test"
    /\ \/ UNCHANGED stray
       \/ "test" \in Ops /\ normal /\ Transmit
    /\ pc' = IF normal THEN "sweep" ELSE "listen"
    /\ left' = Pids
    /\ UNCHANGED <<held, busVars, asked, target, waited, normal, answering,
                   otherVars>>

\* polllog_poll_one for the next PID of the sweep, or a PID that is not due.
SkipPid ==
    /\ pc = "sweep" /\ left # 0
    /\ left' = left - 1
    /\ UNCHANGED <<ownerVars, busVars, pc, asked, target, waited, normal,
                   answering, otherVars>>

SendPid ==
    /\ pc = "sweep" /\ left # 0 /\ on
    /\ Transmit
    /\ pc' = "await"
    /\ UNCHANGED <<held, busVars, asked, left, target, waited, normal, answering,
                   otherVars>>

\* The answer arrives, or 30 ms pass.
Await ==
    /\ pc = "await"
    /\ \/ UNCHANGED answering
       \/ OnWire /\ answering' = TRUE
    /\ pc' = "sweep"
    /\ left' = left - 1
    /\ UNCHANGED <<ownerVars, busVars, asked, target, waited, normal, otherVars>>

\* After the sweep: an ECU silent for long enough quiesces the bus.
EndSweep ==
    /\ pc = "sweep" /\ left = 0
    /\ \/ pc' = "ask" /\ UNCHANGED target
       \/ pc' = "stop" /\ target' = "quiet"
    /\ UNCHANGED <<ownerVars, busVars, asked, left, waited, normal, answering,
                   otherVars>>

\* Quiesced: a frame, or ten minutes, ends it.
Listen ==
    /\ pc = "listen"
    /\ \/ pc' = "ask" /\ UNCHANGED target
       \/ pc' = "stop" /\ target' = "normal"
    /\ UNCHANGED <<ownerVars, busVars, asked, left, waited, normal, answering,
                   otherVars>>

\* Mutant: the mode is changed on a running controller.
FlipStopNothing ==
    /\ pc = "stop"
    /\ pc' = "silence"
    /\ UNCHANGED <<ownerVars, busVars, asked, left, target, waited, normal,
                   answering, otherVars>>

\* The bracket every flip of the mode goes through: can_disable ...
FlipStop ==
    /\ pc = "stop"
    /\ on' = FALSE
    /\ pc' = "silence"
    /\ UNCHANGED <<ownerVars, silent, asked, left, target, waited, normal,
                   answering, otherVars>>

\* ... can_set_silent, a no-op on a running controller ...
FlipSilence ==
    /\ pc = "silence"
    /\ silent' = IF on THEN silent ELSE target = "quiet"
    /\ pc' = "start"
    /\ UNCHANGED <<ownerVars, on, asked, left, target, waited, normal, answering,
                   otherVars>>

\* ... can_enable ...
FlipStart ==
    /\ pc = "start"
    /\ on' = TRUE
    /\ pc' = "confirm"
    /\ UNCHANGED <<ownerVars, silent, asked, left, target, waited, normal,
                   answering, otherVars>>

\* ... and, if the controller is on, the new mode is believed.
FlipConfirm ==
    /\ pc = "confirm"
    /\ IF on THEN normal' = (target = "normal") /\ answering' = FALSE
             ELSE UNCHANGED <<normal, answering>>
    /\ pc' = "ask"
    /\ UNCHANGED <<ownerVars, busVars, asked, left, target, waited, otherVars>>

Flip == FlipStop \/ FlipSilence \/ FlipStart \/ FlipConfirm

Poller == Ask \/ PollBus \/ RunTest \/ SkipPid \/ SendPid \/ Await \/ EndSweep
          \/ Listen \/ Flip

-----------------------------------------------------------------------------
(* Sleep: the teardown's check, the fence, a wait, can_disable; the resume   *)
(* turns the bus on before it lowers the fence.  A lease that lapsed with    *)
(* its client gone is no session; the forced and the 30-minute entries,      *)
(* which ask nothing, are left out.                                          *)

SleepCheck ==
    /\ "sleep" \in Ops /\ sleep = "awake"
    /\ ~held["flash"] /\ ~ota
    /\ sleep' = "fence"
    /\ UNCHANGED <<ownerVars, busVars, pollVars, ota, upload, forward>>

SleepFence ==
    /\ sleep = "fence"
    /\ Raise("fence")
    /\ sleep' = "wait"
    /\ UNCHANGED <<busVars, pollVars, ota, upload, forward>>

SleepStopsBus ==
    /\ sleep = "wait"
    /\ on' = FALSE
    /\ sleep' = "asleep"
    /\ UNCHANGED <<ownerVars, silent, pollVars, ota, upload, forward>>

ResumeBus ==
    /\ sleep = "asleep"
    /\ on' = TRUE
    /\ sleep' = "resume"
    /\ UNCHANGED <<ownerVars, silent, pollVars, ota, upload, forward>>

ResumeFence ==
    /\ sleep = "resume"
    /\ Lower("fence")
    /\ sleep' = "awake"
    /\ UNCHANGED <<busVars, pollVars, ota, upload, forward>>

Sleep == SleepCheck \/ SleepFence \/ SleepStopsBus \/ ResumeBus \/ ResumeFence

-----------------------------------------------------------------------------
(* Firmware upload; a completed one ends in a reboot.                       *)

UploadStart ==
    /\ "upload" \in Ops /\ upload = "idle" /\ sleep # "asleep"
    /\ ota' = TRUE
    /\ upload' = "check"
    /\ UNCHANGED <<ownerVars, busVars, pollVars, sleep, forward>>

\* A flash or a session refuses it; a claim that lapsed is no session.
UploadCheck ==
    /\ upload = "check"
    /\ \/ /\ held["flash"] \/ held["claim"]
          /\ ota' = FALSE
          /\ upload' = "idle"
       \/ /\ ~held["flash"]
          /\ upload' = "stop"
          /\ UNCHANGED ota
    /\ UNCHANGED <<ownerVars, busVars, pollVars, sleep, forward>>

UploadStopsBus ==
    /\ upload = "stop"
    /\ on' = FALSE
    /\ upload' = "xfer"
    /\ UNCHANGED <<ownerVars, silent, pollVars, ota, sleep, forward>>

UploadFails ==
    /\ upload = "xfer"
    /\ ota' = FALSE
    /\ upload' = "idle"
    /\ UNCHANGED <<ownerVars, busVars, pollVars, sleep, forward>>

Upload == UploadStart \/ UploadCheck \/ UploadStopsBus \/ UploadFails

-----------------------------------------------------------------------------
(* can_rx_task: the session is sampled once, then the queue is drained.     *)

ForwardSample ==
    /\ "forward" \in Ops /\ forward = "idle"
    /\ held["park"] \/ held["claim"]
    /\ ~held["flash"]
    /\ forward' = "drain"
    /\ UNCHANGED <<ownerVars, busVars, pollVars, ota, upload, sleep>>

ForwardDone ==
    /\ forward = "drain"
    /\ forward' = "idle"
    /\ UNCHANGED <<ownerVars, busVars, pollVars, ota, upload, sleep>>

-----------------------------------------------------------------------------

Next ==
    \/ \E o \in Owner : OwnerRaises(o) \/ OwnerLowers(o)
    \/ SlcanClose \/ SlcanOpen
    \/ Poller
    \/ Sleep
    \/ Upload
    \/ ForwardSample \/ ForwardDone

Spec == Init /\ [][Next]_vars

\* The poll task keeps being scheduled; nobody else promises anything.
FairSpec == Spec /\ WF_vars(Poller)

-----------------------------------------------------------------------------
(* Properties.                                                              *)

\* What the poll task may still send before it next reads this owner's flag.
Budget(o) ==
    CASE pc = "ask" -> IF asked >= Place[o] THEN Pids + 1 ELSE 0
      [] pc \in {"bus", "test"} -> Pids + 1
      [] pc = "sweep" -> left
      [] pc = "await" -> left - 1
      [] OTHER -> 0

\* An owner that keeps its flag up meets at most the rest of one pass: one
\* live test and one sweep (can.c, can_should_park).
StrayBound == \A o \in Owner : held[o] => stray[o] <= Pids + 1

\* The inductive invariant behind it.
BusInv ==
    /\ TypeOK
    /\ \A o \in Owner : stray[o] + Budget(o) <= Pids + 1
    /\ \A o \in Owner : ~held[o] => stray[o] = 0
    /\ pc # "ask" => asked = 0

\* A quiesced logger only listens: the controller it believes to be listen-only
\* is (poll_log.c: the flip "MUST bracket can_set_silent() with disable/enable").
QuiescedIsSilent == pc = "listen" /\ on => silent

\* What the poll task may put on the wire: the rest of one pass after an owner
\* has raised its flag, and nothing while it is quiesced.
BusSafe == BusInv /\ StrayBound /\ QuiescedIsSilent

\* The bus is never left off for good without an owner or an upload
\* (poll_log.c, the self-heal of a withheld bus).
BusHeals == []<>(on \/ Owned \/ ota)

\* The poll task comes round again whatever happens to the controller
\* (can.c, can_receive_nb: a frozen task keeps its last signals forever).
PollerComesRound == []<>(pc = "ask")

\* The sleep veto never rests for good on an answer nothing refreshes
\* (poll_log.c, BUS WITHHELD rule 1).
VetoLapses == []<>(on \/ Owned \/ ~answering)

-----------------------------------------------------------------------------
(* Claims of the comments the code does not keep, each with the operations  *)
(* that show it.                                                            *)

\* While a codec holds the bus no poll frame is put on it (can.c,
\* FLASH_ACTIVE_BIT; ncflash_fastwrite.c: "no stray 0x7E0"): a pass that has
\* asked goes on ("flash").
FlashUndisturbed == stray["flash"] = 0

\* Poll task and can_rx_task never read the queue at once (main.c, can_rx_task).
\* Both sample the host session and then go on without asking ("park",
\* "forward").
SoleConsumer == ~(pc = "await" /\ forward = "drain")

\* The poll task never switches the controller on under an upload (poll_log.c:
\* "NEVER re-enable during an upload"), but for an upload that starts between
\* its check and its flip ("upload").
UploadKeepsBusOff == [][~on /\ on' => upload # "xfer"]_vars

\* Between the teardown's can_disable and the resume the controller is off
\* (sleep_mode.c, the sleep fence).  The fence falls on a pass that has asked:
\* ("sleep").
AsleepIsOff == sleep = "asleep" => ~on

\* Sleep never takes the bus from a codec (sleep_mode.c: "While it is raised,
\* refuse to sleep").  It asks once, before it waits ("sleep", "flash").
SleepSparesFlash == [][sleep = "wait" /\ sleep' = "asleep" => ~held["flash"]]_vars
=============================================================================
