------------------------------ MODULE ElmLink ------------------------------
(***************************************************************************)
(* UART1 to the MIC3624 interpreter chip (main/elm327.c) and the tasks     *)
(* that share it under xuart1_semaphore: the ELM client's command task     *)
(* (E), the task that forwards what the chip says unasked (R), AutoPID's   *)
(* commands (A) and the sleep task (S), with the nudges by which the       *)
(* latter puts an awake chip back to sleep (main/sleep_mode.c).            *)
(*                                                                         *)
(* The driver keeps the received bytes (ring: one chunk per burst) apart   *)
(* from the events that announce them (evq); raw readers take bytes and    *)
(* leave the events.  The chip is external: it answers, stays mute, drops  *)
(* a command or sleeps.  Every wait in the code has a deadline that may    *)
(* pass at any time, and a take of the lock may expire while it is held.   *)
(***************************************************************************)
EXTENDS Naturals, Sequences

CONSTANTS
    RingMax,        \* chunks the driver's ring holds
    EvMax,          \* events its queue holds
    CmdMax,         \* commands elm327_cmd_queue holds
    MaxNudges,      \* SLEEP_ELM327_MAX_NUDGES
    MaxLockFails,   \* SLEEP_ELM327_MAX_LOCK_FAILS
    SettlePasses,   \* SLEEP_ELM327_SETTLE_PASSES
    ClientMonitors, \* whether an ELM client sends monitor commands
    Loads           \* the sets of tasks that may be in use together

VARIABLES
    load,    \* the tasks in use: the reader and AutoPID depend on the mode
    lock,    \* the task holding xuart1_semaphore
    ring,    \* bursts received: whether it ends in the prompt, and whether
             \* it came outside a turn of the client's command
    evq,     \* uart1_queue
    chip,    \* the interpreter chip
    cmdq,    \* commands queued by the ELM client
    gate,    \* DEV_AWAKE_BIT and the published sleep state
    pc,      \* where each task is
    errand,  \* what the sleep task uses the chip for
    tally,   \* the nudge budget of this sleep session
    exch,    \* exchanges made in the present conversation
    told     \* the chip as the babysitter's log describes it

vars == <<load, lock, ring, evq, chip, cmdq, gate, pc, errand, tally, exch, told>>

None == "none"
Task == {"E", "R", "A", "S"}

Chunk == [last: BOOLEAN, stale: BOOLEAN]
Quiet(st) == [st |-> st, stream |-> FALSE, then |-> "idle"]
FreshTally == [nudges |-> 0, settle |-> 0, lockFails |-> 0]

Init ==
    /\ load \in Loads
    /\ lock = None
    /\ ring = <<>>
    /\ evq = <<>>
    /\ chip = Quiet("idle")
    /\ cmdq = 0
    /\ gate = [awake |-> TRUE, sleeping |-> FALSE]
    /\ pc = [E |-> "gate", R |-> "gate", A |-> "idle", S |-> "up"]
    /\ errand = "enter"
    /\ tally = FreshTally
    /\ exch = 0
    /\ told = [resets |-> 0, verdict |-> "none", leaked |-> FALSE]

Goto(p, l) == pc' = [pc EXCEPT ![p] = l]

-----------------------------------------------------------------------------
(* The driver and the chip *)

\* uart_flush_input with xQueueReset, under one hold of the lock.
Flush == ring' = <<>> /\ evq' = <<>>

Take(p) == lock = None /\ lock' = p
Give(p) == lock = p /\ lock' = None
HeldByOther(p) == lock \notin {None, p}

\* A write: a sleeping or dozing chip is deaf; a monitoring one stops; a
\* busy one serves the new command or drops it; any may stay mute.
Heard(stream, then) ==
    CASE chip.st \in {"asleep", "dozing"} -> {chip}
      [] chip.st = "busy" /\ chip.stream -> {[chip EXCEPT !.stream = FALSE]}
      [] OTHER -> {[st |-> "busy", stream |-> stream, then |-> then], chip}
Write(stream, then) == chip' \in Heard(stream, then)

\* elm327_chip_get_status: GPIO7 is low until the chip has powered down.
Ready == chip.st # "asleep"

\* A burst and its event.  A full ring drops the burst and posts an overflow;
\* a full event queue drops the event.
ChipSays ==
    /\ chip.st = "busy"
    /\ ring' = IF Len(ring) < RingMax
               THEN Append(ring, [last |-> ~chip.stream, stale |-> lock # "E"]) ELSE ring
    /\ evq' = IF Len(evq) = EvMax THEN evq
              ELSE Append(evq, IF Len(ring) < RingMax THEN "data" ELSE "ovf")
    /\ chip' = IF chip.stream THEN chip ELSE Quiet(chip.then)
    /\ UNCHANGED <<load, lock, cmdq, gate, pc, errand, tally, exch, told>>

\* Powered down in the end, or awake after all.
ChipSettles ==
    /\ chip.st = "dozing" /\ chip' \in {Quiet("asleep"), Quiet("idle")}
    /\ UNCHANGED <<load, lock, ring, evq, cmdq, gate, pc, errand, tally, exch, told>>

\* uart_read_until_pattern: bytes straight from the ring, whose events stay
\* behind, until the prompt or the deadline; ok says which.
RawRead(ok) ==
    IF ok
    THEN \E i \in DOMAIN ring:
            ring[i].last /\ ring' = SubSeq(ring, i + 1, Len(ring))
    ELSE ring' = SelectSeq(ring, LAMBDA k: k.last)

\* An event received and its bytes read: nothing for an orphaned event, whose
\* bytes a flush or a raw reader has taken.
NextEvent == evq # <<>> /\ evq' = Tail(evq)
HasBytes == Head(evq) = "data" /\ ring # <<>>
ReadBytes == ring' = IF HasBytes THEN Tail(ring) ELSE ring

-----------------------------------------------------------------------------
(* E: uart1_event_task *)

\* elm327_process_cmd blocks while the queue is full.
ClientSends ==
    /\ "E" \in load /\ cmdq < CmdMax
    /\ cmdq' = cmdq + 1
    /\ UNCHANGED <<load, lock, ring, evq, chip, gate, pc, errand, tally, exch, told>>

EventGate ==
    /\ pc["E"] = "gate" /\ gate.awake
    /\ Goto("E", "recv")
    /\ UNCHANGED <<load, lock, ring, evq, chip, cmdq, gate, errand, tally, exch, told>>

\* The chip and the sleep state are asked before the lock is waited for.  A
\* command that finds either asleep is freed unanswered.
EventRecv ==
    /\ pc["E"] = "recv" /\ cmdq > 0
    /\ cmdq' = cmdq - 1
    /\ Goto("E", IF Ready /\ ~gate.sleeping THEN "lock" ELSE "gate")
    /\ UNCHANGED <<load, lock, ring, evq, chip, gate, errand, tally, exch, told>>

EventLock ==
    /\ pc["E"] = "lock"
    /\ \/ Take("E") /\ Flush /\ Goto("E", "write")
       \/ HeldByOther("E") /\ Goto("E", "gate") /\ UNCHANGED <<lock, ring, evq>>
    /\ UNCHANGED <<load, chip, cmdq, gate, errand, tally, exch, told>>

EventWrite ==
    /\ pc["E"] = "write"
    /\ \E s \in {FALSE} \cup (IF ClientMonitors THEN {TRUE} ELSE {}): Write(s, "idle")
    /\ Goto("E", "read")
    /\ UNCHANGED <<load, lock, ring, evq, cmdq, gate, errand, tally, exch, told>>

\* The answer up to the prompt goes to the client's callback; ten seconds
\* without an event end the command, and so would nothing else.
EventReadForEver ==
    /\ pc["E"] = "read"
    /\ NextEvent
    /\ ReadBytes
    /\ Goto("E", IF HasBytes /\ Head(ring).last THEN "give" ELSE "read")
    /\ told' = [told EXCEPT !.leaked = @ \/ (HasBytes /\ Head(ring).stale)]
    /\ UNCHANGED <<load, lock, chip, cmdq, gate, errand, tally, exch>>
EventRead ==
    /\ pc["E"] = "read"
    /\ \/ /\ NextEvent
          /\ ReadBytes
          /\ Goto("E", IF HasBytes /\ Head(ring).last THEN "give" ELSE "read")
          /\ told' = [told EXCEPT !.leaked = @ \/ (HasBytes /\ Head(ring).stale)]
       \/ evq = <<>> /\ Goto("E", "give") /\ UNCHANGED <<ring, evq, told>>
    /\ UNCHANGED <<load, lock, chip, cmdq, gate, errand, tally, exch>>

EventGive ==
    /\ pc["E"] = "give"
    /\ Give("E")
    /\ Goto("E", "gate")
    /\ UNCHANGED <<load, ring, evq, chip, cmdq, gate, errand, tally, exch, told>>

-----------------------------------------------------------------------------
(* R: elm327_read_task *)

\* The queue is only peeked without the lock.
ReadPeek ==
    /\ \/ "R" \in load /\ pc["R"] = "gate" /\ gate.awake /\ Goto("R", "peek")
       \/ pc["R"] = "peek" /\ evq # <<>> /\ Goto("R", "lock")
    /\ UNCHANGED <<load, lock, ring, evq, chip, cmdq, gate, errand, tally, exch, told>>

ReadLock ==
    /\ pc["R"] = "lock"
    /\ \/ Take("R") /\ Goto("R", "serve")
       \/ HeldByOther("R") /\ Goto("R", "gate") /\ UNCHANGED lock
    /\ UNCHANGED <<load, ring, evq, chip, cmdq, gate, errand, tally, exch, told>>

\* One event served without waiting: bytes that are there are forwarded, an
\* overflow empties ring and queue, an orphan is dropped.
\* Mutant: the read waits for the bytes the event announced.
ReadServeWaiting ==
    /\ pc["R"] = "serve"
    /\ \/ evq = <<>> /\ UNCHANGED <<ring, evq>>
       \/ NextEvent /\ HasBytes /\ ReadBytes
       \/ evq # <<>> /\ Head(evq) = "ovf" /\ Flush
    /\ Give("R")
    /\ Goto("R", "gate")
    /\ UNCHANGED <<load, chip, cmdq, gate, errand, tally, exch, told>>
ReadServe ==
    /\ pc["R"] = "serve"
    /\ \/ evq = <<>> /\ UNCHANGED <<ring, evq>>
       \/ NextEvent /\ Head(evq) = "data" /\ ReadBytes
       \/ evq # <<>> /\ Head(evq) = "ovf" /\ Flush
    /\ Give("R")
    /\ Goto("R", "gate")
    /\ UNCHANGED <<load, chip, cmdq, gate, errand, tally, exch, told>>

-----------------------------------------------------------------------------
(* A: AutoPID's elm327_run_command and elm327_get_protocol_number *)

AutoBegin ==
    /\ "A" \in load /\ pc["A"] = "idle"
    /\ \E l \in {"cmdLock", "atmaLock", "protoLock"}: Goto("A", l)
    /\ UNCHANGED <<load, lock, ring, evq, chip, cmdq, gate, errand, tally, exch, told>>

AutoLock ==
    /\ pc["A"] \in {"cmdLock", "atmaLock", "protoLock"}
    /\ \/ /\ Take("A") /\ Flush
          /\ Goto("A", CASE pc["A"] = "cmdLock" -> "cmd"
                         [] pc["A"] = "atmaLock" -> "atma"
                         [] OTHER -> "proto")
       \/ HeldByOther("A") /\ Goto("A", "idle") /\ UNCHANGED <<lock, ring, evq>>
    /\ UNCHANGED <<load, chip, cmdq, gate, errand, tally, exch, told>>

AutoWrite ==
    /\ pc["A"] \in {"cmd", "atma"}
    /\ Write(pc["A"] = "atma", "idle")
    /\ Goto("A", IF pc["A"] = "atma" THEN "watch" ELSE "read")
    /\ UNCHANGED <<load, lock, ring, evq, cmdq, gate, errand, tally, exch, told>>

\* Until the prompt; a monitor also ends with the frame it was waiting for.
AutoRead ==
    /\ pc["A"] \in {"read", "watch", "grace"}
    /\ NextEvent
    /\ ReadBytes
    /\ \/ HasBytes /\ Head(ring).last /\ Goto("A", "give")
       \/ HasBytes /\ ~Head(ring).last /\ pc["A"] = "watch" /\ Goto("A", "stop")
       \/ ~(HasBytes /\ Head(ring).last) /\ UNCHANGED pc
    /\ UNCHANGED <<load, lock, chip, cmdq, gate, errand, tally, exch, told>>

\* The command's deadline, then a space to end a monitor and a grace for its
\* prompt.
AutoDeadline ==
    /\ pc["A"] \in {"read", "watch", "grace"}
    /\ Goto("A", IF pc["A"] = "watch" THEN "stop" ELSE "give")
    /\ UNCHANGED <<load, lock, ring, evq, chip, cmdq, gate, errand, tally, exch, told>>

AutoStop ==
    /\ pc["A"] = "stop"
    /\ Write(FALSE, "idle")
    /\ Goto("A", "grace")
    /\ UNCHANGED <<load, lock, ring, evq, cmdq, gate, errand, tally, exch, told>>

AutoGive ==
    /\ pc["A"] = "give"
    /\ Give("A")
    /\ Goto("A", "idle")
    /\ UNCHANGED <<load, ring, evq, chip, cmdq, gate, errand, tally, exch, told>>

\* ATWS, ATTP0, 0100, ATDPN: each answered or the whole given up; the last
\* two start with a flush, and so does every way out.
ProtoAsk ==
    /\ pc["A"] = "proto"
    /\ exch' = exch + 1
    /\ IF exch >= 2 THEN Flush ELSE UNCHANGED <<ring, evq>>
    /\ Write(FALSE, "idle")
    /\ Goto("A", "protoRead")
    /\ UNCHANGED <<load, lock, cmdq, gate, errand, tally, told>>

ProtoRead ==
    /\ pc["A"] = "protoRead"
    /\ \E ok \in BOOLEAN:
         /\ RawRead(ok)
         /\ Goto("A", IF ok /\ exch < 4 THEN "proto" ELSE "protoEnd")
    /\ UNCHANGED <<load, lock, evq, chip, cmdq, gate, errand, tally, exch, told>>

ProtoEnd ==
    /\ pc["A"] = "protoEnd"
    /\ Flush
    /\ Give("A")
    /\ exch' = 0
    /\ Goto("A", "idle")
    /\ UNCHANGED <<load, chip, cmdq, gate, errand, tally, told>>

-----------------------------------------------------------------------------
(* S: the chip's side of sleep_mode_teardown, of the doze and of the resume *)

\* The awake bit falls, and the session's budget is fresh.
SleepEnter ==
    /\ "S" \in load /\ pc["S"] = "up"
    /\ gate' = [gate EXCEPT !.awake = FALSE]
    /\ tally' = FreshTally
    /\ errand' = "enter"
    /\ told' = [told EXCEPT !.resets = 0, !.verdict = "none"]
    /\ Goto("S", "sleepLock")
    /\ UNCHANGED <<load, lock, ring, evq, chip, cmdq, exch>>

\* elm327_sleep.  A refused lock leaves the chip untold.
AfterSleep == IF errand = "enter" THEN "publish" ELSE "doze"
SleepLock ==
    /\ pc["S"] = "sleepLock"
    /\ \/ Take("S") /\ Flush /\ Goto("S", "sleepAsk")
       \/ HeldByOther("S") /\ Goto("S", AfterSleep) /\ UNCHANGED <<lock, ring, evq>>
    /\ UNCHANGED <<load, chip, cmdq, gate, errand, tally, exch, told>>

SleepAsk ==
    /\ pc["S"] = "sleepAsk"
    /\ Write(FALSE, "dozing")
    /\ Goto("S", "sleepRead")
    /\ UNCHANGED <<load, lock, ring, evq, cmdq, gate, errand, tally, exch, told>>

\* Answered or not, the ring and its events go together and the pin is held.
SleepRead ==
    /\ pc["S"] = "sleepRead"
    /\ Flush
    /\ Give("S")
    /\ Goto("S", AfterSleep)
    /\ UNCHANGED <<load, chip, cmdq, gate, errand, tally, exch, told>>

\* The state is published once the controller, WiFi and BLE are down.
SleepPublish ==
    /\ pc["S"] = "publish"
    /\ gate' = [gate EXCEPT !.sleeping = TRUE]
    /\ Goto("S", "doze")
    /\ UNCHANGED <<load, lock, ring, evq, chip, cmdq, errand, tally, exch, told>>

\* One doze pass of the babysitter, on one reading of the pin: settle, nudge,
\* or say once that the budget is spent.
Babysit ==
    LET spent == IF tally.nudges = MaxNudges THEN "refused"
                 ELSE IF tally.lockFails = MaxLockFails THEN "unreached" ELSE "none" IN
    IF ~Ready
    THEN /\ tally' = FreshTally
         /\ told' = [told EXCEPT !.resets = 0, !.verdict = "none"]
         /\ UNCHANGED <<pc, errand>>
    ELSE IF tally.settle < SettlePasses
    THEN /\ tally' = [tally EXCEPT !.settle = @ + 1]
         /\ UNCHANGED <<pc, errand, told>>
    ELSE IF tally.nudges < MaxNudges /\ tally.lockFails < MaxLockFails
    THEN /\ errand' = "nudge"
         /\ Goto("S", "resetLock")
         /\ UNCHANGED <<tally, told>>
    ELSE /\ spent # "none"
         /\ tally' = IF spent = "refused" THEN [tally EXCEPT !.nudges = @ + 1]
                     ELSE [tally EXCEPT !.lockFails = @ + 1]
         /\ told' = [told EXCEPT !.verdict = spent]
         /\ UNCHANGED <<pc, errand>>

DozePass ==
    /\ pc["S"] = "doze"
    /\ Babysit
    /\ UNCHANGED <<load, lock, ring, evq, chip, cmdq, gate, exch>>

\* elm327_hardreset_chip_timeout, with a one-second wait for the lock; without
\* it the chip is not touched and the baud handshake is skipped.
ResetLock ==
    /\ pc["S"] = "resetLock"
    /\ \/ Take("S") /\ Flush /\ Goto("S", "reset") /\ UNCHANGED tally
       \/ /\ HeldByOther("S")
          /\ IF errand = "nudge"
             THEN Goto("S", "doze") /\ tally' = [tally EXCEPT !.lockFails = @ + 1]
             ELSE Goto("S", "announce") /\ UNCHANGED tally
          /\ UNCHANGED <<lock, ring, evq>>
    /\ UNCHANGED <<load, chip, cmdq, gate, errand, exch, told>>

\* An awake chip is sent ATZ, a sleeping one gets the reset line.
Rebooting == [st |-> "busy", stream |-> FALSE, then |-> "idle"]
Reset ==
    /\ pc["S"] = "reset"
    /\ IF Ready
       THEN chip' \in {chip, Rebooting} /\ Goto("S", "atzRead")
       ELSE chip' \in {chip, Rebooting, Quiet("idle")} /\ Goto("S", "lineRead")
    /\ UNCHANGED <<load, lock, ring, evq, cmdq, gate, errand, tally, exch, told>>

\* An unanswered ATZ falls back on the reset line.
ResetRead ==
    /\ pc["S"] \in {"atzRead", "lineRead"}
    /\ \E ok \in BOOLEAN:
         /\ RawRead(ok)
         /\ IF ok \/ pc["S"] = "lineRead"
            THEN Goto("S", "resetEnd") /\ UNCHANGED chip
            ELSE Goto("S", "lineRead") /\ chip' \in {chip, Rebooting, Quiet("idle")}
    /\ UNCHANGED <<load, lock, evq, cmdq, gate, errand, tally, exch, told>>

ResetEnd ==
    /\ pc["S"] = "resetEnd"
    /\ Flush
    /\ Give("S")
    /\ told' = [told EXCEPT !.resets = @ + 1]
    /\ Goto("S", "baudLock")
    /\ UNCHANGED <<load, chip, cmdq, gate, errand, tally, exch>>

\* elm327_set_baudrate takes the lock a second time.
BaudDone ==
    /\ tally' = IF errand = "nudge" THEN [tally EXCEPT !.nudges = @ + 1] ELSE tally
    /\ Goto("S", IF errand = "nudge" THEN "sleepLock" ELSE "announce")
BaudLock ==
    /\ pc["S"] = "baudLock"
    /\ \/ Take("S") /\ Flush /\ Goto("S", "baud") /\ UNCHANGED tally
       \/ HeldByOther("S") /\ BaudDone /\ UNCHANGED <<lock, ring, evq>>
    /\ UNCHANGED <<load, chip, cmdq, gate, errand, exch, told>>

\* VTVERS at the desired rate; unanswered, VTVERS at the default rate, STSBR,
\* VTVERS and STWBR, each after the last one's answer.  No flush at the end:
\* the events of the answers stay behind.
BaudAsk ==
    /\ pc["S"] = "baud"
    /\ Write(FALSE, "idle")
    /\ exch' = exch + 1
    /\ Goto("S", "baudRead")
    /\ UNCHANGED <<load, lock, ring, evq, cmdq, gate, errand, tally, told>>
BaudRead ==
    /\ pc["S"] = "baudRead"
    /\ \E ok \in BOOLEAN:
         /\ RawRead(ok)
         /\ IF (exch = 1 /\ ~ok) \/ (exch \in 2..4 /\ ok)
            THEN Goto("S", "baud") /\ UNCHANGED <<lock, tally>>
            ELSE Give("S") /\ BaudDone
         /\ exch' = IF pc'["S"] = "baud" THEN exch ELSE 0
    /\ UNCHANGED <<load, evq, chip, cmdq, gate, errand, told>>

\* The wake: pin released and the chip reset; the state is published last.
Wake ==
    /\ pc["S"] = "doze"
    /\ errand' = "resume"
    /\ Goto("S", "resetLock")
    /\ UNCHANGED <<load, lock, ring, evq, chip, cmdq, gate, tally, exch, told>>

Announce ==
    /\ pc["S"] = "announce"
    /\ gate' = [awake |-> TRUE, sleeping |-> FALSE]
    /\ Goto("S", "up")
    /\ UNCHANGED <<load, lock, ring, evq, chip, cmdq, errand, tally, exch, told>>

-----------------------------------------------------------------------------
EStep == EventGate \/ EventRecv \/ EventLock \/ EventWrite \/ EventRead \/ EventGive
RStep == ReadPeek \/ ReadLock \/ ReadServe
AStep == AutoLock \/ AutoWrite \/ AutoRead \/ AutoStop \/ AutoGive
           \/ ProtoAsk \/ ProtoRead \/ ProtoEnd
SChip == SleepLock \/ SleepAsk \/ SleepRead \/ ResetLock \/ Reset \/ ResetRead
           \/ ResetEnd \/ BaudLock \/ BaudAsk \/ BaudRead
SStep == SChip \/ SleepEnter \/ SleepPublish \/ DozePass \/ Wake \/ Announce

Next ==
    \/ ChipSays \/ ChipSettles \/ ClientSends
    \/ EStep \/ RStep
    \/ AutoBegin \/ AutoDeadline \/ AStep
    \/ SStep

Spec == Init /\ [][Next]_vars

\* The chip finishes what it says, the scheduler runs every task, and
\* deadlines pass; nobody has to send, sleep or wake.
Fairness ==
    /\ WF_vars(ChipSays) /\ WF_vars(EStep) /\ WF_vars(RStep)
    /\ WF_vars(AStep) /\ WF_vars(AutoDeadline) /\ WF_vars(SChip)

FairSpec == Spec /\ Fairness

-----------------------------------------------------------------------------
TypeOK ==
    /\ lock \in Task \cup {None}
    /\ ring \in Seq(Chunk) /\ Len(ring) <= RingMax
    /\ evq \in Seq({"data", "ovf"}) /\ Len(evq) <= EvMax
    /\ chip.st \in {"idle", "busy", "dozing", "asleep"}
    /\ cmdq \in 0..CmdMax
    /\ tally.nudges \in 0..(MaxNudges + 1)
    /\ tally.lockFails \in 0..(MaxLockFails + 1)
    /\ tally.settle \in 0..SettlePasses
    /\ exch \in 0..5

\* The lock always comes free again: no wait under it is without a deadline,
\* even when an event announces bytes that a flush or a raw reader took.
LockComesFree == lock # None ~> lock = None

\* A client is never handed what lay in the ring before its command's turn,
\* such as the late answer to a command that was given up.
NoLeftovers == ~told.leaked

\* The log blames the chip only after it was really reset and told to sleep
\* MaxNudges times since it was last seen asleep, however the lock was held.
BlamedOnlyWhenReset == told.verdict = "refused" => told.resets >= MaxNudges

-----------------------------------------------------------------------------
(* Claims the code does not keep *)

\* "the chip was never asked" is said only when no nudge reached it.  One
\* nudge that did and two that found the lock held say it too.
UnreachedIsTrue == told.verdict = "unreached" => told.resets = 0

\* A chip told to sleep hears no command until the wake: the command task
\* asks before it waits for the lock, and the sleep state is published long
\* after the chip was told.
DozeUndisturbed == chip.st \in {"dozing", "asleep"} => pc["E"] # "write"
=============================================================================
