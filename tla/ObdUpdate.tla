------------------------------ MODULE ObdUpdate ------------------------------
(***************************************************************************)
(* The interpreter chip's firmware update (main/elm327.c): at every boot   *)
(* the chip is asked its version and reflashed when it needs to be; the    *)
(* web page can force it.  Each command flushes what was received, is sent *)
(* and read back until its prompt or a deadline; an answer that comes too  *)
(* late may be there when the next command is read.  The chip is external: *)
(* it may drop a command, and its answer may be late; the supply may fail  *)
(* at any step, and the chip keeps what it has been sent.                  *)
(***************************************************************************)
EXTENDS Integers, Sequences

CONSTANTS
    Lines,      \* lines of the firmware before its end marker
    Attempts,   \* times VTDLED is tried (3)
    MaxFaults,  \* bound: commands dropped and answers late, over all boots
    MaxBoots    \* bound: starts of the device

VARIABLES
    chip,      \* its firmware, whether it waits in its loader, the lines it holds
    pipe,      \* its answers that have not been read
    step,      \* where the update is
    sent,      \* whether the command of this step is out
    line,      \* the line being sent
    attempt,   \* the attempt at VTDLED
    ret,       \* ret
    status,    \* device_status: in_normal_state, need_update
    forced,    \* force_update
    lock, led, \* xuart1_semaphore is held; the LED indicator is suspended
    faults, boots,
    clean      \* no fault since this update began (history)

unit == <<step, sent, line, attempt, ret, status, forced, lock, led>>
bounds == <<faults, boots>>
vars == <<chip, pipe, unit, bounds, clean>>

Answers == {"old", "new", "ok", "?"}
Rets == {"ok", "?", "fail", "timeout"}
Steps == {"off", "check", "enter", "line", "end", "reset", "done"}

TypeOK ==
    /\ chip \in [fw : {"old", "new", "none"}, loader : BOOLEAN, got : SUBSET (1 .. Lines)]
    /\ pipe \in Seq(Answers)
    /\ step \in Steps /\ sent \in BOOLEAN
    /\ line \in 1 .. Lines + 1 /\ attempt \in 1 .. Attempts /\ ret \in Rets
    /\ status \in [normal : BOOLEAN, need : BOOLEAN]
    /\ forced \in BOOLEAN /\ lock \in BOOLEAN /\ led \in BOOLEAN
    /\ faults \in 0 .. MaxFaults /\ boots \in 0 .. MaxBoots /\ clean \in BOOLEAN

Running(fw) == [fw |-> fw, loader |-> FALSE, got |-> {}]

Init ==
    /\ chip \in {Running("old"), Running("new")} /\ pipe = <<>>
    /\ step = "off" /\ sent = FALSE /\ line = 1 /\ attempt = 1 /\ ret = "fail"
    /\ status = [normal |-> FALSE, need |-> FALSE] /\ forced = FALSE
    /\ lock = FALSE /\ led = FALSE /\ faults = 0 /\ boots = 0 /\ clean = TRUE

-----------------------------------------------------------------------------
(* The chip: what a command does to it, and what it answers.               *)

Command == CASE step = "check" -> "VTVERS" [] step = "enter" -> "VTDLMIC"
             [] step = "line" -> "VTDLDT" [] step = "end" -> "VTDLED"

\* In its loader the chip knows the download commands only; outside, the other
\* two.  It believes whoever tells it that the download has ended.
Obeyed ==
    CASE Command = "VTVERS" -> [is |-> chip, says |-> IF chip.loader THEN "?" ELSE chip.fw]
      [] Command = "VTDLMIC" -> [is |-> [fw |-> "none", loader |-> TRUE, got |-> {}],
                                 says |-> "ok"]
      [] Command = "VTDLDT" /\ chip.loader ->
            [is |-> [chip EXCEPT !.got = @ \cup {line}], says |-> "ok"]
      [] Command = "VTDLED" /\ chip.loader ->
            [is |-> [chip EXCEPT !.fw = "new", !.loader = FALSE], says |-> "ok"]
      [] OTHER -> [is |-> chip, says |-> "?"]

Whole == chip.fw # "none" /\ (chip.fw = "new" => chip.got \in {{}, 1 .. Lines})

-----------------------------------------------------------------------------
(* elm327_send_update_command.                                             *)

Fault == faults < MaxFaults /\ faults' = faults + 1 /\ clean' = FALSE
NoFault == UNCHANGED <<faults, clean>>

\* Flushed and sent.  An answer still on its way is not in what is flushed.
Send ==
    /\ step \in {"check", "enter", "line", "end"} /\ ~sent /\ sent' = TRUE
    /\ \E left \in {<<>>, pipe} :
          \/ NoFault /\ chip' = Obeyed.is /\ pipe' = Append(left, Obeyed.says)
          \/ Fault /\ chip' = chip /\ pipe' = left
    /\ UNCHANGED <<step, line, attempt, ret, status, forced, lock, led, boots>>

\* The answer read, by what it contains.
Classified(a) == IF a \in {"ok", "old", "new"} THEN "ok" ELSE "?"

-----------------------------------------------------------------------------
(* elm327_update_obd, by what the command of the step gave it.             *)

\* Mutant: a chip that does not need an update is left alone, whatever state
\* it is in.
LeavesHalfWritten(s) == ~s.need /\ ~forced
\* A chip that runs and is up to date is left alone.
LeavesAlone(s) == ~s.need /\ ~forced /\ s.normal

\* elm327_check_obd_device: only an answer with a version makes the chip
\* normal; no answer at all makes it a chip to update.
Checked(r, a) == [normal |-> r = "ok" /\ a \in {"old", "new"}, need |-> r = "ok" /\ a = "old"]

AfterCheck(r, a) ==
    /\ status' = Checked(r, a)
    /\ IF LeavesAlone(Checked(r, a))
       THEN step' = "done" /\ lock' = FALSE
       ELSE step' = "enter" /\ lock' = lock
    /\ UNCHANGED <<line, attempt, led>>

\* Refused, the update is over, with no reset.
AfterEnter(r) ==
    /\ IF r = "ok"
       THEN step' = "line" /\ line' = 1 /\ led' = TRUE /\ lock' = lock
       ELSE step' = "done" /\ lock' = FALSE /\ UNCHANGED <<line, led>>
    /\ UNCHANGED <<attempt, status>>

\* A line that is not acknowledged ends the download, and nothing is finished;
\* after the last line comes the end marker.
AfterLine(r) ==
    /\ line' = line + 1 /\ attempt' = 1
    /\ step' = IF r # "ok" THEN "reset" ELSE IF line = Lines THEN "end" ELSE "line"
    /\ UNCHANGED <<status, lock, led>>

AfterEnd(r) ==
    /\ IF r = "ok" \/ attempt = Attempts
       THEN step' = "reset" /\ UNCHANGED attempt
       ELSE step' = "end" /\ attempt' = attempt + 1
    /\ UNCHANGED <<line, status, lock, led>>

Proceeds(r, a) ==
    /\ sent /\ sent' = FALSE /\ ret' = r
    /\ CASE step = "check" -> AfterCheck(r, a)
         [] step = "enter" -> AfterEnter(r)
         [] step = "line"  -> AfterLine(r)
         [] step = "end"   -> AfterEnd(r)
    /\ UNCHANGED <<chip, forced, boots>>

Read ==
    /\ pipe # <<>> /\ pipe' = Tail(pipe)
    /\ Proceeds(Classified(Head(pipe)), Head(pipe)) /\ NoFault

\* The deadline passes: the command was dropped, or its answer is late.
Timeout ==
    /\ pipe' = pipe /\ Proceeds("timeout", "?")
    /\ IF pipe = <<>> THEN NoFault ELSE Fault

\* The reset that ends a download, then the lock is given and the chip reset
\* once more: a chip with firmware runs it, one without waits in its loader.
Reset ==
    /\ step = "reset" /\ step' = "done" /\ lock' = FALSE /\ led' = FALSE /\ pipe' = <<>>
    /\ chip' = [chip EXCEPT !.loader = (chip.fw = "none")]
    /\ UNCHANGED <<sent, line, attempt, ret, status, forced, bounds, clean>>

-----------------------------------------------------------------------------
Begins(f) ==
    /\ forced' = f /\ clean' = TRUE /\ pipe' = <<>> /\ sent' = FALSE
    /\ status' = [normal |-> FALSE, need |-> FALSE]
    /\ step' = "check" /\ lock' = TRUE

\* elm327_init: the chip is reset first, and nothing else uses the UART yet.
Boot ==
    /\ step = "off" /\ boots < MaxBoots /\ boots' = boots + 1 /\ Begins(FALSE)
    /\ chip' = [chip EXCEPT !.loader = (chip.fw = "none")]
    /\ UNCHANGED <<line, attempt, ret, led, faults>>

\* "force_update_obd" from the web page; an exchange of another task that holds
\* the UART too long leaves only the reset.
Force ==
    /\ step = "done"
    /\ \/ Begins(TRUE) /\ ret' = ret /\ UNCHANGED chip
       \/ /\ ret' = "fail" /\ chip' = [chip EXCEPT !.loader = (chip.fw = "none")]
          /\ UNCHANGED <<pipe, sent, step, lock, forced, status, clean>>
    /\ UNCHANGED <<line, attempt, led, bounds>>

\* The supply fails or the device restarts: the chip keeps what it holds.
PowerCut ==
    /\ step # "off" /\ step' = "off" /\ lock' = FALSE /\ led' = FALSE
    /\ sent' = FALSE /\ pipe' = <<>>
    /\ UNCHANGED <<chip, line, attempt, ret, status, forced, bounds, clean>>

Next == Send \/ Read \/ Timeout \/ Reset \/ Boot \/ Force \/ PowerCut

Spec == Init /\ [][Next]_vars

-----------------------------------------------------------------------------
\* A download that a power cut or a fault of an earlier boot left half done is
\* repaired by the first boot during which nothing goes wrong.
CleanBootRepairs == (step = "done" /\ clean /\ ~forced) => (~chip.loader /\ chip.fw = "new")

\* No single dropped command and no single late answer makes the chip finish
\* a download that misses a line.
OneFaultIsCaught == faults <= 1 => (chip.fw = "new" => Whole)

\* However an update ends, the UART's lock is free and the LED indicator has
\* its LED back.
HandedBack == step = "done" => ~lock /\ ~led

-----------------------------------------------------------------------------
(* Claims the code does not keep.                                          *)

\* An update that reports success has written every line: two faults are enough
\* to make it not so.  A version that comes after its deadline is read as the
\* answer to VTDLMIC, every answer is then one command behind, and when the
\* last line is dropped its place is taken by the answer to VTDLED.
SuccessIsWhole == (step = "done" /\ ret = "ok") => Whole

\* "Firmware is already up to date": a chip that is, and is late to say so, is
\* erased and written again, at a boot.
UpToDateIsKept == [][(chip.fw = "new" /\ ~forced /\ step # "off") => chip'.fw = "new"]_vars
=============================================================================
