------------------------------ MODULE MCPower -------------------------------
(*****************************************************************************)
(* The sleep task, and what goes to sleep or starts again with it: the wake  *)
(* on CAN traffic, the ELM327 link and its firmware update, and the clock.   *)
(* Each behaviour is one component's; the instances of all but the clock are *)
(* those the theorems of SleepMode_proofs are about.                         *)
(*****************************************************************************)
EXTENDS SleepMode_proofs

\* The tasks that use the ELM327 link together.
ElmLoads == {{"E", "R", "S"}, {"E", "R", "A"}, {"A", "S"}}

VARIABLES
    part,   \* the component this behaviour is about
    now, rtc_chip, sys, task, at, rtc_sent, tries, synced, rtc_net, init, web,
    wat, posted, got, reader, webs, rtc_faults, rtc_boots

wakeVars ==
    <<phase, rx, armed, fault, strikes, clean, open, proof, wake_streak,
      cool, rtc, jumps, spent, forgotten>>
elmVars ==
    <<load, elm_lock, ring, evq, elm_chip, cmdq, gate, elm_pc, errand, tally,
      exch, told>>
rtcVars ==
    <<now, rtc_chip, sys, task, at, rtc_sent, tries, synced, rtc_net, init,
      web, wat, posted, got, reader, webs, rtc_faults, rtc_boots>>
obdVars ==
    <<chip, pipe, step, sent, line, attempt, ret, status, obd_forced,
      lock, led, drops, boots, obd_clean>>

Rtc == INSTANCE RtcClock WITH
    Regs <- 2, Radix <- 2, MaxTime <- 2, MaxRetries <- 1, MaxWeb <- 1,
    MaxFaults <- 1, MaxBoots <- 1,
    chip <- rtc_chip, sent <- rtc_sent, net <- rtc_net, faults <- rtc_faults,
    boots <- rtc_boots

\* The other components stand still; where one may start from several states,
\* it stands in one of them.
AllInit ==
    /\ part \in {"sleep", "wake", "elm", "rtc", "obd"}
    /\ part = "sleep" \/ cfg = [sleep |-> FALSE, periodic |-> FALSE, bootLoop |-> FALSE]
    /\ Init
    /\ Wake!Init
    /\ part = "elm" \/ load = {"A", "S"}
    /\ Elm!Init
    /\ part = "rtc" \/ (rtc_chip = Rtc!Digits(0) /\ init = TRUE)
    /\ Rtc!Init
    /\ part = "obd" \/ chip = Obd!Running("old")
    /\ Obd!Init

\* Steps of one component.
OnSleep == part = "sleep" /\ UNCHANGED <<part, wakeVars, elmVars, rtcVars, obdVars>>
OnWake == part = "wake" /\ UNCHANGED <<part, vars, elmVars, rtcVars, obdVars>>
OnElm == part = "elm" /\ UNCHANGED <<part, vars, wakeVars, rtcVars, obdVars>>
OnRtc == part = "rtc" /\ UNCHANGED <<part, vars, wakeVars, elmVars, obdVars>>
OnObd == part = "obd" /\ UNCHANGED <<part, vars, wakeVars, elmVars, rtcVars>>

AllNext ==
    \/ OnSleep /\ Next
    \/ OnWake /\ Wake!Next
    \/ OnElm /\ Elm!Next
    \/ OnRtc /\ Rtc!Next
    \/ OnObd /\ Obd!Next

all == <<part, vars, wakeVars, elmVars, rtcVars, obdVars>>

AllSpec == AllInit /\ [][AllNext]_all

\* Each component's own fairness, of its steps while it is the one that runs.
sleepFair ==
    /\ WF_vars(part = "sleep" /\ Pass)
    /\ SF_vars(part = "sleep" /\ (\E v \in Volts : SampleOk(v)))

wakeFair ==
    /\ WF_wakeVars(part = "wake" /\ Wake!Loop)
    /\ SF_wakeVars(part = "wake" /\ Wake!Tick)

elmFair ==
    /\ WF_elmVars(part = "elm" /\ Elm!AStep)
    /\ WF_elmVars(part = "elm" /\ Elm!AutoDeadline)
    /\ WF_elmVars(part = "elm" /\ Elm!SChip)
    /\ WF_elmVars(part = "elm" /\ Elm!ChipSays)
    /\ WF_elmVars(part = "elm" /\ Elm!EStep)
    /\ WF_elmVars(part = "elm" /\ Elm!RStep)

rtcFair ==
    /\ WF_rtcVars(part = "rtc" /\ Rtc!Answer)
    /\ WF_rtcVars(part = "rtc" /\ Rtc!WriteNext)
    /\ WF_rtcVars(part = "rtc" /\ Rtc!WebWrites)
    /\ WF_rtcVars(part = "rtc" /\ Rtc!WebReads)
    /\ WF_rtcVars(part = "rtc" /\ Rtc!Tick)
    /\ WF_rtcVars(part = "rtc" /\ Rtc!Connects)
    /\ WF_rtcVars(part = "rtc" /\ Rtc!ReadNext)
    /\ WF_rtcVars(part = "rtc" /\ Rtc!StartsSntp)

-----------------------------------------------------------------------------
(* The components' properties; liveness under each component's own fairness. *)

\* However long a flash bit stays up, a battery that stays low under a silent
\* car is put to sleep, and one that charges wakes the device; asleep, a
\* cooldown ends, a line that chatters is left alone, and a line found faulty
\* is armed again once it is clean. (SleepMode, CanWake.)
BatteryLive ==
    /\ part = "sleep" /\ sleepFair => BatterySaved /\ ChargingWakes
    /\ part = "wake" /\ wakeFair =>
          /\ Wake!CooldownLapses
          /\ Wake!StuckLineQuiets
          /\ Wake!FaultClears

\* The tasks that share the chip never read what another one left behind,
\* nobody calls the chip refused but who has reset it, and the lock always
\* comes free. (ElmLink.)
ElmIsShared ==
    /\ []Elm!TypeOK /\ []Elm!NoLeftovers /\ []Elm!BlamedOnlyWhenReset
    /\ part = "elm" /\ elmFair => Elm!LockComesFree

\* The system clock is never set from registers that hold no time, and in the
\* end both clocks show the time the network told. (RtcClock.)
ClocksAreTrue ==
    /\ []Rtc!TypeOK
    /\ Rtc!NoTimeOutOfNothing
    /\ part = "rtc" /\ rtcFair => Rtc!ClocksComeRight
=============================================================================
