------------------------------ MODULE CanWake ------------------------------
(***************************************************************************)
(* Wake-on-CAN (main/can_wake.c): arming the receive pin for light sleep,  *)
(* confirming what woke the device, the stuck-line fault, and the account  *)
(* of fruitless wakes whose cooldown bounds how often a parked car's       *)
(* traffic may wake it, across resumes and across reboots.                 *)
(*                                                                         *)
(* Every call is the sleep task's; it makes them in the order of the       *)
(* phases below.  Deadlines are kept as the time left: on esp_timer, which *)
(* a boot resets, and on the wall clock, which SNTP may set.               *)
(***************************************************************************)
EXTENDS Integers

CONSTANTS
    Limit,      \* CAN_WAKE_FRUITLESS_LIMIT
    Cooldown,   \* CAN_WAKE_COOLDOWN_S
    Strikes,    \* CAN_WAKE_STUCK_STRIKES
    CleanReads, \* CAN_WAKE_RECOVER_READS
    Absurd,     \* the largest streak a boot believes (100)
    MaxJumps,   \* bound: SNTP steps of the wall clock
    MaxStreak,  \* bound: fruitless wakes counted
    MaxForgotten \* bound: reboots that lose a window

VARIABLES
    phase,     \* where the sleep task is
    rx,        \* the pin: recessive, held dominant, or traffic (environment)
    armed,     \* s_armed
    fault,     \* s_rxd_fault
    strikes,   \* s_stuck_strikes
    clean,     \* s_clean_reads
    open,      \* s_wake_open
    proof,     \* s_volt_ok_seen or s_ecu_ok_seen
    streak,    \* s_fruitless
    cool,      \* time left to s_cooldown_until_us
    rtc,       \* s_rtc: the streak and the wall-clock time left
    jumps,     \* SNTP steps so far
    spent,     \* wakes since the last proof or lapsed cooldown (history)
    forgotten  \* of those, the ones a boot has forgotten (history)

pinVars  == <<armed, fault, strikes, clean>>
account  == <<open, proof, streak, cool, rtc>>
history  == <<spent, forgotten>>
vars == <<phase, rx, pinVars, account, jumps, history>>

None == -1

Phases == {"awake", "asleep", "decide", "dozing", "woken"}

TypeOK ==
    /\ phase \in Phases
    /\ rx \in {"quiet", "stuck", "traffic"}
    /\ armed \in BOOLEAN /\ fault \in BOOLEAN
    /\ strikes \in Nat /\ clean \in Nat
    /\ open \in BOOLEAN /\ proof \in BOOLEAN
    /\ streak \in Nat
    /\ cool \in Nat \cup {None}
    /\ rtc \in [streak : Nat, left : Nat \cup {None}]
    /\ jumps \in Nat /\ spent \in Nat /\ forgotten \in Nat

Init ==
    /\ phase = "awake" /\ rx = "quiet"
    /\ armed = FALSE /\ fault = FALSE /\ strikes = 0 /\ clean = 0
    /\ open = FALSE /\ proof = FALSE /\ streak = 0 /\ cool = None
    /\ rtc = [streak |-> 0, left |-> None]
    /\ jumps = 0 /\ spent = 0 /\ forgotten = 0

\* can_wake_in_cooldown; a deadline that has passed is cleared when it is asked.
InCooldown == cool > 0
Lapsed     == cool = 0

ClearLapsed ==
    IF Lapsed THEN /\ cool' = None
                   /\ rtc' = [rtc EXCEPT !.left = None]
                   /\ spent' = Limit - 1 /\ forgotten' = 0
              ELSE UNCHANGED <<cool, rtc, history>>

\* can_wake_confirm runs before the light sleep when the pin was low already,
\* after it when the pin ended it.
Confirming   == phase \in {"decide", "woken"}
AfterConfirm == IF phase = "decide" THEN "dozing" ELSE "asleep"

-----------------------------------------------------------------------------
(* One pass of the light-sleep loop.                                         *)

\* The teardown scores the wake that is ending.
SleepEntry ==
    /\ phase = "awake"
    /\ phase' = "asleep"
    /\ open' = FALSE
    /\ CASE ~open -> UNCHANGED <<streak, cool, rtc>>
         [] open /\ proof ->
              /\ streak' = 0 /\ cool' = None
              /\ rtc' = [streak |-> 0, left |-> None]
         [] OTHER ->
              /\ streak' = IF streak < MaxStreak THEN streak + 1 ELSE streak
              /\ IF streak' >= Limit
                   THEN /\ cool' = Cooldown
                        /\ rtc' = [streak |-> streak', left |-> Cooldown]
                   ELSE /\ rtc' = [rtc EXCEPT !.streak = streak']
                        /\ UNCHANGED cool
    /\ UNCHANGED <<rx, pinVars, proof, jumps, history>>

\* can_wake_arm under a fault: one level read per pass, nothing armed.
ArmFaulty ==
    /\ phase = "asleep" /\ fault
    /\ phase' = "dozing"
    /\ \E level \in {IF rx = "stuck" THEN 0 ELSE 1, IF rx = "quiet" THEN 1 ELSE 0} :
          IF level = 1 /\ clean + 1 >= CleanReads
            THEN fault' = FALSE /\ strikes' = 0 /\ clean' = 0
            ELSE /\ clean' = IF level = 1 THEN clean + 1 ELSE 0
                 /\ UNCHANGED <<fault, strikes>>
    /\ UNCHANGED <<rx, armed, account, jumps, history>>

ArmCooling ==
    /\ phase = "asleep" /\ ~fault /\ InCooldown
    /\ phase' = "dozing"
    /\ UNCHANGED <<rx, pinVars, account, jumps, history>>

\* A level trigger is never armed on a level that already asserts it.
Arm ==
    /\ phase = "asleep" /\ ~fault /\ ~InCooldown
    /\ ClearLapsed
    /\ \/ rx # "quiet" /\ phase' = "decide" /\ UNCHANGED armed
       \/ rx # "stuck" /\ phase' = "dozing" /\ armed' = TRUE
    /\ UNCHANGED <<rx, fault, strikes, clean, open, proof, streak, jumps>>

\* The timer or the pin ends the light sleep; the pin is disarmed first.
DozeEnds ==
    /\ phase = "dozing"
    /\ armed' = FALSE
    /\ \/ phase' = "asleep"
       \/ armed /\ rx # "quiet" /\ phase' = "woken"
    /\ UNCHANGED <<rx, fault, strikes, clean, account, jumps, history>>

ConfirmStuck ==
    /\ Confirming /\ rx = "stuck"
    /\ phase' = AfterConfirm
    /\ strikes' = IF strikes < Strikes THEN strikes + 1 ELSE strikes
    /\ IF strikes' >= Strikes /\ ~fault
         THEN fault' = TRUE /\ clean' = 0
         ELSE UNCHANGED <<fault, clean>>
    /\ UNCHANGED <<rx, armed, account, jumps, history>>

\* Too few edges, or a confirmed wake deferred by a critical battery.
ConfirmQuiet ==
    /\ Confirming /\ rx # "stuck"
    /\ strikes' = 0
    /\ phase' = AfterConfirm
    /\ UNCHANGED <<rx, armed, fault, clean, account, jumps, history>>

\* Enough edges, no cooldown, and a battery above the critical voltage: the
\* wake window opens, and the device resumes.
OpenWindow == open' = TRUE /\ proof' = FALSE

ConfirmWakes ==
    /\ Confirming /\ rx = "traffic" /\ ~InCooldown
    /\ strikes' = 0
    /\ OpenWindow
    /\ phase' = "awake"
    /\ spent' = spent + 1
    /\ UNCHANGED <<rx, armed, fault, clean, streak, cool, rtc, jumps, forgotten>>

\* A charging battery wakes the device without a window.
VoltageWakes ==
    /\ phase = "asleep"
    /\ phase' = "awake"
    /\ UNCHANGED <<rx, pinVars, account, jumps, history>>

-----------------------------------------------------------------------------
(* Proof that a wake led somewhere, credited with or without a window.       *)

Credit ==
    /\ IF streak # 0
         THEN /\ streak' = 0 /\ cool' = None
              /\ rtc' = [streak |-> 0, left |-> None]
         ELSE UNCHANGED <<streak, cool, rtc>>
    /\ proof' = (open \/ proof)
    /\ spent' = 0 /\ forgotten' = 0
    /\ UNCHANGED <<phase, rx, pinVars, open, jumps>>

\* can_wake_note_voltage_ok on any reading above the threshold, and
\* can_wake_note_ecu_ok while the poll task runs.
VoltageProves == phase \in {"awake", "asleep"} /\ Credit
EcuProves     == phase = "awake" /\ Credit

-----------------------------------------------------------------------------
(* Reboots.  Plain RAM is lost; RTC memory outlives all but a power cycle.   *)

\* Mutant: a deadline that makes no sense is taken as served.
CarriedOverFree ==
    LET left == rtc.left IN
    IF left > 0 /\ left <= 2 * Cooldown
      THEN cool' = left /\ UNCHANGED <<rtc, history>>
      ELSE /\ cool' = None /\ rtc' = [rtc EXCEPT !.left = None]
           /\ spent' = IF left = 0 THEN Limit - 1 ELSE spent
           /\ UNCHANGED forgotten

\* A streak at the limit carries its cooldown over the boot by the wall clock;
\* a deadline that makes no sense costs a full cooldown.
CarriedOver ==
    LET left == rtc.left IN
    CASE left > 0 /\ left <= 2 * Cooldown ->
           cool' = left /\ UNCHANGED <<rtc, history>>
      [] left = 0 ->
           /\ cool' = None /\ rtc' = [rtc EXCEPT !.left = None]
           /\ spent' = Limit - 1 /\ forgotten' = 0
      [] OTHER ->
           /\ cool' = Cooldown /\ rtc' = [rtc EXCEPT !.left = Cooldown]
           /\ UNCHANGED history

\* A stored streak above what a boot believes is taken for a torn write, and
\* goes with its cooldown.
Implausible == rtc.streak > Absurd
Believed == IF Implausible THEN [streak |-> 0, left |-> None] ELSE rtc

Boot ==
    /\ phase' = "awake"
    /\ armed' = FALSE /\ fault' = FALSE /\ strikes' = 0 /\ clean' = 0
    /\ UNCHANGED <<rx, jumps>>

\* The resume that fails after a confirmed wake: the boot is that wake.
FallbackReboot ==
    /\ Confirming /\ rx = "traffic" /\ ~InCooldown
    /\ Boot /\ OpenWindow
    /\ rtc' = Believed /\ streak' = Believed.streak /\ cool' = None
    /\ spent' = spent + 1
    /\ forgotten' = IF Implausible THEN spent ELSE forgotten

\* A periodic wake, a failed resume on voltage, the owner, a crash.  The open
\* window of a wake that ends so is never scored.
OtherReboot ==
    /\ phase \in {"awake", "asleep"}
    /\ Boot
    /\ open' = FALSE /\ proof' = FALSE /\ streak' = Believed.streak
    /\ \/ /\ Implausible /\ rtc' = Believed /\ cool' = None
          /\ forgotten' = spent /\ UNCHANGED spent
       \/ ~Implausible /\ rtc.streak >= Limit /\ CarriedOver
       \/ /\ ~Implausible /\ rtc.streak < Limit /\ cool' = None
          /\ IF open /\ ~proof
             THEN forgotten < MaxForgotten /\ forgotten' = forgotten + 1
             ELSE UNCHANGED forgotten
          /\ UNCHANGED <<rtc, spent>>

PowerCycle ==
    /\ Boot
    /\ open' = FALSE /\ proof' = FALSE
    /\ streak' = 0 /\ cool' = None /\ rtc' = [streak |-> 0, left |-> None]
    /\ spent' = 0 /\ forgotten' = 0

-----------------------------------------------------------------------------
(* Time, SNTP and the bus.                                                   *)

Less(n) == IF n > 0 THEN n - 1 ELSE n

Tick ==
    /\ phase \in {"awake", "dozing"}
    /\ cool' = Less(cool)
    /\ rtc' = [rtc EXCEPT !.left = Less(rtc.left)]
    /\ UNCHANGED <<phase, rx, pinVars, open, proof, streak, jumps, history>>

SntpStep ==
    /\ phase = "awake" /\ jumps < MaxJumps
    /\ jumps' = jumps + 1
    /\ rtc.left # None
    /\ \E left \in {0, 2 * Cooldown, 2 * Cooldown + 1} :
          rtc' = [rtc EXCEPT !.left = left]
    /\ UNCHANGED <<phase, rx, pinVars, open, proof, streak, cool, history>>

BusChanges ==
    /\ rx' \in {"quiet", "stuck", "traffic"} \ {rx}
    /\ UNCHANGED <<phase, pinVars, account, jumps, history>>

Loop ==
    \/ ArmFaulty \/ ArmCooling \/ Arm \/ DozeEnds
    \/ ConfirmStuck \/ ConfirmQuiet \/ ConfirmWakes

Next ==
    \/ Loop
    \/ SleepEntry \/ VoltageWakes \/ VoltageProves \/ EcuProves
    \/ FallbackReboot \/ OtherReboot \/ PowerCycle
    \/ Tick \/ SntpStep \/ BusChanges

Spec == Init /\ [][Next]_vars
\* The sleep task runs, and time passes while it does.
Fairness == WF_vars(Loop) /\ SF_vars(Tick)

FairSpec == Spec /\ Fairness

-----------------------------------------------------------------------------
(* Properties.                                                               *)

\* Traffic that never leads to an answering ECU or a charging battery wakes a
\* parked device at most Limit times, and then once per cooldown served; what
\* comes on top are the wakes a reboot made it forget, one for one.
WakeBudget == spent <= Limit + forgotten

\* RTC memory says what a reboot needs to go on with the same account.
MirrorTrue ==
    /\ rtc.streak = streak
    /\ jumps = 0 /\ cool # None => rtc.left = cool

\* Neither traffic nor reboots push a cooldown's end away for ever.
CooldownLapses == InCooldown ~> ~InCooldown

\* A line held dominant all night costs a bounded number of confirmations.
StuckLineQuiets ==
    <>[](rx = "stuck" /\ phase # "awake") => <>[](~Confirming)

\* A line that came back clears the fault, and traffic can wake the device again.
FaultClears ==
    <>[](rx = "quiet" /\ phase # "awake") => <>[](~fault)

-----------------------------------------------------------------------------
(* Claims the code does not keep; no run checks them.                        *)

\* "the close is guaranteed to happen exactly once per wake, whether that wake
\* ended in a resume, a fallback reboot, or a periodic reboot": a reboot other
\* than the fallback drops the open window, and one after more fruitless wakes
\* than a boot believes drops them all, with the cooldown they armed.
EveryWakeIsScored == forgotten = 0

\* "Rebooted while a cooldown was in force": not with a streak above 100.
RebootKeepsCooldown == [][InCooldown /\ rtc.left = cool /\ OtherReboot => cool' = cool]_vars
=============================================================================
