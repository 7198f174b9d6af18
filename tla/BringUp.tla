------------------------------ MODULE BringUp ------------------------------
(***************************************************************************)
(* The guarded bring-ups across reboots.  A subsystem that may crash while *)
(* it starts arms a word in RTC memory, clears it once it has run long     *)
(* enough, and is skipped by a boot that finds the word armed:             *)
(*  - the one-shot guards of event_log.c, poll_log.c and fast_log.c        *)
(*    (OneShots), which disarm on the skip so that the next boot retries;  *)
(*  - the trip logger's chain (csv_bringup_logic.c, csv_logger.c), which   *)
(*    counts its skips, retries once in the same boot, and then gives up;  *)
(*  - the wake that reboots instead of resuming while any of them is       *)
(*    skipped (sleep_mode_recovery_needed).                                *)
(***************************************************************************)
EXTENDS Integers, TLAPS

CONSTANTS
    OneShots,    \* the subsystems with a one-shot guard
    MaxSkips     \* CSV_BRINGUP_MAX_SKIPS

ASSUME BringUpAssumption == MaxSkips \in Nat \ {0}

VARIABLES
    armed,       \* RTC: the one-shot guards' words
    up,          \* per one-shot subsystem: "off", "young" or "stable"
    out,         \* the subsystems this boot skipped (s_bringup_skipped)
    guard, skips,      \* RTC: csv_attempt_inprogress, csv_skip_count
    csvSkipped,        \* csv_bringup_skipped
    csv,         \* the trip logger's writer: "off", "young" or "stable"
    retry,       \* csv_retry_init_task
    pc,          \* "boot", "run" or "asleep"
    faulty,      \* the subsystems that crash while young (environment)
    byBoot,      \* this boot's writer was started by no owner (history)
    crashRun     \* boots in a row ended by such a writer's crash (history)

oneshot == <<armed, up, out>>
chain   == <<guard, skips, csvSkipped, csv, retry, byBoot>>
vars == <<oneshot, chain, pc, faulty, crashRun>>

TypeOK ==
    /\ armed \in [OneShots -> BOOLEAN]
    /\ up \in [OneShots -> {"off", "young", "stable"}]
    /\ out \subseteq OneShots
    /\ guard \in BOOLEAN /\ skips \in 0 .. MaxSkips + 1
    /\ csvSkipped \in BOOLEAN /\ csv \in {"off", "young", "stable"}
    /\ retry \in {"none", "waiting", "starting"}
    /\ pc \in {"boot", "run", "asleep"}
    /\ faulty \subseteq OneShots \cup {"csv"}
    /\ byBoot \in BOOLEAN /\ crashRun \in Nat

\* After a cold power-up the RTC words hold anything.
Init ==
    /\ armed \in [OneShots -> BOOLEAN] /\ up = [s \in OneShots |-> "off"]
    /\ out = {}
    /\ guard \in BOOLEAN /\ skips \in 0 .. MaxSkips + 1
    /\ csvSkipped = FALSE /\ csv = "off" /\ retry = "none"
    /\ pc = "boot" /\ faulty \in SUBSET (OneShots \cup {"csv"})
    /\ byBoot = FALSE /\ crashRun = 0

\* RAM is lost, the RTC words are not.
Reboot ==
    /\ up' = [s \in OneShots |-> "off"] /\ out' = {}
    /\ csvSkipped' = FALSE /\ csv' = "off" /\ retry' = "none" /\ byBoot' = FALSE
    /\ pc' = "boot"
    /\ UNCHANGED <<armed, guard, skips, faulty>>

-----------------------------------------------------------------------------

\* event_log_init, poll_log_init, fast_log_init: an armed guard is disarmed and
\* its subsystem skipped; the others arm theirs and start, or cannot allocate
\* and disarm.
StartOneShots(started) ==
    /\ out' = {s \in OneShots : armed[s]}
    /\ armed' = [s \in OneShots |-> ~armed[s] /\ s \in started]
    /\ up' = [s \in OneShots |-> IF s \in started THEN "young" ELSE "off"]

\* csv_bringup_decide and csv_logger_start_at_boot: an armed guard is disarmed
\* and counted; whether there is a retry depends on the count and on memory.
StartCsv ==
    \/ /\ guard
       /\ guard' = FALSE /\ csvSkipped' = TRUE
       /\ skips' = (IF skips > MaxSkips THEN MaxSkips ELSE skips) + 1
       /\ retry' \in {"none"} \cup (IF skips' < MaxSkips THEN {"waiting"} ELSE {})
       /\ UNCHANGED <<csv, byBoot>>
    \/ /\ ~guard
       /\ guard' = TRUE /\ skips' = 0
       /\ \/ csv' = "young" /\ byBoot' = TRUE
          \/ UNCHANGED <<csv, byBoot>>          \* no memory for the writer
       /\ UNCHANGED <<csvSkipped, retry>>

Boot ==
    /\ pc = "boot" /\ pc' = "run"
    /\ \E started \in SUBSET {s \in OneShots : ~armed[s]} : StartOneShots(started)
    /\ StartCsv
    /\ UNCHANGED <<faulty, crashRun>>

\* Mutant: the retry runs unguarded.
RetryUnarmed ==
    /\ pc = "run" /\ retry = "waiting"
    /\ retry' = IF csv = "off" THEN "starting" ELSE "none"
    /\ UNCHANGED <<oneshot, guard, skips, csvSkipped, csv, byBoot, pc, faulty,
                   crashRun>>

\* csv_retry_init_task after its delay: it stands down for a running writer,
\* and otherwise arms the guard again, leaving the count ...
RetryWakes ==
    /\ pc = "run" /\ retry = "waiting"
    /\ IF csv = "off" THEN retry' = "starting" /\ guard' = TRUE
       ELSE retry' = "none" /\ UNCHANGED guard
    /\ UNCHANGED <<oneshot, skips, csvSkipped, csv, byBoot, pc, faulty, crashRun>>

\* ... and makes one attempt, which finds the writer there if the owner's Start
\* came in between.
RetryStarts ==
    /\ pc = "run" /\ retry = "starting" /\ retry' = "none"
    /\ \/ csv = "off" /\ csv' = "young" /\ byBoot' = TRUE
       \/ UNCHANGED <<csv, byBoot>>
    /\ UNCHANGED <<oneshot, guard, skips, csvSkipped, pc, faulty, crashRun>>

\* The owner's Start brings the writer up without arming the guard.
ManualStart ==
    /\ pc = "run" /\ csv = "off" /\ csv' = "young"
    /\ UNCHANGED <<oneshot, guard, skips, csvSkipped, retry, byBoot, pc, faulty,
                   crashRun>>

\* csv_bringup_mark_stable, and the clearing of the one-shot guards.
MarkStable ==
    /\ pc = "run" /\ csv = "young" /\ "csv" \notin faulty
    /\ csv' = "stable" /\ guard' = FALSE /\ skips' = 0 /\ csvSkipped' = FALSE
    /\ UNCHANGED <<oneshot, retry, byBoot, pc, faulty, crashRun>>

OneShotStable(s) ==
    /\ pc = "run" /\ up[s] = "young" /\ s \notin faulty
    /\ up' = [up EXCEPT ![s] = "stable"] /\ armed' = [armed EXCEPT ![s] = FALSE]
    /\ UNCHANGED <<out, chain, pc, faulty, crashRun>>

\* A faulty subsystem takes the device down while it is young.
CsvCrash ==
    /\ pc = "run" /\ csv = "young" /\ "csv" \in faulty
    /\ crashRun' = IF byBoot THEN crashRun + 1 ELSE 0
    /\ Reboot

OneShotCrash(s) ==
    /\ pc = "run" /\ up[s] = "young" /\ s \in faulty
    /\ crashRun' = 0
    /\ Reboot

\* Any other restart; new firmware or a new card may cure a fault.
Restart ==
    /\ pc = "run" /\ crashRun' = 0
    /\ up' = [s \in OneShots |-> "off"] /\ out' = {}
    /\ csvSkipped' = FALSE /\ csv' = "off" /\ retry' = "none" /\ byBoot' = FALSE
    /\ pc' = "boot" /\ faulty' \in SUBSET faulty
    /\ UNCHANGED <<armed, guard, skips>>

\* The countdown to a sleep is longer than the time to be stable.
Sleep ==
    /\ pc = "run" /\ csv # "young" /\ retry = "none"
    /\ \A s \in OneShots : up[s] # "young"
    /\ pc' = "asleep"
    /\ UNCHANGED <<oneshot, chain, faulty, crashRun>>

\* Mutant: the trip logger is missing from the list.
RecoveryWithoutCsv == out # {}

\* sleep_mode_recovery_needed
RecoveryNeeded == csvSkipped \/ out # {}

\* A wake resumes in place, unless something waits for a boot to be repaired.
Wake ==
    /\ pc = "asleep"
    /\ \/ RecoveryNeeded /\ Reboot /\ crashRun' = 0
       \/ ~RecoveryNeeded /\ pc' = "run"
          /\ UNCHANGED <<oneshot, chain, faulty, crashRun>>

Next ==
    \/ Boot \/ RetryWakes \/ RetryStarts \/ ManualStart \/ MarkStable
    \/ \E s \in OneShots : OneShotStable(s) \/ OneShotCrash(s)
    \/ CsvCrash \/ Restart \/ Sleep \/ Wake

Spec == Init /\ [][Next]_vars

(* Boots finish, tasks run, and the device sleeps and wakes with the car.   *)
Fairness ==
    /\ WF_vars(Boot) /\ WF_vars(RetryWakes) /\ WF_vars(RetryStarts)
    /\ WF_vars(MarkStable) /\ WF_vars(CsvCrash)
    /\ \A s \in OneShots : WF_vars(OneShotStable(s)) /\ WF_vars(OneShotCrash(s))
    /\ WF_vars(Sleep) /\ WF_vars(Wake)

FairSpec == Spec /\ Fairness

-----------------------------------------------------------------------------
(* Properties.                                                             *)

(* A trip logger that crashes on start takes the device down at most         *)
(* MaxSkips times in a row by itself: START, SKIP_RETRY, then nothing        *)
(* (csv_bringup_logic.h, "BOOT-LOOP BOUND").                                 *)
BootLoopBound == crashRun <= MaxSkips

(* A writer that has proven stable has no armed guard behind it, so that a   *)
(* later restart, however soon, is not taken for its crash: neither the      *)
(* delayed retry nor the owner's Start arms it again.                        *)
StableDisarmed ==
    /\ csv = "stable" => ~guard /\ ~csvSkipped
    /\ \A s \in OneShots : up[s] = "stable" => ~armed[s]

(* What the guards are for: a crashing start is given up in time, and a start  *)
(* that has proven stable is never taken for a crash.                          *)
GuardsHold == TypeOK /\ BootLoopBound /\ StableDisarmed

(* While nothing is faulty and the device only sleeps and wakes, what a boot *)
(* skipped is repaired for good: a wake reboots for it, that boot brings it  *)
(* up, and later wakes resume in place (sleep_mode_recovery_needed, and the  *)
(* disarming in event_log_init: "Leave it armed and ... EVERY wake take[s]   *)
(* the reboot fallback forever").                                            *)
RepairIsLasting ==
    <>[][~Restart]_vars /\ <>[](faulty = {})
        => <>[](pc # "boot" /\ ~csvSkipped /\ out = {})

-----------------------------------------------------------------------------
(* Proofs, for any set of one-shot subsystems and any number of skips.       *)

-----------------------------------------------------------------------------
(* The invariant.                                                          *)

\* What the boot finds: nothing runs yet, and only an armed guard can have a
\* run of crashes behind it, one more than the skips that are counted.
AtBoot ==
    pc = "boot" => /\ csv = "off" /\ retry = "none" /\ ~byBoot
                   /\ \A s \in OneShots : up[s] = "off"
                   /\ IF guard THEN crashRun <= skips + 1 ELSE crashRun = 0

\* The retry may start the writer only while the count allows one more crash,
\* and the guard is armed before it does.
AtRetry ==
    /\ retry \in {"waiting", "starting"} /\ csv = "off" =>
          crashRun <= skips /\ skips < MaxSkips
    /\ retry = "starting" /\ csv = "off" => guard

\* A writer this boot or its retry started is guarded while it may crash.
AtStart ==
    /\ byBoot /\ csv = "young" => guard /\ crashRun <= skips /\ crashRun < MaxSkips
    /\ csv = "off" => ~byBoot

Numbers == skips \in Nat /\ crashRun \in Nat /\ guard \in BOOLEAN

BoundInv == Numbers /\ AtBoot /\ AtRetry /\ AtStart /\ BootLoopBound

-----------------------------------------------------------------------------
(* The bound on the boot loop.                                             *)

\* What a reboot leaves: the RTC words, and nothing running.
Rebooted ==
    /\ guard' = guard /\ skips' = skips
    /\ csv' = "off" /\ retry' = "none" /\ byBoot' = FALSE
    /\ up' = [s \in OneShots |-> "off"]

\* It re-establishes what a boot relies on, if the run of crashes fits.
LEMMA RebootKeeps ==
    BoundInv /\ Rebooted /\ crashRun' \in Nat /\ crashRun' <= MaxSkips
    /\ (guard => crashRun' <= skips + 1) /\ (~guard => crashRun' = 0)
        => BoundInv'
  BY DEF Rebooted, BoundInv, Numbers, AtBoot, AtRetry, AtStart, BootLoopBound

LEMMA QuietReboot ==
    ASSUME BoundInv, Rebooted, crashRun' = 0 PROVE BoundInv'
<1>1. crashRun' \in Nat /\ crashRun' <= MaxSkips /\ crashRun' <= skips + 1
  BY BringUpAssumption DEF BoundInv, Numbers
<1> QED
  BY <1>1, RebootKeeps

LEMMA BoundInit == Init => BoundInv
  BY BringUpAssumption
  DEF Init, BoundInv, Numbers, AtBoot, AtRetry, AtStart, BootLoopBound

LEMMA BoundStep == BoundInv /\ [Next]_vars => BoundInv'
<1> SUFFICES ASSUME BoundInv, [Next]_vars PROVE BoundInv'
  OBVIOUS
<1> USE BringUpAssumption
<1>1. CASE Boot
  <2>1. pc = "boot" /\ csv = "off" /\ retry = "none" /\ ~byBoot /\ pc' = "run"
        /\ crashRun' = crashRun /\ crashRun \in Nat /\ crashRun <= MaxSkips
        /\ skips \in Nat
    BY <1>1 DEF Boot, BoundInv, AtBoot, Numbers, BootLoopBound
  <2>2. CASE guard
    <3>1. /\ guard' = FALSE /\ csv' = "off" /\ byBoot' = FALSE
          /\ skips' = (IF skips > MaxSkips THEN MaxSkips ELSE skips) + 1
          /\ retry' = "none" \/ skips' < MaxSkips
          /\ crashRun <= skips + 1
      BY <1>1, <2>1, <2>2 DEF Boot, StartCsv, BoundInv, AtBoot
    <3>2. crashRun <= skips' /\ skips' \in Nat
      BY <2>1, <3>1
    <3>3. retry' # "starting"
      BY <1>1, <2>2 DEF Boot, StartCsv
    <3> QED
      BY <2>1, <3>1, <3>2, <3>3
      DEF BoundInv, Numbers, AtBoot, AtRetry, AtStart, BootLoopBound
  <2>3. CASE ~guard
    <3>1. /\ guard' = TRUE /\ skips' = 0 /\ retry' = "none" /\ crashRun = 0
          /\ csv' = "young" \/ byBoot' = FALSE
      BY <1>1, <2>1, <2>3 DEF Boot, StartCsv, BoundInv, AtBoot
    <3> QED
      BY <2>1, <3>1
      DEF BoundInv, Numbers, AtBoot, AtRetry, AtStart, BootLoopBound
  <2> QED
    BY <2>2, <2>3
<1>2. CASE RetryWakes
  BY <1>2 DEF RetryWakes, BoundInv, Numbers, AtBoot, AtRetry, AtStart, BootLoopBound
<1>3. CASE RetryStarts
  BY <1>3 DEF RetryStarts, BoundInv, Numbers, AtBoot, AtRetry, AtStart, BootLoopBound
<1>4. CASE ManualStart
  BY <1>4 DEF ManualStart, BoundInv, Numbers, AtBoot, AtRetry, AtStart, BootLoopBound,
              oneshot
<1>5. CASE MarkStable
  BY <1>5 DEF MarkStable, BoundInv, Numbers, AtBoot, AtRetry, AtStart, BootLoopBound,
              oneshot
<1>6. ASSUME NEW s \in OneShots, OneShotStable(s) PROVE BoundInv'
  BY <1>6 DEF OneShotStable, BoundInv, Numbers, AtBoot, AtRetry, AtStart,
              BootLoopBound, chain
<1>7. ASSUME NEW s \in OneShots, OneShotCrash(s) PROVE BoundInv'
  BY <1>7, QuietReboot DEF OneShotCrash, Reboot, Rebooted
<1>8. CASE CsvCrash
  <2>1. CASE byBoot
    <3>1. guard /\ crashRun <= skips /\ crashRun < MaxSkips /\ crashRun' = crashRun + 1
          /\ skips \in Nat /\ crashRun \in Nat
      BY <1>8, <2>1 DEF CsvCrash, BoundInv, AtStart, Numbers
    <3> QED
      BY <1>8, <3>1, RebootKeeps DEF CsvCrash, Reboot, Rebooted
  <2>2. CASE ~byBoot
    BY <1>8, <2>2, QuietReboot DEF CsvCrash, Reboot, Rebooted
  <2> QED
    BY <2>1, <2>2
<1>9. CASE Restart
  BY <1>9, QuietReboot DEF Restart, Rebooted
<1>10. CASE Sleep
  BY <1>10 DEF Sleep, BoundInv, Numbers, AtBoot, AtRetry, AtStart, BootLoopBound,
               oneshot, chain
<1>11. CASE Wake
  <2>1. CASE RecoveryNeeded /\ Reboot /\ crashRun' = 0
    BY <2>1, QuietReboot DEF Reboot, Rebooted
  <2>2. CASE pc' = "run" /\ UNCHANGED <<oneshot, chain, faulty, crashRun>>
    BY <2>2 DEF BoundInv, Numbers, AtBoot, AtRetry, AtStart, BootLoopBound,
                oneshot, chain
  <2> QED
    BY <1>11, <2>1, <2>2 DEF Wake
<1>12. CASE UNCHANGED vars
  BY <1>12 DEF vars, oneshot, chain, BoundInv, Numbers, AtBoot, AtRetry, AtStart,
               BootLoopBound
<1> QED
  BY <1>1, <1>2, <1>3, <1>4, <1>5, <1>6, <1>7, <1>8, <1>9, <1>10, <1>11, <1>12 DEF Next

(* A trip logger that crashes on start takes the device down at most        *)
(* MaxSkips times in a row by itself, whatever the RTC words held at first  *)
(* (csv_bringup_decide, csv_retry_init_task).                               *)
THEOREM CrashesAreBounded == Spec => []BootLoopBound
<1>1. BoundInv => BootLoopBound
  BY DEF BoundInv
<1> QED
  BY BoundInit, BoundStep, <1>1, PTL DEF Spec

-----------------------------------------------------------------------------
(* No guard is left armed behind what is stable.                           *)

Off == pc = "boot" => csv = "off" /\ \A s \in OneShots : up[s] = "off"
Shape == armed \in [OneShots -> BOOLEAN] /\ up \in [OneShots -> {"off", "young", "stable"}]
DisarmedInv == Shape /\ Off /\ StableDisarmed

LEMMA DisarmedInit == Init => DisarmedInv
  BY DEF Init, DisarmedInv, Shape, Off, StableDisarmed

LEMMA DisarmedStep == DisarmedInv /\ [Next]_vars => DisarmedInv'
<1> SUFFICES ASSUME DisarmedInv, [Next]_vars PROVE DisarmedInv'
  OBVIOUS
<1> USE DEF DisarmedInv, Shape, Off, StableDisarmed
<1>1. CASE Boot
  <2>1. /\ armed' \in [OneShots -> BOOLEAN]
        /\ up' \in [OneShots -> {"off", "young", "stable"}]
        /\ \A s \in OneShots : up'[s] # "stable"
    BY <1>1 DEF Boot, StartOneShots
  <2>2. csv' # "stable" /\ pc' = "run"
    BY <1>1 DEF Boot, StartCsv
  <2> QED
    BY <2>1, <2>2
<1>2. CASE RetryWakes
  BY <1>2 DEF RetryWakes, oneshot
<1>3. CASE RetryStarts
  BY <1>3 DEF RetryStarts, oneshot
<1>4. CASE ManualStart
  BY <1>4 DEF ManualStart, oneshot
<1>5. CASE MarkStable
  BY <1>5 DEF MarkStable, oneshot
<1>6. ASSUME NEW s \in OneShots, OneShotStable(s) PROVE DisarmedInv'
  BY <1>6 DEF OneShotStable, chain
<1>7. ASSUME NEW s \in OneShots, OneShotCrash(s) PROVE DisarmedInv'
  BY <1>7 DEF OneShotCrash, Reboot
<1>8. CASE CsvCrash
  BY <1>8 DEF CsvCrash, Reboot
<1>9. CASE Restart
  BY <1>9 DEF Restart
<1>10. CASE Sleep
  BY <1>10 DEF Sleep, oneshot, chain
<1>11. CASE Wake
  BY <1>11 DEF Wake, Reboot, oneshot, chain
<1>12. CASE UNCHANGED vars
  BY <1>12 DEF vars, oneshot, chain
<1> QED
  BY <1>1, <1>2, <1>3, <1>4, <1>5, <1>6, <1>7, <1>8, <1>9, <1>10, <1>11, <1>12 DEF Next

(* What has proven stable has no armed guard behind it: a later restart is  *)
(* never taken for its crash (csv_bringup_mark_stable, event_log.c,         *)
(* poll_log.c, fast_log.c).                                                 *)
THEOREM StableIsDisarmed == Spec => []StableDisarmed
<1>1. DisarmedInv => StableDisarmed
  BY DEF DisarmedInv
<1> QED
  BY DisarmedInit, DisarmedStep, <1>1, PTL DEF Spec

-----------------------------------------------------------------------------
(* The types, and the three together.                                      *)

LEMMA TypeInit == Init => TypeOK
<1> SUFFICES ASSUME Init PROVE TypeOK
  OBVIOUS
<1>1. /\ csvSkipped \in BOOLEAN /\ byBoot \in BOOLEAN /\ guard \in BOOLEAN
      /\ armed \in [OneShots -> BOOLEAN]
      /\ up \in [OneShots -> {"off", "young", "stable"}]
  BY DEF Init
<1>2. skips \in 0 .. MaxSkips + 1 /\ crashRun \in Nat
  BY DEF Init
<1> QED
  BY <1>1, <1>2 DEF Init, TypeOK

\* What a reboot leaves is typed, whatever the words in RTC memory hold.
LEMMA RebootTyped == ASSUME TypeOK, Reboot, crashRun' \in Nat PROVE TypeOK'
  BY DEF TypeOK, Reboot

LEMMA TypeStep == TypeOK /\ [Next]_vars => TypeOK'
<1> SUFFICES ASSUME TypeOK, [Next]_vars PROVE TypeOK'
  OBVIOUS
<1> USE BringUpAssumption
<1>1. CASE Boot
  <2>1. /\ out' \subseteq OneShots /\ armed' \in [OneShots -> BOOLEAN]
        /\ up' \in [OneShots -> {"off", "young", "stable"}]
    BY <1>1 DEF Boot, StartOneShots
  <2>2. /\ guard' \in BOOLEAN /\ csvSkipped' \in BOOLEAN /\ byBoot' \in BOOLEAN
        /\ csv' \in {"off", "young", "stable"}
        /\ retry' \in {"none", "waiting", "starting"}
    BY <1>1 DEF Boot, StartCsv, TypeOK
  <2>3. skips' \in 0 .. MaxSkips + 1
    BY <1>1 DEF Boot, StartCsv, TypeOK
  <2> QED
    BY <1>1, <2>1, <2>2, <2>3 DEF Boot, TypeOK
<1>2. CASE RetryWakes
  BY <1>2 DEF RetryWakes, TypeOK, oneshot
<1>3. CASE RetryStarts
  BY <1>3 DEF RetryStarts, TypeOK, oneshot
<1>4. CASE ManualStart
  BY <1>4 DEF ManualStart, TypeOK, oneshot
<1>5. CASE MarkStable
  <2>1. guard' \in BOOLEAN /\ csvSkipped' \in BOOLEAN
    BY <1>5 DEF MarkStable
  <2>2. skips' \in 0 .. MaxSkips + 1
    BY <1>5 DEF MarkStable
  <2> QED
    BY <1>5, <2>1, <2>2 DEF MarkStable, TypeOK, oneshot
<1>6. ASSUME NEW s \in OneShots, OneShotStable(s) PROVE TypeOK'
  BY <1>6 DEF OneShotStable, TypeOK, chain
<1>7. ASSUME NEW s \in OneShots, OneShotCrash(s) PROVE TypeOK'
  BY <1>7, RebootTyped DEF OneShotCrash
<1>8. CASE CsvCrash
  <2>1. crashRun' \in Nat
    BY <1>8 DEF CsvCrash, TypeOK
  <2> QED
    BY <1>8, <2>1, RebootTyped DEF CsvCrash
<1>9. CASE Restart
  BY <1>9 DEF Restart, TypeOK
<1>10. CASE Sleep
  BY <1>10 DEF Sleep, TypeOK, oneshot, chain
<1>11. CASE Wake
  <2>1. CASE Reboot /\ crashRun' = 0
    BY <2>1, RebootTyped
  <2>2. CASE pc' = "run" /\ UNCHANGED <<oneshot, chain, faulty, crashRun>>
    BY <2>2 DEF TypeOK, oneshot, chain
  <2> QED
    BY <1>11, <2>1, <2>2 DEF Wake
<1>12. CASE UNCHANGED vars
  BY <1>12 DEF vars, oneshot, chain, TypeOK
<1> QED
  BY <1>1, <1>2, <1>3, <1>4, <1>5, <1>6, <1>7, <1>8, <1>9, <1>10, <1>11, <1>12 DEF Next

(* The skip count keeps within one of its bound, whatever the RTC words held *)
(* (csv_bringup_decide clamps what it reads), and every other word its type. *)
THEOREM TypeCorrect == Spec => []TypeOK
  BY TypeInit, TypeStep, PTL DEF Spec

(* What the guards are for, altogether: a crashing start is given up in     *)
(* time and a stable one never mistaken for a crash (csv_bringup_logic.c,   *)
(* event_log.c, poll_log.c).                                                *)
THEOREM GuardsAlwaysHold == Spec => []GuardsHold
  BY TypeCorrect, CrashesAreBounded, StableIsDisarmed, PTL DEF GuardsHold
=============================================================================
