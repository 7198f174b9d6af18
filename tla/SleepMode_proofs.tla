-------------------------- MODULE SleepMode_proofs --------------------------
(***************************************************************************)
(* Proofs about SleepMode, for any timers, ceilings and sample counts: the *)
(* device is wholly up or wholly down between the steps of a teardown or a *)
(* resume, each resource follows the one it must follow, and a spike does  *)
(* not throw a countdown away.  Then, as instances: wake on CAN, the       *)
(* firmware update of the OBD chip, and the ELM327 link to it.             *)
(***************************************************************************)
EXTENDS SleepMode, Sequences, TLAPS

-----------------------------------------------------------------------------
(* What is up, at every place of a pass.                                   *)

Asleep == {"sleeping", "pending"}

\* At rest and on the way into a teardown.
AtRest ==
    /\ pc \in {"sample", "decide", "guard"} =>
          IF state \in Asleep THEN Down ELSE Served
    /\ pc = "doze" => state = "sleeping" /\ Down
    /\ pc = "teardown" => state \notin Asleep /\ Served

\* A teardown under way: the fence is up before the bus goes down.
GoingDown ==
    /\ pc = "bus_down" => fence /\ ~awake /\ state \notin Asleep
    /\ pc = "published" => Down

\* A resume under way: the bus, the fence, the network, the state, the bit.
ComingUp ==
    /\ pc \in {"resume", "unfence", "wifi", "publish", "wake"} =>
          state \in Asleep /\ ~awake
    /\ pc = "resume" => Down
    /\ pc = "unfence" => fence /\ bus
    /\ pc \in {"wifi", "publish", "wake"} => ~fence /\ bus
    /\ pc \in {"publish", "wake"} => net
    /\ pc = "wake" => pub = "normal"

\* The boot-loop guard never finds the state machine pending: the reading that
\* made it pending was a high one, and every later reading is acted on first.
Pending ==
    /\ pc = "decide" => cfg.sleep
    /\ state = "pending" => cfg.sleep /\ (pc \in {"sample", "guard"} => volts = High)

UpInv ==
    /\ fence \in BOOLEAN /\ bus \in BOOLEAN /\ net \in BOOLEAN /\ awake \in BOOLEAN
    /\ AtRest /\ GoingDown /\ ComingUp /\ Pending /\ FencedOffBus /\ AwakePublished

LEMMA UpInit == Init => UpInv
  BY DEF Init, Booted, UpInv, AtRest, GoingDown, ComingUp, Pending, FencedOffBus,
         AwakePublished, Asleep, Served, Down

\* A reboot brings everything up at once.
LEMMA RestartIsUp == ASSUME Restart PROVE UpInv'
  BY DEF Restart, UpInv, AtRest, GoingDown, ComingUp, Pending, FencedOffBus,
         AwakePublished, Asleep, Served, Down

LEMMA UpStep == UpInv /\ [Next]_vars => UpInv'
<1> SUFFICES ASSUME UpInv, [Next]_vars PROVE UpInv'
  OBVIOUS
<1> USE DEF UpInv, AtRest, GoingDown, ComingUp, Pending, FencedOffBus, AwakePublished,
            Asleep, Served, Down, machine, samples, resources, outside
<1>1. CASE (\E v \in Volts : SampleOk(v)) \/ SampleFails
  BY <1>1 DEF SampleOk, SampleFails, Tick, Vetoes
<1>2. CASE NormalPass \/ LowCancelled \/ LowRecovers \/ LowCounts \/ LowExpires
  BY <1>2 DEF NormalPass, LowCancelled, LowRecovers, LowCounts, LowExpires, Enter,
              Deciding
<1>3. CASE SleepingPass
  <2>1. CASE Restart
    BY <2>1, RestartIsUp
  <2>2. CASE Deciding("sleeping") /\ (\/ Enter("pending") /\ volts = High
                                     \/ Enter("sleeping"))
             /\ UNCHANGED <<cfg, samples, resources>>
    BY <2>2 DEF Enter, Deciding
  <2> QED
    BY <1>3, <2>1, <2>2 DEF SleepingPass
<1>4. CASE PendingPass
  BY <1>4 DEF PendingPass, Enter, Deciding
<1>5. CASE TeardownRefuses
  BY <1>5 DEF TeardownRefuses, Enter
<1>6. CASE TeardownBegins \/ TeardownBus
  <2>1. CASE TeardownBegins
    BY <2>1 DEF TeardownBegins
  <2>2. CASE TeardownBus
    BY <2>2 DEF TeardownBus
  <2> QED
    BY <1>6, <2>1, <2>2
<1>7. CASE TeardownPublishes
  BY <1>7 DEF TeardownPublishes
<1>8. CASE BootLoopGuard
  BY <1>8 DEF BootLoopGuard, High, Error
<1>9. CASE Doze
  BY <1>9 DEF Doze
<1>10. CASE ResumeRefused \/ ResumeNetwork
  <2>1. CASE Restart
    BY <2>1, RestartIsUp
  <2>2. CASE /\ pc = "wifi" /\ net' = TRUE /\ pc' = "publish"
             /\ UNCHANGED <<cfg, state, pub, volts, fence, bus, awake>>
    BY <2>2
  <2> QED
    BY <1>10, <2>1, <2>2 DEF ResumeRefused, ResumeNetwork
<1>11. CASE ResumeBus \/ ResumeFence
  <2>1. CASE ResumeBus
    BY <2>1 DEF ResumeBus
  <2>2. CASE ResumeFence
    BY <2>2 DEF ResumeFence
  <2> QED
    BY <1>11, <2>1, <2>2
<1>12. CASE ResumePublishes
  BY <1>12 DEF ResumePublishes
<1>13. CASE ResumeWakes
  BY <1>13 DEF ResumeWakes
<1>14. CASE JobStarts \/ JobEnds \/ HostComesAndGoes \/ EcuChanges
  BY <1>14 DEF JobStarts, JobEnds, HostComesAndGoes, EcuChanges
<1>15. CASE UNCHANGED vars
  BY <1>15 DEF vars
<1> QED
  BY <1>1, <1>2, <1>3, <1>4, <1>5, <1>6, <1>7, <1>8, <1>9, <1>10, <1>11, <1>12,
     <1>13, <1>14, <1>15 DEF Next, Pass

(* Between the steps of a teardown or a resume the device is wholly up or  *)
(* wholly down (sleep_teardown_and_publish, wake_resume_in_place).         *)
THEOREM NeverHalfUp == Spec => []WhollyUpOrDown
<1>1. UpInv => WhollyUpOrDown
  BY DEF UpInv, AtRest, WhollyUpOrDown, Asleep
<1> QED
  BY UpInit, UpStep, <1>1, PTL DEF Spec

(* A producer that the fence lets through finds the controller on: bus     *)
(* first, fence second, and the other way round on the way down.           *)
THEOREM FenceCoversBus == Spec => []FencedOffBus
<1>1. UpInv => FencedOffBus
  BY DEF UpInv
<1> QED
  BY UpInit, UpStep, <1>1, PTL DEF Spec

(* A task that the awake bit releases finds the state published as awake.  *)
THEOREM AwakeIsPublished == Spec => []AwakePublished
<1>1. UpInv => AwakePublished
  BY DEF UpInv
<1> QED
  BY UpInit, UpStep, <1>1, PTL DEF Spec

-----------------------------------------------------------------------------
(* The countdown.                                                          *)

\* The count of recovered readings is never ahead of the real ones, counted
\* as far as it matters.
RunInv ==
    /\ recover \in Nat /\ highRun \in Nat
    /\ pc = "decide" => cfg.sleep
    /\ state = "low" \/ (pc = "teardown" /\ ~forced) => state = "low" /\ cfg.sleep
    /\ state = "low" /\ highRun < RecoverSamples =>
          IF pc = "decide" THEN volts = High => recover < highRun
                           ELSE recover <= highRun

LEMMA RunInit == Init => RunInv
  BY DEF Init, Booted, RunInv

LEMMA RunStep == UpInv /\ RunInv /\ [Next]_vars => RunInv'
<1> SUFFICES ASSUME UpInv, RunInv, [Next]_vars PROVE RunInv'
  OBVIOUS
<1> USE SleepAssumption DEF RunInv, machine, samples, resources, outside
<1>1. ASSUME NEW v \in Volts, SampleOk(v) PROVE RunInv'
  BY <1>1 DEF SampleOk, Tick, Vetoes, Older
<1>2. CASE SampleFails
  BY <1>2 DEF SampleFails, Tick, Vetoes
<1>3. CASE NormalPass \/ LowCancelled
  BY <1>3 DEF NormalPass, LowCancelled, Enter, Deciding
<1>4. CASE LowRecovers \/ LowCounts \/ LowExpires
  BY <1>4 DEF LowRecovers, LowCounts, LowExpires, Enter, Deciding, Recovered
<1>5. CASE SleepingPass \/ PendingPass
  BY <1>5 DEF SleepingPass, PendingPass, Restart, Enter, Deciding
<1>6. CASE TeardownRefuses
  BY <1>6 DEF TeardownRefuses, Enter
<1>7. CASE TeardownBegins \/ TeardownBus \/ TeardownPublishes
  BY <1>7 DEF TeardownBegins, TeardownBus, TeardownPublishes
<1>8. CASE BootLoopGuard \/ Doze
  BY <1>8 DEF BootLoopGuard, Doze
<1>9. CASE ResumeRefused \/ ResumeNetwork \/ ResumeBus \/ ResumeFence
  BY <1>9 DEF ResumeRefused, ResumeNetwork, ResumeBus, ResumeFence, Restart
<1>10. CASE ResumePublishes \/ ResumeWakes
  BY <1>10 DEF ResumePublishes, ResumeWakes
<1>11. CASE JobStarts \/ JobEnds \/ HostComesAndGoes \/ EcuChanges
  BY <1>11 DEF JobStarts, JobEnds, HostComesAndGoes, EcuChanges
<1>12. CASE UNCHANGED vars
  BY <1>12 DEF vars
<1> QED
  BY <1>1, <1>2, <1>3, <1>4, <1>5, <1>6, <1>7, <1>8, <1>9, <1>10, <1>11, <1>12
  DEF Next, Pass

LEMMA SpikeStep ==
    UpInv /\ RunInv /\ [Next]_vars =>
        [state = "low" /\ state' = "normal" /\ ~Vetoed => highRun >= RecoverSamples]_vars
<1> SUFFICES ASSUME UpInv, RunInv, Next, state = "low", state' = "normal", ~Vetoed
             PROVE highRun >= RecoverSamples
  OBVIOUS
<1> USE SleepAssumption DEF machine, samples, resources, outside
<1>1. ~SleepingPass /\ ~PendingPass /\ ~NormalPass /\ ~LowCancelled
  BY DEF SleepingPass, PendingPass, NormalPass, LowCancelled, Deciding
<1>2. pc \notin {"resume", "unfence", "wifi", "publish", "wake"}
  BY DEF UpInv, ComingUp, Asleep
<1>3. ~ResumeRefused /\ ~ResumeNetwork /\ ~ResumeBus /\ ~ResumeFence
      /\ ~ResumePublishes /\ ~ResumeWakes
  BY <1>2 DEF ResumeRefused, ResumeNetwork, ResumeBus, ResumeFence, ResumePublishes,
              ResumeWakes
<1>4. /\ ~SampleFails /\ \A v \in Volts : ~SampleOk(v)
      /\ ~LowCounts /\ ~LowExpires
  BY DEF SampleFails, SampleOk, Tick, Vetoes, LowCounts, LowExpires, Enter, Deciding
<1>5. ~TeardownRefuses /\ ~TeardownBegins /\ ~TeardownBus /\ ~TeardownPublishes
  BY DEF TeardownRefuses, TeardownBegins, TeardownBus, TeardownPublishes, Enter
<1>6. ~BootLoopGuard /\ ~Doze /\ ~JobStarts /\ ~JobEnds /\ ~HostComesAndGoes
      /\ ~EcuChanges
  BY DEF BootLoopGuard, Doze, JobStarts, JobEnds, HostComesAndGoes, EcuChanges
<1>7. LowRecovers
  BY <1>1, <1>3, <1>4, <1>5, <1>6 DEF Next, Pass
<1> QED
  BY <1>7 DEF LowRecovers, Deciding, Recovered, RunInv

(* A countdown that nobody vetoed is given up only after RecoverSamples    *)
(* real readings above the wake threshold in a row (light_sleep_task).     *)
THEOREM SpikesAreIgnored == Spec => SpikeKeepsCountdown
  BY UpInit, UpStep, RunInit, RunStep, SpikeStep, PTL DEF Spec, SpikeKeepsCountdown
-----------------------------------------------------------------------------
(* The types: the flags, and the places, bands and numbers.                *)

Flags ==
    /\ cfg \in [sleep : BOOLEAN, periodic : BOOLEAN, bootLoop : BOOLEAN]
    /\ fresh \in BOOLEAN /\ ecuSeen \in BOOLEAN /\ hostSeen \in BOOLEAN
    /\ forced \in BOOLEAN
    /\ fence \in BOOLEAN /\ bus \in BOOLEAN /\ net \in BOOLEAN /\ awake \in BOOLEAN
    /\ ecu \in BOOLEAN /\ host \in BOOLEAN

Streaks == [age : Nat \cup {-1}, gap : Nat \cup {-1}]

Places ==
    /\ pc \in {"sample", "decide", "guard", "teardown", "bus_down", "published",
               "doze", "resume", "unfence", "wifi", "publish", "wake"}
    /\ state \in States /\ pub \in States \cup {"none"}

Numbers ==
    /\ volts \in Volts /\ shadow \in {-1, 0, 1}
    /\ timer \in Nat /\ hold \in Nat /\ period \in Nat
    /\ recover \in Nat /\ highRun \in Nat
    /\ streak \in Streaks
    /\ job \in Nat \cup {NoJob}

LEMMA TypeParts == TypeOK <=> Flags /\ Places /\ Numbers
  BY DEF TypeOK, Flags, Places, Numbers, Streaks

LEMMA TypeInit == Init => Flags /\ Places /\ Numbers
<1>1. Init => Flags
  BY DEF Init, Booted, Flags
<1>2. Init => Places
  BY DEF Init, Booted, Places, States
<1>3. Init => Numbers
  BY DEF Init, Booted, Numbers, Streaks, NoStreak, NoJob, Volts, Critical
<1> QED
  BY <1>1, <1>2, <1>3

LEMMA RestartFlags == ASSUME Flags, Restart PROVE Flags'
<1>1. /\ cfg' = cfg /\ fresh' = TRUE /\ ecuSeen' = FALSE /\ hostSeen' = FALSE
      /\ forced' = FALSE /\ fence' = FALSE /\ bus' = TRUE /\ net' = TRUE
      /\ awake' = TRUE /\ ecu' = FALSE /\ host' = FALSE
  BY ZenonT(30) DEF Restart
<1> QED
  BY <1>1 DEF Flags

LEMMA FlagsStep == Flags /\ [Next]_vars => Flags'
<1> SUFFICES ASSUME Flags, [Next]_vars PROVE Flags'
  OBVIOUS
<1> USE DEF Flags, machine, samples, resources, outside
<1>1. ASSUME NEW v \in Volts, SampleOk(v) PROVE Flags'
  BY <1>1 DEF SampleOk, Vetoes
<1>2. CASE SampleFails
  BY <1>2 DEF SampleFails, Vetoes
<1>3. CASE NormalPass \/ LowCancelled \/ LowRecovers \/ LowCounts \/ LowExpires
  BY <1>3 DEF NormalPass, LowCancelled, LowRecovers, LowCounts, LowExpires
<1>4. CASE SleepingPass \/ PendingPass
  <2>1. Restart \/ UNCHANGED <<cfg, samples, forced, resources, outside>>
    BY <1>4 DEF SleepingPass, PendingPass
  <2> QED
    BY <2>1, RestartFlags
<1>5. CASE TeardownRefuses \/ TeardownBegins \/ TeardownBus \/ TeardownPublishes
  BY <1>5 DEF TeardownRefuses, TeardownBegins, TeardownBus, TeardownPublishes
<1>6. CASE BootLoopGuard
  <2>1. UNCHANGED <<cfg, samples, resources, outside>>
    BY <1>6 DEF BootLoopGuard
  <2>2. CASE forced' = forced
    BY <2>1, <2>2
  <2>3. CASE forced' = TRUE
    BY <2>1, <2>3
  <2> QED
    BY <1>6, <2>2, <2>3 DEF BootLoopGuard
<1>7. CASE Doze
  <2>1. UNCHANGED <<cfg, samples, forced, resources, outside>>
    BY <1>7 DEF Doze
  <2> QED
    BY <2>1
<1>8. CASE ResumeRefused \/ ResumeBus \/ ResumeFence \/ ResumeNetwork
  <2>1. CASE Restart
    BY <2>1, RestartFlags
  <2>2. CASE ~Restart
    BY <1>8, <2>2 DEF ResumeRefused, ResumeBus, ResumeFence, ResumeNetwork
  <2> QED
    BY <2>1, <2>2
<1>9. CASE ResumePublishes \/ ResumeWakes
  BY <1>9 DEF ResumePublishes, ResumeWakes
<1>10. CASE JobStarts \/ JobEnds \/ HostComesAndGoes \/ EcuChanges
  <2>1. CASE JobStarts \/ JobEnds
    BY <2>1 DEF JobStarts, JobEnds
  <2>2. CASE HostComesAndGoes
    BY <2>2 DEF HostComesAndGoes
  <2>3. CASE EcuChanges
    BY <2>3 DEF EcuChanges
  <2> QED
    BY <1>10, <2>1, <2>2, <2>3
<1>11. CASE UNCHANGED vars
  BY <1>11 DEF vars
<1> QED
  BY <1>1, <1>2, <1>3, <1>4, <1>5, <1>6, <1>7, <1>8, <1>9, <1>10, <1>11
  DEF Next, Pass

LEMMA PlacesStep == Places /\ [Next]_vars => Places'
<1> SUFFICES ASSUME Places, [Next]_vars PROVE Places'
  OBVIOUS
<1> USE DEF Places, States, machine, samples, resources, outside
<1>1. ASSUME NEW v \in Volts, SampleOk(v) PROVE Places'
  BY <1>1 DEF SampleOk
<1>2. CASE SampleFails
  BY <1>2 DEF SampleFails
<1>3. CASE NormalPass \/ LowCancelled \/ LowRecovers \/ LowCounts \/ LowExpires
  BY <1>3 DEF NormalPass, LowCancelled, LowRecovers, LowCounts, LowExpires, Enter
<1>4. CASE SleepingPass \/ PendingPass
  BY <1>4 DEF SleepingPass, PendingPass, Restart, Enter
<1>5. CASE TeardownRefuses \/ TeardownBegins \/ TeardownBus \/ TeardownPublishes
  BY <1>5 DEF TeardownRefuses, TeardownBegins, TeardownBus, TeardownPublishes, Enter
<1>6. CASE BootLoopGuard \/ Doze
  BY <1>6 DEF BootLoopGuard, Doze
<1>7. CASE ResumeRefused \/ ResumeBus \/ ResumeFence \/ ResumeNetwork
  BY <1>7 DEF ResumeRefused, ResumeBus, ResumeFence, ResumeNetwork, Restart
<1>8. CASE ResumePublishes \/ ResumeWakes
  BY <1>8 DEF ResumePublishes, ResumeWakes
<1>9. CASE JobStarts \/ JobEnds \/ HostComesAndGoes \/ EcuChanges
  BY <1>9 DEF JobStarts, JobEnds, HostComesAndGoes, EcuChanges
<1>10. CASE UNCHANGED vars
  BY <1>10 DEF vars
<1> QED
  BY <1>1, <1>2, <1>3, <1>4, <1>5, <1>6, <1>7, <1>8, <1>9, <1>10 DEF Next, Pass

\* Time going by counts the timers down and the ages up.
LEMMA TickTyped ==
    ASSUME Numbers, Tick
    PROVE  /\ timer' \in Nat /\ hold' \in Nat /\ period' \in Nat
           /\ streak' \in Streaks /\ job' \in Nat \cup {NoJob}
<1> USE SleepAssumption DEF Numbers, Tick, NoJob
<1>1. /\ timer' \in Nat /\ hold' \in Nat /\ period' \in Nat
  BY DEF Less
<1>2. \A n \in Nat \cup {-1}, b \in Int : Older(n, b) \in Nat \cup {-1}
  BY DEF Older
<1>3. streak' \in Streaks
  BY <1>2 DEF NoStreak, StreakGap, Streaks
<1>4. job' \in Nat \cup {NoJob}
  BY <1>2
<1> QED
  BY <1>1, <1>3, <1>4

LEMMA RestartTyped == ASSUME Restart PROVE Numbers'
  BY DEF Restart, Numbers, Volts, Critical, NoJob, NoStreak, Streaks

LEMMA NumbersStep == Numbers /\ [Next]_vars => Numbers'
<1> SUFFICES ASSUME Numbers, [Next]_vars PROVE Numbers'
  OBVIOUS
<1> USE SleepAssumption DEF Numbers, machine, samples, resources, outside, NoJob
<1>1. ASSUME NEW v \in Volts, SampleOk(v) PROVE Numbers'
  <2>1. shadow' \in {-1, 0, 1}
    BY <1>1 DEF SampleOk, Latch
  <2>2. highRun' \in Nat
    BY <1>1 DEF SampleOk, Older
  <2> QED
    BY <1>1, <2>1, <2>2, TickTyped DEF SampleOk
<1>2. CASE SampleFails
  BY <1>2, TickTyped DEF SampleFails
<1>3. CASE NormalPass \/ LowCancelled
  BY <1>3 DEF NormalPass, LowCancelled
<1>4. CASE LowRecovers \/ LowCounts \/ LowExpires
  BY <1>4 DEF LowRecovers, LowCounts, LowExpires, Recovered
<1>5. CASE SleepingPass \/ PendingPass
  BY <1>5, RestartTyped DEF SleepingPass, PendingPass
<1>6. CASE TeardownRefuses
  <2>1. StreakNow \in Streaks
    BY DEF StreakNow, Streaks
  <2> QED
    BY <1>6, <2>1 DEF TeardownRefuses
<1>7. CASE TeardownBegins
  BY <1>7 DEF TeardownBegins, NoStreak, Streaks
<1>8. CASE TeardownBus \/ TeardownPublishes
  BY <1>8 DEF TeardownBus, TeardownPublishes
<1>9. CASE BootLoopGuard \/ Doze
  BY <1>9 DEF BootLoopGuard, Doze
<1>10. CASE ResumeRefused \/ ResumeNetwork
  BY <1>10, RestartTyped DEF ResumeRefused, ResumeNetwork
<1>11. CASE ResumeBus \/ ResumeFence \/ ResumePublishes \/ ResumeWakes
  BY <1>11 DEF ResumeBus, ResumeFence, ResumePublishes, ResumeWakes
<1>12. CASE JobStarts \/ JobEnds \/ HostComesAndGoes \/ EcuChanges
  BY <1>12 DEF JobStarts, JobEnds, HostComesAndGoes, EcuChanges
<1>13. CASE UNCHANGED vars
  BY <1>13 DEF vars
<1> QED
  BY <1>1, <1>2, <1>3, <1>4, <1>5, <1>6, <1>7, <1>8, <1>9, <1>10, <1>11, <1>12, <1>13
  DEF Next, Pass

(* Every variable of the sleep task keeps its type: no timer goes below    *)
(* zero, and a streak of refusals is either none or has both its ages.     *)
THEOREM TypeCorrect == Spec => []TypeOK
  BY TypeInit, FlagsStep, PlacesStep, NumbersStep, TypeParts, PTL DEF Spec

(* What going to sleep and coming back keep, altogether                    *)
(* (light_sleep_task, sleep_teardown_and_publish, wake_resume_in_place).   *)
THEOREM SleepSafety == Spec => SleepSafe
  BY TypeCorrect, NeverHalfUp, FenceCoversBus, AwakeIsPublished, SpikesAreIgnored, PTL
  DEF SleepSafe

-----------------------------------------------------------------------------
(* The wake on CAN traffic, which the sleep task asks on every pass.  Its    *)
(* constants are as can_wake.c sets them: a limit and a cooldown that are    *)
(* not zero, and a count of fruitless wakes with room for the limit.         *)
CONSTANTS Limit, Cooldown, Strikes, CleanReads, Absurd, MaxJumps, MaxStreak, MaxForgotten

VARIABLES phase, rx, armed, fault, strikes, clean, open, proof, wake_streak,
          cool, rtc, jumps, spent, forgotten

Wake == INSTANCE CanWake WITH streak <- wake_streak

WakeConstants ==
    /\ Limit \in Nat \ {0} /\ Cooldown \in Nat \ {0}
    /\ MaxStreak \in Nat /\ Limit <= MaxStreak
    /\ Absurd \in Nat /\ MaxForgotten \in Nat

\* The account's types.
AccountFlags == open \in BOOLEAN /\ proof \in BOOLEAN /\ armed \in BOOLEAN

AccountNumbers ==
    /\ wake_streak \in Nat /\ jumps \in Nat
    /\ spent \in Nat /\ forgotten \in Nat
    /\ cool \in Int /\ cool >= -1
    /\ rtc \in [streak : Nat, left : Int]

\* A wake whose window is open and that has proved nothing yet.
Unscored == open /\ ~proof

\* Where the sleep task may hold a window, an armed pin and a cooldown.
AccountPlaces ==
    /\ phase \in Wake!Phases
    /\ open => phase = "awake" /\ cool = -1
    /\ armed => phase = "dozing" /\ cool = -1
    /\ phase \in {"decide", "woken"} => cool = -1

\* How much of the budget is left: all wakes that are not forgotten are scored
\* but the open one, and a score at the limit leaves room only once its
\* cooldown is served.
AccountHolds ==
    /\ Wake!MirrorTrue
    /\ forgotten <= spent /\ spent <= Limit + forgotten
    /\ open /\ proof => spent = 0
    /\ Unscored => forgotten < spent
    /\ cool # -1 => wake_streak >= Limit
    /\ wake_streak < Limit =>
          spent <= forgotten + wake_streak + (IF Unscored THEN 1 ELSE 0)
    /\ cool = -1 /\ ~Unscored => spent < Limit + forgotten

WakeInv == AccountFlags /\ AccountNumbers /\ AccountPlaces /\ AccountHolds

LEMMA WakeInit == ASSUME WakeConstants PROVE Wake!Init => WakeInv
<1> SUFFICES ASSUME Wake!Init PROVE WakeInv
  OBVIOUS
<1> USE DEF WakeConstants, Wake!Init, Wake!None, Unscored
<1>1. AccountFlags
  BY DEF AccountFlags
<1>2. AccountNumbers
  BY DEF AccountNumbers
<1>3. AccountPlaces
  BY DEF AccountPlaces, Wake!Phases
<1>4. AccountHolds
  BY DEF AccountHolds, Wake!MirrorTrue
<1> QED
  BY <1>1, <1>2, <1>3, <1>4 DEF WakeInv

LEMMA WakeStep ==
    ASSUME WakeConstants PROVE WakeInv /\ [Wake!Next]_(Wake!vars) => WakeInv'
<1> SUFFICES ASSUME WakeInv, [Wake!Next]_(Wake!vars) PROVE WakeInv'
  OBVIOUS
<1> USE WakeConstants DEF WakeConstants, WakeInv, AccountFlags, AccountNumbers,
        AccountPlaces, AccountHolds, Unscored, Wake!MirrorTrue, Wake!None,
        Wake!Phases, Wake!account, Wake!history, Wake!pinVars, Wake!InCooldown
<1>1. CASE Wake!ArmFaulty
  BY <1>1 DEF Wake!ArmFaulty
<1>2. CASE Wake!ArmCooling
  BY <1>2 DEF Wake!ArmCooling
<1>3. CASE Wake!Arm
  <2>1. AccountFlags'
    BY <1>3 DEF Wake!Arm, Wake!ClearLapsed, Wake!Lapsed
  <2>2. AccountNumbers'
    BY <1>3 DEF Wake!Arm, Wake!ClearLapsed, Wake!Lapsed
  <2>3. AccountPlaces'
    BY <1>3 DEF Wake!Arm, Wake!ClearLapsed, Wake!Lapsed
  <2>4. AccountHolds'
    BY <1>3 DEF Wake!Arm, Wake!ClearLapsed, Wake!Lapsed
  <2> QED
    BY <2>1, <2>2, <2>3, <2>4 DEF WakeInv
<1>4. CASE Wake!DozeEnds
  BY <1>4 DEF Wake!DozeEnds
<1>5. CASE Wake!ConfirmStuck
  BY <1>5 DEF Wake!ConfirmStuck, Wake!Confirming, Wake!AfterConfirm
<1>6. CASE Wake!ConfirmQuiet
  BY <1>6 DEF Wake!ConfirmQuiet, Wake!Confirming, Wake!AfterConfirm
<1>7. CASE Wake!ConfirmWakes
  <2>1. AccountFlags'
    BY <1>7 DEF Wake!ConfirmWakes, Wake!Confirming, Wake!OpenWindow
  <2>2. AccountNumbers'
    BY <1>7 DEF Wake!ConfirmWakes, Wake!Confirming, Wake!OpenWindow
  <2>3. AccountPlaces'
    BY <1>7 DEF Wake!ConfirmWakes, Wake!Confirming, Wake!OpenWindow
  <2>4. AccountHolds'
    BY <1>7 DEF Wake!ConfirmWakes, Wake!Confirming, Wake!OpenWindow
  <2> QED
    BY <2>1, <2>2, <2>3, <2>4 DEF WakeInv
<1>8. CASE Wake!SleepEntry
  <2>1. AccountFlags'
    BY <1>8 DEF Wake!SleepEntry
  <2>2. AccountNumbers'
    BY <1>8 DEF Wake!SleepEntry
  <2>3. AccountPlaces'
    BY <1>8 DEF Wake!SleepEntry
  <2>4. AccountHolds'
    BY <1>8 DEF Wake!SleepEntry
  <2> QED
    BY <2>1, <2>2, <2>3, <2>4 DEF WakeInv
<1>9. CASE Wake!VoltageWakes
  BY <1>9 DEF Wake!VoltageWakes
<1>10. CASE Wake!VoltageProves \/ Wake!EcuProves
  BY <1>10 DEF Wake!VoltageProves, Wake!EcuProves, Wake!Credit
<1>11. CASE Wake!FallbackReboot
  <2>1. AccountFlags'
    BY <1>11 DEF Wake!FallbackReboot, Wake!Boot, Wake!Believed, Wake!Implausible,
       Wake!OpenWindow, Wake!Confirming
  <2>2. AccountNumbers'
    BY <1>11 DEF Wake!FallbackReboot, Wake!Boot, Wake!Believed, Wake!Implausible,
       Wake!OpenWindow, Wake!Confirming
  <2>3. AccountPlaces'
    BY <1>11 DEF Wake!FallbackReboot, Wake!Boot, Wake!Believed, Wake!Implausible,
       Wake!OpenWindow, Wake!Confirming
  <2>4. AccountHolds'
    BY <1>11 DEF Wake!FallbackReboot, Wake!Boot, Wake!Believed, Wake!Implausible,
       Wake!OpenWindow, Wake!Confirming
  <2> QED
    BY <2>1, <2>2, <2>3, <2>4 DEF WakeInv
<1>12. CASE Wake!OtherReboot
  <2>1. AccountFlags'
    BY <1>12 DEF Wake!OtherReboot, Wake!Boot, Wake!Believed, Wake!Implausible, Wake!CarriedOver
  <2>2. AccountNumbers'
    BY <1>12 DEF Wake!OtherReboot, Wake!Boot, Wake!Believed, Wake!Implausible, Wake!CarriedOver
  <2>3. AccountPlaces'
    BY <1>12 DEF Wake!OtherReboot, Wake!Boot, Wake!Believed, Wake!Implausible, Wake!CarriedOver
  <2>4. AccountHolds'
    BY <1>12 DEF Wake!OtherReboot, Wake!Boot, Wake!Believed, Wake!Implausible, Wake!CarriedOver
  <2> QED
    BY <2>1, <2>2, <2>3, <2>4 DEF WakeInv
<1>13. CASE Wake!PowerCycle
  <2>1. AccountFlags'
    BY <1>13 DEF Wake!PowerCycle, Wake!Boot
  <2>2. AccountNumbers'
    BY <1>13 DEF Wake!PowerCycle, Wake!Boot
  <2>3. AccountPlaces'
    BY <1>13 DEF Wake!PowerCycle, Wake!Boot
  <2>4. AccountHolds'
    BY <1>13 DEF Wake!PowerCycle, Wake!Boot
  <2> QED
    BY <2>1, <2>2, <2>3, <2>4 DEF WakeInv
<1>14. CASE Wake!Tick
  BY <1>14 DEF Wake!Tick, Wake!Less
<1>15. CASE Wake!SntpStep
  <2>1. AccountFlags'
    BY <1>15 DEF Wake!SntpStep
  <2>2. AccountNumbers'
    BY <1>15 DEF Wake!SntpStep
  <2>3. AccountPlaces'
    BY <1>15 DEF Wake!SntpStep
  <2>4. AccountHolds'
    BY <1>15 DEF Wake!SntpStep
  <2> QED
    BY <2>1, <2>2, <2>3, <2>4 DEF WakeInv
<1>16. CASE Wake!BusChanges
  BY <1>16 DEF Wake!BusChanges
<1>17. CASE UNCHANGED Wake!vars
  BY <1>17 DEF Wake!vars
<1> QED
  BY <1>1, <1>2, <1>3, <1>4, <1>5, <1>6, <1>7, <1>8, <1>9, <1>10, <1>11, <1>12,
     <1>13, <1>14, <1>15, <1>16, <1>17 DEF Wake!Next, Wake!Loop

\* What the account leaves out: the bus, the fault and the wall-clock deadline.
WakeRest ==
    /\ rx \in {"quiet", "stuck", "traffic"} /\ fault \in BOOLEAN
    /\ strikes \in Nat /\ clean \in Nat /\ rtc.left >= -1

LEMMA WakeTyped ==
    ASSUME WakeConstants, WakeInv, WakeRest, [Wake!Next]_(Wake!vars)  PROVE WakeRest'
<1>1. /\ rx \in {"quiet", "stuck", "traffic"} /\ fault \in BOOLEAN /\ strikes \in Nat
      /\ clean \in Nat /\ rtc \in [streak : Nat, left : Int] /\ rtc.left >= -1
      /\ cool \in Int /\ Cooldown \in Nat
  BY DEF WakeRest, WakeInv, AccountNumbers, WakeConstants
<1>2. rx' \in {"quiet", "stuck", "traffic"}
  BY <1>1 DEF Wake!Next, Wake!Loop, Wake!ArmFaulty, Wake!ArmCooling, Wake!Arm, Wake!DozeEnds,
     Wake!ConfirmStuck, Wake!ConfirmQuiet, Wake!ConfirmWakes, Wake!SleepEntry, Wake!VoltageWakes,
     Wake!VoltageProves, Wake!EcuProves, Wake!Credit, Wake!FallbackReboot, Wake!OtherReboot,
     Wake!PowerCycle, Wake!Boot, Wake!Tick, Wake!SntpStep, Wake!BusChanges, Wake!vars
<1>3. fault' \in BOOLEAN /\ strikes' \in Nat /\ clean' \in Nat
  <2>1. CASE Wake!ArmFaulty
    <3>1. \/ fault' = fault /\ strikes' = strikes /\ (clean' = clean + 1 \/ clean' = 0)
          \/ fault' = FALSE /\ strikes' = 0 /\ clean' = 0
      BY <2>1 DEF Wake!ArmFaulty
    <3>2. fault' \in BOOLEAN
      BY <1>1, <3>1
    <3>3. strikes' \in Nat /\ clean' \in Nat
      BY <1>1, <3>1
    <3> QED
      BY <3>2, <3>3
  <2>2. CASE Wake!ConfirmStuck
    <3>1. /\ strikes' = strikes + 1 \/ strikes' = strikes
          /\ (fault' = TRUE /\ clean' = 0) \/ (fault' = fault /\ clean' = clean)
      BY <2>2 DEF Wake!ConfirmStuck
    <3>2. fault' \in BOOLEAN
      BY <1>1, <3>1
    <3>3. strikes' \in Nat /\ clean' \in Nat
      BY <1>1, <3>1
    <3> QED
      BY <3>2, <3>3
  <2>3. CASE Wake!ConfirmQuiet \/ Wake!ConfirmWakes
    BY <1>1, <2>3 DEF Wake!ConfirmQuiet, Wake!ConfirmWakes
  <2>4. CASE Wake!FallbackReboot \/ Wake!OtherReboot \/ Wake!PowerCycle
    <3>1. fault' = FALSE /\ strikes' = 0 /\ clean' = 0
      BY <2>4 DEF Wake!FallbackReboot, Wake!OtherReboot, Wake!PowerCycle, Wake!Boot
    <3> QED
      BY <3>1
  <2>5. CASE Wake!ArmCooling \/ Wake!Arm \/ Wake!DozeEnds \/ Wake!SleepEntry \/ Wake!VoltageWakes
             \/ Wake!VoltageProves \/ Wake!EcuProves \/ Wake!Tick \/ Wake!SntpStep
             \/ Wake!BusChanges \/ UNCHANGED Wake!vars
    BY <1>1, <2>5 DEF Wake!ArmCooling, Wake!Arm, Wake!DozeEnds, Wake!SleepEntry, Wake!VoltageWakes,
       Wake!VoltageProves, Wake!EcuProves, Wake!Credit, Wake!Tick, Wake!SntpStep,
       Wake!BusChanges, Wake!vars, Wake!pinVars
  <2> QED
    BY <2>1, <2>2, <2>3, <2>4, <2>5 DEF Wake!Next, Wake!Loop
<1>4. rtc'.left >= -1
  <2> USE DEF Wake!None, Wake!account
  <2>1. \A n : [rtc EXCEPT !.left = n].left = n
    BY <1>1
  <2>2. \A n : [rtc EXCEPT !.streak = n].left = rtc.left
    BY <1>1
  <2>3. rtc' = rtc => rtc'.left >= -1
    BY <1>1
  <2>4. CASE Wake!ArmFaulty \/ Wake!ArmCooling \/ Wake!DozeEnds \/ Wake!ConfirmStuck
             \/ Wake!ConfirmQuiet \/ Wake!ConfirmWakes \/ Wake!VoltageWakes
             \/ Wake!BusChanges \/ UNCHANGED Wake!vars
    BY <2>3, <2>4 DEF Wake!ArmFaulty, Wake!ArmCooling, Wake!DozeEnds, Wake!ConfirmStuck,
       Wake!ConfirmQuiet, Wake!ConfirmWakes, Wake!VoltageWakes,
       Wake!BusChanges, Wake!vars
  <2>5. CASE Wake!Arm
    <3>1. rtc' = rtc \/ rtc' = [rtc EXCEPT !.left = -1]
      BY <2>5 DEF Wake!Arm, Wake!ClearLapsed
    <3>2. [rtc EXCEPT !.left = -1].left = -1 /\ -1 >= -1
      BY <2>1
    <3> QED
      BY <2>3, <3>1, <3>2
  <2>6. CASE Wake!SleepEntry
    <3>1. \/ rtc' = rtc \/ rtc' = [streak |-> 0, left |-> -1]
          \/ rtc' = [streak |-> wake_streak', left |-> Cooldown]
          \/ rtc' = [rtc EXCEPT !.streak = wake_streak']
      BY <2>6 DEF Wake!SleepEntry
    <3> QED
      BY <1>1, <2>2, <3>1
  <2>7. CASE Wake!VoltageProves \/ Wake!EcuProves
    BY <1>1, <2>7 DEF Wake!VoltageProves, Wake!EcuProves, Wake!Credit
  <2>8. CASE Wake!OtherReboot
    <3>1. \/ rtc' = rtc \/ rtc' = [rtc EXCEPT !.left = -1]
          \/ rtc' = [rtc EXCEPT !.left = Cooldown] \/ rtc' = [streak |-> 0, left |-> -1]
      BY <2>8 DEF Wake!OtherReboot, Wake!Believed, Wake!CarriedOver
    <3> QED
      BY <1>1, <2>1, <3>1
  <2>9. CASE Wake!PowerCycle \/ Wake!FallbackReboot
    <3>1. rtc' = rtc \/ rtc' = [streak |-> 0, left |-> -1]
      BY <2>9 DEF Wake!PowerCycle, Wake!FallbackReboot, Wake!Believed
    <3> QED
      BY <1>1, <3>1
  <2>10. CASE Wake!Tick
    <3>1. Wake!Less(rtc.left) >= -1
      BY <1>1 DEF Wake!Less
    <3> QED
      BY <2>1, <2>10, <3>1 DEF Wake!Tick
  <2>11. CASE Wake!SntpStep
    <3>1. PICK n \in {0, 2 * Cooldown, 2 * Cooldown + 1} : rtc' = [rtc EXCEPT !.left = n]
      BY <2>11 DEF Wake!SntpStep
    <3>2. n >= -1
      BY <1>1, <3>1
    <3> QED
      BY <2>1, <3>1, <3>2
  <2> QED
    BY <2>4, <2>5, <2>6, <2>7, <2>8, <2>9, <2>10, <2>11 DEF Wake!Next, Wake!Loop
<1> QED
  BY <1>2, <1>3, <1>4 DEF WakeRest

(* Fruitless traffic wakes a parked device no more than its limit and then   *)
(* once per cooldown served, but for the wakes a reboot made it forget; and  *)
(* a reboot goes on with the account RTC memory holds (can_wake.c).          *)
WakeIsTrue == Wake!TypeOK /\ Wake!WakeBudget /\ Wake!MirrorTrue

\* Over every mixture of resumes, failed resumes, reboots and corrections of
\* the wall clock.
THEOREM WakeStaysTrue == ASSUME WakeConstants PROVE Wake!Spec => []WakeIsTrue
<1>1. Wake!Init => WakeInv /\ WakeRest
  <2>1. Wake!Init => WakeRest
    <3> SUFFICES ASSUME Wake!Init PROVE WakeRest
      OBVIOUS
    <3>1. rtc.left = -1
      BY DEF Wake!Init, Wake!None
    <3>2. -1 >= -1
      OBVIOUS
    <3> QED
      BY <3>1, <3>2 DEF Wake!Init, WakeRest
  <2> QED
    BY <2>1, WakeInit
<1>2. WakeInv /\ WakeRest /\ [Wake!Next]_(Wake!vars) => (WakeInv /\ WakeRest)'
  BY WakeStep, WakeTyped
<1>3. WakeInv /\ WakeRest => WakeIsTrue
  <2> SUFFICES ASSUME WakeInv, WakeRest PROVE WakeIsTrue
    OBVIOUS
  <2>1. rtc \in [streak : Nat, left : Nat \cup {-1}] /\ cool \in Nat \cup {-1}
    BY DEF WakeInv, WakeRest, AccountNumbers
  <2>2. Wake!TypeOK
    BY <2>1 DEF WakeInv, WakeRest, AccountNumbers, AccountFlags, AccountPlaces, Wake!TypeOK,
       Wake!None
  <2> QED
    BY <2>2 DEF WakeIsTrue, WakeInv, AccountHolds, Wake!WakeBudget
<1> QED
  BY <1>1, <1>2, <1>3, PTL DEF Wake!Spec

-----------------------------------------------------------------------------
(* The interpreter chip's own firmware, which a boot repairs.                *)
CONSTANTS Lines, Attempts, MaxDrops, MaxBoots

VARIABLES chip, pipe, step, sent, line, attempt, ret, status, obd_forced, lock, led,
          drops, boots, obd_clean

Obd == INSTANCE ObdUpdate WITH
    MaxFaults <- MaxDrops, forced <- obd_forced, faults <- drops, clean <- obd_clean

\* There is a line to send.
ObdConstants == Lines \in Nat \ {0}

\* The steps that send a command.
Asking == {"check", "enter", "line", "end"}

Chips == [fw : {"old", "new", "none"}, loader : BOOLEAN, got : SUBSET (1 .. Lines)]

\* The UART and the LED are held in some steps only.
ObdHeld ==
    /\ step \in Obd!Steps /\ chip \in Chips /\ line \in Nat
    /\ step = "line" => line \in 1 .. Lines
    /\ lock \in BOOLEAN /\ led \in BOOLEAN
    /\ led => step \in {"line", "end", "reset"}
    /\ lock => step \notin {"off", "done"}
    /\ sent \in BOOLEAN /\ (sent => step \in Asking)

\* While nothing has gone wrong since a boot, every answer read is the chip's
\* answer to the command just sent.
ObdClean ==
    /\ obd_forced \in BOOLEAN /\ obd_clean \in BOOLEAN
    /\ obd_clean /\ ~obd_forced =>
          /\ step = "check" => (chip.loader <=> chip.fw = "none")
          /\ step \in Asking /\ ~sent => pipe = <<>>
          /\ step = "check" /\ sent => pipe = <<IF chip.loader THEN "?" ELSE chip.fw>>
          /\ step = "enter" /\ sent => pipe = <<"ok">> /\ chip.loader /\ chip.fw = "none"
          /\ step = "line" => chip.loader /\ chip.fw = "none" /\ (sent => pipe = <<"ok">>)
          /\ step = "end" /\ ~sent => chip.loader
          /\ step = "end" /\ sent => pipe = <<"ok">> /\ chip.fw = "new" /\ ~chip.loader
          /\ step \in {"reset", "done"} => chip.fw = "new"
          /\ step = "done" => ~chip.loader

\* With one fault at most, a command is obeyed, or nothing is there to be read.
ObdWhole ==
    /\ drops \in Nat
    /\ drops = 0 /\ step \in Asking =>
          IF sent THEN \E x : pipe = <<x>> ELSE pipe = <<>>
    /\ drops <= 1 =>
          /\ chip.fw = "new" => chip.got \in {{}, 1 .. Lines}
          /\ step = "enter" /\ sent =>
                 pipe = <<>> \/ (chip.loader /\ chip.fw = "none" /\ chip.got = {})
          /\ step = "line" /\ ~sent => chip.loader /\ chip.fw = "none" /\ chip.got = 1 .. line - 1
          /\ step = "line" /\ sent =>
                 pipe = <<>> \/ (chip.loader /\ chip.fw = "none" /\ chip.got = 1 .. line)
          /\ step = "end" => \/ chip.loader /\ chip.fw = "none" /\ chip.got = 1 .. Lines
                             \/ ~chip.loader /\ chip.fw = "new"

\* What the chip makes of a command.
LEMMA Obeys ==
    ASSUME step \in Asking, ObdHeld
    PROVE  /\ step = "check" => /\ Obd!Obeyed.is = chip
                                /\ Obd!Obeyed.says = IF chip.loader THEN "?" ELSE chip.fw
           /\ step = "enter" => /\ Obd!Obeyed.is = [fw |-> "none", loader |-> TRUE, got |-> {}]
                                /\ Obd!Obeyed.says = "ok"
           /\ step = "line" /\ chip.loader =>
                  /\ Obd!Obeyed.is = [chip EXCEPT !.got = chip.got \cup {line}]
                  /\ Obd!Obeyed.says = "ok"
           /\ step = "end" /\ chip.loader =>
                  /\ Obd!Obeyed.is = [chip EXCEPT !.fw = "new", !.loader = FALSE]
                  /\ Obd!Obeyed.says = "ok"
           /\ step \in {"line", "end"} /\ ~chip.loader => Obd!Obeyed.is = chip
           /\ Obd!Obeyed.is \in Chips
<1>0. chip \in Chips /\ (step = "line" => line \in 1 .. Lines)
  BY DEF ObdHeld
<1>1. CASE step = "check"
  BY <1>0, <1>1 DEF Chips, Obd!Obeyed, Obd!Command
<1>2. CASE step = "enter"
  BY <1>2 DEF Chips, Obd!Obeyed, Obd!Command
<1>3. CASE step = "line" /\ chip.loader
  BY <1>0, <1>3 DEF Chips, Obd!Obeyed, Obd!Command
<1>4. CASE step = "end" /\ chip.loader
  BY <1>0, <1>4 DEF Chips, Obd!Obeyed, Obd!Command
<1>5. CASE step \in {"line", "end"} /\ ~chip.loader
  BY <1>0, <1>5 DEF Chips, Obd!Obeyed, Obd!Command
<1> QED
  BY <1>0, <1>1, <1>2, <1>3, <1>4, <1>5 DEF Asking, Chips

LEMMA HeldStep ==
    ASSUME ObdConstants PROVE ObdHeld /\ [Obd!Next]_(Obd!vars) => ObdHeld'
<1> SUFFICES ASSUME ObdHeld, [Obd!Next]_(Obd!vars) PROVE ObdHeld'
  OBVIOUS
<1>1. CASE Obd!Send
  <2>1. chip' \in Chips
    <3>1. step \in Asking /\ chip' \in {chip, Obd!Obeyed.is}
      BY <1>1 DEF Obd!Send, Asking
    <3> QED
      BY <3>1, Obeys DEF ObdHeld
  <2> QED
    BY <1>1, <2>1 DEF ObdHeld, Asking, Obd!Send
<1>2. ASSUME NEW r, NEW a, Obd!Proceeds(r, a), step \in Asking
      PROVE  ObdHeld'
  <2>1. chip' = chip /\ sent' = FALSE
    BY <1>2 DEF Obd!Proceeds
  <2>2. /\ step = "check" => Obd!AfterCheck(r, a)
        /\ step = "enter" => Obd!AfterEnter(r)
        /\ step = "line" => Obd!AfterLine(r)
        /\ step = "end" => Obd!AfterEnd(r)
    BY <1>2 DEF Obd!Proceeds
  <2>3. line' \in Nat /\ (step' = "line" => line' \in 1 .. Lines)
    <3>1. line \in Nat /\ Lines \in Nat \ {0}
      BY DEF ObdHeld, ObdConstants
    <3>2. CASE step = "check"
      BY <2>2, <3>1, <3>2 DEF Obd!AfterCheck
    <3>3. CASE step = "enter"
      <4>1. \/ step' = "line" /\ line' = 1
            \/ step' = "done" /\ line' = line
        BY <2>2, <3>3 DEF Obd!AfterEnter
      <4> QED
        BY <3>1, <4>1
    <3>4. CASE step = "line"
      <4>1. line' = line + 1 /\ (step' = "line" => line # Lines)
        BY <2>2, <3>4 DEF Obd!AfterLine
      <4>2. line \in 1 .. Lines
        BY <3>4 DEF ObdHeld
      <4> QED
        BY <3>1, <4>1, <4>2
    <3>5. CASE step = "end"
      BY <2>2, <3>1, <3>5 DEF Obd!AfterEnd
    <3> QED
      BY <1>2, <3>2, <3>3, <3>4, <3>5 DEF Asking
  <2>4. /\ step' \in {"enter", "line", "end", "reset", "done"}
        /\ lock' \in BOOLEAN /\ led' \in BOOLEAN
        /\ led' => step' \in {"line", "end", "reset"}
        /\ lock' => step' # "done"
    <3>1. lock \in BOOLEAN /\ led \in BOOLEAN /\ (led => step \in {"line", "end", "reset"})
      BY DEF ObdHeld
    <3>2. CASE step = "check"
      <4>1. /\ (step' = "done" /\ lock' = FALSE) \/ (step' = "enter" /\ lock' = lock)
            /\ led' = led
        BY <2>2, <3>2 DEF Obd!AfterCheck
      <4>2. led = FALSE
        BY <3>1, <3>2
      <4> QED
        BY <3>1, <4>1, <4>2
    <3>3. CASE step = "enter"
      BY <2>2, <3>1, <3>3 DEF Obd!AfterEnter
    <3>4. CASE step = "line"
      BY <2>2, <3>1, <3>4 DEF Obd!AfterLine
    <3>5. CASE step = "end"
      BY <2>2, <3>1, <3>5 DEF Obd!AfterEnd
    <3> QED
      BY <1>2, <3>2, <3>3, <3>4, <3>5 DEF Asking
  <2> QED
    BY <2>1, <2>3, <2>4 DEF ObdHeld, Obd!Steps
<1>3. CASE Obd!Reset
  BY <1>3 DEF ObdConstants, ObdHeld, Chips, Asking, Obd!Steps, Obd!Reset
<1>4. CASE Obd!Boot
  BY <1>4 DEF ObdConstants, ObdHeld, Chips, Asking, Obd!Steps, Obd!Boot, Obd!Begins
<1>5. CASE Obd!Force
  <2>1. line' = line /\ led' = led /\ step = "done"
    BY <1>5 DEF Obd!Force
  <2>2. CASE Obd!Begins(TRUE) /\ chip' = chip
    BY <2>1, <2>2 DEF ObdHeld, Asking, Obd!Steps, Obd!Begins
  <2>3. CASE /\ UNCHANGED <<sent, step, lock>>
             /\ chip' = [chip EXCEPT !.loader = (chip.fw = "none")]
    BY <2>1, <2>3 DEF ObdHeld, Chips
  <2> QED
    BY <1>5, <2>2, <2>3 DEF Obd!Force
<1>6. CASE Obd!PowerCut
  BY <1>6 DEF ObdConstants, ObdHeld, Chips, Asking, Obd!Steps, Obd!PowerCut
<1>7. CASE UNCHANGED Obd!vars
  BY <1>7 DEF ObdHeld, Asking, Obd!vars, Obd!unit
<1>8. Obd!Read \/ Obd!Timeout => step \in Asking
  BY DEF ObdHeld, Obd!Read, Obd!Timeout, Obd!Proceeds
<1> QED
  BY <1>1, <1>2, <1>3, <1>4, <1>5, <1>6, <1>7, <1>8 DEF Obd!Next, Obd!Read, Obd!Timeout

LEMMA AppendOne == \A s, x : s = <<>> => Append(s, x) = <<x>> /\ Head(<<x>>) = x /\ Tail(<<x>>) = <<>>
  OBVIOUS

LEMMA CleanStep ==
    ASSUME ObdConstants
    PROVE  ObdHeld /\ ObdClean /\ [Obd!Next]_(Obd!vars) => ObdClean'
<1> SUFFICES ASSUME ObdHeld, ObdClean, [Obd!Next]_(Obd!vars) PROVE ObdClean'
  OBVIOUS
<1>1. CASE Obd!Send
  <2>1. /\ step \in Asking /\ ~sent /\ sent' = TRUE /\ UNCHANGED <<step, obd_forced>>
        /\ \/ obd_clean' = FALSE
           \/ /\ obd_clean' = obd_clean /\ chip' = Obd!Obeyed.is
              /\ \E left \in {<<>>, pipe} : pipe' = Append(left, Obd!Obeyed.says)
    BY <1>1 DEF Obd!Send, Obd!Fault, Obd!NoFault, Asking
  <2>2. CASE ~(obd_clean' /\ ~obd_forced')
    BY <2>1, <2>2 DEF ObdClean
  <2>3. CASE obd_clean' /\ ~obd_forced'
    <3>1. obd_clean /\ ~obd_forced /\ obd_clean' = obd_clean /\ pipe = <<>> /\ chip' = Obd!Obeyed.is
          /\ pipe' = <<Obd!Obeyed.says>>
      BY <2>1, <2>3, AppendOne DEF ObdClean
    <3>2. CASE step = "check"
      BY <2>1, <3>1, <3>2, Obeys DEF ObdHeld, ObdClean
    <3>3. CASE step = "enter"
      BY <2>1, <3>1, <3>3, Obeys DEF ObdClean
    <3>4. CASE step = "line"
      BY <2>1, <3>1, <3>4, Obeys DEF ObdHeld, Chips, ObdClean
    <3>5. CASE step = "end"
      BY <2>1, <3>1, <3>5, Obeys DEF ObdHeld, Chips, ObdClean
    <3> QED
      BY <2>1, <3>2, <3>3, <3>4, <3>5 DEF Asking
  <2> QED
    BY <2>2, <2>3
<1>2. CASE Obd!Read
  <2>1. /\ step \in Asking /\ sent /\ sent' = FALSE /\ UNCHANGED <<chip, obd_forced, obd_clean>>
        /\ pipe' = Tail(pipe) /\ Obd!Proceeds(Obd!Classified(Head(pipe)), Head(pipe))
    BY <1>2 DEF ObdHeld, Obd!Read, Obd!Proceeds, Obd!NoFault
  <2>2. CASE ~(obd_clean' /\ ~obd_forced')
    BY <2>1, <2>2 DEF ObdClean
  <2>3. CASE obd_clean' /\ ~obd_forced'
    <3>1. obd_clean /\ ~obd_forced /\ obd_clean \in BOOLEAN /\ obd_forced \in BOOLEAN
      BY <2>1, <2>3 DEF ObdClean
    <3>2. CASE step = "check"
      <4> DEFINE a == IF chip.loader THEN "?" ELSE chip.fw
      <4>1. pipe = <<a>> /\ (chip.loader <=> chip.fw = "none") /\ chip \in Chips
        BY <2>1, <3>1, <3>2 DEF ObdClean, ObdHeld
      <4>2. pipe' = <<>> /\ Head(pipe) = a
        BY <2>1, <4>1, AppendOne
      <4>3. Obd!AfterCheck(Obd!Classified(a), a)
        BY <2>1, <3>2, <4>2 DEF Obd!Proceeds
      <4>4. \/ step' = "enter"
            \/ step' = "done" /\ a = "new" /\ ~chip.loader /\ chip.fw = "new"
        BY <4>1, <4>3 DEF Obd!AfterCheck, Obd!LeavesAlone, Obd!Checked, Obd!Classified, Chips
      <4> QED
        BY <2>1, <3>1, <4>2, <4>4 DEF ObdClean, Asking
    <3>3. CASE step # "check"
      <4>1. pipe = <<"ok">> /\ step \in {"enter", "line", "end"}
            /\ (step \in {"enter", "line"} => chip.loader /\ chip.fw = "none")
            /\ (step = "end" => chip.fw = "new" /\ ~chip.loader)
        BY <2>1, <3>1, <3>3 DEF ObdClean, Asking
      <4>2. pipe' = <<>> /\ Head(pipe) = "ok" /\ Obd!Classified("ok") = "ok"
        BY <2>1, <4>1, AppendOne DEF Obd!Classified
      <4>3. /\ step = "enter" => step' = "line"
            /\ step = "line" => step' \in {"line", "end"}
            /\ step = "end" => step' = "reset"
        BY <2>1, <4>1, <4>2 DEF Obd!Proceeds, Obd!AfterEnter, Obd!AfterLine, Obd!AfterEnd
      <4> QED
        BY <2>1, <3>1, <4>1, <4>2, <4>3 DEF ObdClean, Asking
    <3> QED
      BY <3>2, <3>3
  <2> QED
    BY <2>2, <2>3
<1>3. CASE Obd!Timeout
  <2>1. step \in Asking /\ sent /\ UNCHANGED <<obd_forced, pipe>>
    BY <1>3 DEF ObdHeld, Obd!Timeout, Obd!Proceeds
  <2>2. CASE obd_clean /\ ~obd_forced
    <3>1. pipe # <<>>
      <4>1. \A x : <<x>> # <<>>
        OBVIOUS
      <4> QED
        BY <2>1, <2>2, <4>1 DEF ObdClean, Asking
    <3>2. obd_clean' = FALSE
      BY <1>3, <3>1 DEF Obd!Timeout, Obd!Fault
    <3> QED
      BY <2>1, <3>2 DEF ObdClean
  <2>3. CASE ~(obd_clean /\ ~obd_forced)
    <3>1. obd_clean' = obd_clean \/ obd_clean' = FALSE
      BY <1>3 DEF Obd!Timeout, Obd!Fault, Obd!NoFault
    <3>2. obd_clean \in BOOLEAN /\ obd_forced \in BOOLEAN
      BY DEF ObdClean
    <3>3. obd_clean' \in BOOLEAN /\ obd_forced' \in BOOLEAN /\ ~(obd_clean' /\ ~obd_forced')
      <4>1. CASE obd_clean' = FALSE
        BY <2>1, <3>2, <4>1
      <4>2. CASE obd_clean' = obd_clean
        BY <2>1, <2>3, <3>2, <4>2
      <4> QED
        BY <3>1, <4>1, <4>2
    <3> QED
      BY <3>3 DEF ObdClean
  <2> QED
    BY <2>2, <2>3
<1>4. CASE Obd!Reset
  BY <1>4 DEF ObdHeld, Chips, ObdClean, Asking, Obd!Reset
<1>5. CASE Obd!Boot
  BY <1>5 DEF ObdHeld, Chips, ObdClean, Asking, Obd!Boot, Obd!Begins
<1>6. CASE Obd!Force
  <2>1. CASE Obd!Begins(TRUE)
    BY <1>6, <2>1 DEF ObdClean, Obd!Begins
  <2>2. CASE UNCHANGED <<pipe, sent, step, obd_forced, obd_clean>>
             /\ chip' = [chip EXCEPT !.loader = (chip.fw = "none")]
    BY <1>6, <2>2 DEF ObdHeld, Chips, ObdClean, Asking, Obd!Force
  <2> QED
    BY <1>6, <2>1, <2>2 DEF Obd!Force
<1>7. CASE Obd!PowerCut
  BY <1>7 DEF ObdHeld, Chips, ObdClean, Asking, Obd!PowerCut
<1>8. CASE UNCHANGED Obd!vars
  BY <1>8 DEF ObdClean, Obd!vars, Obd!unit
<1> QED
  BY <1>1, <1>2, <1>3, <1>4, <1>5, <1>6, <1>7, <1>8 DEF Obd!Next

LEMMA WholeStep ==
    ASSUME ObdConstants
    PROVE  ObdHeld /\ ObdHeld' /\ ObdWhole /\ [Obd!Next]_(Obd!vars) => ObdWhole'
<1> SUFFICES ASSUME ObdHeld, ObdHeld', ObdWhole, [Obd!Next]_(Obd!vars) PROVE ObdWhole'
  OBVIOUS
<1>0. /\ drops \in Nat /\ chip \in Chips /\ line \in Nat /\ (step = "line" => line \in 1 .. Lines)
      /\ Lines \in Nat \ {0}
  BY DEF ObdWhole, ObdHeld, ObdConstants
<1>1. drops' \in Nat /\ drops' >= drops
  <2>1. drops' = drops \/ drops' = drops + 1
    BY DEF Obd!Next, Obd!vars, Obd!bounds, Obd!Send, Obd!Read, Obd!Timeout, Obd!Fault,
           Obd!NoFault, Obd!Reset, Obd!Boot, Obd!Force, Obd!PowerCut
  <2> QED
    BY <1>0, <2>1
<1>2. ASSUME drops' > 1 PROVE ObdWhole'
  BY <1>1, <1>2 DEF ObdWhole
<1> SUFFICES ASSUME drops' <= 1 PROVE ObdWhole'
  BY <1>1, <1>2
<1>3. /\ drops <= 1 /\ (drops' = 0 => drops = 0)
      /\ chip.fw = "new" => chip.got \in {{}, 1 .. Lines}
  BY <1>0, <1>1 DEF ObdWhole
<1>4. CASE Obd!Send
  <2>1. /\ step \in Asking /\ sent = FALSE /\ sent' = TRUE /\ UNCHANGED <<step, line>>
        /\ \E left \in {<<>>, pipe} :
              \/ drops' = drops /\ chip' = Obd!Obeyed.is /\ pipe' = Append(left, Obd!Obeyed.says)
              \/ drops' = drops + 1 /\ chip' = chip /\ pipe' = left
    BY <1>4 DEF Obd!Send, Obd!Fault, Obd!NoFault, Asking, ObdHeld
  <2>2. CASE drops' = drops + 1 /\ chip' = chip /\ pipe' \in {<<>>, pipe}
    <3>1. drops = 0 /\ drops' = 1
      BY <1>0, <2>2
    <3>2. pipe = <<>> /\ pipe' = <<>>
      BY <2>1, <2>2, <3>1 DEF ObdWhole
    <3> QED
      BY <1>3, <2>1, <2>2, <3>1, <3>2 DEF ObdWhole
  <2>3. CASE /\ drops' = drops /\ chip' = Obd!Obeyed.is
             /\ \E left \in {<<>>, pipe} : pipe' = Append(left, Obd!Obeyed.says)
    <3>1. drops' = 0 => \E x : pipe' = <<x>>
      <4>1. ASSUME drops' = 0 PROVE pipe' = <<Obd!Obeyed.says>>
        BY <2>1, <2>3, <4>1, AppendOne DEF ObdWhole
      <4> QED
        BY <4>1
    <3>2. CASE step = "check"
      BY <1>1, <1>3, <2>1, <2>3, <3>1, <3>2, Obeys DEF ObdWhole
    <3>3. CASE step = "enter"
      BY <1>1, <1>3, <2>1, <2>3, <3>1, <3>3, Obeys DEF ObdWhole
    <3>4. CASE step = "line"
      <4>1. chip.loader /\ chip.fw = "none" /\ chip.got = 1 .. line - 1
        BY <1>3, <2>1, <3>4 DEF ObdWhole
      <4>2. chip' = [chip EXCEPT !.got = chip.got \cup {line}]
        BY <2>1, <2>3, <3>4, <4>1, Obeys
      <4>3. (1 .. line - 1) \cup {line} = 1 .. line
        BY <1>0, <3>4
      <4>4. chip'.loader /\ chip'.fw = "none" /\ chip'.got = 1 .. line
        BY <1>0, <4>1, <4>2, <4>3 DEF Chips
      <4> QED
        BY <1>1, <2>1, <3>1, <3>4, <4>4 DEF ObdWhole
    <3>5. CASE step = "end"
      <4>1. \/ chip.loader /\ chip.fw = "none" /\ chip.got = 1 .. Lines
            \/ ~chip.loader /\ chip.fw = "new"
        BY <1>3, <3>5 DEF ObdWhole
      <4>2. CASE chip.loader /\ chip.fw = "none" /\ chip.got = 1 .. Lines
        <5>1. chip' = [chip EXCEPT !.fw = "new", !.loader = FALSE]
          BY <2>1, <2>3, <3>5, <4>2, Obeys
        <5>2. ~chip'.loader /\ chip'.fw = "new" /\ chip'.got = 1 .. Lines
          BY <1>0, <4>2, <5>1 DEF Chips
        <5> QED
          BY <1>1, <2>1, <3>1, <3>5, <5>2 DEF ObdWhole
      <4>3. CASE ~chip.loader /\ chip.fw = "new"
        <5>1. chip' = chip
          BY <2>1, <2>3, <3>5, <4>3, Obeys
        <5> QED
          BY <1>1, <1>3, <2>1, <3>1, <3>5, <4>3, <5>1 DEF ObdWhole
      <4> QED
        BY <4>1, <4>2, <4>3
    <3> QED
      BY <2>1, <3>2, <3>3, <3>4, <3>5 DEF Asking
  <2> QED
    BY <2>1, <2>2, <2>3
\* A read and a deadline: where the answer leads, and that there was none to
\* read if the command was dropped.
<1>5. ASSUME NEW r, NEW a, Obd!Proceeds(r, a), sent,
             r = "ok" => pipe # <<>>, drops' = 0 => pipe' = <<>>
      PROVE  ObdWhole'
  <2>1. chip' = chip /\ sent' = FALSE /\ step \in Asking
    BY <1>5 DEF Obd!Proceeds, ObdHeld
  <2>2. /\ step = "check" => Obd!AfterCheck(r, a)
        /\ step = "enter" => Obd!AfterEnter(r)
        /\ step = "line" => Obd!AfterLine(r)
        /\ step = "end" => Obd!AfterEnd(r)
    BY <1>5 DEF Obd!Proceeds
  <2>3. CASE step = "check"
    <3>1. step' \in {"done", "enter"}
      BY <2>2, <2>3 DEF Obd!AfterCheck
    <3> QED
      BY <1>1, <1>3, <1>5, <2>1, <3>1 DEF ObdWhole
  <2>4. CASE step = "enter"
    <3>1. \/ step' = "done"
          \/ step' = "line" /\ line' = 1 /\ pipe # <<>>
      BY <1>5, <2>2, <2>4 DEF Obd!AfterEnter
    <3>2. pipe # <<>> => chip.loader /\ chip.fw = "none" /\ chip.got = {}
      BY <1>3, <1>5, <2>4 DEF ObdWhole
    <3>3. 1 .. 1 - 1 = {}
      OBVIOUS
    <3> QED
      BY <1>1, <1>3, <1>5, <2>1, <3>1, <3>2, <3>3 DEF ObdWhole
  <2>5. CASE step = "line"
    <3>1. \/ step' = "reset"
          \/ step' = "line" /\ line' = line + 1 /\ pipe # <<>>
          \/ step' = "end" /\ line = Lines /\ pipe # <<>>
      BY <1>5, <2>2, <2>5 DEF Obd!AfterLine
    <3>2. pipe # <<>> => chip.loader /\ chip.fw = "none" /\ chip.got = 1 .. line
      BY <1>3, <1>5, <2>5 DEF ObdWhole
    <3>3. ASSUME step' = "line"
          PROVE  chip'.loader /\ chip'.fw = "none" /\ chip'.got = 1 .. line' - 1
      <4>1. line' = line + 1 /\ pipe # <<>>
        BY <3>1, <3>3
      <4>2. line' - 1 = line
        BY <1>0, <4>1
      <4> QED
        BY <2>1, <3>2, <4>1, <4>2
    <3>4. ASSUME step' = "end"
          PROVE  chip'.loader /\ chip'.fw = "none" /\ chip'.got = 1 .. Lines
      BY <2>1, <3>1, <3>2, <3>4
    <3>5. step' \in {"reset", "line", "end"}
      BY <3>1
    <3> QED
      BY <1>1, <1>3, <1>5, <2>1, <3>3, <3>4, <3>5 DEF ObdWhole
  <2>6. CASE step = "end"
    <3>1. step' \in {"reset", "end"}
      BY <2>2, <2>6 DEF Obd!AfterEnd
    <3>2. \/ chip.loader /\ chip.fw = "none" /\ chip.got = 1 .. Lines
          \/ ~chip.loader /\ chip.fw = "new"
      BY <1>3, <2>6 DEF ObdWhole
    <3> QED
      BY <1>1, <1>3, <1>5, <2>1, <3>1, <3>2 DEF ObdWhole
  <2> QED
    BY <2>1, <2>3, <2>4, <2>5, <2>6 DEF Asking
<1>6. CASE Obd!Read
  <2>1. /\ pipe # <<>> /\ pipe' = Tail(pipe) /\ sent /\ drops' = drops
        /\ Obd!Proceeds(Obd!Classified(Head(pipe)), Head(pipe)) /\ step \in Asking
    BY <1>6 DEF Obd!Read, Obd!NoFault, Obd!Proceeds, ObdHeld
  <2>2. drops' = 0 => pipe' = <<>>
    <3> SUFFICES ASSUME drops' = 0 PROVE pipe' = <<>>
      OBVIOUS
    <3>1. PICK x : pipe = <<x>>
      BY <2>1 DEF ObdWhole
    <3> QED
      BY <2>1, <3>1, AppendOne
  <2> QED
    BY <1>5, <2>1, <2>2
<1>7. CASE Obd!Timeout
  <2>1. pipe' = pipe /\ Obd!Proceeds("timeout", "?") /\ sent /\ step \in Asking
    BY <1>7 DEF Obd!Timeout, Obd!Proceeds, ObdHeld
  <2>2. drops' = 0 => pipe' = <<>>
    <3>1. pipe # <<>> => drops' = drops + 1
      BY <1>7 DEF Obd!Timeout, Obd!Fault
    <3> QED
      BY <1>0, <2>1, <3>1
  <2> QED
    BY <1>5, <2>1, <2>2
<1>8. CASE UNCHANGED drops /\ chip' = [chip EXCEPT !.loader = (chip.fw = "none")]
           /\ ((step' = "check" /\ sent' = FALSE /\ pipe' = <<>>) \/ step' = "done")
  <2>1. chip'.fw = chip.fw /\ chip'.got = chip.got
    BY <1>0, <1>8 DEF Chips
  <2> QED
    BY <1>1, <1>3, <1>8, <2>1 DEF ObdWhole, Asking
<1>9. CASE /\ UNCHANGED <<drops, chip>>
           /\ (step' = "check" /\ sent' = FALSE /\ pipe' = <<>>) \/ step' = "off"
  BY <1>1, <1>3, <1>9 DEF ObdWhole, Asking
<1>10. CASE Obd!Reset
  BY <1>8, <1>10 DEF Obd!Reset, Obd!bounds
<1>11. CASE Obd!Boot
  BY <1>8, <1>11 DEF Obd!Boot, Obd!Begins
<1>12. CASE Obd!Force
  BY <1>8, <1>9, <1>12 DEF Obd!Force, Obd!Begins, Obd!bounds
<1>13. CASE Obd!PowerCut
  BY <1>9, <1>13 DEF Obd!PowerCut, Obd!bounds
<1>14. CASE UNCHANGED Obd!vars
  BY <1>14 DEF ObdWhole, Obd!vars, Obd!unit, Obd!bounds
<1> QED
  BY <1>4, <1>6, <1>7, <1>10, <1>11, <1>12, <1>13, <1>14 DEF Obd!Next

LEMMA ObdInit ==
    ASSUME ObdConstants PROVE Obd!Init => ObdHeld /\ ObdClean /\ ObdWhole
<1> SUFFICES ASSUME Obd!Init PROVE ObdHeld /\ ObdClean /\ ObdWhole
  OBVIOUS
<1>1. /\ chip \in Chips /\ chip.got = {} /\ step = "off" /\ sent = FALSE /\ line = 1
      /\ obd_forced = FALSE /\ lock = FALSE /\ led = FALSE /\ drops = 0 /\ obd_clean = TRUE
  <2>1. chip = Obd!Running("old") \/ chip = Obd!Running("new")
    BY DEF Obd!Init
  <2>2. \A fw \in {"old", "new"} : Obd!Running(fw) \in Chips /\ Obd!Running(fw).got = {}
    BY DEF Obd!Running, Chips
  <2>3. chip \in Chips /\ chip.got = {}
    BY <2>1, <2>2
  <2> QED
    BY <2>3 DEF Obd!Init
<1>2. ObdHeld
  BY <1>1 DEF ObdHeld, Obd!Steps, Asking
<1>3. ObdClean
  BY <1>1 DEF ObdClean, Asking
<1>4. ObdWhole
  BY <1>1 DEF ObdWhole, Asking
<1> QED
  BY <1>2, <1>3, <1>4

(* However an update of the chip ends, the UART's lock is free and the LED    *)
(* indicator has its LED back.                                               *)
THEOREM UpdateHandsBack == ASSUME ObdConstants PROVE Obd!Spec => []Obd!HandedBack
<1>1. ObdHeld => Obd!HandedBack
  BY DEF ObdHeld, Obd!HandedBack
<1>2. Obd!Init => ObdHeld
  BY ObdInit
<1> QED
  BY <1>1, <1>2, HeldStep, PTL DEF Obd!Spec

(* A boot during which nothing goes wrong leaves the chip running the new     *)
(* firmware, whatever state the boots before it left it in.                  *)
THEOREM BootsRepair == ASSUME ObdConstants PROVE Obd!Spec => []Obd!CleanBootRepairs
<1> DEFINE Inv == ObdHeld /\ ObdClean
<1>1. Obd!Init => Inv
  BY ObdInit
<1>2. Inv /\ [Obd!Next]_(Obd!vars) => Inv'
  BY HeldStep, CleanStep
<1>3. Inv => Obd!CleanBootRepairs
  BY DEF ObdClean, Obd!CleanBootRepairs
<1> HIDE DEF Inv
<1> QED
  BY <1>1, <1>2, <1>3, PTL DEF Obd!Spec

(* One dropped command or one late answer, over all boots, never makes a      *)
(* download that misses a line count as finished.                            *)
THEOREM OneFaultIsHarmless == ASSUME ObdConstants PROVE Obd!Spec => []Obd!OneFaultIsCaught
<1> DEFINE Inv == ObdHeld /\ ObdWhole
<1>1. Obd!Init => Inv
  BY ObdInit
<1>2. Inv /\ [Obd!Next]_(Obd!vars) => Inv'
  BY HeldStep, WholeStep
<1>3. Inv => Obd!OneFaultIsCaught
  BY DEF ObdWhole, Obd!OneFaultIsCaught, Obd!Whole
<1> HIDE DEF Inv
<1> QED
  BY <1>1, <1>2, <1>3, PTL DEF Obd!Spec

\* A boot without a fault repairs a half-written chip, a single lost line never
\* leaves one behind, and the link and the LED are handed back. (ObdUpdate.)
ChipIsRepaired ==
    /\ Obd!TypeOK /\ Obd!CleanBootRepairs /\ Obd!OneFaultIsCaught
    /\ Obd!HandedBack

ObdBounds == Attempts \in Nat \ {0} /\ MaxDrops \in Nat /\ MaxBoots \in Nat

\* A chip waits in its loader when it has no firmware, and then only.
ObdTyped == Obd!TypeOK /\ (chip.loader <=> chip.fw = "none")

LEMMA SaysAnAnswer ==
    ASSUME step \in Asking, ObdHeld, ObdTyped
    PROVE  /\ Obd!Obeyed.says \in Obd!Answers
           /\ Obd!Obeyed.is.loader <=> Obd!Obeyed.is.fw = "none"
<1>0. chip \in Chips /\ chip.fw \in {"old", "new", "none"} /\ (chip.loader <=> chip.fw = "none")
  BY DEF ObdHeld, ObdTyped, Chips
<1>1. CASE step = "check"
  BY <1>0, <1>1, Obeys DEF Obd!Answers, Asking
<1>2. CASE step = "enter"
  BY <1>2, Obeys DEF Obd!Answers, Asking
<1>3. CASE step = "line" /\ chip.loader
  BY <1>0, <1>3, Obeys DEF Obd!Answers, Asking, Chips
<1>4. CASE step = "end" /\ chip.loader
  <2>1. Obd!Obeyed.is = [chip EXCEPT !.fw = "new", !.loader = FALSE] /\ Obd!Obeyed.says = "ok"
    BY <1>4, Obeys DEF Asking
  <2>2. Obd!Obeyed.is.fw = "new" /\ Obd!Obeyed.is.loader = FALSE
    BY <1>0, <2>1 DEF Chips
  <2> QED
    BY <2>1, <2>2 DEF Obd!Answers
<1>5. CASE step \in {"line", "end"} /\ ~chip.loader
  BY <1>0, <1>5 DEF Obd!Obeyed, Obd!Command, Obd!Answers
<1> QED
  BY <1>1, <1>2, <1>3, <1>4, <1>5 DEF Asking

\* What a read or a deadline makes of the rest.
LEMMA ProceedsTyped ==
    ASSUME ObdConstants, ObdBounds, ObdHeld, ObdTyped, step \in Asking,
           NEW r \in Obd!Rets, NEW a, Obd!Proceeds(r, a)
    PROVE  /\ step' \in Obd!Steps /\ sent' \in BOOLEAN /\ lock' \in BOOLEAN /\ led' \in BOOLEAN
           /\ line' \in 1 .. Lines + 1 /\ attempt' \in 1 .. Attempts /\ ret' \in Obd!Rets
           /\ status' \in [normal : BOOLEAN, need : BOOLEAN]
           /\ UNCHANGED <<chip, obd_forced, boots>>
<1>1. /\ line \in 1 .. Lines + 1 /\ attempt \in 1 .. Attempts
      /\ Lines \in Nat \ {0} /\ Attempts \in Nat \ {0}
      /\ (step = "line" => line \in 1 .. Lines)
  BY DEF ObdTyped, Obd!TypeOK, ObdConstants, ObdBounds, ObdHeld
<1>2. status \in [normal : BOOLEAN, need : BOOLEAN] /\ lock \in BOOLEAN /\ led \in BOOLEAN
  BY DEF ObdTyped, Obd!TypeOK
<1>3. ret' \in Obd!Rets /\ sent' \in BOOLEAN /\ UNCHANGED <<chip, obd_forced, boots>>
  BY DEF Obd!Proceeds
<1>4. CASE step = "check"
  <2>1. Obd!AfterCheck(r, a)
    BY <1>4 DEF Obd!Proceeds
  <2>2. UNCHANGED <<line, attempt, led>> /\ step' \in Obd!Steps /\ lock' \in BOOLEAN
    BY <1>2, <2>1 DEF Obd!AfterCheck, Obd!Steps
  <2>3. status' \in [normal : BOOLEAN, need : BOOLEAN]
    BY <2>1 DEF Obd!AfterCheck, Obd!Checked
  <2> QED
    BY <1>1, <1>2, <1>3, <2>2, <2>3
<1>5. CASE step = "enter"
  <2>1. Obd!AfterEnter(r)
    BY <1>5 DEF Obd!Proceeds
  <2>2. /\ UNCHANGED <<attempt, status>> /\ step' \in Obd!Steps
        /\ lock' \in BOOLEAN /\ led' \in BOOLEAN
    BY <1>2, <2>1 DEF Obd!AfterEnter, Obd!Steps
  <2>3. line' = 1 \/ line' = line
    BY <2>1 DEF Obd!AfterEnter
  <2>4. line' \in 1 .. Lines + 1
    BY <1>1, <2>3
  <2> QED
    BY <1>1, <1>2, <1>3, <2>2, <2>4
<1>6. CASE step = "line"
  <2>1. Obd!AfterLine(r)
    BY <1>6 DEF Obd!Proceeds
  <2>2. UNCHANGED <<status, lock, led>> /\ step' \in Obd!Steps
    BY <2>1 DEF Obd!AfterLine, Obd!Steps
  <2>3. line' = line + 1 /\ attempt' = 1
    BY <2>1 DEF Obd!AfterLine
  <2>4. line' \in 1 .. Lines + 1 /\ attempt' \in 1 .. Attempts
    BY <1>1, <1>6, <2>3
  <2> QED
    BY <1>2, <1>3, <2>2, <2>4
<1>7. CASE step = "end"
  <2>1. Obd!AfterEnd(r)
    BY <1>7 DEF Obd!Proceeds
  <2>2. UNCHANGED <<line, status, lock, led>> /\ step' \in Obd!Steps
    BY <2>1 DEF Obd!AfterEnd, Obd!Steps
  <2>3. attempt' = attempt \/ (attempt # Attempts /\ attempt' = attempt + 1)
    BY <2>1 DEF Obd!AfterEnd
  <2>4. attempt' \in 1 .. Attempts
    BY <1>1, <2>3
  <2> QED
    BY <1>1, <1>2, <1>3, <2>2, <2>4
<1> QED
  BY <1>4, <1>5, <1>6, <1>7 DEF Asking

LEMMA ObdTypeStep ==
    ASSUME ObdConstants, ObdBounds PROVE ObdHeld /\ ObdTyped /\ [Obd!Next]_(Obd!vars) => ObdTyped'
<1> SUFFICES ASSUME ObdHeld, ObdTyped, [Obd!Next]_(Obd!vars) PROVE ObdTyped'
  OBVIOUS
<1> DEFINE Counts == /\ line \in 1 .. Lines + 1 /\ attempt \in 1 .. Attempts
                     /\ drops \in 0 .. MaxDrops /\ boots \in 0 .. MaxBoots
           Marks == /\ step \in Obd!Steps /\ sent \in BOOLEAN /\ ret \in Obd!Rets
                    /\ status \in [normal : BOOLEAN, need : BOOLEAN]
                    /\ obd_forced \in BOOLEAN /\ lock \in BOOLEAN /\ led \in BOOLEAN
                    /\ obd_clean \in BOOLEAN
           Unit == /\ chip \in Chips /\ (chip.loader <=> chip.fw = "none")
                   /\ pipe \in Seq(Obd!Answers)
<1>1. Counts /\ Marks /\ Unit
  BY DEF ObdTyped, Obd!TypeOK, Chips
<1>2. (Counts /\ Marks /\ Unit)' => ObdTyped'
  BY DEF ObdTyped, Obd!TypeOK, Chips
<1>3. <<>> \in Seq(Obd!Answers)
  OBVIOUS
<1>4. ASSUME Obd!Fault \/ Obd!NoFault PROVE drops' \in 0 .. MaxDrops /\ obd_clean' \in BOOLEAN
  <2>1. drops \in 0 .. MaxDrops /\ obd_clean \in BOOLEAN /\ MaxDrops \in Nat
    BY <1>1 DEF ObdBounds
  <2>2. CASE Obd!Fault
    <3>1. drops < MaxDrops /\ drops' = drops + 1 /\ obd_clean' = FALSE
      BY <2>2 DEF Obd!Fault
    <3>2. drops' \in 0 .. MaxDrops
      BY <2>1, <3>1
    <3> QED
      BY <3>1, <3>2
  <2>3. CASE Obd!NoFault
    BY <2>1, <2>3 DEF Obd!NoFault
  <2> QED
    BY <1>4, <2>2, <2>3
<1>5. CASE Obd!Send
  <2>1. step \in Asking /\ UNCHANGED <<step, line, attempt, ret, status, obd_forced, lock, led, boots>>
        /\ sent' = TRUE /\ (Obd!Fault \/ Obd!NoFault)
    BY <1>5 DEF Obd!Send, Asking
  <2>2. PICK left \in {<<>>, pipe} :
            \/ chip' = Obd!Obeyed.is /\ pipe' = Append(left, Obd!Obeyed.says)
            \/ chip' = chip /\ pipe' = left
    BY <1>5 DEF Obd!Send
  <2>3. /\ Obd!Obeyed.says \in Obd!Answers /\ Obd!Obeyed.is \in Chips
        /\ Obd!Obeyed.is.loader <=> Obd!Obeyed.is.fw = "none"
    BY <2>1, SaysAnAnswer, Obeys
  <2>4. left \in Seq(Obd!Answers)
    BY <1>1, <1>3
  <2>5. Unit'
    <3>1. CASE chip' = Obd!Obeyed.is /\ pipe' = Append(left, Obd!Obeyed.says)
      <4>1. pipe' \in Seq(Obd!Answers)
        BY <2>3, <2>4, <3>1
      <4> QED
        BY <2>3, <3>1, <4>1
    <3>2. CASE chip' = chip /\ pipe' = left
      BY <1>1, <2>4, <3>2
    <3> QED
      BY <2>2, <3>1, <3>2
  <2>6. Marks'
    BY <1>1, <1>4, <2>1
  <2>7. Counts'
    BY <1>1, <1>4, <2>1
  <2> QED
    BY <1>2, <2>5, <2>6, <2>7
<1>6. CASE Obd!Read \/ Obd!Timeout
  <2>1. PICK r, a :
            /\ r \in Obd!Rets
            /\ Obd!Proceeds(r, a) /\ (Obd!Fault \/ Obd!NoFault)
            /\ pipe' = pipe \/ (pipe # <<>> /\ pipe' = Tail(pipe))
    BY <1>6 DEF Obd!Read, Obd!Timeout, Obd!Classified, Obd!Rets
  <2>2. step \in Asking
    BY <2>1 DEF Obd!Proceeds, ObdHeld
  <2>3. /\ step' \in Obd!Steps /\ sent' \in BOOLEAN /\ lock' \in BOOLEAN /\ led' \in BOOLEAN
        /\ line' \in 1 .. Lines + 1 /\ attempt' \in 1 .. Attempts /\ ret' \in Obd!Rets
        /\ status' \in [normal : BOOLEAN, need : BOOLEAN]
        /\ UNCHANGED <<chip, obd_forced, boots>>
    BY <2>1, <2>2, ProceedsTyped
  <2>4. pipe' \in Seq(Obd!Answers)
    BY <1>1, <2>1
  <2>5. drops' \in 0 .. MaxDrops /\ obd_clean' \in BOOLEAN
    BY <1>4, <2>1
  <2>6. Unit'
    BY <1>1, <2>3, <2>4
  <2>7. Marks'
    BY <1>1, <2>3, <2>5
  <2>8. Counts'
    BY <1>1, <2>3, <2>5
  <2> QED
    BY <1>2, <2>6, <2>7, <2>8
<1> DEFINE Fresh == [chip EXCEPT !.loader = (chip.fw = "none")]
<1>7. Fresh \in Chips /\ (Fresh.loader <=> Fresh.fw = "none")
  BY <1>1 DEF Chips
<1>8. [normal |-> FALSE, need |-> FALSE] \in [normal : BOOLEAN, need : BOOLEAN]
  OBVIOUS
<1>9. ASSUME chip' \in {chip, Fresh}, pipe' \in {pipe, <<>>} PROVE Unit'
  <2>1. chip' \in Chips /\ (chip'.loader <=> chip'.fw = "none")
    BY <1>1, <1>7, <1>9
  <2>2. pipe' \in Seq(Obd!Answers)
    BY <1>1, <1>3, <1>9
  <2> QED
    BY <2>1, <2>2
<1> HIDE DEF Fresh
<1>10. CASE Obd!Reset \/ Obd!PowerCut
  <2>1. Unit'
    BY <1>9, <1>10 DEF Obd!Reset, Obd!PowerCut, Fresh
  <2>2. Counts'
    BY <1>1, <1>10 DEF Obd!Reset, Obd!PowerCut, Obd!bounds
  <2>3. Marks'
    BY <1>1, <1>10 DEF Obd!Reset, Obd!PowerCut, Obd!Steps
  <2> QED
    BY <1>2, <2>1, <2>2, <2>3
<1>11. CASE Obd!Boot
  <2>1. Unit'
    BY <1>9, <1>11 DEF Obd!Boot, Obd!Begins, Fresh
  <2>2. Counts'
    <3>1. boots \in 0 .. MaxBoots /\ boots < MaxBoots /\ boots' = boots + 1 /\ MaxBoots \in Nat
      BY <1>1, <1>11 DEF Obd!Boot, ObdBounds
    <3>2. boots' \in 0 .. MaxBoots
      BY <3>1
    <3> QED
      BY <1>1, <1>11, <3>2 DEF Obd!Boot
  <2>3. Marks'
    BY <1>1, <1>8, <1>11 DEF Obd!Boot, Obd!Begins, Obd!Steps
  <2> QED
    BY <1>2, <2>1, <2>2, <2>3
<1>12. CASE Obd!Force
  <2>1. Unit'
    BY <1>9, <1>12 DEF Obd!Force, Obd!Begins, Fresh
  <2>2. Counts'
    BY <1>1, <1>12 DEF Obd!Force, Obd!bounds
  <2>3. Marks'
    BY <1>1, <1>8, <1>12 DEF Obd!Force, Obd!Begins, Obd!Steps, Obd!Rets
  <2> QED
    BY <1>2, <2>1, <2>2, <2>3
<1>13. CASE UNCHANGED Obd!vars
  BY <1>1, <1>2, <1>13 DEF Obd!vars, Obd!unit, Obd!bounds
<1> QED
  BY <1>5, <1>6, <1>10, <1>11, <1>12, <1>13 DEF Obd!Next

(* All the power run checks of the update: a boot without a fault repairs    *)
(* what the boots before it left, one fault never finishes an incomplete     *)
(* download, and lock and LED are given back (elm327_update_obd).            *)
THEOREM ChipStaysRepaired ==
    ASSUME ObdConstants, ObdBounds PROVE Obd!Spec => []ChipIsRepaired
<1>1. Obd!Init => ObdTyped
  <2> SUFFICES ASSUME Obd!Init PROVE ObdTyped
    OBVIOUS
  <2>1. chip \in Chips /\ (chip.loader <=> chip.fw = "none")
    <3>1. \A fw \in {"old", "new"} : Obd!Running(fw) \in Chips
              /\ Obd!Running(fw).loader = FALSE /\ Obd!Running(fw).fw = fw
      BY DEF Obd!Running, Chips
    <3> QED
      BY <3>1 DEF Obd!Init
  <2>2. line \in 1 .. Lines + 1 /\ attempt \in 1 .. Attempts /\ drops \in 0 .. MaxDrops
        /\ boots \in 0 .. MaxBoots
    BY DEF Obd!Init, ObdConstants, ObdBounds
  <2>3. pipe \in Seq(Obd!Answers) /\ step \in Obd!Steps /\ ret \in Obd!Rets
    BY DEF Obd!Init, Obd!Steps, Obd!Rets
  <2>4. /\ sent \in BOOLEAN /\ status \in [normal : BOOLEAN, need : BOOLEAN]
        /\ obd_forced \in BOOLEAN /\ lock \in BOOLEAN /\ led \in BOOLEAN /\ obd_clean \in BOOLEAN
    BY DEF Obd!Init
  <2> QED
    BY <2>1, <2>2, <2>3, <2>4 DEF ObdTyped, Obd!TypeOK, Chips
<1>2. Obd!Spec => []ObdTyped
  <2>1. Obd!Init => ObdHeld
    BY ObdInit
  <2> QED
    BY <1>1, <2>1, HeldStep, ObdTypeStep, PTL DEF Obd!Spec
<1>3. ObdTyped => Obd!TypeOK
  BY DEF ObdTyped
<1> QED
  BY <1>2, <1>3, UpdateHandsBack, BootsRepair, OneFaultIsHarmless, PTL DEF ChipIsRepaired

-----------------------------------------------------------------------------
(* The link to the interpreter chip, which the sleep task shares with the    *)
(* tasks of the client and of AutoPID.                                       *)
CONSTANTS RingMax, EvMax, CmdMax, MaxNudges, MaxLockFails, SettlePasses,
          ClientMonitors, Loads

VARIABLES load, elm_lock, ring, evq, elm_chip, cmdq, gate, elm_pc, errand, tally,
          exch, told

Elm == INSTANCE ElmLink WITH lock <- elm_lock, chip <- elm_chip, pc <- elm_pc

\* Where each task holds the lock.
Holds(p, l) ==
    l \in CASE p = "E" -> {"write", "read", "give"}
            [] p = "R" -> {"serve"}
            [] p = "A" -> {"cmd", "atma", "read", "watch", "grace", "stop", "give",
                           "proto", "protoRead", "protoEnd"}
            [] p = "S" -> {"sleepAsk", "sleepRead", "reset", "atzRead", "lineRead",
                           "resetEnd", "baud", "baudRead"}

\* The task that holds the lock, and no other, is where it is held.
OneHolder ==
    /\ DOMAIN elm_pc = Elm!Task
    /\ \A p \in Elm!Task : elm_lock = p <=> Holds(p, elm_pc[p])

\* While the client's command has the lock, all in the ring came under it.
OwnAnswers ==
    /\ elm_lock = "E" => \A i \in 1 .. Len(ring) : ~ring[i].stale
    /\ elm_lock = "E" => ring \in Seq(Elm!Chunk)
    /\ Elm!NoLeftovers

\* What the log says, by its type.
Tellings == [resets : Nat, verdict : {"none", "refused", "unreached"}, leaked : BOOLEAN]
ToldTyped == told \in Tellings

\* What each kind of entry changes of it, and what not.
LEMMA ToldMoves ==
    ASSUME ToldTyped
    PROVE  /\ \A b \in BOOLEAN : [told EXCEPT !.leaked = b] \in Tellings
           /\ \A b \in BOOLEAN : [told EXCEPT !.leaked = b].leaked = b
           /\ \A b \in BOOLEAN : [told EXCEPT !.leaked = b].resets = told.resets
           /\ \A b \in BOOLEAN : [told EXCEPT !.leaked = b].verdict = told.verdict
           /\ \A v \in {"none", "refused", "unreached"} :
                 /\ [told EXCEPT !.verdict = v] \in Tellings
                 /\ [told EXCEPT !.verdict = v].leaked = told.leaked
                 /\ [told EXCEPT !.verdict = v].resets = told.resets
                 /\ [told EXCEPT !.verdict = v].verdict = v
           /\ [told EXCEPT !.resets = 0, !.verdict = "none"] \in Tellings
           /\ [told EXCEPT !.resets = 0, !.verdict = "none"].leaked = told.leaked
           /\ [told EXCEPT !.resets = 0, !.verdict = "none"].verdict = "none"
           /\ [told EXCEPT !.resets = @ + 1] \in Tellings
           /\ [told EXCEPT !.resets = @ + 1].leaked = told.leaked
           /\ [told EXCEPT !.resets = @ + 1].resets = told.resets + 1
           /\ [told EXCEPT !.resets = @ + 1].verdict = told.verdict
<1>1. /\ \A b \in BOOLEAN : [told EXCEPT !.leaked = b] \in Tellings
      /\ \A b \in BOOLEAN : [told EXCEPT !.leaked = b].leaked = b
  BY DEF ToldTyped, Tellings
<1>2. /\ \A b \in BOOLEAN : [told EXCEPT !.leaked = b].resets = told.resets
      /\ \A b \in BOOLEAN : [told EXCEPT !.leaked = b].verdict = told.verdict
  BY DEF ToldTyped, Tellings
<1>3. \A v \in {"none", "refused", "unreached"} :
                 /\ [told EXCEPT !.verdict = v] \in Tellings
                 /\ [told EXCEPT !.verdict = v].leaked = told.leaked
                 /\ [told EXCEPT !.verdict = v].resets = told.resets
                 /\ [told EXCEPT !.verdict = v].verdict = v
  BY DEF ToldTyped, Tellings
<1>4. /\ [told EXCEPT !.resets = 0, !.verdict = "none"] \in Tellings
      /\ [told EXCEPT !.resets = 0, !.verdict = "none"].leaked = told.leaked
      /\ [told EXCEPT !.resets = 0, !.verdict = "none"].verdict = "none"
  BY DEF ToldTyped, Tellings
<1>5. /\ [told EXCEPT !.resets = @ + 1] \in Tellings
      /\ [told EXCEPT !.resets = @ + 1].leaked = told.leaked
      /\ [told EXCEPT !.resets = @ + 1].resets = told.resets + 1
      /\ [told EXCEPT !.resets = @ + 1].verdict = told.verdict
  BY DEF ToldTyped, Tellings
<1> QED
  BY <1>1, <1>2, <1>3, <1>4, <1>5

LEMMA HolderMoves ==
    ASSUME OneHolder, NEW p \in Elm!Task, NEW l, elm_pc' = [elm_pc EXCEPT ![p] = l],
           \/ elm_lock' = elm_lock /\ (Holds(p, l) <=> Holds(p, elm_pc[p]))
           \/ elm_lock = "none" /\ elm_lock' = p /\ Holds(p, l)
           \/ elm_lock = p /\ elm_lock' = "none" /\ ~Holds(p, l)
    PROVE  OneHolder'
<1>1. /\ DOMAIN elm_pc' = Elm!Task /\ elm_pc'[p] = l
      /\ \A q \in Elm!Task \ {p} : elm_pc'[q] = elm_pc[q]
  BY DEF OneHolder
<1>2. "none" \notin Elm!Task
  BY DEF Elm!Task
<1>3. \A q \in Elm!Task : elm_lock = q <=> Holds(q, elm_pc[q])
  BY DEF OneHolder
<1>4. \A q \in Elm!Task \ {p} : elm_lock' = q <=> Holds(q, elm_pc[q])
  BY <1>2, <1>3
<1>5. elm_lock' = p <=> Holds(p, l)
  BY <1>2, <1>3
<1> QED
  BY <1>1, <1>4, <1>5 DEF OneHolder

\* The steps of each task but R, by what they do to the lock.
LEMMA TaskHolds ==
    /\ \A l : Holds("E", l) <=> l \in {"write", "read", "give"}
    /\ \A l : Holds("R", l) <=> l = "serve"
    /\ \A l : Holds("A", l) <=>
          l \in {"cmd", "atma", "read", "watch", "grace", "stop", "give",
                 "proto", "protoRead", "protoEnd"}
    /\ \A l : Holds("S", l) <=>
          l \in {"sleepAsk", "sleepRead", "reset", "atzRead", "lineRead",
                 "resetEnd", "baud", "baudRead"}
    /\ {"E", "R", "A", "S"} = Elm!Task
  BY DEF Holds, Elm!Task

LEMMA HolderStep == OneHolder /\ [Elm!Next]_(Elm!vars) => OneHolder'
<1> SUFFICES ASSUME OneHolder, [Elm!Next]_(Elm!vars) PROVE OneHolder'
  OBVIOUS
<1> USE DEF Elm!Goto, Elm!Take, Elm!Give, Elm!None
<1>1. CASE UNCHANGED <<elm_pc, elm_lock>>
  BY <1>1 DEF OneHolder
<1>2. CASE Elm!EStep
  <2>1. PICK l : elm_pc' = [elm_pc EXCEPT !["E"] = l]
            /\ \/ elm_lock' = elm_lock /\ (Holds("E", l) <=> Holds("E", elm_pc["E"]))
               \/ elm_lock = "none" /\ elm_lock' = "E" /\ Holds("E", l)
               \/ elm_lock = "E" /\ elm_lock' = "none" /\ ~Holds("E", l)
    <3>1. CASE Elm!EventGate
      BY <3>1, TaskHolds DEF Elm!EventGate
    <3>2. CASE Elm!EventRecv
      BY <3>2, TaskHolds DEF Elm!EventRecv
    <3>3. CASE Elm!EventLock
      BY <3>3, TaskHolds DEF Elm!EventLock
    <3>4. CASE Elm!EventWrite
      BY <3>4, TaskHolds DEF Elm!EventWrite
    <3>5. CASE Elm!EventRead
      BY <3>5, TaskHolds DEF Elm!EventRead
    <3>6. CASE Elm!EventGive
      <4>1. elm_lock = "E" /\ elm_lock' = "none" /\ elm_pc' = [elm_pc EXCEPT !["E"] = "gate"]
        BY <3>6 DEF Elm!EventGive
      <4>2. ~Holds("E", "gate")
        BY TaskHolds
      <4> QED
        BY <4>1, <4>2
    <3> QED
      BY <1>2, <3>1, <3>2, <3>3, <3>4, <3>5, <3>6 DEF Elm!EStep
  <2> QED
    BY <2>1, HolderMoves, TaskHolds
<1>3. CASE Elm!RStep
  <2>1. PICK l : elm_pc' = [elm_pc EXCEPT !["R"] = l]
            /\ \/ elm_lock' = elm_lock /\ (Holds("R", l) <=> Holds("R", elm_pc["R"]))
               \/ elm_lock = "none" /\ elm_lock' = "R" /\ Holds("R", l)
               \/ elm_lock = "R" /\ elm_lock' = "none" /\ ~Holds("R", l)
    <3>1. CASE Elm!ReadPeek
      BY <3>1, TaskHolds DEF Elm!ReadPeek
    <3>2. CASE Elm!ReadLock
      BY <3>2, TaskHolds DEF Elm!ReadLock
    <3>3. CASE Elm!ReadServe
      BY <3>3, TaskHolds DEF Elm!ReadServe
    <3> QED
      BY <1>3, <3>1, <3>2, <3>3 DEF Elm!RStep
  <2> QED
    BY <2>1, HolderMoves, TaskHolds
<1>4. CASE Elm!AStep \/ Elm!AutoBegin \/ Elm!AutoDeadline
  <2>0. CASE Elm!AutoRead /\ UNCHANGED elm_pc
    BY <1>1, <2>0 DEF Elm!AutoRead
  <2>1. \/ Elm!AutoRead /\ UNCHANGED elm_pc
        \/ \E l : elm_pc' = [elm_pc EXCEPT !["A"] = l]
            /\ \/ elm_lock' = elm_lock /\ (Holds("A", l) <=> Holds("A", elm_pc["A"]))
               \/ elm_lock = "none" /\ elm_lock' = "A" /\ Holds("A", l)
               \/ elm_lock = "A" /\ elm_lock' = "none" /\ ~Holds("A", l)
    <3>1. CASE Elm!AutoLock
      BY <3>1, TaskHolds DEF Elm!AutoLock
    <3>2. CASE Elm!AutoWrite
      BY <3>2, TaskHolds DEF Elm!AutoWrite
    <3>3. CASE Elm!AutoRead
      BY <3>3, TaskHolds DEF Elm!AutoRead
    <3>4. CASE Elm!AutoStop
      BY <3>4, TaskHolds DEF Elm!AutoStop
    <3>5. CASE Elm!AutoGive
      BY <3>5, TaskHolds DEF Elm!AutoGive
    <3>6. CASE Elm!ProtoAsk
      BY <3>6, TaskHolds DEF Elm!ProtoAsk
    <3>7. CASE Elm!ProtoRead
      BY <3>7, TaskHolds DEF Elm!ProtoRead
    <3>8. CASE Elm!ProtoEnd
      BY <3>8, TaskHolds DEF Elm!ProtoEnd
    <3>9. CASE Elm!AutoBegin
      BY <3>9, TaskHolds DEF Elm!AutoBegin
    <3>10. CASE Elm!AutoDeadline
      BY <3>10, TaskHolds DEF Elm!AutoDeadline
    <3> QED
      BY <1>4, <3>1, <3>2, <3>3, <3>4, <3>5, <3>6, <3>7, <3>8, <3>9, <3>10 DEF Elm!AStep
  <2> QED
    BY <2>0, <2>1, HolderMoves, TaskHolds
<1>5. CASE Elm!SStep
  <2>0. CASE Elm!DozePass /\ UNCHANGED elm_pc
    BY <1>1, <2>0 DEF Elm!DozePass
  <2>1. \/ Elm!DozePass /\ UNCHANGED elm_pc
        \/ \E l : elm_pc' = [elm_pc EXCEPT !["S"] = l]
            /\ \/ elm_lock' = elm_lock /\ (Holds("S", l) <=> Holds("S", elm_pc["S"]))
               \/ elm_lock = "none" /\ elm_lock' = "S" /\ Holds("S", l)
               \/ elm_lock = "S" /\ elm_lock' = "none" /\ ~Holds("S", l)
    <3>1. CASE Elm!SleepEnter
      BY <3>1, TaskHolds DEF Elm!SleepEnter
    <3>2. CASE Elm!SleepLock
      BY <3>2, TaskHolds DEF Elm!SleepLock, Elm!AfterSleep
    <3>3. CASE Elm!SleepAsk
      BY <3>3, TaskHolds DEF Elm!SleepAsk
    <3>4. CASE Elm!SleepRead
      <4>1. /\ elm_lock = "S" /\ elm_lock' = "none"
            /\ elm_pc' = [elm_pc EXCEPT !["S"] = Elm!AfterSleep]
        BY <3>4 DEF Elm!SleepRead
      <4>2. ~Holds("S", Elm!AfterSleep)
        BY TaskHolds DEF Elm!AfterSleep
      <4> QED
        BY <4>1, <4>2
    <3>5. CASE Elm!SleepPublish
      BY <3>5, TaskHolds DEF Elm!SleepPublish
    <3>6. CASE Elm!DozePass
      BY <3>6, TaskHolds DEF Elm!DozePass, Elm!Babysit
    <3>7. CASE Elm!ResetLock
      BY <3>7, TaskHolds DEF Elm!ResetLock
    <3>8. CASE Elm!Reset
      BY <3>8, TaskHolds DEF Elm!Reset
    <3>9. CASE Elm!ResetRead
      BY <3>9, TaskHolds DEF Elm!ResetRead
    <3>10. CASE Elm!ResetEnd
      BY <3>10, TaskHolds DEF Elm!ResetEnd
    <3>11. CASE Elm!BaudLock
      BY <3>11, TaskHolds DEF Elm!BaudLock, Elm!BaudDone
    <3>12. CASE Elm!BaudAsk
      BY <3>12, TaskHolds DEF Elm!BaudAsk
    <3>13. CASE Elm!BaudRead
      BY <3>13, TaskHolds DEF Elm!BaudRead, Elm!BaudDone
    <3>14. CASE Elm!Wake
      BY <3>14, TaskHolds DEF Elm!Wake
    <3>15. CASE Elm!Announce
      BY <3>15, TaskHolds DEF Elm!Announce
    <3> QED
      BY <1>5, <3>1, <3>2, <3>3, <3>4, <3>5, <3>6, <3>7, <3>8, <3>9, <3>10, <3>11, <3>12,
         <3>13, <3>14, <3>15 DEF Elm!SStep, Elm!SChip
  <2> QED
    BY <2>0, <2>1, HolderMoves, TaskHolds
<1>6. Elm!ChipSays \/ Elm!ChipSettles \/ Elm!ClientSends \/ UNCHANGED Elm!vars
      => UNCHANGED <<elm_pc, elm_lock>>
  BY DEF Elm!ChipSays, Elm!ChipSettles, Elm!ClientSends, Elm!vars
<1> QED
  BY <1>1, <1>2, <1>3, <1>4, <1>5, <1>6 DEF Elm!Next

LEMMA OwnStep ==
    OneHolder /\ ToldTyped /\ OwnAnswers /\ [Elm!Next]_(Elm!vars) => OwnAnswers'
<1> SUFFICES ASSUME OneHolder, ToldTyped, OwnAnswers, [Elm!Next]_(Elm!vars)
             PROVE OwnAnswers'
  OBVIOUS
<1>0. \A p \in Elm!Task : elm_lock = p <=> Holds(p, elm_pc[p])
  BY DEF OneHolder
<1>1. ASSUME told'.leaked = told.leaked, elm_lock' # "E" PROVE OwnAnswers'
  BY <1>1 DEF OwnAnswers, Elm!NoLeftovers
<1>2. CASE UNCHANGED <<elm_lock, ring, told>>
  BY <1>2 DEF OwnAnswers, Elm!NoLeftovers
<1>3. CASE Elm!EventLock
  <2>1. CASE elm_lock' = "E" /\ ring' = <<>> /\ UNCHANGED told
    <3>1. ring' \in Seq(Elm!Chunk) /\ \A i \in 1 .. Len(ring') : ~ring'[i].stale
      BY <2>1
    <3> QED
      BY <2>1, <3>1 DEF OwnAnswers, Elm!NoLeftovers
  <2> QED
    BY <1>2, <1>3, <2>1 DEF Elm!EventLock, Elm!Take, Elm!Flush
<1>4. CASE Elm!EventRead
  <2>1. elm_lock = "E" /\ elm_lock' = elm_lock
    BY <1>0, <1>4, TaskHolds DEF Elm!EventRead
  <2>2. ring \in Seq(Elm!Chunk) /\ (\A i \in 1 .. Len(ring) : ~ring[i].stale) /\ ~told.leaked
    BY <2>1 DEF OwnAnswers, Elm!NoLeftovers
  <2>3. CASE Elm!ReadBytes /\ told' = [told EXCEPT !.leaked = @ \/ (Elm!HasBytes /\ Head(ring).stale)]
    <3>1. CASE Elm!HasBytes
      <4>1. ring # <<>> /\ ring' = Tail(ring)
        BY <2>3, <3>1 DEF Elm!HasBytes, Elm!ReadBytes
      <4>2. Len(ring) \in Nat \ {0} /\ Head(ring) = ring[1]
        BY <2>2, <4>1
      <4>3. ~Head(ring).stale
        BY <2>2, <4>2
      <4>4. ring' \in Seq(Elm!Chunk) /\ Len(ring') = Len(ring) - 1
            /\ \A i \in 1 .. Len(ring) - 1 : ring'[i] = ring[i + 1]
        BY <2>2, <4>1, <4>2
      <4>5. \A i \in 1 .. Len(ring') : ~ring'[i].stale
        <5> SUFFICES ASSUME NEW i \in 1 .. Len(ring') PROVE ~ring'[i].stale
          OBVIOUS
        <5>1. i + 1 \in 1 .. Len(ring) /\ ring'[i] = ring[i + 1]
          BY <4>2, <4>4
        <5> QED
          BY <2>2, <5>1
      <4>6. told' = [told EXCEPT !.leaked = FALSE]
        BY <2>2, <2>3, <4>3
      <4>7. ~told'.leaked
        BY <4>6, ToldMoves
      <4> QED
        BY <4>4, <4>5, <4>7 DEF OwnAnswers, Elm!NoLeftovers
    <3>2. CASE ~Elm!HasBytes
      <4>1. ring' = ring /\ told' = [told EXCEPT !.leaked = FALSE]
        BY <2>2, <2>3, <3>2 DEF Elm!ReadBytes
      <4>2. ~told'.leaked
        BY <4>1, ToldMoves
      <4> QED
        BY <2>2, <4>1, <4>2 DEF OwnAnswers, Elm!NoLeftovers
    <3> QED
      BY <3>1, <3>2
  <2> QED
    BY <1>2, <1>4, <2>1, <2>3 DEF Elm!EventRead
<1>5. CASE Elm!ChipSays
  <2>1. elm_lock' = elm_lock /\ told' = told
        /\ \/ ring' = ring
           \/ ring' = Append(ring, [last |-> ~elm_chip.stream, stale |-> elm_lock # "E"])
    BY <1>5 DEF Elm!ChipSays
  <2>2. CASE elm_lock = "E" /\ ring' # ring
    <3> DEFINE c == [last |-> ~elm_chip.stream, stale |-> FALSE]
    <3>1. ring' = Append(ring, c) /\ c \in Elm!Chunk /\ ~c.stale
      BY <2>1, <2>2 DEF Elm!Chunk
    <3>2. ring \in Seq(Elm!Chunk) /\ \A i \in 1 .. Len(ring) : ~ring[i].stale
      BY <2>2 DEF OwnAnswers
    <3> HIDE DEF c
    <3>3. ring' \in Seq(Elm!Chunk) /\ Len(ring') = Len(ring) + 1 /\ Len(ring) \in Nat
          /\ \A i \in 1 .. Len(ring) + 1 : ring'[i] = IF i = Len(ring) + 1 THEN c ELSE ring[i]
      BY <3>1, <3>2
    <3>4. \A i \in 1 .. Len(ring') : ~ring'[i].stale
      BY <3>1, <3>2, <3>3
    <3> QED
      BY <2>1, <2>2, <3>3, <3>4 DEF OwnAnswers, Elm!NoLeftovers
  <2> QED
    BY <1>1, <1>2, <2>1, <2>2
<1>6. CASE Elm!EventGate \/ Elm!EventRecv \/ Elm!EventWrite \/ Elm!EventGive
  <2>1. UNCHANGED <<ring, told>> /\ (elm_lock' = elm_lock \/ elm_lock' = "none")
    BY <1>6 DEF Elm!EventGate, Elm!EventRecv, Elm!EventWrite, Elm!EventGive, Elm!Give, Elm!None
  <2> QED
    BY <1>1, <1>2, <2>1
<1>7. CASE Elm!RStep
  <2>1. UNCHANGED told /\ (UNCHANGED <<elm_lock, ring>> \/ elm_lock' \in {"none", "R"})
    BY <1>7 DEF Elm!RStep, Elm!ReadPeek, Elm!ReadLock, Elm!ReadServe, Elm!Take, Elm!Give, Elm!None
  <2> QED
    BY <1>1, <1>2, <2>1
<1>8. CASE Elm!AStep \/ Elm!AutoBegin \/ Elm!AutoDeadline
  <2>1. UNCHANGED told /\ (UNCHANGED <<elm_lock, ring>> \/ elm_lock' # "E")
    <3>1. CASE Elm!AutoLock \/ Elm!AutoGive \/ Elm!ProtoEnd \/ Elm!AutoBegin
               \/ Elm!AutoWrite \/ Elm!AutoStop \/ Elm!AutoDeadline
      BY <3>1 DEF Elm!AutoLock, Elm!AutoGive, Elm!ProtoEnd, Elm!AutoBegin, Elm!AutoWrite,
         Elm!AutoStop, Elm!AutoDeadline, Elm!Take, Elm!Give, Elm!None
    <3>2. CASE Elm!AutoRead \/ Elm!ProtoAsk \/ Elm!ProtoRead
      <4>1. UNCHANGED <<told, elm_lock>> /\ Holds("A", elm_pc["A"])
        BY <3>2, TaskHolds DEF Elm!AutoRead, Elm!ProtoAsk, Elm!ProtoRead
      <4> QED
        BY <1>0, <4>1, TaskHolds
    <3> QED
      BY <1>8, <3>1, <3>2 DEF Elm!AStep
  <2> QED
    BY <1>1, <1>2, <2>1
<1>9. CASE Elm!SStep
  <2>1. told'.leaked = told.leaked /\ (UNCHANGED <<elm_lock, ring>> \/ elm_lock' # "E")
    <3>1. CASE Elm!SleepEnter \/ Elm!SleepPublish \/ Elm!DozePass \/ Elm!Wake \/ Elm!Announce
      <4>1. UNCHANGED <<elm_lock, ring>>
        BY <3>1 DEF Elm!SleepEnter, Elm!SleepPublish, Elm!DozePass, Elm!Wake, Elm!Announce
      <4>2. \/ told' = told \/ told' = [told EXCEPT !.resets = 0, !.verdict = "none"]
            \/ \E v \in {"none", "refused", "unreached"} : told' = [told EXCEPT !.verdict = v]
        BY <3>1 DEF Elm!SleepEnter, Elm!SleepPublish, Elm!DozePass, Elm!Wake, Elm!Announce,
           Elm!Babysit
      <4> QED
        BY <4>1, <4>2, ToldMoves
    <3>2. CASE Elm!SleepLock \/ Elm!ResetLock \/ Elm!BaudLock
      BY <3>2 DEF Elm!SleepLock, Elm!ResetLock, Elm!BaudLock, Elm!Take
    <3>3. CASE Elm!SleepRead \/ Elm!ResetEnd
      <4>1. elm_lock' = "none"
        BY <3>3 DEF Elm!SleepRead, Elm!ResetEnd, Elm!Give, Elm!None
      <4>2. told' = told \/ told' = [told EXCEPT !.resets = @ + 1]
        BY <3>3 DEF Elm!SleepRead, Elm!ResetEnd
      <4> QED
        BY <4>1, <4>2, ToldMoves
    <3>4. CASE Elm!SleepAsk \/ Elm!Reset \/ Elm!BaudAsk
      BY <3>4 DEF Elm!SleepAsk, Elm!Reset, Elm!BaudAsk
    <3>5. CASE Elm!ResetRead \/ Elm!BaudRead
      <4>1. /\ told' = told /\ Holds("S", elm_pc["S"])
            /\ elm_lock' = elm_lock \/ elm_lock' = "none"
        BY <3>5, TaskHolds DEF Elm!ResetRead, Elm!BaudRead, Elm!Give, Elm!None
      <4> QED
        BY <1>0, <4>1, TaskHolds
    <3> QED
      BY <1>9, <3>1, <3>2, <3>3, <3>4, <3>5 DEF Elm!SStep, Elm!SChip
  <2> QED
    BY <1>1, <1>2, <2>1 DEF OwnAnswers, Elm!NoLeftovers
<1>10. Elm!ChipSettles \/ Elm!ClientSends \/ UNCHANGED Elm!vars
       => UNCHANGED <<elm_lock, ring, told>>
  BY DEF Elm!ChipSettles, Elm!ClientSends, Elm!vars
<1> QED
  BY <1>2, <1>3, <1>4, <1>5, <1>6, <1>7, <1>8, <1>9, <1>10 DEF Elm!Next, Elm!EStep

\* What the nudge budget of the session may say of the resets told.
ElmConstants == MaxNudges \in Nat
Tallies == [nudges : Nat, settle : Nat, lockFails : Nat]
InReset == elm_pc["S"] \in {"resetLock", "reset", "atzRead", "lineRead", "resetEnd"}
InBaud == elm_pc["S"] \in {"baudLock", "baud", "baudRead"}
Counted ==
    /\ tally.nudges <= MaxNudges => tally.nudges <= told.resets
    /\ tally.nudges > MaxNudges => told.resets >= MaxNudges
    /\ (InReset \/ InBaud) /\ errand = "nudge" => tally.nudges < MaxNudges
    /\ InBaud /\ errand = "nudge" => tally.nudges < told.resets
    /\ Elm!BlamedOnlyWhenReset
BlameInv == tally \in Tallies /\ ToldTyped /\ Counted

LEMMA TallyMoves ==
    ASSUME tally \in Tallies
    PROVE  /\ Elm!FreshTally \in Tallies /\ Elm!FreshTally.nudges = 0
           /\ [tally EXCEPT !.settle = @ + 1] \in Tallies
           /\ [tally EXCEPT !.settle = @ + 1].nudges = tally.nudges
           /\ [tally EXCEPT !.lockFails = @ + 1] \in Tallies
           /\ [tally EXCEPT !.lockFails = @ + 1].nudges = tally.nudges
           /\ [tally EXCEPT !.nudges = @ + 1] \in Tallies
           /\ [tally EXCEPT !.nudges = @ + 1].nudges = tally.nudges + 1
  BY DEF Tallies, Elm!FreshTally

\* Numbers are all that a step's effect on the count comes to.
LEMMA CountKept ==
    ASSUME ElmConstants, BlameInv, tally' \in Tallies, ToldTyped',
           tally'.nudges = tally.nudges, told'.resets = told.resets,
           told'.verdict = told.verdict,
           (InReset' \/ InBaud') /\ errand' = "nudge"
           => (InReset \/ InBaud) /\ errand = "nudge",
           InBaud' => InBaud
    PROVE  BlameInv'
<1>1. tally.nudges \in Nat /\ told.resets \in Nat /\ MaxNudges \in Nat
  BY DEF BlameInv, Tallies, ToldTyped, Tellings, ElmConstants
<1>2. Counted'
  BY <1>1 DEF BlameInv, Counted, Elm!BlamedOnlyWhenReset
<1> QED
  BY <1>2 DEF BlameInv

LEMMA BlameStep ==
    ElmConstants /\ OneHolder /\ OwnAnswers /\ BlameInv /\ [Elm!Next]_(Elm!vars) => BlameInv'
<1> SUFFICES ASSUME ElmConstants, OneHolder, OwnAnswers, BlameInv, [Elm!Next]_(Elm!vars)
             PROVE  BlameInv'
  OBVIOUS
<1>0. tally \in Tallies /\ ToldTyped /\ "S" \in DOMAIN elm_pc
  BY DEF BlameInv, OneHolder, Elm!Task
<1>n. tally.nudges \in Nat /\ told.resets \in Nat /\ MaxNudges \in Nat
  BY <1>0 DEF Tallies, ToldTyped, Tellings, ElmConstants
<1>9. ASSUME NEW l, Elm!Goto("S", l) PROVE elm_pc'["S"] = l
  BY <1>0, <1>9 DEF Elm!Goto
<1>g. ASSUME NEW p \in {"E", "R", "A"}, NEW l, Elm!Goto(p, l) PROVE elm_pc'["S"] = elm_pc["S"]
  BY <1>0, <1>g DEF Elm!Goto
<1>1. CASE UNCHANGED <<tally, told, errand>> /\ elm_pc'["S"] = elm_pc["S"]
  BY <1>0, <1>1, CountKept DEF ToldTyped, InReset, InBaud
<1>2. CASE /\ UNCHANGED <<tally, told>> /\ (InBaud' => InBaud)
           /\ (~InReset' /\ ~InBaud') \/ errand' # "nudge"
  BY <1>0, <1>2, CountKept DEF ToldTyped
<1>3. CASE UNCHANGED <<tally, told, errand>> /\ (InReset' \/ InBaud' => InReset \/ InBaud)
           /\ (InBaud' => InBaud)
  BY <1>0, <1>3, CountKept DEF ToldTyped
<1>4. CASE Elm!EventRead
  <2>1. UNCHANGED <<tally, errand>> /\ elm_pc'["S"] = elm_pc["S"]
    BY <1>g, <1>4 DEF Elm!EventRead
  <2>2. told' = told \/ \E b \in BOOLEAN : told' = [told EXCEPT !.leaked = b]
    <3>1. CASE told' = [told EXCEPT !.leaked = @ \/ (Elm!HasBytes /\ Head(ring).stale)]
      <4> DEFINE b == told.leaked \/ (Elm!HasBytes /\ Head(ring).stale)
      <4>1. b \in BOOLEAN
        OBVIOUS
      <4>2. told' = [told EXCEPT !.leaked = b]
        BY <3>1
      <4> QED
        BY <4>1, <4>2
    <3> QED
      BY <1>4, <3>1 DEF Elm!EventRead
  <2>3. ToldTyped' /\ told'.resets = told.resets /\ told'.verdict = told.verdict
    BY <1>0, <2>2, ToldMoves DEF ToldTyped
  <2> QED
    BY <1>0, <2>1, <2>3, CountKept DEF InReset, InBaud
<1>5. CASE Elm!EventGate \/ Elm!EventRecv \/ Elm!EventLock \/ Elm!EventWrite \/ Elm!EventGive
  <2>1. UNCHANGED <<tally, told, errand>> /\ \E l : Elm!Goto("E", l)
    BY <1>5 DEF Elm!EventGate, Elm!EventRecv, Elm!EventLock, Elm!EventWrite, Elm!EventGive
  <2> QED
    BY <1>1, <1>g, <2>1
<1>6. CASE Elm!RStep
  <2>1. UNCHANGED <<tally, told, errand>> /\ \E l : Elm!Goto("R", l)
    BY <1>6 DEF Elm!RStep, Elm!ReadPeek, Elm!ReadLock, Elm!ReadServe
  <2> QED
    BY <1>1, <1>g, <2>1
<1>7. CASE Elm!AStep \/ Elm!AutoBegin \/ Elm!AutoDeadline
  <2>1. UNCHANGED <<tally, told, errand>> /\ (elm_pc' = elm_pc \/ \E l : Elm!Goto("A", l))
    <3>1. CASE Elm!AutoLock \/ Elm!AutoWrite \/ Elm!AutoRead \/ Elm!AutoStop
      BY <3>1 DEF Elm!AutoLock, Elm!AutoWrite, Elm!AutoRead, Elm!AutoStop
    <3>2. CASE Elm!AutoGive \/ Elm!ProtoAsk \/ Elm!ProtoRead \/ Elm!ProtoEnd
      BY <3>2 DEF Elm!AutoGive, Elm!ProtoAsk, Elm!ProtoRead, Elm!ProtoEnd
    <3>3. CASE Elm!AutoBegin \/ Elm!AutoDeadline
      BY <3>3 DEF Elm!AutoBegin, Elm!AutoDeadline
    <3> QED
      BY <1>7, <3>1, <3>2, <3>3 DEF Elm!AStep
  <2> QED
    BY <1>1, <1>g, <2>1
<1>8. CASE Elm!ChipSays \/ Elm!ChipSettles \/ Elm!ClientSends \/ UNCHANGED Elm!vars
  BY <1>1, <1>8 DEF Elm!ChipSays, Elm!ChipSettles, Elm!ClientSends, Elm!vars
<1>10. ASSUME tally' \in Tallies, ToldTyped', Counted' PROVE BlameInv'
  BY <1>10 DEF BlameInv
<1>11. CASE Elm!SleepEnter
  <2>1. /\ tally' = Elm!FreshTally /\ elm_pc'["S"] = "sleepLock"
        /\ told' = [told EXCEPT !.resets = 0, !.verdict = "none"]
    BY <1>9, <1>11 DEF Elm!SleepEnter
  <2>2. tally' \in Tallies /\ tally'.nudges = 0 /\ ToldTyped' /\ told'.verdict = "none"
        /\ told'.resets \in Nat
    BY <1>0, <2>1, TallyMoves, ToldMoves DEF ToldTyped, Tellings
  <2>3. ~InReset' /\ ~InBaud'
    BY <2>1 DEF InReset, InBaud
  <2>4. Counted'
    BY <1>n, <2>2, <2>3 DEF Counted, Elm!BlamedOnlyWhenReset
  <2> QED
    BY <1>10, <2>2, <2>4
<1>12. CASE Elm!SleepLock \/ Elm!SleepAsk \/ Elm!SleepRead \/ Elm!SleepPublish
            \/ Elm!Announce
  <2>1. /\ UNCHANGED <<tally, told>>
        /\ elm_pc'["S"] \in {"sleepAsk", "publish", "doze", "sleepRead", "up"}
    BY <1>9, <1>12 DEF Elm!SleepLock, Elm!SleepAsk, Elm!SleepRead, Elm!SleepPublish,
       Elm!Announce, Elm!AfterSleep
  <2>2. ~InReset' /\ ~InBaud'
    BY <2>1 DEF InReset, InBaud
  <2> QED
    BY <1>2, <2>1, <2>2
<1>13. CASE Elm!Wake
  <2>1. UNCHANGED <<tally, told>> /\ errand' = "resume" /\ elm_pc'["S"] = "resetLock"
    BY <1>9, <1>13 DEF Elm!Wake
  <2>2. ~InBaud'
    BY <2>1 DEF InBaud
  <2> QED
    BY <1>2, <2>1, <2>2
<1>14. CASE Elm!DozePass
  <2>0. ~InBaud' /\ (InReset' => errand' = "nudge" /\ tally.nudges < MaxNudges
                                /\ tally' = tally /\ told' = told)
    <3>1. CASE UNCHANGED elm_pc
      BY <1>14, <3>1 DEF Elm!DozePass, InReset, InBaud
    <3>2. CASE ~UNCHANGED elm_pc
      <4>1. Elm!Goto("S", "resetLock") /\ errand' = "nudge" /\ tally.nudges < MaxNudges
            /\ tally' = tally /\ told' = told
        BY <1>14, <3>2 DEF Elm!DozePass, Elm!Babysit
      <4> QED
        BY <1>9, <4>1 DEF InBaud
    <3> QED
      BY <3>1, <3>2
  <2>1. CASE tally' = Elm!FreshTally /\ told' = [told EXCEPT !.resets = 0, !.verdict = "none"]
             /\ UNCHANGED elm_pc
    <3>1. tally' \in Tallies /\ tally'.nudges = 0 /\ ToldTyped' /\ told'.verdict = "none"
          /\ told'.resets \in Nat
      BY <1>0, <2>1, TallyMoves, ToldMoves DEF ToldTyped, Tellings
    <3>2. ~InReset' /\ ~InBaud'
      BY <1>14, <2>1 DEF Elm!DozePass, InReset, InBaud
    <3>3. Counted'
      BY <1>n, <3>1, <3>2 DEF Counted, Elm!BlamedOnlyWhenReset
    <3> QED
      BY <1>10, <3>1, <3>3
  <2>2. CASE tally' = [tally EXCEPT !.settle = @ + 1] /\ UNCHANGED <<elm_pc, errand, told>>
    BY <1>0, <2>2, TallyMoves, CountKept DEF ToldTyped, InReset, InBaud
  <2>3. CASE tally.nudges < MaxNudges /\ UNCHANGED <<tally, told>>
             /\ elm_pc' = [elm_pc EXCEPT !["S"] = "resetLock"]
    <3>1. Counted'
      BY <1>n, <2>0, <2>3 DEF BlameInv, Counted, Elm!BlamedOnlyWhenReset
    <3> QED
      BY <1>0, <1>10, <2>3, <3>1 DEF ToldTyped
  <2>4. CASE /\ tally.nudges = MaxNudges /\ tally' = [tally EXCEPT !.nudges = @ + 1]
             /\ told' = [told EXCEPT !.verdict = "refused"] /\ UNCHANGED <<elm_pc, errand>>
    <3>1. tally' \in Tallies /\ tally'.nudges = MaxNudges + 1 /\ ToldTyped'
          /\ told'.verdict = "refused" /\ told'.resets = told.resets
      BY <1>0, <2>4, TallyMoves, ToldMoves DEF ToldTyped
    <3>2. told.resets >= MaxNudges
      BY <1>n, <2>4 DEF BlameInv, Counted
    <3>3. ~InReset' /\ ~InBaud'
      BY <1>14, <2>4 DEF Elm!DozePass, InReset, InBaud
    <3>4. Counted'
      BY <1>n, <3>1, <3>2, <3>3 DEF Counted, Elm!BlamedOnlyWhenReset
    <3> QED
      BY <1>10, <3>1, <3>4
  <2>5. CASE /\ tally' = [tally EXCEPT !.lockFails = @ + 1]
             /\ told' = [told EXCEPT !.verdict = "unreached"] /\ UNCHANGED <<elm_pc, errand>>
    <3>1. tally' \in Tallies /\ tally'.nudges = tally.nudges /\ ToldTyped'
          /\ told'.verdict = "unreached" /\ told'.resets = told.resets
      BY <1>0, <2>5, TallyMoves, ToldMoves DEF ToldTyped
    <3>3. ~InReset' /\ ~InBaud'
      BY <1>14, <2>5 DEF Elm!DozePass, InReset, InBaud
    <3>4. Counted'
      BY <1>n, <3>1, <3>3 DEF BlameInv, Counted, Elm!BlamedOnlyWhenReset
    <3> QED
      BY <1>10, <3>1, <3>4
  <2> QED
    BY <1>14, <2>1, <2>2, <2>3, <2>4, <2>5 DEF Elm!DozePass, Elm!Babysit, Elm!Goto
<1>15. CASE Elm!ResetLock
  <2>1. CASE UNCHANGED tally /\ elm_pc'["S"] \in {"reset", "announce"}
    <3>1. UNCHANGED <<told, errand>> /\ elm_pc["S"] = "resetLock"
      BY <1>15 DEF Elm!ResetLock
    <3> QED
      BY <1>3, <2>1, <3>1 DEF InReset, InBaud
  <2>2. CASE tally' = [tally EXCEPT !.lockFails = @ + 1] /\ elm_pc'["S"] = "doze"
    <3>1. ~InReset' /\ ~InBaud' /\ told' = told
      BY <1>15, <2>2 DEF Elm!ResetLock, InReset, InBaud
    <3> QED
      BY <1>0, <2>2, <3>1, TallyMoves, CountKept DEF ToldTyped
  <2> QED
    BY <1>9, <1>15, <2>1, <2>2 DEF Elm!ResetLock
<1>16. CASE Elm!Reset \/ Elm!ResetRead
  <2>1. UNCHANGED <<tally, told, errand>>
        /\ elm_pc["S"] \in {"reset", "atzRead", "lineRead"}
        /\ elm_pc'["S"] \in {"atzRead", "lineRead", "resetEnd"}
    BY <1>9, <1>16 DEF Elm!Reset, Elm!ResetRead
  <2> QED
    BY <1>3, <2>1 DEF InReset, InBaud
<1>17. CASE Elm!ResetEnd
  <2>1. UNCHANGED <<tally, errand>> /\ elm_pc["S"] = "resetEnd" /\ elm_pc'["S"] = "baudLock"
        /\ told' = [told EXCEPT !.resets = @ + 1]
    BY <1>9, <1>17 DEF Elm!ResetEnd
  <2>2. ToldTyped' /\ told'.resets = told.resets + 1 /\ told'.verdict = told.verdict
    BY <1>0, <2>1, ToldMoves DEF ToldTyped
  <2>3. InReset
    BY <2>1 DEF InReset
  <2>4. Counted'
    BY <1>n, <2>1, <2>2, <2>3 DEF BlameInv, Counted, Elm!BlamedOnlyWhenReset
  <2> QED
    BY <1>0, <1>10, <2>1, <2>2, <2>4
<1>18. CASE Elm!BaudAsk
  <2>1. UNCHANGED <<tally, told, errand>> /\ elm_pc["S"] = "baud" /\ elm_pc'["S"] = "baudRead"
    BY <1>9, <1>18 DEF Elm!BaudAsk
  <2> QED
    BY <1>3, <2>1 DEF InReset, InBaud
<1>19. CASE Elm!BaudLock \/ Elm!BaudRead
  <2>0. UNCHANGED <<told, errand>> /\ InBaud
    BY <1>19 DEF Elm!BaudLock, Elm!BaudRead, InBaud
  <2>1. CASE UNCHANGED tally /\ elm_pc'["S"] = "baud"
    BY <1>3, <2>0, <2>1 DEF InBaud, InReset
  <2>2. CASE Elm!BaudDone /\ errand = "nudge"
    <3>1. tally' = [tally EXCEPT !.nudges = @ + 1] /\ elm_pc'["S"] = "sleepLock"
      BY <1>9, <2>2 DEF Elm!BaudDone
    <3>2. tally' \in Tallies /\ tally'.nudges = tally.nudges + 1
      BY <1>0, <3>1, TallyMoves
    <3>3. tally.nudges < told.resets /\ tally.nudges < MaxNudges
      BY <2>0, <2>2 DEF BlameInv, Counted
    <3>4. ~InReset' /\ ~InBaud'
      BY <3>1 DEF InReset, InBaud
    <3>5. Counted'
      BY <1>n, <2>0, <3>2, <3>3, <3>4 DEF BlameInv, Counted, Elm!BlamedOnlyWhenReset
    <3> QED
      BY <1>0, <1>10, <2>0, <3>2, <3>5 DEF ToldTyped
  <2>3. CASE Elm!BaudDone /\ errand # "nudge"
    <3>1. tally' = tally /\ elm_pc'["S"] = "announce"
      BY <1>9, <2>3 DEF Elm!BaudDone
    <3>2. ~InReset' /\ ~InBaud'
      BY <3>1 DEF InReset, InBaud
    <3> QED
      BY <1>2, <2>0, <3>1, <3>2
  <2>4. Elm!BaudDone \/ (UNCHANGED tally /\ elm_pc'["S"] = "baud")
    BY <1>9, <1>19 DEF Elm!BaudLock, Elm!BaudRead
  <2> QED
    BY <2>1, <2>2, <2>3, <2>4
<1> QED
  BY <1>4, <1>5, <1>6, <1>7, <1>8, <1>11, <1>12, <1>13, <1>14, <1>15, <1>16, <1>17, <1>18, <1>19
     DEF Elm!Next, Elm!EStep, Elm!SStep, Elm!SChip

\* A client is never handed what lay in the ring before its command's turn,
\* and the log blames the chip only when it was really reset that often:
\* elm327_process_cmd's flush under the lock, and the babysitter's count.
THEOREM ClientHearsItsOwn ==
    ASSUME ElmConstants
    PROVE  Elm!Spec => [](Elm!NoLeftovers /\ Elm!BlamedOnlyWhenReset)
<1> DEFINE Inv == OneHolder /\ OwnAnswers /\ BlameInv
<1>1. Elm!Init => Inv
  <2> SUFFICES ASSUME Elm!Init PROVE Inv
    OBVIOUS
  <2>1. OneHolder
    BY TaskHolds DEF Elm!Init, OneHolder, Elm!None, Elm!Task
  <2>2. ToldTyped /\ told.resets = 0 /\ told.verdict = "none"
    BY DEF Elm!Init, ToldTyped, Tellings
  <2>3. OwnAnswers
    BY DEF Elm!Init, OwnAnswers, Elm!None, Elm!NoLeftovers
  <2>4. tally \in Tallies /\ tally.nudges = 0
    BY DEF Elm!Init, Tallies, Elm!FreshTally
  <2>5. ~InReset /\ ~InBaud
    BY DEF Elm!Init, InReset, InBaud
  <2>6. Counted
    BY <2>2, <2>4, <2>5 DEF Counted, ElmConstants, Elm!BlamedOnlyWhenReset
  <2> QED
    BY <2>1, <2>2, <2>3, <2>4, <2>6 DEF BlameInv
<1>2. Inv /\ [Elm!Next]_(Elm!vars) => Inv'
  <2>1. BlameInv => ToldTyped
    BY DEF BlameInv
  <2> QED
    BY <2>1, HolderStep, OwnStep, BlameStep
<1>3. Inv => Elm!NoLeftovers /\ Elm!BlamedOnlyWhenReset
  BY DEF OwnAnswers, BlameInv, Counted
<1> QED
  BY <1>1, <1>2, <1>3, PTL DEF Elm!Spec
=============================================================================
