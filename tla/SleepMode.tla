----------------------------- MODULE SleepMode -----------------------------
(***************************************************************************)
(* The sleep task (main/sleep_mode.c): the voltage state machine, the      *)
(* vetoes, the bounded postponement of a sleep that would cut a flash or   *)
(* an upload, the one teardown, the resume in place with its reboot        *)
(* fallback, and the boot-loop guard.                                      *)
(*                                                                         *)
(* One pass of light_sleep_task is a handful of steps with the rest of the *)
(* system between them.  A pass is one unit of time; timers count passes   *)
(* down.  Voltages are the bands the code's comparisons tell apart.  The   *)
(* wake-on-CAN decision is CanWake's and only its outcome is used here;    *)
(* the bus side of a teardown, frame by frame, is BusInterlock's.          *)
(***************************************************************************)
EXTENDS Integers

CONSTANTS
    SleepTime,       \* the configured countdown
    FlashRetry,      \* SLEEP_FLASH_RETRY_MS
    StuckCeiling,    \* SLEEP_FLASH_STUCK_CEILING_MS
    WakeHold,        \* how long a recovered voltage must hold, asleep
    WakeInterval,    \* the configured periodic wake
    RecoverSamples   \* VOLT_RECOVER_SAMPLES

ASSUME SleepAssumption ==
    /\ SleepTime \in Nat /\ WakeHold \in Nat /\ WakeInterval \in Nat
    /\ FlashRetry \in Nat \ {0}
    /\ StuckCeiling \in Nat
    /\ RecoverSamples \in Nat \ {0}

\* SLEEP_FLASH_STREAK_GAP_MS.
StreakGap == 3 * FlashRetry

(* Voltage bands: at or below CRITICAL_VOLTAGE, below ERROR_VOLTAGE, below   *)
(* sleep_voltage, below wakeup_voltage, at or above it.                      *)
Volts    == 0..4
Critical == 0
Error    == 1
Low      == 2
Band     == 3
High     == 4

VARIABLES
    cfg,       \* what the boot found: configuration and reset history
    pc,        \* where the pass is
    state,     \* current_state
    pub,       \* the state in sleep_state_queue
    volts,     \* battery_voltage
    fresh,     \* the ADC answered in this pass
    shadow,    \* volt_ok_shadow
    ecuSeen,   \* ecu_answering, sampled
    hostSeen,  \* session_live, sampled
    timer,     \* sleep_timer
    hold,      \* wakeup_timer
    period,    \* periodic_wakeup_timer
    recover,   \* volt_recover_count
    highRun,   \* real samples at High in a row (history)
    streak,    \* postpone_start_us and postpone_last_us
    forced,    \* the teardown under way is the boot-loop guard's
    fence, bus, net, awake,   \* what a teardown takes down
    job,       \* age of the flash or upload under way (environment)
    ecu, host  \* the ECU answers, a host's lease is live (environment)

machine   == <<state, pub, timer, hold, period, recover, streak>>
samples   == <<volts, fresh, shadow, ecuSeen, hostSeen, highRun>>
resources == <<fence, bus, net, awake>>
outside   == <<job, ecu, host>>
vars == <<cfg, pc, machine, samples, forced, resources, outside>>

States   == {"normal", "low", "sleeping", "pending"}
NoJob    == -1
NoStreak == [age |-> -1, gap |-> -1]

\* Ages and gaps beyond the largest bound compared with them are one value.
Older(n, bound) == IF n > bound THEN n ELSE n + 1
Less(n) == IF n = 0 THEN 0 ELSE n - 1

TypeOK ==
    /\ cfg \in [sleep : BOOLEAN, periodic : BOOLEAN, bootLoop : BOOLEAN]
    /\ pc \in {"sample", "decide", "guard", "teardown", "bus_down", "published",
               "doze", "resume", "unfence", "wifi", "publish", "wake"}
    /\ state \in States /\ pub \in States \cup {"none"}
    /\ volts \in Volts /\ fresh \in BOOLEAN /\ shadow \in {-1, 0, 1}
    /\ ecuSeen \in BOOLEAN /\ hostSeen \in BOOLEAN
    /\ timer \in Nat /\ hold \in Nat /\ period \in Nat
    /\ recover \in Nat /\ highRun \in Nat
    /\ streak \in [age : Nat \cup {-1}, gap : Nat \cup {-1}]
    /\ forced \in BOOLEAN
    /\ fence \in BOOLEAN /\ bus \in BOOLEAN /\ net \in BOOLEAN /\ awake \in BOOLEAN
    /\ job \in Nat \cup {NoJob} /\ ecu \in BOOLEAN /\ host \in BOOLEAN

\* What every boot starts from, but for the configuration.
Booted ==
    /\ pc = "sample" /\ state = "normal" /\ pub = "none"
    /\ volts = Critical /\ fresh = TRUE /\ shadow = -1
    /\ ecuSeen = FALSE /\ hostSeen = FALSE
    /\ timer = 0 /\ hold = 0 /\ period = 0 /\ recover = 0 /\ highRun = 0
    /\ streak = NoStreak /\ forced = FALSE
    /\ fence = FALSE /\ bus = TRUE /\ net = TRUE /\ awake = TRUE
    /\ job = NoJob /\ ecu = FALSE /\ host = FALSE

Init ==
    /\ cfg \in [sleep : BOOLEAN, periodic : BOOLEAN, bootLoop : BOOLEAN]
    /\ Booted

\* restart_tracker_restart: a planned restart, which leaves the count of
\* unexpected ones as it was.
Restart ==
    /\ pc' = "sample" /\ state' = "normal" /\ pub' = "none"
    /\ volts' = Critical /\ fresh' = TRUE /\ shadow' = -1
    /\ ecuSeen' = FALSE /\ hostSeen' = FALSE
    /\ timer' = 0 /\ hold' = 0 /\ period' = 0 /\ recover' = 0 /\ highRun' = 0
    /\ streak' = NoStreak /\ forced' = FALSE
    /\ fence' = FALSE /\ bus' = TRUE /\ net' = TRUE /\ awake' = TRUE
    /\ job' = NoJob /\ ecu' = FALSE /\ host' = FALSE
    /\ UNCHANGED cfg

-----------------------------------------------------------------------------
(* A pass begins: time goes by, the battery is read, the vetoes are sampled. *)

\* The band between the two thresholds holds the DEV_WAKE_VOLTAGE_OK latch;
\* an unresolved latch resolves against the lower one.
Latch(v) ==
    IF v < Band THEN 0
    ELSE IF v >= (IF shadow = -1 THEN Band ELSE High) THEN 1 ELSE shadow

Tick ==
    /\ timer' = Less(timer) /\ hold' = Less(hold) /\ period' = Less(period)
    /\ streak' = IF streak = NoStreak THEN NoStreak
                 ELSE [age |-> Older(streak.age, StuckCeiling),
                       gap |-> Older(streak.gap, StreakGap)]
    /\ job' = IF job = NoJob THEN NoJob ELSE Older(job, StuckCeiling)

\* poll_log_ecu_answering is false while somebody owns the bus; an upload is
\* a job that does not.  claim_live or park_live.
Vetoes ==
    /\ \E alone \in {TRUE, job = NoJob} :
          ecuSeen' = (ecu /\ alone /\ ~host /\ ~fence)
    /\ hostSeen' = host

SampleOk(v) ==
    /\ pc = "sample"
    /\ Tick
    /\ volts' = v /\ fresh' = TRUE /\ shadow' = Latch(v)
    /\ highRun' = IF v = High THEN Older(highRun, RecoverSamples) ELSE 0
    /\ Vetoes
    /\ pc' = IF cfg.sleep THEN "decide" ELSE "guard"
    /\ UNCHANGED <<cfg, state, pub, recover, forced, resources, ecu, host>>

SampleFails ==
    /\ pc = "sample"
    /\ Tick
    /\ fresh' = FALSE /\ shadow' = -1
    /\ Vetoes
    /\ pc' = "guard"
    /\ UNCHANGED <<cfg, state, pub, recover, volts, highRun, forced, resources,
                   ecu, host>>

-----------------------------------------------------------------------------
(* The state machine, on a pass with a reading.  Its end publishes.          *)

Enter(s) ==
    /\ state' = s /\ pub' = s /\ pc' = "guard"

Deciding(s) == pc = "decide" /\ state = s

Vetoed == ecuSeen \/ hostSeen

NormalPass ==
    /\ Deciding("normal")
    /\ IF volts < Band /\ ~Vetoed
         THEN Enter("low") /\ timer' = SleepTime /\ recover' = 0
         ELSE Enter("normal") /\ UNCHANGED <<timer, recover>>
    /\ UNCHANGED <<cfg, hold, period, streak, samples, forced, resources, outside>>

LowCancelled ==
    /\ Deciding("low") /\ Vetoed
    /\ Enter("normal") /\ recover' = 0
    /\ UNCHANGED <<cfg, timer, hold, period, streak, samples, forced, resources,
                   outside>>

\* Mutant: a lower reading does not break the run of recovered ones.
RecoveredKept == IF volts = High THEN recover + 1 ELSE recover

Recovered == IF volts = High THEN recover + 1 ELSE 0

LowRecovers ==
    /\ Deciding("low") /\ ~Vetoed
    /\ Recovered >= RecoverSamples
    /\ Enter("normal") /\ recover' = 0
    /\ UNCHANGED <<cfg, timer, hold, period, streak, samples, forced, resources,
                   outside>>

LowCounts ==
    /\ Deciding("low") /\ ~Vetoed
    /\ Recovered < RecoverSamples /\ timer # 0
    /\ Enter("low") /\ recover' = Recovered
    /\ UNCHANGED <<cfg, timer, hold, period, streak, samples, forced, resources,
                   outside>>

LowExpires ==
    /\ Deciding("low") /\ ~Vetoed
    /\ Recovered < RecoverSamples /\ timer = 0
    /\ recover' = Recovered /\ pc' = "teardown"
    /\ UNCHANGED <<cfg, state, pub, timer, hold, period, streak, samples, forced,
                   resources, outside>>

SleepingPass ==
    /\ Deciding("sleeping")
    /\ \/ /\ volts = High
          /\ Enter("pending") /\ hold' = WakeHold
          /\ UNCHANGED <<cfg, timer, period, recover, streak, samples, forced,
                         resources, outside>>
       \/ /\ Critical < volts /\ volts < High /\ cfg.periodic /\ period = 0
          /\ Restart
       \/ /\ volts < High
          /\ ~(Critical < volts /\ cfg.periodic /\ period = 0)
          /\ Enter("sleeping")
          /\ UNCHANGED <<cfg, timer, hold, period, recover, streak, samples,
                         forced, resources, outside>>

PendingPass ==
    /\ Deciding("pending")
    /\ CASE volts < High -> Enter("sleeping")
         [] volts = High /\ hold # 0 -> Enter("pending")
         [] OTHER -> pc' = "resume" /\ UNCHANGED <<state, pub>>
    /\ UNCHANGED <<cfg, timer, hold, period, recover, streak, samples, forced,
                   resources, outside>>

-----------------------------------------------------------------------------
(* The teardown.  A refusal postpones; a streak of refusals older than the   *)
(* ceiling gives the flash up for stuck.                                     *)

Busy == job # NoJob

\* Mutant: each refusal begins a streak of its own.
StreakNowFresh == [age |-> 0, gap |-> 0]
\* A refusal too long after the last one begins a new streak.
StreakNow ==
    IF streak = NoStreak \/ streak.gap > StreakGap
      THEN [age |-> 0, gap |-> 0]
      ELSE [streak EXCEPT !.gap = 0]

GivesUp == Busy /\ ~host /\ StreakNow.age > StuckCeiling

\* The caller asks again a retry later; the pass ends by publishing.
TeardownRefuses ==
    /\ pc = "teardown" /\ ~forced
    /\ Busy \/ host
    /\ ~GivesUp
    /\ streak' = StreakNow
    /\ timer' = FlashRetry
    /\ Enter("low")
    /\ UNCHANGED <<cfg, hold, period, recover, samples, forced, resources, outside>>

TeardownBegins ==
    /\ pc = "teardown"
    /\ forced \/ ~(Busy \/ host) \/ GivesUp
    /\ streak' = NoStreak
    /\ fence' = TRUE /\ awake' = FALSE
    /\ pc' = "bus_down"
    /\ UNCHANGED <<cfg, state, pub, timer, hold, period, recover, samples, forced,
                   bus, net, outside>>

\* can_disable, wifi_mgr_deinit, ble_disable: with the network goes every host.
TeardownBus ==
    /\ pc = "bus_down"
    /\ bus' = FALSE /\ net' = FALSE
    /\ host' = FALSE /\ job' = NoJob
    /\ pc' = "published"
    /\ UNCHANGED <<cfg, machine, samples, forced, fence, awake, ecu>>

TeardownPublishes ==
    /\ pc = "published"
    /\ pub' = "sleeping" /\ state' = "sleeping"
    /\ period' = IF cfg.periodic /\ ~forced THEN WakeInterval ELSE period
    /\ pc' = IF forced THEN "doze" ELSE "guard"
    /\ forced' = FALSE
    /\ UNCHANGED <<cfg, timer, hold, recover, streak, samples, resources, outside>>

-----------------------------------------------------------------------------
(* The boot-loop guard and the light sleep.                                  *)

BootLoopGuard ==
    /\ pc = "guard"
    /\ IF cfg.bootLoop /\ volts <= Error /\ state # "sleeping"
         THEN pc' = "teardown" /\ forced' = TRUE
         ELSE /\ pc' = IF state = "sleeping" THEN "doze" ELSE "sample"
              /\ UNCHANGED forced
    /\ UNCHANGED <<cfg, machine, samples, resources, outside>>

\* Two seconds of light sleep; traffic that CanWake confirms and allows wakes
\* the device if the battery is above the critical voltage.
Doze ==
    /\ pc = "doze"
    /\ \/ pc' = "sample"
       \/ volts > Critical /\ pc' = "resume"
    /\ UNCHANGED <<cfg, machine, samples, forced, resources, outside>>

-----------------------------------------------------------------------------
(* The resume.  Each step that fails hands the wake to a reboot.             *)

\* A skipped bring-up, SmartConnect, BLE that was up; or the bus stays off.
ResumeRefused ==
    /\ pc = "resume"
    /\ Restart

ResumeBus ==
    /\ pc = "resume"
    /\ bus' = TRUE
    /\ pc' = "unfence"
    /\ UNCHANGED <<cfg, machine, samples, forced, fence, net, awake, outside>>

ResumeFence ==
    /\ pc = "unfence"
    /\ fence' = FALSE
    /\ pc' = "wifi"
    /\ UNCHANGED <<cfg, machine, samples, forced, bus, net, awake, outside>>

ResumeNetwork ==
    /\ pc = "wifi"
    /\ \/ /\ net' = TRUE /\ pc' = "publish"
          /\ UNCHANGED <<cfg, machine, samples, forced, fence, bus, awake, outside>>
       \/ Restart

ResumePublishes ==
    /\ pc = "publish"
    /\ pub' = "normal"
    /\ pc' = "wake"
    /\ UNCHANGED <<cfg, state, timer, hold, period, recover, streak, samples,
                   forced, resources, outside>>

\* dev_status_set_awake, and the state the caller assigns from the answer.
ResumeWakes ==
    /\ pc = "wake"
    /\ awake' = TRUE
    /\ state' = "normal"
    /\ pc' = IF state = "pending" THEN "guard" ELSE "sample"
    /\ UNCHANGED <<cfg, pub, timer, hold, period, recover, streak, samples, forced,
                   fence, bus, net, outside>>

-----------------------------------------------------------------------------
(* The environment.  Flashes, uploads and leases arrive over the network.    *)

JobStarts ==
    /\ job = NoJob /\ net
    /\ job' = 0
    /\ UNCHANGED <<cfg, pc, machine, samples, forced, resources, ecu, host>>

JobEnds ==
    /\ job # NoJob
    /\ job' = NoJob
    /\ UNCHANGED <<cfg, pc, machine, samples, forced, resources, ecu, host>>

HostComesAndGoes ==
    /\ host \/ net
    /\ host' = ~host
    /\ UNCHANGED <<cfg, pc, machine, samples, forced, resources, job, ecu>>

EcuChanges ==
    /\ ecu' = ~ecu
    /\ UNCHANGED <<cfg, pc, machine, samples, forced, resources, job, host>>

Pass ==
    \/ \E v \in Volts : SampleOk(v)
    \/ SampleFails
    \/ NormalPass \/ LowCancelled \/ LowRecovers \/ LowCounts \/ LowExpires
    \/ SleepingPass \/ PendingPass
    \/ TeardownRefuses \/ TeardownBegins \/ TeardownBus \/ TeardownPublishes
    \/ BootLoopGuard \/ Doze
    \/ ResumeRefused \/ ResumeBus \/ ResumeFence \/ ResumeNetwork
    \/ ResumePublishes \/ ResumeWakes

Next == Pass \/ JobStarts \/ JobEnds \/ HostComesAndGoes \/ EcuChanges

Spec == Init /\ [][Next]_vars

\* The task runs, and its ADC answers now and then; nothing else is promised.
Fairness ==
    /\ WF_vars(Pass)
    /\ SF_vars(\E v \in Volts : SampleOk(v))

FairSpec == Spec /\ Fairness

-----------------------------------------------------------------------------
(* Properties.                                                               *)

Served == ~fence /\ bus /\ net /\ awake
Down   == fence /\ ~bus /\ ~net /\ ~awake

\* Between the steps of a teardown or a resume the device is wholly up or
\* wholly down, whichever way it went to sleep and came back.
WhollyUpOrDown ==
    /\ pc \in {"sample", "decide", "guard"} =>
          IF state \in {"sleeping", "pending"} THEN Down ELSE Served
    /\ pc = "doze" => state = "sleeping" /\ Down

\* A producer released by the fence never meets a controller that is off
\* ("Bus first, fence second -- never the reverse").
FencedOffBus == ~bus => fence

\* A task released by the awake bit never finds the state published as asleep
\* and drops its command.
AwakePublished == awake => pub \notin {"sleeping", "pending"}

\* One reading above the wake threshold does not throw a countdown away: a
\* countdown nobody vetoed is abandoned only after RecoverSamples of them.
SpikeKeepsCountdown ==
    [][state = "low" /\ state' = "normal" /\ ~Vetoed
         => highRun >= RecoverSamples]_vars

\* What going to sleep and coming back keep: nothing half up, no producer on a
\* dead bus, no command dropped, and no countdown lost to a spike.
SleepSafe ==
    /\ []TypeOK
    /\ []WhollyUpOrDown /\ []FencedOffBus /\ []AwakePublished
    /\ SpikeKeepsCountdown

\* However long a flash bit stays up, and whoever raises it next, a battery
\* that stays low (and readable) under a silent car is put to sleep.
BatterySaved ==
    <>[](cfg.sleep /\ fresh /\ volts < Band /\ ~ecuSeen /\ ~host)
        => []<>(state = "sleeping")

\* A charging battery wakes a device that sleeping is enabled on, by resume or
\* by reboot, and it stays awake.
ChargingWakes ==
    <>[](cfg.sleep /\ volts = High) => <>[](state = "normal")

-----------------------------------------------------------------------------
(* Claims the code does not keep.                                            *)

\* The ceiling cuts only a flash older than itself.  It measures the streak of
\* refusals: a second flash begun before the next retry inherits the first
\* one's age.
CeilingCutsOnlyOld ==
    [][pc = "teardown" /\ pc' = "bus_down" /\ ~forced /\ job # NoJob
         => job > StuckCeiling]_vars

\* A charging battery wakes every device: with sleeping disabled the boot-loop
\* guard still puts it to sleep, and no state machine wakes it.
ChargingWakesAnyone == <>[](volts = High) => <>[](state = "normal")
=============================================================================
