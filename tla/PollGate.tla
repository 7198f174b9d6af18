------------------------------ MODULE PollGate ------------------------------
(***************************************************************************)
(* What the poll task believes about the car, pass by pass                 *)
(* (components/fast_log/poll_log.c and poll_gate_logic.c): whether the ECU *)
(* answers, whether the engine turns (the recording gate and the two       *)
(* engine events), and whether it may transmit at all (the quiesce).  A    *)
(* pass is atomic and takes less than a unit of time, save a watch sweep,  *)
(* which takes one.  Ages are in units; one above the longest that is      *)
(* compared stands for every longer one.                                   *)
(***************************************************************************)
EXTENDS Integers

CONSTANTS
    EngineOff,    \* POLLLOG_ENGINE_OFF_MS, in units
    GateStale,    \* POLLLOG_GATE_STALE_MS
    Probe,        \* POLLLOG_PROBE_MS
    FlipMin,      \* POLLLOG_FLIP_MIN_MS
    MaxQuiesce,   \* POLLLOG_MAX_QUIESCE_MS
    Withheld,     \* POLLLOG_BUS_WITHHELD_MS
    GateOff,      \* POLLLOG_GATE_OFF_MS, POLLLOG_ENGINE_OFF_CONFIRM_MS
    RpmStale,     \* POLLLOG_RPM_STALE_MS
    Confirms,     \* POLLLOG_RPM_CONFIRM_SWEEPS
    Every         \* sample_every of the rows that are not the RPM row

VARIABLES
    normal, answering,     \* s_bus_normal, s_ecu_answering
    okAge, normAge, flipAge, withheld, \* since s_last_ok_us, s_norm_start_us, ...
    gate, low, blocks,     \* poll_gate_state_t; 0: the debounce is not started
    engine, engLow,        \* s_engine_on, s_engine_low_us
    rpmAge, rpmRuns,       \* s_rpm_ms, and whether s_rpm_value is a running one
    ctr,                   \* sample_ctr of the divided rows
    ran,                   \* a pass was made in this unit
    \* the car and the others
    rpm,          \* where RPM comes from: "poll", "cast", "dead" (never), "none"
    casts, mute,  \* the ECU sends frames unasked; it answers no request
    ecu, volts,   \* "off", "key", "run"; "ok" (or unreadable), "low"
    session,      \* a CSV session is open
    hold          \* the bus is "free", "park"ed, or "off"

belief == <<normal, answering, okAge, normAge, flipAge, withheld, gate, low, blocks,
            engine, engLow, rpmAge, rpmRuns, ctr>>
car    == <<rpm, casts, mute, ecu, volts, session, hold>>
vars   == <<belief, ran, car>>

TypeOK ==
    /\ {normal, answering, gate, engine, rpmRuns, ran, casts, mute, session}
         \subseteq BOOLEAN
    /\ okAge \in 0 .. EngineOff + 1 /\ normAge \in 0 .. Probe + 1
    /\ flipAge \in 0 .. MaxQuiesce + 1 /\ withheld \in 0 .. Withheld + 2
    /\ low \in 0 .. GateOff + 2 /\ engLow \in 0 .. GateOff + 2 /\ blocks \in 0 .. Confirms
    /\ rpmAge \in 0 .. RpmStale + 1 /\ ctr \in 0 .. Every - 1
    /\ rpm \in {"poll", "cast", "dead", "none"} /\ ecu \in {"off", "key", "run"}
    /\ volts \in {"ok", "low"} /\ hold \in {"free", "park", "off"}

Init ==
    /\ normal = TRUE /\ answering = FALSE /\ okAge = EngineOff + 1 /\ normAge = 0
    /\ flipAge = MaxQuiesce + 1 /\ withheld = 0
    /\ gate = FALSE /\ low = 0 /\ blocks = 0 /\ engine = FALSE /\ engLow = 0
    /\ rpmAge = RpmStale + 1 /\ rpmRuns = FALSE /\ ctr = 0 /\ ran = FALSE
    /\ rpm \in {"poll", "cast", "dead", "none"} /\ casts \in BOOLEAN /\ mute \in BOOLEAN
    /\ casts = (rpm = "cast") \/ rpm = "poll"
    /\ mute => rpm = "cast"
    /\ ecu \in {"off", "run"} /\ volts \in {"ok", "low"}
    /\ session = FALSE /\ hold = "free"

-----------------------------------------------------------------------------
(* The recording gate.                                                     *)

Configured == rpm # "none"
RpmKnown   == rpmAge <= RpmStale
RpmRunning == RpmKnown /\ rpmRuns

\* rpm_positive: no channel configured counts as running.
Positive == RpmRunning \/ ~Configured

\* A voltage that cannot be read, or one inside the band, does not forbid.
VoltOk == volts # "low"

\* About to open on voltage alone: wait some passes for a fresh RPM.
MustWait == Configured /\ ~RpmKnown /\ blocks < Confirms

\* poll_gate_step: the gate after this pass, its debounce and its wait.
Step ==
    LET still == [gate |-> gate, low |-> low, blocks |-> 0]
        opens == answering /\ VoltOk /\ (~RpmKnown \/ rpmRuns)
    IN  IF ~gate
        THEN IF ~opens THEN [still EXCEPT !.blocks = IF RpmKnown THEN 0 ELSE blocks]
             ELSE IF MustWait THEN [still EXCEPT !.blocks = blocks + 1]
             ELSE [gate |-> TRUE, low |-> 0, blocks |-> 0]
        ELSE IF VoltOk /\ Positive THEN [still EXCEPT !.low = 0]
        ELSE IF VoltOk /\ Configured /\ ~RpmKnown THEN still
        ELSE IF low = 0 THEN [still EXCEPT !.low = 1]
        ELSE IF low <= GateOff + 1 THEN still
        ELSE [gate |-> FALSE, low |-> 0, blocks |-> 0]

\* polllog_engine_edge: the same verdict, announced once.
Edge ==
    LET armed == IF RpmKnown /\ engLow = 0 THEN 1 ELSE engLow
    IN  IF RpmRunning THEN [on |-> TRUE, low |-> 0]
        ELSE IF engine /\ armed <= GateOff + 1 THEN [on |-> TRUE, low |-> armed]
        ELSE [on |-> FALSE, low |-> 0]

-----------------------------------------------------------------------------
(* A pass with the bus in normal mode.                                     *)

Fast == Step.gate \/ session

\* Mutant: the divisors apply however old the last answer is.
DivideStale == answering /\ Fast

\* gate_active: the divisors apply while answers are fresh, at full rate.
Divide == answering /\ Fast /\ okAge < GateStale

\* polllog_pid_due, for the divided rows.
Due == ctr = 0

Count == IF ~Divide THEN ctr ELSE IF Due THEN Every - 1 ELSE ctr - 1

\* The sweep: an ECU that is up answers what it is asked, and the frames it
\* sends unasked are read on the way.
Answered == ecu # "off" /\ ~mute /\ (rpm = "poll" \/ ~Divide \/ Due)
Stamped  == (rpm = "poll" /\ Answered) \/ (rpm = "cast" /\ ecu # "off")

\* Silence for long enough, and the last flip is not too young.
GivesUp ==
    /\ ~Answered
    /\ IF answering THEN okAge > EngineOff ELSE normAge > Probe
    /\ flipAge > FlipMin

\* poll_gate_force_close
ForceClose == [gate |-> FALSE, low |-> 0, blocks |-> 0]

Become(g, e) ==
    /\ gate' = g.gate /\ low' = g.low /\ blocks' = g.blocks
    /\ engine' = e.on /\ engLow' = e.low

\* A watch sweep takes the whole unit; the quiesce ends the pass in listen-only
\* mode, with the gate closed and the engine's stop announced.
NormalPass ==
    /\ hold = "free" /\ normal
    /\ (answering /\ ~Fast => ~ran)
    /\ rpmAge' = IF Stamped THEN 0 ELSE rpmAge
    /\ rpmRuns' = IF Stamped THEN ecu = "run" ELSE rpmRuns
    /\ okAge' = IF Answered THEN 0 ELSE okAge
    /\ ctr' = Count
    /\ IF GivesUp
       THEN /\ normal' = FALSE /\ answering' = FALSE /\ flipAge' = 0
            /\ Become(ForceClose, [on |-> FALSE, low |-> 0])
       ELSE /\ answering' = (answering \/ Answered)
            /\ Become(Step, Edge)
            /\ UNCHANGED <<normal, flipAge>>
    /\ withheld' = 0 /\ ran' = TRUE
    /\ UNCHANGED <<normAge, car>>

-----------------------------------------------------------------------------
(* The other passes.                                                       *)

\* Listening: a frame, or ten minutes without one, brings the polling back.
Resumes == (casts /\ ecu # "off") \/ flipAge > MaxQuiesce

QuietPass ==
    /\ hold = "free" /\ ~normal
    /\ IF Resumes /\ flipAge > FlipMin
       THEN normal' = TRUE /\ answering' = FALSE /\ normAge' = 0 /\ flipAge' = 0
       ELSE UNCHANGED <<normal, answering, normAge, flipAge>>
    /\ withheld' = 0 /\ ran' = TRUE
    /\ UNCHANGED <<okAge, gate, low, blocks, engine, engLow, rpmAge, rpmRuns, ctr, car>>

\* A host or a flash has the bus: the task parks.
ParkedPass ==
    /\ hold = "park" /\ withheld' = 0 /\ ran' = TRUE
    /\ UNCHANGED <<normal, answering, okAge, normAge, flipAge, gate, low, blocks, engine,
                   engLow, rpmAge, rpmRuns, ctr, car>>

\* The controller is disabled and nobody has it: what cannot be maintained is
\* cleared, and the bus is taken back after a while unless an upload runs.
WithheldPass ==
    /\ hold = "off" /\ ran' = TRUE
    /\ answering' = FALSE /\ Become(ForceClose, [on |-> engine, low |-> engLow])
    /\ \/ /\ withheld > Withheld + 1
          /\ hold' = "free" /\ withheld' = 0 /\ normal' = TRUE /\ normAge' = 0 /\ flipAge' = 0
       \/ /\ withheld' = IF withheld = 0 THEN 1 ELSE withheld
          /\ UNCHANGED <<hold, normal, normAge, flipAge>>
    /\ UNCHANGED <<okAge, rpmAge, rpmRuns, ctr, rpm, casts, mute, ecu, volts, session>>

Pass == NormalPass \/ QuietPass \/ ParkedPass \/ WithheldPass

-----------------------------------------------------------------------------
(* Time, the car, the CSV session and the other users of the bus.          *)

Older(a, top) == IF a < top THEN a + 1 ELSE a
Since(a, top) == IF a = 0 THEN 0 ELSE Older(a, top)

Clock ==
    /\ ran /\ ran' = FALSE
    /\ okAge' = Older(okAge, EngineOff + 1) /\ normAge' = Older(normAge, Probe + 1)
    /\ flipAge' = Older(flipAge, MaxQuiesce + 1) /\ rpmAge' = Older(rpmAge, RpmStale + 1)
    /\ withheld' = Since(withheld, Withheld + 2)
    /\ low' = Since(low, GateOff + 2) /\ engLow' = Since(engLow, GateOff + 2)
    /\ UNCHANGED <<normal, answering, gate, blocks, engine, rpmRuns, ctr, car>>

\* The world changes between two units.
Outside ==
    /\ ~ran
    /\ \/ ecu' \in {"off", "key", "run"} /\ UNCHANGED <<volts, session, hold>>
       \/ volts' \in {"ok", "low"} /\ UNCHANGED <<ecu, session, hold>>
       \/ session' = ~session /\ UNCHANGED <<ecu, volts, hold>>
       \/ hold' \in {"free", "park", "off"} /\ UNCHANGED <<ecu, volts, session>>
    /\ UNCHANGED <<belief, ran, rpm, casts, mute>>

Next == Pass \/ Clock \/ Outside

Spec == Init /\ [][Next]_vars

\* The poll task runs and time passes.
Fairness == WF_vars(Pass) /\ WF_vars(Clock)

FairSpec == Spec /\ Fairness

-----------------------------------------------------------------------------
(* Properties.                                                             *)

(* An ECU that answers is never taken for one that is gone, however rarely  *)
(* the divisors have it asked and however long a host had the bus.          *)
NoFalseKeyOff == [][normal /\ ~normal' /\ answering => ecu = "off" \/ mute]_vars

(* The gate is only ever open to the CSV writer while the ECU answers: no   *)
(* way out of normal polling leaves it open behind.                         *)
GateNeedsEcu == gate => answering /\ normal

(* An engine that has stopped is noticed and announced, whatever the CSV    *)
(* session, the voltage and the pauses before: neither the gate nor the     *)
(* engine's latch stays up for good.                                        *)
StopIsSeen == ~<>[](ecu # "run" /\ hold = "free" /\ rpm \in {"poll", "cast"}
                    /\ (gate \/ engine))

(* A running engine gets its gate, also after a pause, with an RPM channel  *)
(* that never answers, and on a bus that stays silent until it is asked.    *)
DriveIsSeen == ~<>[](ecu = "run" /\ ~mute /\ volts # "low" /\ ~gate
                     /\ hold = "free")

-----------------------------------------------------------------------------
(* A claim the code does not keep.                                          *)

(* "An ON/OFF pair costs at minimum those 3 s, so no burst is possible"     *)
(* (poll_log.c): with an engine whose RPM is broadcast and an ECU that does *)
(* not answer, each probe announces a start and each quiesce a stop.        *)
StopIsDebounced == [][engine /\ ~engine' => engLow > GateOff + 1]_vars
=============================================================================
