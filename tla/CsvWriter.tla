----------------------------- MODULE CsvWriter -----------------------------
(***************************************************************************)
(* The trip logger's writer task (components/csv_logger), a pass of its    *)
(* loop at a time: receive, ignition and engine gate, the manual stop's    *)
(* rearm, closing, the grid row, flushing, opening and rotating the trip   *)
(* file.  Beside it run the web page's Start, Stop and Mark, the sleep     *)
(* task's request, the hosts that park the logger, the key and the ECU.    *)
(* The task is up; how it is brought up is BringUp's.                      *)
(*                                                                         *)
(* A pass is one unit of the timers and one ignition poll.  A row's        *)
(* contents are left out, except the mark.  Whether a record came, whether *)
(* the card takes a write or a new file, and whether the columns can be    *)
(* built are choices of the step that finds out.  The rearm's split into a *)
(* read and a write, and who owns the park flag, are Coexist's.            *)
(***************************************************************************)
EXTENDS Integers

CONSTANTS
    FlushPeriod,   \* CSV_LOGGER_FLUSH_PERIOD_MS, in passes
    Debounce,      \* CSV_LOGGER_IGN_OFF_DEBOUNCE_MS, in passes
    SdRetry,       \* CSV_LOGGER_SD_RETRY_MS, in passes
    RotateRows,    \* CSV_LOGGER_ROTATE_BYTES, in rows
    CloseWait      \* SLEEP_CSV_CLOSE_WAIT_MS, in looks of the sleep task

VARIABLES
    wpc, got, active,                          \* the writer's pass
    require, ignOn, offPending, offTimer,      \* its gate
    sinceOn,                                   \* passes since an ON reading (history)
    open, rows, pending, flushTimer, backoff,  \* the trip file
    dirty,                                     \* passes since the first unflushed row
    mode, sleepReq,                            \* what other tasks tell it
    mark,      \* csv_mark_pending, and whether its trip is still open
    hpc,       \* the Mark handler, between its check and its write
    spc, waited,        \* the sleep task
    parked, key, ecu    \* environment

gate    == <<require, ignOn, offPending, offTimer, sinceOn>>
file    == <<open, rows, pending, flushTimer, backoff, dirty>>
marking == <<mark, hpc>>
sleeper == <<spc, waited, sleepReq>>
env     == <<parked, key, ecu>>
vars == <<wpc, got, active, gate, file, mode, marking, sleeper, env>>

Less(n) == IF n = 0 THEN 0 ELSE n - 1

TypeOK ==
    /\ wpc \in {"receive", "file", "rest"}
    /\ {got, active, require, ignOn, offPending} \subseteq BOOLEAN
    /\ offTimer \in 0 .. Debounce /\ sinceOn \in 0 .. Debounce + 1
    /\ {open, pending} \subseteq BOOLEAN /\ rows \in 0 .. RotateRows
    /\ flushTimer \in 0 .. FlushPeriod /\ backoff \in 0 .. SdRetry
    /\ dirty \in Nat
    /\ mode \in {"auto", "on", "off"} /\ sleepReq \in BOOLEAN
    /\ mark \in {"none", "this", "gone"} /\ hpc \in {"idle", "this", "gone"}
    /\ spc \in {"awake", "waiting", "asleep"} /\ waited \in 0 .. CloseWait
    /\ parked \in BOOLEAN /\ key \in {"on", "off", "invalid"}
    /\ ecu \in {"running", "silent"}

Init ==
    /\ wpc = "receive" /\ got = FALSE /\ active = FALSE /\ require \in BOOLEAN
    /\ ignOn = FALSE /\ offPending = FALSE /\ offTimer = 0 /\ sinceOn = 0
    /\ open = FALSE /\ rows = 0 /\ pending = FALSE /\ flushTimer = FlushPeriod
    /\ backoff = 0 /\ dirty = 0
    /\ mode = "auto" /\ mark = "none" /\ hpc = "idle"
    /\ spc = "awake" /\ waited = 0 /\ sleepReq = FALSE
    /\ parked = FALSE /\ key = "invalid" /\ ecu = "silent"

-----------------------------------------------------------------------------
(* The gate.                                                               *)

\* Mutant: an ignition reading of ON does not withdraw the pending off.
OffPendingKept ==
    CASE key = "on"  -> ignOn' = TRUE /\ UNCHANGED <<offPending, offTimer>>
      [] key = "off" /\ ignOn /\ ~offPending ->
            offPending' = TRUE /\ offTimer' = Debounce /\ UNCHANGED ignOn
      [] key = "off" /\ offPending /\ offTimer = 0 ->
            ignOn' = FALSE /\ offPending' = FALSE /\ UNCHANGED offTimer
      [] OTHER -> offTimer' = Less(offTimer) /\ UNCHANGED <<ignOn, offPending>>

\* The ignition poll: off only after the debounce has run out on an off
\* reading; an invalid one keeps what is known.
IgnitionPoll ==
    CASE key = "on"  -> ignOn' = TRUE /\ offPending' = FALSE /\ offTimer' = 0
      [] key = "off" /\ ignOn /\ ~offPending ->
            offPending' = TRUE /\ offTimer' = Debounce /\ UNCHANGED ignOn
      [] key = "off" /\ offPending /\ offTimer = 0 ->
            ignOn' = FALSE /\ offPending' = FALSE /\ UNCHANGED offTimer
      [] OTHER -> offTimer' = Less(offTimer) /\ UNCHANGED <<ignOn, offPending>>

\* Mutant: a trip is over only when the ECU is silent and the ignition off.
TripOverBoth(ignition, sleeping, autoWouldLog) ==
    \/ sleeping
    \/ ~autoWouldLog /\ ecu = "silent" /\ ~ignition

\* csv_trip_end_reason, reduced to whether there is one.
TripOver(ignition, sleeping, autoWouldLog) ==
    \/ sleeping
    \/ ~autoWouldLog /\ (ecu = "silent" \/ ~ignition)

\* csv_manual_mode_next
ManualModeNext(tripOver) ==
    IF mode = "off" /\ tripOver /\ ~parked THEN "auto" ELSE mode

\* csv_logging_active
LoggingActive(m, ignition, engineOk) ==
    ~sleepReq /\ (m = "on" \/ (m = "auto" /\ ignition /\ engineOk))

\* poll_log's engine gate counts only where the configuration requires it.
EngineOk == ~require \/ ecu = "running"

\* csv_manual_stop_rearm, only once the stopped trip is closed.
Rearm ==
    mode' = IF open THEN mode
            ELSE ManualModeNext(TripOver(ignOn', sleepReq, ignOn' /\ EngineOk))

\* The first part of a pass: a record or a timeout, the gate, the rearm, and
\* whether this pass logs.
Receive ==
    /\ wpc = "receive" /\ wpc' = "file" /\ spc # "asleep"
    /\ got' \in BOOLEAN
    /\ flushTimer' = Less(flushTimer) /\ backoff' = Less(backoff)
    /\ dirty' = IF dirty = 0 THEN 0 ELSE dirty + 1
    /\ IgnitionPoll
    /\ sinceOn' = IF key = "on" THEN 0
                  ELSE IF sinceOn > Debounce THEN sinceOn ELSE sinceOn + 1
    /\ Rearm
    /\ active' = LoggingActive(mode', ignOn', EngineOk)
    /\ UNCHANGED <<require, open, rows, pending, marking, sleeper, env>>

-----------------------------------------------------------------------------
(* The file.                                                               *)

\* csv_close_file writes back what the file holds; the trip is over, and a
\* mark that waits for its next row belongs to a trip that is gone.
CloseTrip ==
    /\ open' = FALSE /\ rows' = 0 /\ dirty' = 0
    /\ mark' = IF mark = "this" THEN "gone" ELSE mark
    /\ hpc'  = IF hpc = "this" THEN "gone" ELSE hpc

\* The pass is over: its record and its verdict are forgotten.
PassEnds == wpc' = "receive" /\ got' = FALSE /\ active' = FALSE

Others == UNCHANGED <<gate, mode, sleeper, env>>

\* A trip that should not log, or whose card is gone, is closed.
Close ==
    /\ wpc = "file" /\ open /\ spc # "asleep"
    /\ CloseTrip
    /\ wpc' = "rest" /\ Others
    /\ UNCHANGED <<got, active, pending, flushTimer, backoff>>

\* The row the grid is due carries the mark and clears it ...
EmitRow ==
    /\ wpc = "file" /\ open /\ active /\ spc # "asleep"
    /\ rows' = IF rows < RotateRows THEN rows + 1 ELSE rows
    /\ dirty' = IF dirty = 0 THEN 1 ELSE dirty
    /\ pending' = TRUE /\ mark' = "none"
    /\ wpc' = "rest" /\ Others
    /\ UNCHANGED <<got, active, open, flushTimer, backoff, hpc>>

\* ... and a row that cannot be written closes the trip.
EmitFails ==
    /\ wpc = "file" /\ open /\ active /\ spc # "asleep"
    /\ open' = FALSE /\ rows' = 0 /\ dirty' = 0 /\ mark' = "none"
    /\ hpc' = IF hpc = "this" THEN "gone" ELSE hpc
    /\ backoff' = SdRetry
    /\ PassEnds /\ Others /\ UNCHANGED <<pending, flushTimer>>

NoRow ==
    /\ wpc = "file" /\ (open => active) /\ wpc' = "rest" /\ spc # "asleep"
    /\ Others /\ UNCHANGED <<got, active, file, marking>>

\* No record: an opportunistic flush.
Idle ==
    /\ wpc = "rest" /\ ~got /\ spc # "asleep"
    /\ IF open /\ pending THEN pending' = FALSE /\ dirty' = 0
       ELSE UNCHANGED <<pending, dirty>>
    /\ PassEnds /\ Others /\ UNCHANGED <<open, rows, flushTimer, backoff, marking>>

\* A record while nothing is logged, or during the back-off, is thrown away.
Discard ==
    /\ wpc = "rest" /\ got /\ spc # "asleep"
    /\ ~active \/ (~open /\ backoff > 0)
    /\ PassEnds /\ Others /\ UNCHANGED <<file, marking>>

\* The first record of a trip opens it.  The mark is cleared before the trip
\* can be seen.
OpenTrip ==
    /\ wpc = "rest" /\ got /\ active /\ ~open /\ backoff = 0 /\ spc # "asleep"
    /\ open' = TRUE /\ rows' = 0 /\ mark' = "none"
    /\ flushTimer' = FlushPeriod
    /\ PassEnds /\ Others /\ UNCHANGED <<backoff, pending, dirty, hpc>>

\* No columns yet means a short retry; no buffer, card or file, a long one.
OpenFails ==
    /\ wpc = "rest" /\ got /\ active /\ ~open /\ backoff = 0 /\ spc # "asleep"
    /\ backoff' \in {1, SdRetry}
    /\ PassEnds /\ Others
    /\ UNCHANGED <<open, rows, flushTimer, pending, dirty, marking>>

\* A record of an open trip: the timed flush, then the rotation, which closes
\* the file and opens the next of the same trip, or ends the trip.
Keep ==
    /\ wpc = "rest" /\ got /\ active /\ open /\ spc # "asleep"
    /\ IF flushTimer = 0 THEN flushTimer' = FlushPeriod /\ pending' = FALSE
       ELSE UNCHANGED <<flushTimer, pending>>
    /\ \/ /\ rows < RotateRows
          /\ dirty' = IF flushTimer = 0 THEN 0 ELSE dirty
          /\ UNCHANGED <<open, rows, backoff, marking>>
       \/ /\ rows = RotateRows
          /\ rows' = 0 /\ dirty' = 0
          /\ UNCHANGED <<open, backoff, marking>>
       \/ /\ rows = RotateRows
          /\ CloseTrip /\ backoff' = SdRetry
    /\ PassEnds /\ Others

-----------------------------------------------------------------------------
(* The web page, the sleep task and the world outside.                     *)

\* csv_logger_set_manual_override
Start ==
    /\ mode' = "on"
    /\ UNCHANGED <<wpc, got, active, gate, file, marking, sleeper, env>>

Stop ==
    /\ mode' = "off"
    /\ UNCHANGED <<wpc, got, active, gate, file, marking, sleeper, env>>

\* POST /csv_logger?op=mark: refused without a trip ...
MarkAsked ==
    /\ hpc = "idle" /\ open
    /\ hpc' = "this"
    /\ UNCHANGED <<wpc, got, active, gate, file, mode, mark, sleeper, env>>

\* ... and set by a second step of the handler's task.
MarkSet ==
    /\ hpc # "idle"
    /\ mark' = hpc /\ hpc' = "idle"
    /\ UNCHANGED <<wpc, got, active, gate, file, mode, sleeper, env>>

\* csv_logger_set_sleep_requested(true) rearms too, from the sleep task, which
\* then looks at the trip a bounded number of times.
SleepAsked ==
    /\ spc = "awake" /\ spc' = "waiting"
    /\ sleepReq' = TRUE /\ mode' = ManualModeNext(TRUE)
    /\ UNCHANGED <<wpc, got, active, gate, file, marking, waited, env>>

SleepLooks ==
    /\ spc = "waiting"
    /\ IF open /\ waited < CloseWait
       THEN waited' = waited + 1 /\ spc' = spc
       ELSE waited' = 0 /\ spc' = "asleep"
    /\ UNCHANGED <<wpc, got, active, gate, file, mode, marking, sleepReq, env>>

Wake ==
    /\ spc = "asleep" /\ spc' = "awake" /\ sleepReq' = FALSE
    /\ UNCHANGED <<wpc, got, active, gate, file, mode, marking, waited, env>>

\* A host parks the logger, which stops it, and lets go, which restores a
\* mode it found; the key turns or cannot be read; the ECU comes and goes.
Outside ==
    /\ \/ ~parked /\ parked' = TRUE /\ mode' = "off" /\ UNCHANGED <<key, ecu>>
       \/ parked /\ parked' = FALSE /\ mode' \in {"auto", "on", "off"}
          /\ UNCHANGED <<key, ecu>>
       \/ key' \in {"on", "off", "invalid"} /\ UNCHANGED <<parked, ecu, mode>>
       \/ ecu' \in {"running", "silent"} /\ UNCHANGED <<parked, key, mode>>
    /\ UNCHANGED <<wpc, got, active, gate, file, marking, sleeper>>

Writer == Receive \/ Close \/ EmitRow \/ EmitFails \/ NoRow \/ Idle \/ Discard
          \/ OpenTrip \/ OpenFails \/ Keep

Next ==
    \/ Receive \/ Close \/ EmitRow \/ EmitFails \/ NoRow
    \/ Idle \/ Discard \/ OpenTrip \/ OpenFails \/ Keep
    \/ Start \/ Stop \/ MarkAsked \/ MarkSet
    \/ SleepAsked \/ SleepLooks \/ Wake
    \/ Outside

Spec == Init /\ [][Next]_vars

(* The tasks are scheduled and a sleep ends.  Records keep coming, and a     *)
(* card that is offered a new file again and again takes it in the end.      *)
Fairness ==
    /\ WF_vars(Writer) /\ WF_vars(MarkSet) /\ WF_vars(SleepLooks) /\ WF_vars(Wake)
    /\ SF_vars(Receive /\ got') /\ SF_vars(OpenTrip)

FairSpec == Spec /\ Fairness

-----------------------------------------------------------------------------
(* Properties.                                                             *)

(* A power cut loses at most the rows of one flush period, however records  *)
(* and idle passes alternate (csv_logger_task, "at most ~1s of data").      *)
DataLossBound == dirty <= FlushPeriod + 1

(* A dip of the battery shorter than the debounce does not end the trip:    *)
(* the ignition goes off only once the debounce has passed since the last   *)
(* reading of ON.                                                           *)
DipKeepsTrip == [][ignOn /\ ~ignOn' => sinceOn' > Debounce]_vars

(* A manual Stop never latches: it cannot stay for ever while the ignition  *)
(* is off and no host holds the park lease, whatever lease covered the      *)
(* moment the key was turned (csv_manual_mode_next, "A LEVEL rule, not an   *)
(* edge one").                                                              *)
StopNeverLatches == ~<>[](mode = "off" /\ key = "off" /\ ~parked)

(* With the key on, the engine running and records coming, a trip that      *)
(* nobody stops is recorded in the end, whatever failed before.             *)
TripRecorded ==
    ~<>[](mode # "off" /\ key = "on" /\ ecu = "running" /\ spc = "awake" /\ ~open)

-----------------------------------------------------------------------------
(* Claims the code does not keep; no run checks them.                      *)

(* "a mark can never leak from a previous/closing trip onto row 1"          *)
(* (csv_logger_task, where the mark is cleared): the handler looks at the   *)
(* trip and sets the mark in two steps, and a trip may end and another      *)
(* begin between them.                                                      *)
MarkInItsTrip == [][EmitRow => mark # "gone"]_vars

(* "one clean file per awake period" (csv_logger_task): the sleep task      *)
(* waits a bounded time for the trip to close and goes down regardless.     *)
NoTripAsleep == spc = "asleep" => ~open
=============================================================================
