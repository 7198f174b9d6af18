------------------------------ MODULE PidTable ------------------------------
(***************************************************************************)
(* The PID table changed under a running poll task.  The web server's task *)
(* stores a new auto_pid.json and asks for a reload, or stages a one-shot  *)
(* test of a row; the poll task takes both at the top of its loop; the CSV *)
(* writer freezes a trip's columns from the table (autopid.c,              *)
(* autopid_config.c, poll_log.c, config_server.c, csv_logger.c).           *)
(***************************************************************************)
EXTENDS Integers

CONSTANTS
    MaxStores,    \* bound: tables stored
    MaxTests,     \* bound: one-shot tests
    MaxFaults     \* bound: writes that fall short and reloads out of memory

ASSUME TableAssumption ==
    MaxStores \in Nat \ {0} /\ MaxTests \in Nat /\ MaxFaults \in Nat

VARIABLES
    file,         \* auto_pid.json: the version, and whether it is whole
    lock,         \* s_autopid_file_lock: "none", "httpd", "poll"
    live,         \* the version in autopid_config, Empty if it has no rows
    wanted,       \* s_reload_requested
    lastOk,       \* s_last_reload_ok
    httpd, poll,  \* where the two tasks are
    load,         \* what the reload has read: rows counted, then parsed
    trip, cols,   \* csv_session_active and what leads to it; the trip's table
    slot, flag,   \* s_test_req, s_test_requested
    result, done, \* s_test_res, s_test_done_sem
    tests, answer,\* tests staged; what the tester was told
    stores, faults

table   == <<file, lock, live, wanted, lastOk, load, stores>>
mailbox == <<slot, flag, result, done, tests, answer>>
csv     == <<trip, cols>>
vars    == <<table, mailbox, csv, httpd, poll, faults>>

Empty   == 0
Nothing == [counted |-> Empty, parsed |-> Empty]

\* A file that does not parse counts for no rows, and the table it makes is
\* empty; a whole one makes the table of its version.
Read == IF file.whole THEN file.ver ELSE Empty

Init ==
    /\ file = [ver |-> 1, whole |-> TRUE] /\ lock = "none" /\ live = 1
    /\ wanted = FALSE /\ lastOk = TRUE /\ load = Nothing /\ stores = 1
    /\ httpd = "idle" /\ poll = "top" /\ trip = "none" /\ cols = Empty
    /\ slot = 0 /\ flag = FALSE /\ result = 0 /\ done = FALSE /\ tests = 0 /\ answer = 0
    /\ faults = 0

-----------------------------------------------------------------------------
(* store_auto_data_handler, on the web server's task.                      *)

\* fopen("w") under the file lock: the old table is gone from the file.
OpenForWrite ==
    /\ httpd = "idle" /\ stores < MaxStores /\ lock = "none"
    /\ lock' = "httpd" /\ httpd' = "writing"
    /\ stores' = stores + 1 /\ file' = [ver |-> stores', whole |-> FALSE]
    /\ UNCHANGED <<live, wanted, lastOk, load, mailbox, csv, poll, faults>>

Written ==
    /\ httpd = "writing"
    /\ file' = [file EXCEPT !.whole = TRUE] /\ lock' = "none" /\ httpd' = "asking"
    /\ UNCHANGED <<live, wanted, lastOk, load, stores, mailbox, csv, poll, faults>>

\* A short fwrite: the file stays as it is and no reload is asked for.
WriteFails ==
    /\ httpd = "writing" /\ faults < MaxFaults
    /\ lock' = "none" /\ httpd' = "idle" /\ faults' = faults + 1
    /\ UNCHANGED <<file, live, wanted, lastOk, load, stores, mailbox, csv, poll>>

\* poll_log_request_reload, and the reply.
RequestReload ==
    /\ httpd = "asking" /\ wanted' = TRUE /\ httpd' = "idle"
    /\ UNCHANGED <<file, lock, live, lastOk, load, stores, mailbox, csv, poll, faults>>

-----------------------------------------------------------------------------
(* The reload, at the top of the poll task's loop.                         *)

\* Mutant: the request is taken back when the reload is through.
KeepsFlag == wanted

\* The request is taken back before the file is read.
Taken == FALSE

BeginReload ==
    /\ poll = "top" /\ wanted /\ trip # "open"
    /\ wanted' = Taken /\ poll' = "count"
    /\ UNCHANGED <<file, lock, live, lastOk, load, stores, mailbox, csv, httpd, faults>>

\* autopid_file_lock in autopid_reload_config.
CanRead == lock = "none"

\* count_auto_pid_pids sizes the array ...
Count ==
    /\ poll = "count" /\ CanRead
    /\ lock' = IF lock = "none" THEN "poll" ELSE lock
    /\ load' = [load EXCEPT !.counted = Read] /\ poll' = "parse"
    /\ UNCHANGED <<file, live, wanted, lastOk, stores, mailbox, csv, httpd, faults>>

\* ... and parse_auto_pid_json fills it, from a second reading of the file.
Parse ==
    /\ poll = "parse"
    /\ lock' = IF lock = "poll" THEN "none" ELSE lock
    /\ load' = [load EXCEPT !.parsed = Read] /\ poll' = "swap"
    /\ UNCHANGED <<file, live, wanted, lastOk, stores, mailbox, csv, httpd, faults>>

\* No memory for the table, or for a row of it: the old one stays.
LoadFails ==
    /\ poll = "parse" /\ faults < MaxFaults
    /\ lock' = IF lock = "poll" THEN "none" ELSE lock
    /\ lastOk' = FALSE /\ load' = Nothing /\ poll' = "test" /\ faults' = faults + 1
    /\ UNCHANGED <<file, live, wanted, stores, mailbox, csv, httpd>>

\* Mutant: no second look at the trip.
SwapAnyway == FALSE

\* The look at the trip under s_autopid_mutex.
Deferred == trip = "open"

\* The check and the store of the pointer are one step here: the instant
\* between them is one more chance of what a trip about to open already has.
Swap ==
    /\ poll = "swap"
    /\ IF Deferred
       THEN wanted' = TRUE /\ UNCHANGED <<live, lastOk>>
       ELSE live' = load.parsed /\ lastOk' = TRUE
            /\ wanted' = IF Taken THEN FALSE ELSE wanted
    /\ load' = Nothing /\ poll' = "test"
    /\ UNCHANGED <<file, lock, stores, mailbox, csv, httpd, faults>>

-----------------------------------------------------------------------------
(* The one-shot test.                                                      *)

\* The safe point's second half: the flag is taken down before the test runs.
Claim ==
    /\ poll \in {"top", "test"} /\ (poll = "top" => ~wanted \/ trip = "open")
    /\ IF flag THEN flag' = FALSE /\ poll' = "exec"
               ELSE poll' = "top" /\ UNCHANGED flag
    /\ poll' # poll
    /\ UNCHANGED <<table, csv, slot, result, done, tests, answer, httpd, faults>>

\* polllog_execute_test reads the slot as it runs: whatever it answers, a
\* value, a silence or a trip's refusal, is about the row found there.
Execute ==
    /\ poll = "exec" /\ poll' = "give" /\ result' = slot
    /\ UNCHANGED <<table, csv, slot, flag, done, tests, answer, httpd, faults>>

Give ==
    /\ poll = "give" /\ poll' = "top" /\ done' = TRUE
    /\ UNCHANGED <<table, csv, slot, flag, result, tests, answer, httpd, faults>>

\* polllog_live_test_entry: refuse in a trip, drop a late completion, stage.
Stage ==
    /\ httpd = "idle" /\ tests < MaxTests /\ trip # "open"
    /\ done' = FALSE /\ tests' = tests + 1 /\ slot' = tests' /\ flag' = TRUE
    /\ answer' = 0 /\ httpd' = "waiting"
    /\ UNCHANGED <<table, csv, result, poll, faults>>

Answered ==
    /\ httpd = "waiting" /\ done
    /\ done' = FALSE /\ answer' = result /\ httpd' = "idle"
    /\ UNCHANGED <<table, csv, slot, flag, result, tests, poll, faults>>

\* The slot is held until an executor that has begun must be through.
AfterTimeout == "draining"

\* The poll task is parked, or slow.
TimesOut ==
    /\ httpd = "waiting" /\ ~done
    /\ flag' = FALSE /\ httpd' = AfterTimeout
    /\ UNCHANGED <<table, csv, slot, result, done, tests, answer, poll, faults>>

\* Twice the longest test: an executor that runs gives before it expires.
Drained ==
    /\ httpd = "draining" /\ (done \/ poll \notin {"exec", "give"})
    /\ done' = FALSE /\ httpd' = "idle"
    /\ UNCHANGED <<table, csv, slot, flag, result, tests, answer, poll, faults>>

-----------------------------------------------------------------------------
(* The CSV writer.                                                         *)

\* csv_build_wide_columns reads the table under its mutex ...
BuildColumns ==
    /\ trip = "none" /\ trip' = "opening" /\ cols' = live
    /\ UNCHANGED <<table, mailbox, httpd, poll, faults>>

\* ... and the file is opened before the trip counts as open.
OpenTrip ==
    /\ trip = "opening"
    /\ \/ trip' = "open" /\ UNCHANGED cols
       \/ trip' = "none" /\ cols' = Empty
    /\ UNCHANGED <<table, mailbox, httpd, poll, faults>>

CloseTrip ==
    /\ trip = "open" /\ trip' = "none" /\ cols' = Empty
    /\ UNCHANGED <<table, mailbox, httpd, poll, faults>>

-----------------------------------------------------------------------------
Store  == OpenForWrite \/ Written \/ WriteFails \/ RequestReload
Reload == BeginReload \/ Count \/ Parse \/ LoadFails \/ Swap
Test   == Claim \/ Execute \/ Give \/ Stage \/ Answered \/ TimesOut \/ Drained
Trip   == BuildColumns \/ OpenTrip \/ CloseTrip

Next == Store \/ Reload \/ Test \/ Trip

Spec == Init /\ [][Next]_vars

\* The poll task and a store that has begun go on; whether and when a store,
\* a test or a trip begins, and how long a trip lasts, is nobody's promise.
Fairness ==
    /\ WF_vars(BeginReload) /\ WF_vars(Count) /\ WF_vars(Parse) /\ WF_vars(Swap)
    /\ WF_vars(Claim) /\ WF_vars(Execute) /\ WF_vars(Give)
    /\ WF_vars(Written) /\ WF_vars(RequestReload)

FairSpec == Spec /\ Fairness

-----------------------------------------------------------------------------
(* Properties.                                                             *)

TypeOK ==
    /\ file \in [ver : 1 .. MaxStores, whole : BOOLEAN]
    /\ lock \in {"none", "httpd", "poll"} /\ live \in 0 .. MaxStores
    /\ wanted \in BOOLEAN /\ lastOk \in BOOLEAN /\ flag \in BOOLEAN /\ done \in BOOLEAN
    /\ httpd \in {"idle", "writing", "asking", "waiting", "draining"}
    /\ poll \in {"top", "count", "parse", "swap", "test", "exec", "give"}
    /\ load \in [counted : 0 .. MaxStores, parsed : 0 .. MaxStores]
    /\ trip \in {"none", "opening", "open"} /\ cols \in 0 .. MaxStores
    /\ slot \in 0 .. MaxTests /\ result \in 0 .. MaxTests
    /\ tests \in 0 .. MaxTests /\ answer \in 0 .. MaxTests
    /\ stores \in 1 .. MaxStores /\ faults \in 0 .. MaxFaults

(* The array that is filled was sized from the same generation of the file: *)
(* a store between the two readings would have rows written past its end.   *)
SizedAsFilled == poll = "swap" => load.counted = load.parsed

(* Once a trip is open the table under its columns stays, however long ago  *)
(* the reload began.                                                         *)
ColumnsFrozen == [][trip = "open" => live' = live]_vars

(* The table stored last is the one in use in the end, also when it was     *)
(* stored while an earlier one was being loaded: unless a trip stays open,  *)
(* its file is incomplete, or the status says that the reload failed.       *)
NewestApplies ==
    ~<>[](file.whole /\ httpd = "idle" /\ live # file.ver /\ lastOk /\ trip # "open")

(* What a tester is told is about the row it asked for, also after a test   *)
(* that timed out while the poll task was at it.                            *)
AnswerIsOwn == answer # 0 => answer = tests

(* What the poll task and the testers are promised of a table that is       *)
(* replaced under them.                                                      *)
TableIsSound ==
    []TypeOK /\ []SizedAsFilled /\ []AnswerIsOwn /\ ColumnsFrozen

-----------------------------------------------------------------------------
(* Claims the code does not keep.                                           *)

(* "so a reload can never observe a torn/half-written file"                 *)
(* (config_server.c): a store whose write fell short leaves the file cut,   *)
(* and a reload asked for before it, and put off by a trip, reads it: the   *)
(* table in use becomes empty.                                              *)
NeverTorn == load.parsed = Empty => poll # "swap"

(* "its columns stay frozen mid-trip" (config_server.c): a table swapped    *)
(* while the trip's file was being opened.                                  *)
ColumnsAreLive == trip = "open" => cols = live
=============================================================================
