-------------------------- MODULE PidTable_proofs --------------------------
(***************************************************************************)
(* Proofs about PidTable, for any number of stores, tests and faults: the  *)
(* array a reload fills was sized for it, a trip's columns stay while it   *)
(* is open, and a tester is told about the row it asked for.  Then, as     *)
(* instances: the gate that decides what is polled, and the configuration  *)
(* store.                                                                  *)
(***************************************************************************)
EXTENDS PidTable, Sequences, TLAPS

-----------------------------------------------------------------------------
(* The reload and the file lock.                                           *)

\* The lock names whoever is between its two ends, and nothing changes the
\* file under the reload that holds it.
LockInv ==
    /\ httpd = "writing" <=> lock = "httpd"
    /\ poll = "parse" <=> lock = "poll"
    /\ poll = "parse" => load.counted = Read
    /\ load \in [counted : Nat, parsed : Nat]
    /\ file \in [ver : Nat, whole : BOOLEAN] /\ stores \in Nat
    /\ SizedAsFilled

LEMMA LockInit == Init => LockInv
  BY DEF Init, LockInv, SizedAsFilled, Nothing, Empty

LEMMA LockStep == LockInv /\ [Next]_vars => LockInv'
<1> SUFFICES ASSUME LockInv, [Next]_vars PROVE LockInv'
  OBVIOUS
<1> USE DEF LockInv, SizedAsFilled, Read, Empty, table, mailbox, csv
<1>1. CASE OpenForWrite
  BY <1>1 DEF OpenForWrite
<1>2. CASE BeginReload
  BY <1>2 DEF BeginReload
<1>3. CASE Count
  BY <1>3 DEF Count, CanRead
<1>4. CASE Parse
  BY <1>4 DEF Parse
<1>5. CASE LoadFails
  BY <1>5 DEF LoadFails, Nothing
<1>6. CASE Swap
  BY <1>6 DEF Swap, Nothing
<1>7. CASE Test
  <2>1. CASE Claim \/ Execute \/ Give
    BY <2>1 DEF Claim, Execute, Give
  <2>2. CASE Stage \/ Answered \/ TimesOut \/ Drained
    BY <2>2 DEF Stage, Answered, TimesOut, Drained, AfterTimeout
  <2> QED
    BY <1>7, <2>1, <2>2 DEF Test
<1>8. CASE Trip
  BY <1>8 DEF Trip, BuildColumns, OpenTrip, CloseTrip
<1>9. CASE Written \/ WriteFails \/ RequestReload
  BY <1>9 DEF Written, WriteFails, RequestReload
<1>10. CASE UNCHANGED vars
  BY <1>10 DEF vars
<1> QED
  BY <1>1, <1>2, <1>3, <1>4, <1>5, <1>6, <1>7, <1>8, <1>9, <1>10
  DEF Next, Store, Reload

(* Rows are never written past the end of the array a reload sized: no     *)
(* store comes between its two readings (autopid_reload_config).           *)
THEOREM ReloadFits == Spec => []SizedAsFilled
<1>1. LockInv => SizedAsFilled
  BY DEF LockInv
<1> QED
  BY LockInit, LockStep, <1>1, PTL DEF Spec

(* No step changes the table of an open trip (autopid_reload_config).      *)
THEOREM TripKeepsColumns == Spec => ColumnsFrozen
<1>1. [Next]_vars => [trip = "open" => live' = live]_vars
  <2> SUFFICES ASSUME Next PROVE trip = "open" => live' = live
    OBVIOUS
  <2>1. CASE Swap
    BY <2>1 DEF Swap, Deferred
  <2>2. CASE Store
    BY <2>2 DEF Store, OpenForWrite, Written, WriteFails, RequestReload
  <2>3. CASE BeginReload \/ Count \/ Parse \/ LoadFails
    BY <2>3 DEF BeginReload, Count, Parse, LoadFails
  <2>4. CASE Test
    BY <2>4 DEF Test, Claim, Execute, Give, Stage, Answered, TimesOut, Drained, table
  <2>5. CASE Trip
    BY <2>5 DEF Trip, BuildColumns, OpenTrip, CloseTrip, table
  <2> QED
    BY <2>1, <2>2, <2>3, <2>4, <2>5 DEF Next, Reload
<1> QED
  BY <1>1, PTL DEF Spec, ColumnsFrozen

-----------------------------------------------------------------------------
(* The mailbox.                                                            *)

\* While a tester waits, the slot is its own, and whatever the poll task has
\* in hand for it is about the slot: nothing is left of an earlier test.
MailboxInv ==
    /\ tests \in Nat /\ slot = tests
    /\ httpd \in {"waiting", "draining"} \/ poll \notin {"exec", "give"}
    /\ httpd \in {"waiting", "draining"} \/ (~flag /\ ~done)
    /\ httpd = "draining" => ~flag
    /\ flag => poll \notin {"exec", "give"} /\ ~done
    /\ poll \in {"exec", "give"} => ~done
    /\ poll = "give" => result = slot
    /\ done => result = slot
    /\ AnswerIsOwn

LEMMA MailboxInit == Init => MailboxInv
  BY DEF Init, MailboxInv, AnswerIsOwn

LEMMA MailboxStep == MailboxInv /\ [Next]_vars => MailboxInv'
<1> SUFFICES ASSUME MailboxInv, [Next]_vars PROVE MailboxInv'
  OBVIOUS
<1> USE DEF MailboxInv, AnswerIsOwn, table, mailbox, csv
<1>1. CASE Store
  BY <1>1 DEF Store, OpenForWrite, Written, WriteFails, RequestReload
<1>2. CASE Reload
  <2>1. poll' \notin {"exec", "give"} /\ poll \notin {"exec", "give"}
    BY <1>2 DEF Reload, BeginReload, Count, Parse, LoadFails, Swap
  <2>2. UNCHANGED <<mailbox, httpd>>
    BY <1>2 DEF Reload, BeginReload, Count, Parse, LoadFails, Swap
  <2> QED
    BY <2>1, <2>2
<1>3. CASE Claim
  BY <1>3 DEF Claim
<1>4. CASE Execute
  BY <1>4 DEF Execute
<1>5. CASE Give
  BY <1>5 DEF Give
<1>6. CASE Stage
  BY <1>6 DEF Stage
<1>7. CASE Answered
  BY <1>7 DEF Answered
<1>8. CASE TimesOut
  BY <1>8 DEF TimesOut, AfterTimeout
<1>9. CASE Drained
  BY <1>9 DEF Drained
<1>10. CASE Trip
  BY <1>10 DEF Trip, BuildColumns, OpenTrip, CloseTrip
<1>11. CASE UNCHANGED vars
  BY <1>11 DEF vars
<1> QED
  BY <1>1, <1>2, <1>3, <1>4, <1>5, <1>6, <1>7, <1>8, <1>9, <1>10, <1>11 DEF Next, Test

(* An answer is always about the test that waits for it                    *)
(* (polllog_live_test_entry, polllog_execute_test).                        *)
THEOREM TesterIsToldItsOwn == Spec => []AnswerIsOwn
<1>1. MailboxInv => AnswerIsOwn
  BY DEF MailboxInv
<1> QED
  BY MailboxInit, MailboxStep, <1>1, PTL DEF Spec

-----------------------------------------------------------------------------
(* The types, and the three together.                                      *)

Flags ==
    /\ wanted \in BOOLEAN /\ lastOk \in BOOLEAN /\ flag \in BOOLEAN /\ done \in BOOLEAN
    /\ lock \in {"none", "httpd", "poll"}
    /\ httpd \in {"idle", "writing", "asking", "waiting", "draining"}
    /\ poll \in {"top", "count", "parse", "swap", "test", "exec", "give"}
    /\ trip \in {"none", "opening", "open"}

Versions ==
    /\ file \in [ver : 1 .. MaxStores, whole : BOOLEAN]
    /\ live \in 0 .. MaxStores /\ cols \in 0 .. MaxStores
    /\ load \in [counted : 0 .. MaxStores, parsed : 0 .. MaxStores]
    /\ stores \in 1 .. MaxStores

Numbers ==
    /\ slot \in 0 .. MaxTests /\ result \in 0 .. MaxTests
    /\ tests \in 0 .. MaxTests /\ answer \in 0 .. MaxTests
    /\ faults \in 0 .. MaxFaults

LEMMA TypeParts == TypeOK <=> Flags /\ Versions /\ Numbers
  BY DEF TypeOK, Flags, Versions, Numbers

LEMMA TypeInit == Init => Flags /\ Versions /\ Numbers
<1>1. Init => Flags
  BY DEF Init, Flags
<1>2. Init => Versions
  BY TableAssumption DEF Init, Versions, Nothing, Empty
<1>3. Init => Numbers
  BY TableAssumption DEF Init, Numbers
<1> QED
  BY <1>1, <1>2, <1>3

LEMMA FlagsStep == Flags /\ [Next]_vars => Flags'
<1> SUFFICES ASSUME Flags, [Next]_vars PROVE Flags'
  OBVIOUS
<1> USE DEF Flags, table, mailbox, csv
<1>1. CASE Store
  BY <1>1 DEF Store, OpenForWrite, Written, WriteFails, RequestReload
<1>2. CASE BeginReload \/ Count \/ Parse
  BY <1>2 DEF BeginReload, Count, Parse, Taken
<1>3. CASE LoadFails \/ Swap
  BY <1>3 DEF LoadFails, Swap, Taken
<1>4. CASE Claim \/ Execute \/ Give
  BY <1>4 DEF Claim, Execute, Give
<1>5. CASE Stage \/ Answered
  BY <1>5 DEF Stage, Answered
<1>6. CASE TimesOut \/ Drained
  BY <1>6 DEF TimesOut, Drained, AfterTimeout
<1>7. CASE Trip
  BY <1>7 DEF Trip, BuildColumns, OpenTrip, CloseTrip
<1>8. CASE UNCHANGED vars
  BY <1>8 DEF vars
<1> QED
  BY <1>1, <1>2, <1>3, <1>4, <1>5, <1>6, <1>7, <1>8 DEF Next, Reload, Test

LEMMA VersionsStep == Versions /\ [Next]_vars => Versions'
<1> SUFFICES ASSUME Versions, [Next]_vars PROVE Versions'
  OBVIOUS
<1> USE TableAssumption DEF Versions, table, mailbox, csv
<1>1. CASE OpenForWrite
  BY <1>1 DEF OpenForWrite
<1>2. CASE Written \/ WriteFails \/ RequestReload
  BY <1>2 DEF Written, WriteFails, RequestReload
<1>3. Read \in 0 .. MaxStores
  BY DEF Read, Empty
<1>4. CASE BeginReload
  BY <1>4 DEF BeginReload
<1>5. CASE Count \/ Parse
  BY <1>3, <1>5 DEF Count, Parse
<1>6. CASE LoadFails \/ Swap
  <2>1. CASE LoadFails
    BY <2>1 DEF LoadFails, Nothing, Empty
  <2>2. CASE Swap
    <3>1. live' \in {live, load.parsed} /\ load' = Nothing
          /\ UNCHANGED <<file, stores, cols>>
      BY <2>2 DEF Swap
    <3> QED
      BY <3>1 DEF Nothing, Empty
  <2> QED
    BY <1>6, <2>1, <2>2
<1>7. CASE Test
  BY <1>7 DEF Test, Claim, Execute, Give, Stage, Answered, TimesOut, Drained
<1>8. CASE Trip
  BY <1>8 DEF Trip, BuildColumns, OpenTrip, CloseTrip, Empty
<1>9. CASE UNCHANGED vars
  BY <1>9 DEF vars
<1> QED
  BY <1>1, <1>2, <1>4, <1>5, <1>6, <1>7, <1>8, <1>9 DEF Next, Store, Reload

LEMMA NumbersStep == Numbers /\ [Next]_vars => Numbers'
<1> SUFFICES ASSUME Numbers, [Next]_vars PROVE Numbers'
  OBVIOUS
<1> USE TableAssumption DEF Numbers, table, mailbox, csv
<1>1. CASE Store
  BY <1>1 DEF Store, OpenForWrite, Written, WriteFails, RequestReload
<1>2. CASE Reload
  <2>1. CASE BeginReload \/ Count \/ Parse \/ Swap
    BY <2>1 DEF BeginReload, Count, Parse, Swap
  <2>2. CASE LoadFails
    BY <2>2 DEF LoadFails
  <2> QED
    BY <1>2, <2>1, <2>2 DEF Reload
<1>3. CASE Claim \/ Execute \/ Give
  BY <1>3 DEF Claim, Execute, Give
<1>4. CASE Stage
  BY <1>4 DEF Stage
<1>5. CASE Answered \/ TimesOut \/ Drained
  BY <1>5 DEF Answered, TimesOut, Drained
<1>6. CASE Trip
  BY <1>6 DEF Trip, BuildColumns, OpenTrip, CloseTrip
<1>7. CASE UNCHANGED vars
  BY <1>7 DEF vars
<1> QED
  BY <1>1, <1>2, <1>3, <1>4, <1>5, <1>6, <1>7 DEF Next, Test

(* Every variable keeps its type: what is loaded or in use is a table that *)
(* was stored, or the empty one.                                           *)
THEOREM TypeCorrect == Spec => []TypeOK
  BY TypeInit, FlagsStep, VersionsStep, NumbersStep, TypeParts, PTL DEF Spec

(* What is promised of a table replaced under its users, altogether        *)
(* (autopid_config.c, poll_log.c, config_server.c, csv_logger.c).          *)
THEOREM TableStaysSound == Spec => TableIsSound
  BY TypeCorrect, ReloadFits, TesterIsToldItsOwn, TripKeepsColumns, PTL
  DEF TableIsSound


-----------------------------------------------------------------------------
(* What the poll task believes about the car, pass by pass: the gate it      *)
(* opens to the CSV writer and the silence it takes for a car that is off.   *)
CONSTANTS EngineOff, GateStale, Probe, FlipMin, MaxQuiesce, Withheld, GateOff,
          RpmStale, Confirms, Every

VARIABLES normal, answering, okAge, normAge, flipAge, withheld, gate, low, blocks,
          engine, engLow, rpmAge, rpmRuns, ctr, ran, rpm, casts, mute, ecu, volts,
          session, hold

Gate == INSTANCE PollGate

\* As poll_log.c defines them: an answer stops being fresh for the divisors
\* well before its absence means that the ECU is gone.
GateConstants ==
    /\ {EngineOff, GateStale, Probe, FlipMin, MaxQuiesce, Withheld, GateOff, RpmStale,
        Confirms} \subseteq Nat
    /\ Every \in Nat \ {0} /\ GateStale <= EngineOff

GateInv ==
    /\ okAge \in Nat /\ gate \in BOOLEAN /\ normal \in BOOLEAN
    /\ answering \in BOOLEAN
    /\ gate => answering /\ normal

LEMMA GateInit == ASSUME GateConstants PROVE Gate!Init => GateInv
<1> SUFFICES ASSUME Gate!Init PROVE GateInv
  OBVIOUS
<1>1. okAge \in Nat
  BY DEF GateConstants, Gate!Init
<1>2. normal = TRUE /\ answering = FALSE /\ gate = FALSE
  BY DEF Gate!Init
<1> QED
  BY <1>1, <1>2 DEF GateInv

\* What the gate becomes, and that it opens only for an ECU that answers.
LEMMA GateOpens ==
    ASSUME GateInv
    PROVE  Gate!Step.gate \in BOOLEAN /\ (Gate!Step.gate => answering \/ gate)
  BY DEF GateInv, Gate!Step

LEMMA GateStep ==
    ASSUME GateConstants, GateInv, [Gate!Next]_(Gate!vars)  PROVE GateInv'
<1> USE DEF GateInv
<1>1. CASE Gate!NormalPass
  <2>1. normal /\ (okAge' = 0 \/ okAge' = okAge)
    BY <1>1 DEF Gate!NormalPass
  <2>2. CASE Gate!GivesUp
    <3>1. gate' = FALSE /\ normal' = FALSE /\ answering' = FALSE
      BY <1>1, <2>2 DEF Gate!NormalPass, Gate!Become, Gate!ForceClose
    <3>2. okAge' \in Nat
      BY <2>1
    <3> QED
      BY <3>1, <3>2
  <2>3. CASE ~Gate!GivesUp
    <3>1. /\ gate' = Gate!Step.gate /\ normal' = normal
          /\ answering' = (answering \/ Gate!Answered)
      BY <1>1, <2>3 DEF Gate!NormalPass, Gate!Become
    <3>2. gate' \in BOOLEAN /\ (gate' => answering)
      BY <3>1, GateOpens
    <3>3. answering' \in BOOLEAN /\ (answering => answering')
      BY <3>1
    <3> QED
      BY <2>1, <3>1, <3>2, <3>3
  <2> QED
    BY <2>2, <2>3
<1>2. CASE Gate!QuietPass
  <2>1. gate' = gate /\ okAge' = okAge /\ ~normal
    BY <1>2 DEF Gate!QuietPass
  <2>2. \/ normal' = TRUE /\ answering' = FALSE
        \/ normal' = normal /\ answering' = answering
    BY <1>2 DEF Gate!QuietPass
  <2> QED
    BY <2>1, <2>2
<1>3. CASE Gate!WithheldPass
  <2>1. gate' = FALSE /\ answering' = FALSE /\ okAge' = okAge
        /\ (normal' = TRUE \/ normal' = normal)
    BY <1>3 DEF Gate!WithheldPass, Gate!Become, Gate!ForceClose
  <2> QED
    BY <2>1
<1>4. CASE Gate!Clock
  <2>1. gate' = gate /\ normal' = normal /\ answering' = answering
        /\ (okAge' = okAge + 1 \/ okAge' = okAge)
    BY <1>4 DEF Gate!Clock, Gate!Older
  <2> QED
    BY <2>1
<1>5. CASE UNCHANGED <<gate, normal, answering, okAge>>
  BY <1>5
<1>6. Gate!ParkedPass \/ Gate!Outside \/ UNCHANGED Gate!vars
      => UNCHANGED <<gate, normal, answering, okAge>>
  BY DEF Gate!ParkedPass, Gate!Outside, Gate!vars, Gate!belief
<1> QED
  BY <1>1, <1>2, <1>3, <1>4, <1>5, <1>6 DEF Gate!Next, Gate!Pass

(* The gate is open to the CSV writer only while the ECU answers and the     *)
(* controller is in normal mode: no way out of normal polling, not the       *)
(* silence, the missing bus nor another user of it, leaves it open           *)
(* (polllog_task, poll_gate_force_close).                                    *)
THEOREM GateFollowsTheEcu == ASSUME GateConstants PROVE Gate!Spec => []Gate!GateNeedsEcu
<1>1. GateInv => Gate!GateNeedsEcu
  BY DEF GateInv, Gate!GateNeedsEcu
<1> QED
  BY GateInit, GateStep, <1>1, PTL DEF Gate!Spec

LEMMA SilenceIsReal ==
    ASSUME GateConstants, GateInv, [Gate!Next]_(Gate!vars),
           normal, ~normal', answering
    PROVE  ecu = "off" \/ mute
<1>1. Gate!NormalPass /\ Gate!GivesUp
  BY DEF Gate!Next, Gate!Pass, Gate!NormalPass, Gate!QuietPass, Gate!WithheldPass,
         Gate!ParkedPass, Gate!Clock, Gate!Outside, Gate!vars, Gate!belief
<1>2. okAge > EngineOff /\ ~Gate!Answered
  BY <1>1 DEF Gate!GivesUp
<1>3. ~Gate!Divide
  BY <1>2 DEF Gate!Divide, GateConstants, GateInv
<1> QED
  BY <1>2, <1>3 DEF Gate!Answered

(* An ECU that answers is never taken for one that is gone: the task falls   *)
(* silent only when the car is off or answers nothing, however rarely the    *)
(* divisors have it asked and however long a host had the bus                *)
(* (poll_log.c, the quiesce).                                                *)
THEOREM KeyOffIsReal == ASSUME GateConstants PROVE Gate!Spec => Gate!NoFalseKeyOff
<1>1. GateConstants /\ GateInv /\ [Gate!Next]_(Gate!vars)
      => GateInv' /\ [normal /\ ~normal' /\ answering
                      => ecu = "off" \/ mute]_(Gate!vars)
  BY GateStep, SilenceIsReal
<1> QED
  BY GateInit, <1>1, PTL DEF Gate!Spec, Gate!NoFalseKeyOff

-----------------------------------------------------------------------------
(* The types of the gate: what is told, and what is counted.                 *)

Told ==
    /\ {normal, answering, gate, engine, rpmRuns, ran, casts, mute, session} \subseteq BOOLEAN
    /\ rpm \in {"poll", "cast", "dead", "none"} /\ ecu \in {"off", "key", "run"}
    /\ volts \in {"ok", "low"} /\ hold \in {"free", "park", "off"}
Ages ==
    /\ okAge \in 0 .. EngineOff + 1 /\ normAge \in 0 .. Probe + 1
    /\ flipAge \in 0 .. MaxQuiesce + 1 /\ withheld \in 0 .. Withheld + 2
    /\ low \in 0 .. GateOff + 2 /\ engLow \in 0 .. GateOff + 2 /\ blocks \in 0 .. Confirms
    /\ rpmAge \in 0 .. RpmStale + 1 /\ ctr \in 0 .. Every - 1

LEMMA GateTypes == Gate!TypeOK <=> Told /\ Ages
  BY DEF Gate!TypeOK, Told, Ages

LEMMA GateStarts == ASSUME GateConstants PROVE Gate!Init => Told /\ Ages
<1> SUFFICES ASSUME Gate!Init PROVE Told /\ Ages
  OBVIOUS
<1>1. Told
  BY DEF Gate!Init, Told
<1>2. Ages
  BY DEF Gate!Init, Ages, GateConstants
<1> QED
  BY <1>1, <1>2

\* What the gate and the engine's latch become.
LEMMA StepTyped ==
    ASSUME GateConstants, Told, Ages
    PROVE  /\ Gate!Step.gate \in BOOLEAN /\ Gate!Edge.on \in BOOLEAN
           /\ Gate!Step.low \in 0 .. GateOff + 2 /\ Gate!Edge.low \in 0 .. GateOff + 2
           /\ Gate!Step.blocks \in 0 .. Confirms
<1>1. Gate!Step.gate \in BOOLEAN
  BY DEF Told, Gate!Step
<1>2. Gate!Edge.on \in BOOLEAN
  BY DEF Gate!Edge
<1>3. Gate!Step.low \in 0 .. GateOff + 2
  BY DEF Ages, GateConstants, Gate!Step
<1>4. Gate!Edge.low \in 0 .. GateOff + 2
  BY DEF Ages, GateConstants, Gate!Edge
<1>5. Gate!Step.blocks \in 0 .. Confirms
  BY DEF Ages, GateConstants, Gate!Step, Gate!MustWait
<1> QED
  BY <1>1, <1>2, <1>3, <1>4, <1>5

LEMMA ToldStep ==
    ASSUME GateConstants, Told, Ages, [Gate!Next]_(Gate!vars)  PROVE Told'
<1>1. CASE Gate!NormalPass
  <2>1. /\ rpmRuns' \in BOOLEAN /\ ran' = TRUE
        /\ UNCHANGED <<casts, mute, session, rpm, ecu, volts, hold>>
    BY <1>1 DEF Gate!NormalPass, Told, Gate!car
  <2>2. CASE Gate!GivesUp
    <3>1. normal' = FALSE /\ answering' = FALSE /\ gate' = FALSE /\ engine' = FALSE
      BY <1>1, <2>2 DEF Gate!NormalPass, Gate!Become, Gate!ForceClose
    <3> QED
      BY <2>1, <3>1 DEF Told
  <2>3. CASE ~Gate!GivesUp
    <3>1. /\ normal' = normal /\ answering' = (answering \/ Gate!Answered)
          /\ gate' = Gate!Step.gate /\ engine' = Gate!Edge.on
      BY <1>1, <2>3 DEF Gate!NormalPass, Gate!Become
    <3>2. gate' \in BOOLEAN /\ engine' \in BOOLEAN
      BY <3>1, StepTyped
    <3> QED
      BY <2>1, <3>1, <3>2 DEF Told
  <2> QED
    BY <2>2, <2>3
<1>2. CASE Gate!QuietPass
  <2>1. /\ {normal', answering'} \subseteq BOOLEAN /\ ran' = TRUE
        /\ UNCHANGED <<gate, engine, rpmRuns, casts, mute, session, rpm, ecu, volts, hold>>
    BY <1>2 DEF Gate!QuietPass, Told, Gate!car
  <2> QED
    BY <2>1 DEF Told
<1>3. CASE Gate!WithheldPass
  <2>1. /\ answering' = FALSE /\ gate' = FALSE /\ engine' = engine /\ ran' = TRUE
        /\ normal' \in {TRUE, normal} /\ hold' \in {"free", hold}
        /\ UNCHANGED <<rpmRuns, casts, mute, session, rpm, ecu, volts>>
    BY <1>3 DEF Gate!WithheldPass, Gate!Become, Gate!ForceClose
  <2> QED
    BY <2>1 DEF Told
<1>4. CASE Gate!ParkedPass \/ Gate!Clock \/ UNCHANGED Gate!vars
  <2>1. /\ ran' \in BOOLEAN
        /\ UNCHANGED <<normal, answering, gate, engine, rpmRuns, casts, mute, session,
                       rpm, ecu, volts, hold>>
    BY <1>4 DEF Gate!ParkedPass, Gate!Clock, Gate!vars, Gate!belief, Gate!car, Told
  <2> QED
    BY <2>1 DEF Told
<1>5. CASE Gate!Outside
  <2>1. /\ session' \in BOOLEAN /\ ecu' \in {"off", "key", "run"}
        /\ volts' \in {"ok", "low"} /\ hold' \in {"free", "park", "off"}
        /\ UNCHANGED <<normal, answering, gate, engine, rpmRuns, ran, casts, mute, rpm>>
    BY <1>5 DEF Gate!Outside, Gate!belief, Told
  <2> QED
    BY <2>1 DEF Told
<1> QED
  BY <1>1, <1>2, <1>3, <1>4, <1>5 DEF Gate!Next, Gate!Pass

LEMMA AgesStep ==
    ASSUME GateConstants, Told, Ages, [Gate!Next]_(Gate!vars)  PROVE Ages'
<1> USE DEF GateConstants
<1>1. CASE Gate!NormalPass
  <2>1. /\ rpmAge' \in {0, rpmAge} /\ okAge' \in {0, okAge} /\ ctr' = Gate!Count
        /\ withheld' = 0 /\ normAge' = normAge
    BY <1>1 DEF Gate!NormalPass
  <2>2. ctr' \in 0 .. Every - 1
    BY <2>1 DEF Gate!Count, Gate!Due, Ages
  <2>3. flipAge' \in {0, flipAge}
    BY <1>1 DEF Gate!NormalPass
  <2>4. /\ low' \in {0, Gate!Step.low} /\ blocks' \in {0, Gate!Step.blocks}
        /\ engLow' \in {0, Gate!Edge.low}
    <3>1. CASE Gate!GivesUp
      BY <1>1, <3>1 DEF Gate!NormalPass, Gate!Become, Gate!ForceClose
    <3>2. CASE ~Gate!GivesUp
      BY <1>1, <3>2 DEF Gate!NormalPass, Gate!Become
    <3> QED
      BY <3>1, <3>2
  <2>5. low' \in 0 .. GateOff + 2 /\ engLow' \in 0 .. GateOff + 2 /\ blocks' \in 0 .. Confirms
    BY <2>4, StepTyped
  <2> QED
    BY <2>1, <2>2, <2>3, <2>5 DEF Ages
<1>2. CASE Gate!QuietPass
  <2>1. /\ normAge' \in {0, normAge} /\ flipAge' \in {0, flipAge} /\ withheld' = 0
        /\ UNCHANGED <<okAge, low, blocks, engLow, rpmAge, ctr>>
    BY <1>2 DEF Gate!QuietPass
  <2> QED
    BY <2>1 DEF Ages
<1>3. CASE Gate!WithheldPass
  <2>1. low' = 0 /\ blocks' = 0 /\ engLow' = engLow
    BY <1>3 DEF Gate!WithheldPass, Gate!Become, Gate!ForceClose
  <2>2. /\ withheld' \in {0, 1, withheld} /\ UNCHANGED <<okAge, rpmAge, ctr>>
        /\ normAge' \in {0, normAge} /\ flipAge' \in {0, flipAge}
    BY <1>3 DEF Gate!WithheldPass
  <2> QED
    BY <2>1, <2>2 DEF Ages
<1>4. CASE Gate!Clock
  BY <1>4 DEF Gate!Clock, Gate!Older, Gate!Since, Ages
<1>5. CASE Gate!ParkedPass \/ Gate!Outside \/ UNCHANGED Gate!vars
  <2>1. /\ withheld' \in {0, withheld}
        /\ UNCHANGED <<okAge, normAge, flipAge, low, engLow, blocks, rpmAge, ctr>>
    BY <1>5 DEF Gate!ParkedPass, Gate!Outside, Gate!vars, Gate!belief
  <2> QED
    BY <2>1 DEF Ages
<1> QED
  BY <1>1, <1>2, <1>3, <1>4, <1>5 DEF Gate!Next, Gate!Pass

LEMMA GateTyped == ASSUME GateConstants PROVE Gate!Spec => []Gate!TypeOK
<1>1. GateConstants /\ Told /\ Ages /\ [Gate!Next]_(Gate!vars) => (Told /\ Ages)'
  BY ToldStep, AgesStep
<1> QED
  BY GateStarts, <1>1, GateTypes, PTL DEF Gate!Spec

\* The gate opens for a car that answers only, and the key is never declared
\* off while it answers. (PollGate.)
GateIsTrue ==
    /\ []Gate!TypeOK /\ []Gate!GateNeedsEcu
    /\ Gate!NoFalseKeyOff

(* What the poll task believes of the car is true, for every time-out,       *)
(* divisor and debounce.                                                     *)
THEOREM GateStaysTrue == ASSUME GateConstants PROVE Gate!Spec => GateIsTrue
  BY GateTyped, GateFollowsTheEcu, KeyOffIsReal, PTL DEF GateIsTrue

-----------------------------------------------------------------------------
(* The settings, which the web server and the console both write.            *)
CONSTANTS Secrets, Held, Short, Absent, Odd, Broken, NoFile, MaxSaves, MaxDebugs,
          MaxConfigFaults

VARIABLES disk, ram, cache, form, stage, web, body, before, pending, console, text,
          saves, debugs, config_faults

Cfg == INSTANCE ConfigStore WITH faults <- config_faults, MaxFaults <- MaxConfigFaults

\* There is a secret, and what stands for a missing or a bad value is none.
ConfigConstants ==
    /\ Secrets # {} /\ Held \notin Secrets /\ Short \notin Secrets /\ Held # Short
    /\ Absent \notin {0, 1} /\ Odd \notin {0, 1}
    /\ Broken \notin Cfg!Text /\ NoFile \notin Cfg!Text /\ Broken # NoFile
    /\ {MaxSaves, MaxDebugs, MaxConfigFaults} \subseteq Nat

\* A text that the next boot takes, with a secret of its own.
Good(t) == t \in Cfg!Text /\ Cfg!Parses(t) /\ t.pass # Held
Real(t) == t \in Cfg!Text /\ t.pass # Held

LEMMA DefaultIsGood ==
    ASSUME ConfigConstants PROVE Cfg!Default \in Cfg!Config /\ Good(Cfg!Default)
<1>1. (CHOOSE s \in Secrets : TRUE) \in Secrets
  BY DEF ConfigConstants
<1>2. Cfg!Default \in Cfg!Config /\ Cfg!Default \in Cfg!Text
  BY <1>1 DEF Cfg!Default, Cfg!Config, Cfg!Text
<1>3. Cfg!Default.pass \in Secrets /\ Cfg!Default.mode = 0
  BY <1>1 DEF Cfg!Default
<1> QED
  BY <1>2, <1>3
  DEF Good, ConfigConstants, Cfg!Parses, Cfg!Missing, Cfg!BadLength

\* What is parsed is a configuration, and the same whatever it is parsed over.
LEMMA ParsedIsConfig ==
    ASSUME ConfigConstants, NEW t, Good(t), NEW s
    PROVE  Cfg!Parsed(t, s) \in Cfg!Config /\ Cfg!Parsed(t, s) = Cfg!Parsed(t, Cfg!Default)
<1>1. t.pass \in Secrets /\ t.mode \in 0 .. 1 /\ t.debug \in 0 .. 1
  BY DEF ConfigConstants, Good, Cfg!Text, Cfg!Parses, Cfg!Missing, Cfg!BadLength
<1>2. t.led \in {0, 1, Absent, Odd}
  BY DEF Good, Cfg!Text
<1>3. Cfg!Led(t) \in 0 .. 1
  BY <1>2, DefaultIsGood DEF Cfg!Led, Cfg!Usable, Cfg!LedDefault, Cfg!Config
<1> QED
  BY <1>1, <1>3 DEF Cfg!Parsed, Cfg!Config

\* The copies, the text a save writes, and what is on the way to a console.
Copies ==
    /\ disk \in {NoFile, Broken} \/ Real(disk)
    /\ ram \in Cfg!Config /\ Real(cache)
    /\ text = Broken \/ Real(text)
    /\ web = "writing" => Good(body)
    /\ debugs \in Nat /\ config_faults \in Nat
    /\ console # "idle" => debugs # 0

\* With neither a fault nor a debug command, what a save or a boot leaves is a
\* text that boots, and the copies agree unless a restart is to come.
Agreed ==
    stage = "up" /\ web = "idle" /\ debugs = 0 /\ config_faults = 0 =>
        /\ Good(disk)
        /\ ~pending => Cfg!Parsed(disk, Cfg!Default) = ram /\ cache = disk

LEMMA ConfigInit == ASSUME ConfigConstants PROVE Cfg!Init => Copies /\ Agreed
<1> SUFFICES ASSUME Cfg!Init PROVE Copies /\ Agreed
  OBVIOUS
<1>1. disk \in {Cfg!Default, NoFile, Broken} /\ ram = Cfg!Default /\ cache = Cfg!Default
      /\ text = Broken /\ web = "idle" /\ stage = "boot" /\ console = "idle"
      /\ debugs = 0 /\ config_faults = 0
  BY DEF Cfg!Init
<1>2. Real(Cfg!Default) /\ Cfg!Default \in Cfg!Config
  BY DefaultIsGood DEF Good, Real
<1> QED
  BY <1>1, <1>2 DEF Copies, Agreed

LEMMA BootStep ==
    ASSUME ConfigConstants, Copies, Agreed, Cfg!Boot  PROVE Copies' /\ Agreed'
<1>1. UNCHANGED <<web, body, text, console, debugs, config_faults, pending>>
  BY DEF Cfg!Boot, Cfg!counts
<1>2. CASE stage' = "recover" /\ UNCHANGED <<disk, ram, cache>>
  BY <1>1, <1>2 DEF Copies, Agreed, Real, Good
<1>3. CASE /\ ram' = Cfg!Parsed(disk', Cfg!Default) /\ cache' = disk'
           /\ Good(disk')
  <2>1. ram' \in Cfg!Config
    BY <1>3, ParsedIsConfig
  <2>2. Real(disk')
    BY <1>3 DEF Good, Real
  <2>3. Copies'
    BY <1>1, <1>3, <2>1, <2>2 DEF Copies, Real, Good
  <2> QED
    BY <1>3, <2>3 DEF Agreed, Good
<1>4. disk = NoFile => disk' = Cfg!Default
  BY DEF Cfg!Boot
<1>5. disk # NoFile /\ Cfg!Parses(disk) => disk' = disk /\ Good(disk)
  BY DEF Cfg!Boot, Copies, Good, Real, Cfg!Parses
<1> QED
  BY <1>2, <1>3, <1>4, <1>5, DefaultIsGood DEF Cfg!Boot

LEMMA SaveStep ==
    ASSUME ConfigConstants, Copies, Agreed, NEW f \in Cfg!Edits, Cfg!Save(f)
    PROVE  Copies' /\ Agreed'
<1>1. /\ body' = Cfg!Restored(f) /\ Cfg!Parses(body') /\ web' = "writing"
      /\ disk' \in {disk, Broken}
      /\ UNCHANGED <<ram, cache, text, console, debugs, config_faults>>
  BY DEF Cfg!Save, Cfg!Accepted
<1>2. ram.pass \in Secrets /\ f \in Cfg!Text
  BY DEF Copies, Cfg!Config, Cfg!Edits
<1>3. body' \in Cfg!Text /\ body'.pass # Held
  BY <1>1, <1>2 DEF Cfg!Restored, Cfg!Text, ConfigConstants
<1>4. Good(body')
  BY <1>1, <1>3 DEF Good
<1> QED
  BY <1>1, <1>4 DEF Copies, Agreed, Real, Good

LEMMA CloseStep ==
    ASSUME ConfigConstants, Copies, Agreed, Cfg!Close  PROVE Copies' /\ Agreed'
<1>1. /\ Good(body) /\ web' = "idle"
      /\ UNCHANGED <<stage, text, console, debugs>>
  BY DEF Cfg!Close, Copies
<1>2. \/ disk' = body /\ config_faults' = config_faults
      \/ disk' = Broken /\ config_faults' = config_faults + 1
  BY DEF Cfg!Close
<1>3. \/ ram' = Cfg!Live(body) /\ cache' = body /\ Cfg!Live(body) = Cfg!Shadow(body)
      \/ pending' = TRUE /\ UNCHANGED <<ram, cache>>
  BY DEF Cfg!Close, Cfg!OnlyListed, Cfg!Fresh
<1>4. Cfg!Shadow(body) \in Cfg!Config /\ Cfg!Shadow(body) = Cfg!Parsed(body, Cfg!Default)
  BY <1>1, ParsedIsConfig DEF Cfg!Shadow
<1>5. ram' \in Cfg!Config /\ Real(cache')
  BY <1>1, <1>3, <1>4 DEF Copies, Good, Real
<1>6. config_faults' \in Nat /\ (config_faults' = 0 => disk' = body)
  BY <1>2 DEF Copies
<1>7. disk' \in {NoFile, Broken} \/ Real(disk')
  BY <1>1, <1>2 DEF Good, Real
<1>8. Copies'
  BY <1>1, <1>5, <1>6, <1>7 DEF Copies, Real, Good
<1>9. ~pending' => ram' = Cfg!Parsed(body, Cfg!Default) /\ cache' = body
  BY <1>3, <1>4
<1>10. Agreed'
  BY <1>1, <1>6, <1>9 DEF Agreed, Good
<1> QED
  BY <1>8, <1>10

LEMMA ConfigStep ==
    ASSUME ConfigConstants, Copies, Agreed, [Cfg!Next]_(Cfg!vars)
    PROVE  Copies' /\ Agreed'
<1>1. CASE Cfg!Boot
  BY <1>1, BootStep
<1>2. CASE Cfg!Recover
  <2>1. disk' = NoFile \/ disk' = Cfg!Default
    BY <1>2 DEF Cfg!Recover, Cfg!WritesDefault
  <2>2. stage' # "up" /\ UNCHANGED <<ram, cache, web, body, text, console, debugs, config_faults>>
    BY <1>2 DEF Cfg!Recover, Cfg!counts
  <2>3. Real(Cfg!Default)
    BY DefaultIsGood DEF Good, Real
  <2> QED
    BY <2>1, <2>2, <2>3 DEF Copies, Agreed, Real, Good
<1>3. CASE Cfg!Reboot \/ Cfg!PowerCut
  <2>1. /\ stage' = "boot" /\ web' = "idle" /\ text' = Broken /\ console' = "idle"
        /\ UNCHANGED <<disk, ram, cache, debugs>>
    BY <1>3 DEF Cfg!Reboot, Cfg!PowerCut, Cfg!Restarted, Cfg!counts
  <2>2. config_faults' = config_faults \/ config_faults' = config_faults + 1
    BY <1>3 DEF Cfg!Reboot, Cfg!PowerCut, Cfg!counts
  <2>3. config_faults' \in Nat
    BY <2>2 DEF Copies
  <2> QED
    BY <2>1, <2>3 DEF Copies, Agreed, Real
<1>4. CASE Cfg!Load \/ UNCHANGED Cfg!vars
  <2>1. UNCHANGED <<disk, ram, cache, stage, web, body, pending, text, console, debugs,
                    config_faults>>
    BY <1>4 DEF Cfg!Load, Cfg!vars, Cfg!counts
  <2> QED
    BY <2>1 DEF Copies, Agreed, Real, Good
<1>5. ASSUME NEW f \in Cfg!Edits, Cfg!Save(f)  PROVE Copies' /\ Agreed'
  BY <1>5, SaveStep
<1>6. CASE Cfg!Close
  BY <1>6, CloseStep
<1>7. CASE Cfg!WriteFails
  <2>1. web' = "idle" /\ disk' = Broken /\ config_faults' = config_faults + 1
        /\ UNCHANGED <<ram, cache, text, console, debugs>>
    BY <1>7 DEF Cfg!WriteFails
  <2>2. config_faults' \in Nat /\ config_faults' # 0
    BY <2>1 DEF Copies
  <2> QED
    BY <2>1, <2>2 DEF Copies, Agreed, Real
<1>8. CASE Cfg!DebugReads
  <2>1. debugs' = debugs + 1
        /\ UNCHANGED <<disk, ram, cache, stage, web, body, pending, config_faults>>
    BY <1>8 DEF Cfg!DebugReads
  <2>2. text' = Broken \/ \E on \in 0 .. 1 : disk \in Cfg!Text
                              /\ text' = [disk EXCEPT !.debug = on]
    BY <1>8 DEF Cfg!DebugReads
  <2>3. text' = Broken \/ Real(text')
    BY <2>2 DEF Copies, Real, Cfg!Text, ConfigConstants
  <2>4. debugs' \in Nat /\ debugs' # 0
    BY <2>1 DEF Copies
  <2> QED
    BY <2>1, <2>3, <2>4 DEF Copies, Agreed, Real, Good
<1>9. CASE Cfg!DebugRemoves \/ Cfg!DebugRenames
  <2>1. UNCHANGED <<ram, cache, stage, web, body, pending, debugs, config_faults>>
    BY <1>9 DEF Cfg!DebugRemoves, Cfg!DebugRenames, Cfg!counts
  <2>2. debugs # 0
    BY <1>9 DEF Cfg!DebugRemoves, Cfg!DebugRenames, Copies
  <2>3. \/ disk' = NoFile /\ text' = text
        \/ disk' = text /\ text' = Broken
    BY <1>9 DEF Cfg!DebugRemoves, Cfg!DebugRenames
  <2>4. (disk' \in {NoFile, Broken} \/ Real(disk')) /\ (text' = Broken \/ Real(text'))
    BY <2>3 DEF Copies
  <2> QED
    BY <2>1, <2>2, <2>4 DEF Copies, Agreed, Real, Good
<1> QED
  BY <1>1, <1>2, <1>3, <1>4, <1>5, <1>6, <1>7, <1>8, <1>9
  DEF Cfg!Next, Cfg!StartUp, Cfg!Saving, Cfg!Debug

(* The placeholder the page shows for a secret never takes the secret's      *)
(* place, in flash, in memory, in the raw copy or on the console's way to    *)
(* the file (config_restore_placeholder_secrets).                            *)
THEOREM SecretsStayReal == ASSUME ConfigConstants PROVE Cfg!Spec => []Cfg!SecretsAreReal
<1>1. ConfigConstants /\ Copies => Cfg!SecretsAreReal
  BY DEF Copies, Real, Cfg!SecretsAreReal, Cfg!Config, ConfigConstants
<1> QED
  BY ConfigInit, ConfigStep, <1>1, PTL DEF Cfg!Spec

(* With neither a fault nor a debug command, a file that was saved boots,    *)
(* and unless a restart is to come the running configuration, its raw copy   *)
(* and the file agree: a live change is what a restart would load            *)
(* (store_config_handler).                                                   *)
THEOREM SavesAreTrue ==
    ASSUME ConfigConstants PROVE Cfg!Spec => [](Cfg!SavedFilesParse /\ Cfg!CopiesAgree)
<1>1. Agreed => Cfg!SavedFilesParse /\ Cfg!CopiesAgree
  BY DEF Agreed, Good, Cfg!SavedFilesParse, Cfg!CopiesAgree
<1> QED
  BY ConfigInit, ConfigStep, <1>1, PTL DEF Cfg!Spec

-----------------------------------------------------------------------------
(* The types of the settings.                                                *)

\* Beside the copies: the page, the save, the console and the counters.
Pages ==
    /\ form \in Cfg!Text /\ body \in Cfg!Text \union {Broken}
    /\ disk \in Cfg!Text \union {NoFile, Broken} /\ text \in Cfg!Text \union {Broken}
    /\ before \in Secrets \union {Held, Short} /\ pending \in BOOLEAN
Steps ==
    /\ stage \in {"boot", "recover", "up"} /\ web \in {"idle", "writing"}
    /\ console \in {"idle", "read", "removed"}
Counted ==
    saves \in 0 .. MaxSaves /\ debugs \in 0 .. MaxDebugs /\ config_faults \in 0 .. MaxConfigFaults

LEMMA ConfigStarts == ASSUME ConfigConstants PROVE Cfg!Init => Pages /\ Steps /\ Counted
<1> SUFFICES ASSUME Cfg!Init PROVE Pages /\ Steps /\ Counted
  OBVIOUS
<1>1. Cfg!Redacted(Cfg!Default) \in Cfg!Text
  BY DefaultIsGood DEF Cfg!Redacted, Good, Cfg!Text
<1>2. Pages
  BY <1>1, DefaultIsGood DEF Cfg!Init, Pages, Good
<1>3. Steps
  BY DEF Cfg!Init, Steps
<1>4. Counted
  BY DEF Cfg!Init, Counted, ConfigConstants
<1> QED
  BY <1>2, <1>3, <1>4

LEMMA CountedStep ==
    ASSUME ConfigConstants, Counted, [Cfg!Next]_(Cfg!vars)  PROVE Counted'
<1>1. /\ saves' = saves \/ (saves < MaxSaves /\ saves' = saves + 1)
      /\ debugs' = debugs \/ (debugs < MaxDebugs /\ debugs' = debugs + 1)
      /\ \/ config_faults' = config_faults
         \/ config_faults < MaxConfigFaults /\ config_faults' = config_faults + 1
  <2>1. CASE Cfg!StartUp \/ UNCHANGED Cfg!vars
    BY <2>1 DEF Cfg!StartUp, Cfg!Boot, Cfg!Recover, Cfg!Reboot, Cfg!vars, Cfg!counts
  <2>2. CASE Cfg!PowerCut \/ Cfg!Load \/ Cfg!Saving
    BY <2>2 DEF Cfg!PowerCut, Cfg!Load, Cfg!Saving, Cfg!Save, Cfg!Close, Cfg!WriteFails,
       Cfg!counts
  <2>3. CASE Cfg!Debug
    BY <2>3 DEF Cfg!Debug, Cfg!DebugReads, Cfg!DebugRemoves, Cfg!DebugRenames, Cfg!counts
  <2> QED
    BY <2>1, <2>2, <2>3 DEF Cfg!Next
<1> QED
  BY <1>1 DEF Counted, ConfigConstants

LEMMA StepsStep ==
    ASSUME Steps, [Cfg!Next]_(Cfg!vars)  PROVE Steps'
<1>1. CASE Cfg!StartUp \/ UNCHANGED Cfg!vars
  BY <1>1 DEF Cfg!StartUp, Cfg!Boot, Cfg!Recover, Cfg!Reboot, Cfg!Restarted, Cfg!vars, Steps
<1>2. CASE Cfg!PowerCut \/ Cfg!Load \/ Cfg!Saving
  BY <1>2 DEF Cfg!PowerCut, Cfg!Restarted, Cfg!Load, Cfg!Saving, Cfg!Save, Cfg!Close,
     Cfg!WriteFails, Steps
<1>3. CASE Cfg!Debug
  BY <1>3 DEF Cfg!Debug, Cfg!DebugReads, Cfg!DebugRemoves, Cfg!DebugRenames, Steps
<1> QED
  BY <1>1, <1>2, <1>3 DEF Cfg!Next

LEMMA PagesStep ==
    ASSUME ConfigConstants, Copies, Pages, [Cfg!Next]_(Cfg!vars)  PROVE Pages'
<1>1. CASE Cfg!Boot
  <2>1. disk' \in {disk, Cfg!Default} /\ UNCHANGED <<form, web, body, before, pending, text>>
    BY <1>1 DEF Cfg!Boot
  <2> QED
    BY <2>1, DefaultIsGood DEF Pages, Good
<1>2. CASE Cfg!Recover
  <2>1. disk' \in {NoFile, Cfg!Default} /\ UNCHANGED <<form, web, body, before, pending, text>>
    BY <1>2 DEF Cfg!Recover, Cfg!WritesDefault
  <2> QED
    BY <2>1, DefaultIsGood DEF Pages, Good
<1>3. CASE Cfg!Reboot \/ Cfg!PowerCut
  <2>1. /\ body' = Broken /\ before' = Held /\ pending' = FALSE /\ text' = Broken
        /\ UNCHANGED <<disk, form>>
    BY <1>3 DEF Cfg!Reboot, Cfg!PowerCut, Cfg!Restarted
  <2> QED
    BY <2>1 DEF Pages
<1>4. CASE Cfg!Load
  <2>1. cache \in Cfg!Text
    BY DEF Copies, Real
  <2>2. Cfg!Redacted(cache) \in Cfg!Text
    BY <2>1 DEF Cfg!Redacted, Cfg!Text
  <2>3. form' = Cfg!Redacted(cache) /\ UNCHANGED <<disk, body, before, pending, text>>
    BY <1>4 DEF Cfg!Load
  <2> QED
    BY <2>2, <2>3 DEF Pages
<1>5. ASSUME NEW f \in Cfg!Edits, Cfg!Save(f)  PROVE Pages'
  <2>1. f \in Cfg!Text /\ ram.pass \in Secrets
    BY <1>5 DEF Cfg!Edits, Copies, Cfg!Config
  <2>2. Cfg!Restored(f) \in Cfg!Text
    BY <2>1 DEF Cfg!Restored, Cfg!Text
  <2>3. /\ body' = Cfg!Restored(f) /\ disk' \in {disk, Broken}
        /\ UNCHANGED <<form, pending, text>>
    BY <1>5 DEF Cfg!Save
  <2>4. before' \in Secrets \union {Held, Short}
    BY <1>5 DEF Cfg!Save, Pages, Cfg!Text
  <2> QED
    BY <2>2, <2>3, <2>4 DEF Pages
<1>6. CASE Cfg!Close \/ Cfg!WriteFails
  <2>1. /\ before' = Held /\ body' = Broken /\ disk' \in {body, Broken}
        /\ pending' \in {pending, TRUE} /\ UNCHANGED <<form, text>>
    BY <1>6 DEF Cfg!Close, Cfg!WriteFails
  <2> QED
    BY <2>1 DEF Pages
<1>7. CASE Cfg!DebugReads
  <2>1. text' = Broken \/ \E on \in 0 .. 1 : disk \in Cfg!Text
                              /\ text' = [disk EXCEPT !.debug = on]
    BY <1>7 DEF Cfg!DebugReads
  <2>2. text' \in Cfg!Text \union {Broken}
    BY <2>1 DEF Cfg!Text
  <2>3. UNCHANGED <<disk, form, body, before, pending>>
    BY <1>7 DEF Cfg!DebugReads
  <2> QED
    BY <2>2, <2>3 DEF Pages
<1>8. CASE Cfg!DebugRemoves \/ Cfg!DebugRenames
  <2>1. /\ disk' \in {NoFile, text} /\ text' \in {text, Broken}
        /\ UNCHANGED <<form, body, before, pending>>
    BY <1>8 DEF Cfg!DebugRemoves, Cfg!DebugRenames
  <2> QED
    BY <2>1 DEF Pages
<1>9. CASE UNCHANGED Cfg!vars
  BY <1>9 DEF Cfg!vars, Pages
<1> QED
  BY <1>1, <1>2, <1>3, <1>4, <1>5, <1>6, <1>7, <1>8, <1>9
  DEF Cfg!Next, Cfg!StartUp, Cfg!Saving, Cfg!Debug

\* No mask is ever stored for a secret, the parsed and the raw copy agree, and
\* what is saved can be read back. (ConfigStore.)
ConfigIsKept ==
    Cfg!TypeOK /\ Cfg!SecretsAreReal /\ Cfg!CopiesAgree /\ Cfg!SavedFilesParse

(* The settings are kept, whichever pages, faults, power cuts and debug      *)
(* commands come in what order, for any secrets and any number of each.      *)
THEOREM ConfigStaysKept == ASSUME ConfigConstants PROVE Cfg!Spec => []ConfigIsKept
<1> DEFINE Inv == Copies /\ Agreed /\ Pages /\ Steps /\ Counted
<1>1. ConfigConstants /\ Inv /\ [Cfg!Next]_(Cfg!vars) => Inv'
  BY ConfigStep, PagesStep, StepsStep, CountedStep
<1>2. Copies /\ Pages /\ Steps /\ Counted => Cfg!TypeOK
  BY DEF Copies, Real, Pages, Steps, Counted, Cfg!TypeOK
<1> HIDE DEF Inv
<1>3. ConfigConstants /\ Cfg!Init => Inv
  BY ConfigInit, ConfigStarts DEF Inv
<1>4. Inv => Cfg!TypeOK
  BY <1>2 DEF Inv
<1> QED
  BY <1>1, <1>3, <1>4, SecretsStayReal, SavesAreTrue, PTL DEF Cfg!Spec, ConfigIsKept
=============================================================================
