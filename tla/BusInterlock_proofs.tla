------------------------ MODULE BusInterlock_proofs ------------------------
(***************************************************************************)
(* Proofs about the bus and what becomes of its answers.  However many     *)
(* PIDs a sweep polls and whatever owners, sleep, uploads and SLCAN do     *)
(* meanwhile, an owner that keeps its flag up meets at most the rest of    *)
(* one pass of the poll task.  Then, as instances, the CSV writer, the     *)
(* live stream of its rows, and the Bluetooth link.                        *)
(***************************************************************************)
EXTENDS BusInterlock, Integers, Sequences, WellFoundedInduction, TLAPS

LEMMA PidsNat == Pids \in Nat /\ Withheld \in Nat
  BY BusAssumption

-----------------------------------------------------------------------------
(* Types.                                                                   *)

LEMMA TypeInit == Init => TypeOK
<1> SUFFICES ASSUME Init PROVE TypeOK
  OBVIOUS
<1>1. held \in [Owner -> BOOLEAN] /\ stray \in [Owner -> Nat]
  BY DEF Init
<1>2. /\ on \in BOOLEAN /\ silent \in BOOLEAN /\ normal \in BOOLEAN
      /\ answering \in BOOLEAN /\ ota \in BOOLEAN
  BY DEF Init
<1>3. pc \in PollPC /\ asked \in 0..3 /\ left \in 0..Pids /\ waited \in Nat
  BY PidsNat DEF Init, PollPC
<1> QED
  BY <1>1, <1>2, <1>3 DEF Init, TypeOK

\* Raising and lowering a flag keep both functions typed, and restart the count.
LEMMA RaiseTyped ==
    ASSUME TypeOK, NEW o \in Owner, Raise(o) \/ Lower(o)
    PROVE  /\ held' \in [Owner -> BOOLEAN]
           /\ stray' \in [Owner -> Nat]
           /\ stray'[o] = 0
           /\ \A p \in Owner \ {o} : stray'[p] = stray[p] /\ held'[p] = held[p]
<1>1. held \in [Owner -> BOOLEAN] /\ stray \in [Owner -> Nat]
  BY DEF TypeOK
<1>2. CASE Raise(o)
  BY <1>1, <1>2 DEF Raise
<1>3. CASE Lower(o)
  BY <1>1, <1>3 DEF Lower
<1> QED
  BY <1>2, <1>3

\* A frame is counted once for each flag that is up.
LEMMA TransmitCounts ==
    ASSUME TypeOK, Transmit
    PROVE  /\ stray' \in [Owner -> Nat]
           /\ \A o \in Owner : /\ stray'[o] <= stray[o] + 1
                               /\ ~held[o] => stray'[o] = stray[o]
  BY DEF TypeOK, Transmit

\* Steps of the parties around the poll task.
Others ==
    \/ \E o \in Owner : OwnerRaises(o) \/ OwnerLowers(o)
    \/ SlcanClose \/ SlcanOpen \/ Sleep \/ Upload \/ ForwardSample \/ ForwardDone

LEMMA TypeOthers == TypeOK /\ Others => TypeOK'
<1> SUFFICES ASSUME TypeOK, Others PROVE TypeOK'
  OBVIOUS
<1>1. UNCHANGED pollVars
  BY DEF Others, OwnerRaises, OwnerLowers, SlcanClose, SlcanOpen, Sleep, SleepCheck,
     SleepFence, SleepStopsBus, ResumeBus, ResumeFence, Upload, UploadStart,
     UploadCheck, UploadStopsBus, UploadFails, ForwardSample, ForwardDone
<1>2. /\ held' \in [Owner -> BOOLEAN]
      /\ stray' \in [Owner -> Nat]
  <2>1. CASE UNCHANGED ownerVars
    BY <2>1 DEF TypeOK, ownerVars
  <2>2. CASE \E o \in Owner : Raise(o) \/ Lower(o)
    BY <2>2, RaiseTyped
  <2>3. "fence" \in Owner
    BY DEF Owner
  <2> QED
    BY <2>1, <2>2, <2>3 DEF Others, OwnerRaises, OwnerLowers, SlcanClose, SlcanOpen,
       Sleep, SleepCheck, SleepFence, SleepStopsBus, ResumeBus, ResumeFence, Upload,
       UploadStart, UploadCheck, UploadStopsBus, UploadFails, ForwardSample,
       ForwardDone
<1>3. /\ on' \in BOOLEAN /\ silent' \in BOOLEAN /\ ota' \in BOOLEAN
      /\ upload' \in {"idle", "check", "stop", "xfer"}
      /\ sleep' \in {"awake", "fence", "wait", "asleep", "resume"}
      /\ forward' \in {"idle", "drain"}
  BY DEF TypeOK, busVars, otherVars, Others, OwnerRaises, OwnerLowers, SlcanClose,
     SlcanOpen, Sleep, SleepCheck, SleepFence, SleepStopsBus, ResumeBus, ResumeFence,
     Upload, UploadStart, UploadCheck, UploadStopsBus, UploadFails, ForwardSample,
     ForwardDone
<1> QED
  BY <1>1, <1>2, <1>3 DEF TypeOK, pollVars

LEMMA TypePoller == TypeOK /\ Poller => TypeOK'
<1> SUFFICES ASSUME TypeOK, Poller PROVE TypeOK'
  OBVIOUS
<1>0. /\ asked \in 0..3 /\ left \in 0..Pids /\ waited \in Nat
      /\ pc \in PollPC /\ target \in {"normal", "quiet"}
      /\ pc = "await" => left # 0
  BY DEF TypeOK
<1>1. UNCHANGED <<held, otherVars>>
  BY DEF Poller, Flip, Ask, PollBus, RunTest, SkipPid, SendPid, Await, EndSweep,
     Listen, FlipStop, FlipSilence, FlipStart, FlipConfirm, ownerVars
<1>2. stray' \in [Owner -> Nat]
  <2>1. UNCHANGED stray \/ Transmit
    BY DEF Poller, Flip, Ask, PollBus, RunTest, SkipPid, SendPid, Await, EndSweep,
       Listen, FlipStop, FlipSilence, FlipStart, FlipConfirm, ownerVars
  <2> QED
    BY <2>1, TransmitCounts DEF TypeOK
<1>3. /\ on' \in BOOLEAN /\ silent' \in BOOLEAN
      /\ normal' \in BOOLEAN /\ answering' \in BOOLEAN
  BY DEF TypeOK, Poller, Flip, Ask, PollBus, RunTest, SkipPid, SendPid, Await,
     EndSweep, Listen, FlipStop, FlipSilence, FlipStart, FlipConfirm, busVars
<1>4. /\ asked' \in 0..3 /\ left' \in 0..Pids /\ waited' \in Nat
      /\ pc' \in PollPC /\ target' \in {"normal", "quiet"}
      /\ pc' = "await" => left' # 0
  <2> USE <1>0, PidsNat DEF PollPC
  <2>1. CASE Ask
    BY <2>1 DEF Ask
  <2>2. CASE PollBus
    BY <2>2 DEF PollBus
  <2>3. CASE RunTest
    BY <2>3 DEF RunTest
  <2>4. CASE SkipPid
    BY <2>4 DEF SkipPid
  <2>5. CASE SendPid
    BY <2>5 DEF SendPid
  <2>6. CASE Await
    BY <2>6 DEF Await
  <2>7. CASE EndSweep \/ Listen
    BY <2>7 DEF EndSweep, Listen
  <2>8. CASE Flip
    BY <2>8 DEF Flip, FlipStop, FlipSilence, FlipStart, FlipConfirm
  <2> QED
    BY <2>1, <2>2, <2>3, <2>4, <2>5, <2>6, <2>7, <2>8 DEF Poller
<1> QED
  BY <1>1, <1>2, <1>3, <1>4 DEF TypeOK, otherVars

LEMMA TypeStep == TypeOK /\ [Next]_vars => TypeOK'
<1>1. TypeOK /\ UNCHANGED vars => TypeOK'
  BY DEF TypeOK, vars, ownerVars, busVars, pollVars, otherVars
<1> QED
  BY <1>1, TypeOthers, TypePoller DEF Next, Others

\* Every variable keeps its type, in every behaviour.
THEOREM TypeCorrect == Spec => []TypeOK
  BY TypeInit, TypeStep, PTL DEF Spec

-----------------------------------------------------------------------------
(* The bound.                                                               *)

Counted ==
    /\ \A o \in Owner : stray[o] + Budget(o) <= Pids + 1
    /\ \A o \in Owner : ~held[o] => stray[o] = 0
    /\ pc # "ask" => asked = 0

\* No position allows more than one pass.
LEMMA BudgetSmall ==
    ASSUME TypeOK, NEW o \in Owner
    PROVE  Budget(o) \in 0..(Pids + 1)
  BY PidsNat DEF TypeOK, PollPC, Budget

LEMMA CountedInit == Init => Counted
  BY PidsNat DEF Init, Counted, Budget, Owner, Place

LEMMA CountedOthers == TypeOK /\ Counted /\ Others => Counted'
<1> SUFFICES ASSUME TypeOK, Counted, Others PROVE Counted'
  OBVIOUS
<1>1. UNCHANGED pollVars
  BY DEF Others, OwnerRaises, OwnerLowers, SlcanClose, SlcanOpen, Sleep, SleepCheck,
     SleepFence, SleepStopsBus, ResumeBus, ResumeFence, Upload, UploadStart,
     UploadCheck, UploadStopsBus, UploadFails, ForwardSample, ForwardDone
<1>2. \A o \in Owner : Budget(o)' = Budget(o)
  BY <1>1 DEF pollVars, Budget
<1>3. CASE UNCHANGED ownerVars
  BY <1>1, <1>2, <1>3 DEF ownerVars, pollVars, Counted
<1>4. ASSUME NEW o \in Owner, Raise(o) \/ Lower(o) PROVE Counted'
  <2>1. /\ stray'[o] = 0
        /\ \A p \in Owner \ {o} : stray'[p] = stray[p] /\ held'[p] = held[p]
    BY <1>4, RaiseTyped
  <2>2. Budget(o)' \in 0..(Pids + 1)
    BY <1>2, BudgetSmall
  <2>3. stray'[o] + Budget(o)' <= Pids + 1
    BY <2>1, <2>2, PidsNat
  <2>4. \A p \in Owner \ {o} : stray'[p] + Budget(p)' <= Pids + 1
    BY <1>2, <2>1 DEF Counted
  <2> QED
    BY <1>1, <2>1, <2>3, <2>4 DEF Counted, pollVars
<1>5. "fence" \in Owner
  BY DEF Owner
<1> QED
  BY <1>3, <1>4, <1>5 DEF Others, OwnerRaises, OwnerLowers, SlcanClose, SlcanOpen,
     Sleep, SleepCheck, SleepFence, SleepStopsBus, ResumeBus, ResumeFence, Upload,
     UploadStart, UploadCheck, UploadStopsBus, UploadFails, ForwardSample, ForwardDone

\* A flag read lowered counts no frame yet; a frame is paid from the budget.
LEMMA CountedPoller == TypeOK /\ Counted /\ Poller => Counted'
<1> SUFFICES ASSUME TypeOK, Counted, Poller PROVE Counted'
  OBVIOUS
<1>1. pc' # "ask" => asked' = 0
  BY DEF Counted, Poller, Flip, Ask, PollBus, RunTest, SkipPid, SendPid, Await,
     EndSweep, Listen, FlipStop, FlipSilence, FlipStart, FlipConfirm
<1>2. ASSUME NEW o \in Owner
      PROVE  /\ stray'[o] + Budget(o)' <= Pids + 1
             /\ ~held'[o] => stray'[o] = 0
  <2>0. /\ stray[o] \in Nat /\ left \in 0..Pids /\ asked \in 0..3
        /\ stray[o] + Budget(o) <= Pids + 1
        /\ ~held[o] => stray[o] = 0
        /\ Place[o] \in 1..4
        /\ pc # "ask" => asked = 0
    BY DEF Counted, TypeOK, Owner, Place
  <2> USE <2>0, PidsNat
  <2>1. CASE Ask
    <3>1. PICK q \in Owner :
            /\ Place[q] = asked + 1
            /\ IF held[q]
                 THEN asked' = 0 /\ waited' = 0 /\ UNCHANGED pc
               ELSE IF asked = 3
                 THEN asked' = 0 /\ pc' = "bus" /\ UNCHANGED waited
               ELSE asked' = asked + 1 /\ UNCHANGED <<pc, waited>>
      BY <2>1 DEF Ask
    <3>2. Place[o] = Place[q] => o = q
      BY DEF Owner, Place
    <3>3. pc = "ask" /\ UNCHANGED ownerVars
      BY <2>1 DEF Ask
    <3> QED
      BY <3>1, <3>2, <3>3 DEF Budget, ownerVars
  <2>2. CASE PollBus
    BY <2>2 DEF PollBus, Budget, ownerVars
  <2>3. CASE RunTest
    <3>1. pc = "test" /\ held' = held /\ pc' \in {"sweep", "listen"} /\ left' = Pids
      BY <2>3 DEF RunTest
    <3>2. /\ stray'[o] \in Nat /\ stray'[o] <= stray[o] + 1
          /\ ~held[o] => stray'[o] = stray[o]
      BY <2>3, TransmitCounts DEF RunTest
    <3>3. Budget(o) = Pids + 1 /\ Budget(o)' \in {0, Pids}
      BY <3>1 DEF Budget
    <3> QED
      BY <3>1, <3>2, <3>3
  <2>4. CASE SkipPid
    BY <2>4 DEF SkipPid, Budget, ownerVars
  <2>5. CASE SendPid
    <3>1. /\ pc = "sweep" /\ left # 0 /\ held' = held /\ pc' = "await"
          /\ left' = left
      BY <2>5 DEF SendPid
    <3>2. /\ stray'[o] \in Nat /\ stray'[o] <= stray[o] + 1
          /\ ~held[o] => stray'[o] = stray[o]
      BY <2>5, TransmitCounts DEF SendPid
    <3>3. Budget(o) = left /\ Budget(o)' = left - 1
      BY <3>1 DEF Budget
    <3> QED
      BY <3>1, <3>2, <3>3
  <2>6. CASE Await
    BY <2>6 DEF Await, Budget, ownerVars
  <2>7. CASE EndSweep \/ Listen
    BY <2>7 DEF EndSweep, Listen, Budget, ownerVars
  <2>8. CASE Flip
    BY <2>8 DEF Flip, FlipStop, FlipSilence, FlipStart, FlipConfirm, Budget,
       ownerVars
  <2> QED
    BY <2>1, <2>2, <2>3, <2>4, <2>5, <2>6, <2>7, <2>8 DEF Poller
<1> QED
  BY <1>1, <1>2 DEF Counted

\* Flags, counts and the poll task's position stay related as BusInv says.
THEOREM Invariance == Spec => []BusInv
<1>1. Init => BusInv
  BY TypeInit, CountedInit DEF BusInv, Counted
<1>2. BusInv /\ [Next]_vars => BusInv'
  <2> SUFFICES ASSUME TypeOK, Counted, [Next]_vars PROVE TypeOK' /\ Counted'
    BY DEF BusInv, Counted
  <2>1. CASE UNCHANGED vars
    BY <2>1, TypeStep DEF Counted, Budget, vars, ownerVars, busVars, pollVars,
       otherVars
  <2> QED
    BY <2>1, TypeStep, CountedOthers, CountedPoller DEF Next, Others
<1> QED
  BY <1>1, <1>2, PTL DEF Spec

\* No owner that keeps its flag up ever meets more than one live test and one
\* sweep, however long the sweep.
THEOREM BoundedStray == Spec => []StrayBound
<1>1. BusInv => StrayBound
  BY BudgetSmall, PidsNat DEF BusInv, StrayBound, TypeOK
<1> QED
  BY <1>1, Invariance, PTL

-----------------------------------------------------------------------------
(* The quiesced bus.  SLCAN 'O' and the resume from sleep switch the         *)
(* controller on in a mode of their own choosing, behind the poll task's     *)
(* back; the claim is for the vehicles on which neither is used.             *)

OwnersOnly == "slcan" \notin Ops /\ "sleep" \notin Ops

\* The flip's bracket keeps the driver off from can_disable to can_enable, and
\* installs it in the mode that is believed afterwards.
ModeInv ==
    /\ sleep = "awake"
    /\ pc = "silence" => ~on
    /\ pc = "start" => ~on /\ (silent <=> target = "quiet")
    /\ pc = "confirm" => (silent <=> target = "quiet")
    /\ pc \notin {"silence", "start", "confirm"} /\ ~normal /\ on => silent
    /\ pc = "listen" => ~normal

LEMMA ModeInit == Init => ModeInv
  BY DEF Init, ModeInv

\* The owners and an upload never switch the controller on.
LEMMA ModeOthers == OwnersOnly /\ ModeInv /\ Others => ModeInv'
<1> SUFFICES ASSUME OwnersOnly, ModeInv, Others PROVE ModeInv'
  OBVIOUS
<1>1. UNCHANGED <<pc, target, normal, silent>>
  BY DEF Others, OwnerRaises, OwnerLowers, SlcanClose, SlcanOpen, Sleep, SleepCheck,
     SleepFence, SleepStopsBus, ResumeBus, ResumeFence, Upload, UploadStart,
     UploadCheck, UploadStopsBus, UploadFails, ForwardSample, ForwardDone, pollVars,
     busVars, OwnersOnly, ModeInv
<1>2. sleep' = "awake" /\ (on' => on)
  BY DEF Others, OwnerRaises, OwnerLowers, SlcanClose, SlcanOpen, Sleep, SleepCheck,
     SleepFence, SleepStopsBus, ResumeBus, ResumeFence, Upload, UploadStart,
     UploadCheck, UploadStopsBus, UploadFails, ForwardSample, ForwardDone, otherVars,
     busVars, OwnersOnly, ModeInv
<1> QED
  BY <1>1, <1>2 DEF ModeInv

LEMMA ModePoller == TypeOK /\ ModeInv /\ Poller => ModeInv'
<1> SUFFICES ASSUME TypeOK, ModeInv, Poller PROVE ModeInv'
  OBVIOUS
<1>0. sleep' = "awake"
  BY DEF ModeInv, otherVars, Poller, Flip, Ask, PollBus, RunTest, SkipPid, SendPid,
     Await, EndSweep, Listen, FlipStop, FlipSilence, FlipStart, FlipConfirm
<1>1. CASE Ask
  BY <1>0, <1>1 DEF Ask, ModeInv, busVars
<1>2. CASE PollBus
  BY <1>0, <1>2 DEF PollBus, ModeInv, busVars
<1>3. CASE RunTest
  BY <1>0, <1>3 DEF RunTest, ModeInv, busVars
<1>4. CASE SkipPid \/ SendPid \/ Await
  BY <1>0, <1>4 DEF SkipPid, SendPid, Await, ModeInv, busVars
<1>5. CASE EndSweep \/ Listen
  BY <1>0, <1>5 DEF EndSweep, Listen, ModeInv, busVars
<1>6. CASE FlipStop
  BY <1>0, <1>6 DEF FlipStop, ModeInv
<1>7. CASE FlipSilence
  BY <1>0, <1>7 DEF FlipSilence, ModeInv
<1>8. CASE FlipStart
  BY <1>0, <1>8 DEF FlipStart, ModeInv
<1>9. CASE FlipConfirm
  BY <1>0, <1>9 DEF FlipConfirm, ModeInv, busVars, TypeOK
<1> QED
  BY <1>1, <1>2, <1>3, <1>4, <1>5, <1>6, <1>7, <1>8, <1>9 DEF Poller, Flip

\* While the poll task is the only one that switches the controller on, a bus it
\* believes quiesced is listen-only whenever it is on: a frame on it is not even
\* acknowledged.
THEOREM QuietSafety == OwnersOnly => (Spec => []QuiescedIsSilent)
<1> SUFFICES ASSUME OwnersOnly PROVE Spec => []QuiescedIsSilent
  OBVIOUS
<1>1. Init => TypeOK /\ ModeInv
  BY TypeInit, ModeInit
<1>2. TypeOK /\ ModeInv /\ [Next]_vars => TypeOK' /\ ModeInv'
  <2> SUFFICES ASSUME TypeOK, ModeInv, [Next]_vars PROVE TypeOK' /\ ModeInv'
    OBVIOUS
  <2>1. CASE UNCHANGED vars
    BY <2>1, TypeStep DEF ModeInv, vars, busVars, pollVars, otherVars
  <2> QED
    BY <2>1, TypeStep, ModeOthers, ModePoller DEF Next, Others
<1>3. ModeInv => QuiescedIsSilent
  BY DEF ModeInv, QuiescedIsSilent
<1> QED
  BY <1>1, <1>2, <1>3, PTL DEF Spec

\* All that the poll task may put on the wire: the rest of one pass for an owner
\* that has raised its flag, and nothing for a vehicle that has stopped answering.
THEOREM BusSafety == OwnersOnly => (Spec => []BusSafe)
<1> SUFFICES ASSUME OwnersOnly PROVE Spec => []BusSafe
  OBVIOUS
<1>1. Spec => []QuiescedIsSilent
  BY QuietSafety
<1> QED
  BY <1>1, Invariance, BoundedStray, PTL DEF BusSafe

-----------------------------------------------------------------------------
(* The writer whose trips freeze the table's columns, its timers in passes   *)
(* of its loop.                                                              *)
CONSTANTS FlushPeriod, Debounce, SdRetry, RotateRows, CloseWait

VARIABLES wpc, got, active, require, ignOn, offPending, offTimer, sinceOn, open,
          rows, pending, flushTimer, backoff, dirty, mode, sleepReq, mark, hpc,
          spc, csv_waited, parked, key, ecu

Csv == INSTANCE CsvWriter WITH waited <- csv_waited

WriterConstants == FlushPeriod \in Nat /\ Debounce \in Nat

\* Unwritten rows are of an open trip and known to be pending, their age and
\* what is left of the flush timer are within its period, and no pass begins
\* with rows whose flush was due in the last one.
FlushInv ==
    /\ flushTimer \in Nat /\ flushTimer <= FlushPeriod /\ dirty \in Nat
    /\ dirty # 0 => open /\ pending /\ dirty + flushTimer <= FlushPeriod + 1
    /\ wpc = "receive" /\ dirty # 0 => flushTimer # 0
    /\ wpc = "rest" /\ open => active

LEMMA FlushInit == ASSUME WriterConstants PROVE Csv!Init => FlushInv
  BY DEF WriterConstants, Csv!Init, FlushInv

LEMMA FlushStep ==
    ASSUME WriterConstants PROVE FlushInv /\ [Csv!Next]_(Csv!vars) => FlushInv'
<1> SUFFICES ASSUME FlushInv, [Csv!Next]_(Csv!vars) PROVE FlushInv'
  OBVIOUS
<1> USE WriterConstants
    DEF WriterConstants, FlushInv, Csv!Others, Csv!PassEnds, Csv!gate, Csv!file,
        Csv!marking, Csv!sleeper, Csv!env
<1>1. CASE Csv!Receive
  <2>1. flushTimer' = (IF flushTimer = 0 THEN 0 ELSE flushTimer - 1)
        /\ dirty' = (IF dirty = 0 THEN 0 ELSE dirty + 1)
        /\ wpc = "receive" /\ wpc' = "file" /\ UNCHANGED <<open, pending>>
    BY <1>1 DEF Csv!Receive, Csv!Less
  <2> QED
    BY <2>1
<1>2. CASE Csv!Close
  BY <1>2 DEF Csv!Close, Csv!CloseTrip
<1>3. CASE Csv!EmitRow
  BY <1>3 DEF Csv!EmitRow
<1>4. CASE Csv!EmitFails
  BY <1>4 DEF Csv!EmitFails
<1>5. CASE Csv!NoRow
  BY <1>5 DEF Csv!NoRow
<1>6. CASE Csv!Idle
  BY <1>6 DEF Csv!Idle
<1>7. CASE Csv!Discard
  BY <1>7 DEF Csv!Discard
<1>8. CASE Csv!OpenTrip
  BY <1>8 DEF Csv!OpenTrip
<1>9. CASE Csv!OpenFails
  BY <1>9 DEF Csv!OpenFails
<1>10. CASE Csv!Keep
  <2>1. /\ open /\ wpc' = "receive"
        /\ IF flushTimer = 0 THEN flushTimer' = FlushPeriod /\ pending' = FALSE
           ELSE flushTimer' = flushTimer /\ pending' = pending
    BY <1>10 DEF Csv!Keep
  <2>2. \/ dirty' = (IF flushTimer = 0 THEN 0 ELSE dirty) /\ open' = open
        \/ dirty' = 0
    BY <1>10 DEF Csv!Keep, Csv!CloseTrip
  <2>3. dirty' # 0 => dirty' = dirty /\ flushTimer # 0
    BY <2>2
  <2>4. flushTimer' \in Nat /\ flushTimer' <= FlushPeriod
    BY <2>1
  <2>5. dirty' \in Nat
    BY <2>2
  <2>6. dirty' # 0 => open'
    BY <2>1, <2>2
  <2>7. dirty' # 0 => pending' /\ dirty' + flushTimer' <= FlushPeriod + 1 /\ flushTimer' # 0
    BY <2>1, <2>3
  <2> QED
    BY <2>1, <2>4, <2>5, <2>6, <2>7
<1>11. CASE UNCHANGED <<wpc, active, open, pending, flushTimer, dirty>>
  BY <1>11
<1>12. Csv!Start \/ Csv!Stop \/ Csv!MarkAsked \/ Csv!MarkSet \/ Csv!SleepAsked
       \/ Csv!SleepLooks \/ Csv!Wake \/ Csv!Outside \/ UNCHANGED Csv!vars
       => UNCHANGED <<wpc, active, open, pending, flushTimer, dirty>>
  BY DEF Csv!Start, Csv!Stop, Csv!MarkAsked, Csv!MarkSet, Csv!SleepAsked,
         Csv!SleepLooks, Csv!Wake, Csv!Outside, Csv!vars
<1> QED
  BY <1>1, <1>2, <1>3, <1>4, <1>5, <1>6, <1>7, <1>8, <1>9, <1>10, <1>11, <1>12
  DEF Csv!Next, Csv!Writer

(* A power cut loses at most the rows of one flush period and a pass, however *)
(* records, silences, rotations and failures of the card alternate            *)
(* (csv_logger_task, the timed and the opportunistic flush).                  *)
THEOREM LossIsBounded == ASSUME WriterConstants PROVE Csv!Spec => []Csv!DataLossBound
<1>1. WriterConstants /\ FlushInv => Csv!DataLossBound
  BY DEF FlushInv, Csv!DataLossBound, WriterConstants
<1> QED
  BY FlushInit, FlushStep, <1>1, PTL DEF Csv!Spec

\* While an off is pending, what is owed of the debounce and what has passed
\* since the last reading of ON make up more than the debounce.
DebounceInv ==
    /\ offTimer \in Nat /\ sinceOn \in Nat
    /\ offPending => offTimer + sinceOn > Debounce

LEMMA DebounceInit == Csv!Init => DebounceInv
  BY DEF Csv!Init, DebounceInv

\* What a pass makes of the reading of the ignition.
LEMMA PollStep ==
    ASSUME WriterConstants, DebounceInv, Csv!Receive
    PROVE  DebounceInv' /\ (ignOn /\ ~ignOn' => sinceOn' > Debounce)
<1> USE DEF WriterConstants, DebounceInv, Csv!Less
<1>1. sinceOn' = IF key = "on" THEN 0
                 ELSE IF sinceOn > Debounce THEN sinceOn ELSE sinceOn + 1
  BY DEF Csv!Receive
<1>2. Csv!IgnitionPoll
  BY DEF Csv!Receive
<1>3. CASE key = "on"
  BY <1>1, <1>2, <1>3 DEF Csv!IgnitionPoll
<1>4. CASE key = "off" /\ ignOn /\ ~offPending
  <2>1. offTimer' = Debounce /\ ignOn' = ignOn
    BY <1>2, <1>4 DEF Csv!IgnitionPoll
  <2>2. sinceOn' \in Nat /\ sinceOn' > 0
    BY <1>1, <1>4
  <2>3. ~(ignOn /\ ~ignOn')
    BY <1>4, <2>1
  <2>4. offTimer' \in Nat /\ sinceOn' \in Nat /\ offTimer' + sinceOn' > Debounce
    <3>1. offTimer' \in Nat
      BY <2>1
    <3> QED
      <4>1. \A d, s \in Nat : s > 0 => d + s > d
        OBVIOUS
      <4>2. Debounce \in Nat
        OBVIOUS
      <4> QED
        BY <4>1, <4>2, <2>1, <2>2, Zenon
  <2> QED
    BY <2>3, <2>4
<1>5. CASE key = "off" /\ offPending /\ offTimer = 0
  BY <1>1, <1>2, <1>5 DEF Csv!IgnitionPoll
<1>6. CASE /\ key # "on" /\ ~(key = "off" /\ ignOn /\ ~offPending)
           /\ ~(key = "off" /\ offPending /\ offTimer = 0)
  BY <1>1, <1>2, <1>6 DEF Csv!IgnitionPoll
<1> QED
  BY <1>3, <1>4, <1>5, <1>6

LEMMA DebounceStep ==
    ASSUME WriterConstants, DebounceInv, [Csv!Next]_(Csv!vars)
    PROVE  DebounceInv' /\ (ignOn /\ ~ignOn' => sinceOn' > Debounce)
<1>1. CASE Csv!Receive
  BY <1>1, PollStep
<1>2. CASE UNCHANGED <<ignOn, offPending, offTimer, sinceOn>>
  BY <1>2 DEF DebounceInv
<1>3. ~Csv!Receive => UNCHANGED <<ignOn, offPending, offTimer, sinceOn>>
  BY DEF Csv!Next, Csv!vars, Csv!Close, Csv!EmitRow, Csv!EmitFails, Csv!NoRow,
         Csv!Idle, Csv!Discard, Csv!OpenTrip, Csv!OpenFails, Csv!Keep, Csv!Start,
         Csv!Stop, Csv!MarkAsked, Csv!MarkSet, Csv!SleepAsked, Csv!SleepLooks,
         Csv!Wake, Csv!Outside, Csv!Others, Csv!gate
<1> QED
  BY <1>1, <1>2, <1>3

(* A dip of the battery never ends a trip: the ignition goes off only once   *)
(* the debounce has passed since it was last read as on (csv_logger_task).   *)
THEOREM DipsKeepTheTrip == ASSUME WriterConstants PROVE Csv!Spec => Csv!DipKeepsTrip
<1>1. WriterConstants /\ DebounceInv /\ [Csv!Next]_(Csv!vars)
      => DebounceInv' /\ [ignOn /\ ~ignOn' => sinceOn' > Debounce]_(Csv!vars)
  BY DebounceStep
<1> QED
  BY DebounceInit, <1>1, PTL DEF Csv!Spec, Csv!DipKeepsTrip

\* The types of the writer: what it is at, and what it counts.
TripConstants ==
    WriterConstants /\ SdRetry \in Nat \ {0} /\ RotateRows \in Nat /\ CloseWait \in Nat

CsvKinds ==
    /\ wpc \in {"receive", "file", "rest"} /\ mode \in {"auto", "on", "off"}
    /\ mark \in {"none", "this", "gone"} /\ hpc \in {"idle", "this", "gone"}
    /\ spc \in {"awake", "waiting", "asleep"}
    /\ key \in {"on", "off", "invalid"} /\ ecu \in {"running", "silent"}

CsvFlags ==
    /\ got \in BOOLEAN /\ active \in BOOLEAN /\ require \in BOOLEAN /\ ignOn \in BOOLEAN
    /\ offPending \in BOOLEAN /\ open \in BOOLEAN /\ pending \in BOOLEAN
    /\ sleepReq \in BOOLEAN /\ parked \in BOOLEAN

CsvCounts ==
    /\ offTimer \in 0 .. Debounce /\ sinceOn \in 0 .. Debounce + 1
    /\ rows \in 0 .. RotateRows /\ flushTimer \in 0 .. FlushPeriod
    /\ backoff \in 0 .. SdRetry /\ dirty \in Nat /\ csv_waited \in 0 .. CloseWait

LEMMA KindsStep == ASSUME CsvKinds, [Csv!Next]_(Csv!vars) PROVE CsvKinds'
<1> USE DEF CsvKinds, Csv!Others, Csv!PassEnds, Csv!gate, Csv!file, Csv!marking,
        Csv!sleeper, Csv!env, Csv!CloseTrip
<1>1. CASE Csv!Receive
  BY <1>1 DEF Csv!Receive, Csv!Rearm, Csv!ManualModeNext
<1>2. CASE Csv!Close
  BY <1>2 DEF Csv!Close
<1>3. CASE Csv!EmitRow
  BY <1>3 DEF Csv!EmitRow
<1>4. CASE Csv!EmitFails
  BY <1>4 DEF Csv!EmitFails
<1>5. CASE Csv!NoRow
  BY <1>5 DEF Csv!NoRow
<1>6. CASE Csv!Idle
  BY <1>6 DEF Csv!Idle
<1>7. CASE Csv!Discard
  BY <1>7 DEF Csv!Discard
<1>8. CASE Csv!OpenTrip
  BY <1>8 DEF Csv!OpenTrip
<1>9. CASE Csv!OpenFails
  BY <1>9 DEF Csv!OpenFails
<1>10. CASE Csv!Keep
  BY <1>10 DEF Csv!Keep
<1>11. CASE Csv!Start
  BY <1>11 DEF Csv!Start
<1>12. CASE Csv!Stop
  BY <1>12 DEF Csv!Stop
<1>13. CASE Csv!MarkAsked
  BY <1>13 DEF Csv!MarkAsked
<1>14. CASE Csv!MarkSet
  BY <1>14 DEF Csv!MarkSet
<1>15. CASE Csv!SleepAsked
  BY <1>15 DEF Csv!SleepAsked, Csv!ManualModeNext
<1>16. CASE Csv!SleepLooks
  BY <1>16 DEF Csv!SleepLooks
<1>17. CASE Csv!Wake
  BY <1>17 DEF Csv!Wake
<1>18. CASE Csv!Outside
  BY <1>18 DEF Csv!Outside
<1>19. CASE UNCHANGED Csv!vars
  BY <1>19 DEF Csv!vars
<1> QED
  BY <1>1, <1>2, <1>3, <1>4, <1>5, <1>6, <1>7, <1>8, <1>9, <1>10, <1>11,
     <1>12, <1>13, <1>14, <1>15, <1>16, <1>17, <1>18, <1>19, Zenon DEF
     Csv!Next

LEMMA FlagsStep ==
    ASSUME CsvFlags, [Csv!Next]_(Csv!vars) PROVE CsvFlags'
<1> USE DEF CsvFlags, Csv!Others, Csv!PassEnds, Csv!gate, Csv!file, Csv!marking,
        Csv!sleeper, Csv!env, Csv!CloseTrip
<1>1. CASE Csv!Receive
  BY <1>1, Zenon DEF Csv!Receive, Csv!IgnitionPoll, Csv!LoggingActive
<1>2. CASE Csv!Close
  BY <1>2, Zenon DEF Csv!Close
<1>3. CASE Csv!EmitRow
  BY <1>3, Zenon DEF Csv!EmitRow
<1>4. CASE Csv!EmitFails
  BY <1>4, Zenon DEF Csv!EmitFails
<1>5. CASE Csv!NoRow
  BY <1>5, Zenon DEF Csv!NoRow
<1>6. CASE Csv!Idle
  BY <1>6, Zenon DEF Csv!Idle
<1>7. CASE Csv!Discard
  BY <1>7, Zenon DEF Csv!Discard
<1>8. CASE Csv!OpenTrip
  BY <1>8, Zenon DEF Csv!OpenTrip
<1>9. CASE Csv!OpenFails
  BY <1>9, Zenon DEF Csv!OpenFails
<1>10. CASE Csv!Keep
  BY <1>10, Zenon DEF Csv!Keep
<1>11. CASE Csv!Start
  BY <1>11, Zenon DEF Csv!Start
<1>12. CASE Csv!Stop
  BY <1>12, Zenon DEF Csv!Stop
<1>13. CASE Csv!MarkAsked
  BY <1>13, Zenon DEF Csv!MarkAsked
<1>14. CASE Csv!MarkSet
  BY <1>14, Zenon DEF Csv!MarkSet
<1>15. CASE Csv!SleepAsked
  BY <1>15, Zenon DEF Csv!SleepAsked
<1>16. CASE Csv!SleepLooks
  BY <1>16, Zenon DEF Csv!SleepLooks
<1>17. CASE Csv!Wake
  BY <1>17, Zenon DEF Csv!Wake
<1>18. CASE Csv!Outside
  BY <1>18, Zenon DEF Csv!Outside
<1>19. CASE UNCHANGED Csv!vars
  BY <1>19 DEF Csv!vars
<1> QED
  BY <1>1, <1>2, <1>3, <1>4, <1>5, <1>6, <1>7, <1>8, <1>9, <1>10, <1>11,
     <1>12, <1>13, <1>14, <1>15, <1>16, <1>17, <1>18, <1>19, Zenon DEF
     Csv!Next

LEMMA CountsStep ==
    ASSUME TripConstants, CsvCounts, [Csv!Next]_(Csv!vars) PROVE CsvCounts'
<1> USE DEF TripConstants, WriterConstants, CsvCounts, Csv!Others, Csv!PassEnds, Csv!gate, Csv!file, Csv!marking,
        Csv!sleeper, Csv!env, Csv!CloseTrip
<1>1. CASE Csv!Receive
  BY <1>1 DEF Csv!Receive, Csv!IgnitionPoll, Csv!Less
<1>2. CASE Csv!Close
  BY <1>2 DEF Csv!Close
<1>3. CASE Csv!EmitRow
  BY <1>3 DEF Csv!EmitRow
<1>4. CASE Csv!EmitFails
  BY <1>4 DEF Csv!EmitFails
<1>5. CASE Csv!NoRow
  BY <1>5 DEF Csv!NoRow
<1>6. CASE Csv!Idle
  BY <1>6 DEF Csv!Idle
<1>7. CASE Csv!Discard
  BY <1>7 DEF Csv!Discard
<1>8. CASE Csv!OpenTrip
  BY <1>8 DEF Csv!OpenTrip
<1>9. CASE Csv!OpenFails
  BY <1>9 DEF Csv!OpenFails
<1>10. CASE Csv!Keep
  <2>1. flushTimer' = FlushPeriod \/ flushTimer' = flushTimer
    BY <1>10 DEF Csv!Keep
  <2>2. rows' = rows \/ rows' = 0
    BY <1>10 DEF Csv!Keep
  <2>3. backoff' = backoff \/ backoff' = SdRetry
    BY <1>10 DEF Csv!Keep
  <2>4. dirty' = dirty \/ dirty' = 0
    BY <1>10 DEF Csv!Keep
  <2>5. UNCHANGED <<offTimer, sinceOn, csv_waited>>
    BY <1>10 DEF Csv!Keep
  <2> QED
    BY <2>1, <2>2, <2>3, <2>4, <2>5
<1>11. CASE Csv!Start
  BY <1>11 DEF Csv!Start
<1>12. CASE Csv!Stop
  BY <1>12 DEF Csv!Stop
<1>13. CASE Csv!MarkAsked
  BY <1>13 DEF Csv!MarkAsked
<1>14. CASE Csv!MarkSet
  BY <1>14 DEF Csv!MarkSet
<1>15. CASE Csv!SleepAsked
  BY <1>15 DEF Csv!SleepAsked
<1>16. CASE Csv!SleepLooks
  BY <1>16 DEF Csv!SleepLooks
<1>17. CASE Csv!Wake
  BY <1>17 DEF Csv!Wake
<1>18. CASE Csv!Outside
  BY <1>18 DEF Csv!Outside
<1>19. CASE UNCHANGED Csv!vars
  BY <1>19 DEF Csv!vars
<1> QED
  BY <1>1, <1>2, <1>3, <1>4, <1>5, <1>6, <1>7, <1>8, <1>9, <1>10, <1>11,
     <1>12, <1>13, <1>14, <1>15, <1>16, <1>17, <1>18, <1>19, Zenon DEF
     Csv!Next

LEMMA WriterTyped == TripConstants /\ Csv!Spec => []Csv!TypeOK
<1> SUFFICES ASSUME TripConstants PROVE Csv!Spec => []Csv!TypeOK
  OBVIOUS
<1>1. Csv!Init => CsvKinds /\ CsvFlags /\ CsvCounts
  <2> SUFFICES ASSUME Csv!Init PROVE CsvKinds /\ CsvFlags /\ CsvCounts
    OBVIOUS
  <2>1. CsvKinds
    BY DEF Csv!Init, CsvKinds
  <2>2. CsvFlags
    BY DEF Csv!Init, CsvFlags
  <2>3. CsvCounts
    BY DEF Csv!Init, CsvCounts, TripConstants, WriterConstants
  <2> QED
    BY <2>1, <2>2, <2>3
<1>2. CsvKinds /\ CsvFlags /\ CsvCounts /\ [Csv!Next]_(Csv!vars)
      => (CsvKinds /\ CsvFlags /\ CsvCounts)'
  BY KindsStep, FlagsStep, CountsStep
<1>3. CsvKinds /\ CsvFlags /\ CsvCounts => Csv!TypeOK
  BY DEF CsvKinds, CsvFlags, CsvCounts, Csv!TypeOK
<1> QED
  BY <1>1, <1>2, <1>3, PTL DEF Csv!Spec

\* What the writer keeps of a trip.
TripIsKept == []Csv!TypeOK /\ []Csv!DataLossBound /\ Csv!DipKeepsTrip

(* The writer loses at most the rows of one flush period and ends no trip    *)
(* for a dip of the ignition, for every period, debounce, back-off, file     *)
(* size and patience of the sleep task (csv_logger_task).                    *)
THEOREM TripStaysKept == ASSUME TripConstants PROVE Csv!Spec => TripIsKept
<1>1. WriterConstants
  BY DEF TripConstants
<1> QED
  BY <1>1, WriterTyped, LossIsBounded, DipsKeepTheTrip, PTL DEF TripIsKept

-----------------------------------------------------------------------------
(* The live stream of the trip's rows.                                       *)
CONSTANTS RingCap, MaxRows, MaxTrips, MaxClients

VARIABLES liveGen, ring, shown, served, syncPending, syncFresh, drops, counted, trips,
          clients, known, next

Live == INSTANCE DatalogStream WITH trip <- shown, rows <- counted

\* What a queue does to a value, one element after the other: q leads from a to
\* b when there are values in between that T lets each element connect.
Path(q, T, a, b) ==
    \E f \in [1 .. Len(q) + 1 -> Int] :
        /\ f[1] = a /\ f[Len(q) + 1] = b
        /\ \A i \in 1 .. Len(q) : <<f[i], q[i], f[i + 1]>> \in T

LEMMA PathAppend ==
    ASSUME NEW M, NEW q \in Seq(M), NEW T, NEW a, NEW b, Path(q, T, a, b),
           NEW m \in M, NEW c \in Int, <<b, m, c>> \in T
    PROVE  Path(Append(q, m), T, a, c)
<1> DEFINE n == Len(q)
           p == Append(q, m)
<1>1. n \in Nat /\ Len(p) = n + 1 /\ p[n + 1] = m /\ \A i \in 1 .. n : p[i] = q[i]
  OBVIOUS
<1>2. PICK f \in [1 .. n + 1 -> Int] :
          /\ f[1] = a /\ f[n + 1] = b
          /\ \A i \in 1 .. n : <<f[i], q[i], f[i + 1]>> \in T
  BY DEF Path
<1> DEFINE g == [i \in 1 .. n + 1 + 1 |-> IF i = n + 1 + 1 THEN c ELSE f[i]]
<1>3. /\ g \in [1 .. n + 1 + 1 -> Int] /\ g[1] = a /\ g[n + 1 + 1] = c /\ g[n + 1] = b
      /\ \A i \in 1 .. n : g[i] = f[i] /\ g[i + 1] = f[i + 1]
  BY <1>1, <1>2
<1> HIDE DEF g, p, n
<1>4. ASSUME NEW i \in 1 .. n + 1 PROVE <<g[i], p[i], g[i + 1]>> \in T
  <2>1. CASE i \in 1 .. n
    BY <1>1, <1>2, <1>3, <2>1
  <2>2. CASE i = n + 1
    BY <1>1, <1>3, <2>2
  <2> QED
    BY <1>1, <2>1, <2>2
<1>5. Path(p, T, a, c)
  <2>1. g \in [1 .. Len(p) + 1 -> Int] /\ g[Len(p) + 1] = c
    BY <1>1, <1>3
  <2>2. \A i \in 1 .. Len(p) : <<g[i], p[i], g[i + 1]>> \in T
    BY <1>1, <1>4
  <2> QED
    BY <1>3, <2>1, <2>2 DEF Path
<1> QED
  BY <1>5 DEF p

LEMMA PathTail ==
    ASSUME NEW M, NEW q \in Seq(M), NEW T, NEW a, NEW b, Path(q, T, a, b), q # <<>>
    PROVE  \E c \in Int : <<a, Head(q), c>> \in T /\ Path(Tail(q), T, c, b)
<1> DEFINE n == Len(q)
           p == Tail(q)
<1>1. /\ n \in Nat \ {0} /\ Len(p) = n - 1 /\ Head(q) = q[1] /\ Len(p) \in Nat
      /\ \A i \in 1 .. n - 1 : p[i] = q[i + 1]
  OBVIOUS
<1>2. PICK f \in [1 .. n + 1 -> Int] :
          /\ f[1] = a /\ f[n + 1] = b
          /\ \A i \in 1 .. n : <<f[i], q[i], f[i + 1]>> \in T
  BY DEF Path
<1> DEFINE g == [i \in 1 .. n - 1 + 1 |-> f[i + 1]]
<1>3. /\ g \in [1 .. n - 1 + 1 -> Int] /\ g[1] = f[2] /\ g[n - 1 + 1] = b
      /\ \A i \in 1 .. n - 1 : g[i] = f[i + 1] /\ g[i + 1] = f[i + 1 + 1]
  BY <1>1, <1>2
<1>4. f[2] \in Int /\ <<a, Head(q), f[2]>> \in T
  BY <1>1, <1>2
<1> HIDE DEF g, p, n
<1>5. ASSUME NEW i \in 1 .. n - 1 PROVE <<g[i], p[i], g[i + 1]>> \in T
  <2>1. i + 1 \in 1 .. n
    BY <1>1
  <2> QED
    BY <1>1, <1>2, <1>3, <2>1
<1>6. Path(p, T, f[2], b)
  <2>1. g \in [1 .. Len(p) + 1 -> Int] /\ g[Len(p) + 1] = b
    BY <1>1, <1>3
  <2>2. \A i \in 1 .. Len(p) : <<g[i], p[i], g[i + 1]>> \in T
    BY <1>1, <1>5
  <2> QED
    BY <1>3, <2>1, <2>2 DEF Path
<1> QED
  BY <1>4, <1>6 DEF p

\* Elements that change nothing.
LEMMA PathFlat ==
    ASSUME NEW M, NEW q \in Seq(M), NEW T, NEW a \in Int,
           \A i \in 1 .. Len(q) : <<a, q[i], a>> \in T
    PROVE  Path(q, T, a, a)
<1> DEFINE g == [i \in 1 .. Len(q) + 1 |-> a]
<1>1. /\ g \in [1 .. Len(q) + 1 -> Int] /\ g[1] = a /\ g[Len(q) + 1] = a
      /\ \A i \in 1 .. Len(q) : g[i] = a /\ g[i + 1] = a
  OBVIOUS
<1> HIDE DEF g
<1> QED
  BY <1>1 DEF Path

\* The messages up to a generation.
LiveMsg(c) == [gen : 0 .. c, dropped : Nat, line : Live!Lines, trip : Nat, row : Nat]

LEMMA LiveMsgs ==
    ASSUME NEW c \in Nat, NEW d \in Nat, c <= d, NEW q \in Seq(LiveMsg(c))
    PROVE  q \in Seq(LiveMsg(d))
<1>1. 0 .. c \subseteq 0 .. d
  OBVIOUS
<1>2. ASSUME NEW m \in LiveMsg(c) PROVE m \in LiveMsg(d)
  BY <1>1, <1>2, Zenon DEF LiveMsg
<1> QED
  BY <1>2

\* What a message of the client's generation does to the row its client has
\* not been accounted for, and to the trip its client knows of.
Adds(g) == {x \in Int \X LiveMsg(clients) \X Int :
    IF x[2].gen = g
    THEN /\ x[3] = x[1] + x[2].dropped + (IF x[2].line = "row" THEN 1 ELSE 0)
         /\ x[2].line = "row" => x[2].row = x[1] + x[2].dropped
    ELSE x[3] = x[1]}

Tells(g) == {x \in Int \X LiveMsg(clients) \X Int :
    IF x[2].gen = g /\ x[2].line # "row" THEN x[3] = x[2].trip
    ELSE /\ x[3] = x[1]
         /\ x[2].gen = g => x[2].trip = x[1]}

LiveTypes ==
    /\ liveGen \in Nat /\ served \in Nat /\ clients \in Nat
    /\ shown \in Nat /\ trips \in Nat
    /\ counted \in Nat /\ drops \in Nat
    /\ syncPending \in BOOLEAN /\ syncFresh \in BOOLEAN
    /\ known \in Int /\ next \in Int
    /\ ring \in Seq(LiveMsg(clients))

\* Only the newest client is ever served, and nothing in the ring is for a
\* client the hook has not met.
LiveGens ==
    /\ liveGen \in {0, clients} /\ served <= clients
    /\ liveGen # 0 /\ served # liveGen => \A i \in 1 .. Len(ring) : ring[i].gen # liveGen

RowsAddUp ==
    liveGen # 0 /\ served = liveGen =>
        \E v \in Int : Path(ring, Adds(liveGen), next, v) /\ v + drops = counted + 1

TripsToldOf ==
    liveGen # 0 /\ served = liveGen =>
        \E k \in Int : Path(ring, Tells(liveGen), known, k) /\ (~syncPending => k = shown)

LiveInv == LiveTypes /\ LiveGens /\ RowsAddUp /\ TripsToldOf

LEMMA LiveStarts == Live!Init => LiveInv
<1> SUFFICES ASSUME Live!Init PROVE LiveInv
  OBVIOUS
<1>1. ring = <<>> /\ liveGen = 0 /\ served = 0 /\ clients = 0 /\ known = -1
  BY DEF Live!Init, Live!Hello
<1>2. LiveTypes
  <2>1. <<>> \in Seq(LiveMsg(clients)) /\ 0 \in Nat /\ -1 \in Int /\ 0 \in Int
    OBVIOUS
  <2>2. FALSE \in BOOLEAN
    OBVIOUS
  <2> QED
    BY <1>1, <2>1, <2>2, Zenon DEF Live!Init, LiveTypes
<1> QED
  BY <1>1, <1>2 DEF LiveInv, LiveGens, RowsAddUp, TripsToldOf

\* One message more in the ring, for the client that is connected.
LEMMA OneMore ==
    ASSUME NEW q \in Seq(LiveMsg(clients)), NEW m \in LiveMsg(clients), m.gen = liveGen,
           NEW a, NEW v \in Int, Path(q, Adds(liveGen), a, v),
           NEW b, NEW k \in Int, Path(q, Tells(liveGen), b, k),
           m.line = "row" => m.row = v + m.dropped /\ m.trip = k
    PROVE  /\ Append(q, m) \in Seq(LiveMsg(clients)) /\ Len(Append(q, m)) = Len(q) + 1
           /\ m.line = "row" => /\ Path(Append(q, m), Adds(liveGen), a, v + m.dropped + 1)
                                /\ Path(Append(q, m), Tells(liveGen), b, k)
           /\ m.line # "row" => /\ Path(Append(q, m), Adds(liveGen), a, v + m.dropped)
                                /\ Path(Append(q, m), Tells(liveGen), b, m.trip)
<1>1. Append(q, m) \in Seq(LiveMsg(clients)) /\ Len(Append(q, m)) = Len(q) + 1
  OBVIOUS
<1>2. m.dropped \in Int /\ m.trip \in Int /\ m.row \in Int
  BY DEF LiveMsg
<1>3. v + m.dropped + 1 \in Int /\ v + m.dropped \in Int /\ v + m.dropped + 0 = v + m.dropped
  BY <1>2
<1>4. CASE m.line = "row"
  <2>1. <<v, m, v + m.dropped + 1>> \in Adds(liveGen)
    BY <1>2, <1>3, <1>4 DEF Adds
  <2>2. <<k, m, k>> \in Tells(liveGen)
    BY <1>2, <1>4 DEF Tells
  <2> QED
    BY <1>1, <1>3, <1>4, <2>1, <2>2, PathAppend
<1>5. CASE m.line # "row"
  <2>1. <<v, m, v + m.dropped>> \in Adds(liveGen)
    BY <1>2, <1>3, <1>5 DEF Adds
  <2>2. <<k, m, m.trip>> \in Tells(liveGen)
    BY <1>2, <1>5 DEF Tells
  <2> QED
    BY <1>1, <1>2, <1>3, <1>5, <2>1, <2>2, PathAppend
<1> QED
  BY <1>4, <1>5

\* A client is served: trip t is open, pend and fresh say what it is due, d is
\* owed to it, a and b are the rows and the trip it has accounted for, v and k
\* those it will have when the ring is empty.
Serving(t, pend, fresh, d, isRow, a, v, b, k) ==
    /\ t \in Nat /\ d \in Nat /\ v \in Int /\ k \in Int
    /\ pend \in BOOLEAN /\ fresh \in BOOLEAN /\ isRow \in BOOLEAN
    /\ Live!Serve(t, pend, fresh, d, isRow)
    /\ counted' = counted + (IF isRow THEN 1 ELSE 0)
    /\ Path(ring, Adds(liveGen), a, v) /\ v + d = counted + 1
    /\ Path(ring, Tells(liveGen), b, k)
    /\ ~pend => k = t

\* What serving a client leaves.
LEMMA ServeKeeps ==
    ASSUME LiveTypes, liveGen \in {0, clients}, counted' \in Nat,
           NEW t, NEW pend, NEW fresh, NEW d, NEW isRow, NEW a, NEW v, NEW b, NEW k,
           Serving(t, pend, fresh, d, isRow, a, v, b, k)
    PROVE  /\ ring' \in Seq(LiveMsg(clients)) /\ Len(ring') >= Len(ring)
           /\ drops' \in Nat /\ syncPending' \in BOOLEAN /\ syncFresh' \in BOOLEAN
           /\ \E w \in Int : Path(ring', Adds(liveGen), a, w) /\ w + drops' = counted' + 1
           /\ \E j \in Int : Path(ring', Tells(liveGen), b, j) /\ (~syncPending' => j = t)
<1>0. /\ t \in Nat /\ d \in Nat /\ v \in Int /\ k \in Int
      /\ pend \in BOOLEAN /\ fresh \in BOOLEAN /\ isRow \in BOOLEAN
      /\ Live!Serve(t, pend, fresh, d, isRow)
      /\ counted' = counted + (IF isRow THEN 1 ELSE 0)
      /\ Path(ring, Adds(liveGen), a, v) /\ v + d = counted + 1
      /\ Path(ring, Tells(liveGen), b, k)
      /\ ~pend => k = t
  BY Zenon DEF Serving
<1> DEFINE line == Live!StateLine(t, fresh)
           sync == Live!Message(line, t, 0, d)
<1>1. PICK synced \in (IF pend THEN BOOLEAN ELSE {FALSE}) :
        LET owed == IF synced THEN 0 ELSE d
            may  == isRow /\ (pend => synced)
            row  == Live!Message("row", t, counted', owed)
        IN  \E sent \in (IF may THEN BOOLEAN ELSE {FALSE}) :
            /\ ring' = (ring \o (IF synced THEN <<sync>> ELSE <<>>))
                            \o (IF sent THEN <<row>> ELSE <<>>)
            /\ syncPending' = (pend /\ ~synced)
            /\ syncFresh' = (fresh /\ ~synced)
            /\ drops' = IF sent THEN 0 ELSE owed + (IF isRow THEN 1 ELSE 0)
  BY <1>0, Zenon DEF Live!Serve
<1> DEFINE owed == IF synced THEN 0 ELSE d
           row  == Live!Message("row", t, counted', owed)
           mid  == IF synced THEN Append(ring, sync) ELSE ring
<1>2. PICK sent \in (IF isRow /\ (pend => synced) THEN BOOLEAN ELSE {FALSE}) :
            /\ ring' = (ring \o (IF synced THEN <<sync>> ELSE <<>>))
                            \o (IF sent THEN <<row>> ELSE <<>>)
            /\ syncPending' = (pend /\ ~synced)
            /\ syncFresh' = (fresh /\ ~synced)
            /\ drops' = IF sent THEN 0 ELSE owed + (IF isRow THEN 1 ELSE 0)
  BY <1>0, <1>1, Zenon
<1>3. synced \in BOOLEAN /\ (synced => pend) /\ sent \in BOOLEAN
      /\ (sent => isRow /\ (pend => synced))
  BY <1>0, <1>2, Zenon
<1>4. liveGen \in 0 .. clients /\ ring \in Seq(LiveMsg(clients)) /\ owed \in Nat
      /\ line \in Live!Lines /\ line # "row"
  <2>1. line \in {"session", "idle", "close"}
    BY <1>0, Zenon DEF Live!StateLine
  <2> QED
    BY <1>0, <2>1 DEF LiveTypes, Live!Lines
<1>5. /\ sync \in LiveMsg(clients) /\ sync.gen = liveGen /\ sync.line = line
      /\ sync.dropped = d /\ sync.trip = t
      /\ row \in LiveMsg(clients) /\ row.gen = liveGen /\ row.line = "row"
      /\ row.dropped = owed /\ row.trip = t /\ row.row = counted'
  <2> HIDE DEF line, owed
  <2>1. "row" \in Live!Lines
    BY DEF Live!Lines
  <2> QED
    BY <1>0, <1>4, <2>1 DEF Live!Message, LiveMsg
<1> HIDE DEF line, sync, row
<1>6. /\ mid \in Seq(LiveMsg(clients)) /\ Len(mid) >= Len(ring)
      /\ \E u \in Int : Path(mid, Adds(liveGen), a, u) /\ u + owed = counted + 1
      /\ \E j \in Int : Path(mid, Tells(liveGen), b, j) /\ (synced => j = t)
                        /\ (~pend => j = t)
  <2>1. CASE synced
    <3>1. /\ Append(ring, sync) \in Seq(LiveMsg(clients))
          /\ Len(Append(ring, sync)) = Len(ring) + 1
          /\ Path(Append(ring, sync), Adds(liveGen), a, v + d)
          /\ Path(Append(ring, sync), Tells(liveGen), b, t)
      BY <1>0, <1>4, <1>5, OneMore, Zenon
    <3>2. v + d \in Int /\ t \in Int /\ owed = 0 /\ v + d + 0 = counted + 1 /\ Len(ring) \in Nat
      BY <1>0, <1>4, <2>1
    <3>3. mid = Append(ring, sync) /\ Len(ring) + 1 >= Len(ring)
      BY <2>1, <3>2
    <3> HIDE DEF mid, owed
    <3> QED
      BY <3>1, <3>2, <3>3, Zenon
  <2>2. CASE ~synced
    <3>1. mid = ring /\ owed = d /\ Len(ring) >= Len(ring)
      BY <1>0, <1>4, <2>2
    <3> HIDE DEF mid, owed
    <3> QED
      BY <1>0, <1>3, <1>4, <2>2, <3>1, Zenon
  <2> QED
    BY <1>3, <2>1, <2>2
<1>7. PICK u \in Int : Path(mid, Adds(liveGen), a, u) /\ u + owed = counted + 1
  BY <1>6
<1>8. PICK j \in Int : /\ Path(mid, Tells(liveGen), b, j)
                       /\ (pend => synced) => j = t
  BY <1>0, <1>3, <1>6
<1>9. ring' = IF sent THEN Append(mid, row) ELSE mid
  <2>1. ring \o (IF synced THEN <<sync>> ELSE <<>>) = mid
    BY <1>0, <1>4, <1>5
  <2> HIDE DEF mid
  <2>2. ring' = mid \o (IF sent THEN <<row>> ELSE <<>>)
    BY <1>2, <2>1, Zenon
  <2>3. mid \o <<row>> = Append(mid, row) /\ mid \o <<>> = mid
    BY <1>5, <1>6
  <2> QED
    BY <2>2, <2>3, Zenon
<1>10. CASE sent
  <2>1. isRow /\ j = t /\ counted' = counted + 1 /\ counted \in Nat /\ drops' = 0
    BY <1>0, <1>2, <1>3, <1>8, <1>10 DEF LiveTypes
  <2>2. row.row = u + row.dropped /\ u + owed + 1 \in Int
        /\ u + owed + 1 + 0 = counted' + 1
    BY <1>0, <1>4, <1>5, <1>7, <2>1
  <2>3. /\ ring' \in Seq(LiveMsg(clients)) /\ Len(ring') = Len(mid) + 1
        /\ Path(ring', Adds(liveGen), a, u + owed + 1)
        /\ Path(ring', Tells(liveGen), b, j)
    <3> HIDE DEF mid, owed
    <3> QED
      BY <1>5, <1>6, <1>7, <1>8, <1>9, <1>10, <2>1, <2>2, OneMore, Zenon
  <2>4. Len(ring') >= Len(ring)
    <3> HIDE DEF mid
    <3> QED
      BY <1>0, <1>4, <1>6, <2>3
  <2>5. 0 \in Nat
    OBVIOUS
  <2> HIDE DEF owed
  <2> QED
    BY <1>2, <2>1, <2>2, <2>3, <2>4, <2>5, Zenon
<1>11. CASE ~sent
  <2>1. drops' = owed + (IF isRow THEN 1 ELSE 0) /\ counted \in Nat
    BY <1>0, <1>2, <1>11 DEF LiveTypes
  <2>2. drops' \in Nat /\ u + drops' = counted' + 1
    <3> HIDE DEF owed
    <3> QED
      BY <1>0, <1>4, <1>7, <2>1
  <2>3. ring' = mid /\ (~syncPending' => j = t)
    BY <1>0, <1>2, <1>3, <1>8, <1>9, <1>11
  <2> HIDE DEF owed, mid
  <2> QED
    BY <1>2, <1>6, <1>7, <1>8, <2>2, <2>3, Zenon
<1> QED
  BY <1>10, <1>11


\* The hook after an event that has owed trip t, and possibly one row more.
LEMMA AdoptKeeps ==
    ASSUME LiveInv, NEW isRow \in BOOLEAN, NEW changed \in BOOLEAN,
           shown' \in Nat, ~changed => shown' = shown,
           counted' = counted + (IF isRow THEN 1 ELSE 0), trips' \in Nat,
           Live!Adopt(shown', isRow, changed), UNCHANGED <<liveGen, clients, known>>
    PROVE  LiveInv' /\ Len(ring') >= Len(ring)
<1>1. LiveTypes /\ LiveGens
  BY DEF LiveInv
<1>2. /\ liveGen' = liveGen /\ clients' = clients /\ known' = known
      /\ Adds(liveGen)' = Adds(liveGen) /\ Tells(liveGen)' = Tells(liveGen)
      /\ LiveMsg(clients)' = LiveMsg(clients)
  BY DEF Adds, Tells, LiveMsg
<1>3. counted' \in Nat /\ counted \in Nat /\ clients \in Nat /\ known \in Int
      /\ liveGen \in {0, clients} /\ next \in Int /\ shown \in Nat
  BY <1>1 DEF LiveTypes, LiveGens
<1>4. CASE liveGen = 0
  <2>1. /\ served' = 0 /\ ring' = ring /\ syncFresh' = syncFresh /\ drops' = drops
        /\ next' = next /\ syncPending' \in BOOLEAN
    BY <1>1, <1>4, Zenon DEF Live!Adopt, LiveTypes
  <2>2. LiveTypes'
    BY <1>1, <1>2, <1>3, <2>1, Zenon DEF LiveTypes
  <2>3. 0 <= clients /\ Len(ring') >= Len(ring)
    BY <1>1, <1>3, <2>1 DEF LiveTypes
  <2>4. LiveGens'
    BY <1>2, <1>3, <1>4, <2>1, <2>3, Zenon DEF LiveGens
  <2> QED
    BY <1>2, <1>4, <2>2, <2>3, <2>4, Zenon DEF LiveInv, RowsAddUp, TripsToldOf
<1>5. ASSUME liveGen # 0, served' = liveGen,
             NEW pend \in BOOLEAN, NEW fresh \in BOOLEAN, NEW d \in Nat,
             Live!Serve(shown', pend, fresh, d, isRow), next' \in Int,
             NEW v \in Int, Path(ring, Adds(liveGen), next', v), v + d = counted + 1,
             NEW k \in Int, Path(ring, Tells(liveGen), known, k), ~pend => k = shown'
      PROVE  LiveInv' /\ Len(ring') >= Len(ring)
  <2>1. /\ ring' \in Seq(LiveMsg(clients)) /\ Len(ring') >= Len(ring)
        /\ drops' \in Nat /\ syncPending' \in BOOLEAN /\ syncFresh' \in BOOLEAN
        /\ \E w \in Int : Path(ring', Adds(liveGen), next', w) /\ w + drops' = counted' + 1
        /\ \E j \in Int : Path(ring', Tells(liveGen), known, j) /\ (~syncPending' => j = shown')
    <3>1. LiveTypes /\ liveGen \in {0, clients} /\ counted' \in Nat /\ shown' \in Nat
      BY <1>1, <1>3, Zenon
    <3>2. Serving(shown', pend, fresh, d, isRow, next', v, known, k)
      BY <1>5, <3>1, Zenon DEF Serving
    <3> QED
      BY <3>1, <3>2, ServeKeeps
  <2>2. LiveTypes'
    BY <1>1, <1>2, <1>3, <1>5, <2>1, Zenon DEF LiveTypes
  <2>3. served' <= clients'
    BY <1>2, <1>3, <1>5
  <2>4. LiveGens'
    BY <1>2, <1>3, <1>5, <2>3, Zenon DEF LiveGens
  <2>5. RowsAddUp'
    BY <1>2, <2>1, Zenon DEF RowsAddUp
  <2>6. TripsToldOf'
    BY <1>2, <2>1, Zenon DEF TripsToldOf
  <2> QED
    BY <2>1, <2>2, <2>4, <2>5, <2>6, Zenon DEF LiveInv
<1>6. CASE liveGen # 0 /\ liveGen # served
  <2>1. served' = liveGen /\ next' = counted + 1 /\ Live!Serve(shown', TRUE, TRUE, 0, isRow)
    BY <1>6, Zenon DEF Live!Adopt
  <2>2. next' \in Int /\ next' + 0 = counted + 1 /\ 0 \in Nat
    BY <1>3, <2>1
  <2>3. ring \in Seq(LiveMsg(clients)) /\ \A i \in 1 .. Len(ring) : ring[i].gen # liveGen
    BY <1>1, <1>6 DEF LiveTypes, LiveGens
  <2>4. ASSUME NEW i \in 1 .. Len(ring)
        PROVE  <<next', ring[i], next'>> \in Adds(liveGen)
               /\ <<known, ring[i], known>> \in Tells(liveGen)
    <3>1. ring[i] \in LiveMsg(clients) /\ ring[i].gen # liveGen
      BY <2>3
    <3> QED
      BY <1>3, <2>2, <3>1 DEF Adds, Tells
  <2>5. Path(ring, Adds(liveGen), next', next') /\ Path(ring, Tells(liveGen), known, known)
    BY <1>3, <2>2, <2>3, <2>4, PathFlat, Zenon
  <2> QED
    BY <1>3, <1>5, <1>6, <2>1, <2>2, <2>5, Zenon
<1>7. CASE liveGen # 0 /\ liveGen = served
  <2>1. /\ served' = liveGen /\ next' = next
        /\ Live!Serve(shown', syncPending \/ changed, syncFresh, drops, isRow)
    BY <1>7, Zenon DEF Live!Adopt
  <2>2. PICK v \in Int : Path(ring, Adds(liveGen), next, v) /\ v + drops = counted + 1
    BY <1>7 DEF LiveInv, RowsAddUp
  <2>3. PICK k \in Int : /\ Path(ring, Tells(liveGen), known, k)
                         /\ ~syncPending => k = shown
    BY <1>7 DEF LiveInv, TripsToldOf
  <2>4. /\ (syncPending \/ changed) \in BOOLEAN /\ syncFresh \in BOOLEAN /\ drops \in Nat
        /\ ~(syncPending \/ changed) => k = shown'
    BY <1>1, <2>3, Zenon DEF LiveTypes
  <2> QED
    BY <1>3, <1>5, <1>7, <2>1, <2>2, <2>3, <2>4, Zenon
<1> QED
  BY <1>4, <1>6, <1>7, Zenon

\* The rows and the trips of what is at the head, and what is owed.
LEMMA HeadIs ==
    ASSUME LiveInv, ring # <<>>, liveGen # 0, Head(ring).gen = liveGen
    PROVE  /\ served = liveGen
           /\ Head(ring) \in LiveMsg(clients)
           /\ Head(ring).line = "row" =>
                  Head(ring).row = next + Head(ring).dropped /\ Head(ring).trip = known
           /\ \E v \in Int :
                  /\ Path(Tail(ring), Adds(liveGen),
                       next + Head(ring).dropped + (IF Head(ring).line = "row" THEN 1 ELSE 0), v)
                  /\ v + drops = counted + 1
           /\ \E k \in Int :
                  /\ Path(Tail(ring), Tells(liveGen),
                       IF Head(ring).line = "row" THEN known ELSE Head(ring).trip, k)
                  /\ ~syncPending => k = shown
<1>1. ring \in Seq(LiveMsg(clients)) /\ 1 \in 1 .. Len(ring) /\ ring[1] = Head(ring)
      /\ Head(ring) \in LiveMsg(clients)
  BY DEF LiveInv, LiveTypes
<1>2. served = liveGen
  BY <1>1 DEF LiveInv, LiveGens
<1>3. PICK v \in Int : Path(ring, Adds(liveGen), next, v) /\ v + drops = counted + 1
  BY <1>2 DEF LiveInv, RowsAddUp
<1>4. PICK c \in Int : <<next, Head(ring), c>> \in Adds(liveGen)
                       /\ Path(Tail(ring), Adds(liveGen), c, v)
  BY <1>1, <1>3, PathTail, Zenon
<1>5. PICK k \in Int : Path(ring, Tells(liveGen), known, k) /\ (~syncPending => k = shown)
  BY <1>2 DEF LiveInv, TripsToldOf
<1>6. PICK t \in Int : <<known, Head(ring), t>> \in Tells(liveGen)
                       /\ Path(Tail(ring), Tells(liveGen), t, k)
  BY <1>1, <1>5, PathTail, Zenon
<1>7. /\ c = next + Head(ring).dropped + (IF Head(ring).line = "row" THEN 1 ELSE 0)
      /\ Head(ring).line = "row" => Head(ring).row = next + Head(ring).dropped
  BY <1>4 DEF Adds
<1>8. /\ t = IF Head(ring).line = "row" THEN known ELSE Head(ring).trip
      /\ Head(ring).line = "row" => Head(ring).trip = known
  BY <1>6 DEF Tells
<1> QED
  BY <1>1, <1>2, <1>3, <1>4, <1>5, <1>6, <1>7, <1>8, Zenon

LEMMA TailShorter ==
    ASSUME LiveTypes, ring # <<>>
    PROVE  /\ Tail(ring) \in Seq(LiveMsg(clients)) /\ Len(Tail(ring)) < Len(ring)
           /\ \A i \in 1 .. Len(Tail(ring)) : i + 1 \in 1 .. Len(ring)
                                              /\ Tail(ring)[i] = ring[i + 1]
<1>1. ring \in Seq(LiveMsg(clients))
  BY DEF LiveTypes
<1> QED
  BY <1>1

LEMMA HooksKeep ==
    ASSUME LiveInv, Live!HookOpen \/ Live!HookClose \/ Live!HookRow \/ Live!HookPoll
    PROVE  LiveInv' /\ Len(ring') >= Len(ring)
<1>1. trips \in Nat /\ shown \in Nat /\ counted \in Nat /\ trips + 1 \in Nat /\ 0 \in Nat
      /\ counted + 0 = counted
  BY DEF LiveInv, LiveTypes
<1>2. CASE Live!HookOpen
  <2>1. /\ trips' = trips + 1 /\ shown' = trips + 1 /\ Live!Adopt(shown', FALSE, TRUE)
        /\ counted' = counted /\ UNCHANGED <<liveGen, clients, known>>
    BY <1>2, Zenon DEF Live!HookOpen, Live!stream
  <2> QED
    BY <1>1, <2>1, AdoptKeeps
<1>3. CASE Live!HookClose
  <2>1. /\ trips' = trips /\ shown' = 0 /\ Live!Adopt(shown', FALSE, TRUE)
        /\ counted' = counted /\ UNCHANGED <<liveGen, clients, known>>
    BY <1>3, Zenon DEF Live!HookClose, Live!stream
  <2> QED
    BY <1>1, <2>1, AdoptKeeps
<1>4. CASE Live!HookRow
  <2>1. /\ trips' = trips /\ shown' = shown /\ Live!Adopt(shown', TRUE, FALSE)
        /\ counted' = counted + 1 /\ UNCHANGED <<liveGen, clients, known>>
    BY <1>4, Zenon DEF Live!HookRow, Live!stream
  <2> QED
    BY <1>1, <2>1, AdoptKeeps
<1>5. CASE Live!HookPoll
  <2>1. /\ trips' = trips /\ shown' = shown /\ Live!Adopt(shown', FALSE, FALSE)
        /\ counted' = counted /\ UNCHANGED <<liveGen, clients, known>>
    BY <1>5, Zenon DEF Live!HookPoll, Live!stream
  <2> QED
    BY <1>1, <2>1, AdoptKeeps
<1> QED
  BY <1>2, <1>3, <1>4, <1>5

LEMMA StreamKeeps ==
    ASSUME LiveInv, Live!Next
    PROVE  LiveInv'
<1>1. LiveTypes /\ LiveGens
  BY DEF LiveInv
<1>2. liveGen \in Nat /\ clients \in Nat /\ served \in Nat /\ served <= clients
      /\ liveGen \in {0, clients} /\ ring \in Seq(LiveMsg(clients))
  BY <1>1 DEF LiveTypes, LiveGens
<1>3. CASE Live!Accept
  <2>1. /\ clients' = clients + 1 /\ liveGen' = clients + 1 /\ known' = -1
        /\ ring' = ring /\ next' = next /\ shown' = shown /\ served' = served
        /\ syncPending' = syncPending /\ syncFresh' = syncFresh /\ drops' = drops
        /\ counted' = counted /\ trips' = trips
    BY <1>3, Zenon DEF Live!Accept, Live!writer, Live!Hello
  <2>2. ring \in Seq(LiveMsg(clients'))
    <3>1. clients + 1 \in Nat /\ clients <= clients + 1
      BY <1>2
    <3> QED
      BY <1>2, <2>1, <3>1, LiveMsgs
  <2>3. clients' \in Nat /\ liveGen' \in Nat /\ -1 \in Int /\ served <= clients'
        /\ served # liveGen'
    BY <1>2, <2>1
  <2>4. LiveTypes'
    BY <1>1, <2>1, <2>2, <2>3, Zenon DEF LiveTypes
  <2>5. ASSUME NEW i \in 1 .. Len(ring) PROVE ring[i].gen # liveGen'
    <3>1. ring[i] \in LiveMsg(clients)
      BY <1>2
    <3>2. ring[i].gen \in 0 .. clients
      BY <3>1 DEF LiveMsg
    <3> QED
      BY <1>2, <2>1, <3>2
  <2>6. LiveGens'
    BY <2>1, <2>3, <2>5, Zenon DEF LiveGens
  <2> QED
    BY <2>1, <2>3, <2>4, <2>6, Zenon DEF LiveInv, RowsAddUp, TripsToldOf
<1>4. CASE Live!DropClient
  <2>1. /\ clients' = clients /\ liveGen' = 0 /\ liveGen # 0 /\ known' = known
        /\ ring' = ring /\ next' = next /\ shown' = shown /\ served' = served
        /\ syncPending' = syncPending /\ syncFresh' = syncFresh /\ drops' = drops
        /\ counted' = counted /\ trips' = trips
    BY <1>4, Zenon DEF Live!DropClient, Live!writer
  <2>2. LiveTypes'
    <3>1. 0 \in Nat
      OBVIOUS
    <3> QED
      BY <1>1, <2>1, <3>1, Zenon DEF LiveTypes
  <2>3. LiveGens'
    BY <1>2, <2>1 DEF LiveGens
  <2> QED
    BY <2>1, <2>2, <2>3, Zenon DEF LiveInv, RowsAddUp, TripsToldOf
<1>5. CASE Live!Deliver
  <2>1. /\ clients' = clients /\ liveGen' = liveGen /\ liveGen # 0 /\ ring # <<>>
        /\ Head(ring).gen = liveGen
        /\ known' = IF Head(ring).line = "row" THEN known ELSE Head(ring).trip
        /\ next' = next + Head(ring).dropped + (IF Head(ring).line = "row" THEN 1 ELSE 0)
        /\ ring' = Tail(ring) /\ shown' = shown /\ served' = served
        /\ syncPending' = syncPending /\ syncFresh' = syncFresh /\ drops' = drops
        /\ counted' = counted /\ trips' = trips
    BY <1>5, Zenon DEF Live!Deliver, Live!writer
  <2>2. /\ served = liveGen
        /\ Head(ring) \in LiveMsg(clients)
        /\ \E v \in Int : Path(ring', Adds(liveGen), next', v) /\ v + drops = counted + 1
        /\ \E k \in Int : Path(ring', Tells(liveGen), known', k)
                          /\ (~syncPending => k = shown)
    BY <2>1, HeadIs, Zenon
  <2>3. Adds(liveGen)' = Adds(liveGen) /\ Tells(liveGen)' = Tells(liveGen)
        /\ LiveMsg(clients)' = LiveMsg(clients)
    BY <2>1 DEF Adds, Tells, LiveMsg
  <2>4. next' \in Int /\ known' \in Int
    <3>1. Head(ring).dropped \in Nat /\ Head(ring).trip \in Nat /\ next \in Int /\ known \in Int
      BY <1>1, <2>2 DEF LiveTypes, LiveMsg
    <3> QED
      BY <2>1, <3>1
  <2>5. LiveTypes'
    BY <1>1, <2>1, <2>3, <2>4, TailShorter, Zenon DEF LiveTypes
  <2>6. LiveGens'
    BY <1>2, <2>1, <2>2, Zenon DEF LiveGens
  <2>7. RowsAddUp'
    BY <2>1, <2>2, <2>3, Zenon DEF RowsAddUp
  <2>8. TripsToldOf'
    BY <2>1, <2>2, <2>3, Zenon DEF TripsToldOf
  <2> QED
    BY <2>5, <2>6, <2>7, <2>8, Zenon DEF LiveInv
<1>6. CASE Live!Discard
  <2>1. /\ clients' = clients /\ liveGen' = liveGen /\ liveGen # 0 /\ ring # <<>>
        /\ Head(ring).gen # liveGen /\ known' = known /\ next' = next
        /\ ring' = Tail(ring) /\ shown' = shown /\ served' = served
        /\ syncPending' = syncPending /\ syncFresh' = syncFresh /\ drops' = drops
        /\ counted' = counted /\ trips' = trips
    BY <1>6, Zenon DEF Live!Discard, Live!writer, Live!stream
  <2>2. Adds(liveGen)' = Adds(liveGen) /\ Tells(liveGen)' = Tells(liveGen)
        /\ LiveMsg(clients)' = LiveMsg(clients)
    BY <2>1 DEF Adds, Tells, LiveMsg
  <2>3. LiveTypes'
    BY <1>1, <2>1, <2>2, TailShorter, Zenon DEF LiveTypes
  <2>4. LiveGens'
    <3>1. ASSUME served # liveGen, NEW i \in 1 .. Len(Tail(ring))
          PROVE  Tail(ring)[i].gen # liveGen
      BY <1>1, <2>1, <3>1, TailShorter DEF LiveGens
    <3> QED
      BY <1>2, <2>1, <3>1, Zenon DEF LiveGens
  <2>5. RowsAddUp'
    <3>1. ASSUME served = liveGen
          PROVE  \E v \in Int : /\ Path(Tail(ring), Adds(liveGen), next, v)
                                /\ v + drops = counted + 1
      <4>1. PICK v \in Int : Path(ring, Adds(liveGen), next, v) /\ v + drops = counted + 1
        BY <2>1, <3>1 DEF LiveInv, RowsAddUp
      <4>2. PICK c \in Int : <<next, Head(ring), c>> \in Adds(liveGen)
                             /\ Path(Tail(ring), Adds(liveGen), c, v)
        BY <1>2, <2>1, <4>1, PathTail, Zenon
      <4>3. c = next
        BY <2>1, <4>2 DEF Adds
      <4> QED
        BY <4>1, <4>2, <4>3, Zenon
    <3> QED
      BY <2>1, <2>2, <3>1, Zenon DEF RowsAddUp
  <2>6. TripsToldOf'
    <3>1. ASSUME served = liveGen
          PROVE  \E k \in Int : /\ Path(Tail(ring), Tells(liveGen), known, k)
                                /\ ~syncPending => k = shown
      <4>1. PICK k \in Int : Path(ring, Tells(liveGen), known, k) /\ (~syncPending => k = shown)
        BY <2>1, <3>1 DEF LiveInv, TripsToldOf
      <4>2. PICK c \in Int : <<known, Head(ring), c>> \in Tells(liveGen)
                             /\ Path(Tail(ring), Tells(liveGen), c, k)
        BY <1>2, <2>1, <4>1, PathTail, Zenon
      <4>3. c = known
        BY <2>1, <4>2 DEF Tells
      <4> QED
        BY <4>1, <4>2, <4>3, Zenon
    <3> QED
      BY <2>1, <2>2, <3>1, Zenon DEF TripsToldOf
  <2> QED
    BY <2>3, <2>4, <2>5, <2>6, Zenon DEF LiveInv
<1>7. CASE Live!HookOpen \/ Live!HookClose \/ Live!HookRow \/ Live!HookPoll
  BY <1>7, HooksKeep
<1> QED
  BY <1>3, <1>4, <1>5, <1>6, <1>7, Zenon DEF Live!Next

LEMMA LiveHolds == Live!Spec => []LiveInv
<1>1. ASSUME LiveInv, [Live!Next]_(Live!vars) PROVE LiveInv'
  <2>1. CASE Live!Next
    BY <1>1, <2>1, StreamKeeps
  <2>2. CASE UNCHANGED Live!vars
    BY <1>1, <2>2 DEF Live!vars, Live!writer, LiveInv, LiveTypes, LiveGens, RowsAddUp,
                      TripsToldOf, Adds, Tells, LiveMsg
  <2> QED
    BY <1>1, <2>1, <2>2
<1> QED
  BY LiveStarts, <1>1, PTL DEF Live!Spec

\* Only a delivery sends a row.
LEMMA RowsAreDelivered ==
    ASSUME LiveInv, Live!Next, Live!SendsRow
    PROVE  Live!Deliver
<1>1. LiveTypes /\ next \in Int /\ ring \in Seq(LiveMsg(clients))
  BY DEF LiveInv, LiveTypes
<1>2. ring # <<>> /\ ring' = Tail(ring) /\ next' > next
  BY DEF Live!SendsRow
<1>3. Len(ring') < Len(ring) /\ ring' # ring
  BY <1>1, <1>2
<1>4. ~Live!Accept /\ ~Live!DropClient
  BY <1>3, Zenon DEF Live!Accept, Live!DropClient
<1>5. ~Live!Discard
  BY <1>1, <1>2 DEF Live!Discard
<1>6. ~(Live!HookOpen \/ Live!HookClose \/ Live!HookRow \/ Live!HookPoll)
  <2>1. ~(Len(ring') >= Len(ring))
    BY <1>1, <1>2, <1>3, TailShorter
  <2> QED
    BY <2>1, HooksKeep, Zenon
<1> QED
  BY <1>4, <1>5, <1>6, Zenon DEF Live!Next

(* The announced gaps add up to the rows a client misses, for any ring, rows,*)
(* trips and clients.                                                        *)
THEOREM GapsAddUp == Live!Spec => Live!GapsAnnounced
<1>1. ASSUME LiveInv, [Live!Next]_(Live!vars)
      PROVE  [Live!SendsRow => Head(ring).row = next + Head(ring).dropped]_(Live!vars)
  <2>1. ASSUME Live!Next, Live!SendsRow
        PROVE  Head(ring).row = next + Head(ring).dropped
    <3>1. Live!Deliver
      BY <1>1, <2>1, RowsAreDelivered
    <3> QED
      BY <1>1, <2>1, <3>1, HeadIs DEF Live!Deliver, Live!SendsRow
  <2> QED
    BY <1>1, <2>1, Zenon
<1> QED
  BY LiveHolds, <1>1, PTL DEF Live!Spec, Live!GapsAnnounced

(* A row a client is sent belongs to the trip it was last told about.        *)
THEOREM RowsFollowTheTrip == Live!Spec => Live!RowsOfKnownTrip
<1>1. ASSUME LiveInv, [Live!Next]_(Live!vars)
      PROVE  [Live!SendsRow => Head(ring).trip = known]_(Live!vars)
  <2>1. ASSUME Live!Next, Live!SendsRow
        PROVE  Head(ring).trip = known
    <3>1. Live!Deliver
      BY <1>1, <2>1, RowsAreDelivered
    <3> QED
      BY <1>1, <2>1, <3>1, HeadIs DEF Live!Deliver, Live!SendsRow
  <2> QED
    BY <1>1, <2>1, Zenon
<1> QED
  BY LiveHolds, <1>1, PTL DEF Live!Spec, Live!RowsOfKnownTrip

\* The types of the stream: what is on its way is of rows, trips and clients
\* there have been, and no client is ahead of the rows.
LiveBounds ==
    RingCap \in Nat /\ MaxRows \in Nat /\ MaxTrips \in Nat /\ MaxClients \in Nat

LiveTold ==
    /\ ring \in Seq(Live!Messages) /\ Len(ring) <= RingCap
    /\ clients <= MaxClients /\ shown <= MaxTrips /\ trips <= MaxTrips
    /\ counted <= MaxRows /\ drops <= counted
    /\ known \in -1 .. MaxTrips /\ next \in 0 .. counted + 1

\* A path along which no step falls does not end below its start.
LEMMA PathRises ==
    ASSUME NEW n \in Nat, NEW f \in [1 .. n + 1 -> Int],
           \A i \in 1 .. n : f[i] <= f[i + 1]
    PROVE  f[1] <= f[n + 1]
<1> DEFINE S == {i \in 1 .. n + 1 : f[i] < f[1]}
           R == OpToRel(<, Nat)
<1> SUFFICES ASSUME f[n + 1] < f[1] PROVE FALSE
  OBVIOUS
<1>1. S \in SUBSET Nat /\ n + 1 \in S
  OBVIOUS
<1>2. IsWellFoundedOn(R, Nat)
  BY NatLessThanWellFounded
<1>3. \E x \in S : \A y \in S : ~(<<y, x>> \in R)
  <2> HIDE DEF R, S
  <2> QED
    BY <1>1, <1>2, WFMin
<1>4. PICK x \in S : \A y \in S : ~(<<y, x>> \in R)
  BY <1>3
<1>5. x \in 1 .. n + 1 /\ x # 1 /\ x - 1 \in 1 .. n /\ f[x] < f[1]
  OBVIOUS
<1>6. f[x - 1] <= f[x] /\ f[x - 1] \in Int /\ f[x] \in Int /\ f[1] \in Int
  BY <1>5
<1>7. x - 1 \in S
  BY <1>5, <1>6
<1>8. ~(<<x - 1, x>> \in {s \in Nat \X Nat : s[1] < s[2]})
  BY <1>4, <1>7 DEF OpToRel
<1>9. x - 1 \in Nat /\ x \in Nat /\ x - 1 < x
  BY <1>5
<1> HIDE DEF S, R
<1> QED
  BY <1>8, <1>9

LEMMA AddsUp ==
    ASSUME NEW q \in Seq(LiveMsg(clients)), NEW g, NEW a, NEW b, Path(q, Adds(g), a, b)
    PROVE  a <= b
<1>1. PICK f \in [1 .. Len(q) + 1 -> Int] :
          /\ f[1] = a /\ f[Len(q) + 1] = b
          /\ \A i \in 1 .. Len(q) : <<f[i], q[i], f[i + 1]>> \in Adds(g)
  BY DEF Path
<1>2. ASSUME NEW i \in 1 .. Len(q) PROVE f[i] <= f[i + 1]
  <2>1. f[i] \in Int /\ f[i + 1] \in Int /\ q[i].dropped \in Nat
    <3>1. q[i] \in LiveMsg(clients) /\ i \in 1 .. Len(q) + 1 /\ i + 1 \in 1 .. Len(q) + 1
      OBVIOUS
    <3> QED
      BY <3>1 DEF LiveMsg
  <2>2. IF q[i].gen = g
        THEN f[i + 1] = f[i] + q[i].dropped + (IF q[i].line = "row" THEN 1 ELSE 0)
        ELSE f[i + 1] = f[i]
    BY <1>1 DEF Adds
  <2> QED
    BY <2>1, <2>2
<1>3. Len(q) \in Nat
  OBVIOUS
<1>4. f[1] <= f[Len(q) + 1]
  <2> DEFINE n == Len(q)
  <2>1. n \in Nat /\ f \in [1 .. n + 1 -> Int] /\ \A i \in 1 .. n : f[i] <= f[i + 1]
    BY <1>2, <1>3
  <2> HIDE DEF n
  <2>2. f[1] <= f[n + 1]
    BY <2>1, PathRises
  <2> QED
    BY <2>2 DEF n
<1> QED
  BY <1>1, <1>4

\* The hook queues messages of the trip there is and the rows so far.
LEMMA ServeTold ==
    ASSUME LiveBounds, LiveTypes, LiveTold, liveGen \in 1 .. MaxClients,
           NEW t \in 0 .. MaxTrips, NEW pend \in BOOLEAN, NEW fresh \in BOOLEAN,
           NEW d \in Nat, d <= counted, NEW isRow \in BOOLEAN,
           counted' = counted + (IF isRow THEN 1 ELSE 0), counted' <= MaxRows,
           Live!Serve(t, pend, fresh, d, isRow)
    PROVE  ring' \in Seq(Live!Messages) /\ Len(ring') <= RingCap /\ drops' <= counted'
<1> DEFINE line == Live!StateLine(t, fresh)
           sync == Live!Message(line, t, 0, d)
<1>1. PICK synced \in (IF pend THEN BOOLEAN ELSE {FALSE}) :
        LET owed == IF synced THEN 0 ELSE d
            may  == isRow /\ (pend => synced)
            row  == Live!Message("row", t, counted', owed)
        IN  \E sent \in (IF may THEN BOOLEAN ELSE {FALSE}) :
            /\ ring' = (ring \o (IF synced THEN <<sync>> ELSE <<>>))
                            \o (IF sent THEN <<row>> ELSE <<>>)
            /\ Len(ring') <= RingCap
            /\ drops' = IF sent THEN 0 ELSE owed + (IF isRow THEN 1 ELSE 0)
  BY Zenon DEF Live!Serve
<1> DEFINE owed == IF synced THEN 0 ELSE d
           row  == Live!Message("row", t, counted', owed)
<1>2. PICK sent \in (IF isRow /\ (pend => synced) THEN BOOLEAN ELSE {FALSE}) :
            /\ ring' = (ring \o (IF synced THEN <<sync>> ELSE <<>>))
                            \o (IF sent THEN <<row>> ELSE <<>>)
            /\ Len(ring') <= RingCap
            /\ drops' = IF sent THEN 0 ELSE owed + (IF isRow THEN 1 ELSE 0)
  BY <1>1, Zenon
<1>3. line \in Live!Lines /\ "row" \in Live!Lines
  BY DEF Live!StateLine, Live!Lines
<1>4. /\ counted \in Nat /\ counted' \in 0 .. MaxRows /\ d \in 0 .. MaxRows
      /\ owed \in 0 .. MaxRows /\ owed <= counted /\ 0 \in 0 .. MaxRows
  BY DEF LiveTypes, LiveTold, LiveBounds
<1>5. sync \in Live!Messages /\ row \in Live!Messages
  <2> HIDE DEF line, owed
  <2> QED
    BY <1>3, <1>4, Zenon DEF Live!Message, Live!Messages
<1> HIDE DEF line, sync, row
<1>6. ring' \in Seq(Live!Messages)
  <2>1. ring \in Seq(Live!Messages)
    BY DEF LiveTold
  <2> DEFINE one == IF synced THEN <<sync>> ELSE <<>>
             two == IF sent THEN <<row>> ELSE <<>>
  <2>2. one \in Seq(Live!Messages)
    <3>1. <<sync>> \in Seq(Live!Messages) /\ <<>> \in Seq(Live!Messages)
      BY <1>5
    <3> QED
      BY <3>1, Zenon
  <2>3. two \in Seq(Live!Messages)
    <3>1. <<row>> \in Seq(Live!Messages) /\ <<>> \in Seq(Live!Messages)
      BY <1>5
    <3> QED
      BY <3>1, Zenon
  <2>4. ring' = (ring \o one) \o two
    BY <1>2
  <2> HIDE DEF one, two
  <2> QED
    BY <2>1, <2>2, <2>3, <2>4
<1>7. drops' <= counted'
  <2> HIDE DEF owed
  <2>1. owed \in Nat /\ drops' = IF sent THEN 0 ELSE owed + (IF isRow THEN 1 ELSE 0)
    BY <1>2, <1>4
  <2> QED
    BY <1>4, <2>1
<1> QED
  BY <1>2, <1>6, <1>7

LEMMA AdoptTold ==
    ASSUME LiveBounds, LiveTypes, LiveTold, liveGen \in {0, clients},
           NEW t \in 0 .. MaxTrips, NEW isRow \in BOOLEAN, NEW changed \in BOOLEAN,
           counted' = counted + (IF isRow THEN 1 ELSE 0), counted' <= MaxRows,
           Live!Adopt(t, isRow, changed)
    PROVE  /\ ring' \in Seq(Live!Messages) /\ Len(ring') <= RingCap /\ drops' <= counted'
           /\ next' \in 0 .. counted' + 1
<1>1. /\ counted \in Nat /\ counted <= counted' /\ counted' \in Nat
      /\ drops \in Nat /\ drops <= counted /\ drops <= counted'
      /\ next \in 0 .. counted + 1 /\ next \in 0 .. counted' + 1
      /\ counted + 1 \in 0 .. counted' + 1
      /\ liveGen # 0 => liveGen \in 1 .. MaxClients
  BY DEF LiveTypes, LiveTold, LiveBounds
<1>2. /\ ring \in Seq(Live!Messages) /\ Len(ring) <= RingCap
      /\ syncPending \in BOOLEAN /\ syncFresh \in BOOLEAN
  BY DEF LiveTypes, LiveTold
<1>3. CASE liveGen = 0
  <2>1. UNCHANGED <<ring, drops, next>>
    BY <1>3, Zenon DEF Live!Adopt
  <2> QED
    BY <1>1, <1>2, <2>1
<1>4. CASE liveGen # 0 /\ liveGen # served
  <2>1. next' = counted + 1 /\ Live!Serve(t, TRUE, TRUE, 0, isRow)
    BY <1>4, Zenon DEF Live!Adopt
  <2>2. 0 \in Nat /\ 0 <= counted /\ TRUE \in BOOLEAN
    BY <1>1
  <2> QED
    BY <1>1, <1>4, <2>1, <2>2, ServeTold
<1>5. CASE liveGen # 0 /\ liveGen = served
  <2>1. next' = next /\ Live!Serve(t, syncPending \/ changed, syncFresh, drops, isRow)
    BY <1>5, Zenon DEF Live!Adopt
  <2>2. (syncPending \/ changed) \in BOOLEAN
    OBVIOUS
  <2> QED
    BY <1>1, <1>2, <1>5, <2>1, <2>2, ServeTold
<1> QED
  BY <1>3, <1>4, <1>5

LEMMA ToldKeeps ==
    ASSUME LiveBounds, LiveInv, LiveTold, [Live!Next]_(Live!vars)
    PROVE  LiveTold'
<1>0. LiveTypes /\ LiveGens /\ liveGen \in {0, clients} /\ shown \in Nat /\ trips \in Nat
      /\ counted \in Nat /\ trips <= MaxTrips /\ shown <= MaxTrips /\ counted <= MaxRows
      /\ clients \in Nat /\ clients <= MaxClients /\ MaxTrips \in Nat /\ MaxClients \in Nat
      /\ MaxRows \in Nat /\ shown \in 0 .. MaxTrips /\ 0 \in 0 .. MaxTrips
      /\ known \in -1 .. MaxTrips /\ counted + 0 = counted
      /\ TRUE \in BOOLEAN /\ FALSE \in BOOLEAN
  BY DEF LiveInv, LiveTypes, LiveGens, LiveTold, LiveBounds
<1>1. CASE Live!HookOpen
  <2>1. /\ trips' = trips + 1 /\ shown' = trips + 1 /\ Live!Adopt(shown', FALSE, TRUE)
        /\ trips < MaxTrips /\ UNCHANGED <<counted, clients, known>>
    BY <1>1, Zenon DEF Live!HookOpen, Live!stream
  <2>2. shown' \in 0 .. MaxTrips /\ trips' <= MaxTrips /\ shown' <= MaxTrips
    BY <1>0, <2>1
  <2> QED
    BY <1>0, <2>1, <2>2, AdoptTold DEF LiveTold
<1>2. CASE Live!HookClose
  <2>1. /\ trips' = trips /\ shown' = 0 /\ Live!Adopt(0, FALSE, TRUE)
        /\ UNCHANGED <<counted, clients, known>>
    BY <1>2, Zenon DEF Live!HookClose, Live!stream
  <2>2. /\ ring' \in Seq(Live!Messages) /\ Len(ring') <= RingCap /\ drops' <= counted'
        /\ next' \in 0 .. counted' + 1
    BY <1>0, <2>1, AdoptTold
  <2> QED
    BY <1>0, <2>1, <2>2 DEF LiveTold
<1>3. CASE Live!HookRow
  <2>1. /\ trips' = trips /\ shown' = shown /\ Live!Adopt(shown, TRUE, FALSE)
        /\ counted' = counted + 1 /\ counted < MaxRows /\ UNCHANGED <<clients, known>>
    BY <1>3, Zenon DEF Live!HookRow, Live!stream
  <2>2. counted' <= MaxRows /\ counted' = counted + (IF TRUE THEN 1 ELSE 0)
    BY <1>0, <2>1
  <2> QED
    BY <1>0, <2>1, <2>2, AdoptTold DEF LiveTold
<1>4. CASE Live!HookPoll
  <2>1. /\ trips' = trips /\ shown' = shown /\ Live!Adopt(shown, FALSE, FALSE)
        /\ UNCHANGED <<counted, clients, known>>
    BY <1>4, Zenon DEF Live!HookPoll, Live!stream
  <2> QED
    BY <1>0, <2>1, AdoptTold DEF LiveTold
<1>5. CASE Live!Accept
  <2>1. /\ clients' = clients + 1 /\ clients < MaxClients /\ known' = -1
        /\ UNCHANGED <<ring, shown, trips, counted, drops, next>>
    BY <1>5 DEF Live!Accept, Live!writer, Live!Hello
  <2> QED
    BY <1>0, <2>1 DEF LiveTold
<1>6. CASE Live!DropClient
  BY <1>6 DEF Live!DropClient, Live!writer, LiveTold
<1>7. CASE Live!Discard
  <2>1. /\ ring # <<>> /\ ring' = Tail(ring)
        /\ UNCHANGED <<clients, shown, trips, counted, drops, known, next>>
    BY <1>7 DEF Live!Discard, Live!writer, Live!stream
  <2>2. ring' \in Seq(Live!Messages) /\ Len(ring') <= RingCap
    BY <2>1 DEF LiveTold, LiveBounds
  <2> QED
    BY <2>1, <2>2 DEF LiveTold
<1>8. CASE Live!Deliver
  <2>1. /\ ring # <<>> /\ ring' = Tail(ring) /\ liveGen # 0 /\ Head(ring).gen = liveGen
        /\ known' = (IF Head(ring).line = "row" THEN known ELSE Head(ring).trip)
        /\ next' = next + Head(ring).dropped + (IF Head(ring).line = "row" THEN 1 ELSE 0)
        /\ UNCHANGED <<clients, shown, trips, counted, drops>>
    BY <1>8 DEF Live!Deliver, Live!writer
  <2>2. ring' \in Seq(Live!Messages) /\ Len(ring') <= RingCap
    BY <2>1 DEF LiveTold, LiveBounds
  <2>3. Head(ring) \in Live!Messages
    BY <2>1 DEF LiveTold
  <2>4. Head(ring).trip \in 0 .. MaxTrips /\ Head(ring).dropped \in Nat
    BY <2>3 DEF Live!Messages
  <2>5. known' \in -1 .. MaxTrips
    BY <1>0, <2>1, <2>4
  <2>6. PICK v \in Int : Path(Tail(ring), Adds(liveGen), next', v) /\ v + drops = counted + 1
    BY <2>1, HeadIs
  <2>7. next' <= v /\ drops \in Nat /\ next' \in Nat
    <3>1. Tail(ring) \in Seq(LiveMsg(clients))
      BY <1>0, <2>1, TailShorter
    <3>2. next \in Nat /\ drops \in Nat
      BY <1>0 DEF LiveTold, LiveTypes
    <3>3. next' \in Nat
      BY <2>1, <2>4, <3>2
    <3> QED
      BY <2>6, <3>1, <3>2, <3>3, AddsUp
  <2>8. next' \in 0 .. counted + 1
    BY <1>0, <2>6, <2>7
  <2> QED
    BY <2>1, <2>2, <2>5, <2>8 DEF LiveTold
<1>9. CASE UNCHANGED Live!vars
  BY <1>9 DEF Live!vars, Live!writer, LiveTold
<1> QED
  BY <1>1, <1>2, <1>3, <1>4, <1>5, <1>6, <1>7, <1>8, <1>9, Zenon DEF Live!Next

\* What the stream keeps to its client.
StreamIsTrue == []Live!TypeOK /\ Live!GapsAnnounced /\ Live!RowsOfKnownTrip

(* The client of the stream is told of every row it does not get, and gets   *)
(* rows only of the trip it was last told of, for any ring, rows, trips and  *)
(* clients; no message is of a row or a trip there has not been              *)
(* (datalog_stream.c, stream_hook and the stream task).                      *)
THEOREM StreamStaysTrue == ASSUME LiveBounds PROVE Live!Spec => StreamIsTrue
<1>1. Live!Init => LiveTold
  <2> SUFFICES ASSUME Live!Init PROVE LiveTold
    OBVIOUS
  <2>1. ring = <<>> /\ clients = 0 /\ known = -1 /\ next = 0 /\ shown = 0 /\ drops = 0
        /\ counted = 0 /\ trips = 0
    BY DEF Live!Init, Live!Hello
  <2>2. <<>> \in Seq(Live!Messages) /\ Len(<<>>) = 0
    OBVIOUS
  <2> QED
    BY <2>1, <2>2 DEF LiveTold, LiveBounds
<1>2. LiveInv /\ LiveTold /\ [Live!Next]_(Live!vars) => LiveTold'
  BY ToldKeeps
<1>3. LiveInv /\ LiveTold => Live!TypeOK
  <2> SUFFICES ASSUME LiveInv, LiveTold PROVE Live!TypeOK
    OBVIOUS
  <2>1. /\ liveGen \in 0 .. MaxClients /\ clients \in 0 .. MaxClients
        /\ shown \in 0 .. MaxTrips /\ served \in 0 .. MaxClients
        /\ drops \in 0 .. MaxRows /\ counted \in 0 .. MaxRows /\ trips \in 0 .. MaxTrips
        /\ known \in Live!Hello .. MaxTrips /\ next \in 0 .. MaxRows + 1
    BY DEF LiveInv, LiveTypes, LiveGens, LiveTold, LiveBounds, Live!Hello
  <2>2. ring \in Seq(Live!Messages) /\ Len(ring) <= RingCap
        /\ syncPending \in BOOLEAN /\ syncFresh \in BOOLEAN
    BY DEF LiveInv, LiveTypes, LiveTold
  <2> QED
    BY <2>1, <2>2, Zenon DEF Live!TypeOK
<1> QED
  BY <1>1, <1>2, <1>3, LiveHolds, GapsAddUp, RowsFollowTheTrip, PTL DEF Live!Spec, StreamIsTrue

-----------------------------------------------------------------------------
(* The Bluetooth link: the events on their way lead from the bit to the link.*)
CONSTANTS Narrow, Wide, LengthMod, Packets, MaxLine, TxCap, RxCap, MaxEvents, MaxBytes,
          MaxLinks, MaxTyped, MaxEnables

VARIABLES enabled, setting, adv, link, mtu, events, bit, congested, jam, up, size, rx,
          busy, tx, ble_pc, room, ble_held, free, heard, first, crowded, said, links,
          typed, enables, cut

Ble == INSTANCE BleLink WITH got <- heard, pc <- ble_pc, held <- ble_held

BleEvents == {"reg", "private", "adv", "scan", "connect", "gone", "mtu", "jam", "clear",
              "write", "cli"}

Digit(b) == IF b THEN 1 ELSE 0

\* What an event does to the bit.
Turns == {x \in Int \X BleEvents \X Int :
    x[3] = IF x[2] = "connect" THEN 1 ELSE IF x[2] = "gone" THEN 0 ELSE x[1]}

\* A stack that is down has nothing on its way; unless a disconnection was
\* lost with the stack, what is on its way takes the bit to the link.
BleInv ==
    /\ events \in Seq(BleEvents) /\ links \in Nat
    /\ ~enabled => events = <<>> /\ link = 0 /\ adv = FALSE
    /\ ~cut => Path(events, Turns, Digit(bit), Digit(link # 0))

LEMMA Stays ==
    ASSUME NEW e \in BleEvents \ {"connect", "gone"}, NEW b \in Int
    PROVE  <<b, e, b>> \in Turns
  BY DEF Turns

LEMMA Digits ==
    ASSUME NEW b, NEW c
    PROVE  Digit(b) \in Int /\ (Digit(b) = Digit(c) <=> (b <=> c))
  BY DEF Digit

LEMMA NothingLeft ==
    ASSUME NEW a \in Int, NEW b \in Int
    PROVE  Path(<<>>, Turns, a, b) <=> a = b
<1>1. ASSUME a = b PROVE Path(<<>>, Turns, a, b)
  <2>1. <<>> \in Seq(BleEvents) /\ \A i \in 1 .. Len(<<>>) : <<a, <<>>[i], a>> \in Turns
    OBVIOUS
  <2> QED
    BY <1>1, <2>1, PathFlat
<1>2. ASSUME Path(<<>>, Turns, a, b) PROVE a = b
  BY <1>2 DEF Path
<1> QED
  BY <1>1, <1>2

\* The radio reports something that leaves the link as it is, or its change.
LEMMA Reported ==
    ASSUME BleInv, NEW e \in BleEvents, Ble!Raise(e), enabled, UNCHANGED <<enabled, bit, cut>>,
           links' \in Nat,
           Digit(link' # 0) = IF e = "connect" THEN 1 ELSE IF e = "gone" THEN 0
                              ELSE Digit(link # 0)
    PROVE  BleInv'
<1>1. events \in Seq(BleEvents) /\ events' = Append(events, e) /\ events' \in Seq(BleEvents)
  BY DEF BleInv, Ble!Raise
<1>2. Digit(link # 0) \in Int /\ Digit(link' # 0) \in Int
  BY DEF Digit
<1>3. <<Digit(link # 0), e, Digit(link' # 0)>> \in Turns
  BY <1>2 DEF Turns
<1>4. ~cut => Path(events', Turns, Digit(bit), Digit(link' # 0))
  BY <1>1, <1>2, <1>3, PathAppend DEF BleInv
<1>5. Turns' = Turns
  BY DEF Turns
<1> QED
  BY <1>1, <1>4, <1>5 DEF BleInv, Path, Digit

\* An event is handled; what it does to the bit is what it said.
LEMMA Handled ==
    ASSUME BleInv, events # <<>>, UNCHANGED <<enabled, link, links, cut>>,
           Digit(bit') = IF Head(events) = "connect" THEN 1
                         ELSE IF Head(events) = "gone" THEN 0 ELSE Digit(bit),
           NEW rest, rest = Tail(events),
           \/ events' = rest
           \/ events' = Append(rest, "private")
           \/ events' = Append(Append(rest, "adv"), "scan")
    PROVE  BleInv'
<1>1. events \in Seq(BleEvents) /\ rest \in Seq(BleEvents)
      /\ {"private", "adv", "scan"} \subseteq BleEvents \ {"connect", "gone"}
  BY DEF BleInv, BleEvents
<1>2. events' \in Seq(BleEvents)
  <2>1. Append(rest, "private") \in Seq(BleEvents) /\ Append(rest, "adv") \in Seq(BleEvents)
    BY <1>1
  <2>2. Append(Append(rest, "adv"), "scan") \in Seq(BleEvents)
    BY <1>1, <2>1
  <2> QED
    BY <1>1, <2>1, <2>2, Zenon
<1>3. Digit(link # 0) \in Int
  BY DEF Digit
<1>4. ASSUME ~cut PROVE Path(events', Turns, Digit(bit'), Digit(link # 0))
  <2>1. PICK c \in Int : /\ <<Digit(bit), Head(events), c>> \in Turns
                         /\ Path(Tail(events), Turns, c, Digit(link # 0))
    BY <1>1, <1>4, PathTail DEF BleInv
  <2>2. c = Digit(bit')
    BY <2>1 DEF Turns
  <2>3. Path(rest, Turns, Digit(bit'), Digit(link # 0))
    BY <2>1, <2>2
  <2>4. ASSUME NEW q \in Seq(BleEvents), NEW e \in {"private", "adv", "scan"},
               Path(q, Turns, Digit(bit'), Digit(link # 0))
        PROVE  Path(Append(q, e), Turns, Digit(bit'), Digit(link # 0))
    <3>1. e \in BleEvents /\ <<Digit(link # 0), e, Digit(link # 0)>> \in Turns
      BY <1>1, <1>3, Stays
    <3> QED
      BY <1>3, <2>4, <3>1, PathAppend
  <2>5. Append(rest, "adv") \in Seq(BleEvents)
    BY <1>1
  <2>6. Path(Append(Append(rest, "adv"), "scan"), Turns, Digit(bit'), Digit(link # 0))
    BY <1>1, <2>3, <2>4, <2>5
  <2> QED
    BY <1>1, <2>3, <2>4, <2>6
<1>5. Turns' = Turns
  BY DEF Turns
<1>6. enabled
  BY DEF BleInv
<1> QED
  BY <1>2, <1>4, <1>5, <1>6 DEF BleInv, Path, Digit

LEMMA RadioKeeps ==
    ASSUME BleInv,
           \/ Ble!PhoneComes \/ Ble!PhoneGoes \/ Ble!PhoneAsks \/ Ble!PhoneWrites
           \/ Ble!PhoneTypes \/ Ble!Jams \/ Ble!Confirms
    PROVE  BleInv'
<1>1. UNCHANGED <<enabled, bit, cut>>
  BY DEF Ble!PhoneComes, Ble!PhoneGoes, Ble!PhoneAsks, Ble!PhoneWrites, Ble!PhoneTypes,
         Ble!Jams,
         Ble!Confirms, Ble!Quiet
<1>2. (adv \/ link # 0 => enabled) /\ links \in Nat
  BY DEF BleInv
<1>3. CASE Ble!PhoneComes
  <2>1. Ble!Raise("connect") /\ links' = links + 1 /\ link' = links' /\ adv = TRUE
    BY <1>2, <1>3 DEF Ble!PhoneComes
  <2>2. links' \in Nat /\ Digit(link' # 0) = 1 /\ enabled
    BY <1>2, <2>1 DEF Digit
  <2>3. "connect" \in BleEvents
    BY DEF BleEvents
  <2> QED
    BY <1>1, <2>1, <2>2, <2>3, Reported
<1>4. CASE Ble!PhoneGoes
  <2>1. Ble!Raise("gone") /\ links' = links /\ link' = 0 /\ enabled
    BY <1>2, <1>4 DEF Ble!PhoneGoes
  <2>2. "gone" \in BleEvents /\ Digit(link' # 0) = 0
    BY <2>1 DEF BleEvents, Digit
  <2> QED
    BY <1>1, <1>2, <2>1, <2>2, Reported
<1>5. ASSUME NEW e \in {"mtu", "write", "cli", "jam", "clear"}, Ble!Raise(e), links' = links,
             link' = link, enabled
      PROVE  BleInv'
  <2>1. e \in BleEvents /\ Digit(link' # 0) = Digit(link # 0)
    BY <1>5 DEF BleEvents, Digit
  <2> QED
    BY <1>1, <1>2, <1>5, <2>1, Reported
<1>6. CASE Ble!PhoneAsks
  BY <1>2, <1>5, <1>6 DEF Ble!PhoneAsks
<1>7. CASE Ble!PhoneWrites
  BY <1>2, <1>5, <1>7 DEF Ble!PhoneWrites
<1>7a. CASE Ble!PhoneTypes
  BY <1>2, <1>5, <1>7a DEF Ble!PhoneTypes
<1>8. CASE Ble!Jams
  BY <1>2, <1>5, <1>8 DEF Ble!Jams
<1>9. CASE Ble!Confirms
  BY <1>1, <1>9 DEF Ble!Confirms, BleInv, Path, Turns, Digit
<1> QED
  BY <1>3, <1>4, <1>6, <1>7, <1>7a, <1>8, <1>9

LEMMA HandleKeeps ==
    ASSUME BleInv, Ble!Handle
    PROVE  BleInv'
<1>1. events # <<>> /\ UNCHANGED <<enabled, link, links, cut>>
  BY DEF Ble!Handle, Ble!Same
<1>2. events \in Seq(BleEvents) /\ Tail(events) \in Seq(BleEvents)
  BY <1>1 DEF BleInv
<1>3. Tail(events) \o <<"adv", "scan">> = Append(Append(Tail(events), "adv"), "scan")
  BY <1>2
<1>4. CASE Head(events) = "reg" /\ events' = Append(Tail(events), "private") /\ bit' = bit
  BY <1>1, <1>4, Handled
<1>5. CASE Head(events) = "private" /\ events' = Tail(events) \o <<"adv", "scan">> /\ bit' = bit
  BY <1>1, <1>3, <1>5, Handled
<1>6. CASE Head(events) \notin {"connect", "gone"} /\ events' = Tail(events) /\ bit' = bit
  BY <1>1, <1>6, Handled
<1>7. CASE Head(events) = "connect" /\ events' = Tail(events) /\ bit' = TRUE
  <2>1. Digit(bit') = 1
    BY <1>7 DEF Digit
  <2> QED
    BY <1>1, <1>7, <2>1, Handled
<1>8. CASE Head(events) = "gone" /\ events' = Tail(events) /\ bit' = FALSE
  <2>1. Digit(bit') = 0
    BY <1>8 DEF Digit
  <2> QED
    BY <1>1, <1>8, <2>1, Handled
<1> QED
  BY <1>4, <1>5, <1>6, <1>7, <1>8
     DEF Ble!Handle, Ble!E, Ble!Rest, Ble!Sets, Ble!Connected, Ble!Gone, Ble!Disconnected, Ble!Answers

LEMMA EnableKeeps ==
    ASSUME BleInv, Ble!Enable
    PROVE  BleInv'
<1>1. /\ ~enabled /\ enabled' = TRUE /\ events' = <<"reg">>
      /\ UNCHANGED <<link, links, cut, bit>>
  BY DEF Ble!Enable
<1>2. events = <<>> /\ "reg" \in BleEvents \ {"connect", "gone"} /\ links \in Nat
      /\ <<"reg">> = Append(<<>>, "reg") /\ <<>> \in Seq(BleEvents)
      /\ <<"reg">> \in Seq(BleEvents)
  BY <1>1 DEF BleInv, BleEvents
<1>3. Digit(link # 0) \in Int
  BY DEF Digit
<1>4. ~cut => Path(<<"reg">>, Turns, Digit(bit), Digit(link # 0))
  <2>1. <<Digit(link # 0), "reg", Digit(link # 0)>> \in Turns
    BY <1>2, <1>3, Stays
  <2> QED
    BY <1>2, <1>3, <2>1, PathAppend DEF BleInv
<1>5. Turns' = Turns
  BY DEF Turns
<1> QED
  BY <1>1, <1>2, <1>4, <1>5 DEF BleInv, Path, Digit

LEMMA DisableKeeps ==
    ASSUME BleInv, Ble!Disable
    PROVE  BleInv'
<1>1. /\ enabled' = FALSE /\ events' = <<>> /\ adv' = FALSE /\ link' = 0 /\ links' = links
      /\ \/ bit' = bit /\ cut' = (cut \/ link # 0 \/ bit)
         \/ bit' = FALSE
  BY DEF Ble!Disable, Ble!Disconnected
<1>2. ~cut' => Digit(bit') = 0 /\ Digit(link' # 0) = 0
  <2>1. ~cut' => ~bit'
    BY <1>1, Zenon
  <2> QED
    BY <1>1, <2>1 DEF Digit
<1>3. ~cut' => Path(<<>>, Turns, Digit(bit'), Digit(link' # 0))
  BY <1>2, NothingLeft
<1>4. links' \in Nat /\ <<>> \in Seq(BleEvents)
  BY <1>1 DEF BleInv
<1>5. Turns' = Turns
  BY DEF Turns
<1> QED
  BY <1>1, <1>3, <1>4, <1>5 DEF BleInv, Path, Digit

LEMMA BleStays ==
    ASSUME BleInv, UNCHANGED <<enabled, adv, link, events, links, bit, cut>>
    PROVE  BleInv'
  BY DEF BleInv, Path, Turns, Digit

LEMMA BleHolds == Ble!Spec => []BleInv
<1>1. ASSUME Ble!Init PROVE BleInv
  <2>1. events = <<>> /\ links = 0 /\ ~enabled /\ link = 0 /\ adv = FALSE /\ ~bit /\ ~cut
    BY <1>1 DEF Ble!Init
  <2>2. Digit(bit) = 0 /\ Digit(link # 0) = 0 /\ <<>> \in Seq(BleEvents)
    BY <2>1 DEF Digit
  <2> QED
    BY <2>1, <2>2, NothingLeft DEF BleInv
<1>2. ASSUME BleInv, [Ble!Next]_(Ble!vars) PROVE BleInv'
  <2>1. CASE Ble!CanTx \/ Ble!CodecRuns \/ Ble!ChipSays
    BY <1>2, <2>1, BleStays DEF Ble!CanTx, Ble!CodecRuns, Ble!ChipSays, Ble!stack
  <2>2. CASE Ble!BleTask
    <3>1. UNCHANGED <<enabled, adv, link, events, links, bit, cut>>
      BY <2>2 DEF Ble!BleTask, Ble!Waits, Ble!Takes, Ble!Flushes, Ble!Step, Ble!Still,
                  Ble!stack
    <3> QED
      BY <1>2, <3>1, BleStays
  <2>3. CASE UNCHANGED Ble!vars
    BY <1>2, <2>3, BleStays DEF Ble!vars, Ble!stack
  <2>4. CASE Ble!PhoneComes \/ Ble!PhoneGoes \/ Ble!PhoneAsks \/ Ble!PhoneWrites
             \/ Ble!PhoneTypes \/ Ble!Jams \/ Ble!Confirms
    BY <1>2, <2>4, RadioKeeps
  <2> QED
    BY <1>2, <2>1, <2>2, <2>3, <2>4, HandleKeeps, EnableKeeps, DisableKeeps DEF Ble!Next
<1> QED
  BY <1>1, <1>2, PTL DEF Ble!Spec

(* ble_task's bit is the link, once the events on their way are handled and  *)
(* unless a disconnection was lost with the stack, for any number of         *)
(* connections and events (ble.c, the connect and disconnect events).        *)
THEOREM BitFollowsTheLink == Ble!Spec => []Ble!BitIsTheLink
<1>1. ASSUME BleInv PROVE Ble!BitIsTheLink
  <2>1. ASSUME events = <<>>, ~cut PROVE bit <=> link # 0
    <3>1. Digit(bit) = Digit(link # 0)
      BY <1>1, <2>1, NothingLeft, Digits DEF BleInv
    <3> QED
      BY <3>1, Digits
  <2> QED
    BY <2>1 DEF Ble!BitIsTheLink
<1> QED
  BY BleHolds, <1>1, PTL
=============================================================================
