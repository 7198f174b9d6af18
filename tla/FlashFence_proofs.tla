------------------------- MODULE FlashFence_proofs -------------------------
(***************************************************************************)
(* Proofs about FlashFence: with a restart timer that can be started and   *)
(* no factory reset, the two-flag handshake keeps ECU writes exclusive     *)
(* across any number of codec runs and reboots.  Then, as instances: the   *)
(* event log, the Files page of the web server the fence guards, and the   *)
(* console a factory reset is typed on.                                    *)
(***************************************************************************)
EXTENDS FlashFence, Sequences, FiniteSetTheorems, TLAPS

NoFaults == "factory" \notin Ops /\ "start_fails" \notin Ops

-----------------------------------------------------------------------------
(* Types.                                                                   *)

LEMMA TypeInit == Init => TypeOK
<1> SUFFICES ASSUME Init PROVE TypeOK
  OBVIOUS
<1>1. /\ flash \in BOOLEAN /\ pending \in BOOLEAN /\ ota \in BOOLEAN
      /\ armed \in BOOLEAN /\ session \in BOOLEAN /\ can \in BOOLEAN
      /\ image \in BOOLEAN
  BY DEF Init
<1>2. task \in [Tasks -> TaskPC]
  BY DEF Init, TaskPC
<1>3. /\ codec \in CodecPC /\ reset \in {"idle", "clear"}
      /\ runs \in Nat /\ boots \in Nat
  BY DEF Init, CodecPC
<1> QED
  BY <1>1, <1>2, <1>3 DEF TypeOK

LEMMA GoTyped ==
    ASSUME TypeOK, NEW t \in Tasks, NEW pc \in TaskPC, Go(t, pc)
    PROVE  /\ task' \in [Tasks -> TaskPC]
           /\ task'[t] = pc
           /\ \A u \in Tasks : u # t => task'[u] = task[u]
  BY DEF TypeOK, Go

LEMMA TypeStep == TypeOK /\ [Next]_vars => TypeOK'
<1> SUFFICES ASSUME TypeOK, [Next]_vars PROVE TypeOK'
  OBVIOUS
<1> USE DEF TypeOK, Tasks, TaskPC
<1>1. ASSUME NEW t \in Tasks, RebootCheck(t) PROVE TypeOK'
  BY <1>1 DEF RebootCheck, Go
<1>2. ASSUME NEW t \in Tasks, RaisePending(t) PROVE TypeOK'
  BY <1>2 DEF RaisePending, Go
<1>3. ASSUME NEW t \in Tasks, StartTimer(t) PROVE TypeOK'
  BY <1>3 DEF StartTimer, Go
<1>4. ASSUME NEW t \in Tasks, StartTimerFails(t) PROVE TypeOK'
  BY <1>4 DEF StartTimerFails, Go
<1>5. CASE TimerFire
  BY <1>5 DEF TimerFire
<1>6. CASE TimerRestart \/ FactoryRestart
  <2>1. Restart
    BY <1>6 DEF TimerRestart, FactoryRestart
  <2>2. /\ flash' \in BOOLEAN /\ pending' \in BOOLEAN /\ ota' \in BOOLEAN
        /\ armed' \in BOOLEAN /\ session' \in BOOLEAN /\ can' \in BOOLEAN
        /\ image' \in BOOLEAN
    BY <2>1 DEF Restart
  <2>3. task' \in [Tasks -> TaskPC]
    BY <2>1 DEF Restart
  <2>4. /\ codec' \in CodecPC /\ reset' \in {"idle", "clear"}
        /\ runs' \in Nat /\ boots' \in Nat
    BY <2>1 DEF Restart, CodecPC
  <2> QED
    BY <2>2, <2>3, <2>4
<1>7. CASE UploadStart \/ UploadCheck \/ UploadFails \/ UploadDone
  BY <1>7 DEF UploadStart, UploadCheck, UploadFails, UploadDone, Go
<1>8. CASE SdUpload
  BY <1>8 DEF SdUpload, Go
<1>9. CASE SdRecheck
  BY <1>9 DEF SdRecheck, Go
<1>10. CASE SdSwap
  BY <1>10 DEF SdSwap, Go
<1>11. CASE FactoryCheck
  BY <1>11 DEF FactoryCheck, Go
<1>12. CASE Codec
  <2>1. codec' \in CodecPC /\ flash' \in BOOLEAN /\ runs' \in Nat
    <3>1. CASE WriteRaise \/ ReadRaise
      <4>1. codec' \in CodecPC /\ flash' = TRUE /\ runs' = runs + 1
        BY <3>1 DEF WriteRaise, ReadRaise, CodecPC
      <4> QED
        BY <4>1
    <3>2. CASE CheckPending \/ CheckOta
      <4>1. codec' \in CodecPC
        BY <3>2 DEF CheckPending, CheckOta, CodecPC
      <4>2. UNCHANGED <<flash, runs>>
        BY <3>2 DEF CheckPending, CheckOta
      <4> QED
        BY <4>1, <4>2
    <3>3. CASE CodecEnd
      BY <3>3 DEF CodecEnd, CodecPC
    <3> QED
      BY <1>12, <3>1, <3>2, <3>3 DEF Codec
  <2>2. UNCHANGED <<pending, ota, armed, session, can, task, reset, image, boots>>
    BY <1>12 DEF Codec, WriteRaise, CheckPending, CheckOta, ReadRaise, CodecEnd
  <2> QED
    BY <2>1, <2>2
<1>13. CASE Session \/ Slcan \/ HealCan
  BY <1>13 DEF Session, Slcan, HealCan
<1>14. CASE UNCHANGED vars
  BY <1>14 DEF vars
<1> QED
  BY <1>1, <1>2, <1>3, <1>4, <1>5, <1>6, <1>7, <1>8, <1>9, <1>10, <1>11, <1>12,
     <1>13, <1>14 DEF Next, Schedule, Update, Stage, Timer

\* Every variable keeps its type, in every behaviour.
THEOREM TypeCorrect == Spec => []TypeOK
  BY TypeInit, TypeStep, PTL DEF Spec

-----------------------------------------------------------------------------
(* The handshake, in the three parts of FenceInv.  The first holds whatever  *)
(* fails; the second needs a timer that can be started; the third is the     *)
(* absence of the factory reset.                                             *)

TimerStarts == "start_fails" \notin Ops

\* An upload keeps its flag up for as long as it runs, and a codec that has
\* read that flag lowered keeps uploads out.
UpdateHandshake ==
    /\ flash <=> codec # "idle"
    /\ task["httpd"] \in {"ota_check", "ota_xfer"} => ota
    /\ task["httpd"] = "ota_xfer" => codec \notin {"pending_left", "write"}

\* A reboot that was asked for keeps its flag up until it happens.
RebootHandshake ==
    /\ armed => pending
    /\ \A t \in Tasks : task[t] = "start" => pending
    /\ reset = "clear" => pending /\ codec \notin {"ota_left", "write"}

\* What a step does to where the two command tasks are.
LEMMA TaskMoves ==
    ASSUME TypeOK, [Next]_vars, NEW t \in Tasks
    PROVE  \/ task'[t] = task[t]
           \/ task[t] = "idle" /\ task'[t] \in {"schedule", "sd_xfer"}
           \/ task[t] = "idle" /\ task'[t] = "ota_check" /\ UploadStart
           \/ task[t] = "idle" /\ task'[t] = "factory" /\ "factory" \in Ops
           \/ task[t] = "schedule" /\ task'[t] = "start" /\ RaisePending(t)
           \/ task[t] = "ota_check" /\ task'[t] = "ota_xfer" /\ UploadCheck /\ ~flash
           \/ task[t] = "ota_xfer" /\ task'[t] = "schedule" /\ UploadDone
           \/ task[t] = "sd_xfer" /\ task'[t] = "sd_swap"
           \/ task'[t] = "idle"
<1>0. "httpd" \in Tasks /\ "shell" \in Tasks
  BY DEF Tasks
<1>1. ASSUME NEW u \in Tasks, NEW pc \in TaskPC, Go(u, pc)
      PROVE  task'[t] = task[t] \/ (t = u /\ task'[t] = pc)
  BY <1>1, GoTyped
<1>2. CASE UNCHANGED task
  BY <1>2
<1>3. CASE Restart
  BY <1>3 DEF Restart
<1>4. ASSUME NEW u \in Tasks, RebootCheck(u) \/ RaisePending(u) \/ StartTimer(u)
                                \/ StartTimerFails(u)
      PROVE  \/ task'[t] = task[t]
             \/ task[t] = "idle" /\ task'[t] = "schedule"
             \/ task[t] = "schedule" /\ task'[t] = "start" /\ RaisePending(t)
             \/ task'[t] = "idle"
  <2>0. "schedule" \in TaskPC /\ "start" \in TaskPC /\ "idle" \in TaskPC
    BY DEF TaskPC
  <2>1. CASE RebootCheck(u)
    <3>1. Go(u, "schedule") /\ task[u] = "idle"
      BY <2>1 DEF RebootCheck, Accepts
    <3> QED
      BY <1>1, <2>0, <3>1
  <2>2. CASE RaisePending(u)
    <3>1. Go(u, "start") /\ task[u] = "schedule"
      BY <2>2 DEF RaisePending
    <3> QED
      BY <1>1, <2>0, <2>2, <3>1
  <2>3. CASE StartTimer(u) \/ StartTimerFails(u)
    <3>1. Go(u, "idle")
      BY <2>3 DEF StartTimer, StartTimerFails
    <3> QED
      BY <1>1, <2>0, <3>1
  <2> QED
    BY <1>4, <2>1, <2>2, <2>3
<1>5. CASE UploadStart \/ SdUpload
  <2>0. "ota_check" \in TaskPC /\ "sd_xfer" \in TaskPC
    BY DEF TaskPC
  <2>1. /\ task["httpd"] = "idle"
        /\ (Go("httpd", "ota_check") /\ UploadStart) \/ Go("httpd", "sd_xfer")
    BY <1>5 DEF UploadStart, SdUpload, Accepts
  <2> QED
    BY <1>0, <1>1, <2>0, <2>1
<1>6. CASE UploadCheck
  <2>0. "idle" \in TaskPC /\ "ota_xfer" \in TaskPC
    BY DEF TaskPC
  <2>1. task["httpd"] = "ota_check"
    BY <1>6 DEF UploadCheck
  <2>2. Go("httpd", "idle") \/ (Go("httpd", "ota_xfer") /\ ~flash)
    BY <1>6 DEF UploadCheck, Fence
  <2> QED
    BY <1>0, <1>1, <1>6, <2>0, <2>1, <2>2
<1>7. CASE UploadFails \/ UploadDone
  <2>0. "idle" \in TaskPC /\ "schedule" \in TaskPC
    BY DEF TaskPC
  <2>1. task["httpd"] = "ota_xfer"
    BY <1>7 DEF UploadFails, UploadDone
  <2>2. Go("httpd", "idle") \/ (Go("httpd", "schedule") /\ UploadDone)
    BY <1>7 DEF UploadFails, UploadDone
  <2> QED
    BY <1>0, <1>1, <2>0, <2>1, <2>2
<1>8. CASE SdRecheck \/ SdSwap
  <2>0. "idle" \in TaskPC /\ "sd_swap" \in TaskPC
    BY DEF TaskPC
  <2>1. Go("httpd", "idle") \/ (Go("httpd", "sd_swap") /\ task["httpd"] = "sd_xfer")
    BY <1>8 DEF SdRecheck, SdSwap
  <2> QED
    BY <1>0, <1>1, <2>0, <2>1
<1>9. CASE FactoryCheck
  <2>0. "factory" \in TaskPC
    BY DEF TaskPC
  <2>1. Go("shell", "factory") /\ task["shell"] = "idle" /\ "factory" \in Ops
    BY <1>9 DEF FactoryCheck, Accepts
  <2> QED
    BY <1>0, <1>1, <2>0, <2>1
<1>10. CASE TimerFire \/ Codec \/ Session \/ Slcan \/ HealCan \/ UNCHANGED vars
  BY <1>2, <1>10 DEF TimerFire, Codec, WriteRaise, CheckPending, CheckOta, ReadRaise,
     CodecEnd, Session, Slcan, HealCan, vars
<1>11. CASE TimerRestart \/ FactoryRestart
  BY <1>3, <1>11 DEF TimerRestart, FactoryRestart
<1> QED
  BY <1>4, <1>5, <1>6, <1>7, <1>8, <1>9, <1>10, <1>11
     DEF Next, Schedule, Timer, Update, Stage

\* A codec that has read FALSE from the update flag raised its bit before it.
LEMMA UpdateStep == TypeOK /\ UpdateHandshake /\ [Next]_vars => UpdateHandshake'
<1> SUFFICES ASSUME TypeOK, UpdateHandshake, [Next]_vars PROVE UpdateHandshake'
  OBVIOUS
<1>0. "httpd" \in Tasks
  BY DEF Tasks
<1>1. CASE Codec
  <2>1. UNCHANGED <<task, ota>>
    BY <1>1 DEF Codec, WriteRaise, CheckPending, CheckOta, ReadRaise, CodecEnd
  <2>2. flash' <=> codec' # "idle"
    BY <1>1 DEF UpdateHandshake, Codec, WriteRaise, CheckPending, CheckOta, ReadRaise,
       CodecEnd
  <2>3. codec' \in {"pending_left", "write"}
          => codec \in {"pending_left", "write"} \/ ~ota
    BY <1>1 DEF Codec, WriteRaise, CheckPending, CheckOta, ReadRaise, CodecEnd
  <2> QED
    BY <2>1, <2>2, <2>3 DEF UpdateHandshake
<1>2. CASE TimerRestart \/ FactoryRestart
  BY <1>0, <1>2 DEF UpdateHandshake, TimerRestart, FactoryRestart, Restart
<1>3. CASE UploadStart \/ Update
  <2>1. UNCHANGED <<flash, codec>>
    BY <1>3 DEF UploadStart, Update, UploadCheck, UploadFails, UploadDone
  <2>2. \/ task'["httpd"] = "ota_check" /\ ota'
        \/ task'["httpd"] = "ota_xfer" /\ ~flash /\ ota' = ota /\ ota
        \/ task'["httpd"] \in {"idle", "schedule"}
    <3>0. {"idle", "schedule", "ota_check", "ota_xfer"} \subseteq TaskPC
      BY DEF TaskPC
    <3>1. CASE UploadStart
      BY <1>0, <3>0, <3>1, GoTyped DEF UploadStart
    <3>2. CASE UploadCheck
      BY <1>0, <3>0, <3>2, GoTyped DEF UploadCheck, Fence, UpdateHandshake
    <3>3. CASE UploadFails \/ UploadDone
      BY <1>0, <3>0, <3>3, GoTyped DEF UploadFails, UploadDone
    <3> QED
      BY <1>3, <3>1, <3>2, <3>3 DEF Update
  <2> QED
    BY <2>1, <2>2 DEF UpdateHandshake
<1>4. CASE UNCHANGED <<flash, codec, ota>> /\ ~UploadStart /\ ~Update
  <2>1. task'["httpd"] \in {"ota_check", "ota_xfer"} => task'["httpd"] = task["httpd"]
    BY <1>0, <1>4, TaskMoves DEF Update
  <2> QED
    BY <1>4, <2>1 DEF UpdateHandshake
<1>5. ASSUME NEW t \in Tasks, RebootCheck(t) \/ RaisePending(t) \/ StartTimer(t)
                                \/ StartTimerFails(t)
      PROVE  UNCHANGED <<flash, codec, ota>>
  BY <1>5 DEF RebootCheck, RaisePending, StartTimer, StartTimerFails
<1>6. CASE TimerFire \/ SdUpload \/ Stage \/ FactoryCheck \/ Session \/ Slcan
             \/ HealCan \/ UNCHANGED vars
  BY <1>3, <1>4, <1>6 DEF TimerFire, SdUpload, Stage, SdRecheck, SdSwap, FactoryCheck,
     Session, Slcan, HealCan, vars
<1> QED
  BY <1>1, <1>2, <1>3, <1>4, <1>5, <1>6 DEF Next, Schedule, Timer

\* A codec that has read FALSE from the reboot flag raised its bit before it.
LEMMA RebootStep ==
    ASSUME TimerStarts, TypeOK, UpdateHandshake, RebootHandshake, [Next]_vars
    PROVE  RebootHandshake'
<1>1. CASE Codec
  <2>1. UNCHANGED <<armed, pending, reset, task>>
    BY <1>1 DEF Codec, WriteRaise, CheckPending, CheckOta, ReadRaise, CodecEnd
  <2>2. codec' \in {"ota_left", "write"} => codec \in {"ota_left", "write"} \/ ~pending
    BY <1>1 DEF Codec, WriteRaise, CheckPending, CheckOta, ReadRaise, CodecEnd
  <2> QED
    BY <2>1, <2>2 DEF RebootHandshake
<1>2. CASE TimerRestart \/ FactoryRestart
  BY <1>2 DEF RebootHandshake, TimerRestart, FactoryRestart, Restart
<1>3. CASE TimerFire
  BY <1>3 DEF RebootHandshake, UpdateHandshake, TimerFire, Fence
<1>4. ASSUME NEW t \in Tasks, RaisePending(t) PROVE RebootHandshake'
  BY <1>4 DEF RebootHandshake, RaisePending
<1>5. ASSUME NEW t \in Tasks, StartTimer(t) PROVE RebootHandshake'
  <2>1. pending /\ UNCHANGED <<pending, reset, codec>>
    BY <1>5 DEF RebootHandshake, StartTimer
  <2> QED
    BY <2>1 DEF RebootHandshake
<1>6. CASE UNCHANGED <<armed, pending, reset, codec>> /\ ~\E t \in Tasks : RaisePending(t)
  <2>1. \A t \in Tasks : task'[t] = "start" => task[t] = "start"
    BY <1>6, TaskMoves
  <2> QED
    BY <1>6, <2>1 DEF RebootHandshake
<1>7. ASSUME NEW t \in Tasks, RebootCheck(t) \/ StartTimerFails(t)
      PROVE  UNCHANGED <<armed, pending, reset, codec>>
  BY <1>7 DEF RebootCheck, StartTimerFails, TimerStarts
<1>8. CASE UploadStart \/ Update \/ SdUpload \/ Stage \/ FactoryCheck \/ Session
             \/ Slcan \/ HealCan \/ UNCHANGED vars
  BY <1>4, <1>6, <1>8 DEF UploadStart, Update, UploadCheck, UploadFails, UploadDone,
     SdUpload, Stage, SdRecheck, SdSwap, FactoryCheck, Session, Slcan, HealCan, vars
<1> QED
  BY <1>1, <1>2, <1>3, <1>4, <1>5, <1>6, <1>7, <1>8 DEF Next, Schedule, Timer

LEMMA HandshakeParts ==
    Handshake <=> UpdateHandshake /\ RebootHandshake /\ task["shell"] # "factory"
  BY DEF Handshake, UpdateHandshake, RebootHandshake

LEMMA PartsInit ==
    Init => UpdateHandshake /\ RebootHandshake /\ task["shell"] # "factory"
  BY DEF Init, UpdateHandshake, RebootHandshake, Tasks

\* Without the faults the handshake holds throughout.
THEOREM Invariance == NoFaults => (Spec => []FenceInv)
<1> SUFFICES ASSUME NoFaults PROVE Spec => []FenceInv
  OBVIOUS
<1>1. Init => FenceInv
  BY TypeInit, PartsInit, HandshakeParts DEF FenceInv
<1>2. FenceInv /\ [Next]_vars => FenceInv'
  <2> SUFFICES ASSUME TypeOK, UpdateHandshake, RebootHandshake,
                      task["shell"] # "factory", [Next]_vars
               PROVE  /\ TypeOK' /\ UpdateHandshake' /\ RebootHandshake'
                      /\ task'["shell"] # "factory"
    BY HandshakeParts DEF FenceInv, Handshake, UpdateHandshake, RebootHandshake
  <2>1. task'["shell"] # "factory"
    BY TaskMoves DEF Tasks, NoFaults
  <2>2. RebootHandshake'
    BY RebootStep DEF NoFaults, TimerStarts
  <2> QED
    BY <2>1, <2>2, TypeStep, UpdateStep
<1> QED
  BY <1>1, <1>2, PTL DEF Spec

-----------------------------------------------------------------------------
(* What the handshake is for.                                               *)

\* No write and firmware update run at once, whatever fails: not even a factory
\* reset, or a reboot whose timer does not start, lets a second owner in.
THEOREM UpdateSafety == Spec => []NoWriteDuringUpdate
<1>1. UpdateHandshake => NoWriteDuringUpdate
  BY DEF UpdateHandshake, NoWriteDuringUpdate
<1>2. Init => TypeOK /\ UpdateHandshake
  BY TypeInit, PartsInit
<1>3. TypeOK /\ UpdateHandshake /\ [Next]_vars => TypeOK' /\ UpdateHandshake'
  BY TypeStep, UpdateStep
<1> QED
  BY <1>1, <1>2, <1>3, PTL DEF Spec

(* The restart timer: armed, it has the flag of a reboot up beside it; the     *)
(* flag comes down only in a restart, which stops the timer too; and the       *)
(* timer's restart never cuts a write short (config_server_schedule_reboot,    *)
(* vrestartTimerCallback).                                                     *)
TimerIsFenced ==
    /\ [](armed => pending)
    /\ [][pending => pending' \/ (boots' = boots + 1 /\ ~armed')]_vars
    /\ [][TimerRestart => codec # "write"]_vars

\* It needs a timer that starts, since a failed start lowers the flag of a
\* reboot another task has armed, and holds beside a factory reset too.
THEOREM TimerSafety == TimerStarts => (Spec => TimerIsFenced)
<1> SUFFICES ASSUME TimerStarts PROVE Spec => TimerIsFenced
  OBVIOUS
<1>1. Init => TypeOK /\ UpdateHandshake /\ RebootHandshake
  BY TypeInit, PartsInit
<1>2. TypeOK /\ UpdateHandshake /\ RebootHandshake /\ [Next]_vars
        => TypeOK' /\ UpdateHandshake' /\ RebootHandshake'
  BY TypeStep, UpdateStep, RebootStep
<1>3. RebootHandshake => (armed => pending) /\ (TimerRestart => codec # "write")
  BY DEF RebootHandshake, TimerRestart
<1>4. [Next]_vars => (pending => pending' \/ (boots' = boots + 1 /\ ~armed'))
  <2> SUFFICES ASSUME [Next]_vars, pending
               PROVE  pending' \/ (boots' = boots + 1 /\ ~armed')
    OBVIOUS
  <2>1. CASE TimerRestart \/ FactoryRestart
    BY <2>1 DEF TimerRestart, FactoryRestart, Restart
  <2>2. ASSUME NEW t \in Tasks, RebootCheck(t) \/ RaisePending(t) \/ StartTimer(t)
                                  \/ StartTimerFails(t)
        PROVE  pending'
    BY <2>2 DEF RebootCheck, RaisePending, StartTimer, StartTimerFails, TimerStarts
  <2>3. CASE Codec
    BY <2>3 DEF Codec, WriteRaise, CheckPending, CheckOta, ReadRaise, CodecEnd
  <2>4. CASE UploadStart \/ Update \/ SdUpload \/ Stage \/ FactoryCheck \/ TimerFire
               \/ Session \/ Slcan \/ HealCan \/ UNCHANGED vars
    BY <2>4 DEF UploadStart, Update, UploadCheck, UploadFails, UploadDone, SdUpload,
       Stage, SdRecheck, SdSwap, FactoryCheck, TimerFire, Session, Slcan, HealCan, vars
  <2> QED
    BY <2>1, <2>2, <2>3, <2>4 DEF Next, Schedule, Timer
<1>5. Spec => [](TypeOK /\ UpdateHandshake /\ RebootHandshake)
  BY <1>1, <1>2, PTL DEF Spec
<1>6. Spec => [](armed => pending)
  BY <1>3, <1>5, PTL
<1>7. Spec => [][pending => pending' \/ (boots' = boots + 1 /\ ~armed')]_vars
  BY <1>4, PTL DEF Spec
<1>8. Spec => [][TimerRestart => codec # "write"]_vars
  BY <1>3, <1>5, PTL DEF Spec
<1> QED
  BY <1>6, <1>7, <1>8, PTL DEF TimerIsFenced

\* No reset falls into a write.
THEOREM WriteSafety == NoFaults => (Spec => NoRebootMidWrite)
<1> SUFFICES ASSUME NoFaults PROVE Spec => NoRebootMidWrite
  OBVIOUS
<1>1. FenceInv /\ [Next]_vars => [boots' # boots => codec # "write"]_vars
  <2> SUFFICES ASSUME FenceInv, [Next]_vars, boots' # boots
               PROVE  codec # "write"
    OBVIOUS
  <2>1. TimerRestart \/ FactoryRestart
    BY DEF Next, Schedule, Timer, Update, Stage, Codec, RebootCheck, RaisePending,
       StartTimer, StartTimerFails, TimerFire, UploadStart, UploadCheck,
       UploadFails, UploadDone, SdUpload, SdRecheck, SdSwap, FactoryCheck,
       WriteRaise, CheckPending, CheckOta, ReadRaise, CodecEnd, Session, Slcan,
       HealCan, vars
  <2> QED
    BY <2>1 DEF FenceInv, Handshake, TimerRestart, FactoryRestart
<1> QED
  BY <1>1, Invariance, PTL DEF Spec, NoRebootMidWrite

-----------------------------------------------------------------------------
(* FlashFence implements ExclusiveWrite.                                    *)

\* Steps that change nobody's hold on the adapter.
LEMMA OwnerKept ==
    ASSUME FenceInv, codec' = codec \/ (codec # "write" /\ codec' # "write"),
           UNCHANGED reset,
           task'["httpd"] = task["httpd"]
             \/ (task["httpd"] # "ota_xfer" /\ task'["httpd"] # "ota_xfer")
    PROVE  Owner' = Owner
  BY DEF Owner

\* A write starts only when nobody holds the adapter, and a reset takes it
\* from nobody or from an update, never from a write.
THEOREM ExclusiveRefinement == NoFaults => (Spec => WritesExclusive)
<1> SUFFICES ASSUME NoFaults PROVE Spec => WritesExclusive
  OBVIOUS
<1>1. Init => Exclusive!Init
  BY DEF Init, Exclusive!Init, Owner, Tasks
<1>2. FenceInv /\ [Next]_vars => [Exclusive!Next]_Owner
  <2> SUFFICES ASSUME FenceInv, [Next]_vars PROVE Exclusive!Next \/ Owner' = Owner
    OBVIOUS
  <2> USE DEF Exclusive!Next, Exclusive!Begin
  <2>0. /\ "httpd" \in Tasks /\ "shell" \in Tasks /\ "httpd" # "shell"
        /\ task \in [Tasks -> TaskPC]
    BY DEF Tasks, FenceInv, TypeOK
  <2>1. CASE CheckPending \/ CheckOta
    <3>1. UNCHANGED <<reset, task>>
      BY <2>1 DEF CheckPending, CheckOta
    <3>2. CASE codec' = "write"
      BY <2>1, <3>1, <3>2
         DEF CheckPending, CheckOta, FenceInv, Handshake, Owner
    <3>3. CASE codec' # "write"
      BY <2>1, <3>1, <3>3, OwnerKept DEF CheckPending, CheckOta
    <3> QED
      BY <3>2, <3>3
  <2>2. CASE CodecEnd
    BY <2>2 DEF CodecEnd, FenceInv, Handshake, Owner
  <2>3. CASE TimerFire
    BY <2>3 DEF TimerFire, Fence, FenceInv, Handshake, Owner
  <2>4. CASE TimerRestart
    BY <2>0, <2>4 DEF TimerRestart, Restart, FenceInv, Handshake, Owner
  <2>5. CASE UploadCheck \/ UploadFails \/ UploadDone
    <3>1. /\ UNCHANGED <<reset, codec>>
          /\ task'["httpd"] \in {"idle", "ota_xfer", "schedule"}
      BY <2>0, <2>5 DEF UploadCheck, UploadFails, UploadDone, Go
    <3>2. task["httpd"] = "ota_check" \/ task'["httpd"] # "ota_xfer"
      BY <2>0, <2>5 DEF UploadCheck, UploadFails, UploadDone, Go
    <3> QED
      BY <3>1, <3>2 DEF Owner, FenceInv, Handshake
  <2>6. CASE WriteRaise \/ ReadRaise \/ Session \/ Slcan \/ HealCan
               \/ UNCHANGED vars
    BY <2>6, OwnerKept DEF WriteRaise, ReadRaise, Session, Slcan, HealCan, vars
  <2>7. ASSUME NEW t \in Tasks,
               RebootCheck(t) \/ RaisePending(t) \/ StartTimer(t)
                 \/ StartTimerFails(t)
        PROVE  Owner' = Owner
    <3>1. UNCHANGED <<reset, codec>>
      BY <2>7 DEF RebootCheck, RaisePending, StartTimer, StartTimerFails
    <3>2. CASE t = "httpd"
      BY <2>0, <2>7, <3>1, <3>2, OwnerKept
         DEF RebootCheck, RaisePending, StartTimer, StartTimerFails, Accepts, Go
    <3>3. CASE t = "shell"
      BY <2>0, <2>7, <3>1, <3>3, OwnerKept
         DEF RebootCheck, RaisePending, StartTimer, StartTimerFails, Accepts, Go
    <3> QED
      BY <3>2, <3>3 DEF Tasks
  <2>8. CASE UploadStart \/ SdUpload
    BY <2>0, <2>8, OwnerKept DEF UploadStart, SdUpload, Accepts, Go
  <2>9. CASE SdRecheck
    BY <2>0, <2>9, OwnerKept DEF SdRecheck, Go
  <2>10. CASE SdSwap
    BY <2>0, <2>10, OwnerKept DEF SdSwap, Go
  <2>11. CASE FactoryCheck \/ FactoryRestart
    BY <2>11 DEF FactoryCheck, FactoryRestart, Accepts, NoFaults, FenceInv,
       Handshake
  <2> QED
    BY <2>1, <2>2, <2>3, <2>4, <2>5, <2>6, <2>7, <2>8, <2>9, <2>10, <2>11
       DEF Next, Schedule, Timer, Update, Stage, Codec
<1> QED
  BY <1>1, <1>2, Invariance, PTL DEF Spec, WritesExclusive, Exclusive!Spec

\* All that the fence is for: the handshake stands, no reset cuts a write short,
\* and write, update and reset have the adapter one at a time.
THEOREM FenceSafety == NoFaults => (Spec => FenceSafe)
<1> SUFFICES ASSUME NoFaults PROVE Spec => FenceSafe
  OBVIOUS
<1>1. Spec => []FenceInv /\ NoRebootMidWrite /\ WritesExclusive
  BY Invariance, WriteSafety, ExclusiveRefinement
<1> QED
  BY <1>1, UpdateSafety, PTL DEF FenceSafe

-----------------------------------------------------------------------------
(* The event log, which tells what became of a flash or an update.  No       *)
(* bound matters: the ring may have any size and the events any number.      *)
CONSTANTS RingN, MaxEvents, FileLines, KeepFiles, MaxTears

VARIABLES head, persist, ring, dropped, file, kept, buffer, mutex, wpc, upto, at,
          rpc, from, end, told, written, faded, torn

Log == INSTANCE EventLog

LogConstants == RingN \in Nat /\ MaxEvents \in Nat /\ MaxTears \in Nat

\* The instance counts with its own copy of the operator.
LEMMA SameCount == \A S : Log!Cardinality(S) = Cardinality(S)
  BY DEF Log!Cardinality, Cardinality

\* The numbers up to n that are not in S.
Missing(n, S) == (1 .. n) \ S

LEMMA MissingIsFinite == ASSUME NEW n \in Nat, NEW S PROVE IsFiniteSet(Missing(n, S))
<1>1. IsFiniteSet(1 .. n)
  BY FS_Interval
<1> QED
  BY <1>1, FS_Subset DEF Missing

\* Moving the mark on by m - n loses at most so many, and as many when none of
\* them was written.
LEMMA MissingGrows ==
    ASSUME NEW n \in Nat, NEW m \in Nat, n <= m, NEW S
    PROVE  /\ Cardinality(Missing(n, S)) \in Nat
           /\ Cardinality(Missing(m, S)) <= Cardinality(Missing(n, S)) + m - n
           /\ S \cap (n + 1 .. m) = {}
              => Cardinality(Missing(m, S)) = Cardinality(Missing(n, S)) + m - n
<1> DEFINE A == Missing(n, S)
           B == (n + 1 .. m) \ S
<1>1. IsFiniteSet(A)
  BY MissingIsFinite
<1>1a. IsFiniteSet(n + 1 .. m) /\ Cardinality(n + 1 .. m) = m - n
  <2>1. n + 1 \in Int /\ m \in Int /\ (n + 1 > m => m - n = 0) /\ m - (n + 1) + 1 = m - n
    OBVIOUS
  <2> QED
    BY <2>1, FS_Interval
<1>2. IsFiniteSet(B) /\ Cardinality(B) <= m - n
  BY <1>1a, FS_Subset
<1>3. Missing(m, S) = A \cup B /\ A \cap B = {}
  BY DEF Missing
<1>4. Cardinality(A) \in Nat /\ Cardinality(B) \in Nat
  BY <1>1, <1>2, FS_CardinalityType
<1>5. Cardinality(Missing(m, S)) = Cardinality(A) + Cardinality(B)
  <2>1. Cardinality(A \cap B) = 0
    BY <1>3, FS_EmptySet
  <2> HIDE DEF A, B
  <2>2. Cardinality(A \cup B) = Cardinality(A) + Cardinality(B) - Cardinality(A \cap B)
    BY <1>1, <1>2, FS_Union
  <2> QED
    BY <1>3, <1>4, <2>1, <2>2
<1>6. S \cap (n + 1 .. m) = {} => B = n + 1 .. m
  OBVIOUS
<1> HIDE DEF A, B
<1>7. Cardinality(Missing(m, S)) <= Cardinality(A) + m - n
  BY <1>2, <1>4, <1>5
<1>8. S \cap (n + 1 .. m) = {} => Cardinality(Missing(m, S)) = Cardinality(A) + m - n
  BY <1>1a, <1>4, <1>5, <1>6
<1> QED
  BY <1>4, <1>7, <1>8 DEF A

\* Moving it back loses no more than before.
LEMMA MissingShrinks ==
    ASSUME NEW n \in Nat, NEW m \in Nat, n <= m, NEW S
    PROVE  Cardinality(Missing(n, S)) <= Cardinality(Missing(m, S))
<1>1. IsFiniteSet(Missing(m, S))
  BY MissingIsFinite
<1>2. Missing(n, S) \subseteq Missing(m, S)
  BY DEF Missing
<1> QED
  BY <1>1, <1>2, FS_Subset

\* How far the writer has accounted for the events: to its position in a drain
\* that goes well, else to the persisted mark.
Accounted == IF wpc = "lines" THEN at ELSE persist

LogNumbers ==
    /\ head \in Nat /\ persist \in Nat /\ dropped \in Nat /\ torn \in Nat
    /\ persist <= head
    /\ wpc = "lines" => /\ at \in Nat /\ upto \in Nat
                        /\ persist <= at /\ at <= upto /\ upto <= head
    /\ wpc = "failed" => torn # 0

\* The events the writer has handed over, whatever became of them.
Handed == written \cup faded \cup {buffer[i] : i \in 1 .. Len(buffer)}

\* What stdio holds belongs to the drain under way.
BufferInv ==
    /\ buffer \in Seq(Nat)
    /\ wpc = "idle" => buffer = <<>>
    /\ \A i \in 1 .. Len(buffer) : persist < buffer[i]

\* What was not handed over up to there is counted, exactly so while no write
\* was seen to fail, and then nothing beyond it was handed over.
LossInv ==
    /\ LogNumbers
    /\ BufferInv
    /\ Cardinality(Missing(Accounted, Handed)) <= dropped
    /\ torn = 0 => /\ Cardinality(Missing(Accounted, Handed)) = dropped
                   /\ Handed \subseteq 1 .. Accounted

LEMMA LossInit == Log!Init => LossInv
<1> SUFFICES ASSUME Log!Init PROVE LossInv
  OBVIOUS
<1>1. Cardinality(Missing(0, {})) = 0
  BY FS_EmptySet DEF Missing
<1>2. buffer = <<>> /\ Len(<<>>) = 0 /\ <<>> \in Seq(Nat)
  BY DEF Log!Init
<1>3. {buffer[i] : i \in 1 .. Len(buffer)} = {}
  BY <1>2
<1>4. Handed = {} /\ Accounted = 0 /\ dropped = 0
  BY <1>3 DEF Handed, Log!Init, Accounted
<1>5. LogNumbers /\ BufferInv
  BY <1>2 DEF Log!Init, LogNumbers, BufferInv
<1> QED
  BY <1>1, <1>4, <1>5 DEF LossInv

LEMMA LogNumbersStep ==
    ASSUME LogConstants, LossInv, Log!Next  PROVE LogNumbers'
<1> USE DEF LogConstants, LossInv, LogNumbers
<1>1. CASE Log!Emit
  BY <1>1 DEF Log!Emit, Log!card, Log!drain
<1>2. CASE Log!DrainBegins
  BY <1>2 DEF Log!DrainBegins, Log!CountLoss, Log!card
<1>3. CASE Log!Line
  BY <1>3 DEF Log!Line
<1>4. CASE Log!DrainEnds
  BY <1>4 DEF Log!DrainEnds
<1>5. CASE Log!DrainFails
  BY <1>5 DEF Log!DrainFails, Log!log, Log!card
<1>6. CASE UNCHANGED <<Log!log, Log!card, Log!drain>>
  BY <1>6 DEF Log!log, Log!card, Log!drain
<1>7. Log!FileRead \/ Log!RamBegins \/ Log!RamLine
      => UNCHANGED <<Log!log, Log!card, Log!drain>>
  BY DEF Log!FileRead, Log!RamBegins, Log!RamLine
<1> QED
  BY <1>1, <1>2, <1>3, <1>4, <1>5, <1>6, <1>7 DEF Log!Next

LEMMA HandedStays == UNCHANGED <<written, faded, buffer>> => Handed' = Handed
  BY DEF Handed

LEMMA BufferStep == ASSUME LossInv, [Log!Next]_(Log!vars)  PROVE BufferInv'
<1>1. LogNumbers /\ BufferInv
  BY DEF LossInv
<1>2. CASE Log!Line
  <2>1. /\ wpc = "lines" /\ persist' = persist /\ persist \in Nat /\ at \in Nat /\ persist <= at
        /\ wpc' # "idle"
    BY <1>1, <1>2 DEF Log!Line, LogNumbers
  <2>2. CASE buffer' = Append(buffer, at + 1)
    <3>1. /\ buffer' \in Seq(Nat) /\ Len(buffer') = Len(buffer) + 1 /\ Len(buffer) \in Nat
          /\ \A i \in 1 .. Len(buffer) : buffer'[i] = buffer[i]
          /\ buffer'[Len(buffer) + 1] = at + 1
      BY <1>1, <2>1, <2>2 DEF BufferInv
    <3>2. \A i \in 1 .. Len(buffer') : persist < buffer'[i]
      <4>1. \A i \in 1 .. Len(buffer) : persist < buffer[i]
        BY <1>1 DEF BufferInv
      <4>2. persist < at + 1 /\ \A i \in 1 .. Len(buffer') : i \in 1 .. Len(buffer) \/ i = Len(buffer) + 1
        BY <2>1, <3>1
      <4> QED
        BY <3>1, <4>1, <4>2
    <3> QED
      BY <2>1, <3>1, <3>2 DEF BufferInv
  <2>3. CASE buffer' = buffer
    BY <1>1, <2>1, <2>3 DEF BufferInv
  <2> QED
    BY <1>2, <2>2, <2>3 DEF Log!Line
<1>3. CASE buffer' = <<>>
  <2>1. Len(<<>>) = 0 /\ <<>> \in Seq(Nat)
    OBVIOUS
  <2> QED
    BY <1>3, <2>1 DEF BufferInv
<1>4. CASE wpc = "idle" /\ buffer' = buffer
  <2>1. buffer' = <<>>
    BY <1>1, <1>4 DEF BufferInv
  <2> QED
    BY <1>3, <2>1
<1>5. CASE UNCHANGED <<buffer, persist, wpc>>
  BY <1>1, <1>5 DEF BufferInv
<1>6. Log!DrainEnds \/ Log!DrainFails => buffer' = <<>>
  BY DEF Log!DrainEnds, Log!DrainFails, Log!Closes
<1>7. Log!DrainBegins => wpc = "idle" /\ buffer' = buffer
  BY DEF Log!DrainBegins, Log!card
<1>8. Log!Emit \/ Log!FileRead \/ Log!RamBegins \/ Log!RamLine \/ UNCHANGED Log!vars
      => UNCHANGED <<buffer, persist, wpc>>
  BY DEF Log!Emit, Log!FileRead, Log!RamBegins, Log!RamLine, Log!vars, Log!log, Log!card,
         Log!drain
<1> QED
  BY <1>2, <1>3, <1>4, <1>5, <1>6, <1>7, <1>8 DEF Log!Next

\* The end of a drain leaves each line it handed over on the card or faded.
LEMMA EndHandsOver == ASSUME BufferInv, Log!DrainEnds PROVE Handed' = Handed
<1>1. PICK n \in 0 .. Len(buffer) :
          /\ written' = written \cup {buffer[i] : i \in 1 .. n} /\ buffer' = <<>>
          /\ faded' = faded \cup {buffer[i] : i \in n + 1 .. Len(buffer)}
  BY DEF Log!DrainEnds, Log!Closes
<1>2. 1 .. Len(buffer) = (1 .. n) \cup (n + 1 .. Len(buffer))
  BY DEF BufferInv
<1>3. {buffer[i] : i \in 1 .. Len(buffer)}
        = {buffer[i] : i \in 1 .. n} \cup {buffer[i] : i \in n + 1 .. Len(buffer)}
  BY <1>2
<1>4. Len(<<>>) = 0 /\ 1 .. 0 = {}
  OBVIOUS
<1>5. {buffer'[i] : i \in 1 .. Len(buffer')} = {}
  BY <1>1, <1>4
<1> QED
  BY <1>1, <1>3, <1>5 DEF Handed

\* A drain that failed takes back only lines beyond the mark.
LEMMA FailureKeepsCount ==
    ASSUME LogNumbers, BufferInv, Log!DrainFails
    PROVE  Missing(persist, Handed') = Missing(persist, Handed)
<1>1. PICK n \in 0 .. Len(buffer) :
          written' = written \cup {buffer[i] : i \in 1 .. n} /\ buffer' = <<>>
  BY DEF Log!DrainFails, Log!Closes
<1>2. faded' = faded
  BY DEF Log!DrainFails
<1>3. Len(<<>>) = 0 /\ 1 .. 0 = {}
  OBVIOUS
<1>4. {buffer'[i] : i \in 1 .. Len(buffer')} = {}
  BY <1>1, <1>3
<1>5. Handed' = written \cup faded \cup {buffer[i] : i \in 1 .. n}
  BY <1>1, <1>2, <1>4 DEF Handed
<1>6. \A i \in 1 .. Len(buffer) : buffer[i] \notin 1 .. persist
  BY DEF BufferInv, LogNumbers
<1>7. \A i \in 1 .. n : i \in 1 .. Len(buffer)
  BY DEF BufferInv
<1> QED
  BY <1>5, <1>6, <1>7 DEF Missing, Handed

LEMMA LossStep ==
    ASSUME LogConstants, LossInv, [Log!Next]_(Log!vars)  PROVE LossInv'
<1>1. LogNumbers
  BY DEF LossInv
<1>1a. BufferInv'
  BY BufferStep
<1>2. CASE Accounted' = Accounted /\ UNCHANGED <<Handed, dropped, torn>> /\ LogNumbers'
  BY <1>1a, <1>2 DEF LossInv
<1>3. CASE Log!Emit
  BY <1>2, <1>3, LogNumbersStep, HandedStays
  DEF Log!Next, Log!Emit, Log!card, Log!drain, Accounted
<1>4. CASE Log!DrainBegins
  <2>1. LogNumbers' /\ UNCHANGED <<Handed, torn>> /\ Accounted = persist
        /\ Accounted' = persist' /\ head \in Nat /\ persist \in Nat
    BY <1>1, <1>4, LogNumbersStep, HandedStays
    DEF Log!Next, Log!DrainBegins, Log!card, Accounted, LogNumbers
  <2>2. CASE UNCHANGED <<persist, dropped>>
    BY <1>2, <2>1, <2>2
  <2>3. CASE /\ head - persist > RingN /\ persist' = head - RingN
             /\ dropped' = dropped + head - persist - RingN
    <3>1. persist' \in Nat /\ persist <= persist' /\ dropped' = dropped + persist' - persist
          /\ dropped \in Nat
      BY <1>1, <2>1, <2>3 DEF LogConstants, LogNumbers
    <3>2. Cardinality(Missing(persist, Handed)) \in Nat
      BY <2>1, MissingGrows
    <3>3. Cardinality(Missing(persist', Handed)) \in Nat
      BY <3>1, MissingGrows
    <3>4. Cardinality(Missing(persist', Handed))
            <= Cardinality(Missing(persist, Handed)) + persist' - persist
      BY <2>1, <3>1, MissingGrows
    <3>5. Cardinality(Missing(persist', Handed)) <= dropped'
      BY <2>1, <3>1, <3>2, <3>3, <3>4 DEF LossInv
    <3>6. ASSUME torn = 0
          PROVE  /\ Cardinality(Missing(persist', Handed)) = dropped'
                 /\ Handed \subseteq 1 .. persist'
      <4>1. Handed \subseteq 1 .. persist
        BY <2>1, <3>6 DEF LossInv
      <4>2. Handed \cap (persist + 1 .. persist') = {}
        BY <2>1, <3>1, <4>1
      <4>3. Cardinality(Missing(persist', Handed))
              = Cardinality(Missing(persist, Handed)) + persist' - persist
        BY <2>1, <3>1, <4>2, MissingGrows
      <4>4. Cardinality(Missing(persist', Handed)) = dropped'
        BY <2>1, <3>1, <3>2, <3>6, <4>3 DEF LossInv
      <4> QED
        BY <2>1, <3>1, <4>1, <4>4
    <3> QED
      BY <1>1a, <2>1, <3>5, <3>6 DEF LossInv
  <2> QED
    BY <1>4, <2>2, <2>3 DEF Log!DrainBegins, Log!CountLoss
<1>5. CASE Log!Line
  <2>1. LogNumbers' /\ wpc = "lines" /\ Accounted = at /\ at' = at + 1 /\ at \in Nat
        /\ persist' = persist /\ persist \in Nat /\ persist <= at
    BY <1>1, <1>5, LogNumbersStep DEF Log!Next, Log!Line, Accounted, LogNumbers
  <2>2. CASE buffer' = Append(buffer, at + 1) /\ UNCHANGED <<wpc, torn, dropped>>
    <3>0. Handed' = Handed \cup {at + 1}
      <4>1. UNCHANGED <<written, faded>>
        BY <1>5 DEF Log!Line
      <4>2. buffer \in Seq(Nat) /\ at + 1 \in Nat
        BY <2>1 DEF LossInv, BufferInv
      <4>3. /\ Len(buffer') = Len(buffer) + 1 /\ Len(buffer) \in Nat
            /\ \A i \in 1 .. Len(buffer) : buffer'[i] = buffer[i]
            /\ buffer'[Len(buffer) + 1] = at + 1
        BY <2>2, <4>2
      <4>4. {buffer'[i] : i \in 1 .. Len(buffer')}
              = {buffer[i] : i \in 1 .. Len(buffer)} \cup {at + 1}
        <5>1. 1 .. Len(buffer') = (1 .. Len(buffer)) \cup {Len(buffer) + 1}
          BY <4>3
        <5> QED
          BY <4>3, <5>1
      <4> QED
        BY <4>1, <4>4 DEF Handed
    <3>1. Missing(at + 1, Handed') = Missing(at, Handed)
      BY <2>1, <3>0 DEF Missing
    <3>2. Accounted' = at + 1
      BY <2>1, <2>2 DEF Accounted
    <3>3. Cardinality(Missing(at + 1, Handed')) = Cardinality(Missing(at, Handed))
      BY <3>1
    <3>4. Handed \subseteq 1 .. at => Handed' \subseteq 1 .. at + 1
      BY <2>1, <3>0
    <3> QED
      BY <1>1a, <2>1, <2>2, <3>2, <3>3, <3>4 DEF LossInv
  <2>2a. buffer' = buffer => Handed' = Handed
    BY <1>5, HandedStays DEF Log!Line
  <2>3. CASE torn' = torn + 1 /\ wpc' = "failed" /\ UNCHANGED <<buffer, dropped>>
    <3>1. Cardinality(Missing(persist, Handed)) <= Cardinality(Missing(at, Handed))
          /\ Cardinality(Missing(persist, Handed)) \in Nat
          /\ Cardinality(Missing(at, Handed)) \in Nat
      BY <2>1, MissingShrinks, MissingGrows
    <3>2. Accounted' = persist /\ torn' # 0
      BY <1>1, <2>1, <2>3 DEF Accounted, LogNumbers
    <3>3. dropped \in Nat /\ Cardinality(Missing(at, Handed)) <= dropped
      BY <1>1, <2>1 DEF LossInv, LogNumbers
    <3>4. Cardinality(Missing(persist, Handed)) <= dropped
      BY <3>1, <3>3
    <3> QED
      BY <1>1a, <2>1, <2>2a, <2>3, <3>2, <3>4 DEF LossInv
  <2>4. CASE dropped' = dropped + 1 /\ UNCHANGED <<buffer, wpc, torn>>
    <3>1. Accounted' = at + 1 /\ at + 1 \in Nat /\ dropped \in Nat
      BY <1>1, <2>1, <2>4 DEF Accounted, LogNumbers
    <3>2. /\ Cardinality(Missing(at, Handed)) \in Nat
          /\ Cardinality(Missing(at + 1, Handed)) \in Nat
          /\ Cardinality(Missing(at + 1, Handed)) <= Cardinality(Missing(at, Handed)) + 1
          /\ Handed \cap (at + 1 .. at + 1) = {} =>
             Cardinality(Missing(at + 1, Handed)) = Cardinality(Missing(at, Handed)) + 1
      <4>1. at + (at + 1) - at = at + 1 /\ at <= at + 1
        BY <2>1
      <4>2. \A c \in Nat : c + (at + 1) - at = c + 1
        BY <2>1
      <4> QED
        BY <2>1, <3>1, <4>1, <4>2, MissingGrows
    <3>3. Cardinality(Missing(at + 1, Handed)) <= dropped'
      BY <2>1, <2>4, <3>1, <3>2 DEF LossInv
    <3>4. ASSUME torn = 0
          PROVE  /\ Cardinality(Missing(at + 1, Handed)) = dropped'
                 /\ Handed \subseteq 1 .. at + 1
      <4>1. Handed \subseteq 1 .. at
        BY <2>1, <3>4 DEF LossInv
      <4>2. Handed \cap (at + 1 .. at + 1) = {}
        BY <2>1, <4>1
      <4>3. Cardinality(Missing(at + 1, Handed)) = dropped'
        BY <2>1, <2>4, <3>1, <3>2, <3>4, <4>2 DEF LossInv
      <4> QED
        BY <2>1, <4>1, <4>3
    <3> QED
      BY <1>1a, <2>1, <2>2a, <2>4, <3>1, <3>3, <3>4 DEF LossInv
  <2> QED
    BY <1>5, <2>2, <2>3, <2>4 DEF Log!Line
<1>6. CASE Log!DrainEnds
  <2>1. Handed' = Handed
    BY <1>1, <1>6, EndHandsOver DEF LossInv
  <2> QED
    BY <1>1, <1>2, <1>6, <2>1, LogNumbersStep DEF Log!Next, Log!DrainEnds, Accounted, LogNumbers
<1>7. CASE Log!DrainFails
  <2>1. /\ wpc = "failed" /\ wpc' = "idle" /\ UNCHANGED <<persist, dropped, torn>> /\ torn # 0
        /\ Accounted = persist /\ Accounted' = persist /\ LogNumbers'
    BY <1>1, <1>7, LogNumbersStep
    DEF Log!Next, Log!DrainFails, Log!log, Accounted, LogNumbers
  <2>2. Missing(persist, Handed') = Missing(persist, Handed)
    BY <1>1, <1>7, FailureKeepsCount DEF LossInv
  <2>3. Cardinality(Missing(persist, Handed')) = Cardinality(Missing(persist, Handed))
    BY <2>2
  <2> QED
    BY <1>1a, <2>1, <2>3 DEF LossInv
<1>8. CASE UNCHANGED <<Log!log, Log!card, Log!drain>>
  <2>1. LogNumbers' /\ Accounted' = Accounted
    BY <1>1, <1>8 DEF Log!log, Log!card, Log!drain, LogNumbers, Accounted
  <2>2. UNCHANGED <<Handed, dropped, torn>>
    BY <1>8, HandedStays DEF Log!log, Log!card
  <2> QED
    BY <1>2, <2>1, <2>2
<1>9. Log!FileRead \/ Log!RamBegins \/ Log!RamLine \/ UNCHANGED Log!vars
      => UNCHANGED <<Log!log, Log!card, Log!drain>>
  BY DEF Log!FileRead, Log!RamBegins, Log!RamLine, Log!vars
<1> QED
  BY <1>3, <1>4, <1>5, <1>6, <1>7, <1>8, <1>9 DEF Log!Next

(* No event is lost in silence but what an unseen flush gave up: between two  *)
(* drains, what else is below the persisted mark and not on the card is       *)
(* counted as dropped, and while the drain has seen no write fail the count   *)
(* is exact (evl_drain).                                                      *)
THEOREM LossesAreCounted == ASSUME LogConstants PROVE Log!Spec => []Log!LossIsCounted
<1>1. LogConstants /\ LossInv => Log!LossIsCounted
  <2> SUFFICES ASSUME LossInv, wpc = "idle" PROVE Log!LossIsCounted
    BY DEF Log!LossIsCounted
  <2>1. Len(<<>>) = 0 /\ 1 .. 0 = {} /\ buffer = <<>>
    BY DEF LossInv, BufferInv
  <2>2. {buffer[i] : i \in 1 .. Len(buffer)} = {}
    BY <2>1
  <2>3. Handed = written \cup faded
    BY <2>2 DEF Handed
  <2>4. Missing(Accounted, Handed) = (1 .. persist) \ (written \cup faded)
    BY <2>3 DEF Accounted, Missing
  <2> QED
    BY <2>4, SameCount DEF LossInv, Log!LossIsCounted
<1> QED
  BY LossInit, LossStep, <1>1, PTL DEF Log!Spec

(* An event more, and the last part, of a rising sequence.                   *)
LEMMA RisesOn ==
    ASSUME NEW s \in Seq(Nat), NEW x \in Nat, Log!Rising(s),
           \A i \in 1 .. Len(s) : s[i] < x
    PROVE  /\ Append(s, x) \in Seq(Nat) /\ Log!Rising(Append(s, x))
           /\ \A i \in 1 .. Len(Append(s, x)) : Append(s, x)[i] <= x
<1>1. /\ Append(s, x) \in Seq(Nat) /\ Len(Append(s, x)) = Len(s) + 1 /\ Len(s) \in Nat
      /\ \A i \in 1 .. Len(s) : Append(s, x)[i] = s[i] /\ s[i] \in Nat
      /\ Append(s, x)[Len(s) + 1] = x
  OBVIOUS
<1> QED
  BY <1>1 DEF Log!Rising

LEMMA PartIsSeq ==
    ASSUME NEW s \in Seq(Nat), NEW m \in Nat \ {0}, m <= Len(s) + 1
    PROVE  SubSeq(s, m, Len(s)) \in Seq(Nat)
<1>1. Len(s) \in Nat /\ \A i \in 1 .. Len(s) : s[i] \in Nat
  OBVIOUS
<1> QED
  BY <1>1

LEMMA Elements ==
    ASSUME NEW S, NEW s \in Seq(S)
    PROVE  Len(s) \in Nat /\ \A i \in 1 .. Len(s) : s[i] \in S
  OBVIOUS

LEMMA StartIsSeq ==
    ASSUME NEW S, NEW s \in Seq(S), NEW n \in 0 .. Len(s)
    PROVE  /\ SubSeq(s, 1, n) \in Seq(S) /\ Len(SubSeq(s, 1, n)) = n
           /\ \A i \in 1 .. n : SubSeq(s, 1, n)[i] = s[i]
<1>1. Len(s) \in Nat /\ \A i \in 1 .. Len(s) : s[i] \in S
  OBVIOUS
<1> QED
  BY <1>1

LEMMA RisingPart ==
    ASSUME NEW s \in Seq(Nat), NEW m \in Nat \ {0}, m <= Len(s) + 1, Log!Rising(s),
           NEW x \in Nat, \A i \in 1 .. Len(s) : s[i] <= x
    PROVE  /\ SubSeq(s, m, Len(s)) \in Seq(Nat) /\ Log!Rising(SubSeq(s, m, Len(s)))
           /\ \A i \in 1 .. Len(SubSeq(s, m, Len(s))) : SubSeq(s, m, Len(s))[i] <= x
<1> DEFINE t == SubSeq(s, m, Len(s))
<1>1. Len(s) \in Nat /\ \A i \in 1 .. Len(s) : s[i] \in Nat
  OBVIOUS
<1>2. Len(t) = Len(s) + 1 - m
  BY <1>1
<1>3. \A i \in 1 .. Len(s) + 1 - m : t[i] = s[i + m - 1] /\ i + m - 1 \in 1 .. Len(s)
  BY <1>1
<1>4. t \in Seq(Nat)
  BY PartIsSeq
<1> HIDE DEF t
<1>5. Log!Rising(t)
  <2> SUFFICES ASSUME NEW i \in 1 .. Len(t), NEW j \in 1 .. Len(t), i < j PROVE t[i] < t[j]
    BY DEF Log!Rising
  <2>1. i + m - 1 < j + m - 1
    BY <1>1, <1>2
  <2> QED
    BY <1>2, <1>3, <2>1 DEF Log!Rising
<1>6. \A i \in 1 .. Len(t) : t[i] <= x
  BY <1>2, <1>3
<1> QED
  BY <1>4, <1>5, <1>6 DEF t

LEMMA PartsJoin ==
    ASSUME NEW a \in Seq(Nat), NEW b \in Seq(Nat), NEW c \in Seq(Nat)
    PROVE  a \o (b \o c) = (a \o b) \o c
<1> DEFINE s == a \o (b \o c)
           t == (a \o b) \o c
<1>1. s \in Seq(Nat) /\ t \in Seq(Nat) /\ Len(s) = Len(t)
  OBVIOUS
<1>2. \A i \in 1 .. Len(s) : s[i] = t[i]
  OBVIOUS
<1> QED
  BY <1>1, <1>2

\* A sequence that is cut short within its last part b.
LEMMA FrontRises ==
    ASSUME NEW a \in Seq(Nat), NEW b \in Seq(Nat), NEW n \in 0 .. Len(b), Log!Rising(a \o b),
           NEW x \in Nat, \A i \in 1 .. Len(a \o b) : (a \o b)[i] <= x
    PROVE  /\ Log!Rising(a \o SubSeq(b, 1, n))
           /\ \A i \in 1 .. Len(a \o SubSeq(b, 1, n)) : (a \o SubSeq(b, 1, n))[i] <= x
<1> DEFINE s == a \o b
           c == SubSeq(b, 1, n)
           t == a \o c
<1>1. Len(a) \in Nat /\ Len(b) \in Nat /\ n \in Nat /\ n <= Len(b)
  OBVIOUS
<1>2. c \in Seq(Nat) /\ Len(c) = n /\ \A i \in 1 .. n : c[i] = b[i]
  BY <1>1, StartIsSeq
<1>3. Len(s) = Len(a) + Len(b) /\ s \in Seq(Nat)
      /\ \A i \in 1 .. Len(s) : s[i] = IF i <= Len(a) THEN a[i] ELSE b[i - Len(a)]
  OBVIOUS
<1> HIDE DEF c
<1>4. /\ Len(t) = Len(a) + Len(c)
      /\ \A i \in 1 .. Len(t) : t[i] = IF i <= Len(a) THEN a[i] ELSE c[i - Len(a)]
  <2>1. c \in Seq(Nat)
    BY <1>2
  <2> QED
    BY <2>1
<1>5. Log!Rising(s) /\ \A i \in 1 .. Len(s) : s[i] <= x
  OBVIOUS
<1> HIDE DEF s, t
<1>6. \A i \in 1 .. Len(t) : i \in 1 .. Len(s) /\ t[i] = s[i]
  <2> SUFFICES ASSUME NEW i \in 1 .. Len(t) PROVE i \in 1 .. Len(s) /\ t[i] = s[i]
    OBVIOUS
  <2>1. Len(t) = Len(a) + n /\ Len(s) = Len(a) + Len(b) /\ i \in 1 .. Len(s)
    BY <1>1, <1>2, <1>3, <1>4
  <2>2. i > Len(a) => i - Len(a) \in 1 .. n
    BY <1>1, <2>1
  <2>3. i > Len(a) => c[i - Len(a)] = b[i - Len(a)]
    BY <1>2, <2>2
  <2>4. t[i] = IF i <= Len(a) THEN a[i] ELSE c[i - Len(a)]
    BY <1>4
  <2>5. s[i] = IF i <= Len(a) THEN a[i] ELSE b[i - Len(a)]
    BY <1>3, <2>1
  <2> QED
    BY <1>1, <2>1, <2>3, <2>4, <2>5
<1>7. Log!Rising(t) /\ \A i \in 1 .. Len(t) : t[i] <= x
  BY <1>5, <1>6 DEF Log!Rising
<1> QED
  BY <1>7 DEF t, c

\* What the files and stdio hold rises, up to what the writer has accounted for.
Stored == kept \o file \o buffer

OrderInv ==
    /\ kept \in Seq(Nat) /\ file \in Seq(Nat)
    /\ torn = 0 => Log!Rising(Stored) /\ \A i \in 1 .. Len(Stored) : Stored[i] <= Accounted

LEMMA OrderStep ==
    ASSUME LogConstants, KeepFiles \in Nat, FileLines \in Nat, LossInv, OrderInv,
           [Log!Next]_(Log!vars)
    PROVE  OrderInv'
<1>1. LogNumbers /\ LogNumbers'
  <2>1. LossInv'
    BY LossStep
  <2> QED
    BY <2>1 DEF LossInv
<1>1a. buffer \in Seq(Nat) /\ kept \o file \in Seq(Nat)
  BY DEF LossInv, BufferInv, OrderInv
<1>2. Stored \in Seq(Nat) /\ (torn = 0 => Accounted \in Nat)
  BY <1>1, <1>1a DEF Stored, LogNumbers, Accounted
<1>3. ASSUME UNCHANGED <<file, kept, buffer>>, torn' = 0 => torn = 0 /\ Accounted <= Accounted'
      PROVE  OrderInv'
  <2>1. torn' = 0 => \A i \in 1 .. Len(Stored) : Stored[i] <= Accounted'
    <3> SUFFICES ASSUME torn' = 0, NEW i \in 1 .. Len(Stored) PROVE Stored[i] <= Accounted'
      OBVIOUS
    <3>1. Stored[i] \in Nat /\ Accounted \in Nat /\ Accounted' \in Nat
      BY <1>1, <1>2, <1>3 DEF LogNumbers, Accounted
    <3>2. Stored[i] <= Accounted /\ Accounted <= Accounted'
      BY <1>3 DEF OrderInv
    <3> QED
      BY <3>1, <3>2
  <2>2. Stored' = Stored
    BY <1>3 DEF Stored
  <2> QED
    BY <1>3, <2>1, <2>2 DEF OrderInv
<1>4. CASE UNCHANGED <<file, kept, buffer, torn, persist, wpc, at>>
  BY <1>1, <1>3, <1>4 DEF Accounted, LogNumbers
<1>5. CASE Log!DrainBegins
  <2>1. UNCHANGED <<file, kept, buffer, torn>> /\ wpc = "idle" /\ (wpc' = "lines" => at' = persist')
    BY <1>5 DEF Log!DrainBegins, Log!card
  <2>2. persist <= persist'
    BY <1>1, <1>5 DEF Log!DrainBegins, Log!CountLoss, LogNumbers, LogConstants
  <2> QED
    BY <1>1, <1>3, <2>1, <2>2 DEF Accounted
<1>6. CASE Log!Line
  <2>1. /\ wpc = "lines" /\ at' = at + 1 /\ UNCHANGED <<kept, file>> /\ persist' = persist
        /\ at \in Nat /\ persist \in Nat /\ persist <= at
    BY <1>1, <1>6 DEF Log!Line, LogNumbers
  <2>2. CASE buffer' = Append(buffer, at + 1) /\ UNCHANGED <<wpc, torn>>
    <3>1. Stored' = Append(Stored, at + 1)
      BY <1>1a, <2>1, <2>2 DEF Stored
    <3>2. at + 1 \in Nat /\ Accounted = at /\ Accounted' = at + 1
      BY <2>1, <2>2 DEF OrderInv, Accounted
    <3>3. ASSUME torn = 0
          PROVE  Log!Rising(Stored') /\ \A i \in 1 .. Len(Stored') : Stored'[i] <= at + 1
      <4>1. Log!Rising(Stored) /\ \A i \in 1 .. Len(Stored) : Stored[i] < at + 1
        BY <1>2, <2>1, <3>2, <3>3 DEF OrderInv
      <4> QED
        BY <1>2, <3>1, <3>2, <4>1, RisesOn
    <3> QED
      BY <2>1, <2>2, <3>2, <3>3 DEF OrderInv
  <2>3. CASE torn' = torn + 1 /\ UNCHANGED buffer
    BY <1>1, <1>3, <2>1, <2>3 DEF LogNumbers
  <2>4. CASE UNCHANGED <<buffer, wpc, torn>>
    BY <1>3, <2>1, <2>4 DEF Accounted
  <2> QED
    BY <1>6, <2>2, <2>3, <2>4 DEF Log!Line
<1>7. CASE Log!DrainEnds
  <2>1. /\ wpc = "lines" /\ at = upto /\ persist' = upto /\ wpc' = "idle" /\ torn' = torn
        /\ Accounted' = Accounted
    BY <1>7 DEF Log!DrainEnds, Accounted
  <2>2. PICK n \in 0 .. Len(buffer) :
          /\ buffer' = <<>>
          /\ \/ kept' = Log!Last(kept \o Log!OnCard(n), KeepFiles * FileLines) /\ file' = <<>>
             \/ file' = Log!OnCard(n) /\ kept' = kept
    BY <1>7 DEF Log!DrainEnds, Log!Closes
  <2> DEFINE front == SubSeq(buffer, 1, n)
             w == (kept \o file) \o front
  <2>3. front \in Seq(Nat)
    BY <1>1a, StartIsSeq
  <2> HIDE DEF front
  <2>4. Log!OnCard(n) \in Seq(Nat) /\ kept \o Log!OnCard(n) = w /\ w \in Seq(Nat)
    <3>1. kept \in Seq(Nat) /\ file \in Seq(Nat)
      BY DEF OrderInv
    <3>2. Log!OnCard(n) = file \o front
      BY DEF Log!OnCard, front
    <3>3. kept \o (file \o front) = (kept \o file) \o front
      BY <2>3, <3>1, PartsJoin
    <3> QED
      BY <2>3, <3>1, <3>2, <3>3
  <2>5. torn = 0 => /\ Accounted \in Nat /\ Log!Rising(w)
                    /\ \A i \in 1 .. Len(w) : w[i] <= Accounted
    BY <1>1a, <1>2, FrontRises DEF OrderInv, Stored, front
  <2> HIDE DEF w
  <2>6. CASE file' = Log!OnCard(n) /\ kept' = kept
    <3>1. Stored' = w /\ file' \in Seq(Nat) /\ kept' \in Seq(Nat)
      <4>1. Stored' = w \o <<>>
        BY <2>2, <2>4, <2>6 DEF Stored
      <4> QED
        BY <2>4, <2>6, <4>1 DEF OrderInv
    <3> QED
      BY <2>1, <2>5, <3>1 DEF OrderInv
  <2>7. CASE kept' = Log!Last(w, KeepFiles * FileLines) /\ file' = <<>>
    <3>1. KeepFiles * FileLines \in Nat /\ Len(w) \in Nat
      BY <2>4
    <3>2. PICK m \in Nat \ {0} : m <= Len(w) + 1 /\ kept' = SubSeq(w, m, Len(w))
      <4> DEFINE k == KeepFiles * FileLines
                 m == IF Len(w) > k THEN Len(w) - k + 1 ELSE 1
      <4>1. k \in Nat
        BY <3>1
      <4> HIDE DEF k
      <4>2. m \in Nat \ {0} /\ m <= Len(w) + 1
        BY <3>1, <4>1
      <4>3. kept' = SubSeq(w, m, Len(w))
        BY <2>7 DEF Log!Last, k
      <4> QED
        BY <4>2, <4>3
    <3>3. kept' \in Seq(Nat) /\ file' \in Seq(Nat)
      <4>1. file' \in Seq(Nat)
        BY <2>7
      <4> QED
        BY <2>4, <3>2, <4>1, PartIsSeq
    <3>4. Stored' = kept'
      BY <2>2, <2>7, <3>3 DEF Stored
    <3>5. torn = 0 => /\ Log!Rising(kept')
                      /\ \A i \in 1 .. Len(kept') : kept'[i] <= Accounted
      BY <2>4, <2>5, <3>2, RisingPart
    <3> QED
      BY <2>1, <3>3, <3>4, <3>5 DEF OrderInv
  <2> QED
    BY <2>2, <2>4, <2>6, <2>7
<1>8. CASE Log!DrainFails
  <2>1. PICK n \in 0 .. Len(buffer) : file' = Log!OnCard(n)
    BY <1>8 DEF Log!DrainFails
  <2>2. SubSeq(buffer, 1, n) \in Seq(Nat)
    BY <1>1a, StartIsSeq
  <2>3. file' \in Seq(Nat) /\ kept' \in Seq(Nat) /\ torn' # 0
    BY <1>1, <1>8, <2>1, <2>2 DEF Log!OnCard, OrderInv, Log!DrainFails, LogNumbers
  <2> QED
    BY <2>3 DEF OrderInv
<1>9. Log!Emit \/ Log!FileRead \/ Log!RamBegins \/ Log!RamLine \/ UNCHANGED Log!vars
      => UNCHANGED <<file, kept, buffer, torn, persist, wpc, at>>
  BY DEF Log!Emit, Log!FileRead, Log!RamBegins, Log!RamLine, Log!vars, Log!log, Log!card,
         Log!drain
<1> QED
  BY <1>4, <1>5, <1>6, <1>7, <1>8, <1>9 DEF Log!Next

(* While no write was seen to fail the files hold the events in order and once *)
(* each, across bursts that overtake the writer and across rotations          *)
(* (evl_drain).                                                               *)
THEOREM FilesStayInOrder ==
    ASSUME LogConstants, KeepFiles \in Nat, FileLines \in Nat
    PROVE  Log!Spec => []Log!FilesInOrder
<1>1. Log!Init => LossInv /\ OrderInv
  <2> SUFFICES ASSUME Log!Init PROVE LossInv /\ OrderInv
    OBVIOUS
  <2>1. kept = <<>> /\ file = <<>> /\ buffer = <<>>
    BY DEF Log!Init
  <2>2. Stored = <<>> /\ <<>> \in Seq(Nat) /\ Len(<<>>) = 0
    BY <2>1 DEF Stored
  <2>3. OrderInv
    BY <2>1, <2>2 DEF OrderInv, Log!Rising
  <2> QED
    BY <2>3, LossInit
<1>2. LossInv /\ OrderInv /\ [Log!Next]_(Log!vars) => (LossInv /\ OrderInv)'
  BY LossStep, OrderStep
<1>3. LossInv /\ OrderInv => Log!FilesInOrder
  <2> SUFFICES ASSUME LossInv, OrderInv, torn = 0 PROVE Log!Rising(kept \o file)
    BY DEF Log!FilesInOrder
  <2> DEFINE a == kept \o file
  <2>1. a \in Seq(Nat) /\ buffer \in Seq(Nat) /\ 0 \in 0 .. Len(buffer)
    BY DEF OrderInv, LossInv, BufferInv
  <2>2. Log!Rising(a \o buffer)
    BY DEF OrderInv, Stored
  <2> HIDE DEF a
  <2>3. Len(a) \in Nat /\ Len(a \o buffer) = Len(a) + Len(buffer) /\ Len(buffer) \in Nat
        /\ \A i \in 1 .. Len(a) : (a \o buffer)[i] = a[i]
    BY <2>1
  <2>4. Log!Rising(a)
    BY <2>2, <2>3 DEF Log!Rising
  <2> QED
    BY <2>4 DEF a
<1> QED
  BY <1>1, <1>2, <1>3, PTL DEF Log!Spec

\* The listing is not ahead of its position in the ring.
ListingInv ==
    /\ head \in Nat /\ from \in Nat /\ told \in Nat
    /\ rpc = "lines" => told <= from

(* A listing of the ring never goes back, whatever overwrites the ring in     *)
(* between (evl_send_ram).                                                    *)
THEOREM ListingsGoForward == ASSUME LogConstants PROVE Log!Spec => Log!ListingInOrder
<1>1. Log!Init => ListingInv
  BY DEF Log!Init, ListingInv
<1>2. ListingInv /\ [Log!Next]_(Log!vars)
      => ListingInv' /\ (rpc = "lines" /\ rpc' = "lines" => told' >= told)
  <2> SUFFICES ASSUME ListingInv, [Log!Next]_(Log!vars)
               PROVE  ListingInv' /\ (rpc = "lines" /\ rpc' = "lines" => told' >= told)
    OBVIOUS
  <2>1. CASE Log!RamBegins
    BY <2>1 DEF Log!RamBegins, Log!log, ListingInv, LogConstants
  <2>2. CASE Log!RamLine
    BY <2>2 DEF Log!RamLine, Log!log, ListingInv
  <2>3. CASE UNCHANGED Log!reader /\ head' \in Nat
    BY <2>3 DEF Log!reader, ListingInv
  <2>4. Log!Emit \/ Log!DrainBegins \/ Log!Line \/ Log!DrainEnds \/ Log!DrainFails
        \/ Log!FileRead \/ UNCHANGED Log!vars
        => UNCHANGED Log!reader /\ head' \in Nat
    BY DEF Log!Emit, Log!DrainBegins, Log!Line, Log!DrainEnds, Log!DrainFails, Log!FileRead,
           Log!vars, Log!log, Log!reader, ListingInv
  <2> QED
    BY <2>1, <2>2, <2>3, <2>4 DEF Log!Next
<1> QED
  BY <1>1, <1>2, PTL DEF Log!Spec, Log!ListingInOrder

\* What every variable of the log holds, and the reader's place in its window.
LogTyped ==
    /\ head \in 0 .. MaxEvents /\ upto \in 0 .. MaxEvents /\ at \in 0 .. MaxEvents
    /\ ring \in [0 .. RingN - 1 -> 0 .. MaxEvents]
    /\ file \in Seq(1 .. MaxEvents) /\ kept \in Seq(1 .. MaxEvents)
    /\ buffer \in Seq(1 .. MaxEvents)
    /\ mutex \in {"free", "writer", "file"} /\ wpc \in {"idle", "lines", "failed", "done"}
    /\ rpc \in {"idle", "lines"} /\ from \in 0 .. MaxEvents /\ end \in 0 .. MaxEvents
    /\ told \in 0 .. MaxEvents /\ (rpc = "lines" => from <= end)
    /\ written \subseteq 1 .. MaxEvents /\ faded \subseteq 1 .. MaxEvents
    /\ torn \in 0 .. MaxTears

LogBounds == LogConstants /\ KeepFiles \in Nat /\ FileLines \in Nat

LEMMA LastIs ==
    ASSUME NEW S, NEW s \in Seq(S), NEW n \in Nat PROVE Log!Last(s, n) \in Seq(S)
<1> DEFINE k == IF Len(s) > n THEN Len(s) - n + 1 ELSE 1
<1>1. Len(s) \in Nat
  OBVIOUS
<1>2. k \in Nat /\ k >= 1
  BY <1>1
<1>3. \A i \in k .. Len(s) : i \in 1 .. Len(s)
  BY <1>1, <1>2
<1> HIDE DEF k
<1>4. SubSeq(s, k, Len(s)) \in Seq(S)
  BY <1>1, <1>2, <1>3
<1> QED
  BY <1>4 DEF Log!Last, k

LEMMA LogTypedStep ==
    ASSUME LogBounds, LossInv, LogTyped, [Log!Next]_(Log!vars)  PROVE LogTyped'
<1> USE DEF LogTyped
<1>1. /\ head \in Nat /\ head <= MaxEvents /\ MaxEvents \in Nat /\ RingN \in Nat
      /\ MaxTears \in Nat /\ persist \in Nat /\ persist <= head
  BY DEF LogBounds, LogConstants, LossInv, LogNumbers
<1>1a. KeepFiles * FileLines \in Nat
  BY DEF LogBounds
<1>2. CASE Log!Emit
  <2>1. head + 1 \in 0 .. MaxEvents /\ head' = head + 1
    BY <1>1, <1>2 DEF Log!Emit
  <2>2. ring' \in [0 .. RingN - 1 -> 0 .. MaxEvents]
    BY <1>2, <2>1 DEF Log!Emit
  <2> QED
    BY <1>2, <2>1, <2>2 DEF Log!Emit, Log!card, Log!drain, Log!reader
<1>3. CASE Log!DrainBegins
  <2>1. persist' \in 0 .. MaxEvents
    BY <1>1, <1>3 DEF Log!DrainBegins, Log!CountLoss
  <2>2. /\ \/ mutex' = "writer" /\ wpc' = "lines" /\ upto' = head /\ at' = persist'
           \/ UNCHANGED <<mutex, wpc, upto, at>>
        /\ UNCHANGED <<head, ring, file, kept, buffer, written, faded, torn, rpc, from, end, told>>
    BY <1>3 DEF Log!DrainBegins, Log!card, Log!reader
  <2> QED
    BY <2>1, <2>2
<1>4. CASE Log!Line
  <2>1. /\ wpc = "lines" /\ at < upto /\ at' = at + 1
        /\ UNCHANGED <<head, ring, file, kept, written, faded, mutex, upto, rpc, from, end, told>>
    BY <1>4 DEF Log!Line, Log!reader
  <2>2. at + 1 \in 1 .. MaxEvents /\ at' \in 0 .. MaxEvents
    BY <1>1, <2>1
  <2>3. \/ buffer' = Append(buffer, at + 1) /\ UNCHANGED <<wpc, torn>>
        \/ torn < MaxTears /\ torn' = torn + 1 /\ wpc' = "failed" /\ UNCHANGED buffer
        \/ UNCHANGED <<buffer, wpc, torn>>
    BY <1>4 DEF Log!Line
  <2>4. buffer' \in Seq(1 .. MaxEvents)
    <3>1. Append(buffer, at + 1) \in Seq(1 .. MaxEvents)
      BY <2>2
    <3> QED
      BY <2>2, <2>3, <3>1
  <2>5. torn' \in 0 .. MaxTears
    BY <1>1, <2>3
  <2>6. wpc' \in {"idle", "lines", "failed", "done"}
    BY <2>3
  <2> QED
    BY <2>1, <2>2, <2>4, <2>5, <2>6
<1>4a. ASSUME NEW n \in 0 .. Len(buffer)
       PROVE  /\ Log!OnCard(n) \in Seq(1 .. MaxEvents)
              /\ {buffer[i] : i \in 1 .. n} \subseteq 1 .. MaxEvents
              /\ {buffer[i] : i \in n + 1 .. Len(buffer)} \subseteq 1 .. MaxEvents
  <2>1. SubSeq(buffer, 1, n) \in Seq(1 .. MaxEvents)
    BY StartIsSeq
  <2>2. Len(buffer) \in Nat /\ \A i \in 1 .. Len(buffer) : buffer[i] \in 1 .. MaxEvents
    <3>1. buffer \in Seq(1 .. MaxEvents)
      OBVIOUS
    <3> HIDE DEF LogTyped
    <3> QED
      BY <3>1, Elements
  <2>3. \A i \in Int : i \in 1 .. n \/ i \in n + 1 .. Len(buffer) => i \in 1 .. Len(buffer)
    BY <2>2
  <2>4. Log!OnCard(n) \in Seq(1 .. MaxEvents)
    BY <2>1 DEF Log!OnCard
  <2>5. {buffer[i] : i \in 1 .. n} \subseteq 1 .. MaxEvents
    BY <2>2, <2>3
  <2>6. {buffer[i] : i \in n + 1 .. Len(buffer)} \subseteq 1 .. MaxEvents
    BY <2>2, <2>3
  <2> QED
    BY <2>4, <2>5, <2>6
<1>4b. <<>> \in Seq(1 .. MaxEvents) /\ 0 \in 0 .. MaxEvents
  BY <1>1
<1>5. CASE Log!DrainEnds
  <2>1. /\ mutex' = "free" /\ wpc' = "idle" /\ upto' = 0 /\ at' = 0
        /\ UNCHANGED <<head, ring, torn, rpc, from, end, told>>
    BY <1>5 DEF Log!DrainEnds, Log!reader
  <2>2. PICK n \in 0 .. Len(buffer) :
          /\ buffer' = <<>> /\ written' = written \cup {buffer[i] : i \in 1 .. n}
          /\ faded' = faded \cup {buffer[i] : i \in n + 1 .. Len(buffer)}
          /\ \/ kept' = Log!Last(kept \o Log!OnCard(n), KeepFiles * FileLines) /\ file' = <<>>
             \/ file' = Log!OnCard(n) /\ kept' = kept
    BY <1>5 DEF Log!DrainEnds, Log!Closes
  <2>3. Log!OnCard(n) \in Seq(1 .. MaxEvents) /\ kept \o Log!OnCard(n) \in Seq(1 .. MaxEvents)
    BY <1>4a
  <2>4. Log!Last(kept \o Log!OnCard(n), KeepFiles * FileLines) \in Seq(1 .. MaxEvents)
    BY <1>1a, <2>3, LastIs
  <2>5. file' \in Seq(1 .. MaxEvents) /\ kept' \in Seq(1 .. MaxEvents)
    BY <1>4b, <2>2, <2>3, <2>4
  <2>6. written' \subseteq 1 .. MaxEvents /\ faded' \subseteq 1 .. MaxEvents
    BY <1>4a, <2>2
  <2>7. upto' \in 0 .. MaxEvents /\ at' \in 0 .. MaxEvents /\ buffer' \in Seq(1 .. MaxEvents)
    BY <1>4b, <2>1, <2>2
  <2> QED
    BY <2>1, <2>5, <2>6, <2>7
<1>6. CASE Log!DrainFails
  <2>1. /\ mutex' = "free" /\ wpc' = "idle" /\ upto' = 0 /\ at' = 0
        /\ UNCHANGED <<head, ring, kept, faded, torn, rpc, from, end, told>>
    BY <1>6 DEF Log!DrainFails, Log!log, Log!reader
  <2>2. PICK n \in 0 .. Len(buffer) :
          /\ buffer' = <<>> /\ written' = written \cup {buffer[i] : i \in 1 .. n}
          /\ file' = Log!OnCard(n)
    BY <1>6 DEF Log!DrainFails, Log!Closes
  <2>3. file' \in Seq(1 .. MaxEvents) /\ written' \subseteq 1 .. MaxEvents
    BY <1>4a, <2>2
  <2>4. upto' \in 0 .. MaxEvents /\ at' \in 0 .. MaxEvents /\ buffer' \in Seq(1 .. MaxEvents)
    BY <1>4b, <2>1, <2>2
  <2> QED
    BY <2>1, <2>3, <2>4
<1>7. CASE Log!FileRead
  BY <1>7 DEF Log!FileRead, Log!log, Log!card, Log!drain, Log!reader
<1>8. CASE Log!RamBegins
  <2>1. /\ rpc' = "lines" /\ end' = head /\ told' = 0
        /\ from' = IF head < RingN THEN 0 ELSE head - RingN
        /\ UNCHANGED <<head, ring, file, kept, buffer, written, faded, torn, mutex, wpc, upto, at>>
    BY <1>8 DEF Log!RamBegins, Log!log, Log!card, Log!drain
  <2>2. from' \in 0 .. MaxEvents /\ from' <= end' /\ told' \in 0 .. MaxEvents /\ end' \in 0 .. MaxEvents
    BY <1>1, <2>1
  <2> QED
    BY <2>1, <2>2
<1>9. CASE Log!RamLine
  <2>1. /\ rpc = "lines"
        /\ \/ rpc' = "idle" /\ from' = 0 /\ end' = 0 /\ told' = 0
           \/ /\ from # end /\ from' = from + 1 /\ UNCHANGED <<rpc, end>>
              /\ told' = from + 1 \/ told' = told
        /\ UNCHANGED <<head, ring, file, kept, buffer, written, faded, torn, mutex, wpc, upto, at>>
    BY <1>9 DEF Log!RamLine, Log!log, Log!card, Log!drain
  <2>2. /\ from' \in 0 .. MaxEvents /\ told' \in 0 .. MaxEvents /\ end' \in 0 .. MaxEvents
        /\ (rpc' = "lines" => from' <= end')
    BY <1>1, <2>1
  <2>3. rpc' \in {"idle", "lines"}
    BY <2>1
  <2> QED
    BY <2>1, <2>2, <2>3
<1>10. CASE UNCHANGED Log!vars
  BY <1>10 DEF Log!vars, Log!log, Log!card, Log!drain, Log!reader
<1> QED
  BY <1>2, <1>3, <1>4, <1>5, <1>6, <1>7, <1>8, <1>9, <1>10 DEF Log!Next

(* An event that is not stored is counted, unless a flush gave it up unseen,   *)
(* and while no write was seen to fail the files and the listing hold the      *)
(* events in the order they came (event_log).                                  *)
LogIsTrue ==
    /\ []Log!TypeOK /\ []Log!LossIsCounted /\ []Log!FilesInOrder
    /\ Log!ListingInOrder

\* Whatever the ring's size, the bursts, the rotations and the failed writes and flushes.
THEOREM LogStaysTrue == ASSUME LogBounds PROVE Log!Spec => LogIsTrue
<1>1. Log!Init => LossInv /\ LogTyped
  <2> SUFFICES ASSUME Log!Init PROVE LogTyped
    BY LossInit
  <2>1. 0 \in 0 .. MaxEvents /\ 0 \in 0 .. MaxTears /\ <<>> \in Seq(1 .. MaxEvents)
    BY DEF LogBounds, LogConstants
  <2> QED
    BY <2>1 DEF Log!Init, LogTyped
<1>2. LossInv /\ LogTyped /\ [Log!Next]_(Log!vars) => (LossInv /\ LogTyped)'
  BY LossStep, LogTypedStep DEF LogBounds
<1>3. LossInv /\ LogTyped => Log!TypeOK
  <2> SUFFICES ASSUME LossInv, LogTyped PROVE Log!TypeOK
    OBVIOUS
  <2>1. persist \in 0 .. MaxEvents /\ dropped \in Nat
    BY DEF LossInv, LogNumbers, LogTyped, LogBounds, LogConstants
  <2> QED
    BY <2>1 DEF LogTyped, Log!TypeOK
<1>4. Log!Spec => []Log!TypeOK
  BY <1>1, <1>2, <1>3, PTL DEF Log!Spec
<1>5. (Log!Spec => []Log!LossIsCounted) /\ (Log!Spec => []Log!FilesInOrder)
  BY LossesAreCounted, FilesStayInOrder DEF LogBounds
<1>6. Log!Spec => Log!ListingInOrder
  BY ListingsGoForward DEF LogBounds
<1> QED
  BY <1>4, <1>5, <1>6, PTL DEF LogIsTrue

-----------------------------------------------------------------------------
(* The Files page, which asks the fence before it deletes or renames.        *)
CONSTANTS Nodes, Parent, Dirs, Root, Logs, LogNames, Reserved, Protected, Hidden,
          Image, Start, MaxRequests, MaxLogs, MaxFlashes, MaxFaults, MaxOpen

VARIABLES tree, req, target, new, stack, ok, hit, gone, opens, reply, log, used,
          logs, flashes, faults, files_wpc, files_session, files_flash, files_kept

Files == INSTANCE SdFiles WITH flash <- files_flash, session <- files_session,
                               wpc <- files_wpc, kept <- files_kept

\* The writer's names are names of files.
FilesConstants == /\ MaxLogs \in Nat /\ Root \in Dirs
                  /\ \A i \in 1 .. MaxLogs : LogNames[i] \notin Dirs

Closed == req # "download" /\ opens = 0
FilesOpen == Closed \/ (req = "download" /\ opens = 1)

\* Every request but a download leaves the count of open files alone.
LEMMA OpenStep == FilesOpen /\ [Files!Next]_(Files!vars) => FilesOpen'
<1> SUFFICES ASSUME FilesOpen, [Files!Next]_(Files!vars) PROVE FilesOpen'
  OBVIOUS
<1> USE DEF FilesOpen, Closed, Files!Arrives, Files!Replies
<1>1. CASE \E n \in Nodes : Files!Mkdir(n)
  BY <1>1 DEF Files!Mkdir
<1>2. CASE \E n, m \in Nodes : Files!Ask(n, m)
  BY <1>2 DEF Files!Ask
<1>3. CASE \E n \in Nodes : Files!Download(n)
  BY <1>3 DEF Files!Download
<1>4. CASE \E d \in Dirs : Files!List(d)
  BY <1>4 DEF Files!List, Files!Idle
<1>5. CASE Files!Rename \/ Files!Delete
  BY <1>5 DEF Files!Rename, Files!Delete
<1>6. CASE Files!WalkStep
  BY <1>6 DEF Files!WalkStep, Files!WalkFile, Files!WalkDir
<1>7. CASE Files!WalkUp
  BY <1>7 DEF Files!WalkUp
<1>8. CASE Files!DownloadEnds
  BY <1>8 DEF Files!DownloadEnds, Files!NoBufferCloses
<1>9. CASE UNCHANGED <<req, opens>>
  BY <1>9
<1>10. Files!LogOpens \/ Files!LogDeclared \/ Files!LogRotates \/ Files!LogCloses
       \/ Files!FlashBegins \/ Files!FlashEnds \/ UNCHANGED Files!vars
       => UNCHANGED <<req, opens>>
  BY DEF Files!LogOpens, Files!LogDeclared, Files!LogRotates, Files!LogCloses,
         Files!FlashBegins, Files!FlashEnds, Files!vars, Files!Others, Files!http
<1>11. \A n \in Nodes \ Dirs : \A m \in Files!Siblings(n) : n \in Nodes /\ m \in Nodes
  BY DEF Files!Siblings
<1> QED
  BY <1>1, <1>2, <1>3, <1>4, <1>5, <1>6, <1>7, <1>8, <1>9, <1>10, <1>11
  DEF Files!Next

(* Every file the page opened is closed with its request, also when the      *)
(* client goes or no buffer is to be had (sdfm_handle_download).             *)
THEOREM NoFileStaysOpen == Files!Spec => []Files!NothingLeaks
<1>1. Files!Init => FilesOpen
  BY DEF Files!Init, FilesOpen, Closed
<1>2. FilesOpen => Files!NothingLeaks
  BY DEF FilesOpen, Closed, Files!NothingLeaks
<1> QED
  BY <1>1, <1>2, OpenStep, PTL DEF Files!Spec

\* The directories a walk is in.
Frames(L) == [dir : Dirs, left : L]
StackInv == /\ \E L : stack \in Seq(Frames(L))
            /\ req = "walk" => stack # <<>>

LEMMA SeqGrows ==
    ASSUME NEW A, NEW B, A \subseteq B, NEW s \in Seq(A)  PROVE s \in Seq(B)
<1>1. Len(s) \in Nat /\ s \in [1 .. Len(s) -> A]
  OBVIOUS
<1>2. s \in [1 .. Len(s) -> B]
  BY <1>1
<1> QED
  BY <1>1, <1>2

LEMMA FrontIsSeq ==
    ASSUME NEW A, NEW s \in Seq(A), s # <<>>
    PROVE  /\ SubSeq(s, 1, Len(s) - 1) \in Seq(A)
           /\ Len(SubSeq(s, 1, Len(s) - 1)) = Len(s) - 1
<1>1. Len(s) \in Nat /\ Len(s) > 0 /\ \A i \in 1 .. Len(s) : s[i] \in A
  OBVIOUS
<1>2. SubSeq(s, 1, Len(s) - 1) \in Seq(A)
  BY <1>1
<1>3. Len(SubSeq(s, 1, Len(s) - 1)) = Len(s) - 1
  BY <1>1
<1> QED
  BY <1>2, <1>3

LEMMA RestFrames ==
    ASSUME NEW L, NEW s \in Seq(Frames(L)), s # <<>>
    PROVE  /\ Files!Rest(s) \in Seq(Frames(L \cup {Tail(s[Len(s)].left)}))
           /\ Files!Rest(s) # <<>>
<1> DEFINE M == L \cup {Tail(s[Len(s)].left)}
           f == [s[Len(s)] EXCEPT !.left = Tail(@)]
<1>1. Len(s) \in Nat /\ Len(s) > 0 /\ s[Len(s)] \in Frames(L)
  OBVIOUS
<1>2. f \in Frames(M)
  BY <1>1 DEF Frames
<1>3. s \in Seq(Frames(M))
  <2>1. Frames(L) \subseteq Frames(M)
    BY DEF Frames
  <2> QED
    BY <2>1, SeqGrows
<1>4. SubSeq(s, 1, Len(s) - 1) \in Seq(Frames(M))
  BY <1>3, FrontIsSeq
<1>5. Files!Rest(s) = SubSeq(s, 1, Len(s) - 1) \o <<f>>
  BY DEF Files!Rest, Files!Front, Files!Last
<1> HIDE DEF f, M
<1>6. <<f>> \in Seq(Frames(M)) /\ Len(<<f>>) = 1
  BY <1>2
<1>7. Files!Rest(s) \in Seq(Frames(M)) /\ Len(Files!Rest(s)) # 0
  BY <1>4, <1>5, <1>6
<1> QED
  BY <1>7 DEF M

LEMMA AppendFrame ==
    ASSUME NEW L, NEW s \in Seq(Frames(L)), NEW d \in Dirs, NEW l
    PROVE  /\ Append(s, [dir |-> d, left |-> l]) \in Seq(Frames(L \cup {l}))
           /\ Append(s, [dir |-> d, left |-> l]) # <<>>
<1>1. s \in Seq(Frames(L \cup {l}))
  <2>1. Frames(L) \subseteq Frames(L \cup {l})
    BY DEF Frames
  <2> QED
    BY <2>1, SeqGrows
<1>2. [dir |-> d, left |-> l] \in Frames(L \cup {l})
  BY DEF Frames
<1> QED
  BY <1>1, <1>2

LEMMA StackStep ==
    ASSUME FilesConstants, StackInv, [Files!Next]_(Files!vars)  PROVE StackInv'
<1>1. PICK L : stack \in Seq(Frames(L))
  BY DEF StackInv
<1>2. CASE stack' = stack /\ (req' = "walk" => req = "walk")
  BY <1>2 DEF StackInv
<1>3. CASE Files!Delete
  <2>1. CASE req' = "walk" /\ stack' = <<[dir |-> Root, left |-> <<target>>]>>
    <3>1. [dir |-> Root, left |-> <<target>>] \in Frames({<<target>>})
      BY DEF Frames, FilesConstants
    <3>2. stack' \in Seq(Frames({<<target>>})) /\ stack' # <<>>
      BY <2>1, <3>1
    <3> QED
      BY <3>2 DEF StackInv
  <2>2. CASE req' = "none" /\ stack' = stack
    BY <1>2, <2>2
  <2> QED
    BY <1>3, <2>1, <2>2 DEF Files!Delete, Files!Replies, Files!walk
<1>4. CASE Files!WalkStep
  <2>1. stack # <<>> /\ req = "walk"
    BY <1>4 DEF Files!WalkStep, StackInv
  <2>2. PICK M : Files!Rest(stack) \in Seq(Frames(M)) /\ Files!Rest(stack) # <<>>
    BY <1>1, <2>1, RestFrames
  <2>3. CASE stack' = Files!Rest(stack)
    BY <2>2, <2>3 DEF StackInv
  <2>4. ASSUME NEW n \in Dirs,
               stack' = Append(Files!Rest(stack),
                               [dir |-> n, left |-> Files!SetToSeq(Files!Children(n))])
        PROVE  StackInv'
    <3>1. \E N : stack' \in Seq(Frames(N)) /\ stack' # <<>>
      BY <2>2, <2>4, AppendFrame
    <3> QED
      BY <3>1 DEF StackInv
  <2> QED
    BY <1>4, <2>3, <2>4 DEF Files!WalkStep, Files!WalkFile, Files!WalkDir
<1>5. CASE Files!WalkUp
  <2>1. stack # <<>> /\ stack' = Files!Front(stack)
    BY <1>5 DEF Files!WalkUp, StackInv
  <2>2. stack' = SubSeq(stack, 1, Len(stack) - 1) /\ Len(stack) \in Nat /\ Len(stack) > 0
    BY <1>1, <2>1 DEF Files!Front
  <2>3. stack' \in Seq(Frames(L)) /\ Len(stack') = Len(stack) - 1
    BY <1>1, <2>1, <2>2, FrontIsSeq
  <2>4. req' = "walk" => Len(stack) # 1
    BY <1>5 DEF Files!WalkUp, Files!Replies
  <2>5. req' = "walk" => stack' # <<>>
    BY <2>2, <2>3, <2>4
  <2> QED
    BY <2>3, <2>5 DEF StackInv
<1>6. \/ \E n \in Nodes : Files!Mkdir(n) \/ Files!Ask(n, n) \/ Files!Download(n)
      \/ \E d \in Dirs : Files!List(d)
      \/ \E n \in Nodes \ Dirs : \E m \in Files!Siblings(n) : Files!Ask(n, m)
      => stack' = stack /\ (req' = "walk" => req = "walk")
  BY DEF Files!Mkdir, Files!Ask, Files!Download, Files!List, Files!Idle, Files!walk,
         Files!Arrives
<1>7. Files!Rename \/ Files!DownloadEnds => stack' = stack /\ req' = "none"
  BY DEF Files!Rename, Files!DownloadEnds, Files!Replies, Files!walk
<1>8. Files!LogOpens \/ Files!LogDeclared \/ Files!LogRotates \/ Files!LogCloses
       \/ Files!FlashBegins \/ Files!FlashEnds \/ UNCHANGED Files!vars
       => UNCHANGED <<req, stack>>
  BY DEF Files!LogOpens, Files!LogDeclared, Files!LogRotates, Files!LogCloses,
         Files!FlashBegins, Files!FlashEnds, Files!vars, Files!Others, Files!http,
         Files!walk
<1> QED
  BY <1>2, <1>3, <1>4, <1>5, <1>6, <1>7, <1>8 DEF Files!Next

\* The writer's file, and the log that was active when the request came.
LogInv ==
    /\ logs \in Nat /\ (log # Files!None => log \notin Dirs)
    /\ files_kept # Files!None =>
          /\ files_session /\ files_wpc = "open" /\ log = files_kept
          /\ files_kept \in tree

LEMMA LogStep ==
    ASSUME FilesConstants, StackInv, LogInv, [Files!Next]_(Files!vars)  PROVE LogInv'
<1> USE DEF LogInv
<1>1. CASE /\ UNCHANGED <<logs, log, files_session, files_wpc>>
           /\ files_kept' = files_kept /\ (files_kept \in tree => files_kept \in tree')
  BY <1>1
<1>2. CASE /\ UNCHANGED <<logs, log, files_session, files_wpc, tree>>
           /\ files_kept' = IF files_session /\ files_wpc = "open" /\ log \in tree
                            THEN log ELSE Files!None
  BY <1>2
<1>3. CASE \E n \in Nodes : Files!Mkdir(n)
  BY <1>3 DEF Files!Mkdir, Files!writer
<1>4. ASSUME NEW n, NEW m, Files!Ask(n, m)  PROVE LogInv'
  BY <1>2, <1>4 DEF Files!Ask, Files!Arrives, Files!writer, Files!fs
<1>5. CASE \E n \in Nodes : Files!Download(n)
  BY <1>2, <1>5 DEF Files!Download, Files!Arrives, Files!writer, Files!fs
<1>6. CASE \E d \in Dirs : Files!List(d)
  BY <1>2, <1>6 DEF Files!List, Files!Arrives, Files!writer, Files!fs
<1>7. CASE Files!Rename
  <2>1. UNCHANGED <<logs, log, files_session, files_wpc, files_kept>>
    BY <1>7 DEF Files!Rename, Files!writer, Files!counts
  <2>2. tree' = tree \/ (~Files!IsActive(target) /\ tree' = (tree \ {target}) \cup {new})
    BY <1>7 DEF Files!Rename, Files!RenameRefusesLog, Files!fs
  <2> QED
    BY <2>1, <2>2 DEF Files!IsActive
<1>8. CASE Files!WalkStep
  <2>1. UNCHANGED <<logs, log, files_session, files_wpc, files_kept>>
    BY <1>8 DEF Files!WalkStep, Files!writer
  <2>2. \/ tree' = tree
        \/ \E n : ~Files!IsActive(n) /\ tree' = tree \ {n}
    BY <1>8 DEF Files!WalkStep, Files!WalkFile, Files!WalkDir, Files!fs
  <2> QED
    BY <2>1, <2>2 DEF Files!IsActive
<1>9. CASE Files!WalkUp
  <2>1. UNCHANGED <<logs, log, files_session, files_wpc, files_kept>>
    BY <1>9 DEF Files!WalkUp, Files!writer, Files!counts
  <2>2. tree' = tree \/ tree' = tree \ {Files!Top.dir}
    BY <1>9 DEF Files!WalkUp, Files!CutBack, Files!fs
  <2>3. Files!Top.dir \in Dirs
    <3>1. stack # <<>>
      BY <1>9 DEF StackInv, Files!WalkUp
    <3>2. PICK L : stack \in Seq(Frames(L))
      BY DEF StackInv
    <3>3. stack[Len(stack)] \in Frames(L)
      BY <3>1, <3>2
    <3> QED
      BY <3>3 DEF Frames, Files!Top
  <2> QED
    BY <2>1, <2>2, <2>3
<1>10. CASE Files!Delete \/ Files!DownloadEnds \/ Files!FlashBegins \/ Files!FlashEnds
            \/ UNCHANGED Files!vars
  <2>1. UNCHANGED <<logs, log, files_session, files_wpc, files_kept, tree>>
    BY <1>10 DEF Files!Delete, Files!DownloadEnds, Files!FlashBegins, Files!FlashEnds,
                 Files!vars, Files!fs, Files!writer, Files!counts
  <2> QED
    BY <2>1
<1>11. CASE Files!LogOpens
  <2>1. /\ logs < MaxLogs /\ logs' = logs + 1 /\ log' = LogNames[logs + 1]
        /\ files_kept' = files_kept /\ files_wpc = "idle"
    BY <1>11 DEF Files!LogOpens, Files!FreshLog
  <2>2. log' \notin Dirs /\ logs' \in Nat
    BY <2>1 DEF FilesConstants
  <2> QED
    BY <2>1, <2>2
<1>12. CASE Files!LogDeclared
  BY <1>12 DEF Files!LogDeclared, Files!fs
<1>13. CASE Files!LogRotates
  <2>1. /\ logs < MaxLogs /\ logs' = logs + 1 /\ log' = LogNames[logs + 1]
        /\ files_kept' = Files!None
    BY <1>13 DEF Files!LogRotates, Files!FreshLog
  <2>2. log' \notin Dirs /\ logs' \in Nat
    BY <2>1 DEF FilesConstants
  <2> QED
    BY <2>1, <2>2
<1>14. CASE Files!LogCloses
  BY <1>14 DEF Files!LogCloses
<1> QED
  BY <1>3, <1>4, <1>5, <1>6, <1>7, <1>8, <1>9, <1>10, <1>11, <1>12, <1>13, <1>14
  DEF Files!Next

(* A log that was being written under its name when a request came and still *)
(* is, is still there: however deep a deletion goes and whatever the writer  *)
(* does around it (sdfm_rmtree, csv_logger_is_active_file).                  *)
THEOREM LogsOutliveRequests ==
    ASSUME FilesConstants PROVE Files!Spec => []Files!LogOutlivesRequest
<1>1. Files!Init => StackInv /\ LogInv
  <2> SUFFICES ASSUME Files!Init PROVE StackInv /\ LogInv
    OBVIOUS
  <2>1. stack = <<>> /\ req = "none"
    BY DEF Files!Init
  <2>2. <<>> \in Seq(Frames({}))
    OBVIOUS
  <2>3. StackInv
    BY <2>1, <2>2 DEF StackInv
  <2> QED
    BY <2>3 DEF Files!Init, LogInv
<1>2. StackInv /\ LogInv /\ [Files!Next]_(Files!vars) => (StackInv /\ LogInv)'
  BY StackStep, LogStep
<1>3. LogInv => Files!LogOutlivesRequest
  BY DEF LogInv, Files!LogOutlivesRequest
<1> QED
  BY <1>1, <1>2, <1>3, PTL DEF Files!Spec

-----------------------------------------------------------------------------
(* A deletion on the Files page, on any tree of the model's depth.           *)

\* The card: a tree of at most three levels below the root, of which the root
\* and the log directory are reserved; the logs are files in the latter.
CardConstants ==
    /\ FilesConstants /\ MaxRequests \in Nat
    /\ IsFiniteSet(Nodes) /\ Dirs \subseteq Nodes /\ Parent \in [Nodes -> Dirs]
    /\ Parent[Root] = Root /\ \A n \in Nodes : Parent[Parent[Parent[n]]] = Root
    /\ Logs \in Dirs /\ Parent[Logs] = Root /\ {Root, Logs} \subseteq Reserved
    /\ LogNames \in Seq(Nodes) /\ MaxLogs <= Len(LogNames)
    /\ \A i \in 1 .. Len(LogNames) : LogNames[i] \notin Dirs /\ Parent[LogNames[i]] = Logs
    /\ Start \subseteq Nodes /\ Root \in Start /\ \A n \in Start : Parent[n] \in Start

\* How deep a path is.
Level(n) == IF n = Root THEN 0
            ELSE IF Parent[n] = Root THEN 1
            ELSE IF Parent[Parent[n]] = Root THEN 2 ELSE 3

LEMMA LevelGrows ==
    ASSUME CardConstants, NEW n \in Nodes \ {Root}
    PROVE  Level(n) = Level(Parent[n]) + 1 /\ Level(n) \in Nat /\ Level(Parent[n]) \in Nat
<1>1. Parent[Root] = Root /\ Parent[Parent[Parent[n]]] = Root
  BY DEF CardConstants
<1> QED
  BY <1>1 DEF Level

LEMMA UnderParent ==
    ASSUME CardConstants, NEW n \in Nodes, NEW t, t # Root, Files!Under(Parent[n], t)
    PROVE  Files!Under(n, t)
<1>1. Parent[n] \in Nodes /\ Parent[Parent[Parent[n]]] = Root /\ Parent[Root] = Root
  BY DEF CardConstants
<1> QED
  BY <1>1 DEF Files!Under

LEMMA NothingUnder ==
    ASSUME CardConstants, NEW n \in Nodes, NEW t \in Nodes \ Dirs, Files!Under(n, t)
    PROVE  n = t
<1>1. /\ Parent[n] \in Dirs /\ Parent[Parent[n]] \in Dirs
      /\ Parent[Parent[Parent[n]]] \in Dirs
  BY DEF CardConstants
<1> QED
  BY <1>1 DEF Files!Under

LEMMA ReservedStay ==
    ASSUME CardConstants, NEW t \in Nodes \ Reserved
    PROVE  t # Root /\ t # Logs /\ ~Files!Under(Root, t) /\ ~Files!Under(Logs, t)
  BY DEF CardConstants, Files!Under

LEMMA ClosedAbove ==
    ASSUME NEW T, \A n \in T : Parent[n] \in T, NEW n \in T, NEW t, Files!Under(n, t)
    PROVE  t \in T
  BY DEF Files!Under

\* The names of a directory, each once.
LEMMA CountsNames == ASSUME NEW S PROVE Files!Cardinality(S) = Cardinality(S)
<1> DEFINE C == LET CS[T \in SUBSET S] == IF T = {} THEN 0
                                          ELSE 1 + CS[T \ {CHOOSE x : x \in T}]
                IN  CS[S]
<1>1. Files!Cardinality(S) = C
  BY DEF Files!Cardinality
<1>2. Cardinality(S) = C
  BY DEF Cardinality
<1> HIDE DEF C
<1> QED
  BY <1>1, <1>2

Once(s) == \A i, j \in 1 .. Len(s) : s[i] = s[j] => i = j

LEMMA NamesListed ==
    ASSUME NEW S, IsFiniteSet(S), NEW s, s = Files!SetToSeq(S)
    PROVE  /\ s \in Seq(S) /\ Once(s)
           /\ \A x \in S : \E i \in 1 .. Len(s) : s[i] = x
<1> DEFINE n == Cardinality(S)
           F == {g \in [1 .. n -> S] : \A a, b \in 1 .. n : g[a] = g[b] => a = b}
<1>1. n \in Nat /\ ExistsBijection(1 .. n, S)
  BY FS_CardinalityType
<1>2. F # {}
  BY <1>1 DEF ExistsBijection, Bijection, Injection, IsInjective
<1>3. \A g : g \in [1 .. n -> S] => (Files!IsInjective(g) <=> g \in F)
  BY DEF Files!IsInjective
<1>4. s \in F
  <2>1. s = CHOOSE g \in [1 .. n -> S] : Files!IsInjective(g)
    BY CountsNames DEF Files!SetToSeq
  <2>2. \E g \in [1 .. n -> S] : Files!IsInjective(g)
    BY <1>2, <1>3
  <2> HIDE DEF n
  <2>3. s \in [1 .. n -> S] /\ Files!IsInjective(s)
    BY <2>1, <2>2
  <2> QED
    BY <1>3, <2>3
<1> HIDE DEF n
<1>5. s \in Seq(S) /\ Len(s) = n
  BY <1>1, <1>4
<1>6. Once(s)
  BY <1>4, <1>5 DEF Once
<1>7. s \in Injection(1 .. n, S)
  BY <1>4 DEF Injection, IsInjective
<1>8. IsFiniteSet(1 .. n) /\ Cardinality(1 .. n) = n
  BY <1>1, FS_Interval
<1>9. s \in Surjection(1 .. n, S)
  BY <1>7, <1>8, FS_Injection DEF n
<1>10. \A x \in S : \E i \in 1 .. n : s[i] = x
  BY <1>9 DEF Surjection
<1> QED
  BY <1>5, <1>6, <1>10

\* A directory being emptied, with the names still to be followed in it: they
\* are in it, each once, and it is on the way down from the target.
Frame == [dir : Dirs, left : Seq(Nodes)]
Names(f) == {f.left[k] : k \in 1 .. Len(f.left)}
Shaped(f, i) ==
    /\ Level(f.dir) = Level(target) + i - 2 /\ Files!Under(f.dir, target)
    /\ \A c \in Names(f) : Parent[c] = f.dir /\ c # Root
    /\ Once(f.left)

\* d is the directory of f that is emptied before f goes on.
Linked(f, d) == Parent[d] = f.dir /\ d \notin Names(f)

\* Of the tree T, f's directory has the names left in f, and d; d is the root
\* when there is none below.
Whole(f, d, T) ==
    /\ f.dir \in T /\ Names(f) \subseteq T
    /\ \A c \in T \ {Root} : Parent[c] = f.dir => c = d \/ c \in Names(f)

\* A name is taken from what is left.
Less(f) == [f EXCEPT !.left = Tail(@)]

LEMMA TailNames ==
    ASSUME NEW s \in Seq(Nodes), s # <<>>, Once(s)
    PROVE  /\ Tail(s) \in Seq(Nodes) /\ Once(Tail(s))
           /\ {Tail(s)[k] : k \in 1 .. Len(Tail(s))}
              = {s[k] : k \in 1 .. Len(s)} \ {Head(s)}
           /\ Head(s) \in Nodes /\ Head(s) \in {s[k] : k \in 1 .. Len(s)}
<1>1. /\ Tail(s) \in Seq(Nodes) /\ Len(s) \in Nat \ {0} /\ Len(Tail(s)) = Len(s) - 1
      /\ \A k \in 1 .. Len(s) - 1 : Tail(s)[k] = s[k + 1]
      /\ Head(s) = s[1] /\ s[1] \in Nodes
  OBVIOUS
<1>2. Once(Tail(s))
  <2> SUFFICES ASSUME NEW i \in 1 .. Len(Tail(s)), NEW j \in 1 .. Len(Tail(s)),
                      Tail(s)[i] = Tail(s)[j]
               PROVE  i = j
    BY DEF Once
  <2>1. s[i + 1] = s[j + 1] /\ i + 1 \in 1 .. Len(s) /\ j + 1 \in 1 .. Len(s)
    BY <1>1
  <2>2. i + 1 = j + 1
    BY <2>1 DEF Once
  <2> QED
    BY <2>2
<1>3. ASSUME NEW k \in 1 .. Len(Tail(s))
      PROVE  Tail(s)[k] \in {s[j] : j \in 1 .. Len(s)} \ {Head(s)}
  <2>1. Tail(s)[k] = s[k + 1] /\ k + 1 \in 1 .. Len(s) /\ 1 \in 1 .. Len(s) /\ k + 1 # 1
    BY <1>1
  <2>2. s[k + 1] # s[1]
    BY <2>1 DEF Once
  <2> QED
    BY <1>1, <2>1, <2>2
<1>4. ASSUME NEW j \in 1 .. Len(s), s[j] # Head(s)
      PROVE  s[j] \in {Tail(s)[k] : k \in 1 .. Len(Tail(s))}
  <2>1. j # 1
    BY <1>1, <1>4
  <2>2. j - 1 \in 1 .. Len(Tail(s)) /\ Tail(s)[j - 1] = s[j]
    BY <1>1, <2>1
  <2> QED
    BY <2>2
<1>5. Head(s) \in Nodes /\ Head(s) \in {s[k] : k \in 1 .. Len(s)}
  BY <1>1
<1>6. {Tail(s)[k] : k \in 1 .. Len(Tail(s))} = {s[k] : k \in 1 .. Len(s)} \ {Head(s)}
  <2> DEFINE A == {Tail(s)[k] : k \in 1 .. Len(Tail(s))}
             B == {s[k] : k \in 1 .. Len(s)}
  <2>1. \A x \in A : x \in B \ {Head(s)}
    BY <1>3
  <2>2. \A x \in B : x # Head(s) => x \in A
    BY <1>4
  <2> HIDE DEF A, B
  <2>3. A = B \ {Head(s)} \/ Head(s) \in A
    BY <2>1, <2>2
  <2>4. A = B \ {Head(s)}
    BY <2>1, <2>3
  <2> QED
    BY <2>4 DEF A, B
<1> QED
  BY <1>1, <1>2, <1>5, <1>6

LEMMA LessFrame ==
    ASSUME NEW f \in Frame, f.left # <<>>, Once(f.left)
    PROVE  /\ Less(f) \in Frame /\ Less(f).dir = f.dir /\ Less(f).left = Tail(f.left)
           /\ Once(Less(f).left) /\ Names(Less(f)) = Names(f) \ {Head(f.left)}
           /\ Head(f.left) \in Names(f) /\ Head(f.left) \in Nodes
<1>1. f.left \in Seq(Nodes) /\ f.dir \in Dirs
  BY DEF Frame
<1>2. \A l \in Seq(Nodes) : /\ [f EXCEPT !.left = l] \in Frame
                            /\ [f EXCEPT !.left = l].dir = f.dir
                            /\ [f EXCEPT !.left = l].left = l
  BY DEF Frame
<1>3. Tail(f.left) \in Seq(Nodes)
  BY <1>1, TailNames
<1>4. Less(f) \in Frame /\ Less(f).dir = f.dir /\ Less(f).left = Tail(f.left)
  BY <1>2, <1>3 DEF Less
<1> QED
  BY <1>1, <1>4, TailNames DEF Names

LEMMA LessShaped ==
    ASSUME NEW f \in Frame, f.left # <<>>, NEW i, Shaped(f, i)
    PROVE  Shaped(Less(f), i) /\ Linked(Less(f), Head(f.left)) /\ Head(f.left) # Root
  BY LessFrame DEF Shaped, Linked

\* What the names left say of the tree, when a name is taken and followed, when
\* it is a file and goes, and when something is added or goes elsewhere.
LEMMA WholeFollows ==
    ASSUME NEW f \in Frame, f.left # <<>>, Once(f.left), NEW T, Whole(f, Root, T)
    PROVE  Whole(Less(f), Head(f.left), T)
<1>1. Less(f).dir = f.dir /\ Names(Less(f)) = Names(f) \ {Head(f.left)}
  BY LessFrame
<1> QED
  BY <1>1 DEF Whole

LEMMA WholeUnlinks ==
    ASSUME NEW f \in Frame, f.left # <<>>, Once(f.left), NEW T, Whole(f, Root, T),
           Head(f.left) # f.dir
    PROVE  Whole(Less(f), Root, T \ {Head(f.left)})
<1>1. Less(f).dir = f.dir /\ Names(Less(f)) = Names(f) \ {Head(f.left)}
  BY LessFrame
<1> QED
  BY <1>1 DEF Whole

LEMMA WholeElsewhere ==
    ASSUME NEW f, NEW d, NEW T, Whole(f, d, T), NEW x, x # f.dir, x \notin Names(f)
    PROVE  Whole(f, d, T \ {x}) /\ (x = d => Whole(f, Root, T \ {x}))
  BY DEF Whole

LEMMA WholeGrows ==
    ASSUME NEW f, NEW d, NEW T, Whole(f, d, T), NEW U, \A c \in U : Parent[c] # f.dir
    PROVE  Whole(f, d, T \cup U)
  BY DEF Whole

\* The directories being emptied, from the root's one name, the target, down.
Below(s, i) == IF i < Len(s) THEN s[i + 1].dir ELSE Root
OnTheWay(s) ==
    /\ s \in Seq(Frame) /\ s # <<>> /\ s[1].dir = Root
    /\ Len(s) = 1 => s[1].left \in {<<>>, <<target>>}
    /\ Len(s) > 1 => s[1].left = <<>> /\ s[2].dir = target
    /\ \A i \in 2 .. Len(s) : Shaped(s[i], i)
    /\ \A i \in 2 .. Len(s) - 1 : Linked(s[i], s[i + 1].dir)

\* As long as nothing failed, what is left in the tree below the target is what
\* is still to be followed.
Due(s, T) ==
    /\ \A i \in 2 .. Len(s) : Whole(s[i], Below(s, i), T)
    /\ Len(s) = 1 /\ s[1].left = <<target>> => target \in T
    /\ Len(s) = 1 /\ s[1].left = <<>> =>
          target \notin T \/ target \in Files!Range(LogNames)

LEMMA RestIs ==
    ASSUME NEW s \in Seq(Frame), s # <<>>, s[Len(s)].left # <<>>, Once(s[Len(s)].left)
    PROVE  /\ Files!Rest(s) \in Seq(Frame) /\ Len(Files!Rest(s)) = Len(s)
           /\ Files!Rest(s)[Len(s)] = Less(s[Len(s)])
           /\ \A i \in 1 .. Len(s) - 1 : Files!Rest(s)[i] = s[i]
<1> DEFINE n == Len(s)
           p == SubSeq(s, 1, n - 1)
           f == Less(s[n])
<1>1. n \in Nat \ {0} /\ s[n] \in Frame
  OBVIOUS
<1>2. f \in Frame
  BY <1>1, LessFrame
<1>3. p \in Seq(Frame) /\ Len(p) = n - 1
  BY FrontIsSeq
<1>4. \A i \in 1 .. n - 1 : p[i] = s[i]
  BY <1>1
<1>5. Files!Rest(s) = p \o <<f>>
  BY DEF Files!Rest, Files!Front, Files!Last, Less
<1> HIDE DEF n, p, f
<1>6. <<f>> \in Seq(Frame) /\ Len(<<f>>) = 1 /\ <<f>>[1] = f
  BY <1>2
<1>7. /\ p \o <<f>> \in Seq(Frame) /\ Len(p \o <<f>>) = n
      /\ (p \o <<f>>)[n] = f /\ \A i \in 1 .. n - 1 : (p \o <<f>>)[i] = p[i]
  BY <1>1, <1>2, <1>3, <1>6
<1> QED
  BY <1>4, <1>5, <1>7 DEF n, f

LEMMA FrontIs ==
    ASSUME NEW s \in Seq(Frame), s # <<>>
    PROVE  /\ Files!Front(s) \in Seq(Frame) /\ Len(Files!Front(s)) = Len(s) - 1
           /\ \A i \in 1 .. Len(s) - 1 : Files!Front(s)[i] = s[i]
<1>1. Len(s) \in Nat \ {0}
  OBVIOUS
<1>2. \A i \in 1 .. Len(s) - 1 : SubSeq(s, 1, Len(s) - 1)[i] = s[i]
  BY <1>1
<1> QED
  BY <1>2, FrontIsSeq DEF Files!Front

LEMMA HowDeep ==
    ASSUME NEW s, OnTheWay(s)
    PROVE  Len(s) \in Nat /\ (Len(s) = 1 \/ Len(s) > 1) /\ s[Len(s)] \in Frame
           /\ (Len(s) > 1 => Len(s) \in 2 .. Len(s) /\ Shaped(s[Len(s)], Len(s)))
<1>1. s \in Seq(Frame) /\ s # <<>> /\ \A i \in 2 .. Len(s) : Shaped(s[i], i)
  BY DEF OnTheWay
<1>2. s \in Seq(Frame) /\ s # <<>>
  BY <1>1
<1>3. Len(s) \in Nat /\ Len(s) # 0 /\ s[Len(s)] \in Frame
  BY <1>2
<1> DEFINE n == Len(s)
<1> HIDE DEF n
<1>4. n \in Nat /\ n # 0 => (n = 1 \/ n > 1) /\ (n > 1 => n \in 2 .. n)
  OBVIOUS
<1>5. (Len(s) = 1 \/ Len(s) > 1) /\ (Len(s) > 1 => Len(s) \in 2 .. Len(s))
  BY <1>3, <1>4 DEF n
<1> QED
  BY <1>1, <1>3, <1>5

\* The name that is followed next.
LEMMA NextName ==
    ASSUME CardConstants, target \in Nodes \ Reserved, NEW s, OnTheWay(s),
           s[Len(s)].left # <<>>
    PROVE  LET f == s[Len(s)] IN
           /\ Len(s) \in Nat \ {0} /\ f \in Frame /\ Once(f.left)
           /\ Head(f.left) \in Nodes \ {Root} /\ Files!Under(Head(f.left), target)
           /\ (Head(f.left) # f.dir /\ Parent[Head(f.left)] = f.dir) \/ Len(s) = 1
           /\ Len(s) = 1 => f.left = <<target>> /\ Head(f.left) = target
           /\ Level(Head(f.left)) = Level(target) + Len(s) - 1
<1> DEFINE f == s[Len(s)]
<1>1. Len(s) \in Nat \ {0} /\ f \in Frame
  BY HowDeep
<1>2. target # Root /\ target \in Nodes /\ Files!Under(target, target)
      /\ Level(target) \in Nat
  BY ReservedStay, LevelGrows DEF Files!Under
<1>3. CASE Len(s) = 1
  <2>1. f.left = <<target>>
    BY <1>3 DEF OnTheWay
  <2>2. Head(f.left) = target /\ Once(f.left)
    BY <2>1 DEF Once
  <2> QED
    BY <1>1, <1>2, <1>3, <2>1, <2>2
<1>4. CASE Len(s) > 1
  <2>1. Shaped(f, Len(s))
    BY <1>4, HowDeep
  <2>2. Head(f.left) \in Names(f) /\ Head(f.left) \in Nodes
    BY <1>1, <2>1, LessFrame DEF Shaped
  <2>3. Parent[Head(f.left)] = f.dir /\ Head(f.left) # Root /\ Files!Under(f.dir, target)
        /\ Level(f.dir) = Level(target) + Len(s) - 2 /\ Once(f.left)
    BY <2>1, <2>2 DEF Shaped
  <2>4. Files!Under(Head(f.left), target)
    BY <1>2, <2>2, <2>3, UnderParent
  <2>5. Level(Head(f.left)) = Level(f.dir) + 1 /\ Level(f.dir) \in Nat
    BY <2>2, <2>3, LevelGrows
  <2>6. Level(Head(f.left)) = Level(target) + Len(s) - 1 /\ Head(f.left) # f.dir
    BY <1>1, <1>2, <2>3, <2>5
  <2> QED
    BY <1>1, <1>4, <2>2, <2>3, <2>4, <2>6
<1> QED
  BY <1>3, <1>4, HowDeep

LEMMA RestOnTheWay ==
    ASSUME CardConstants, target \in Nodes \ Reserved, NEW s, OnTheWay(s),
           s[Len(s)].left # <<>>
    PROVE  OnTheWay(Files!Rest(s))
<1> DEFINE n == Len(s)
           r == Files!Rest(s)
<1> SUFFICES OnTheWay(r)
  OBVIOUS
<1>1. n \in Nat \ {0} /\ Once(s[n].left) /\ s \in Seq(Frame) /\ s # <<>>
  BY NextName DEF OnTheWay
<1>2. /\ r \in Seq(Frame) /\ Len(r) = n /\ r[n] = Less(s[n])
      /\ \A i \in 1 .. n - 1 : r[i] = s[i]
  BY <1>1, RestIs
<1>3. s[n] \in Frame /\ Less(s[n]).dir = s[n].dir /\ Less(s[n]).left = Tail(s[n].left)
  BY <1>1, LessFrame
<1> HIDE DEF r
<1>4. CASE n = 1
  <2>1. s[1].left = <<target>> /\ s[1].dir = Root
    BY <1>4 DEF OnTheWay
  <2>2. r[1].left = <<>> /\ r[1].dir = Root
    BY <1>2, <1>3, <1>4, <2>1
  <2> QED
    BY <1>2, <1>4, <2>2 DEF OnTheWay
<1>5. CASE n > 1
  <2>1. r[1] = s[1] /\ r[2].dir = s[2].dir
    BY <1>1, <1>2, <1>3, <1>5
  <2>2. \A i \in 2 .. n : Shaped(r[i], i)
    <3>1. \A i \in 2 .. n : Shaped(s[i], i)
      BY DEF OnTheWay
    <3>2. Shaped(r[n], n)
      BY <1>1, <1>2, <1>3, <1>5, <3>1, LessShaped
    <3> QED
      BY <1>1, <1>2, <3>1, <3>2
  <2>3. \A i \in 2 .. n - 1 : Linked(r[i], r[i + 1].dir)
    <3> SUFFICES ASSUME NEW i \in 2 .. n - 1 PROVE Linked(r[i], r[i + 1].dir)
      OBVIOUS
    <3>1. Linked(s[i], s[i + 1].dir) /\ r[i] = s[i] /\ r[i + 1].dir = s[i + 1].dir
      BY <1>1, <1>2, <1>3 DEF OnTheWay
    <3> QED
      BY <3>1
  <2>4. s[1].dir = Root /\ s[1].left = <<>> /\ s[2].dir = target
    BY <1>5 DEF OnTheWay
  <2>5. r # <<>>
    BY <1>1, <1>2
  <2> QED
    BY <1>2, <1>5, <2>1, <2>2, <2>3, <2>4, <2>5 DEF OnTheWay
<1> QED
  BY <1>4, <1>5, HowDeep

LEMMA RestOfTop ==
    ASSUME CardConstants, target \in Nodes \ Reserved, NEW s, OnTheWay(s),
           s[Len(s)].left # <<>>
    PROVE  LET f == s[Len(s)]
               r == Files!Rest(s)
           IN  /\ r \in Seq(Frame) /\ Len(r) = Len(s) /\ Len(s) \in Nat \ {0}
               /\ r[Len(s)] = Less(f) /\ \A i \in 1 .. Len(s) - 1 : r[i] = s[i]
               /\ \A i \in 1 .. Len(s) : r[i].dir = s[i].dir
<1>1. Len(s) \in Nat \ {0} /\ Once(s[Len(s)].left) /\ s \in Seq(Frame) /\ s # <<>>
  BY NextName DEF OnTheWay
<1>2. /\ Files!Rest(s) \in Seq(Frame) /\ Len(Files!Rest(s)) = Len(s)
      /\ Files!Rest(s)[Len(s)] = Less(s[Len(s)])
      /\ \A i \in 1 .. Len(s) - 1 : Files!Rest(s)[i] = s[i]
  BY <1>1, RestIs
<1>3. s[Len(s)] \in Frame /\ Less(s[Len(s)]).dir = s[Len(s)].dir
  BY <1>1, LessFrame
<1> DEFINE n == Len(s)
           r == Files!Rest(s)
<1>4. \A i \in 1 .. n : r[i].dir = s[i].dir
  <2> HIDE DEF r
  <2>1. n \in Nat \ {0} /\ r[n].dir = s[n].dir /\ \A i \in 1 .. n - 1 : r[i] = s[i]
    BY <1>1, <1>2, <1>3 DEF r
  <2> HIDE DEF n
  <2> QED
    BY <2>1
<1> QED
  BY <1>1, <1>2, <1>4

\* The names of g are in n.
Lists(g, n) == \A c \in Names(g) : Parent[c] = n /\ c # Root

LEMMA PushIs ==
    ASSUME NEW r \in Seq(Frame), NEW g \in Frame
    PROVE  /\ Append(r, g) \in Seq(Frame) /\ Len(Append(r, g)) = Len(r) + 1
           /\ Append(r, g)[Len(r) + 1] = g /\ Len(r) \in Nat
           /\ \A i \in 1 .. Len(r) : Append(r, g)[i] = r[i]
  OBVIOUS

LEMMA PushOnTheWay ==
    ASSUME CardConstants, target \in Nodes \ Reserved, NEW s, OnTheWay(s),
           s[Len(s)].left # <<>>, NEW g \in Frame, g.dir = Head(s[Len(s)].left),
           Lists(g, g.dir), Once(g.left)
    PROVE  OnTheWay(Append(Files!Rest(s), g))
<1> DEFINE n == Len(s)
           r == Files!Rest(s)
           p == Append(r, g)
<1> SUFFICES OnTheWay(p)
  OBVIOUS
<1>1. /\ r \in Seq(Frame) /\ Len(r) = n /\ n \in Nat \ {0} /\ r[n] = Less(s[n])
      /\ \A i \in 1 .. n - 1 : r[i] = s[i] /\ \A j \in 1 .. n : r[j].dir = s[j].dir
  BY RestOfTop
<1>2. OnTheWay(r)
  BY RestOnTheWay
<1> HIDE DEF r
<1>3. /\ p \in Seq(Frame) /\ Len(p) = n + 1 /\ p[n + 1] = g
      /\ \A i \in 1 .. n : p[i] = r[i]
  BY <1>1, PushIs
<1>4. /\ Head(s[n].left) \in Nodes \ {Root} /\ Files!Under(g.dir, target)
      /\ Level(g.dir) = Level(target) + n - 1 /\ s[n] \in Frame
      /\ n = 1 => s[n].left = <<target>> /\ g.dir = target
  BY NextName
<1>5. n \in Nat \ {0} /\ (n = 1 \/ n > 1) /\ Level(target) \in Nat
  BY <1>1, HowDeep, LevelGrows, ReservedStay
<1>6. Shaped(g, n + 1)
  <2>1. Level(g.dir) = Level(target) + (n + 1) - 2
    BY <1>4, <1>5
  <2> QED
    BY <1>4, <2>1 DEF Shaped, Lists
<1>7. \A i \in 2 .. n : Shaped(r[i], i)
  BY <1>1, <1>2 DEF OnTheWay
<1>8. n > 1 => Linked(r[n], g.dir)
  <2> SUFFICES ASSUME n > 1 PROVE Linked(r[n], g.dir)
    OBVIOUS
  <2>1. Shaped(s[n], n)
    BY <1>5, HowDeep
  <2> QED
    BY <1>1, <1>4, <2>1, LessShaped
<1>9. \A i \in 2 .. n - 1 : Linked(r[i], r[i + 1].dir)
  BY <1>1, <1>2 DEF OnTheWay
<1>10. r[1].left = <<>> /\ r[1].dir = Root
  <2>1. CASE n = 1
    <3>1. r[1].left = Tail(s[1].left) /\ s[1].left = <<target>>
      BY <1>1, <1>4, <2>1 DEF Less, Frame
    <3> QED
      BY <1>2, <3>1 DEF OnTheWay
  <2>2. CASE n > 1
    BY <1>1, <1>2, <2>2 DEF OnTheWay
  <2> QED
    BY <1>5, <2>1, <2>2
<1>11. n > 1 => r[2].dir = target
  BY <1>1, <1>2 DEF OnTheWay
<1> HIDE DEF p, n
<1>12. p[1] = r[1] /\ p[2].dir = target
  <2>1. CASE n = 1
    BY <1>3, <1>4, <1>5, <2>1
  <2>2. CASE n > 1
    BY <1>3, <1>5, <1>11, <2>2
  <2> QED
    BY <1>5, <2>1, <2>2
<1>13. \A i \in 2 .. n + 1 : Shaped(p[i], i)
  BY <1>3, <1>5, <1>6, <1>7
<1>14. \A i \in 2 .. n : Linked(p[i], p[i + 1].dir)
  <2> SUFFICES ASSUME NEW i \in 2 .. n PROVE Linked(p[i], p[i + 1].dir)
    OBVIOUS
  <2>1. p[i] = r[i]
    BY <1>3, <1>5
  <2>2. CASE i = n
    BY <1>3, <1>5, <1>8, <2>1, <2>2
  <2>3. CASE i # n
    <3>1. i \in 2 .. n - 1 /\ p[i + 1] = r[i + 1]
      BY <1>3, <1>5, <2>3
    <3> QED
      BY <1>9, <2>1, <3>1
  <2> QED
    BY <2>2, <2>3
<1>15. p # <<>> /\ Len(p) # 1 /\ Len(p) - 1 = n
  BY <1>3, <1>5
<1> QED
  BY <1>3, <1>10, <1>12, <1>13, <1>14, <1>15 DEF OnTheWay

LEMMA PopOnTheWay ==
    ASSUME NEW s, OnTheWay(s), Len(s) > 1  PROVE OnTheWay(Files!Front(s))
<1> DEFINE n == Len(s)
           p == Files!Front(s)
<1> SUFFICES OnTheWay(p)
  OBVIOUS
<1>1. s \in Seq(Frame) /\ s # <<>> /\ n \in Nat /\ n > 1
  BY HowDeep DEF OnTheWay
<1>2. p \in Seq(Frame) /\ Len(p) = n - 1 /\ \A i \in 1 .. n - 1 : p[i] = s[i]
  BY <1>1, FrontIs
<1>3. /\ s[1].dir = Root /\ s[1].left = <<>> /\ s[2].dir = target
      /\ \A i \in 2 .. n : Shaped(s[i], i)
      /\ \A i \in 2 .. n - 1 : Linked(s[i], s[i + 1].dir)
  BY <1>1 DEF OnTheWay
<1> HIDE DEF n, p
<1>4. p # <<>> /\ p[1] = s[1] /\ (n - 1 > 1 => p[2] = s[2])
  BY <1>1, <1>2
<1>5. \A i \in 2 .. n - 1 : Shaped(p[i], i)
  BY <1>1, <1>2, <1>3
<1>6. \A i \in 2 .. n - 2 : Linked(p[i], p[i + 1].dir)
  <2> SUFFICES ASSUME NEW i \in 2 .. n - 2 PROVE Linked(p[i], p[i + 1].dir)
    OBVIOUS
  <2>1. i \in 2 .. n - 1 /\ p[i] = s[i] /\ p[i + 1] = s[i + 1]
    BY <1>1, <1>2
  <2> QED
    BY <1>3, <2>1
<1>7. Len(p) - 1 = n - 2
  BY <1>1, <1>2
<1> QED
  BY <1>2, <1>3, <1>4, <1>5, <1>6, <1>7 DEF OnTheWay

\* How deep the names left in a directory being emptied are.
LEMMA NamesDeep ==
    ASSUME CardConstants, target \in Nodes \ Reserved, NEW s, OnTheWay(s),
           NEW i \in 2 .. Len(s)
    PROVE  /\ s[i] \in Frame /\ i \in Nat /\ Level(target) \in Nat
           /\ Level(s[i].dir) = Level(target) + i - 2
           /\ \A c \in Names(s[i]) : Level(c) = Level(target) + i - 1
           /\ s[i].dir # Root
<1>1. s \in Seq(Frame) /\ s # <<>> /\ Shaped(s[i], i)
  BY DEF OnTheWay
<1>2. Len(s) \in Nat /\ i \in Nat /\ i \in 1 .. Len(s)
  BY <1>1
<1>3. s[i] \in Frame
  BY <1>1, <1>2
<1>4. target # Root /\ Level(target) \in Nat
  BY ReservedStay, LevelGrows
<1>5. Level(s[i].dir) = Level(target) + i - 2
  BY <1>1 DEF Shaped
<1>6. ASSUME NEW c \in Names(s[i])  PROVE Level(c) = Level(target) + i - 1
  <2>1. s[i].left \in Seq(Nodes)
    BY <1>3 DEF Frame
  <2>2. \A k \in 1 .. Len(s[i].left) : s[i].left[k] \in Nodes
    BY <2>1
  <2>3. c \in Nodes /\ Parent[c] = s[i].dir /\ c # Root
    BY <1>1, <2>2 DEF Shaped, Names
  <2>4. Level(c) = Level(s[i].dir) + 1
    BY <2>3, LevelGrows
  <2> QED
    BY <1>2, <1>4, <1>5, <2>4
<1>7. s[i].dir # Root
  BY <1>1, <1>4, ReservedStay DEF Shaped
<1> QED
  BY <1>2, <1>3, <1>4, <1>5, <1>6, <1>7

\* While nothing failed, the name that is followed next is there.
LEMMA HeadIsThere ==
    ASSUME CardConstants, target \in Nodes \ Reserved, NEW s, OnTheWay(s),
           s[Len(s)].left # <<>>, NEW T, Due(s, T)
    PROVE  Head(s[Len(s)].left) \in T
<1>1. CASE Len(s) = 1
  <2>1. s[1].left = <<target>> /\ Head(s[1].left) = target
    BY <1>1, NextName
  <2> QED
    BY <1>1, <2>1 DEF Due
<1>2. CASE Len(s) > 1
  <2>1. Len(s) \in 2 .. Len(s) /\ s[Len(s)] \in Frame /\ Once(s[Len(s)].left)
    BY <1>2, HowDeep, NextName
  <2>2. Head(s[Len(s)].left) \in Names(s[Len(s)])
    BY <2>1, LessFrame
  <2> QED
    BY <2>1, <2>2 DEF Due, Whole
<1> QED
  BY <1>1, <1>2, HowDeep

\* A file is unlinked.
LEMMA DueUnlinks ==
    ASSUME CardConstants, target \in Nodes \ Reserved, NEW s, OnTheWay(s),
           s[Len(s)].left # <<>>, Head(s[Len(s)].left) \notin Dirs, NEW T, Due(s, T)
    PROVE  Due(Files!Rest(s), T \ {Head(s[Len(s)].left)})
<1> DEFINE n == Len(s)
           r == Files!Rest(s)
           x == Head(s[Len(s)].left)
<1> SUFFICES Due(r, T \ {x})
  OBVIOUS
<1>1. /\ Len(r) = n /\ n \in Nat \ {0} /\ r[n] = Less(s[n])
      /\ \A i \in 1 .. n - 1 : r[i] = s[i]
      /\ \A i \in 1 .. n : r[i].dir = s[i].dir
  BY RestOfTop
<1>2. /\ s[n] \in Frame /\ Once(s[n].left) /\ Level(x) = Level(target) + n - 1
      /\ n = 1 => s[n].left = <<target>> /\ x = target
  BY NextName
<1>3. \A i \in 2 .. n : /\ s[i] \in Frame /\ i \in Nat /\ Level(target) \in Nat
                        /\ \A c \in Names(s[i]) : Level(c) = Level(target) + i - 1
  BY NamesDeep
<1>4. \A i \in 2 .. n : x # s[i].dir
  BY <1>3 DEF Frame
<1>5. \A i \in 2 .. n : Whole(s[i], Below(s, i), T)
  BY DEF Due
<1>6. CASE n = 1
  <2>1. r[1].left = Tail(s[1].left) /\ s[1].left = <<target>> /\ x = target
    BY <1>1, <1>2, <1>6, LessFrame
  <2>2. r[1].left = <<>>
    BY <2>1
  <2> HIDE DEF r, x
  <2>3. Due(r, T \ {x}) <=> (r[1].left = <<target>> => target \in T \ {x})
    BY <1>1, <1>6, <2>1, <2>2 DEF Due
  <2>4. <<>> # <<target>>
    OBVIOUS
  <2> QED
    BY <2>2, <2>3, <2>4
<1>7. CASE n > 1
  <2>1. \A i \in 2 .. n : Below(r, i) = Below(s, i)
    <3> HIDE DEF r
    <3>1. \A i \in 2 .. n : i < n => i + 1 \in 1 .. n
      BY <1>1
    <3> QED
      BY <1>1, <3>1 DEF Below
  <2>2. Whole(r[n], Below(r, n), T \ {x})
    <3>1. n \in 2 .. n /\ Below(s, n) = Root
      BY <1>1, <1>7 DEF Below
    <3>2. Whole(s[n], Root, T) /\ x # s[n].dir
      BY <1>4, <1>5, <3>1
    <3>3. Whole(Less(s[n]), Root, T \ {x})
      BY <1>1, <1>2, <3>2, WholeUnlinks
    <3> QED
      BY <1>1, <2>1, <3>1, <3>3
  <2>3. ASSUME NEW i \in 2 .. n - 1  PROVE Whole(r[i], Below(r, i), T \ {x})
    <3>1. i \in 2 .. n /\ i \in 1 .. n - 1 /\ i \in Nat /\ i # n
      BY <1>1
    <3>2. x \notin Names(s[i])
      <4>1. \A c \in Names(s[i]) : Level(c) = Level(target) + i - 1
        BY <1>3, <3>1
      <4>2. Level(target) \in Nat
        BY <1>3, <3>1
      <4>3. Level(target) + i - 1 # Level(target) + n - 1
        BY <1>1, <3>1, <4>2
      <4> QED
        BY <1>2, <4>1, <4>3
    <3>3. Whole(s[i], Below(s, i), T \ {x})
      BY <1>4, <1>5, <3>1, <3>2, WholeElsewhere
    <3> QED
      BY <1>1, <2>1, <3>1, <3>3
  <2>4. \A i \in 2 .. n : i = n \/ i \in 2 .. n - 1
    BY <1>1
  <2>5. Len(r) # 1 /\ \A i \in 2 .. Len(r) : Whole(r[i], Below(r, i), T \ {x})
    <3> HIDE DEF r, x, n
    <3>1. Len(r) = n /\ n # 1
      BY <1>1, <1>7
    <3>2. ASSUME NEW i \in 2 .. n  PROVE Whole(r[i], Below(r, i), T \ {x})
      <4>1. CASE i = n
        BY <2>2, <4>1
      <4>2. CASE i # n
        BY <2>3, <2>4, <4>2
      <4> QED
        BY <4>1, <4>2
    <3> QED
      BY <3>1, <3>2
  <2> HIDE DEF r, x
  <2> QED
    BY <2>5 DEF Due
<1> QED
  BY <1>6, <1>7, HowDeep

\* A directory's names are gathered.
LEMMA DueGathers ==
    ASSUME CardConstants, target \in Nodes \ Reserved, NEW s, OnTheWay(s),
           s[Len(s)].left # <<>>, NEW T, Due(s, T), NEW g \in Frame,
           g.dir = Head(s[Len(s)].left), Names(g) \subseteq T,
           \A c \in T \ {Root} : Parent[c] = g.dir => c \in Names(g)
    PROVE  Due(Append(Files!Rest(s), g), T)
<1> DEFINE n == Len(s)
           r == Files!Rest(s)
           p == Append(r, g)
<1> SUFFICES Due(p, T)
  OBVIOUS
<1>1. /\ r \in Seq(Frame) /\ Len(r) = n /\ n \in Nat \ {0} /\ r[n] = Less(s[n])
      /\ \A i \in 1 .. n - 1 : r[i] = s[i] /\ \A j \in 1 .. n : r[j].dir = s[j].dir
  BY RestOfTop
<1>2. s[n] \in Frame /\ Once(s[n].left)
  BY NextName
<1>3. g.dir \in T
  BY HeadIsThere
<1>4. \A i \in 2 .. n : Whole(s[i], Below(s, i), T)
  BY DEF Due
<1>5. n > 1 => Whole(Less(s[n]), g.dir, T)
  <2> SUFFICES ASSUME n > 1 PROVE Whole(Less(s[n]), g.dir, T)
    OBVIOUS
  <2>1. n \in 2 .. n /\ Below(s, n) = Root
    BY <1>1 DEF Below
  <2> QED
    BY <1>2, <1>4, <2>1, WholeFollows
<1>6. Whole(g, Root, T)
  BY <1>3 DEF Whole
<1>7. \A i \in 2 .. n - 1 : Below(s, i) = r[i + 1].dir
  <2> HIDE DEF r
  <2>1. \A i \in 2 .. n - 1 : i < n /\ i + 1 \in 1 .. n
    BY <1>1
  <2> QED
    BY <1>1, <2>1 DEF Below
<1> HIDE DEF r
<1>8. /\ Len(p) = n + 1 /\ p[n + 1] = g /\ \A i \in 1 .. n : p[i] = r[i]
  BY <1>1, PushIs
<1> HIDE DEF p
<1>9. Whole(p[n + 1], Below(p, n + 1), T)
  BY <1>6, <1>8, <1>1 DEF Below
<1>10. n > 1 => Whole(p[n], Below(p, n), T)
  <2>1. n < n + 1 /\ n \in 1 .. n
    BY <1>1
  <2>2. Below(p, n) = g.dir /\ p[n] = Less(s[n])
    BY <1>1, <1>8, <2>1 DEF Below
  <2> QED
    BY <1>5, <2>2
<1>11. ASSUME NEW i \in 2 .. n - 1  PROVE Whole(p[i], Below(p, i), T)
  <2>1. i \in 2 .. n /\ i \in 1 .. n - 1 /\ i \in 1 .. n /\ i + 1 \in 1 .. n /\ i < n + 1
    BY <1>1
  <2>2. p[i] = s[i] /\ Below(p, i) = r[i + 1].dir
    BY <1>1, <1>8, <2>1 DEF Below
  <2> QED
    BY <1>4, <1>7, <2>1, <2>2
<1>12. \A i \in 2 .. n + 1 : i = n + 1 \/ (i = n /\ n > 1) \/ i \in 2 .. n - 1
  BY <1>1
<1>13. Len(p) # 1
  BY <1>1, <1>8
<1> QED
  BY <1>8, <1>9, <1>10, <1>11, <1>12, <1>13 DEF Due

\* An emptied directory goes.
LEMMA DueRemoves ==
    ASSUME CardConstants, target \in Nodes \ Reserved, NEW s, OnTheWay(s),
           Len(s) > 1, s[Len(s)].left = <<>>, NEW T, Due(s, T)
    PROVE  LET d == s[Len(s)].dir IN
           /\ d \in T /\ \A c \in T \ {Root} : Parent[c] # d
           /\ Due(Files!Front(s), T \ {d})
<1> DEFINE n == Len(s)
           p == Files!Front(s)
           d == s[Len(s)].dir
<1>1. n \in Nat /\ n > 1 /\ n \in 2 .. n /\ s \in Seq(Frame) /\ s # <<>>
  BY HowDeep DEF OnTheWay
<1>2. \A i \in 2 .. n : Whole(s[i], Below(s, i), T)
  BY DEF Due
<1>3. Whole(s[n], Root, T) /\ Names(s[n]) = {}
  BY <1>1, <1>2 DEF Below, Names
<1>4. d \in T /\ \A c \in T \ {Root} : Parent[c] # d
  BY <1>3 DEF Whole
<1>5. Len(p) = n - 1 /\ \A i \in 1 .. n - 1 : p[i] = s[i]
  BY <1>1, FrontIs
<1>6. /\ s[1].left = <<>> /\ s[2].dir = target
      /\ \A i \in 2 .. n - 1 : Linked(s[i], s[i + 1].dir)
  BY <1>1 DEF OnTheWay
<1>7. \A i \in 2 .. n : /\ i \in Nat /\ Level(target) \in Nat
                        /\ Level(s[i].dir) = Level(target) + i - 2
                        /\ \A c \in Names(s[i]) : Level(c) = Level(target) + i - 1
  BY NamesDeep
<1>8. ASSUME NEW i \in 2 .. n - 1
      PROVE  d # s[i].dir /\ d \notin Names(s[i])
  <2>1. i \in 2 .. n /\ i \in Nat /\ i # n /\ Level(target) \in Nat
    BY <1>1, <1>7
  <2>2. Level(s[i].dir) = Level(target) + i - 2 /\ Level(d) = Level(target) + n - 2
    BY <1>1, <1>7, <2>1
  <2>3. d # s[i].dir
    BY <1>1, <2>1, <2>2
  <2>4. CASE i = n - 1
    <3>1. i + 1 = n
      BY <1>1, <2>4
    <3> QED
      BY <1>6, <2>3, <3>1 DEF Linked
  <2>5. CASE i # n - 1
    <3>1. \A c \in Names(s[i]) : Level(c) = Level(target) + i - 1
      BY <1>7, <2>1
    <3>2. Level(target) + i - 1 # Level(target) + n - 2
      BY <1>1, <2>1, <2>5
    <3> QED
      BY <2>2, <2>3, <3>1, <3>2
  <2> QED
    BY <2>4, <2>5
<1>9. Due(p, T \ {d})
  <2> HIDE DEF p
  <2>1. ASSUME NEW i \in 2 .. n - 1  PROVE Whole(p[i], Below(p, i), T \ {d})
    <3>1. i \in 2 .. n /\ i \in 1 .. n - 1 /\ i < n
      BY <1>1
    <3>2. Whole(s[i], s[i + 1].dir, T) /\ d # s[i].dir /\ d \notin Names(s[i])
      BY <1>2, <1>8, <3>1 DEF Below
    <3>3. CASE i = n - 1
      <4>1. Below(p, i) = Root /\ s[i + 1].dir = d /\ p[i] = s[i]
        BY <1>1, <1>5, <3>1, <3>3 DEF Below
      <4> QED
        BY <3>2, <4>1, WholeElsewhere
    <3>4. CASE i # n - 1
      <4>1. i < n - 1 /\ i + 1 \in 1 .. n - 1
        BY <1>1, <3>4
      <4>2. Below(p, i) = s[i + 1].dir /\ p[i] = s[i]
        BY <1>5, <3>1, <4>1 DEF Below
      <4> QED
        BY <3>2, <4>2, WholeElsewhere
    <3> QED
      BY <3>3, <3>4
  <2>2. Len(p) = 1 => p[1].left = <<>> /\ target \notin T \ {d}
    <3> SUFFICES ASSUME Len(p) = 1 PROVE p[1].left = <<>> /\ target \notin T \ {d}
      OBVIOUS
    <3>1. n \in Nat /\ n - 1 = 1
      BY <1>1, <1>5
    <3> HIDE DEF n
    <3>2. n = 2 /\ 1 \in 1 .. n - 1
      BY <3>1
    <3> USE DEF n
    <3> QED
      BY <1>5, <1>6, <3>2
  <2>3. <<>> # <<target>>
    OBVIOUS
  <2> QED
    BY <1>5, <2>1, <2>2, <2>3 DEF Due
<1> QED
  BY <1>4, <1>9

\* The writer opens a log.
LEMMA DueGrows ==
    ASSUME CardConstants, target \in Nodes \ Reserved, NEW s, OnTheWay(s),
           NEW T, Due(s, T), NEW m \in Files!Range(LogNames)
    PROVE  Due(s, T \cup {m, Logs})
<1>1. Parent[m] = Logs /\ Parent[Logs] = Root
  BY DEF CardConstants, Files!Range
<1>2. target # Logs
  BY ReservedStay
<1>3. ASSUME NEW i \in 2 .. Len(s)  PROVE Whole(s[i], Below(s, i), T \cup {m, Logs})
  <2>1. s[i].dir # Root /\ s[i].dir # Logs
    BY NamesDeep, ReservedStay DEF OnTheWay, Shaped
  <2> QED
    BY <1>1, <2>1, WholeGrows DEF Due
<1> QED
  BY <1>2, <1>3 DEF Due

\* The card is a tree; a path asked for is the target, or another name of a file
\* next to it; and a walk is on its way, with what it still owes.
Plain ==
    /\ req \in {"none", "fenced", "walk", "download"}
    /\ ok \in BOOLEAN /\ hit \in BOOLEAN /\ gone \subseteq Nodes
    /\ reply \in {"none", "ok", "400", "403", "404", "409", "500", "active"}
    /\ opens = 1 => MaxRequests > 0
    /\ files_wpc \in {"idle", "opening", "open"}
    /\ log \in Files!Range(LogNames) \cup {Files!None}
    /\ files_session \in BOOLEAN /\ files_flash \in BOOLEAN
    /\ used \in Nat /\ faults \in Nat /\ logs \in Nat /\ stack \in Seq(Frame)

TreeFine == tree \subseteq Nodes /\ Root \in tree /\ \A n \in tree : Parent[n] \in tree

AskFine ==
    /\ target \in Nodes /\ new \in Nodes
    /\ req = "fenced" => new = target \/ (target \notin Dirs /\ new \in Files!Siblings(target))

WalkFine ==
    req = "walk" =>
        /\ target \in Nodes \ Reserved /\ OnTheWay(stack)
        /\ \A n \in gone : Files!Under(n, target)
        /\ ok /\ ~hit => Due(stack, tree)
        /\ ~ok /\ ~hit => faults > 0

CardInv == Plain /\ TreeFine /\ AskFine /\ WalkFine

LEMMA SameTarget ==
    ASSUME target' = target, OnTheWay(stack')  PROVE OnTheWay(stack)'
  BY DEF OnTheWay, Shaped, Linked, Names

LEMMA SameDue ==
    ASSUME target' = target, Due(stack', tree')  PROVE Due(stack, tree)'
  BY DEF Due, Whole, Below, Names

\* The walk goes on from a new stack, or the tree changes under it.
LEMMA WalkGoesOn ==
    ASSUME target' = target, target \in Nodes \ Reserved, OnTheWay(stack'),
           \A n \in gone' : Files!Under(n, target),
           ok' /\ ~hit' => Due(stack', tree'), ~ok' /\ ~hit' => faults' > 0
    PROVE  WalkFine'
<1>1. OnTheWay(stack)'
  BY SameTarget
<1>2. ok' /\ ~hit' => Due(stack, tree)'
  BY SameDue
<1>3. (target \in Nodes \ Reserved)'
  OBVIOUS
<1>4. (\A n \in gone : Files!Under(n, target))'
  BY DEF Files!Under
<1> QED
  BY <1>1, <1>2, <1>3, <1>4 DEF WalkFine

LEMMA TreeLoses ==
    ASSUME CardConstants, TreeFine, NEW d, d # Root,
           \A c \in tree \ {Root} : Parent[c] # d, tree' = tree \ {d}
    PROVE  TreeFine'
<1>1. Parent[Root] = Root
  BY DEF CardConstants
<1> QED
  BY <1>1 DEF TreeFine

LEMMA TreeGains ==
    ASSUME CardConstants, TreeFine, NEW U, U \subseteq Nodes,
           \A c \in U : Parent[c] \in tree \cup U, tree' = tree \cup U
    PROVE  TreeFine'
  BY DEF TreeFine

LEMMA FreshIs ==
    ASSUME CardConstants, Plain, logs < MaxLogs, NEW m \in Files!FreshLog
    PROVE  m \in Files!Range(LogNames) /\ m \in Nodes /\ m \notin Dirs /\ Parent[m] = Logs
<1>1. m = LogNames[logs + 1]
  BY DEF Files!FreshLog
<1>2. MaxLogs \in Nat /\ MaxLogs <= Len(LogNames) /\ LogNames \in Seq(Nodes)
  BY DEF CardConstants, FilesConstants
<1>3. logs + 1 \in 1 .. Len(LogNames) /\ Len(LogNames) \in Nat
  BY <1>2 DEF Plain
<1>4. LogNames[logs + 1] \in Nodes /\ DOMAIN LogNames = 1 .. Len(LogNames)
  BY <1>2, <1>3
<1> QED
  BY <1>1, <1>3, <1>4 DEF CardConstants, Files!Range

\* One name of the walk.
LEMMA NameStep == ASSUME CardConstants, CardInv, Files!WalkStep  PROVE CardInv'
<1> DEFINE f == stack[Len(stack)]
           n == Head(stack[Len(stack)].left)
           r == Files!Rest(stack)
<1>1. /\ req = "walk" /\ f.left # <<>>
      /\ UNCHANGED <<target, new, opens, reply, files_wpc, log, files_session,
                     files_flash, used, logs, files_kept>>
  BY DEF Files!WalkStep, Files!Top, Files!writer
<1>2. /\ target \in Nodes \ Reserved /\ OnTheWay(stack)
      /\ \A m \in gone : Files!Under(m, target)
      /\ ok /\ ~hit => Due(stack, tree)
      /\ ~ok /\ ~hit => faults > 0
  BY <1>1 DEF CardInv, WalkFine
<1>3. OnTheWay(r) /\ r \in Seq(Frame)
  BY <1>1, <1>2, RestOnTheWay, RestOfTop
<1>4. n \in Nodes \ {Root} /\ Files!Under(n, target)
  BY <1>1, <1>2, NextName
<1>5. ok \in BOOLEAN /\ hit \in BOOLEAN /\ faults \in Nat /\ gone \subseteq Nodes
  BY DEF CardInv, Plain
<1>6. ASSUME req' = req, stack' \in Seq(Frame), ok' \in BOOLEAN, hit' \in BOOLEAN,
             gone' \subseteq Nodes, faults' \in Nat
      PROVE  Plain' /\ AskFine'
  <2>1. Plain'
    BY <1>1, <1>6 DEF CardInv, Plain
  <2>2. AskFine'
    BY <1>1, <1>6 DEF CardInv, AskFine
  <2> QED
    BY <2>1, <2>2
<1>7. tree' = tree => TreeFine'
  BY DEF CardInv, TreeFine
<1> HIDE DEF f, n, r
<1>8. CASE (~ok \/ hit) /\ stack' = r /\ UNCHANGED <<tree, ok, hit, gone, faults, req>>
  <2>1. Plain' /\ AskFine' /\ TreeFine'
    BY <1>3, <1>5, <1>6, <1>7, <1>8
  <2>2. WalkFine'
    BY <1>1, <1>2, <1>3, <1>8, WalkGoesOn
  <2> QED
    BY <2>1, <2>2 DEF CardInv
<1>9. ASSUME ok, ~hit, n \notin Dirs, stack' = r, UNCHANGED req,
             \/ hit' = TRUE /\ ok' = FALSE /\ UNCHANGED <<tree, gone, faults>>
             \/ /\ faults' = faults + 1 /\ ok' = FALSE /\ UNCHANGED <<tree, gone, hit>>
      PROVE  CardInv'
  <2>0. ok' \in BOOLEAN /\ hit' \in BOOLEAN /\ faults' \in Nat /\ gone' \subseteq Nodes
        /\ stack' \in Seq(Frame) /\ tree' = tree /\ req' = req
    <3>1. faults' = faults \/ faults' = faults + 1
      BY <1>9
    <3>2. faults' \in Nat
      BY <1>5, <3>1
    <3>3. ok' = FALSE /\ (hit' = TRUE \/ hit' = hit) /\ gone' = gone /\ tree' = tree
      BY <1>9
    <3>4. ok' \in BOOLEAN /\ hit' \in BOOLEAN
      BY <1>5, <3>3
    <3> QED
      BY <1>3, <1>5, <1>9, <3>2, <3>3, <3>4
  <2>1. Plain' /\ AskFine' /\ TreeFine'
    BY <1>6, <1>7, <2>0
  <2>2. ~ok' /\ (hit' \/ faults' > 0) /\ gone' = gone
    BY <1>5, <1>9
  <2>3. WalkFine'
    BY <1>1, <1>2, <1>3, <1>9, <2>2, WalkGoesOn
  <2> QED
    BY <2>1, <2>3 DEF CardInv
<1>10. ASSUME ok, ~hit, n \notin Dirs, stack' = r, UNCHANGED req,
              tree' = tree \ {n}, gone' = gone \cup ({n} \cap tree),
              ok' = (ok /\ n \in tree), UNCHANGED <<hit, faults>>
       PROVE  CardInv'
  <2>1. n \in tree
    BY <1>1, <1>2, <1>10, HeadIsThere DEF f, n
  <2>2. Due(r, tree \ {n})
    BY <1>1, <1>2, <1>10, DueUnlinks DEF f, n, r
  <2>3. ok' = TRUE /\ gone' \subseteq Nodes /\ \A m \in gone' : Files!Under(m, target)
    BY <1>2, <1>4, <1>5, <1>10, <2>1
  <2>4. Plain' /\ AskFine'
    BY <1>3, <1>5, <1>6, <1>10, <2>3
  <2>5. TreeFine'
    <3>1. \A c \in tree \ {Root} : Parent[c] # n
      BY <1>10 DEF CardInv, TreeFine, CardConstants
    <3> QED
      BY <1>4, <1>10, <3>1, TreeLoses DEF CardInv
  <2>6. WalkFine'
    BY <1>1, <1>2, <1>3, <1>10, <2>2, <2>3, WalkGoesOn
  <2> QED
    BY <2>4, <2>5, <2>6 DEF CardInv
<1>11. ASSUME ok, ~hit, Files!WalkDir(n)  PROVE CardInv'
  <2> DEFINE g == [dir |-> n, left |-> Files!SetToSeq(Files!Children(n))]
  <2>1. Due(stack, tree) /\ n \in tree /\ n \in Dirs
    BY <1>1, <1>2, <1>11, HeadIsThere DEF f, n, Files!WalkDir
  <2>2. Len(stack) > 0
    BY <1>2, HowDeep
  <2>3. stack' = Append(r, g) /\ UNCHANGED <<ok, tree, hit, gone, faults, req>>
    BY <1>11, <2>1, <2>2 DEF Files!WalkDir, Files!fs, r
  <2>4. /\ Files!Children(n) = {c \in tree \ {Root} : Parent[c] = n}
        /\ Files!Children(n) \subseteq Nodes /\ IsFiniteSet(Files!Children(n))
    <3>1. Files!Children(n) = {c \in tree \ {Root} : Parent[c] = n}
      BY DEF Files!Children
    <3>2. Files!Children(n) \subseteq Nodes
      BY <3>1 DEF CardInv, TreeFine
    <3> QED
      BY <3>1, <3>2, FS_Subset DEF CardConstants
  <2> DEFINE K == Files!Children(n)
             l == Files!SetToSeq(K)
  <2> HIDE DEF K
  <2>5. /\ l \in Seq(K) /\ Once(l)
        /\ \A x \in K : \E i \in 1 .. Len(l) : l[i] = x
    <3>1. IsFiniteSet(K)
      BY <2>4 DEF K
    <3> QED
      BY <3>1, NamesListed
  <2> HIDE DEF l
  <2>6. l \in Seq(Nodes) /\ \A i \in 1 .. Len(l) : l[i] \in K
    <3>1. K \subseteq Nodes
      BY <2>4 DEF K
    <3> QED
      BY <2>5, <3>1
  <2>7. g \in Frame /\ g.dir = n /\ g.left = l
    BY <2>1, <2>6 DEF Frame, l, K
  <2>8. Names(g) = Files!Children(n)
    BY <2>5, <2>6, <2>7 DEF Names, K
  <2> HIDE DEF g
  <2>9. Lists(g, g.dir) /\ Once(g.left)
    BY <2>4, <2>5, <2>7, <2>8 DEF Lists
  <2>10. OnTheWay(Append(r, g))
    BY <1>1, <1>2, <2>7, <2>9, PushOnTheWay DEF f, n, r
  <2>11. Due(Append(r, g), tree)
    <3>1. Names(g) \subseteq tree /\ \A c \in tree \ {Root} : Parent[c] = g.dir => c \in Names(g)
      BY <2>4, <2>7, <2>8
    <3> QED
      BY <1>1, <1>2, <2>1, <2>7, <3>1, DueGathers DEF f, n, r
  <2>12. stack' \in Seq(Frame)
    BY <1>3, <2>3, <2>7, PushIs
  <2>13. Plain' /\ AskFine' /\ TreeFine'
    BY <1>5, <1>6, <1>7, <2>3, <2>12
  <2>14. WalkFine'
    BY <1>1, <1>2, <2>3, <2>10, <2>11, WalkGoesOn
  <2> QED
    BY <2>13, <2>14 DEF CardInv
<1>12. \/ (~ok \/ hit) /\ stack' = r /\ UNCHANGED <<tree, ok, hit, gone, faults, req>>
       \/ ok /\ ~hit /\ (Files!WalkFile(n) \/ Files!WalkDir(n))
  BY DEF Files!WalkStep, Files!Top, Files!fs, n, r
<1>13. CASE ok /\ ~hit /\ Files!WalkFile(n)
  <2>1. /\ n \notin Dirs /\ stack' = r /\ UNCHANGED req
        /\ \/ hit' = TRUE /\ ok' = FALSE /\ UNCHANGED <<tree, gone, faults>>
           \/ /\ tree' = tree \ {n} /\ gone' = gone \cup ({n} \cap tree)
              /\ ok' = (ok /\ n \in tree) /\ UNCHANGED <<hit, faults>>
           \/ faults' = faults + 1 /\ ok' = FALSE /\ UNCHANGED <<tree, gone, hit>>
    BY <1>13 DEF Files!WalkFile, Files!fs, r
  <2> QED
    BY <1>9, <1>10, <1>13, <2>1
<1> QED
  BY <1>8, <1>11, <1>12, <1>13

\* Back out of a directory.
LEMMA UpStep == ASSUME CardConstants, CardInv, Files!WalkUp  PROVE CardInv'
<1> DEFINE f == stack[Len(stack)]
           d == stack[Len(stack)].dir
           p == Files!Front(stack)
<1>1. /\ req = "walk" /\ f.left = <<>> /\ stack' = p
      /\ UNCHANGED <<hit, target, new, opens, files_wpc, log, files_session,
                     files_flash, used, logs, faults, files_kept>>
  BY DEF Files!WalkUp, Files!Top, Files!writer, Files!counts
<1>2. /\ target \in Nodes \ Reserved /\ OnTheWay(stack)
      /\ \A m \in gone : Files!Under(m, target)
      /\ ok /\ ~hit => Due(stack, tree)
      /\ ~ok /\ ~hit => faults > 0
  BY <1>1 DEF CardInv, WalkFine
<1>3. p \in Seq(Frame)
  BY <1>2, FrontIs DEF OnTheWay
<1>4. ok \in BOOLEAN /\ hit \in BOOLEAN /\ gone \subseteq Nodes
  BY DEF CardInv, Plain
<1>5. ASSUME req' \in {"none", "walk"}, ok' \in BOOLEAN, gone' \subseteq Nodes,
             reply' \in {"none", "ok", "400", "403", "404", "409", "500", "active"}
      PROVE  Plain' /\ AskFine'
  <2>1. Plain'
    BY <1>1, <1>3, <1>5 DEF CardInv, Plain
  <2>2. AskFine'
    BY <1>1, <1>5 DEF CardInv, AskFine
  <2> QED
    BY <2>1, <2>2
<1>6. tree' = tree => TreeFine'
  BY DEF CardInv, TreeFine
<1> HIDE DEF f, d, p
<1>7. CASE Len(stack) = 1
  <2>1. /\ req' = "none" /\ UNCHANGED <<tree, ok, gone>>
        /\ reply' \in {"active", "ok", "500"}
    BY <1>7 DEF Files!WalkUp, Files!Replies, Files!fs
  <2>2. Plain' /\ AskFine' /\ TreeFine'
    BY <1>4, <1>5, <1>6, <2>1
  <2>3. WalkFine'
    BY <2>1 DEF WalkFine
  <2> QED
    BY <2>2, <2>3 DEF CardInv
<1>8. CASE Len(stack) # 1
  <2>1. Len(stack) > 1
    BY <1>2, <1>8, HowDeep
  <2>2. /\ UNCHANGED <<req, reply>>
        /\ \/ /\ ok /\ ~hit /\ d \in tree /\ Files!Children(d) = {}
              /\ tree' = tree \ {d} /\ gone' = gone \cup {d} /\ ok' = ok
           \/ /\ ~(ok /\ ~hit /\ d \in tree /\ Files!Children(d) = {})
              /\ ok' = FALSE /\ UNCHANGED <<tree, gone>>
    BY <1>8 DEF Files!WalkUp, Files!Top, Files!CutBack, Files!fs, d
  <2>3. OnTheWay(p)
    BY <1>2, <2>1, PopOnTheWay DEF p
  <2>4. /\ d \in Nodes /\ d # Root /\ Files!Under(d, target)
    <3>1. stack[Len(stack)] \in Frame /\ Len(stack) \in 2 .. Len(stack)
          /\ Shaped(stack[Len(stack)], Len(stack))
      BY <1>2, <2>1, HowDeep
    <3>2. d \in Dirs /\ Files!Under(d, target)
      BY <3>1 DEF Shaped, Frame, d
    <3>3. d # Root
      BY <1>2, <3>1, NamesDeep DEF d
    <3> QED
      BY <3>2, <3>3 DEF CardConstants
  <2>5. ok /\ ~hit => /\ d \in tree /\ \A c \in tree \ {Root} : Parent[c] # d
                      /\ Due(p, tree \ {d})
    BY <1>1, <1>2, <2>1, DueRemoves DEF f, d, p
  <2>6. ok /\ ~hit => Files!Children(d) = {}
    BY <2>5 DEF Files!Children
  <2>7. reply \in {"none", "ok", "400", "403", "404", "409", "500", "active"}
    BY DEF CardInv, Plain
  <2>8. CASE ok /\ ~hit
    <3>1. tree' = tree \ {d} /\ gone' = gone \cup {d} /\ ok' = ok
      BY <2>2, <2>5, <2>6, <2>8
    <3>2. gone' \subseteq Nodes /\ \A m \in gone' : Files!Under(m, target)
      BY <1>2, <1>4, <2>4, <3>1
    <3>3. Plain' /\ AskFine'
      BY <1>1, <1>4, <1>5, <2>2, <2>7, <3>1, <3>2
    <3>4. TreeFine'
      BY <2>4, <2>5, <2>8, <3>1, TreeLoses DEF CardInv
    <3>5. WalkFine'
      BY <1>1, <1>2, <2>3, <2>5, <2>8, <3>1, <3>2, WalkGoesOn
    <3> QED
      BY <3>3, <3>4, <3>5 DEF CardInv
  <2>9. CASE ~(ok /\ ~hit)
    <3>1. ok' = FALSE /\ UNCHANGED <<tree, gone>>
      BY <2>2, <2>9
    <3>2. Plain' /\ AskFine' /\ TreeFine'
      BY <1>1, <1>4, <1>5, <1>6, <2>2, <2>7, <3>1
    <3>3. ~hit' => faults' > 0
      BY <1>1, <1>2, <2>9
    <3>4. WalkFine'
      BY <1>1, <1>2, <2>3, <3>1, <3>3, WalkGoesOn
    <3> QED
      BY <3>2, <3>4 DEF CardInv
  <2> QED
    BY <2>8, <2>9
<1> QED
  BY <1>7, <1>8

\* The other requests: none is a walk when it is done but an accepted deletion.
LEMMA RequestStep ==
    ASSUME CardConstants, CardInv, FilesOpen,
           \/ \E n \in Nodes : Files!Mkdir(n) \/ Files!Ask(n, n) \/ Files!Download(n)
           \/ \E d \in Dirs : Files!List(d)
           \/ \E n \in Nodes \ Dirs : \E m \in Files!Siblings(n) : Files!Ask(n, m)
           \/ Files!Rename \/ Files!DownloadEnds
    PROVE  CardInv'
<1>1. /\ Plain /\ TreeFine /\ AskFine
  BY DEF CardInv
<1>2. WalkFine'
  <2>1. req' # "walk"
    BY DEF Files!Mkdir, Files!Ask, Files!Download, Files!List, Files!Rename,
           Files!DownloadEnds, Files!Arrives, Files!Replies
  <2> QED
    BY <2>1 DEF WalkFine
<1>3. ASSUME NEW n \in Nodes, Files!Mkdir(n)  PROVE CardInv'
  <2>1. Plain'
    <3>1. /\ UNCHANGED <<req, ok, hit, gone, stack, opens, files_wpc, log, files_session,
                         files_flash, logs>>
          /\ reply' \in {"403", "409", "ok", "500"} /\ used' = used + 1
          /\ faults' = faults \/ faults' = faults + 1
      BY <1>3 DEF Files!Mkdir, Files!walk, Files!writer
    <3>2. used' \in Nat /\ faults' \in Nat
      BY <1>1, <3>1 DEF Plain
    <3> QED
      BY <1>1, <3>1, <3>2 DEF Plain
  <2>2. AskFine'
    BY <1>1, <1>3 DEF Files!Mkdir, AskFine
  <2>3. TreeFine'
    <3>1. tree' = tree \/ (Parent[n] \in tree /\ tree' = tree \cup {n})
      BY <1>3 DEF Files!Mkdir, Files!fs
    <3> QED
      BY <1>1, <3>1 DEF TreeFine
  <2> QED
    BY <1>2, <2>1, <2>2, <2>3 DEF CardInv
<1>4. ASSUME NEW n \in Nodes, NEW m \in Nodes, Files!Ask(n, m),
             m = n \/ (n \notin Dirs /\ m \in Files!Siblings(n))
      PROVE  CardInv'
  <2>1. Plain'
    <3>1. /\ UNCHANGED <<ok, hit, gone, stack, opens, files_wpc, log, files_session,
                         files_flash, logs, faults>>
          /\ reply' = "none" /\ used' = used + 1 /\ req' \in {"none", "fenced"}
      BY <1>4 DEF Files!Ask, Files!Arrives, Files!walk, Files!writer
    <3>2. used' \in Nat
      BY <1>1, <3>1 DEF Plain
    <3> QED
      BY <1>1, <3>1, <3>2 DEF Plain
  <2>2. AskFine'
    <3>1. target' = n /\ new' = m
      BY <1>4 DEF Files!Ask, Files!Arrives
    <3>2. (m = n \/ (n \notin Dirs /\ m \in Files!Siblings(n)))
      BY <1>4
    <3> QED
      BY <3>1, <3>2 DEF AskFine, Files!Siblings
  <2>3. TreeFine'
    BY <1>1, <1>4 DEF Files!Ask, Files!fs, TreeFine
  <2> QED
    BY <1>2, <2>1, <2>2, <2>3 DEF CardInv
<1>5. ASSUME NEW n \in Nodes, Files!Download(n)  PROVE CardInv'
  <2>1. Plain'
    <3>1. /\ UNCHANGED <<ok, hit, gone, stack, files_wpc, log, files_session,
                         files_flash, logs, faults>>
          /\ reply' = "none" /\ used' = used + 1 /\ req' \in {"none", "download"}
          /\ used < MaxRequests
      BY <1>5 DEF Files!Download, Files!Arrives, Files!walk, Files!writer
    <3>2. used \in Nat /\ MaxRequests \in Nat
      BY <1>1 DEF Plain, CardConstants
    <3>3. used' \in Nat /\ MaxRequests > 0
      BY <3>1, <3>2
    <3> QED
      BY <1>1, <3>1, <3>3 DEF Plain
  <2>2. AskFine'
    BY <1>1, <1>5 DEF Files!Download, Files!Arrives, AskFine
  <2>3. TreeFine'
    BY <1>1, <1>5 DEF Files!Download, Files!fs, TreeFine
  <2> QED
    BY <1>2, <2>1, <2>2, <2>3 DEF CardInv
<1>6. ASSUME NEW d \in Dirs, Files!List(d)  PROVE CardInv'
  <2>1. Plain'
    <3>1. /\ UNCHANGED <<ok, hit, gone, stack, opens, files_wpc, log, files_session,
                         files_flash, logs, faults>>
          /\ reply' = "none" /\ used' = used + 1 /\ req' = "none"
      BY <1>6 DEF Files!List, Files!Arrives, Files!Idle, Files!walk, Files!writer
    <3>2. used' \in Nat
      BY <1>1, <3>1 DEF Plain
    <3> QED
      BY <1>1, <3>1, <3>2 DEF Plain
  <2>2. AskFine'
    BY <1>1, <1>6 DEF Files!List, Files!Arrives, Files!Idle, AskFine, CardConstants
  <2>3. TreeFine'
    BY <1>1, <1>6 DEF Files!List, Files!fs, TreeFine
  <2> QED
    BY <1>2, <2>1, <2>2, <2>3 DEF CardInv
<1>7. ASSUME Files!Rename  PROVE CardInv'
  <2>1. /\ UNCHANGED <<ok, hit, gone, stack, target, new, opens, files_wpc, log,
                       files_session, files_flash, logs, faults, used>>
        /\ reply' \in {"403", "404", "409", "ok"} /\ req' = "none"
    BY <1>7 DEF Files!Rename, Files!Replies, Files!walk, Files!writer, Files!counts
  <2>2. Plain' /\ AskFine'
    BY <1>1, <2>1 DEF Plain, AskFine
  <2>3. /\ target \notin Dirs /\ new \in Nodes /\ new # Root /\ Parent[new] = Parent[target]
    BY <1>1, <1>7 DEF Files!Rename, AskFine, Files!Siblings
  <2>4. tree' = tree \/ (target \in tree /\ tree' = (tree \ {target}) \cup {new})
    BY <1>7 DEF Files!Rename, Files!fs
  <2>5. TreeFine'
    BY <1>1, <2>3, <2>4 DEF TreeFine, CardConstants, FilesConstants
  <2> QED
    BY <1>2, <2>2, <2>5 DEF CardInv
<1>8. ASSUME Files!DownloadEnds  PROVE CardInv'
  <2>1. /\ UNCHANGED <<ok, hit, gone, stack, target, new, files_wpc, log,
                       files_session, files_flash, logs, used, tree>>
        /\ reply' \in {"ok", "500"} /\ req' = "none" /\ req = "download"
        /\ faults' = faults \/ faults' = faults + 1
        /\ opens' = opens - 1
    BY <1>8 DEF Files!DownloadEnds, Files!Replies, Files!NoBufferCloses, Files!fs,
                Files!walk, Files!writer
  <2>2. faults' \in Nat /\ opens' # 1
    <3>1. opens = 1 /\ faults \in Nat
      BY <1>1, <2>1 DEF FilesOpen, Closed, Plain
    <3> QED
      BY <2>1, <3>1
  <2>3. Plain' /\ AskFine' /\ TreeFine'
    BY <1>1, <2>1, <2>2 DEF Plain, AskFine, TreeFine
  <2> QED
    BY <1>2, <2>3 DEF CardInv
<1>9. \A n \in Nodes : \A m \in Files!Siblings(n) : m \in Nodes
  BY DEF Files!Siblings
<1> QED
  BY <1>3, <1>4, <1>5, <1>6, <1>7, <1>8, <1>9

\* sdfm_op_delete up to the walk.
LEMMA DeleteStep == ASSUME CardConstants, CardInv, Files!Delete  PROVE CardInv'
<1>1. /\ Plain /\ TreeFine /\ AskFine
  BY DEF CardInv
<1>2. /\ UNCHANGED <<tree, target, new, opens, files_wpc, log, files_session,
                     files_flash, used, logs, faults>>
      /\ \/ req' = "none" /\ reply' \in {"403", "404"} /\ UNCHANGED <<stack, ok, hit, gone>>
         \/ /\ target \notin Reserved /\ target \in tree
            /\ req' = "walk" /\ ok' = TRUE /\ hit' = FALSE /\ gone' = {}
            /\ stack' = <<[dir |-> Root, left |-> <<target>>]>> /\ UNCHANGED reply
  BY DEF Files!Delete, Files!Replies, Files!IsReserved, Files!fs, Files!walk,
         Files!writer, Files!counts
<1>3. AskFine' /\ TreeFine'
  BY <1>1, <1>2 DEF AskFine, TreeFine
<1>4. CASE req' = "none"
  <2>1. Plain'
    BY <1>1, <1>2, <1>4 DEF Plain
  <2>2. WalkFine'
    BY <1>4 DEF WalkFine
  <2> QED
    BY <1>3, <2>1, <2>2 DEF CardInv
<1>5. CASE req' = "walk"
  <2> DEFINE f == [dir |-> Root, left |-> <<target>>]
  <2>1. target \in Nodes /\ target \in tree /\ target \notin Reserved /\ Root \in Dirs
    BY <1>1, <1>2, <1>5 DEF AskFine, CardConstants, FilesConstants
  <2>2. /\ target' = target /\ stack' = <<f>> /\ ok' = TRUE /\ hit' = FALSE /\ gone' = {}
        /\ tree' = tree
    BY <1>2, <1>5
  <2>3. <<target>> \in Seq(Nodes) /\ <<target>> # <<>>
    BY <2>1
  <2>4. f \in Frame /\ f.dir = Root /\ f.left = <<target>>
    BY <2>1, <2>3 DEF Frame
  <2> HIDE DEF f
  <2>5. <<f>> \in Seq(Frame) /\ <<f>> # <<>> /\ Len(<<f>>) = 1 /\ <<f>>[1] = f
    BY <2>4
  <2> DEFINE s == <<f>>
  <2>6. s \in Seq(Frame) /\ s # <<>> /\ Len(s) = 1 /\ s[1] = f
    BY <2>5
  <2> HIDE DEF s
  <2>7. OnTheWay(s)
    BY <2>4, <2>6 DEF OnTheWay
  <2>8. Due(s, tree)
    BY <2>1, <2>3, <2>4, <2>6 DEF Due
  <2>9. stack' = s
    BY <2>2 DEF s
  <2>10. Plain'
    BY <1>1, <1>2, <1>5, <2>2, <2>6, <2>9 DEF Plain
  <2>11. WalkFine'
    BY <2>1, <2>2, <2>7, <2>8, <2>9, WalkGoesOn
  <2> QED
    BY <1>3, <2>10, <2>11 DEF CardInv
<1> QED
  BY <1>2, <1>4, <1>5

\* The writer and the flash.
LEMMA WriterStep ==
    ASSUME CardConstants, CardInv,
           \/ Files!LogOpens \/ Files!LogDeclared \/ Files!LogRotates \/ Files!LogCloses
           \/ Files!FlashBegins \/ Files!FlashEnds \/ UNCHANGED Files!vars
    PROVE  CardInv'
<1>1. /\ Plain /\ TreeFine /\ AskFine /\ WalkFine
  BY DEF CardInv
<1>2. CASE Files!LogOpens \/ Files!LogRotates
  <2>1. PICK m \in Files!FreshLog : log' = m /\ tree' = tree \cup {m, Logs}
    BY <1>2 DEF Files!LogOpens, Files!LogRotates
  <2>2. /\ logs < MaxLogs /\ logs' = logs + 1 /\ files_wpc' \in {"opening", "open"}
        /\ UNCHANGED <<files_session, files_flash, stack, ok, hit, gone, req, target, new,
                       opens, reply, used, faults>>
    BY <1>1, <1>2 DEF Files!LogOpens, Files!LogRotates, Files!Others, Files!walk,
                      Files!http, Plain
  <2>3. m \in Files!Range(LogNames) /\ m \in Nodes /\ Parent[m] = Logs
    BY <1>1, <2>1, <2>2, FreshIs
  <2>4. Plain'
    <3>1. logs' \in Nat
      BY <1>1, <2>2 DEF Plain
    <3> QED
      BY <1>1, <2>1, <2>2, <2>3, <3>1 DEF Plain
  <2>5. AskFine'
    BY <1>1, <2>2 DEF AskFine
  <2>6. TreeFine'
    <3>1. Parent[Logs] = Root /\ Logs \in Nodes
      BY DEF CardConstants
    <3>2. {m, Logs} \subseteq Nodes /\ \A c \in {m, Logs} : Parent[c] \in tree \cup {m, Logs}
      BY <1>1, <2>3, <3>1 DEF TreeFine
    <3> QED
      BY <1>1, <2>1, <3>2, TreeGains
  <2>7. WalkFine'
    <3>1. CASE req = "walk"
      <4>1. /\ target \in Nodes \ Reserved /\ OnTheWay(stack)
            /\ \A c \in gone : Files!Under(c, target)
            /\ ok /\ ~hit => Due(stack, tree)
            /\ ~ok /\ ~hit => faults > 0
        BY <1>1, <3>1 DEF WalkFine
      <4>2. ok /\ ~hit => Due(stack, tree \cup {m, Logs})
        BY <2>3, <4>1, DueGrows
      <4> QED
        BY <2>1, <2>2, <4>1, <4>2, WalkGoesOn
    <3>2. CASE req # "walk"
      BY <2>2, <3>2 DEF WalkFine
    <3> QED
      BY <3>1, <3>2
  <2> QED
    BY <2>4, <2>5, <2>6, <2>7 DEF CardInv
<1>3. CASE \/ Files!LogDeclared \/ Files!LogCloses \/ Files!FlashBegins \/ Files!FlashEnds
           \/ UNCHANGED Files!vars
  <2>1. /\ UNCHANGED <<stack, ok, hit, gone, req, target, new, opens, reply, used, faults,
                       logs, tree>>
        /\ files_wpc' \in {"open", "idle", files_wpc} /\ log' \in {log, Files!None}
        /\ files_session' \in {TRUE, FALSE, files_session}
        /\ files_flash' \in {TRUE, FALSE, files_flash}
    BY <1>3 DEF Files!LogDeclared, Files!LogCloses, Files!FlashBegins, Files!FlashEnds,
                Files!vars, Files!Others, Files!walk, Files!http, Files!writer,
                Files!counts, Files!fs
  <2>2. Plain'
    <3>1. files_session \in BOOLEAN /\ files_flash \in BOOLEAN
          /\ files_wpc \in {"idle", "opening", "open"}
      BY <1>1 DEF Plain
    <3>2. files_session' \in BOOLEAN /\ files_flash' \in BOOLEAN
      BY <2>1, <3>1
    <3>3. files_wpc' \in {"idle", "opening", "open"}
          /\ log' \in Files!Range(LogNames) \cup {Files!None}
      BY <1>1, <2>1, <3>1 DEF Plain
    <3>4. UNCHANGED <<stack, ok, hit, gone, req, opens, reply, used, faults, logs>>
      BY <2>1
    <3> QED
      BY <1>1, <3>2, <3>3, <3>4 DEF Plain
  <2>3. AskFine' /\ TreeFine'
    BY <1>1, <2>1 DEF AskFine, TreeFine
  <2>4. WalkFine'
    <3>1. CASE req = "walk"
      BY <1>1, <2>1, <3>1, WalkGoesOn DEF WalkFine
    <3>2. CASE req # "walk"
      BY <2>1, <3>2 DEF WalkFine
    <3> QED
      BY <3>1, <3>2
  <2> QED
    BY <2>2, <2>3, <2>4 DEF CardInv
<1> QED
  BY <1>2, <1>3

LEMMA CardInit == CardConstants /\ Files!Init => CardInv
<1> SUFFICES ASSUME CardConstants, Files!Init PROVE CardInv
  OBVIOUS
<1>1. /\ tree = Start /\ req = "none" /\ target = Root /\ new = Root /\ stack = <<>>
      /\ ok = TRUE /\ hit = FALSE /\ gone = {} /\ opens = 0 /\ reply = "none"
      /\ files_wpc = "idle" /\ log = Files!None /\ files_session = FALSE
      /\ files_flash = FALSE /\ used = 0 /\ logs = 0 /\ faults = 0
  BY DEF Files!Init
<1>2. stack \in Seq(Frame)
  BY <1>1
<1>3. Plain
  <2>1. opens # 1 /\ used \in Nat /\ faults \in Nat /\ logs \in Nat
    BY <1>1
  <2>2. ok \in BOOLEAN /\ hit \in BOOLEAN /\ gone \subseteq Nodes
        /\ files_session \in BOOLEAN /\ files_flash \in BOOLEAN
    BY <1>1
  <2>3. /\ req = "none" /\ reply = "none" /\ files_wpc = "idle" /\ log = Files!None
    BY <1>1
  <2> QED
    BY <1>2, <2>1, <2>2, <2>3 DEF Plain
<1>4. TreeFine /\ AskFine /\ WalkFine
  BY <1>1 DEF TreeFine, AskFine, WalkFine, CardConstants, FilesConstants
<1> QED
  BY <1>3, <1>4 DEF CardInv

LEMMA CardStep ==
    CardConstants /\ CardInv /\ FilesOpen /\ [Files!Next]_(Files!vars) => CardInv'
  BY NameStep, UpStep, RequestStep, DeleteStep, WriterStep DEF Files!Next

LEMMA CardTyped ==
    CardConstants /\ CardInv /\ FilesOpen => Files!TypeOK
<1> SUFFICES ASSUME CardConstants, CardInv, FilesOpen PROVE Files!TypeOK
  OBVIOUS
<1>1. Plain /\ tree \subseteq Nodes /\ target \in Nodes /\ new \in Nodes
  BY DEF CardInv, TreeFine, AskFine
<1>2. stack \in Seq(Frame)
  BY <1>1 DEF Plain
<1>3. ASSUME NEW i \in 1 .. Len(stack)
      PROVE  stack[i].dir \in Dirs /\ Files!Range(stack[i].left) \subseteq Nodes
  <2>1. stack[i] \in Frame
    BY <1>2, <1>3
  <2>2. stack[i].dir \in Dirs /\ stack[i].left \in Seq(Nodes)
    BY <2>1 DEF Frame
  <2>3. \A s \in Seq(Nodes) : \A k \in DOMAIN s : s[k] \in Nodes
    OBVIOUS
  <2> QED
    BY <2>2, <2>3 DEF Files!Range
<1>4. opens \in 0 .. MaxRequests
  <2>1. MaxRequests \in Nat /\ (opens = 0 \/ opens = 1) /\ (opens = 1 => MaxRequests > 0)
    BY <1>1 DEF CardConstants, FilesOpen, Closed, Plain
  <2> QED
    BY <2>1
<1> QED
  BY <1>1, <1>3, <1>4 DEF Plain, Files!TypeOK

\* The step that ends a deletion.
LEMMA DeletionEnds ==
    ASSUME CardConstants, CardInv, [Files!Next]_(Files!vars), req = "walk", req' = "none"
    PROVE  /\ \A n \in gone : Files!Under(n, target)
           /\ reply' = "ok" =>
                 \A n \in tree : Files!Under(n, target) => n \in Files!Range(LogNames)
           /\ reply' = "500" => faults > 0
<1>1. Files!WalkUp
  BY DEF Files!Next, Files!Mkdir, Files!Ask, Files!Download, Files!List, Files!Arrives,
         Files!Rename, Files!Delete, Files!DownloadEnds, Files!WalkStep, Files!WalkFile,
         Files!WalkDir, Files!LogOpens, Files!LogDeclared, Files!LogRotates,
         Files!LogCloses, Files!FlashBegins, Files!FlashEnds, Files!Others, Files!http,
         Files!vars
<1>2. /\ target \in Nodes \ Reserved /\ OnTheWay(stack)
      /\ \A m \in gone : Files!Under(m, target)
      /\ ok /\ ~hit => Due(stack, tree)
      /\ ~ok /\ ~hit => faults > 0
  BY DEF CardInv, WalkFine
<1>3. Len(stack) = 1 /\ stack[Len(stack)].left = <<>>
      /\ reply' = (IF hit THEN "active" ELSE IF ok THEN "ok" ELSE "500")
  BY <1>1 DEF Files!WalkUp, Files!Top, Files!Replies
<1>4. stack[1].left = <<>>
  BY <1>3
<1>5. ASSUME reply' = "ok", NEW n \in tree, Files!Under(n, target)
      PROVE  n \in Files!Range(LogNames)
  <2>1. ok /\ ~hit
    BY <1>3, <1>5
  <2>2. target \notin tree \/ target \in Files!Range(LogNames)
    BY <1>2, <1>3, <1>4, <2>1 DEF Due
  <2>3. n \in Nodes /\ \A m \in tree : Parent[m] \in tree
    BY DEF CardInv, TreeFine
  <2>4. target \in tree
    BY <1>5, <2>3, ClosedAbove
  <2>5. target \notin Dirs
    <3>1. LogNames \in Seq(Nodes) /\ \A i \in 1 .. Len(LogNames) : LogNames[i] \notin Dirs
      BY DEF CardConstants
    <3>2. DOMAIN LogNames = 1 .. Len(LogNames)
      BY <3>1
    <3> QED
      BY <2>2, <2>4, <3>1, <3>2 DEF Files!Range
  <2>6. n = target
    BY <1>2, <1>5, <2>3, <2>5, NothingUnder
  <2> QED
    BY <2>2, <2>4, <2>6
<1>6. reply' = "500" => faults > 0
  BY <1>2, <1>3
<1> QED
  BY <1>2, <1>5, <1>6

\* A request never takes away the log that is open or was, a deletion takes what
\* was named and no more, and no file stays open.
FilesAreSafe ==
    /\ []Files!TypeOK /\ []Files!LogOutlivesRequest /\ []Files!NothingLeaks
    /\ Files!DeleteIsWhole

(* Whatever the tree of three levels, requests, faults and the logs the      *)
(* writer opens meanwhile: the walk with its one path buffer stays below     *)
(* what was named, leaves nothing of it when it answers ok, and fails only   *)
(* when the card did (sdfm_rmtree).                                          *)
THEOREM FilesStaySafe == ASSUME CardConstants PROVE Files!Spec => FilesAreSafe
<1>1. Files!Init => CardInv /\ FilesOpen
  BY CardInit DEF Files!Init, FilesOpen, Closed
<1>2. CardInv /\ FilesOpen /\ [Files!Next]_(Files!vars) => (CardInv /\ FilesOpen)'
  BY CardStep, OpenStep
<1>3. CardInv /\ FilesOpen => Files!TypeOK
  BY CardTyped
<1>4. CardInv /\ [Files!Next]_(Files!vars) =>
        [req = "walk" /\ req' = "none" =>
           /\ \A n \in gone : Files!Under(n, target)
           /\ reply' = "ok" => \A n \in tree : Files!Under(n, target)
                                              => n \in Files!Range(LogNames)
           /\ reply' = "500" => faults > 0]_(Files!vars)
  BY DeletionEnds
<1>5. Files!Spec => []Files!LogOutlivesRequest
  BY LogsOutliveRequests DEF CardConstants
<1>6. Files!Spec => []Files!NothingLeaks
  BY NoFileStaysOpen
<1> QED
  BY <1>1, <1>2, <1>3, <1>4, <1>5, <1>6, PTL
  DEF Files!Spec, FilesAreSafe, Files!DeleteIsWhole

-----------------------------------------------------------------------------
(* The consoles, on one of which a factory reset is typed.                   *)
CONSTANTS LineMax, MaxTyped, MaxClients

VARIABLES pc, prev, io, line, ran, heard, mixed, client, clients, buf, typed_runs

Typed == INSTANCE Console WITH MaxRuns <- MaxTyped, runs <- typed_runs

\* One console at a time has its output where it asked, and the line that is
\* run is of the client that is there. (Console.)
ConsoleIsOne ==
    Typed!TypeOK /\ Typed!OneAtATimeIsRight /\ Typed!LineIsTheClients

TypedConstants == LineMax \in Nat /\ MaxTyped \in Nat /\ MaxClients \in Nat

TypedSteps == {"idle", "save", "point", "copy", "look", "say", "back"}

\* Where the shared pointer stands when c alone runs a command.
Placed(c) ==
    /\ c = "uart" => pc[c] \notin {"save", "point"} /\ io = "uart"
    /\ c # "uart" =>
          /\ pc[c] \in {"save", "point"} => io = "uart"
          /\ pc[c] \in {"copy", "look", "say", "back"} => io = c
          /\ pc[c] # "save" => prev[c] = "uart"
    /\ pc[c] = "look" => line = c

\* While no two commands have overlapped.
Alone ==
    ~mixed =>
        /\ \A c, d \in Typed!Consoles : pc[c] # "idle" /\ pc[d] # "idle" => c = d
        /\ \A c \in Typed!Consoles : pc[c] # "idle" => Placed(c)
        /\ (\A c \in Typed!Consoles : pc[c] = "idle") => io = "uart"

\* A client is there as long as its command runs, and its line is its own.
ClientInv == (pc["tcp"] # "idle" => client # 0) /\ Typed!LineIsTheClients

TypedInv == Typed!TypeOK /\ Alone /\ ClientInv /\ Typed!OneAtATimeIsRight

LEMMA FrontAgrees ==
    ASSUME NEW S, NEW s \in Seq(S), s # <<>>
    PROVE  \A i \in 1 .. Len(s) - 1 : SubSeq(s, 1, Len(s) - 1)[i] = s[i]
<1>1. Len(s) \in Nat /\ Len(s) - 1 \in Nat
  OBVIOUS
<1> QED
  BY <1>1

LEMMA LineStep ==
    ASSUME TypedConstants, TypedInv, Typed!Accept \/ Typed!Key \/ Typed!Leave
    PROVE  TypedInv'
<1> USE DEF TypedInv
<1>1. UNCHANGED <<pc, prev, io, line, ran, heard, mixed, typed_runs>> /\ pc["tcp"] = "idle"
  BY DEF Typed!Accept, Typed!Key, Typed!Leave, Typed!run
<1>2. Alone' /\ Typed!OneAtATimeIsRight'
  BY <1>1 DEF Alone, Placed, Typed!OneAtATimeIsRight, Typed!AtRest
<1>3. /\ client' \in 0 .. MaxClients /\ clients' \in 0 .. MaxClients
      /\ buf' \in Seq(1 .. MaxClients) /\ Len(buf') <= LineMax
      /\ Typed!LineIsTheClients'
  <2> USE DEF Typed!TypeOK, TypedConstants, ClientInv, Typed!LineIsTheClients
  <2>1. CASE Typed!Accept
    BY <2>1 DEF Typed!Accept, Typed!NewLine
  <2>2. CASE Typed!Leave
    BY <2>2 DEF Typed!Leave
  <2>3. CASE Typed!Key /\ buf' = buf
    BY <2>3 DEF Typed!Key
  <2>4. CASE Typed!Key /\ Len(buf) < LineMax /\ buf' = Append(buf, client)
    <3>1. client \in 1 .. MaxClients /\ client' = client /\ clients' = clients
      BY <2>4 DEF Typed!Key
    <3>2. /\ buf' \in Seq(1 .. MaxClients) /\ Len(buf') = Len(buf) + 1
          /\ \A i \in 1 .. Len(buf) + 1 : buf'[i] = IF i = Len(buf) + 1 THEN client ELSE buf[i]
      BY <2>4, <3>1
    <3> QED
      BY <2>4, <3>1, <3>2
  <2>5. CASE Typed!Key /\ buf # <<>> /\ buf' = SubSeq(buf, 1, Len(buf) - 1)
    <3>1. client' = client /\ clients' = clients /\ Len(buf) \in Nat \ {0}
      BY <2>5 DEF Typed!Key
    <3>2. /\ buf' \in Seq(1 .. MaxClients) /\ Len(buf') = Len(buf) - 1
          /\ \A i \in 1 .. Len(buf) - 1 : buf'[i] = buf[i]
      BY <2>5, <3>1, FrontIsSeq, FrontAgrees
    <3> QED
      BY <3>1, <3>2
  <2> QED
    BY <2>1, <2>2, <2>3, <2>4, <2>5 DEF Typed!Key
<1> QED
  BY <1>1, <1>2, <1>3 DEF Typed!TypeOK, ClientInv

LEMMA BeginsStep ==
    ASSUME TypedConstants, TypedInv, Typed!UartLine \/ Typed!BleLine \/ Typed!TcpLine
    PROVE  TypedInv'
<1> USE DEF TypedInv
<1>1. PICK c \in Typed!Consoles, to \in {"save", "copy"} :
          /\ Typed!Begins(c, to) /\ (c = "uart" <=> to = "copy")
          /\ c = "tcp" => client # 0
  BY DEF Typed!UartLine, Typed!BleLine, Typed!TcpLine, Typed!Consoles
<1>2. /\ client' = client /\ clients' = clients /\ (buf' = buf \/ buf' = <<>>)
  BY DEF Typed!UartLine, Typed!BleLine, Typed!TcpLine, Typed!tcp
<1>3. /\ pc \in [Typed!Consoles -> TypedSteps] /\ pc[c] = "idle"
      /\ pc' = [pc EXCEPT ![c] = to]
      /\ mixed' = (mixed \/ \E d \in Typed!Consoles \ {c} : pc[d] # "idle")
      /\ UNCHANGED <<prev, io, line, ran, heard>>
  BY <1>1 DEF Typed!Begins, Typed!TypeOK, TypedSteps
<1>4. /\ pc' \in [Typed!Consoles -> TypedSteps] /\ pc'[c] = to
      /\ \A d \in Typed!Consoles \ {c} : pc'[d] = pc[d]
  BY <1>1, <1>3 DEF TypedSteps
<1>5. Typed!TypeOK'
  <2>1. typed_runs' \in 0 .. MaxTyped
    BY <1>1 DEF Typed!Begins, Typed!TypeOK, TypedConstants
  <2>2. buf' \in Seq(1 .. MaxClients) /\ Len(buf') <= LineMax
    <3>1. <<>> \in Seq(1 .. MaxClients) /\ Len(<<>>) <= LineMax
      BY DEF TypedConstants
    <3> QED
      BY <1>2, <3>1 DEF Typed!TypeOK
  <2>3. mixed' \in BOOLEAN
    BY <1>3 DEF Typed!TypeOK
  <2> QED
    BY <1>2, <1>3, <1>4, <2>1, <2>2, <2>3 DEF Typed!TypeOK, TypedSteps
<1>6. ASSUME ~mixed' PROVE Alone'
  <2>1. ~mixed /\ \A d \in Typed!Consoles : pc[d] = "idle"
    BY <1>3, <1>6
  <2>2. io = "uart"
    BY <2>1 DEF Alone
  <2>3. \A d \in Typed!Consoles : pc'[d] # "idle" => d = c
    BY <1>4, <2>1
  <2>4. Placed(c)'
    BY <1>1, <1>3, <1>4, <2>2 DEF Placed
  <2>5. ~ \A d \in Typed!Consoles : pc'[d] = "idle"
    BY <1>1, <1>4
  <2> QED
    BY <2>3, <2>4, <2>5 DEF Alone
<1>7. ClientInv'
  BY <1>1, <1>2, <1>3, <1>4 DEF ClientInv, Typed!LineIsTheClients, Typed!Consoles
<1>8. Typed!OneAtATimeIsRight'
  <2>1. ASSUME ~mixed' PROVE ~ Typed!AtRest'
    BY <1>1, <1>4 DEF Typed!AtRest
  <2> QED
    BY <1>3, <2>1 DEF Typed!OneAtATimeIsRight
<1> QED
  BY <1>5, <1>6, <1>7, <1>8 DEF Alone

\* A step of a command.
LEMMA MoveStep ==
    ASSUME TypedInv, NEW c \in Typed!Consoles,
           \/ Typed!Save(c) \/ Typed!Point(c) \/ Typed!Copy(c) \/ Typed!Look(c)
           \/ Typed!Say(c) \/ Typed!Back(c)
    PROVE  TypedInv'
<1> USE DEF TypedInv
<1>1. PICK to \in TypedSteps : pc[c] # "idle" /\ pc' = [pc EXCEPT ![c] = to]
  BY DEF Typed!Save, Typed!Point, Typed!Copy, Typed!Look, Typed!Say, Typed!Back,
         Typed!Moves, TypedSteps
<1>2. UNCHANGED <<mixed, typed_runs, client, clients, buf>>
  BY DEF Typed!Save, Typed!Point, Typed!Copy, Typed!Look, Typed!Say, Typed!Back, Typed!tcp
<1>3. /\ pc \in [Typed!Consoles -> TypedSteps] /\ pc' \in [Typed!Consoles -> TypedSteps]
      /\ pc'[c] = to /\ \A d \in Typed!Consoles \ {c} : pc'[d] = pc[d]
  BY <1>1 DEF Typed!TypeOK, TypedSteps
<1>4. ClientInv'
  BY <1>1, <1>2, <1>3 DEF ClientInv, Typed!LineIsTheClients, Typed!Consoles
<1>5. ~mixed => /\ Placed(c)
                /\ \A d \in Typed!Consoles \ {c} : pc[d] = "idle" /\ pc'[d] = "idle"
  BY <1>1, <1>3 DEF Alone
<1>6. (~mixed /\ to # "idle" => Placed(c)') /\ (~mixed /\ to = "idle" => io' = "uart") => Alone'
  BY <1>2, <1>3, <1>5 DEF Alone
<1> DEFINE HeardHome == \A p \in heard : p[2] = p[1]
           RanOwn == \A d \in Typed!Consoles : ran[d] \in {"none", d}
           Types == /\ prev' \in [Typed!Consoles -> Typed!Consoles]
                    /\ io' \in Typed!Consoles
                    /\ line' \in Typed!Consoles \cup {"none"}
                    /\ ran' \in [Typed!Consoles -> Typed!Consoles \cup {"none"}]
                    /\ heard' \subseteq Typed!Consoles \X (Typed!Consoles \cup {"nowhere"})
<1>7. Types => Typed!TypeOK'
  BY <1>2, <1>3 DEF Typed!TypeOK, TypedSteps
<1>8. ~mixed => HeardHome /\ RanOwn
  BY DEF Typed!OneAtATimeIsRight
<1>9. Alone' /\ (~mixed => HeardHome' /\ RanOwn') => Typed!OneAtATimeIsRight'
  BY <1>2 DEF Alone, Typed!OneAtATimeIsRight, Typed!AtRest
<1>10. /\ prev \in [Typed!Consoles -> Typed!Consoles] /\ io \in Typed!Consoles
       /\ line \in Typed!Consoles \cup {"none"}
       /\ ran \in [Typed!Consoles -> Typed!Consoles \cup {"none"}]
       /\ heard \subseteq Typed!Consoles \X (Typed!Consoles \cup {"nowhere"})
  BY DEF Typed!TypeOK
<1>11. Types /\ Alone' /\ (~mixed => HeardHome' /\ RanOwn')
  <2>1. CASE Typed!Save(c)
    <3>1. /\ pc[c] = "save" /\ to = "point" /\ prev' = [prev EXCEPT ![c] = io]
          /\ UNCHANGED <<io, line, ran, heard>>
      BY <1>1, <1>3, <2>1 DEF Typed!Save, Typed!Moves
    <3>2. prev' \in [Typed!Consoles -> Typed!Consoles] /\ prev'[c] = io
      BY <1>10, <3>1
    <3> QED
      BY <1>3, <1>5, <1>6, <1>8, <1>10, <3>1, <3>2 DEF Placed
  <2>2. CASE Typed!Point(c)
    <3>1. /\ pc[c] = "point" /\ to = "copy" /\ io' = c
          /\ UNCHANGED <<prev, line, ran, heard>>
      BY <1>1, <1>3, <2>2 DEF Typed!Point, Typed!Moves
    <3> QED
      BY <1>3, <1>5, <1>6, <1>8, <1>10, <3>1 DEF Placed
  <2>3. CASE Typed!Copy(c)
    <3>1. /\ pc[c] = "copy" /\ to = "look" /\ line' = c
          /\ UNCHANGED <<prev, io, ran, heard>>
      BY <1>1, <1>3, <2>3 DEF Typed!Copy, Typed!Moves
    <3> QED
      BY <1>3, <1>5, <1>6, <1>8, <1>10, <3>1 DEF Placed
  <2>4. CASE Typed!Look(c)
    <3>1. /\ pc[c] = "look" /\ to = "say" /\ ran' = [ran EXCEPT ![c] = line]
          /\ UNCHANGED <<prev, io, line, heard>>
      BY <1>1, <1>3, <2>4 DEF Typed!Look, Typed!Moves
    <3>2. ran' \in [Typed!Consoles -> Typed!Consoles \cup {"none"}] /\ ran'[c] = line
          /\ \A d \in Typed!Consoles \ {c} : ran'[d] = ran[d]
      BY <1>10, <3>1
    <3>3. ~mixed => line = c
      BY <1>5, <3>1 DEF Placed
    <3>4. ~mixed => RanOwn'
      BY <1>8, <3>2, <3>3
    <3> QED
      BY <1>3, <1>5, <1>6, <1>8, <1>10, <3>1, <3>2, <3>4 DEF Placed
  <2>5. CASE Typed!Say(c)
    <3>1. /\ pc[c] = "say" /\ to \in {"say", "back"}
          /\ UNCHANGED <<prev, io, line, ran>>
      BY <1>1, <1>3, <2>5 DEF Typed!Say, Typed!Moves
    <3>2. PICK d \in Typed!Goes(io) : heard' = heard \cup {<<c, d>>}
      BY <2>5 DEF Typed!Say
    <3>3. d \in Typed!Consoles \cup {"nowhere"}
      BY <1>10 DEF Typed!Goes, Typed!Alive
    <3>4. ~mixed => d = c
      <4>1. ~mixed => io = c
        BY <1>5, <3>1 DEF Placed, Typed!Consoles
      <4>2. pc["tcp"] # "idle" => client # 0
        BY DEF ClientInv
      <4> QED
        BY <3>1, <3>2, <4>1, <4>2 DEF Typed!Goes, Typed!Alive
    <3>5. heard' \subseteq Typed!Consoles \X (Typed!Consoles \cup {"nowhere"})
      BY <1>10, <3>2, <3>3
    <3>6. ~mixed => HeardHome'
      BY <1>8, <3>2, <3>4
    <3>7. ~mixed => RanOwn'
      BY <1>8, <3>1
    <3>8. Alone'
      BY <1>3, <1>5, <1>6, <3>1 DEF Placed
    <3> QED
      BY <1>10, <3>1, <3>5, <3>6, <3>7, <3>8
  <2>6. CASE Typed!Back(c)
    <3>1. /\ pc[c] = "back" /\ to = "idle" /\ io' = Typed!Restored(c)
          /\ UNCHANGED <<prev, line, ran, heard>>
      BY <1>1, <1>3, <2>6 DEF Typed!Back, Typed!Moves
    <3>2. io' \in Typed!Consoles /\ (~mixed => io' = "uart")
      BY <1>5, <1>10, <3>1 DEF Typed!Restored, Placed
    <3> QED
      BY <1>3, <1>5, <1>6, <1>8, <1>10, <3>1, <3>2
  <2> QED
    BY <2>1, <2>2, <2>3, <2>4, <2>5, <2>6
<1> QED
  BY <1>4, <1>7, <1>9, <1>11

(* As long as no two commands overlap, each runs its own line, prints where  *)
(* it was typed and leaves the serial console its output; and whatever       *)
(* overlaps, a client's line holds nothing an earlier one typed              *)
(* (cmdline.c:267-283, 477).                                                 *)
THEOREM ConsoleStaysOne == ASSUME TypedConstants PROVE Typed!Spec => []ConsoleIsOne
<1>1. Typed!Init => TypedInv
  <2> SUFFICES ASSUME Typed!Init PROVE TypedInv
    OBVIOUS
  <2>1. Typed!TypeOK
    <3>1. /\ pc \in [Typed!Consoles -> TypedSteps] /\ prev \in [Typed!Consoles -> Typed!Consoles]
          /\ ran \in [Typed!Consoles -> Typed!Consoles \cup {"none"}]
      BY DEF Typed!Init, Typed!Consoles, TypedSteps
    <3>2. client = 0 /\ clients = 0 /\ typed_runs = 0 /\ buf = <<>> /\ heard = {}
          /\ io = "uart" /\ line = "none" /\ mixed = FALSE
      BY DEF Typed!Init
    <3>3. <<>> \in Seq(1 .. MaxClients) /\ Len(<<>>) <= LineMax
      BY DEF TypedConstants
    <3> QED
      <4>1. /\ client \in 0 .. MaxClients /\ clients \in 0 .. MaxClients
            /\ typed_runs \in 0 .. MaxTyped
        BY <3>2 DEF TypedConstants
      <4>2. /\ buf \in Seq(1 .. MaxClients) /\ Len(buf) <= LineMax
        BY <3>2, <3>3
      <4>3. /\ io \in Typed!Consoles /\ line \in Typed!Consoles \cup {"none"} /\ mixed \in BOOLEAN
            /\ heard \subseteq Typed!Consoles \X (Typed!Consoles \cup {"nowhere"})
        BY <3>2 DEF Typed!Consoles
      <4> QED
        BY <3>1, <4>1, <4>2, <4>3 DEF Typed!TypeOK, TypedSteps
  <2>2. Alone /\ ClientInv /\ Typed!OneAtATimeIsRight
    <3>1. /\ pc = [c \in Typed!Consoles |-> "idle"] /\ io = "uart" /\ client = 0 /\ heard = {}
          /\ ran = [c \in Typed!Consoles |-> "none"]
      BY DEF Typed!Init
    <3> QED
      BY <3>1 DEF Alone, ClientInv, Typed!LineIsTheClients, Typed!OneAtATimeIsRight,
                  Typed!AtRest, Typed!Consoles
  <2> QED
    BY <2>1, <2>2 DEF TypedInv
<1>2. TypedInv /\ [Typed!Next]_(Typed!vars) => TypedInv'
  <2> SUFFICES ASSUME TypedInv, [Typed!Next]_(Typed!vars) PROVE TypedInv'
    OBVIOUS
  <2>1. CASE Typed!Next
    BY <2>1, LineStep, BeginsStep, MoveStep DEF Typed!Next
  <2>2. CASE UNCHANGED Typed!vars
    BY <2>2 DEF Typed!vars, Typed!run, Typed!tcp, TypedInv, Typed!TypeOK, Alone, Placed,
         ClientInv, Typed!LineIsTheClients, Typed!OneAtATimeIsRight, Typed!AtRest
  <2> QED
    BY <2>1, <2>2
<1>3. TypedInv => ConsoleIsOne
  BY DEF TypedInv, ClientInv, ConsoleIsOne
<1> QED
  BY <1>1, <1>2, <1>3, PTL DEF Typed!Spec
=============================================================================
