-------------------------- MODULE HostLink_proofs --------------------------
(***************************************************************************)
(* Proofs about HostLink: for any queue lengths, images and connections, a *)
(* live write never abandons an ECU that may be erasing, and the port      *)
(* keeps the promise about its owners, prompt hosts included.  Then, as an *)
(* instance, the read codec behind the port.                               *)
(***************************************************************************)
EXTENDS HostLink, Sequences, TLAPS

-----------------------------------------------------------------------------
(* The port.                                                                *)

PortType ==
    /\ sock \in Nat /\ gen \in Nat
    /\ opened \in BOOLEAN /\ closed \in BOOLEAN
    /\ mutex \in {"none", "rx", "tx"}
    /\ peer \in {"reading", "stalled", "gone"}
    /\ srv \in SrvPC
    /\ rx \in [pc : RxPC, gen : Nat, sock : Nat, got : {"data", "end"}]
    /\ tx \in TxPC
    /\ rxq \in 0..RxLen

QueueType == txq \in 0..TxLen

RunType == run \in [pc : RunPC, op : Commands, img : Images \cup {NoImage},
                    done : Nat, ponr : BOOLEAN, gone : BOOLEAN]

LEMMA TypeParts == TypeOK <=> PortType /\ QueueType /\ RunType
  BY DEF TypeOK, PortType, QueueType, RunType

\* What the port's own steps keep: the types, the mutex and the open bit.
PortInv == PortType /\ MutexHeld /\ OpenOnlyServing

LEMMA HostKeepsPort == PortInv /\ Host => PortInv'
<1> SUFFICES ASSUME PortInv, Host PROVE PortInv'
  OBVIOUS
<1> USE DEF PortInv, PortType, MutexHeld, OpenOnlyServing, RxPC
<1>1. CASE HostStalls \/ HostReads \/ HostLeaves
  BY <1>1 DEF HostStalls, HostReads, HostLeaves
<1>2. CASE HostSends
  BY <1>2 DEF HostSends, portVars
<1> QED
  BY <1>1, <1>2 DEF Host

LEMMA ServerKeepsPort == PortInv /\ (SrvAccept \/ Server) => PortInv'
<1> SUFFICES ASSUME PortInv, SrvAccept \/ Server PROVE PortInv'
  OBVIOUS
<1> USE DEF PortInv, PortType, MutexHeld, OpenOnlyServing, SrvPC
<1>1. CASE SrvAccept
  BY <1>1 DEF SrvAccept
<1>2. CASE SrvCount
  BY <1>2 DEF SrvCount
<1>3. CASE SrvReset
  BY <1>3 DEF SrvReset
<1>4. CASE SrvOpen
  BY <1>4 DEF SrvOpen
<1>5. CASE SrvServe
  BY <1>5 DEF SrvServe
<1>6. CASE SrvClose
  BY <1>6 DEF SrvClose
<1> QED
  BY <1>1, <1>2, <1>3, <1>4, <1>5, <1>6 DEF Server

LEMMA ReceiveKeepsPort == PortInv /\ Receive => PortInv'
<1> SUFFICES ASSUME PortInv, Receive PROVE PortInv'
  OBVIOUS
<1> USE DEF PortInv, PortType, MutexHeld, OpenOnlyServing, RxPC, RxGo
<1>1. CASE RxOpen
  BY <1>1 DEF RxOpen, portVars
<1>2. CASE RxSnap
  BY <1>2 DEF RxSnap, portVars
<1>3. CASE RxRecv
  BY <1>3 DEF RxRecv, portVars
<1>4. CASE RxEnd
  BY <1>4 DEF RxEnd, portVars
<1>5. CASE RxLock
  BY <1>5 DEF RxLock
<1>6. CASE RxCheck
  BY <1>6 DEF RxCheck
<1>7. CASE RxPush
  BY <1>7, LinkAssumption DEF RxPush
<1>8. CASE RxShut
  BY <1>8 DEF RxShut
<1>9. CASE RxClear
  BY <1>9 DEF RxClear
<1> QED
  BY <1>1, <1>2, <1>3, <1>4, <1>5, <1>6, <1>7, <1>8, <1>9 DEF Receive

LEMMA TransmitKeepsPort ==
    PortInv /\ QueueType /\ Transmit => PortInv' /\ QueueType' /\ run' = run
<1> SUFFICES ASSUME PortInv, QueueType, Transmit
             PROVE  PortInv' /\ QueueType' /\ run' = run
  OBVIOUS
<1> USE DEF PortInv, PortType, QueueType, MutexHeld, OpenOnlyServing, TxPC
<1>1. CASE TxOpen \/ TxPeek
  BY <1>1 DEF TxOpen, TxPeek, portVars
<1>2. CASE TxLock
  BY <1>2, LinkAssumption DEF TxLock
<1>3. CASE TxSend
  BY <1>3 DEF TxSend
<1>4. CASE TxShut
  BY <1>4 DEF TxShut
<1>5. CASE TxClear
  BY <1>5 DEF TxClear
<1> QED
  BY <1>1, <1>2, <1>3, <1>4, <1>5 DEF Transmit

\* The port's steps other than the transmit task's leave its queue alone, and
\* none touches the command.
LEMMA PortSteps ==
    Host \/ SrvAccept \/ Server \/ Receive => UNCHANGED <<txq, run>>
  BY DEF Host, HostStalls, HostReads, HostLeaves, HostSends, SrvAccept, Server,
     SrvCount, SrvReset, SrvOpen, SrvServe, SrvClose, Receive, RxOpen, RxSnap,
     RxRecv, RxEnd, RxLock, RxCheck, RxPush, RxShut, RxClear

-----------------------------------------------------------------------------
(* The command.                                                             *)

RunInv == RunType /\ GoneIsOver /\ ErasingNotAbandoned

LEMMA ImageSizes == RunType => run.img.sbl \in Nat /\ run.img.program \in Nat
  BY LinkAssumption DEF RunType, NoImage

\* A line sent under the rule of tx_send keeps the command's part.
LEMMA EmitKeeps ==
    ASSUME RunInv, QueueType, NEW pc \in RunPC \ {"idle", "block"}, Emit(pc),
           run.pc # "idle", ~run.gone
    PROVE  RunInv' /\ QueueType'
<1> USE DEF RunType, RunInv, QueueType, RunPC, GoneIsOver
<1>0. QueueType'
  BY LinkAssumption DEF Emit, Room, Full
<1>1. RunType'
  BY DEF Emit, RunGo
<1>2. /\ run'.op = run.op /\ run'.img = run.img /\ run'.done = run.done
      /\ run'.ponr = run.ponr /\ run'.pc \notin {"idle", "block"}
      /\ run'.gone => run'.pc = "cleanup" /\ ~run.ponr
  BY DEF Emit, Room, Full, RunGo
<1>3. MayBeErasing' => MayBeErasing
  BY <1>2 DEF MayBeErasing, Live
<1> QED
  BY <1>0, <1>1, <1>2, <1>3 DEF ErasingNotAbandoned

LEMMA CommandSteps ==
    RunInv /\ QueueType /\ (Advance \/ Beat) => RunInv' /\ QueueType'
<1> SUFFICES ASSUME RunInv, QueueType, Advance \/ Beat
             PROVE  RunInv' /\ QueueType'
  OBVIOUS
<1>a. /\ run.img.sbl \in Nat /\ run.img.program \in Nat /\ run.done \in Nat
      /\ run \in [pc : RunPC, op : Commands, img : Images \cup {NoImage},
                  done : Nat, ponr : BOOLEAN, gone : BOOLEAN]
  BY ImageSizes DEF RunInv, RunType
<1>b. IdleRun \in [pc : RunPC, op : Commands, img : Images \cup {NoImage},
                   done : Nat, ponr : BOOLEAN, gone : BOOLEAN]
  BY DEF IdleRun, RunPC, Commands
<1>1. CASE TakeCommand
  <2>0. QueueType'
    <3>1. txq' = txq \/ txq' = 0
      BY <1>1 DEF TakeCommand
    <3> QED
      BY <3>1, LinkAssumption DEF QueueType
  <2>1. RunType'
    <3>1. CASE run' = [IdleRun EXCEPT !.pc = "reply"]
      BY <1>b, <3>1 DEF RunType, RunPC
    <3>2. ASSUME NEW op \in Commands, NEW img \in Images,
                 run' = [IdleRun EXCEPT !.pc = "sync", !.op = op, !.img = img]
          PROVE  RunType'
      BY <1>b, <3>2 DEF RunType, RunPC
    <3> QED
      BY <1>1, <3>1, <3>2 DEF TakeCommand
  <2>2. ~run'.gone /\ run'.done = 0 /\ run'.pc # "block"
    BY <1>1 DEF TakeCommand, IdleRun
  <2> QED
    BY <2>0, <2>1, <2>2 DEF RunInv, GoneIsOver, ErasingNotAbandoned, MayBeErasing
<1>2. CASE Reply \/ LastLine
  <2>1. /\ RunType' /\ QueueType' /\ ~run.gone
        /\ run' = [run EXCEPT !.pc = run'.pc]
        /\ run'.pc \in {"idle", "cleanup"} /\ run.pc # "idle"
    BY <1>a, <1>2, LinkAssumption
       DEF Reply, LastLine, TryEmit, Room, Full, RunGo, RunType, QueueType,
           RunPC, RunInv, GoneIsOver
  <2> QED
    BY <1>a, <2>1
       DEF RunInv, GoneIsOver, ErasingNotAbandoned, MayBeErasing, Live
<1>3. CASE Refused \/ Accepted \/ Failed
  <2>1. /\ RunType' /\ QueueType' /\ ~run.gone
        /\ run' = [run EXCEPT !.pc = run'.pc]
        /\ run'.pc \notin {"idle", "block"} /\ run.pc # "idle"
    BY <1>a, <1>3
       DEF Refused, Accepted, Failed, RunGo, RunType, QueueType, RunPC, RunInv,
           GoneIsOver
  <2> QED
    BY <1>a, <2>1
       DEF RunInv, GoneIsOver, ErasingNotAbandoned, MayBeErasing, Live
<1>4. CASE Sync \/ Edge \/ Line
  BY <1>4, EmitKeeps DEF Sync, Edge, Line, RunPC, RunInv, GoneIsOver
<1>5. CASE NextBlock
  <2>1. /\ RunType' /\ QueueType' /\ ~run.gone
        /\ run' = [run EXCEPT !.pc = run'.pc]
        /\ run'.pc # "idle" /\ run.pc # "idle"
    BY <1>a, <1>5
       DEF NextBlock, RunGo, RunType, QueueType, RunPC, RunInv, GoneIsOver
  <2>2. run'.pc = "block" /\ Live => ~EraseEdge
    BY <1>a, <1>5 DEF NextBlock, RunGo
  \* A block that is no edge and not before one comes after one.
  <2>3. MayBeErasing' => MayBeErasing
    BY <1>a, <2>1, <2>2 DEF MayBeErasing, Live, EraseEdge
  <2> QED
    BY <1>a, <2>1, <2>3 DEF RunInv, GoneIsOver, ErasingNotAbandoned
<1>6. CASE SetPonr
  BY <1>a, <1>6
     DEF SetPonr, RunInv, RunType, QueueType, RunPC, GoneIsOver,
         ErasingNotAbandoned
<1>7. CASE BlockDone
  <2>0. RunType'
    <3>1. run.done + 1 \in Nat /\ "line" \in RunPC
      BY <1>a DEF RunPC
    <3>2. run' = [run EXCEPT !.pc = "line", !.done = run.done + 1]
      BY <1>7 DEF BlockDone
    <3> QED
      BY <1>a, <3>1, <3>2 DEF RunType
  <2>1. /\ QueueType' /\ ~run.gone
        /\ run' = [run EXCEPT !.pc = "line", !.done = run.done + 1]
        /\ run.pc = "block"
    BY <1>a, <1>7 DEF BlockDone, QueueType, RunInv, GoneIsOver
  <2>2. MayBeErasing' => MayBeErasing
    BY <1>a, <2>1 DEF MayBeErasing, Live
  <2> QED
    BY <1>a, <2>0, <2>1, <2>2 DEF RunInv, GoneIsOver, ErasingNotAbandoned
<1>8. CASE Cleanup
  <2>1. RunType' /\ QueueType'
    BY <1>8, <1>b, LinkAssumption DEF Cleanup, RunType, QueueType
  <2>2. ~run'.gone /\ run'.pc = "idle"
    BY <1>8 DEF Cleanup, IdleRun
  <2> QED
    BY <2>1, <2>2 DEF RunInv, GoneIsOver, ErasingNotAbandoned, MayBeErasing
<1>9. CASE Beat
  BY <1>9, LinkAssumption
     DEF Beat, Room, RunInv, RunType, QueueType, GoneIsOver,
         ErasingNotAbandoned, MayBeErasing, Live
<1> QED
  BY <1>1, <1>2, <1>3, <1>4, <1>5, <1>6, <1>7, <1>8, <1>9 DEF Advance

LEMMA CommandKeepsPort == PortInv /\ (Advance \/ Beat) => PortInv'
<1> SUFFICES ASSUME PortInv, Advance \/ Beat PROVE PortInv'
  OBVIOUS
<1>1. CASE TakeCommand
  <2>1. UNCHANGED <<portVars, rx, tx>> /\ rxq > 0 /\ rxq' = rxq - 1
    BY <1>1 DEF TakeCommand
  <2> QED
    BY <2>1, LinkAssumption
       DEF PortInv, PortType, MutexHeld, OpenOnlyServing, portVars
<1>2. CASE Beat \/ (Advance /\ ~TakeCommand)
  <2>1. UNCHANGED <<portVars, rx, tx, rxq>>
    BY <1>2 DEF Advance, Reply, Refused, Sync, NextBlock, Edge, SetPonr,
       BlockDone, Line, Accepted, Failed, LastLine, Cleanup, Beat
  <2> QED
    BY <2>1 DEF PortInv, PortType, MutexHeld, OpenOnlyServing, portVars
<1> QED
  BY <1>1, <1>2

-----------------------------------------------------------------------------
(* The inductive invariant.                                                 *)

IInv == PortInv /\ QueueType /\ RunInv

LEMMA IInvInit == Init => IInv
<1> SUFFICES ASSUME Init PROVE IInv
  OBVIOUS
<1>1. PortInv
  <2>1. rx \in [pc : RxPC, gen : Nat, sock : Nat, got : {"data", "end"}]
    BY DEF Init, RxPC
  <2>2. rxq \in 0..RxLen
    BY LinkAssumption DEF Init
  <2>3. MutexHeld /\ OpenOnlyServing
    BY DEF Init, MutexHeld, OpenOnlyServing
  <2> QED
    BY <2>1, <2>2, <2>3 DEF Init, PortInv, PortType, SrvPC, TxPC
<1>2. QueueType
  BY LinkAssumption DEF Init, QueueType
<1>3. RunInv
  BY DEF Init, IdleRun, RunInv, RunType, RunPC, Commands, GoneIsOver,
     ErasingNotAbandoned, MayBeErasing
<1> QED
  BY <1>1, <1>2, <1>3 DEF IInv

LEMMA RunKept == RunInv /\ UNCHANGED run => RunInv'
  BY DEF RunInv, RunType, GoneIsOver, ErasingNotAbandoned, MayBeErasing, Live

LEMMA IInvStep == IInv /\ [Next]_vars => IInv'
<1> SUFFICES ASSUME IInv, [Next]_vars PROVE IInv'
  OBVIOUS
<1>1. CASE Host \/ SrvAccept \/ Server \/ Receive
  BY <1>1, HostKeepsPort, ServerKeepsPort, ReceiveKeepsPort, PortSteps, RunKept
     DEF IInv, QueueType
<1>2. CASE Transmit
  BY <1>2, TransmitKeepsPort, RunKept DEF IInv
<1>3. CASE Advance \/ Beat
  BY <1>3, CommandKeepsPort, CommandSteps DEF IInv
<1>4. CASE UNCHANGED vars
  BY <1>4, RunKept
     DEF IInv, PortInv, PortType, QueueType, MutexHeld, OpenOnlyServing, vars,
         portVars
<1> QED
  BY <1>1, <1>2, <1>3, <1>4 DEF Next

LEMMA Invariance == Spec => []IInv
  BY IInvInit, IInvStep, PTL DEF Spec

\* Types, the holder of the mutex, when the port may be open and when a host may
\* have been given up: slcan_port.c's and the codecs' bookkeeping.
THEOREM LinkInvariant == Spec => []LinkInv
<1>1. IInv => LinkInv
  BY TypeParts DEF IInv, PortInv, RunInv, LinkInv
<1> QED
  BY <1>1, Invariance, PTL

\* A live write never gives up for its host an ECU that may be erasing, however
\* many blocks its image's regions have, none included (tx_send, fast_write).
THEOREM ErasingEcuKept == Spec => []ErasingNotAbandoned
<1>1. IInv => ErasingNotAbandoned
  BY DEF IInv, RunInv
<1> QED
  BY <1>1, Invariance, PTL

-----------------------------------------------------------------------------
\* slcan_port_conn_gen shows the reaper one owner at a time, each with a number
\* of its own, and never again one that has gone (slcan_port_server_task).
THEOREM OwnerPromiseKept == Spec => OwnerPromise
<1>1. Init => Owner!Init
  BY DEF Init, Owner!Init, ConnGen
<1>2. IInv /\ [Next]_vars
        => [Owner!Arrive \/ Owner!Leave]_<<ConnGen,
              IF srv \in {"reset", "open"} THEN gen - 1 ELSE gen>>
  <2> SUFFICES ASSUME IInv, [Next]_vars
               PROVE  [Owner!Arrive \/ Owner!Leave]_<<ConnGen,
                        IF srv \in {"reset", "open"} THEN gen - 1 ELSE gen>>
    OBVIOUS
  <2>0. /\ gen \in Nat /\ opened \in BOOLEAN /\ (opened => srv = "serve")
    BY DEF IInv, PortInv, PortType, OpenOnlyServing
  <2> USE <2>0 DEF ConnGen
  <2>1. CASE SrvAccept \/ SrvCount \/ SrvReset \/ SrvClose
    BY <2>1 DEF SrvAccept, SrvCount, SrvReset, SrvClose
  <2>2. CASE SrvOpen
    BY <2>2 DEF SrvOpen, Owner!Arrive
  <2>3. CASE SrvServe \/ RxClear \/ TxClear
    BY <2>3 DEF SrvServe, RxClear, TxClear, Owner!Leave
  <2>4. CASE UNCHANGED <<gen, opened, srv>>
    BY <2>4
  <2>5. Host \/ (Receive /\ ~RxClear) \/ (Transmit /\ ~TxClear) \/ Advance
          \/ Beat \/ UNCHANGED vars
          => UNCHANGED <<gen, opened, srv>>
    BY DEF Host, HostStalls, HostReads, HostLeaves, HostSends, Receive, RxOpen,
       RxSnap, RxRecv, RxEnd, RxLock, RxCheck, RxPush, RxShut, Transmit, TxOpen,
       TxPeek, TxLock, TxSend, TxShut, Advance, TakeCommand, Reply, Refused,
       Sync, NextBlock, Edge, SetPonr, BlockDone, Line, Accepted, Failed,
       LastLine, Cleanup, Beat, portVars, vars
  <2> QED
    BY <2>1, <2>2, <2>3, <2>4, <2>5 DEF Next, Server
<1> QED
  BY <1>1, <1>2, Invariance, PTL DEF Spec, OwnerPromise, Owner!Spec

(* The safety of the link altogether: the port's types, mutex, open bit    *)
(* and verdict, and no ECU that may be erasing abandoned (slcan_port.c,    *)
(* ncflash_fastwrite.c).                                                   *)
THEOREM LinkSafety == Spec => []LinkSafe
  BY LinkInvariant, ErasingEcuKept, PTL DEF LinkSafe


-----------------------------------------------------------------------------
(* The read codec behind the port.                                           *)
CONSTANTS Blocks, PerBlock, SeqMod, Retries, MaxPending, MaxLost, MaxLate

VARIABLES pc, block, attempt, pending, got, read_rx, asks, flowing, out, result,
          raised, polite, capped, lost, late

Read == INSTANCE FastRead WITH rx <- read_rx, Frames <- PerBlock

\* A block is more than one frame, and is asked for more than once.
ReadConstants ==
    /\ Blocks \in Nat \ {0} /\ PerBlock \in Nat \ {0} /\ Retries \in Nat \ {0, 1}
    /\ MaxPending \in Nat

\* What a frame, an answer under way and a reassembled block are.
Kinds == {"first", "next", "pending", "refused"}
Msg == [kind : Kinds, block : 0 .. Blocks, place : 0 .. PerBlock]
Answer == [block : 0 .. Blocks, next : 0 .. PerBlock, go : BOOLEAN]
Cell == (0 .. Blocks) \X (0 .. PerBlock)

ReadType ==
    /\ pc \in {"start", "request", "first", "rest", "stream", "ended"}
    /\ block \in Nat /\ block >= 1 /\ block <= Blocks + 1
    /\ attempt \in Nat /\ attempt <= Retries
    /\ pending \in Nat /\ pending <= MaxPending + 1
    /\ got \in Seq(Cell) /\ Len(got) <= PerBlock + 1
    /\ read_rx \in Seq(Msg) /\ asks \in Seq(1 .. Blocks) /\ flowing \in Answer
    /\ out \in Seq(Seq(Cell)) /\ Len(out) = block - 1
    /\ result \in {"none", "ok", "gaveup", "gone"} /\ raised \in BOOLEAN
    /\ polite \in BOOLEAN /\ capped \in BOOLEAN /\ lost \in Nat /\ late \in Nat
    /\ pc # "ended" => block <= Blocks /\ result = "none"
    /\ pc \in {"first", "rest"} => attempt >= 1
    /\ pc = "rest" => Len(got) >= 1 /\ Len(got) <= PerBlock

\* What holds while no answer is late, no attempt ends at the cap, and the ECU
\* drops its old answer for a new request.
Clean == late = 0 /\ ~capped /\ polite

Place(i) == got[i][2]
Last == Place(Len(got))
InOrder == \A i \in 1 .. Len(got) : Place(i) = i - 1

\* Waiting: the request is unanswered; its first frame is in the queue; or the
\* attempt has lost what it needs.
Waits ==
    /\ asks = <<block>> /\ flowing = Read!None /\ lost + 1 >= attempt
    /\ \A i \in 1 .. Len(read_rx) : read_rx[i].kind = "pending"
Comes ==
    /\ asks = <<>> /\ flowing = [block |-> block, next |-> 1, go |-> FALSE]
    /\ lost + 1 >= attempt /\ read_rx # <<>>
    /\ read_rx[Len(read_rx)] = Read!Frame("first", block, 0)
    /\ \A i \in 1 .. Len(read_rx) - 1 : read_rx[i].kind = "pending"
Fails ==
    /\ asks = <<>> /\ lost >= attempt
    /\ \A i \in 1 .. Len(read_rx) : read_rx[i].kind # "first"

\* Under way: the frames to come are of this block and go forward only.
Queued ==
    \A i \in 1 .. Len(read_rx) :
        /\ read_rx[i].kind = "next" /\ read_rx[i].block = block /\ read_rx[i].place > Last
        /\ \A j \in 1 .. Len(read_rx) : i < j => read_rx[i].place < read_rx[j].place
Coming ==
    flowing # Read!None =>
        /\ flowing.go /\ flowing.block = block /\ flowing.next > Last
        /\ \A i \in 1 .. Len(read_rx) : read_rx[i].place < flowing.next
Taken ==
    /\ \A i \in 1 .. Len(got) : got[i][1] = block
    /\ InOrder \/ Last >= Len(got)

\* Nothing of this attempt is lost so far.
Whole ==
    /\ InOrder /\ lost + 1 >= attempt
    /\ \A i \in 1 .. Len(read_rx) : read_rx[i].place = Len(got) + i - 1
    /\ flowing = Read!None => Len(got) + Len(read_rx) = PerBlock + 1
    /\ flowing # Read!None => flowing.next = Len(got) + Len(read_rx)

AtRequest ==
    /\ asks = <<>> /\ lost >= attempt
    /\ attempt = 0 => read_rx = <<>> /\ flowing = Read!None
AtRest == asks = <<>> /\ Queued /\ Coming /\ Taken /\ (lost >= attempt \/ Whole)
AtStream ==
    /\ asks = <<>> /\ read_rx = <<>> /\ flowing = Read!None
    /\ got = Read!Content(block)

ReadClean ==
    /\ Read!IsMemory
    /\ pc = "start" => asks = <<>> /\ flowing = Read!None /\ attempt = 0
    /\ pc = "request" => AtRequest
    /\ pc = "first" => Waits \/ Comes \/ Fails
    /\ pc = "rest" => AtRest
    /\ pc = "stream" => AtStream
    /\ result = "gaveup" => lost >= Retries

ReadInv == ReadType /\ (Clean => ReadClean)

LEMMA QueueTakes ==
    ASSUME NEW S, NEW s \in Seq(S), s # <<>>
    PROVE  /\ Head(s) \in S /\ Head(s) = s[1] /\ Tail(s) \in Seq(S)
           /\ Len(s) \in Nat \ {0} /\ Len(Tail(s)) = Len(s) - 1
           /\ \A i \in 1 .. Len(s) - 1 : Tail(s)[i] = s[i + 1]
  OBVIOUS

LEMMA QueueGets ==
    ASSUME NEW S, NEW s \in Seq(S), NEW m \in S
    PROVE  /\ Append(s, m) \in Seq(S) /\ Append(s, m) # <<>> /\ Len(s) \in Nat
           /\ Len(Append(s, m)) = Len(s) + 1 /\ Append(s, m)[Len(s) + 1] = m
           /\ \A i \in 1 .. Len(s) : Append(s, m)[i] = s[i]
  OBVIOUS

LEMMA FrameIs ==
    ASSUME NEW k \in Kinds, NEW b \in 0 .. Blocks, NEW i \in 0 .. PerBlock
    PROVE  /\ Read!Frame(k, b, i) \in Msg /\ Read!Frame(k, b, i).kind = k
           /\ Read!Frame(k, b, i).block = b /\ Read!Frame(k, b, i).place = i
  BY DEF Read!Frame, Msg

LEMMA NoneIs ==
    ASSUME ReadConstants
    PROVE  /\ Read!None \in Answer /\ Read!None.block = 0 /\ Read!None.next = 0
           /\ Read!None.go = FALSE
  BY DEF Read!None, Answer, ReadConstants

\* The ECU's steps, and what they leave alone.
LEMMA EcuMoves ==
    ASSUME ReadConstants, ReadType, Read!Ecu
    PROVE  /\ UNCHANGED <<pc, block, attempt, pending, got, out, result, raised, polite,
                          capped, late>>
           /\ lost' \in Nat /\ lost' >= lost
           /\ read_rx' \in Seq(Msg) /\ asks' \in Seq(1 .. Blocks) /\ flowing' \in Answer
<1> USE DEF ReadType
<1>1. UNCHANGED <<pc, block, attempt, pending, got, out, result, raised, polite, capped, late>>
  BY DEF Read!Ecu, Read!EcuAnswers, Read!EcuFlows, Read!EcuDrops, Read!reader
<1>2. lost' \in Nat /\ lost' >= lost
  <2>1. lost' = lost \/ lost' = lost + 1
    BY DEF Read!Ecu, Read!EcuAnswers, Read!EcuFlows, Read!EcuDrops, Read!Delivers, Read!Loses
  <2> QED
    BY <2>1
<1>3. CASE Read!EcuAnswers
  <2>1. Head(asks) \in 1 .. Blocks /\ Tail(asks) \in Seq(1 .. Blocks)
    BY <1>3, QueueTakes DEF Read!EcuAnswers
  <2>2. 0 \in 0 .. Blocks /\ 0 \in 0 .. PerBlock /\ Head(asks) \in 0 .. Blocks
        /\ 1 \in 0 .. PerBlock
    BY <2>1 DEF ReadConstants
  <2>3. /\ Read!Frame("first", Head(asks), 0) \in Msg
        /\ Read!Frame("pending", 0, 0) \in Msg /\ Read!Frame("refused", 0, 0) \in Msg
    BY <2>2, FrameIs DEF Kinds
  <2>4. [block |-> Head(asks), next |-> 1, go |-> FALSE] \in Answer
    BY <2>2 DEF Answer
  <2>5. /\ asks' \in {asks, Tail(asks)}
        /\ flowing' \in {flowing, [block |-> Head(asks), next |-> 1, go |-> FALSE]}
        /\ read_rx' \in {read_rx, Append(read_rx, Read!Frame("first", Head(asks), 0)),
                         Append(read_rx, Read!Frame("pending", 0, 0)),
                         Append(read_rx, Read!Frame("refused", 0, 0))}
    BY <1>3 DEF Read!EcuAnswers, Read!Delivers
  <2>6. read_rx' \in Seq(Msg)
    <3>1. read_rx \in Seq(Msg) /\ \A m \in Msg : Append(read_rx, m) \in Seq(Msg)
      BY QueueGets
    <3> QED
      BY <2>3, <2>5, <3>1
  <2>7. asks' \in Seq(1 .. Blocks) /\ flowing' \in Answer
    BY <2>1, <2>4, <2>5
  <2> QED
    BY <1>1, <1>2, <2>6, <2>7
<1>4. CASE Read!EcuFlows
  <2>1. flowing.block \in 0 .. Blocks /\ flowing.next \in 0 .. PerBlock /\ flowing.go
    BY <1>4 DEF Read!EcuFlows, Answer
  <2>2. Read!Frame("next", flowing.block, flowing.next) \in Msg
    BY <2>1, FrameIs DEF Kinds
  <2>3. flowing.next # PerBlock => [flowing EXCEPT !.next = @ + 1] \in Answer
    <3>1. PerBlock \in Nat
      BY DEF ReadConstants
    <3>2. flowing.next \in 0 .. PerBlock
      BY <2>1
    <3>3. flowing.next # PerBlock => flowing.next + 1 \in 0 .. PerBlock
      BY <3>1, <3>2
    <3> QED
      BY <2>1, <3>3 DEF Answer
  <2>4. /\ read_rx' \in {read_rx,
                         Append(read_rx, Read!Frame("next", flowing.block, flowing.next))}
        /\ asks' = asks
        /\ flowing' = IF flowing.next = PerBlock THEN Read!None
                      ELSE [flowing EXCEPT !.next = @ + 1]
    BY <1>4 DEF Read!EcuFlows, Read!Delivers
  <2>5. read_rx' \in Seq(Msg)
    <3>1. read_rx \in Seq(Msg) /\ \A m \in Msg : Append(read_rx, m) \in Seq(Msg)
      BY QueueGets
    <3> QED
      BY <2>2, <2>4, <3>1
  <2>6. asks' \in Seq(1 .. Blocks) /\ flowing' \in Answer
    BY <2>3, <2>4, NoneIs
  <2> QED
    BY <1>1, <1>2, <2>5, <2>6
<1>5. CASE Read!EcuDrops
  BY <1>1, <1>2, <1>5, NoneIs DEF Read!EcuDrops
<1> QED
  BY <1>3, <1>4, <1>5 DEF Read!Ecu

LEMMA RetryMoves ==
    ASSUME ReadConstants, ReadType, Read!Retry, pc \in {"first", "rest"}
    PROVE  /\ UNCHANGED <<block, attempt>> /\ pc' \in {"request", "ended"}
           /\ result' \in {"none", "gaveup"} /\ raised' \in BOOLEAN
           /\ pc' # "ended" => result' = "none"
           /\ pc' = "ended" => attempt = Retries
           /\ block <= Blocks
  BY DEF Read!Retry, Read!Ends, ReadType

LEMMA ReadTypeStep ==
    ASSUME ReadConstants, ReadType, [Read!Next]_(Read!vars)  PROVE ReadType'
<1>1. CASE Read!Ecu
  BY <1>1, EcuMoves DEF ReadType
<1>2. CASE Read!Start
  BY <1>2 DEF Read!Start, Read!ecu, ReadType
<1>3. CASE Read!Request
  <2>1. /\ pc = "request" /\ pc' = "first" /\ attempt < Retries /\ attempt' = attempt + 1
        /\ pending' = 0 /\ got' = <<>>
        /\ UNCHANGED <<block, out, result, raised, polite, capped, late>>
        /\ lost' = lost \/ lost' = lost + 1
        /\ flowing' \in {flowing, Read!None}
        /\ asks' \in {asks, Append(asks, block)} /\ read_rx' \in {read_rx, <<>>}
    BY <1>3 DEF Read!Request, Read!Loses, Read!Drained
  <2>2. block <= Blocks /\ block \in Nat /\ block >= 1
    BY <2>1 DEF ReadType
  <2>3. block \in 1 .. Blocks
    BY <2>2 DEF ReadConstants
  <2>4. asks' \in Seq(1 .. Blocks) /\ flowing' \in Answer
    <3>1. asks \in Seq(1 .. Blocks) /\ flowing \in Answer
      BY DEF ReadType
    <3>2. Append(asks, block) \in Seq(1 .. Blocks)
      BY <2>3, <3>1, QueueGets
    <3> QED
      BY <2>1, <3>1, <3>2, NoneIs
  <2>5. attempt' \in Nat /\ attempt' >= 1 /\ attempt' <= Retries /\ lost' \in Nat
        /\ pending' \in Nat /\ pending' <= MaxPending + 1
    BY <2>1 DEF ReadType, ReadConstants
  <2>6. got' \in Seq(Cell) /\ Len(got') <= PerBlock + 1
    BY <2>1 DEF ReadConstants
  <2>7. read_rx' \in Seq(Msg)
    <3>1. <<>> \in Seq(Msg)
      OBVIOUS
    <3> QED
      BY <2>1, <3>1 DEF ReadType
  <2> QED
    BY <2>1, <2>2, <2>4, <2>5, <2>6, <2>7 DEF ReadType
<1>4. CASE Read!First
  <2>1. /\ pc = "first" /\ read_rx # <<>> /\ read_rx' = Tail(read_rx)
        /\ UNCHANGED <<out, asks, polite, lost, late>>
    BY <1>4 DEF Read!First
  <2>2. read_rx' \in Seq(Msg) /\ Head(read_rx) \in Msg
    BY <2>1, QueueTakes DEF ReadType
  <2>3. Head(read_rx).block \in 0 .. Blocks /\ Head(read_rx).place \in 0 .. PerBlock
    BY <2>2 DEF Msg
  <2>4. flowing' \in Answer
    <3>1. flowing' \in {flowing, Read!None, [flowing EXCEPT !.go = TRUE]}
      BY <1>4 DEF Read!First
    <3>2. [flowing EXCEPT !.go = TRUE] \in Answer
      BY DEF Answer, ReadType
    <3> QED
      BY <3>1, <3>2, NoneIs DEF ReadType
  <2>5. /\ got' \in {got, <<<<Head(read_rx).block, Head(read_rx).place>>>>, <<<<0, 0>>>>}
        /\ pc' = "rest" => got' = <<<<Head(read_rx).block, Head(read_rx).place>>>>
    BY <1>4 DEF Read!First, Read!F, Read!Retry, Read!Ends
  <2>6. /\ <<Head(read_rx).block, Head(read_rx).place>> \in Cell /\ <<0, 0>> \in Cell
    BY <2>3 DEF Cell, ReadConstants
  <2>7. got' \in Seq(Cell) /\ Len(got') <= PerBlock + 1
    <3>1. \A c \in Cell : <<c>> \in Seq(Cell) /\ Len(<<c>>) = 1
      OBVIOUS
    <3>2. 1 <= PerBlock + 1
      BY DEF ReadConstants
    <3> QED
      BY <2>5, <2>6, <3>1, <3>2 DEF ReadType
  <2>8. pc' = "rest" => Len(got') >= 1 /\ Len(got') <= PerBlock
    <3>1. \A c : Len(<<c>>) = 1
      OBVIOUS
    <3>2. 1 <= PerBlock
      BY DEF ReadConstants
    <3> DEFINE m == Len(got')
    <3>3. pc' = "rest" => m = 1
      BY <2>5, <3>1
    <3>4. pc' = "rest" => m >= 1 /\ m <= PerBlock
      <4> HIDE DEF m
      <4> QED
        BY <3>2, <3>3 DEF ReadConstants
    <3> QED
      BY <3>4
  <2>9. pending' \in Nat /\ pending' <= MaxPending + 1
    <3>1. pending' = pending \/ (pending <= MaxPending /\ pending' = pending + 1)
      BY <1>4 DEF Read!First
    <3>2. pending \in Nat /\ pending <= MaxPending + 1 /\ MaxPending \in Nat
      BY DEF ReadType, ReadConstants
    <3> QED
      BY <3>1, <3>2
  <2>10. capped' \in BOOLEAN
    BY <1>4 DEF Read!First, Read!TooMany, ReadType
  <2>11. \/ Read!Retry \/ UNCHANGED <<pc, block, attempt, result, raised>>
         \/ pc' \in {"rest", "stream"} /\ UNCHANGED <<block, attempt, result, raised>>
    BY <1>4 DEF Read!First
  <2>12. /\ UNCHANGED <<block, attempt>>
         /\ pc' \in {"request", "ended", "first", "rest", "stream"}
         /\ result' \in {"none", "gaveup"} /\ raised' \in BOOLEAN
         /\ pc' # "ended" => result' = "none"
    <3>1. result = "none" /\ raised \in BOOLEAN
      BY <2>1 DEF ReadType
    <3> QED
      BY <2>1, <2>11, <3>1, RetryMoves
  <2> QED
    BY <2>1, <2>2, <2>4, <2>7, <2>8, <2>9, <2>10, <2>12 DEF ReadType
<1>5. CASE Read!Rest
  <2>1. /\ pc = "rest" /\ read_rx # <<>> /\ read_rx' = Tail(read_rx)
        /\ UNCHANGED <<pending, out, capped, asks, flowing, polite, lost, late>>
    BY <1>5 DEF Read!Rest, Read!ecu
  <2>2. read_rx' \in Seq(Msg) /\ Head(read_rx) \in Msg
    BY <2>1, QueueTakes DEF ReadType
  <2>3. <<Head(read_rx).block, Head(read_rx).place>> \in Cell
    BY <2>2 DEF Msg, Cell
  <2>4. Len(got) \in Nat /\ Len(got) >= 1 /\ Len(got) <= PerBlock /\ PerBlock \in Nat
        /\ got \in Seq(Cell)
    BY <2>1 DEF ReadType, ReadConstants
  <2>5. CASE /\ got' = Append(got, <<Head(read_rx).block, Head(read_rx).place>>)
             /\ pc' = IF Len(got) = PerBlock THEN "stream" ELSE "rest"
             /\ UNCHANGED <<block, attempt, result, raised>>
    <3>1. got' \in Seq(Cell) /\ Len(got') = Len(got) + 1
      BY <2>3, <2>4, <2>5, QueueGets
    <3>2. Len(got') <= PerBlock + 1 /\ Len(got') >= 1
          /\ (Len(got) # PerBlock => Len(got') <= PerBlock)
      BY <2>4, <3>1
    <3>3. pc' \in {"stream", "rest"} /\ (pc' = "rest" => Len(got) # PerBlock)
      BY <2>5
    <3> QED
      BY <2>1, <2>2, <2>5, <3>1, <3>2, <3>3 DEF ReadType
  <2>6. CASE Read!Retry /\ UNCHANGED got
    BY <2>1, <2>2, <2>6, RetryMoves DEF ReadType
  <2> QED
    BY <1>5, <2>5, <2>6 DEF Read!Rest, Read!F
<1>6. CASE Read!WaitEnds
  <2>1. /\ pc \in {"first", "rest"} /\ Read!Retry
        /\ UNCHANGED <<pending, got, out, capped, read_rx, asks, flowing, polite, lost>>
        /\ late' = late \/ late' = late + 1
    BY <1>6 DEF Read!WaitEnds, Read!TimesOut, Read!ecu
  <2>2. late' \in Nat
    BY <2>1 DEF ReadType
  <2> QED
    BY <2>1, <2>2, RetryMoves DEF ReadType
<1>7. CASE Read!Stream
  <2>1. /\ pc = "stream" /\ UNCHANGED <<pending, got, capped, read_rx, asks, flowing, polite, late>>
    BY <1>7 DEF Read!Stream, Read!ecu
  <2>2. CASE /\ out' = Append(out, got) /\ attempt' = 0 /\ block' = block + 1
             /\ IF block = Blocks
                THEN pc' = "ended" /\ result' = "ok" /\ raised' = FALSE
                ELSE pc' = "request" /\ UNCHANGED <<result, raised>>
             /\ UNCHANGED lost
    <3>1. block \in Nat /\ block >= 1 /\ block <= Blocks /\ result = "none" /\ Blocks \in Nat
      BY <2>1 DEF ReadType, ReadConstants
    <3>2. out' \in Seq(Seq(Cell)) /\ Len(out') = Len(out) + 1 /\ Len(out) = block - 1
      BY <2>2, QueueGets DEF ReadType
    <3>3. Len(out') = block' - 1 /\ block' \in Nat /\ block' >= 1 /\ block' <= Blocks + 1
          /\ (block # Blocks => block' <= Blocks)
      BY <2>2, <3>1, <3>2
    <3>4. attempt' \in Nat /\ attempt' <= Retries
      BY <2>2 DEF ReadConstants
    <3>5. /\ pc' \in {"ended", "request"} /\ result' \in {"none", "ok"}
          /\ (pc' # "ended" => block # Blocks /\ result' = "none") /\ raised' \in BOOLEAN
      BY <2>2, <3>1 DEF ReadType
    <3> QED
      BY <2>1, <2>2, <3>2, <3>3, <3>4, <3>5 DEF ReadType
  <2>3. CASE Read!Loses /\ Read!Ends("gone") /\ UNCHANGED out
    <3>1. lost' \in Nat
      BY <2>3 DEF Read!Loses, ReadType
    <3> QED
      BY <2>1, <2>3, <3>1 DEF Read!Ends, ReadType
  <2> QED
    BY <1>7, <2>2, <2>3 DEF Read!Stream
<1>8. CASE UNCHANGED Read!vars
  BY <1>8 DEF Read!vars, Read!reader, Read!ecu, ReadType
<1> QED
  BY <1>1, <1>2, <1>3, <1>4, <1>5, <1>6, <1>7, <1>8 DEF Read!Next

-----------------------------------------------------------------------------
(* The queue while no answer is late.                                        *)

\* The queue is taken from its front.
LEMMA RxTakes ==
    ASSUME ReadType, read_rx # <<>>, read_rx' = Tail(read_rx)
    PROVE  /\ Head(read_rx) = read_rx[1] /\ read_rx[1] \in Msg
           /\ Len(read_rx) \in Nat \ {0} /\ Len(read_rx') = Len(read_rx) - 1
           /\ \A i \in 1 .. Len(read_rx') :
                 i + 1 \in 1 .. Len(read_rx) /\ read_rx'[i] = read_rx[i + 1]
<1>1. read_rx \in Seq(Msg)
  BY DEF ReadType
<1>2. /\ Head(read_rx) = read_rx[1] /\ read_rx[1] \in Msg
      /\ Len(read_rx) \in Nat \ {0} /\ Len(read_rx') = Len(read_rx) - 1
      /\ \A i \in 1 .. Len(read_rx) - 1 : read_rx'[i] = read_rx[i + 1]
  BY <1>1, QueueTakes
<1> DEFINE n == Len(read_rx)  m == Len(read_rx')
<1>3. \A i \in 1 .. m : i + 1 \in 1 .. n /\ i \in 1 .. n - 1
  <2>1. n \in Nat \ {0} /\ m = n - 1
    BY <1>2
  <2> HIDE DEF n, m
  <2> QED
    BY <2>1
<1> QED
  BY <1>2, <1>3

\* A place in what was got is a number of a frame.
LEMMA PlaceIs ==
    ASSUME ReadConstants, ReadType
    PROVE  /\ Len(got) \in Nat
           /\ \A i \in 1 .. Len(got) : Place(i) \in Nat /\ Place(i) <= PerBlock
<1>1. got \in Seq(Cell) /\ PerBlock \in Nat
  BY DEF ReadType, ReadConstants
<1>2. \A i \in 1 .. Len(got) : got[i] \in Cell
  BY <1>1
<1>3. \A c \in Cell : c[2] \in Nat /\ c[2] <= PerBlock
  BY <1>1 DEF Cell
<1> QED
  BY <1>1, <1>2, <1>3 DEF Place

\* A failed attempt goes back to the request, or gives the read up.
LEMMA RetryIsClean ==
    ASSUME ReadConstants, ReadType, Read!Retry, pc \in {"first", "rest"},
           asks' = <<>>, lost' >= attempt, UNCHANGED out, Read!IsMemory
    PROVE  ReadClean'
<1>1. /\ attempt' = attempt /\ pc' \in {"request", "ended"}
      /\ (result' = "gaveup" => attempt = Retries) /\ attempt >= 1
  BY RetryMoves DEF ReadType, Read!Retry, Read!Ends
<1>2. Read!IsMemory'
  BY DEF Read!IsMemory
<1>3. attempt' # 0 /\ attempt \in Nat
  BY <1>1 DEF ReadType
<1> QED
  BY <1>1, <1>2, <1>3 DEF ReadClean, AtRequest

LEMMA StartIsClean ==
    ASSUME ReadConstants, ReadType, ReadClean, Read!Start  PROVE ReadClean'
<1>1. /\ pc = "start" /\ pc' = "request" /\ read_rx' = <<>>
      /\ UNCHANGED <<attempt, out, result, asks, flowing, lost>>
  BY DEF Read!Start, Read!ecu
<1>2. Read!IsMemory'
  BY <1>1 DEF ReadClean, Read!IsMemory
<1>3. lost >= attempt /\ result = "none"
  BY <1>1 DEF ReadClean, ReadType
<1> QED
  BY <1>1, <1>2, <1>3 DEF ReadClean, AtRequest

LEMMA RequestIsClean ==
    ASSUME ReadConstants, ReadType, Clean, ReadClean, Read!Request  PROVE ReadClean'
<1>1. /\ pc = "request" /\ pc' = "first" /\ attempt' = attempt + 1
      /\ UNCHANGED <<block, out, result>>
      /\ read_rx' = Read!Drained(read_rx, attempt)
      /\ \/ asks' = Append(asks, block) /\ flowing' = Read!None /\ lost' = lost
         \/ asks' = asks /\ lost' = lost + 1
  BY DEF Read!Request, Read!Loses, Clean
<1>2. AtRequest /\ result = "none" /\ attempt \in Nat /\ lost \in Nat
  BY <1>1 DEF ReadClean, ReadType
<1>3. read_rx' = <<>>
  <2>1. attempt > 0 \/ attempt = 0
    BY <1>2
  <2> QED
    BY <1>1, <1>2, <2>1 DEF Read!Drained, AtRequest
<1>4. Read!IsMemory'
  BY <1>1 DEF ReadClean, Read!IsMemory
<1>5. Len(read_rx') = 0 /\ \A i \in 1 .. Len(read_rx') : FALSE
  BY <1>3
<1>6. CASE asks' = Append(asks, block) /\ flowing' = Read!None /\ lost' = lost
  <2>1. asks' = <<block'>>
    BY <1>1, <1>2, <1>6 DEF AtRequest
  <2>2. lost' + 1 >= attempt'
    BY <1>1, <1>2, <1>6 DEF AtRequest
  <2>3. Waits'
    BY <1>5, <1>6, <2>1, <2>2 DEF Waits
  <2> QED
    BY <1>1, <1>2, <1>4, <2>3 DEF ReadClean
<1>7. CASE asks' = asks /\ lost' = lost + 1
  <2>1. asks' = <<>> /\ lost' >= attempt'
    BY <1>1, <1>2, <1>7 DEF AtRequest
  <2>2. Fails'
    BY <1>5, <2>1 DEF Fails
  <2> QED
    BY <1>1, <1>2, <1>4, <2>2 DEF ReadClean
<1> QED
  BY <1>1, <1>6, <1>7

LEMMA FirstIsClean ==
    ASSUME ReadConstants, ReadType, Clean, ReadClean, Read!First, Clean'  PROVE ReadClean'
<1> DEFINE f == Head(read_rx)
<1>1. /\ pc = "first" /\ read_rx # <<>> /\ read_rx' = Tail(read_rx)
      /\ UNCHANGED <<out, asks, lost>>
  BY DEF Read!First
<1>2. /\ f = read_rx[1] /\ f \in Msg
      /\ Len(read_rx) \in Nat \ {0} /\ Len(read_rx') = Len(read_rx) - 1
      /\ \A i \in 1 .. Len(read_rx') :
            i + 1 \in 1 .. Len(read_rx) /\ read_rx'[i] = read_rx[i + 1]
      /\ 1 \in 1 .. Len(read_rx)
  BY <1>1, RxTakes
<1>3. Read!IsMemory /\ Read!IsMemory' /\ result = "none"
  BY <1>1 DEF ReadClean, Read!IsMemory, ReadType
<1>4. f.kind = "pending" =>
        UNCHANGED <<pc, block, attempt, result, flowing>>
  BY DEF Read!First, Read!F, Clean
<1>5. f.kind = "first" =>
        /\ got' = <<<<f.block, f.place>>>> /\ pc' = "rest" /\ UNCHANGED <<block, attempt, result>>
        /\ flowing' = IF flowing = Read!None THEN Read!None ELSE [flowing EXCEPT !.go = TRUE]
  BY DEF Read!First, Read!F
<1>6. f.kind = "refused" => Read!Retry
  <2>1. \A c : Len(<<c>>) = 1 /\ 1 # PerBlock + 1
    BY DEF ReadConstants
  <2> QED
    BY <2>1 DEF Read!First, Read!F, Read!IsTheBlock
<1>7. f.kind = "next" => Read!Retry
  BY DEF Read!First, Read!F
<1>8. f.kind \in Kinds
  BY <1>2 DEF Msg
<1>9. CASE Waits
  <2>1. f.kind = "pending"
    BY <1>2, <1>9 DEF Waits
  <2>2. Waits'
    BY <1>1, <1>2, <1>4, <1>9, <2>1 DEF Waits
  <2> QED
    BY <1>1, <1>3, <1>4, <2>1, <2>2 DEF ReadClean
<1>10. CASE Comes
  <2>1. CASE Len(read_rx) = 1
    <3>1. f = Read!Frame("first", block, 0)
      BY <1>2, <1>10, <2>1 DEF Comes
    <3>2. f.kind = "first" /\ f.block = block /\ f.place = 0
      BY <3>1 DEF Read!Frame
    <3>3. /\ got' = <<<<block, 0>>>> /\ pc' = "rest" /\ UNCHANGED <<block, attempt, result>>
          /\ flowing' = IF flowing = Read!None THEN Read!None ELSE [flowing EXCEPT !.go = TRUE]
      BY <1>5, <3>2
    <3>4. flowing # Read!None
      <4>1. flowing.block = block /\ block # 0
        BY <1>10 DEF Comes, ReadType
      <4> QED
        BY <4>1, NoneIs
    <3>5. flowing' = [block |-> block, next |-> 1, go |-> TRUE]
      BY <1>10, <3>3, <3>4 DEF Comes
    <3>6. flowing'.go /\ flowing'.block = block /\ flowing'.next = 1 /\ flowing' # Read!None
      BY <3>5, NoneIs
    <3>7. /\ Len(got') = 1 /\ got'[1] = <<block, 0>> /\ got'[1][1] = block /\ got'[1][2] = 0
      BY <3>3
    <3>8. Place(1)' = 0 /\ Last' = 0
      BY <3>7 DEF Place, Last
    <3>9. Len(read_rx') = 0 /\ \A i \in 1 .. Len(read_rx') : FALSE
      BY <1>2, <2>1
    <3>10. Queued'
      BY <3>9 DEF Queued
    <3>11. Coming'
      BY <3>3, <3>6, <3>8, <3>9 DEF Coming
    <3>12. InOrder'
      <4>1. \A i \in 1 .. Len(got') : i = 1
        BY <3>7
      <4>2. 1 - 1 = 0
        OBVIOUS
      <4> QED
        BY <3>8, <4>1, <4>2 DEF InOrder
    <3>13. Taken'
      <4>1. \A i \in 1 .. Len(got') : i = 1
        BY <3>7
      <4> QED
        BY <3>3, <3>7, <3>12, <4>1 DEF Taken
    <3>14. Whole'
      <4>1. lost' + 1 >= attempt'
        BY <1>1, <1>10, <3>3 DEF Comes
      <4>2. Len(got') + Len(read_rx') = 1
        BY <3>7, <3>9
      <4> QED
        BY <3>6, <3>9, <3>12, <4>1, <4>2 DEF Whole
    <3>15. AtRest'
      BY <1>1, <1>10, <3>10, <3>11, <3>13, <3>14 DEF AtRest, Comes
    <3> QED
      BY <1>3, <3>3, <3>15 DEF ReadClean
  <2>2. CASE Len(read_rx) # 1
    <3>1. 1 \in 1 .. Len(read_rx) - 1
      BY <1>2, <2>2
    <3>2. f.kind = "pending"
      BY <1>2, <1>10, <3>1 DEF Comes
    <3>3. /\ Len(read_rx') \in Nat \ {0} /\ Len(read_rx') + 1 = Len(read_rx)
          /\ Len(read_rx') \in 1 .. Len(read_rx')
          /\ \A i \in 1 .. Len(read_rx') - 1 :
                i \in 1 .. Len(read_rx') /\ i + 1 \in 1 .. Len(read_rx) - 1
      <4> DEFINE n == Len(read_rx)  m == Len(read_rx')
      <4>1. n \in Nat \ {0} /\ n # 1 /\ m = n - 1
        BY <1>2, <2>2
      <4> HIDE DEF n, m
      <4>2. /\ m \in Nat \ {0} /\ m + 1 = n /\ m \in 1 .. m
            /\ \A i \in 1 .. m - 1 : i \in 1 .. m /\ i + 1 \in 1 .. n - 1
        BY <4>1
      <4> QED
        BY <4>2 DEF n, m
    <3>4. read_rx'[Len(read_rx')] = Read!Frame("first", block, 0)
      BY <1>2, <1>10, <3>3 DEF Comes
    <3>5. \A i \in 1 .. Len(read_rx') - 1 : read_rx'[i].kind = "pending"
      BY <1>2, <1>10, <3>3 DEF Comes
    <3>6. read_rx' # <<>>
      BY <3>3
    <3>7. Comes'
      BY <1>1, <1>4, <1>10, <3>2, <3>4, <3>5, <3>6 DEF Comes
    <3> QED
      BY <1>1, <1>3, <1>4, <3>2, <3>7 DEF ReadClean
  <2> QED
    BY <2>1, <2>2
<1>11. CASE Fails
  <2>1. f.kind # "first"
    BY <1>2, <1>11 DEF Fails
  <2>2. CASE f.kind = "pending"
    <3>1. Fails'
      BY <1>1, <1>2, <1>4, <1>11, <2>2 DEF Fails
    <3> QED
      BY <1>1, <1>3, <1>4, <2>2, <3>1 DEF ReadClean
  <2>3. CASE f.kind \in {"refused", "next"}
    <3>1. asks' = <<>> /\ lost' >= attempt
      BY <1>1, <1>11 DEF Fails
    <3> QED
      BY <1>1, <1>3, <1>6, <1>7, <2>3, <3>1, RetryIsClean
  <2> QED
    BY <1>8, <2>1, <2>2, <2>3 DEF Kinds
<1> QED
  BY <1>1, <1>9, <1>10, <1>11 DEF ReadClean

\* A frame taken while the answer is under way.
LEMMA RestTakes ==
    ASSUME ReadConstants, ReadType, Clean, ReadClean, pc = "rest", read_rx # <<>>,
           read_rx' = Tail(read_rx), UNCHANGED <<asks, flowing, lost, block, attempt>>,
           got' = Append(got, <<read_rx[1].block, read_rx[1].place>>)
    PROVE  /\ Len(got') = Len(got) + 1 /\ Last' = read_rx[1].place /\ Last' >= Len(got)
           /\ Last' \in Nat /\ Last' <= PerBlock
           /\ Queued' /\ Coming' /\ Taken'
           /\ Last' = Len(got) => InOrder'
           /\ Whole /\ read_rx[1].place = Len(got) => Whole'
<1> DEFINE p == read_rx[1].place  n == Len(got)  m == Len(read_rx)
<1>1. /\ read_rx[1] \in Msg /\ m \in Nat \ {0} /\ Len(read_rx') = m - 1
      /\ \A i \in 1 .. Len(read_rx') : i + 1 \in 1 .. m /\ read_rx'[i] = read_rx[i + 1]
      /\ 1 \in 1 .. m
  BY RxTakes
<1>2. AtRest /\ Queued /\ Coming /\ Taken /\ asks = <<>>
  BY DEF ReadClean, AtRest
<1>3. p \in Nat /\ p <= PerBlock /\ read_rx[1].block = block /\ p > Last
      /\ read_rx[1].kind = "next" /\ PerBlock \in Nat
  BY <1>1, <1>2 DEF Queued, Msg, ReadConstants
<1>4. n \in Nat /\ n >= 1 /\ n <= PerBlock /\ n \in 1 .. n
      /\ \A i \in 1 .. n : Place(i) \in Nat /\ Place(i) <= PerBlock
  BY PlaceIs DEF ReadType
<1>5. /\ Len(got') = n + 1 /\ got'[n + 1] = <<block, p>>
      /\ \A i \in 1 .. n : got'[i] = got[i]
  <2>1. got \in Seq(Cell)
    BY DEF ReadType
  <2>2. <<read_rx[1].block, p>> \in Cell
    BY <1>1 DEF Msg, Cell
  <2> QED
    BY <1>3, <2>1, <2>2, QueueGets
<1>6. /\ got'[n + 1][2] = p /\ got'[n + 1][1] = block
      /\ \A i \in 1 .. n : got'[i][2] = Place(i)
  BY <1>5 DEF Place
<1>7. Last' = p
  BY <1>5 DEF Last, Place
<1>8. Last \in Nat /\ Last = Place(n)
  BY <1>4 DEF Last
<1>9. InOrder => Last = n - 1
  BY <1>4, <1>8 DEF InOrder
<1>10. p >= n
  BY <1>2, <1>3, <1>4, <1>8, <1>9 DEF Taken
<1>11. \A i \in 1 .. n + 1 : i \in 1 .. n \/ i = n + 1
  BY <1>4
<1>12. p = n => InOrder'
  <2> SUFFICES ASSUME p = n PROVE InOrder'
    OBVIOUS
  <2>1. InOrder
    BY <1>2, <1>3, <1>4, <1>8 DEF Taken
  <2>2. \A i \in 1 .. n : got'[i][2] = i - 1
    BY <1>6, <2>1 DEF InOrder
  <2>3. got'[n + 1][2] = (n + 1) - 1
    BY <1>4, <1>6
  <2>4. \A i \in 1 .. n + 1 : got'[i][2] = i - 1
    BY <1>11, <2>2, <2>3
  <2> QED
    BY <1>5, <2>4 DEF InOrder, Place
<1>13. Taken'
  <2>1. \A i \in 1 .. Len(got') : got'[i][1] = block
    BY <1>2, <1>5, <1>6, <1>11 DEF Taken
  <2>2. p = n \/ p >= n + 1
    BY <1>3, <1>4, <1>10
  <2> QED
    BY <1>5, <1>7, <1>12, <2>1, <2>2 DEF Taken
<1>14. \A i \in 1 .. Len(read_rx') :
          /\ read_rx'[i].kind = "next" /\ read_rx'[i].block = block
          /\ read_rx'[i].place > p
  <2> TAKE i \in 1 .. Len(read_rx')
  <2>1. i + 1 \in 1 .. m /\ read_rx'[i] = read_rx[i + 1] /\ 1 < i + 1
    BY <1>1
  <2>2. p < read_rx[i + 1].place /\ read_rx[i + 1].kind = "next" /\ read_rx[i + 1].block = block
    BY <1>1, <1>2, <2>1 DEF Queued
  <2>3. read_rx[i + 1].place \in Nat
    <3>1. read_rx[i + 1] \in Msg
      BY <2>1 DEF ReadType
    <3> QED
      BY <3>1 DEF Msg
  <2> QED
    BY <1>3, <2>1, <2>2, <2>3
<1>15. Queued'
  <2>1. \A i \in 1 .. Len(read_rx') : \A j \in 1 .. Len(read_rx') :
           i < j => read_rx'[i].place < read_rx'[j].place
    <3> TAKE i \in 1 .. Len(read_rx')
    <3> TAKE j \in 1 .. Len(read_rx')
    <3>1. /\ i + 1 \in 1 .. m /\ read_rx'[i] = read_rx[i + 1]
          /\ j + 1 \in 1 .. m /\ read_rx'[j] = read_rx[j + 1]
          /\ (i < j => i + 1 < j + 1)
      BY <1>1
    <3> QED
      BY <1>2, <3>1 DEF Queued
  <2> QED
    BY <1>7, <1>14, <2>1 DEF Queued
<1>16. Coming'
  <2> SUFFICES ASSUME flowing # Read!None PROVE Coming'
    BY DEF Coming
  <2>1. /\ flowing.go /\ flowing.block = block
        /\ \A i \in 1 .. m : read_rx[i].place < flowing.next
    BY <1>2 DEF Coming
  <2>2. p < flowing.next /\ \A i \in 1 .. Len(read_rx') : read_rx'[i].place < flowing.next
    BY <1>1, <2>1
  <2>3. flowing.next > p
    BY <1>3, <2>2 DEF ReadType, Answer
  <2> QED
    BY <1>7, <2>1, <2>2, <2>3 DEF Coming
<1>17. Whole /\ p = n => Whole'
  <2> SUFFICES ASSUME Whole, p = n PROVE Whole'
    OBVIOUS
  <2> DEFINE k == Len(read_rx')
  <2>1. k = m - 1 /\ k \in Nat
    BY <1>1
  <2>2. \A i \in 1 .. k : read_rx'[i].place = (n + 1) + i - 1
    <3> TAKE i \in 1 .. k
    <3>1. i + 1 \in 1 .. m /\ read_rx'[i] = read_rx[i + 1]
      BY <1>1
    <3>2. read_rx[i + 1].place = n + (i + 1) - 1
      BY <3>1 DEF Whole
    <3> QED
      BY <1>4, <3>1, <3>2
  <2>3. n + m = (n + 1) + k
    BY <1>1, <1>4, <2>1
  <2>4. InOrder' /\ lost' + 1 >= attempt'
    BY <1>12 DEF Whole
  <2>5. /\ flowing = Read!None => (n + 1) + k = PerBlock + 1
        /\ flowing # Read!None => flowing.next = (n + 1) + k
    BY <2>3 DEF Whole
  <2> QED
    BY <1>5, <2>2, <2>4, <2>5 DEF Whole
<1> QED
  BY <1>3, <1>5, <1>7, <1>10, <1>12, <1>13, <1>15, <1>16, <1>17

LEMMA RestIsClean ==
    ASSUME ReadConstants, ReadType, Clean, ReadClean, Read!Rest  PROVE ReadClean'
<1> DEFINE f == read_rx[1]
<1>1. /\ pc = "rest" /\ read_rx # <<>> /\ read_rx' = Tail(read_rx)
      /\ UNCHANGED <<out, asks, flowing, lost>>
  BY DEF Read!Rest, Read!ecu
<1>2. /\ Head(read_rx) = f /\ f \in Msg /\ Len(read_rx) \in Nat \ {0}
      /\ 1 \in 1 .. Len(read_rx)
  BY <1>1, RxTakes
<1>3. Read!IsMemory /\ Read!IsMemory' /\ result = "none" /\ AtRest
  BY <1>1 DEF ReadClean, Read!IsMemory, ReadType
<1>4. f.kind = "next"
  BY <1>2, <1>3 DEF AtRest, Queued
<1>5. Len(got) \in Nat /\ Len(got) <= PerBlock /\ PerBlock \in Nat
  BY <1>1 DEF ReadType, ReadConstants
<1>6. CASE Read!IsNext(f)
  <2>1. /\ got' = Append(got, <<f.block, f.place>>)
        /\ pc' = IF Len(got) = PerBlock THEN "stream" ELSE "rest"
        /\ UNCHANGED <<block, attempt, result>>
    BY <1>2, <1>6 DEF Read!Rest, Read!F
  <2>2. /\ Len(got') = Len(got) + 1 /\ Last' = f.place /\ Last' >= Len(got)
        /\ Last' \in Nat /\ Last' <= PerBlock
        /\ Queued' /\ Coming' /\ Taken'
        /\ Last' = Len(got) => InOrder'
        /\ Whole /\ f.place = Len(got) => Whole'
    BY <1>1, <2>1, RestTakes
  <2>3. CASE Len(got) = PerBlock
    <3>1. Last' = PerBlock /\ InOrder' /\ Len(got') = PerBlock + 1
      BY <1>5, <2>2, <2>3
    <3>2. Len(read_rx') = 0
      <4>1. read_rx' \in Seq(Msg)
        BY <1>1, QueueTakes DEF ReadType
      <4>2. SUFFICES ASSUME Len(read_rx') # 0 PROVE FALSE
        OBVIOUS
      <4>3. 1 \in 1 .. Len(read_rx') /\ read_rx'[1] \in Msg
        BY <4>1, <4>2
      <4>4. read_rx'[1].place > PerBlock /\ read_rx'[1].place \in 0 .. PerBlock
        BY <2>2, <3>1, <4>3 DEF Queued, Msg
      <4> QED
        BY <1>5, <4>4
    <3>3. read_rx' = <<>>
      BY <1>1, <3>2, QueueTakes DEF ReadType
    <3>4. flowing = Read!None
      <4>1. flowing # Read!None => flowing.next > PerBlock
        BY <1>1, <2>2, <3>1 DEF Coming
      <4>2. flowing.next \in 0 .. PerBlock
        BY DEF ReadType, Answer
      <4> QED
        BY <1>5, <4>1, <4>2
    <3>5. got' = Read!Content(block)
      <4>1. got' \in Seq(Cell)
        <5>1. got \in Seq(Cell) /\ <<f.block, f.place>> \in Cell
          BY <1>2 DEF ReadType, Msg, Cell
        <5> QED
          BY <2>1, <5>1, QueueGets
      <4>2. \A i \in 1 .. PerBlock + 1 : got'[i] \in Cell /\ got'[i][1] = block /\ got'[i][2] = i - 1
        BY <2>1, <2>2, <3>1, <4>1 DEF Taken, InOrder, Place
      <4>3. \A c \in Cell : c = <<c[1], c[2]>>
        BY DEF Cell
      <4>4. \A i \in 1 .. PerBlock + 1 : got'[i] = <<block, i - 1>>
        BY <4>2, <4>3
      <4>5. got' = [i \in 1 .. PerBlock + 1 |-> got'[i]]
        BY <3>1, <4>1
      <4> QED
        BY <4>4, <4>5 DEF Read!Content
    <3>6. AtStream'
      BY <1>1, <1>3, <2>1, <3>3, <3>4, <3>5 DEF AtStream, AtRest, Read!Content
    <3> QED
      BY <1>3, <2>1, <2>3, <3>6 DEF ReadClean
  <2>4. CASE Len(got) # PerBlock
    <3>1. Whole => Whole'
      <4>1. SUFFICES ASSUME Whole PROVE f.place = Len(got)
        BY <2>2
      <4>2. f.place = Len(got) + 1 - 1
        BY <1>2, <4>1 DEF Whole
      <4> QED
        BY <1>5, <4>2
    <3>2. AtRest'
      BY <1>1, <1>3, <2>1, <2>2, <3>1 DEF AtRest
    <3> QED
      BY <1>3, <2>1, <2>4, <3>2 DEF ReadClean
  <2> QED
    BY <2>3, <2>4
<1>7. CASE ~Read!IsNext(f)
  <2>1. Read!Retry
    BY <1>2, <1>7 DEF Read!Rest, Read!F
  <2>2. f.place # Len(got)
    BY <1>4, <1>7 DEF Read!IsNext
  <2>3. ~Whole
    <3>1. SUFFICES ASSUME Whole PROVE f.place = Len(got)
      BY <2>2
    <3>2. f.place = Len(got) + 1 - 1
      BY <1>2, <3>1 DEF Whole
    <3> QED
      BY <1>5, <3>2
  <2>4. asks' = <<>> /\ lost' >= attempt
    BY <1>1, <1>3, <2>3 DEF AtRest
  <2> QED
    BY <1>1, <1>3, <2>1, <2>4, RetryIsClean
<1> QED
  BY <1>6, <1>7

LEMMA WaitEndsIsClean ==
    ASSUME ReadConstants, ReadType, Clean, ReadClean, Read!WaitEnds, Clean'  PROVE ReadClean'
<1>1. /\ pc \in {"first", "rest"} /\ Read!Retry /\ read_rx = <<>>
      /\ UNCHANGED <<out, asks, lost>>
  BY DEF Read!WaitEnds, Read!TimesOut, Read!ecu
<1>2. asks = <<>> /\ ~flowing.go
  <2>1. late' # late + 1
    BY DEF Clean
  <2> QED
    BY <2>1 DEF Read!WaitEnds, Read!TimesOut, Read!Silent
<1>3. lost >= attempt
  <2>1. CASE pc = "first"
    <3>1. Waits => asks # <<>>
      BY DEF Waits
    <3> QED
      BY <1>1, <1>2, <2>1, <3>1 DEF ReadClean, Comes, Fails
  <2>2. CASE pc = "rest"
    <3>1. AtRest
      BY <2>2 DEF ReadClean
    <3>2. flowing = Read!None
      BY <1>2, <3>1 DEF AtRest, Coming
    <3>3. Len(read_rx) = 0 /\ Len(got) \in Nat /\ Len(got) <= PerBlock /\ PerBlock \in Nat
      BY <1>1, <2>2 DEF ReadType, ReadConstants
    <3>4. Len(got) + Len(read_rx) # PerBlock + 1
      BY <3>3
    <3> QED
      BY <3>1, <3>2, <3>4 DEF AtRest, Whole
  <2> QED
    BY <1>1, <2>1, <2>2
<1>4. Read!IsMemory
  BY DEF ReadClean
<1> QED
  BY <1>1, <1>2, <1>3, <1>4, RetryIsClean

LEMMA StreamIsClean ==
    ASSUME ReadConstants, ReadType, Clean, ReadClean, Read!Stream  PROVE ReadClean'
<1>1. /\ pc = "stream" /\ UNCHANGED <<asks, flowing, read_rx>>
  BY DEF Read!Stream, Read!ecu
<1>2. AtStream /\ Read!IsMemory /\ result = "none"
  BY <1>1 DEF ReadClean, ReadType
<1>3. CASE /\ out' = Append(out, got) /\ attempt' = 0
           /\ IF block = Blocks THEN pc' = "ended" /\ result' = "ok"
              ELSE pc' = "request" /\ UNCHANGED result
           /\ UNCHANGED lost
  <2>1. /\ out \in Seq(Seq(Cell)) /\ got \in Seq(Cell) /\ Len(out) = block - 1
        /\ block \in Nat
    BY DEF ReadType
  <2>2. /\ Len(out') = Len(out) + 1 /\ out'[Len(out) + 1] = got /\ Len(out) \in Nat
        /\ \A k \in 1 .. Len(out) : out'[k] = out[k]
    BY <1>3, <2>1, QueueGets
  <2>3. out'[Len(out) + 1] = Read!Content(Len(out) + 1)
    <3>1. Len(out) + 1 = block
      BY <2>1, <2>2
    <3> QED
      BY <1>2, <2>2, <3>1 DEF AtStream
  <2>4. \A k \in 1 .. Len(out') : k \in 1 .. Len(out) \/ k = Len(out) + 1
    BY <2>2
  <2>5. Read!IsMemory'
    BY <1>2, <2>2, <2>3, <2>4 DEF Read!IsMemory, Read!Content
  <2>6. lost' >= attempt'
    BY <1>3 DEF ReadType
  <2>7. /\ pc' \in {"ended", "request"} /\ result' # "gaveup"
    BY <1>2, <1>3
  <2>8. AtRequest'
    BY <1>1, <1>2, <2>6 DEF AtRequest, AtStream
  <2> QED
    BY <2>5, <2>7, <2>8 DEF ReadClean
<1>4. CASE Read!Ends("gone") /\ UNCHANGED out
  <2>1. Read!IsMemory'
    BY <1>2, <1>4 DEF Read!IsMemory
  <2> QED
    BY <1>4, <2>1 DEF Read!Ends, ReadClean
<1> QED
  BY <1>3, <1>4 DEF Read!Stream

LEMMA AnswersAreClean ==
    ASSUME ReadConstants, ReadType, Clean, ReadClean, Read!EcuAnswers, pc # "ended"
    PROVE  pc = "first" /\ (Waits \/ Comes \/ Fails)'
<1>1. asks # <<>> /\ flowing = Read!None /\ UNCHANGED <<pc, block, attempt>>
  BY DEF Read!EcuAnswers, Read!reader
<1>2. pc = "first" /\ Waits
  BY <1>1 DEF ReadClean, AtRequest, AtRest, AtStream, Comes, Fails, ReadType
<1>3. /\ Head(asks) = block /\ Tail(asks) = <<>> /\ block \in Nat /\ lost \in Nat
      /\ attempt \in Nat /\ lost + 1 >= attempt
  BY <1>2 DEF Waits, ReadType
<1> DEFINE n == Len(read_rx)
<1>4. /\ read_rx \in Seq(Msg) /\ n \in Nat
      /\ \A i \in 1 .. n : read_rx[i].kind = "pending"
  BY <1>2 DEF Waits, ReadType
<1>5. /\ block \in 0 .. Blocks /\ 0 \in 0 .. Blocks /\ 0 \in 0 .. PerBlock
  BY <1>2 DEF ReadType, ReadConstants
<1>6. /\ Read!Frame("first", block, 0) \in Msg
      /\ Read!Frame("pending", 0, 0) \in Msg /\ Read!Frame("pending", 0, 0).kind = "pending"
      /\ Read!Frame("refused", 0, 0) \in Msg /\ Read!Frame("refused", 0, 0).kind = "refused"
  BY <1>5, FrameIs DEF Kinds
<1>7. \A m \in Msg : /\ Len(Append(read_rx, m)) = n + 1 /\ Append(read_rx, m) # <<>>
                     /\ Append(read_rx, m)[n + 1] = m
                     /\ \A i \in 1 .. n : Append(read_rx, m)[i] = read_rx[i]
  BY <1>4, QueueGets
<1>8. \A i \in 1 .. n + 1 : i \in 1 .. n \/ i = n + 1
  BY <1>4
<1>9. CASE /\ Read!Delivers(Read!Frame("first", Head(asks), 0)) /\ asks' = Tail(asks)
           /\ flowing' = [block |-> Head(asks), next |-> 1, go |-> FALSE]
  <2>1. asks' = <<>> /\ flowing' = [block |-> block, next |-> 1, go |-> FALSE]
    BY <1>3, <1>9
  <2>2. CASE read_rx' = Append(read_rx, Read!Frame("first", block, 0)) /\ lost' = lost
    <3>1. /\ Len(read_rx') = n + 1 /\ read_rx' # <<>>
          /\ read_rx'[n + 1] = Read!Frame("first", block, 0)
          /\ \A i \in 1 .. n : read_rx'[i].kind = "pending"
      BY <1>4, <1>6, <1>7, <2>2
    <3>2. (n + 1) - 1 = n
      BY <1>4
    <3>3. Comes'
      BY <1>1, <1>3, <2>1, <2>2, <3>1, <3>2 DEF Comes, Read!Frame
    <3> QED
      BY <1>2, <3>3
  <2>3. CASE lost' = lost + 1 /\ read_rx' = read_rx
    <3>1. Fails'
      BY <1>1, <1>3, <1>4, <2>1, <2>3 DEF Fails
    <3> QED
      BY <1>2, <3>1
  <2> QED
    BY <1>3, <1>9, <2>2, <2>3 DEF Read!Delivers, Read!Loses
<1>10. CASE Read!Delivers(Read!Frame("pending", 0, 0)) /\ UNCHANGED <<asks, flowing>>
  <2>1. /\ lost' \in {lost, lost + 1}
        /\ read_rx' \in {read_rx, Append(read_rx, Read!Frame("pending", 0, 0))}
    BY <1>10 DEF Read!Delivers, Read!Loses
  <2>2. \A i \in 1 .. Len(read_rx') : read_rx'[i].kind = "pending"
    BY <1>4, <1>6, <1>7, <1>8, <2>1
  <2>3. lost' + 1 >= attempt
    <3>1. lost' = lost \/ lost' = lost + 1
      BY <2>1
    <3> QED
      BY <1>3, <3>1
  <2>4. Waits'
    BY <1>1, <1>2, <1>10, <2>2, <2>3 DEF Waits, Read!None
  <2> QED
    BY <1>2, <2>4
<1>11. CASE /\ Read!Loses /\ read_rx' = Append(read_rx, Read!Frame("refused", 0, 0))
            /\ asks' = Tail(asks) /\ UNCHANGED flowing
  <2>1. \A i \in 1 .. Len(read_rx') : read_rx'[i].kind # "first"
    BY <1>4, <1>6, <1>7, <1>8, <1>11
  <2>2. Fails'
    BY <1>1, <1>3, <1>11, <2>1 DEF Fails, Read!Loses
  <2> QED
    BY <1>2, <2>2
<1> QED
  BY <1>9, <1>10, <1>11 DEF Read!EcuAnswers

\* The ECU goes on while the reader has the first frame.
LEMMA FlowsAtRest ==
    ASSUME ReadConstants, ReadType, AtRest, Read!EcuFlows, pc = "rest"
    PROVE  AtRest'
<1>1. /\ flowing.go /\ Read!Delivers(Read!Frame("next", flowing.block, flowing.next))
      /\ flowing' = IF flowing.next = PerBlock THEN Read!None
                    ELSE [flowing EXCEPT !.next = @ + 1]
      /\ UNCHANGED <<pc, block, attempt, got, asks>>
  BY DEF Read!EcuFlows, Read!reader
<1> DEFINE n == Len(got)  m == Len(read_rx)  x == flowing.next
<1>2. /\ flowing \in Answer /\ flowing # Read!None /\ x \in Nat /\ x <= PerBlock
      /\ flowing.block \in 0 .. Blocks /\ x \in 0 .. PerBlock /\ PerBlock \in Nat
  <2>1. flowing \in Answer /\ PerBlock \in Nat
    BY DEF ReadType, ReadConstants
  <2>2. x \in 0 .. PerBlock /\ flowing.block \in 0 .. Blocks
    BY <2>1 DEF Answer
  <2>3. flowing # Read!None
    BY <1>1, NoneIs
  <2> QED
    BY <2>1, <2>2, <2>3
<1>3. /\ asks = <<>> /\ flowing.block = block /\ x > Last
      /\ \A i \in 1 .. m : read_rx[i].place < x
  BY <1>2 DEF AtRest, Coming
<1>4. /\ n \in Nat /\ n >= 1 /\ Last \in Nat /\ m \in Nat /\ read_rx \in Seq(Msg)
      /\ lost \in Nat /\ attempt \in Nat
  BY PlaceIs DEF ReadType, Last
<1>5. \A i \in 1 .. m : read_rx[i].place \in Nat
  <2>1. \A i \in 1 .. m : read_rx[i] \in Msg
    BY <1>4
  <2> QED
    BY <2>1 DEF Msg
<1>6. UNCHANGED <<Last, InOrder>>
  BY <1>1 DEF Last, InOrder, Place
<1>7. Taken'
  BY <1>1, <1>6 DEF AtRest, Taken
<1>8. flowing' # Read!None =>
        flowing'.go /\ flowing'.block = block /\ flowing'.next = x + 1 /\ x # PerBlock
  BY <1>1, <1>2, <1>3 DEF Answer
<1>9. CASE read_rx' = Append(read_rx, Read!Frame("next", block, x)) /\ lost' = lost
  <2>1. /\ Read!Frame("next", block, x) \in Msg /\ Read!Frame("next", block, x).kind = "next"
        /\ Read!Frame("next", block, x).block = block /\ Read!Frame("next", block, x).place = x
    BY <1>2, <1>3, FrameIs DEF Kinds
  <2>2. /\ Len(read_rx') = m + 1 /\ read_rx'[m + 1].kind = "next"
        /\ read_rx'[m + 1].block = block /\ read_rx'[m + 1].place = x
        /\ \A i \in 1 .. m : read_rx'[i] = read_rx[i]
    BY <1>4, <1>9, <2>1, QueueGets
  <2>3. \A i \in 1 .. m + 1 : i \in 1 .. m \/ i = m + 1
    BY <1>4
  <2>4. \A i \in 1 .. m : read_rx[i].kind = "next" /\ read_rx[i].block = block
                           /\ read_rx[i].place > Last
    BY DEF AtRest, Queued
  <2>5. \A i \in 1 .. m + 1 : /\ read_rx'[i].kind = "next" /\ read_rx'[i].block = block
                              /\ read_rx'[i].place > Last
    BY <1>3, <2>2, <2>3, <2>4
  <2>6. \A i, j \in 1 .. m + 1 : i < j => read_rx'[i].place < read_rx'[j].place
    <3> TAKE i, j \in 1 .. m + 1
    <3> HAVE i < j
    <3>1. i \in 1 .. m
      BY <1>4
    <3>2. CASE j \in 1 .. m
      BY <2>2, <3>1, <3>2 DEF AtRest, Queued
    <3>3. CASE j = m + 1
      BY <1>3, <2>2, <3>1, <3>3
    <3> QED
      BY <2>3, <3>2, <3>3
  <2>7. Queued'
    BY <1>1, <1>6, <2>2, <2>5, <2>6 DEF Queued
  <2>8. Coming'
    <3>1. x + 1 > Last /\ x < x + 1
      BY <1>2, <1>3, <1>4
    <3>2. \A i \in 1 .. m : read_rx[i].place < x + 1
      BY <1>2, <1>3, <1>5
    <3>3. \A i \in 1 .. m + 1 : read_rx'[i].place < x + 1
      BY <2>2, <2>3, <3>1, <3>2
    <3> QED
      BY <1>1, <1>6, <1>8, <2>2, <3>1, <3>3 DEF Coming
  <2>9. Whole => Whole'
    <3> SUFFICES ASSUME Whole PROVE Whole'
      OBVIOUS
    <3>1. x = n + m
      BY <1>2 DEF Whole
    <3>2. x = n + (m + 1) - 1 /\ x + 1 = n + (m + 1)
      BY <1>4, <3>1
    <3>3. \A i \in 1 .. m : read_rx'[i].place = n + i - 1
      BY <2>2 DEF Whole
    <3>4. \A i \in 1 .. m + 1 : read_rx'[i].place = n + i - 1
      BY <2>2, <2>3, <3>2, <3>3
    <3>5. flowing' = Read!None => n + (m + 1) = PerBlock + 1
      <4>1. flowing' = Read!None => x = PerBlock
        <5>1. x # PerBlock => flowing'.block = block /\ block # 0
          BY <1>1, <1>2, <1>3 DEF Answer, ReadType
        <5> QED
          BY <5>1, NoneIs
      <4> QED
        BY <3>2, <4>1
    <3>6. flowing' # Read!None => flowing'.next = n + (m + 1)
      BY <1>8, <3>2
    <3>7. InOrder' /\ lost' + 1 >= attempt'
      BY <1>1, <1>6, <1>9 DEF Whole
    <3> QED
      BY <1>1, <2>2, <3>4, <3>5, <3>6, <3>7 DEF Whole, Read!None
  <2> QED
    BY <1>1, <1>7, <1>9, <2>7, <2>8, <2>9 DEF AtRest
<1>10. CASE read_rx' = read_rx /\ lost' = lost + 1
  <2>1. lost' >= attempt'
    BY <1>1, <1>4, <1>10 DEF AtRest, Whole
  <2>2. Queued'
    BY <1>1, <1>6, <1>10 DEF AtRest, Queued
  <2>3. Coming'
    <3>1. x + 1 > Last /\ \A i \in 1 .. m : read_rx[i].place < x + 1
      BY <1>2, <1>3, <1>4, <1>5
    <3> QED
      BY <1>1, <1>6, <1>8, <1>10, <3>1 DEF Coming
  <2> QED
    BY <1>1, <1>3, <1>7, <2>1, <2>2, <2>3 DEF AtRest
<1> QED
  BY <1>1, <1>3, <1>9, <1>10 DEF Read!Delivers, Read!Loses

LEMMA EcuIsClean ==
    ASSUME ReadConstants, ReadType, Clean, ReadClean, Read!Ecu  PROVE ReadClean'
<1>1. /\ UNCHANGED <<pc, block, attempt, got, out, result>> /\ lost' \in Nat
      /\ lost' >= lost /\ lost \in Nat
  BY EcuMoves DEF ReadType
<1>2. Read!IsMemory'
  BY <1>1 DEF ReadClean, Read!IsMemory
<1>3. result' = "gaveup" => lost' >= Retries
  BY <1>1 DEF ReadClean, ReadConstants
<1>4. CASE pc = "ended"
  BY <1>1, <1>2, <1>3, <1>4 DEF ReadClean
<1>5. CASE pc # "ended" /\ Read!EcuAnswers
  BY <1>1, <1>2, <1>3, <1>5, AnswersAreClean DEF ReadClean
<1>6. CASE pc # "ended" /\ (Read!EcuFlows \/ Read!EcuDrops)
  <2>1. flowing # Read!None /\ asks' = asks
    BY <1>6, NoneIs DEF Read!EcuFlows, Read!EcuDrops
  <2>2. pc \notin {"start", "stream"}
    BY <2>1 DEF ReadClean, AtStream
  <2>3. CASE pc = "request"
    <3>1. AtRequest'
      BY <1>1, <2>1, <2>3 DEF ReadClean, AtRequest, ReadType
    <3> QED
      BY <1>1, <1>2, <1>3, <2>3, <3>1 DEF ReadClean
  <2>4. CASE pc = "first"
    <3>1. ~Waits
      BY <2>1 DEF Waits
    <3>2. ~Comes
      BY <1>6 DEF Comes, Read!EcuFlows, Read!EcuDrops
    <3>3. Fails
      BY <2>4, <3>1, <3>2 DEF ReadClean
    <3>4. \A i \in 1 .. Len(read_rx') : read_rx'[i].kind # "first"
      <4>1. CASE read_rx' = read_rx
        BY <3>3, <4>1 DEF Fails
      <4>2. CASE read_rx' = Append(read_rx, Read!Frame("next", flowing.block, flowing.next))
        <5>1. /\ Read!Frame("next", flowing.block, flowing.next) \in Msg
              /\ Read!Frame("next", flowing.block, flowing.next).kind = "next"
          BY FrameIs DEF Kinds, ReadType, Answer
        <5>2. /\ read_rx \in Seq(Msg) /\ Len(read_rx) \in Nat
              /\ Len(read_rx') = Len(read_rx) + 1
              /\ read_rx'[Len(read_rx) + 1].kind = "next"
              /\ \A i \in 1 .. Len(read_rx) : read_rx'[i] = read_rx[i]
          <6>1. read_rx \in Seq(Msg)
            BY DEF ReadType
          <6> QED
            BY <4>2, <5>1, <6>1, QueueGets
        <5>3. \A i \in 1 .. Len(read_rx') : i \in 1 .. Len(read_rx) \/ i = Len(read_rx) + 1
          BY <5>2
        <5> QED
          BY <3>3, <5>2, <5>3 DEF Fails
      <4> QED
        BY <1>6, <4>1, <4>2 DEF Read!EcuFlows, Read!EcuDrops, Read!Delivers
    <3>5. Fails'
      <4>1. lost' >= attempt'
        BY <1>1, <3>3 DEF Fails, ReadType
      <4> QED
        BY <2>1, <3>3, <3>4, <4>1 DEF Fails
    <3> QED
      BY <1>1, <1>2, <1>3, <2>4, <3>5 DEF ReadClean
  <2>5. CASE pc = "rest"
    <3>1. AtRest /\ flowing.go
      BY <2>1, <2>5 DEF ReadClean, AtRest, Coming
    <3>2. AtRest'
      BY <1>6, <2>5, <3>1, FlowsAtRest DEF Read!EcuDrops
    <3> QED
      BY <1>1, <1>2, <1>3, <2>5, <3>2 DEF ReadClean
  <2> QED
    BY <1>6, <2>2, <2>3, <2>4, <2>5 DEF ReadType
<1> QED
  BY <1>4, <1>5, <1>6 DEF Read!Ecu

\* The invariant the stream rests on.
THEOREM ReadIsClean == ASSUME ReadConstants PROVE Read!Spec => []ReadInv
<1>1. Read!Init => ReadInv
  <2> SUFFICES ASSUME Read!Init PROVE ReadInv
    OBVIOUS
  <2>1. \A S : <<>> \in Seq(S)
    OBVIOUS
  <2>2. ReadType
    <3>1. /\ block = 1 /\ attempt = 0 /\ pending = 0 /\ got = <<>> /\ out = <<>> /\ lost = 0
          /\ late = 0
      BY DEF Read!Init
    <3>2. /\ block \in Nat /\ block >= 1 /\ block <= Blocks /\ block <= Blocks + 1
          /\ attempt \in Nat /\ attempt <= Retries /\ pending \in Nat
          /\ pending <= MaxPending + 1 /\ lost \in Nat /\ late \in Nat
      BY <3>1 DEF ReadConstants
    <3>3. Len(got) <= PerBlock + 1 /\ Len(out) = block - 1
      BY <3>1 DEF ReadConstants
    <3>4. /\ pc = "start" /\ read_rx = <<>> /\ asks = <<>> /\ flowing = Read!None
          /\ result = "none" /\ raised \in BOOLEAN /\ polite \in BOOLEAN /\ capped \in BOOLEAN
      BY DEF Read!Init
    <3> QED
      BY <2>1, <3>1, <3>2, <3>3, <3>4, NoneIs DEF ReadType
  <2>3. ReadClean
    BY DEF Read!Init, ReadClean, Read!IsMemory
  <2> QED
    BY <2>2, <2>3 DEF ReadInv
<1>2. ReadInv /\ [Read!Next]_(Read!vars) => ReadInv'
  <2> SUFFICES ASSUME ReadInv, [Read!Next]_(Read!vars), Clean' PROVE ReadClean'
    BY ReadTypeStep DEF ReadInv
  <2>1. ReadType
    BY DEF ReadInv
  <2>2. /\ polite' = polite /\ (capped => capped') /\ (late' = late \/ late' = late + 1)
    <3>1. CASE Read!Ecu
      BY <2>1, <3>1, EcuMoves
    <3>2. CASE Read!Start \/ Read!Request \/ Read!Rest \/ Read!Stream
      BY <3>2 DEF Read!Start, Read!Request, Read!Rest, Read!Stream, Read!ecu
    <3>4. CASE Read!First
      <4>1. polite' = polite /\ late' = late
        BY <3>4 DEF Read!First
      <4>2. capped' = (capped \/ Read!TooMany(pending')) \/ capped' = capped
        BY <3>4 DEF Read!First
      <4>3. capped \in BOOLEAN
        BY <2>1 DEF ReadType
      <4>4. ASSUME capped PROVE capped'
        BY <4>2, <4>3, <4>4
      <4> QED
        BY <4>1, <4>4
    <3>5. CASE Read!WaitEnds
      BY <3>5 DEF Read!WaitEnds, Read!TimesOut, Read!ecu
    <3>3. CASE UNCHANGED Read!vars
      BY <3>3 DEF Read!vars, Read!reader, Read!ecu
    <3> QED
      BY <3>1, <3>2, <3>3, <3>4, <3>5 DEF Read!Next
  <2>3. Clean
    <3>1. late' = 0 /\ late \in Nat /\ ~capped' /\ polite'
      BY <2>1 DEF Clean, ReadType
    <3>2. late = 0
      BY <2>2, <3>1
    <3> QED
      BY <2>2, <3>1, <3>2 DEF Clean
  <2>4. ReadClean
    BY <2>3 DEF ReadInv
  <2>5. CASE UNCHANGED Read!vars
    BY <2>4, <2>5 DEF Read!vars, Read!reader, Read!ecu, ReadClean, AtRequest, AtRest, AtStream,
       Waits, Comes, Fails, Queued, Coming, Taken, Whole, InOrder, Last, Place, Read!IsMemory,
       Read!Content, Read!None, Read!Frame
  <2> QED
    BY <2>1, <2>3, <2>4, <2>5, StartIsClean, RequestIsClean, FirstIsClean, RestIsClean,
       WaitEndsIsClean, StreamIsClean, EcuIsClean DEF Read!Next
<1> QED
  BY <1>1, <1>2, PTL DEF Read!Spec

(* What is streamed is the memory of the ECU, in order and whole, and one    *)
(* lost frame does not end a read (ncflash_fastread.c:305-350).              *)
RomIsRead == Read!TypeOK /\ Read!StreamIsTheRom /\ Read!OneLossIsSurvived

THEOREM RomStaysRead == ASSUME ReadConstants PROVE Read!Spec => []RomIsRead
<1>1. ReadInv => Read!TypeOK
  <2> SUFFICES ASSUME ReadInv PROVE Read!TypeOK
    OBVIOUS
  <2>1. ReadType
    BY DEF ReadInv
  <2>2. got \in Seq(Cell)
    BY <2>1 DEF ReadType
  <2>3. \A i \in 1 .. Len(got) : got[i] \in (0 .. Blocks) \X (0 .. PerBlock)
    BY <2>2 DEF Cell
  <2>4. block \in 1 .. Blocks + 1 /\ attempt \in 0 .. Retries /\ pending \in 0 .. MaxPending + 1
        /\ Len(out) <= Blocks
    BY <2>1 DEF ReadType, ReadConstants
  <2> QED
    BY <2>1, <2>3, <2>4 DEF ReadType, Read!TypeOK
<1>2. ReadInv => Read!StreamIsTheRom
  BY DEF ReadInv, Clean, ReadClean, Read!StreamIsTheRom
<1>3. ReadInv => Read!OneLossIsSurvived
  <2> SUFFICES ASSUME ReadInv, result = "gaveup", polite, ~(late > 0), ~capped PROVE lost > 1
    BY DEF Read!OneLossIsSurvived
  <2>1. late = 0 /\ lost \in Nat /\ Retries > 1 /\ Retries \in Nat
    BY DEF ReadInv, ReadType, ReadConstants
  <2>2. lost >= Retries
    BY <2>1 DEF ReadInv, Clean, ReadClean
  <2> QED
    BY <2>1, <2>2
<1> QED
  BY <1>1, <1>2, <1>3, ReadIsClean, PTL DEF RomIsRead
=============================================================================
