------------------------------ MODULE HostLink ------------------------------
(***************************************************************************)
(* The host's line into the adapter: the dedicated port's server, receive  *)
(* and transmit tasks (main/slcan_port.c), the two queues between them and *)
(* can_tx_task (main/main.c), and the commands that task runs inline: one  *)
(* SLCAN line, a fast ROM read (main/ncflash_fastread.c) or a fast ROM     *)
(* write, dry or live (main/ncflash_fastwrite.c).  Once the ECU may have   *)
(* begun to erase, a live write has to go on whatever becomes of the host. *)
(*                                                                         *)
(* A step is one access to a queue, an event bit, s_sock, s_conn_gen or    *)
(* the socket mutex; giving the mutex back is part of the step before it.  *)
(* Only what blocks and what fails is kept of a socket: its host reads, is *)
(* stalled with a full window, or is gone.  Connections are numbered by    *)
(* the generation they get, so s_sock is that number, and 0 for -1.        *)
(* A bounded wait on a full queue may time out for as long as it is full;  *)
(* every progress line is emitted (PROG_EVERY_N = 1).  The ECU's answers   *)
(* are outcomes: the block was accepted, or the transfer failed.  A frame  *)
(* can_rx_task forwards is a line like an SLCAN reply, and is left out.    *)
(***************************************************************************)
EXTENDS Naturals

CONSTANTS
    RxLen, TxLen,   \* lengths of xMsg_Rx_Queue and xMsg_SlcanPort_Tx_Queue
    Images,         \* the staged images: the blocks of their two regions
    Ops,            \* the commands the host sends, and "prompt"
    MaxConns        \* bound: connections accepted

Commands == {"slcan", "read", "dry", "live"}

ASSUME LinkAssumption ==
    /\ RxLen \in Nat \ {0} /\ TxLen \in Nat \ {0}
    /\ Images \subseteq [sbl : Nat, program : Nat] /\ MaxConns \in Nat
    /\ Ops \subseteq Commands \cup {"prompt"}

VARIABLES
    sock,    \* s_sock
    gen,     \* s_conn_gen
    opened,  \* PORT_OPEN_BIT
    closed,  \* PORT_CLOSED_BIT
    mutex,   \* who holds s_sock_mutex
    peer,    \* the host's end of the latest connection
    srv,     \* where slcan_port_server_task is
    rx,      \* slcan_port_rx_task: position, gen snapshot, recv's socket, result
    tx,      \* slcan_port_tx_task: position
    rxq,     \* commands in xMsg_Rx_Queue
    txq,     \* lines in xMsg_SlcanPort_Tx_Queue
    run      \* can_tx_task: position, command, image, blocks, s_ponr, host_gone

portVars == <<sock, gen, opened, closed, mutex, peer, srv>>
vars == <<portVars, rx, tx, rxq, txq, run>>

SrvPC == {"accept", "count", "reset", "open", "serve", "close"}
RxPC == {"wait", "snap", "recv", "blocked", "lock", "check", "push", "shut",
         "clear"}
TxPC == {"wait", "peek", "lock", "send", "shut", "clear"}
RunPC == {"idle", "reply", "sync", "download", "next", "edge", "ponr", "block",
          "line", "exit", "done", "error", "cleanup"}

NoImage == [sbl |-> 0, program |-> 0]

TypeOK ==
    /\ sock \in Nat /\ gen \in Nat
    /\ opened \in BOOLEAN /\ closed \in BOOLEAN
    /\ mutex \in {"none", "rx", "tx"}
    /\ peer \in {"reading", "stalled", "gone"}
    /\ srv \in SrvPC
    /\ rx \in [pc : RxPC, gen : Nat, sock : Nat, got : {"data", "end"}]
    /\ tx \in TxPC
    /\ rxq \in 0..RxLen /\ txq \in 0..TxLen
    /\ run \in [pc : RunPC, op : Commands, img : Images \cup {NoImage},
                done : Nat, ponr : BOOLEAN, gone : BOOLEAN]

IdleRun == [pc |-> "idle", op |-> "slcan", img |-> NoImage, done |-> 0,
            ponr |-> FALSE, gone |-> FALSE]

Init ==
    /\ sock = 0 /\ gen = 0 /\ opened = FALSE /\ closed = TRUE
    /\ mutex = "none" /\ peer = "gone" /\ srv = "accept"
    /\ rx = [pc |-> "wait", gen |-> 0, sock |-> 0, got |-> "end"]
    /\ tx = "wait" /\ rxq = 0 /\ txq = 0
    /\ run = IdleRun

-----------------------------------------------------------------------------
(* The host.                                                                *)

HostStalls ==
    /\ peer = "reading"
    /\ peer' = "stalled"
    /\ UNCHANGED <<sock, gen, opened, closed, mutex, srv, rx, tx, rxq, txq, run>>

HostReads ==
    /\ peer = "stalled"
    /\ peer' = "reading"
    /\ UNCHANGED <<sock, gen, opened, closed, mutex, srv, rx, tx, rxq, txq, run>>

\* A host that is not prompt leaves no sooner than it is served, and comes back
\* when the port's other tasks have dealt with the end of the last connection.
HostLeaves ==
    /\ peer # "gone"
    /\ "prompt" \notin Ops => srv = "serve"
    /\ peer' = "gone"
    /\ UNCHANGED <<sock, gen, opened, closed, mutex, srv, rx, tx, rxq, txq, run>>

HostSends ==
    /\ peer # "gone" /\ sock # 0
    /\ rx.pc = "blocked" /\ rx.sock = sock
    /\ rx' = [rx EXCEPT !.pc = "lock", !.got = "data"]
    /\ UNCHANGED <<portVars, tx, rxq, txq, run>>

Host == HostStalls \/ HostReads \/ HostLeaves \/ HostSends

-----------------------------------------------------------------------------
(* slcan_port_server_task.                                                  *)

Settled == rx.pc = "wait" /\ tx \notin {"send", "shut", "clear"}

SrvAccept ==
    /\ srv = "accept" /\ gen < MaxConns
    /\ "prompt" \notin Ops => Settled
    /\ sock' = gen + 1
    /\ peer' = "reading"
    /\ srv' = "count"
    /\ UNCHANGED <<gen, opened, closed, mutex, rx, tx, rxq, txq, run>>

\* Mutant: the generation is never bumped.
SrvCountNothing ==
    /\ srv = "count"
    /\ srv' = "reset"
    /\ UNCHANGED <<sock, gen, opened, closed, mutex, peer, rx, tx, rxq, txq, run>>

SrvCount ==
    /\ srv = "count"
    /\ gen' = gen + 1
    /\ srv' = "reset"
    /\ UNCHANGED <<sock, opened, closed, mutex, peer, rx, tx, rxq, txq, run>>

SrvReset ==
    /\ srv = "reset"
    /\ closed' = FALSE
    /\ srv' = "open"
    /\ UNCHANGED <<sock, gen, opened, mutex, peer, rx, tx, rxq, txq, run>>

SrvOpen ==
    /\ srv = "open"
    /\ opened' = TRUE
    /\ srv' = "serve"
    /\ UNCHANGED <<sock, gen, closed, mutex, peer, rx, tx, rxq, txq, run>>

SrvServe ==
    /\ srv = "serve" /\ closed
    /\ opened' = FALSE
    /\ srv' = "close"
    /\ UNCHANGED <<sock, gen, closed, mutex, peer, rx, tx, rxq, txq, run>>

SrvClose ==
    /\ srv = "close"
    /\ sock' = 0
    /\ peer' = "gone"
    /\ srv' = "accept"
    /\ UNCHANGED <<gen, opened, closed, mutex, rx, tx, rxq, txq, run>>

Server == SrvCount \/ SrvReset \/ SrvOpen \/ SrvServe \/ SrvClose

-----------------------------------------------------------------------------
(* slcan_port_rx_task: it keeps the socket mutex while it waits for room in *)
(* the command queue.                                                       *)

RxGo(pc) == rx' = [rx EXCEPT !.pc = pc]

RxOpen ==
    /\ rx.pc = "wait" /\ opened
    /\ RxGo("snap")
    /\ UNCHANGED <<portVars, tx, rxq, txq, run>>

RxSnap ==
    /\ rx.pc = "snap"
    /\ rx' = [rx EXCEPT !.pc = "recv", !.gen = gen]
    /\ UNCHANGED <<portVars, tx, rxq, txq, run>>

RxRecv ==
    /\ rx.pc = "recv"
    /\ rx' = [rx EXCEPT !.pc = "blocked", !.sock = sock]
    /\ UNCHANGED <<portVars, tx, rxq, txq, run>>

RxEnd ==
    /\ rx.pc = "blocked"
    /\ rx.sock # sock \/ sock = 0 \/ peer = "gone"
    /\ rx' = [rx EXCEPT !.pc = "lock", !.got = "end"]
    /\ UNCHANGED <<portVars, tx, rxq, txq, run>>

RxLock ==
    /\ rx.pc = "lock" /\ mutex = "none"
    /\ mutex' = "rx"
    /\ RxGo("check")
    /\ UNCHANGED <<sock, gen, opened, closed, peer, srv, tx, rxq, txq, run>>

\* A result of an earlier connection is dropped.
RxCheck ==
    /\ rx.pc = "check"
    /\ IF rx.gen # gen THEN RxGo("wait") /\ mutex' = "none"
       ELSE /\ RxGo(IF rx.got = "data" THEN "push" ELSE "shut")
            /\ UNCHANGED mutex
    /\ UNCHANGED <<sock, gen, opened, closed, peer, srv, tx, rxq, txq, run>>

RxPush ==
    /\ rx.pc = "push" /\ rxq < RxLen
    /\ rxq' = rxq + 1
    /\ mutex' = "none"
    /\ RxGo("snap")
    /\ UNCHANGED <<sock, gen, opened, closed, peer, srv, tx, txq, run>>

RxShut ==
    /\ rx.pc = "shut"
    /\ closed' = TRUE
    /\ RxGo("clear")
    /\ UNCHANGED <<sock, gen, opened, mutex, peer, srv, tx, rxq, txq, run>>

\* Mutant: the path that ends a connection keeps the mutex.
RxClearHolding ==
    /\ rx.pc = "clear"
    /\ opened' = FALSE
    /\ RxGo("wait")
    /\ UNCHANGED <<sock, gen, closed, mutex, peer, srv, tx, rxq, txq, run>>

RxClear ==
    /\ rx.pc = "clear"
    /\ opened' = FALSE
    /\ mutex' = "none"
    /\ RxGo("wait")
    /\ UNCHANGED <<sock, gen, closed, peer, srv, tx, rxq, txq, run>>

Receive == RxOpen \/ RxSnap \/ RxRecv \/ RxEnd \/ RxLock \/ RxCheck \/ RxPush
           \/ RxShut \/ RxClear

-----------------------------------------------------------------------------
(* slcan_port_tx_task: it sends the line it peeked, with no generation.     *)

TxOpen ==
    /\ tx = "wait" /\ opened
    /\ tx' = "peek"
    /\ UNCHANGED <<portVars, rx, rxq, txq, run>>

TxPeek ==
    /\ tx = "peek" /\ txq > 0
    /\ tx' = "lock"
    /\ UNCHANGED <<portVars, rx, rxq, txq, run>>

TxLock ==
    /\ tx = "lock" /\ mutex = "none"
    /\ mutex' = "tx"
    /\ txq' = IF txq > 0 THEN txq - 1 ELSE 0
    /\ tx' = "send"
    /\ UNCHANGED <<sock, gen, opened, closed, peer, srv, rx, rxq, run>>

\* A send to a host that has gone may still fill the socket's buffer.
TxSend ==
    /\ tx = "send"
    /\ \/ /\ sock # 0 /\ peer # "stalled"
          /\ mutex' = "none"
          /\ tx' = "peek"
       \/ /\ sock = 0 \/ peer = "gone"
          /\ tx' = "shut"
          /\ UNCHANGED mutex
    /\ UNCHANGED <<sock, gen, opened, closed, peer, srv, rx, rxq, txq, run>>

TxShut ==
    /\ tx = "shut"
    /\ closed' = TRUE
    /\ tx' = "clear"
    /\ UNCHANGED <<sock, gen, opened, mutex, peer, srv, rx, rxq, txq, run>>

TxClear ==
    /\ tx = "clear"
    /\ opened' = FALSE
    /\ mutex' = "none"
    /\ tx' = "wait"
    /\ UNCHANGED <<sock, gen, closed, peer, srv, rx, rxq, txq, run>>

Transmit == TxOpen \/ TxPeek \/ TxLock \/ TxSend \/ TxShut \/ TxClear

-----------------------------------------------------------------------------
(* can_tx_task and the command it runs.                                     *)

RunGo(pc) == run' = [run EXCEPT !.pc = pc]

Live == run.op = "live"

Total == run.img.sbl + run.img.program

\* Mutant: only the last block of the SBL region counts.
EdgeOfSblOnly == run.done + 1 = run.img.sbl

\* The next block is where the ECU may erase: the last of the SBL region or
\* the first of the program region.
EraseEdge == run.done + 1 = run.img.sbl \/ run.done = run.img.sbl

Room == txq < TxLen /\ txq' = txq + 1
Full == txq = TxLen /\ UNCHANGED txq

\* tx_send: a line that finds no room in time ends the command, unless the
\* point of no return is behind it.
Emit(pc) ==
    \/ Room /\ RunGo(pc)
    \/ Full /\ run' = IF run.ponr THEN [run EXCEPT !.pc = pc]
                      ELSE [run EXCEPT !.pc = "cleanup", !.gone = TRUE]

\* A line whose loss changes nothing.
TryEmit(pc) == (Room \/ Full) /\ RunGo(pc)

\* The codecs drop what is left of the transmit queue before they begin.
TakeCommand ==
    /\ run.pc = "idle" /\ rxq > 0
    /\ rxq' = rxq - 1
    /\ \/ /\ "slcan" \in Ops
          /\ run' = [IdleRun EXCEPT !.pc = "reply"]
          /\ UNCHANGED txq
       \/ \E op \in (Commands \ {"slcan"}) \cap Ops, img \in Images :
            /\ run' = [IdleRun EXCEPT !.pc = "sync", !.op = op, !.img = img]
            /\ txq' = 0
    /\ UNCHANGED <<portVars, rx, tx>>

\* send_to_host gives up after 100 ms.
Reply ==
    /\ run.pc = "reply"
    /\ TryEmit("idle")
    /\ UNCHANGED <<portVars, rx, tx, rxq>>

\* A write refused by one of its gates never gets to the preamble.
Refused ==
    /\ run.pc = "sync" /\ run.op \in {"dry", "live"}
    /\ RunGo("error")
    /\ UNCHANGED <<portVars, rx, tx, rxq, txq>>

Sync ==
    /\ run.pc = "sync"
    /\ Emit(IF Live THEN "download" ELSE "next")
    /\ UNCHANGED <<portVars, rx, tx, rxq>>

\* Past the last block a live write ends the transfer, a dry one is done, and
\* a read just stops.
NextBlock ==
    /\ run.pc = "next"
    /\ RunGo(CASE run.done < Total -> IF Live /\ EraseEdge THEN "edge" ELSE "block"
               [] run.done = Total /\ Live -> "exit"
               [] run.done = Total /\ run.op = "dry" -> "done"
               [] OTHER -> "cleanup")
    /\ UNCHANGED <<portVars, rx, tx, rxq, txq>>

Edge ==
    /\ run.pc = "edge"
    /\ Emit("ponr")
    /\ UNCHANGED <<portVars, rx, tx, rxq>>

SetPonr ==
    /\ run.pc = "ponr"
    /\ run' = [run EXCEPT !.pc = "block", !.ponr = TRUE]
    /\ UNCHANGED <<portVars, rx, tx, rxq, txq>>

BlockDone ==
    /\ run.pc = "block"
    /\ run' = [run EXCEPT !.pc = "line", !.done = run.done + 1]
    /\ UNCHANGED <<portVars, rx, tx, rxq, txq>>

Line ==
    /\ run.pc = "line"
    /\ Emit("next")
    /\ UNCHANGED <<portVars, rx, tx, rxq>>

\* The ECU or the SD card accepts, refuses or stays silent past its deadline.
Accepted ==
    /\ run.pc \in {"download", "exit"}
    /\ RunGo(IF run.pc = "download" THEN "next" ELSE "done")
    /\ UNCHANGED <<portVars, rx, tx, rxq, txq>>

Failed ==
    /\ run.pc \in {"download", "block", "exit"}
    /\ RunGo("error")
    /\ UNCHANGED <<portVars, rx, tx, rxq, txq>>

\* NCFWDONE and FWERR or FRERR: nothing hangs on whether they were taken.  Past
\* the point of no return a line goes out only if there is room for it now.
LastLine ==
    /\ run.pc \in {"done", "error"}
    /\ TryEmit("cleanup")
    /\ UNCHANGED <<portVars, rx, tx, rxq>>

\* What a host that went away left behind is dropped.
Cleanup ==
    /\ run.pc = "cleanup"
    /\ txq' = IF run.gone THEN 0 ELSE txq
    /\ run' = IdleRun
    /\ UNCHANGED <<portVars, rx, tx, rxq>>

\* The heartbeat of a wait on an ECU that may be erasing.
Beat ==
    /\ Live /\ run.pc \in {"block", "exit"}
    /\ run.pc = "block" => EraseEdge
    /\ Room
    /\ UNCHANGED <<portVars, rx, tx, rxq, run>>

Advance == TakeCommand \/ Reply \/ Refused \/ Sync \/ NextBlock \/ Edge
           \/ SetPonr \/ BlockDone \/ Line \/ Accepted \/ Failed \/ LastLine
           \/ Cleanup

-----------------------------------------------------------------------------
Next == Host \/ SrvAccept \/ Server \/ Receive \/ Transmit \/ Advance \/ Beat

Spec == Init /\ [][Next]_vars

\* Every task of the port and can_tx_task runs when it can, and whatever waits
\* for the ECU, the card or room in the transmit queue has a deadline.  Nothing
\* makes a host send, read, leave or come back.
Fairness == WF_vars(Server) /\ WF_vars(Receive) /\ WF_vars(Transmit)
            /\ WF_vars(Advance)

FairSpec == Spec /\ Fairness

-----------------------------------------------------------------------------
(* Correctness.                                                             *)

\* The mutex is held exactly where the code holds it, only a connection being
\* served is open, and a host once given up ends its command.
MutexHeld ==
    /\ mutex = "rx" <=> rx.pc \in {"check", "push", "shut", "clear"}
    /\ mutex = "tx" <=> tx \in {"send", "shut", "clear"}
OpenOnlyServing == opened => srv = "serve"
GoneIsOver == run.gone => run.pc = "cleanup"
LinkInv == TypeOK /\ MutexHeld /\ OpenOnlyServing /\ GoneIsOver

\* A block the ECU may answer by erasing is in flight, or one was.
MayBeErasing ==
    /\ Live /\ run.pc # "idle"
    /\ \/ run.done >= run.img.sbl /\ run.done > 0
       \/ run.done + 1 >= run.img.sbl /\ run.pc = "block"

\* No command gives an ECU up because its host has gone once that ECU may have
\* begun to erase: the abort is spent before then, whatever regions an image has
\* (the s_ponr rule of tx_send and where fast_write sets it).
ErasingNotAbandoned == MayBeErasing => run.ponr /\ ~run.gone

\* What the port and its commands keep between their steps.
LinkSafe == LinkInv /\ ErasingNotAbandoned

\* Whatever the host does, every command comes to an end and can_tx_task takes
\* the next one (the bounded sends of the codecs).
CommandsFinish == run.pc # "idle" ~> run.pc = "idle"

\* After the host has gone, the port listens again.
PortRecovers == srv = "serve" /\ peer = "gone" ~> srv = "accept"

\* What slcan_port_conn_gen tells the reaper.
ConnGen == IF opened THEN gen ELSE 0

\* The port keeps the promise the reaper relies on: an owner that has gone is
\* never seen again, even if a host takes its place at once.
Owner == INSTANCE PortOwner
           WITH owner <- ConnGen,
                used <- IF srv \in {"reset", "open"} THEN gen - 1 ELSE gen
OwnerPromise == Owner!Spec
=============================================================================
