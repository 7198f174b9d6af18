------------------------------ MODULE FastRead ------------------------------
(***************************************************************************)
(* The fast ROM read (main/ncflash_fastread.c): block by block over UDS    *)
(* ReadMemoryByAddress and ISO-TP on the local bus, each block streamed to *)
(* the host as it comes.  A positive response does not echo the address.   *)
(* The ECU answers request after request; frames may be lost, an answer    *)
(* may come after the reader has stopped waiting.                          *)
(***************************************************************************)
EXTENDS Naturals, Sequences

CONSTANTS
    Blocks,      \* blocks of the range asked for
    Frames,      \* consecutive frames of a block (147 of 0x400 bytes)
    SeqMod,      \* the sequence number counts modulo this (16)
    Retries,     \* BLOCK_RETRIES
    MaxPending,  \* MAX_PENDING
    MaxLost,     \* bound: frames and requests lost, answers refused
    MaxLate      \* bound: waits that end before the ECU has answered

VARIABLES
    pc,        \* start, request, first, rest, stream, ended
    block,     \* the block being read
    attempt,   \* attempts made of it
    pending,   \* 0x78 answers since the request
    got,       \* s_resp: what each frame carried, as block and place
    rx,        \* the controller's receive queue
    asks,      \* requests the ECU has not answered
    flowing,   \* the answer under way: block, next frame, flow control seen
    out,       \* blocks streamed, by their content
    result,    \* none, ok, gaveup, gone
    raised,    \* can_flash_active, can_rx_task suspended
    polite,    \* whether a new request makes the ECU drop the answer under way
    capped,    \* an attempt ended at the cap on 0x78 (history)
    lost, late

reader == <<pc, block, attempt, pending, got, out, result, raised, capped>>
ecu == <<asks, flowing, polite>>
vars == <<reader, rx, ecu, lost, late>>

None == [block |-> 0, next |-> 0, go |-> FALSE]

Frame(kind, b, i) == [kind |-> kind, block |-> b, place |-> i]

TypeOK ==
    /\ pc \in {"start", "request", "first", "rest", "stream", "ended"}
    /\ block \in 1 .. Blocks + 1 /\ attempt \in 0 .. Retries
    /\ pending \in 0 .. MaxPending + 1
    /\ \A i \in 1 .. Len(got) : got[i] \in (0 .. Blocks) \X (0 .. Frames)
    /\ Len(got) <= Frames + 1 /\ Len(out) <= Blocks
    /\ result \in {"none", "ok", "gaveup", "gone"} /\ raised \in BOOLEAN
    /\ polite \in BOOLEAN /\ capped \in BOOLEAN

Init ==
    /\ pc = "start" /\ block = 1 /\ attempt = 0 /\ pending = 0 /\ got = <<>> /\ rx = <<>>
    /\ asks = <<>> /\ flowing = None /\ out = <<>> /\ result = "none" /\ raised = FALSE
    /\ polite \in BOOLEAN /\ capped = FALSE /\ lost = 0 /\ late = 0

-----------------------------------------------------------------------------
(* The ECU and the wire.                                                   *)

Loses == lost < MaxLost /\ lost' = lost + 1

\* A frame reaches the queue, or is lost on the way.
Delivers(f) ==
    \/ rx' = Append(rx, f) /\ UNCHANGED lost
    \/ Loses /\ UNCHANGED rx

EcuAnswers ==
    /\ asks # <<>> /\ flowing = None
    /\ \/ /\ Delivers(Frame("first", Head(asks), 0)) /\ asks' = Tail(asks)
          /\ flowing' = [block |-> Head(asks), next |-> 1, go |-> FALSE]
       \/ Delivers(Frame("pending", 0, 0)) /\ UNCHANGED <<asks, flowing>>
       \/ /\ Loses /\ rx' = Append(rx, Frame("refused", 0, 0)) /\ asks' = Tail(asks)
          /\ UNCHANGED flowing
    /\ Len(rx) < Frames + 2    \* the reader is there to take them
    /\ UNCHANGED <<reader, polite, late>>

EcuFlows ==
    /\ flowing.go
    /\ Delivers(Frame("next", flowing.block, flowing.next))
    /\ flowing' = IF flowing.next = Frames THEN None ELSE [flowing EXCEPT !.next = @ + 1]
    /\ UNCHANGED <<reader, asks, polite, late>>

\* No flow control: the ECU drops the answer.
EcuDrops ==
    /\ flowing # None /\ ~flowing.go /\ rx = <<>>
    /\ flowing' = None /\ UNCHANGED <<reader, rx, asks, polite, lost, late>>

Ecu == EcuAnswers \/ EcuFlows \/ EcuDrops

\* A wait ends with nothing: nothing more is coming, or it is late.
Silent == rx = <<>> /\ asks = <<>> /\ ~flowing.go
TimesOut ==
    /\ rx = <<>>
    /\ \/ Silent /\ UNCHANGED late
       \/ ~Silent /\ late < MaxLate /\ late' = late + 1

-----------------------------------------------------------------------------
(* The reader.                                                             *)

Start ==
    /\ pc = "start" /\ pc' = "request" /\ raised' = TRUE /\ rx' = <<>>
    /\ UNCHANGED <<block, attempt, pending, got, out, result, capped, ecu, lost, late>>

\* Mutant: a retry finds what the attempt before it left.
Undrained(q, a) == q

\* The queue is drained before every attempt but the first.
Drained(q, a) == IF a > 0 THEN <<>> ELSE q

Ends(how) == pc' = "ended" /\ result' = how /\ raised' = FALSE /\ UNCHANGED <<block, attempt>>

\* The attempt failed; after the last of a block the read is given up.
Retry ==
    IF attempt = Retries THEN Ends("gaveup")
    ELSE pc' = "request" /\ UNCHANGED <<block, attempt, result, raised>>

Request ==
    /\ pc = "request" /\ attempt < Retries
    /\ rx' = Drained(rx, attempt)
    /\ attempt' = attempt + 1 /\ pending' = 0 /\ got' = <<>> /\ pc' = "first"
    /\ \/ /\ asks' = Append(asks, block) /\ UNCHANGED lost
          /\ flowing' = IF polite THEN None ELSE flowing
       \/ Loses /\ UNCHANGED <<asks, flowing>>
    /\ UNCHANGED <<block, out, result, raised, polite, capped, late>>

\* The cap on 0x78 answers.
TooMany(n) == n > MaxPending

\* A positive response with the whole block.
IsTheBlock(g) == Len(g) = Frames + 1

F == Head(rx)

First ==
    /\ pc = "first" /\ rx # <<>> /\ rx' = Tail(rx)
    /\ \/ /\ F.kind = "pending"
          /\ pending' = IF pending <= MaxPending THEN pending + 1 ELSE pending
          /\ capped' = (capped \/ TooMany(pending'))
          /\ IF TooMany(pending') THEN Retry
             ELSE UNCHANGED <<pc, block, attempt, result, raised>>
          /\ UNCHANGED <<got, flowing>>
       \/ /\ F.kind = "first" /\ got' = <<<<F.block, F.place>>>> /\ pc' = "rest"
          /\ flowing' = IF flowing = None THEN None ELSE [flowing EXCEPT !.go = TRUE]
          /\ UNCHANGED <<block, attempt, pending, result, raised, capped>>
       \/ /\ F.kind = "refused" /\ got' = <<<<0, 0>>>>
          /\ IF IsTheBlock(got') THEN pc' = "stream" /\ UNCHANGED <<block, attempt, result, raised>>
             ELSE Retry
          /\ UNCHANGED <<pending, flowing, capped>>
       \/ F.kind = "next" /\ Retry /\ UNCHANGED <<pending, got, flowing, capped>>
    /\ UNCHANGED <<out, asks, polite, lost, late>>

\* The consecutive frame that was expected.
IsNext(f) == f.kind = "next" /\ f.place % SeqMod = Len(got) % SeqMod

Rest ==
    /\ pc = "rest" /\ rx # <<>> /\ rx' = Tail(rx)
    /\ IF IsNext(F)
       THEN /\ got' = Append(got, <<F.block, F.place>>)
            /\ pc' = IF Len(got) = Frames THEN "stream" ELSE "rest"
            /\ UNCHANGED <<block, attempt, result, raised>>
       ELSE Retry /\ UNCHANGED got
    /\ UNCHANGED <<pending, out, capped, ecu, lost, late>>

WaitEnds ==
    /\ pc \in {"first", "rest"} /\ TimesOut /\ Retry
    /\ UNCHANGED <<pending, got, out, capped, rx, ecu, lost>>

\* The block goes to the host; a host that takes nothing for two seconds ends it.
Stream ==
    /\ pc = "stream"
    /\ \/ /\ out' = Append(out, got) /\ attempt' = 0 /\ block' = block + 1
          /\ IF block = Blocks THEN pc' = "ended" /\ result' = "ok" /\ raised' = FALSE
             ELSE pc' = "request" /\ UNCHANGED <<result, raised>>
          /\ UNCHANGED lost
       \/ Loses /\ Ends("gone") /\ UNCHANGED out
    /\ UNCHANGED <<pending, got, capped, rx, ecu, late>>

Next == Start \/ Request \/ First \/ Rest \/ WaitEnds \/ Stream \/ Ecu

Fairness ==
    /\ WF_vars(Start \/ Request \/ First \/ Rest \/ WaitEnds \/ Stream) /\ WF_vars(Ecu)

Spec == Init /\ [][Next]_vars
FairSpec == Spec /\ Fairness

-----------------------------------------------------------------------------
(* What must hold.                                                         *)

Content(b) == [i \in 1 .. Frames + 1 |-> <<b, i - 1>>]
IsMemory == \A k \in 1 .. Len(out) : out[k] = Content(k)

(* What reaches the host is the ROM, in order and whole, whatever frames   *)
(* were lost, answers refused and attempts repeated, as long as the ECU    *)
(* answers while it is waited for, no attempt ends at the 0x78 cap with    *)
(* its answer still to come, and a new request makes the ECU drop its old  *)
(* answer: one that goes on with it collects the retries' requests         *)
(* (ncflash_fastread.c:315-322) and answers the surplus into later blocks. *)
StreamIsTheRom == late = 0 /\ ~capped /\ polite => IsMemory

(* A single loss does not end a read: the next attempt starts from a clean *)
(* queue and succeeds (ncflash_fastread.c:315-322), with an ECU that drops *)
(* its old answer for the new request.                                     *)
OneLossIsSurvived ==
    result = "gaveup" /\ polite => lost > 1 \/ late > 0 \/ capped

(* The read ends, and the bus goes back to its owners, even with an ECU    *)
(* that answers 0x78 for ever or never.                                    *)
AlwaysEnds == <>(pc = "ended" /\ ~raised)

-----------------------------------------------------------------------------
(* Claims the code does not keep.                                          *)

(* BLOCK_RETRIES: "idempotent reads: re-request a lost block"; an answer   *)
(* that was late is taken for the retry's, and the retry's own for the     *)
(* next block's.                                                           *)
StreamIsAlwaysTheRom == IsMemory

(* An ECU that goes on sending its consecutive frames fails the attempts   *)
(* after a gap as fast as they are made.                                   *)
LossIsSurvived == result = "gaveup" => lost > 1 \/ late > 0 \/ capped
=============================================================================
