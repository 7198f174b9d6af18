------------------------------ MODULE EventLog ------------------------------
(***************************************************************************)
(* The event log (components/event_log): a ring in RAM that any task       *)
(* writes, the writer task that drains it to the card under the file       *)
(* mutex, line by line with the ring's lock released in between, and the   *)
(* HTTP readers of the file and of the ring.  An event is its number; a    *)
(* slot holds the number of the event whose line is in it.                 *)
(***************************************************************************)
EXTENDS Integers, Sequences, FiniteSets

CONSTANTS
    RingN,       \* EVENT_LOG_RING_N
    MaxEvents,   \* bound: events in all
    FileLines,   \* EVENT_LOG_ROTATE_BYTES, in lines
    KeepFiles,   \* EVENT_LOG_KEEP_FILES
    MaxTears     \* bound: writes to the card that fail

VARIABLES
    head, persist,  \* s_head_seq, s_persist_seq
    ring,           \* s_ring: the event each slot holds, 0 for none
    dropped,        \* s_dropped
    file, kept,     \* the lines of events.log, and of the files rotated away
    buffer,         \* the lines of this drain that stdio has taken
    mutex,          \* s_file_mtx
    wpc, upto, at,  \* the drain: where it is, its window's end, its position
    rpc, from, end, told,  \* the reader of the ring, and what it has sent
    written,        \* every event that reached the card (history)
    faded,          \* those a flush, a sync or a close gave up unseen (history)
    torn            \* writes that the drain has seen fail (history)

log    == <<head, persist, ring, dropped>>
card   == <<file, kept, buffer, written, faded, torn>>
drain  == <<wpc, upto, at>>
reader == <<rpc, from, end, told>>
vars == <<log, card, mutex, drain, reader>>

Slot(s) == s % RingN

TypeOK ==
    /\ head \in 0 .. MaxEvents /\ persist \in 0 .. MaxEvents
    /\ ring \in [0 .. RingN - 1 -> 0 .. MaxEvents]
    /\ dropped \in Nat
    /\ file \in Seq(1 .. MaxEvents) /\ kept \in Seq(1 .. MaxEvents)
    /\ buffer \in Seq(1 .. MaxEvents)
    /\ mutex \in {"free", "writer", "file"}
    /\ wpc \in {"idle", "lines", "failed", "done"}
    /\ upto \in 0 .. MaxEvents /\ at \in 0 .. MaxEvents
    /\ rpc \in {"idle", "lines"} /\ from \in 0 .. MaxEvents /\ end \in 0 .. MaxEvents
    /\ told \in 0 .. MaxEvents
    /\ written \subseteq 1 .. MaxEvents /\ faded \subseteq 1 .. MaxEvents
    /\ torn \in 0 .. MaxTears

Init ==
    /\ head = 0 /\ persist = 0 /\ dropped = 0
    /\ ring = [i \in 0 .. RingN - 1 |-> 0]
    /\ file = <<>> /\ kept = <<>> /\ buffer = <<>>
    /\ written = {} /\ faded = {} /\ torn = 0
    /\ mutex = "free" /\ wpc = "idle" /\ upto = 0 /\ at = 0
    /\ rpc = "idle" /\ from = 0 /\ end = 0 /\ told = 0

\* evl_vemit: the line is made beforehand; the slot and the number move
\* together, under the ring's lock.
Emit ==
    /\ head < MaxEvents
    /\ ring' = [ring EXCEPT ![Slot(head)] = head + 1] /\ head' = head + 1
    /\ UNCHANGED <<persist, dropped, card, mutex, drain, reader>>

-----------------------------------------------------------------------------
(* evl_drain, on the writer task.                                          *)

\* What the ring has overrun since the last drain is lost and counted.
CountLoss ==
    IF head - persist > RingN
    THEN persist' = head - RingN /\ dropped' = dropped + head - persist - RingN
    ELSE UNCHANGED <<persist, dropped>>

\* The window is fixed; no card, a file that does not open or a mutex held
\* too long ends the drain there.
DrainBegins ==
    /\ wpc = "idle"
    /\ CountLoss
    /\ \/ /\ mutex = "free" /\ persist' # head
          /\ mutex' = "writer" /\ wpc' = "lines" /\ upto' = head /\ at' = persist'
       \/ persist' # persist /\ UNCHANGED <<mutex, wpc, upto, at>>
    /\ UNCHANGED <<head, ring, card, reader>>

\* A line is copied only while the slot still holds its event, and handed to
\* stdio; an event that a burst overwrote during the slow write is counted as
\* lost.
Line ==
    /\ wpc = "lines" /\ at < upto /\ at' = at + 1
    /\ IF ring[Slot(at)] = at + 1
       THEN \/ buffer' = Append(buffer, at + 1) /\ UNCHANGED <<wpc, torn, dropped>>
            \/ /\ torn < MaxTears /\ torn' = torn + 1 /\ wpc' = "failed"
               /\ UNCHANGED <<buffer, dropped>>
       ELSE dropped' = dropped + 1 /\ UNCHANGED <<buffer, wpc, torn>>
    /\ UNCHANGED <<head, persist, ring, file, kept, written, faded, mutex, upto, reader>>

\* The flush, the sync and the close, whose results nobody looks at, bring the
\* first n of the lines that stdio holds to the card, and drop the others.
Closes(n) ==
    /\ written' = written \cup {buffer[i] : i \in 1 .. n}
    /\ buffer' = <<>>

OnCard(n) == file \o SubSeq(buffer, 1, n)

Last(seq, n) == SubSeq(seq, IF Len(seq) > n THEN Len(seq) - n + 1 ELSE 1, Len(seq))

\* Everything in the window is dealt with, and the mark passes it whatever the
\* flush has done.  A file that is full by its position is rotated, and the
\* oldest one goes; the position may be unknown when the card has failed.
DrainEnds ==
    /\ wpc = "lines" /\ at = upto
    /\ persist' = upto
    /\ \E n \in 0 .. Len(buffer) :
          /\ Closes(n)
          /\ faded' = faded \cup {buffer[i] : i \in n + 1 .. Len(buffer)}
          /\ \/ /\ Len(file) + Len(buffer) >= FileLines
                /\ kept' = Last(kept \o OnCard(n), KeepFiles * FileLines) /\ file' = <<>>
             \/ /\ Len(file) + Len(buffer) < FileLines \/ n < Len(buffer)
                /\ file' = OnCard(n) /\ kept' = kept
    /\ mutex' = "free" /\ wpc' = "idle" /\ upto' = 0 /\ at' = 0
    /\ UNCHANGED <<head, ring, dropped, torn, reader>>

\* After a write that failed the next drain starts from the same place again.
DrainFails ==
    /\ wpc = "failed"
    /\ \E n \in 0 .. Len(buffer) : Closes(n) /\ file' = OnCard(n)
    /\ mutex' = "free" /\ wpc' = "idle" /\ upto' = 0 /\ at' = 0
    /\ UNCHANGED <<log, kept, faded, torn, reader>>

-----------------------------------------------------------------------------
(* The readers.                                                            *)

\* evl_send_file streams the file with the mutex held.
FileRead ==
    /\ \/ mutex = "free" /\ mutex' = "file"
       \/ mutex = "file" /\ mutex' = "free"
    /\ UNCHANGED <<log, card, drain, reader>>

\* evl_send_ram fixes its window, then copies line by line.
RamBegins ==
    /\ rpc = "idle" /\ head > 0
    /\ rpc' = "lines" /\ end' = head /\ told' = 0
    /\ from' = IF head < RingN THEN 0 ELSE head - RingN
    /\ UNCHANGED <<log, card, mutex, drain>>

\* Mutant: the listing shows whatever the slot holds.
RamUnchecked ==
    /\ rpc = "lines"
    /\ IF from = end
       THEN rpc' = "idle" /\ from' = 0 /\ end' = 0 /\ told' = 0
       ELSE /\ told' = ring[Slot(from)]
            /\ from' = from + 1 /\ UNCHANGED <<rpc, end>>
    /\ UNCHANGED <<log, card, mutex, drain>>

RamLine ==
    /\ rpc = "lines"
    /\ IF from = end
       THEN rpc' = "idle" /\ from' = 0 /\ end' = 0 /\ told' = 0
       ELSE /\ told' = IF ring[Slot(from)] = from + 1 THEN from + 1 ELSE told
            /\ from' = from + 1 /\ UNCHANGED <<rpc, end>>
    /\ UNCHANGED <<log, card, mutex, drain>>

Next ==
    \/ Emit \/ DrainBegins \/ Line \/ DrainEnds \/ DrainFails
    \/ FileRead \/ RamBegins \/ RamLine

Spec == Init /\ [][Next]_vars

(* The writer task runs, a download ends, and the card takes a drain in the  *)
(* end.                                                                      *)
Fairness ==
    /\ WF_vars(Line) /\ WF_vars(DrainFails) /\ WF_vars(FileRead /\ mutex = "file")
    /\ SF_vars(DrainBegins /\ wpc' = "lines") /\ SF_vars(DrainEnds)

FairSpec == Spec /\ Fairness

-----------------------------------------------------------------------------
(* Properties.                                                             *)

(* Nothing is lost in silence but what an unseen flush gave up: whenever the *)
(* writer is between two drains, every other event below the persisted mark  *)
(* that is not on the card is counted in "dropped", and while the drain has  *)
(* seen no write fail the count is exact.                                    *)
LossIsCounted ==
    wpc = "idle" =>
        LET lost == Cardinality((1 .. persist) \ (written \cup faded))
        IN  lost <= dropped /\ (torn = 0 => lost = dropped)

\* Nothing in seq comes twice or before what it followed.
Rising(seq) == \A i, j \in 1 .. Len(seq) : i < j => seq[i] < seq[j]

(* While no write was seen to fail the files hold the events in order, once  *)
(* each, across bursts that overwrite the ring under the writer and across   *)
(* rotations (evl_drain, "instead of writing a newer event's text into an    *)
(* older position, which would drop+duplicate lines").                       *)
FilesInOrder == torn = 0 => Rising(kept \o file)

(* A listing of the ring never goes backwards.                               *)
ListingInOrder == [][rpc = "lines" /\ rpc' = "lines" => told' >= told]_vars

(* The writer deals with every event in the end, however long a reader held  *)
(* the mutex or the card was away.                                           *)
EventsLand == <>[](persist = MaxEvents) \/ <>[](head < MaxEvents)

-----------------------------------------------------------------------------
(* Claims the code does not keep; no run checks them.                        *)

(* Every lost event is counted ("account the loss", "count the drop",        *)
(* evl_drain): fflush, fsync and fclose may fail, their results are not      *)
(* looked at, and the persisted mark passes lines that nothing holds any     *)
(* longer and no counter knows of.                                           *)
LossIsCountedAlways ==
    wpc = "idle" => Cardinality((1 .. persist) \ written) <= dropped

(* "which would drop+duplicate lines" (evl_drain): a write that fails in the *)
(* middle of a drain leaves the persisted mark where it was, and the lines   *)
(* before the failure are written again.                                     *)
FilesInOrderAlways == Rising(kept \o file)
=============================================================================
