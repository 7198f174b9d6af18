--------------------------- MODULE DatalogStream ---------------------------
(***************************************************************************)
(* The live datalog stream (main/datalog_stream.c): the hook on the trip   *)
(* logger's writer task is the only producer of the message ring, the      *)
(* stream task its only consumer and the only user of the sockets, and the *)
(* client's generation is all they share.  Lines are what a client can     *)
(* tell apart: a state line, or a row by its number; a trip by its number. *)
(***************************************************************************)
EXTENDS Integers, Sequences

CONSTANTS
    RingCap,      \* STREAM_RING_BYTES, in messages
    MaxRows,      \* bound: rows written in all
    MaxTrips,     \* bound: trips opened in all
    MaxClients    \* bound: clients accepted in all

VARIABLES
    liveGen,      \* s_live_gen: 0 without a client
    ring,         \* the messages on their way
    \* the writer task's
    trip,         \* s_sess_active and s_sess_file: 0 without an open trip
    served,       \* s_served_gen
    syncPending, syncFresh, drops,   \* s_sync_pending, s_sync_fresh, s_pending_drops
    rows, trips,  \* rows and trips so far (history)
    \* the stream task's
    clients,      \* gen_counter
    known,        \* the trip its client was last told of (history)
    next          \* the row its client has not been accounted for (history)

writer == <<trip, served, syncPending, syncFresh, drops, rows, trips>>
stream == <<liveGen, clients, known>>
vars == <<liveGen, ring, writer, clients, known, next>>

\* A client that has heard the hello only, and one told there is no trip.
Hello  == -1
NoTrip == 0

Lines == {"row", "idle", "close", "session"}
Messages == [gen : 1 .. MaxClients, dropped : 0 .. MaxRows, line : Lines,
             trip : 0 .. MaxTrips, row : 0 .. MaxRows]

TypeOK ==
    /\ liveGen \in 0 .. MaxClients /\ clients \in 0 .. MaxClients
    /\ ring \in Seq(Messages) /\ Len(ring) <= RingCap
    /\ trip \in 0 .. MaxTrips /\ served \in 0 .. MaxClients
    /\ syncPending \in BOOLEAN /\ syncFresh \in BOOLEAN
    /\ drops \in 0 .. MaxRows /\ rows \in 0 .. MaxRows /\ trips \in 0 .. MaxTrips
    /\ known \in Hello .. MaxTrips
    /\ next \in 0 .. MaxRows + 1

Init ==
    /\ liveGen = 0 /\ ring = <<>> /\ clients = 0 /\ known = Hello /\ next = 0
    /\ trip = 0 /\ served = 0 /\ syncPending = FALSE /\ syncFresh = FALSE
    /\ drops = 0 /\ rows = 0 /\ trips = 0

-----------------------------------------------------------------------------
(* The hook, on the writer task.                                           *)

\* stream_put: a message fits whole or is not queued; it carries the drops
\* before it.  "fits" is the ring's choice below its capacity, because
\* messages are not of one size.
Message(line, t, n, d) ==
    [gen |-> liveGen, dropped |-> d, line |-> line, trip |-> t, row |-> n]

\* stream_put_sync: the state line a client is due.
StateLine(t, fresh) ==
    IF t # 0 THEN "session" ELSE IF fresh THEN "idle" ELSE "close"

\* Mutant: a row is sent while the client still waits for its state line.
RowOvertakes(t, pend, fresh, d, isRow) ==
    LET sync == Message(StateLine(t, fresh), t, 0, d)
        row  == Message("row", t, rows', IF pend THEN 0 ELSE d)
    IN  \E synced \in (IF pend THEN BOOLEAN ELSE {FALSE}),
           sent \in (IF isRow THEN BOOLEAN ELSE {FALSE}) :
        /\ ring' = ring \o (IF synced THEN <<sync>> ELSE <<>>)
                        \o (IF sent THEN <<row>> ELSE <<>>)
        /\ Len(ring') <= RingCap
        /\ syncPending' = (pend /\ ~synced)
        /\ syncFresh' = (fresh /\ ~synced)
        /\ drops' = (IF synced \/ sent THEN 0 ELSE d)
                      + (IF isRow /\ ~sent THEN 1 ELSE 0)

\* The end of stream_hook for a client: a pending state line is tried first,
\* and no row overtakes it; a row that does not fit, or may not, is counted.
Serve(t, pend, fresh, d, isRow) ==
    LET sync == Message(StateLine(t, fresh), t, 0, d)
    IN  \E synced \in (IF pend THEN BOOLEAN ELSE {FALSE}) :
        LET left == IF synced THEN 0 ELSE d
            may  == isRow /\ (pend => synced)
            row  == Message("row", t, rows', left)
        IN  \E sent \in (IF may THEN BOOLEAN ELSE {FALSE}) :
            /\ ring' = ring \o (IF synced THEN <<sync>> ELSE <<>>)
                            \o (IF sent THEN <<row>> ELSE <<>>)
            /\ Len(ring') <= RingCap
            /\ syncPending' = (pend /\ ~synced)
            /\ syncFresh' = (fresh /\ ~synced)
            /\ drops' = IF sent THEN 0 ELSE left + (IF isRow THEN 1 ELSE 0)

\* stream_hook after the event: nobody is served without a client; a new one
\* starts with a full sync and owes no earlier drops.
Adopt(t, isRow, changed) ==
    IF liveGen = 0
    THEN served' = 0 /\ syncPending' = (syncPending \/ changed)
         /\ UNCHANGED <<ring, syncFresh, drops, next>>
    ELSE IF liveGen # served
    THEN served' = liveGen /\ next' = rows + 1 /\ Serve(t, TRUE, TRUE, 0, isRow)
    ELSE UNCHANGED <<served, next>>
         /\ Serve(t, syncPending \/ changed, syncFresh, drops, isRow)

HookOpen ==
    /\ trip = 0 /\ trips < MaxTrips
    /\ trips' = trips + 1 /\ trip' = trips + 1
    /\ Adopt(trip', FALSE, TRUE)
    /\ UNCHANGED <<rows, stream>>

HookClose ==
    /\ trip # 0 /\ trip' = 0
    /\ Adopt(0, FALSE, TRUE)
    /\ UNCHANGED <<rows, trips, stream>>

HookRow ==
    /\ trip # 0 /\ rows < MaxRows /\ rows' = rows + 1
    /\ Adopt(trip, TRUE, FALSE)
    /\ UNCHANGED <<trip, trips, stream>>

\* Once a pass, so that a new client is answered without a trip.
HookPoll ==
    /\ Adopt(trip, FALSE, FALSE)
    /\ UNCHANGED <<trip, rows, trips, stream>>

-----------------------------------------------------------------------------
(* The stream task.                                                        *)

\* stream_drop_client: the generation goes first.
DropClient ==
    /\ liveGen # 0 /\ liveGen' = 0
    /\ UNCHANGED <<ring, writer, clients, known, next>>

\* stream_adopt_client: the hello, then the generation.  A newer client
\* replaces the one there is.
Accept ==
    /\ clients < MaxClients
    /\ clients' = clients + 1 /\ liveGen' = clients + 1 /\ known' = Hello
    /\ UNCHANGED <<ring, writer, next>>

\* A message for the connected client is sent to it ...
Deliver ==
    /\ ring # <<>> /\ liveGen # 0 /\ Head(ring).gen = liveGen
    /\ ring' = Tail(ring)
    /\ known' = IF Head(ring).line = "row" THEN known ELSE Head(ring).trip
    /\ next' = next + Head(ring).dropped + (IF Head(ring).line = "row" THEN 1 ELSE 0)
    /\ UNCHANGED <<liveGen, writer, clients>>

\* ... and one for an earlier client is thrown away.
Discard ==
    /\ ring # <<>> /\ liveGen # 0 /\ Head(ring).gen # liveGen
    /\ ring' = Tail(ring)
    /\ UNCHANGED <<writer, stream, next>>

Next ==
    \/ HookOpen \/ HookClose \/ HookRow \/ HookPoll
    \/ Accept \/ DropClient \/ Deliver \/ Discard

Spec == Init /\ [][Next]_vars

(* The writer's loop and the stream task run; a poll whose line fits often  *)
(* enough gets it in.                                                       *)
Fairness ==
    /\ WF_vars(HookPoll) /\ WF_vars(Deliver) /\ WF_vars(Discard)
    /\ SF_vars(HookPoll /\ ~syncPending')

FairSpec == Spec /\ Fairness

-----------------------------------------------------------------------------
(* Properties.                                                             *)

\* This step sends a row to the client.
SendsRow == /\ ring # <<>> /\ ring' = Tail(ring) /\ Head(ring).line = "row"
            /\ next' > next

(* A client is never misled about the rows it misses: between two rows it    *)
(* is sent, the #drop counts add up to exactly the rows in between, whatever *)
(* trips and earlier clients did to the ring (datalog_stream.h, "#drop <n>   *)
(* n rows were skipped here").                                               *)
GapsAnnounced ==
    [][SendsRow => Head(ring).row = next + Head(ring).dropped]_vars

(* Every row a client is sent belongs to the trip it was last told about.    *)
RowsOfKnownTrip ==
    [][SendsRow => Head(ring).trip = known]_vars

(* A client that stays connected hears where the log stands, however full    *)
(* the ring was left for it.                                                 *)
ClientHearsState == []<>(liveGen = 0 \/ known # Hello)
=============================================================================
