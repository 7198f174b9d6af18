------------------------------ MODULE BleLink ------------------------------
(***************************************************************************)
(* The Bluetooth link (main/ble.c): the stack's task handles its events in *)
(* order, a phone's connection takes the web server and Wi-Fi down and its *)
(* going brings them back, ble_task packs the chip's unsolicited lines     *)
(* into notifications, and the console answers the phone's commands with   *)
(* others.  The attribute tables and the pairing dialogue are left out; a  *)
(* notification is a run of numbered bytes.                                *)
(***************************************************************************)
EXTENDS Naturals, Sequences, SequencesExt

CONSTANTS
    Narrow, Wide,   \* bytes of a notification, before and after a larger MTU
    LengthMod,      \* ble_send's length is a uint8_t: modulo this
    Packets,        \* notifications the stack takes before one is confirmed
    MaxLine,        \* bytes of a line of the chip
    TxCap, RxCap,   \* xmsg_ble_tx_queue, xMsg_Rx_Queue
    MaxEvents,      \* bound: events waiting for the stack's task
    MaxBytes,       \* bound: bytes the chip says
    MaxLinks,       \* bound: connections
    MaxTyped,       \* bound: notifications of the console
    MaxEnables      \* bound: ble_enable

VARIABLES
    enabled,    \* DEV_BLE_ENABLED_BIT
    setting,    \* adv_config_done: what is still being configured
    adv,        \* advertising
    link, mtu,  \* the phone that is connected, 0 for none; its MTU
    events,     \* what the stack's task has yet to handle
    bit,        \* BLE_CONNECTED_BIT of the event group
    congested, jam, \* BLE_CONGEST_BIT, and whether the link really is
    up,         \* the web server and Wi-Fi run
    size,       \* ble_max_data_size
    rx, busy,   \* xMsg_Rx_Queue's fill; its task is in a flash codec
    tx,         \* xmsg_ble_tx_queue: lines
    pc, room,   \* ble_task: where it is, and its free_packet
    held,       \* ble_send_buf
    free,       \* what the stack can still take
    got, first, \* what the phone has received, and its first own byte
    crowded,    \* the console took packets ble_task had counted (history)
    said,       \* bytes said so far
    links, typed, enables, cut \* cut: disabled under a phone, its event lost

stack == <<enabled, setting, adv, link, mtu, events, links, typed, enables, cut>>
task  == <<pc, room, held, tx>>
air   == <<free, got, first, jam, crowded>>
vars  == <<stack, bit, congested, up, size, rx, busy, task, air, said>>

TypeOK ==
    /\ enabled \in BOOLEAN /\ setting \subseteq {"adv", "scan"} /\ adv \in BOOLEAN
    /\ link \in 0 .. MaxLinks /\ mtu \in {Narrow, Wide} /\ size \in {Narrow, Wide}
    /\ Len(events) <= MaxEvents /\ {bit, congested, jam, crowded, up, busy, cut} \subseteq BOOLEAN
    /\ rx \in 0 .. RxCap /\ Len(tx) <= TxCap /\ Len(held) < size
    /\ pc \in {"bit", "peek", "again", "check", "ready", "fill"} /\ room \in 0 .. Packets
    /\ free \in 0 .. Packets /\ first \in 1 .. MaxBytes + 1 /\ said \in 0 .. MaxBytes
    /\ typed \in 0 .. MaxTyped

Init ==
    /\ enabled = FALSE /\ setting = {} /\ adv = FALSE /\ link = 0 /\ mtu = Narrow
    /\ events = <<>> /\ bit = FALSE /\ congested = FALSE /\ jam = FALSE /\ up = TRUE
    /\ size = Narrow /\ rx = 0 /\ busy = FALSE /\ tx = <<>> /\ pc = "bit" /\ room = 0
    /\ held = <<>> /\ free = 0 /\ got = <<>> /\ first = 1 /\ said = 0 /\ crowded = FALSE
    /\ links = 0 /\ typed = 0 /\ enables = 0 /\ cut = FALSE

-----------------------------------------------------------------------------
(* The phone and the radio.                                                *)

Raise(e) == Len(events) < MaxEvents /\ events' = Append(events, e)
Quiet == UNCHANGED <<enabled, setting, bit, congested, up, size, rx, busy, task, said,
                     enables, cut>>

PhoneComes ==
    /\ adv /\ link = 0 /\ links < MaxLinks /\ Raise("connect")
    /\ links' = links + 1 /\ link' = links' /\ adv' = FALSE /\ mtu' = Narrow
    /\ free' = Packets /\ got' = <<>> /\ first' = said + 1 /\ crowded' = FALSE
    /\ UNCHANGED <<jam, typed>> /\ Quiet

PhoneGoes ==
    /\ link # 0 /\ Raise("gone") /\ link' = 0 /\ free' = 0 /\ jam' = FALSE
    /\ mtu' = Narrow /\ got' = <<>> /\ first' = 1 /\ crowded' = FALSE
    /\ UNCHANGED <<adv, links, typed>> /\ Quiet

PhoneAsks ==
    /\ link # 0 /\ mtu = Narrow /\ Raise("mtu") /\ mtu' = Wide
    /\ UNCHANGED <<adv, link, links, typed, air>> /\ Quiet

PhoneWrites ==
    link # 0 /\ Raise("write") /\ UNCHANGED <<adv, link, mtu, links, typed, air>> /\ Quiet

\* A command of the console, by the notifications of its answer and prompt: an
\* event for each.
PhoneTypes ==
    /\ link # 0 /\ typed < MaxTyped /\ typed' = typed + 1 /\ Raise("cli")
    /\ UNCHANGED <<adv, link, mtu, links, air>> /\ Quiet

Jams ==
    /\ link # 0 /\ jam' = ~jam /\ Raise(IF jam THEN "clear" ELSE "jam")
    /\ UNCHANGED <<adv, link, mtu, links, typed, free, got, first, crowded>> /\ Quiet

Confirms ==
    /\ link # 0 /\ free < Packets /\ free' = free + 1
    /\ UNCHANGED <<adv, link, mtu, links, typed, events, got, first, jam, crowded>> /\ Quiet

-----------------------------------------------------------------------------
(* The events, in the stack's task.                                        *)

\* Both the advertisement and the scan response are set.
AllSet(s) == s = {}

\* Mutant: the web server and Wi-Fi are left down.
StaysDown(u) == u

\* wifi_mgr_enable, config_server_restart.
BackUp(u) == TRUE

\* The bit after a disconnection.
Disconnected(b) == FALSE

E == Head(events)
Same == UNCHANGED <<enabled, link, mtu, links, typed, enables, cut, busy, task, got, first, jam,
                    said>>
Rest == events' = Tail(events)

Sets(e) ==
    /\ Rest /\ setting' = setting \ {e} /\ adv' = (adv \/ AllSet(setting'))
    /\ UNCHANGED <<bit, congested, up, size, rx>>

Connected ==
    /\ Rest /\ up' = FALSE /\ bit' = TRUE
    /\ UNCHANGED <<setting, adv, congested, size, rx>>

Gone ==
    /\ Rest /\ up' = BackUp(up) /\ bit' = Disconnected(bit) /\ adv' = TRUE
    /\ UNCHANGED <<setting, congested, size, rx>>

\* ble_cmdline_output waits a while for a packet, and sends in any case; it
\* knows nothing of the packets ble_task has counted for its lines.
Answers ==
    /\ Rest /\ free' = IF free > 0 THEN free - 1 ELSE free
    /\ crowded' = (crowded \/ (pc = "fill" /\ free' < room))
    /\ UNCHANGED <<setting, adv, bit, congested, up, size, rx>>

Handle ==
    /\ events # <<>> /\ Same
    /\ E = "cli" \/ UNCHANGED <<free, crowded>>
    /\ \/ /\ E = "reg" /\ events' = Append(Tail(events), "private")
          /\ UNCHANGED <<setting, adv, bit, congested, up, size, rx>>
       \/ /\ E = "private" /\ events' = Tail(events) \o <<"adv", "scan">>
          /\ setting' = {"adv", "scan"} /\ UNCHANGED <<adv, bit, congested, up, size, rx>>
       \/ E \in {"adv", "scan"} /\ Sets(E)
       \/ E = "connect" /\ Connected
       \/ E = "gone" /\ Gone
       \/ E = "cli" /\ Answers
       \/ /\ E = "mtu" /\ Rest /\ size' = Wide
          /\ UNCHANGED <<setting, adv, bit, congested, up, rx>>
       \/ /\ E \in {"jam", "clear"} /\ Rest /\ congested' = (E = "jam")
          /\ UNCHANGED <<setting, adv, bit, up, size, rx>>
       \* a write waits, for ever if need be, for a place in the receive queue
       \/ /\ E = "write" /\ rx < RxCap /\ Rest /\ rx' = rx + 1
          /\ UNCHANGED <<setting, adv, bit, congested, up, size>>

\* can_tx_task: a line of this channel is thrown away.
CanTx ==
    /\ rx > 0 /\ ~busy /\ rx' = rx - 1
    /\ UNCHANGED <<stack, bit, congested, up, size, busy, task, air, said>>

CodecRuns ==
    /\ up \/ busy
    /\ busy' = ~busy /\ UNCHANGED <<stack, bit, congested, up, size, rx, task, air, said>>

Enable ==
    /\ ~enabled /\ enables < MaxEnables /\ enables' = enables + 1 /\ enabled' = TRUE
    /\ events' = <<"reg">>
    /\ UNCHANGED <<setting, adv, link, mtu, links, typed, cut, bit, congested, up, size, rx, busy,
                   task, air, said>>

\* The phone's disconnection is handled before the stack is gone, or is lost.
Disable ==
    /\ enabled /\ enabled' = FALSE /\ events' = <<>> /\ adv' = FALSE
    /\ link' = 0 /\ free' = 0 /\ jam' = FALSE /\ mtu' = Narrow /\ got' = <<>> /\ first' = 1
    /\ crowded' = FALSE
    /\ \/ UNCHANGED <<up, bit>> /\ cut' = (cut \/ link # 0 \/ bit)
       \/ (link # 0 \/ bit) /\ up' = BackUp(up) /\ bit' = Disconnected(bit) /\ UNCHANGED cut
    /\ UNCHANGED <<setting, links, typed, enables, congested, size, rx, busy, task, said>>

-----------------------------------------------------------------------------
(* The chip's lines, and ble_task.                                         *)

\* send_to_host, from the read task; a line that finds the queue full is lost
\* and has no numbers here.
ChipSays ==
    /\ Len(tx) < TxCap
    /\ \E n \in 1 .. MaxLine :
          /\ said + n <= MaxBytes /\ said' = said + n
          /\ tx' = Append(tx, [i \in 1 .. n |-> said + i])
    /\ UNCHANGED <<stack, bit, congested, up, size, rx, busy, pc, room, held, air>>

Still == UNCHANGED <<stack, bit, congested, up, size, rx, busy, first, jam, crowded,
                     said>>
Step(from, to) == pc = from /\ pc' = to /\ Still

Waits ==
    \/ Step("bit", "peek") /\ bit /\ UNCHANGED <<room, held, tx, free, got>>
    \/ Step("peek", "again") /\ tx # <<>> /\ UNCHANGED <<room, held, tx, free, got>>
    \/ Step("again", "check") /\ bit /\ UNCHANGED <<room, held, tx, free, got>>
    \/ Step("check", "ready") /\ bit /\ UNCHANGED <<room, held, tx, free, got>>
    \/ Step("check", "bit") /\ ~bit /\ tx' = Tail(tx) /\ UNCHANGED <<room, held, free, got>>
    \/ /\ Step("ready", "fill") /\ bit /\ free > 0 /\ ~congested /\ room' = free
       /\ UNCHANGED <<held, tx, free, got>>
    \/ Step("ready", "bit") /\ bit /\ free > 0 /\ congested /\ UNCHANGED <<room, held, tx, free, got>>

\* What the phone gets of n notifications with these bytes: ble_send drops one
\* that the stack has no room for.
Lesser(a, b) == IF a < b THEN a ELSE b
Heard(bytes) == SubSeq(bytes, 1, Lesser(Len(bytes) % LengthMod, mtu))
Part(bytes, k) == SubSeq(bytes, (k - 1) * size + 1, Lesser(k * size, Len(bytes)))
Sends(bytes, n) ==
    LET k == IF bit THEN Lesser(n, free) ELSE 0
    IN  /\ free' = free - k
        /\ got' = got \o FlattenSeq([i \in 1 .. k |-> Heard(Part(bytes, i))])

\* The notifications n bytes take.
Needed(n) == n \div size + (IF n % size = 0 THEN 0 ELSE 1)

\* The next line fits in what the stack takes.
Fits == tx # <<>> /\ Needed(Len(held) + Len(Head(tx))) <= room

\* One line more, while it fits; if the last notification went before the
\* line's end, the rest of the line would be lost.
Takes ==
    /\ pc = "fill" /\ Fits
    /\ LET all == held \o Head(tx)
           n   == Lesser(Len(all) \div size, room)
       IN  /\ Sends(all, n) /\ room' = room - n
           /\ held' = IF room' = 0 THEN <<>> ELSE SubSeq(all, n * size + 1, Len(all))
    /\ tx' = Tail(tx) /\ UNCHANGED pc /\ Still

Flushes ==
    /\ Step("fill", "bit") /\ ~Fits
    /\ IF room # 0 /\ held # <<>> THEN Sends(held, 1) /\ held' = <<>>
       ELSE UNCHANGED <<held, free, got>>
    /\ UNCHANGED <<room, tx>>

BleTask == Waits \/ Takes \/ Flushes

Next ==
    \/ PhoneComes \/ PhoneGoes \/ PhoneAsks \/ PhoneWrites \/ PhoneTypes \/ Jams \/ Confirms
    \/ Handle \/ CanTx \/ CodecRuns \/ Enable \/ Disable \/ ChipSays \/ BleTask

\* The tasks run, a codec ends, the radio confirms.
Fairness ==
    /\ WF_vars(Handle) /\ SF_vars(CanTx) /\ WF_vars(busy /\ CodecRuns)
    /\ WF_vars(BleTask) /\ WF_vars(Confirms)

Spec == Init /\ [][Next]_vars
FairSpec == Spec /\ Fairness

-----------------------------------------------------------------------------
(* What must hold.                                                         *)

(* ble_task takes a link for up exactly when one is, once the stack's      *)
(* events are handled.                                                     *)
BitIsTheLink == (events = <<>> /\ ~cut) => (bit <=> link # 0)

\* What was said to this phone and has not been lost.
Own == SelectSeq(got \o held \o FlattenSeq(tx), LAMBDA b : b >= first)

(* With the MTU a link starts with, what the chip says reaches the phone   *)
(* in order and whole, however the lines fall on notifications and on the  *)
(* stack's room (ble.c:1202-1261), unless the console used the room that   *)
(* ble_task had counted for a line.                                        *)
NoGaps ==
    link # 0 /\ size = Narrow /\ ~crowded =>
        \A i \in 1 .. Len(Own) : Own[i] = said - Len(Own) + i

(* Once the phone has gone for good the web server and Wi-Fi run, even if  *)
(* the stack's task was waiting for a flash to end.                        *)
ServedAgain == <>[](link = 0) => (<>[]up \/ <>[]cut)

(* Enabled and without a phone, the device ends up advertising.            *)
FoundAgain == <>[](enabled /\ link = 0) => <>[]adv

(* What is queued for a phone that stays, on a link that is not congested, *)
(* is taken, once its commands have come to an end (MaxTyped).             *)
LinesFlow == <>[](link # 0 /\ bit /\ ~congested) => []<>(tx = <<>>)

-----------------------------------------------------------------------------
(* Claims the code does not keep.                                          *)

(* ble.c:359: with a larger MTU "the ble_max_data_size will be set to the  *)
(* minium of BLE_SEND_BUF_SIZE and (spp_mtu_size - 3)"; of a notification  *)
(* of 256 bytes or more only the length modulo 256 is sent.                *)
WideNoGaps == link # 0 => \A i \in 1 .. Len(Own) : Own[i] = said - Len(Own) + i

(* ble.c:1204: "figure out how many packets are needed"; the console may   *)
(* have used them by the time ble_send, which drops in silence, gets there.*)
NoGapsAlways ==
    link # 0 /\ size = Narrow => \A i \in 1 .. Len(Own) : Own[i] = said - Len(Own) + i

(* What an earlier phone did not get goes to the next.                     *)
OnlyItsOwn == \A i \in 1 .. Len(got) : got[i] >= first

(* The congestion of a link that broke is still there on the next.         *)
FlowsWhenClear == <>[](link # 0 /\ bit /\ ~jam) => []<>(tx = <<>>)

(* Disabled under a phone, Bluetooth leaves the web server down.           *)
ServedAfterDisable == <>[](link = 0) => <>[]up
=============================================================================
