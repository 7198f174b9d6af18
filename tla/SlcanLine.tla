------------------------------ MODULE SlcanLine ------------------------------
(***************************************************************************)
(* The text protocol of the dedicated port (main/slcan.c): one byte at a   *)
(* time through slcan_parse_str and slcan_set_frame, whose places are      *)
(* static and live from one call to the next, while TCP may cut the text   *)
(* anywhere.  A call after 100 ms of silence starts again at the header,   *)
(* but slcan_set_frame keeps its place.                                    *)
(* A byte is the name of its letter; digits stand for hexadecimal ones.    *)
(* slcan_buffer holds nothing from one call to the next: a call reads all  *)
(* it was passed, or all the length it took says.                          *)
(***************************************************************************)
EXTENDS Naturals, Sequences, SequencesExt

CONSTANTS
    StdLen, ExtLen, FilterLen, \* nibbles of an id and of a filter (3, 8 and 8)
    MaxDlc,       \* data bytes of a frame (8)
    Ids,          \* the ids tried, as digits
    Pairs,        \* the data bytes tried, as pairs of digits
    BadLines,     \* lines nobody should send
    IndexRange,   \* the place in a frame is a uint8_t (256)
    LenRange,     \* so is the length slcan_parse_str takes (256)
    MaxRead,      \* the bytes of a read (1023)
    MaxBad,       \* bound: bad lines and cut lines
    MaxAfter      \* bound: lines after the parser lost its place

VARIABLES
    rest,       \* bytes of the line in hand still to come
    asked,      \* what the line is
    want,       \* the frame it spells
    state, cmd, msgIndex,   \* slcan_parse_str's statics
    fstate, index, ids, high,    \* slcan_set_frame's
    frame,      \* tx_msg
    stale,      \* 100 ms since the last byte of a body
    loopback,   \* its loopback
    can,        \* can_cfg: on, silent, loop
    sent, acks, \* what this line put on the bus, and the replies to it
    clean,      \* no line yet that could cost the place (history)
    began,      \* this line met the header, or silence, in one piece (history)
    bad, after  \* counts for the bounds

parser == <<state, cmd, msgIndex, fstate, index, ids, high, frame>>
line == <<rest, asked, want, sent, acks, began>>
vars == <<line, parser, stale, loopback, can, clean, bad, after>>

NoData == [i \in 0 .. MaxDlc - 1 |-> <<"0", "0">>]
Blank == [extd |-> FALSE, rtr |-> FALSE, id |-> <<>>, dlc |-> 0, data |-> NoData,
          self |-> FALSE]

Frames ==
    {f \in [extd : BOOLEAN, rtr : BOOLEAN,
            id : Ids, dlc : 0 .. MaxDlc,
            data : [0 .. MaxDlc - 1 -> Pairs \cup {<<"0", "0">>}], self : {FALSE}] :
        /\ Len(f.id) = IF f.extd THEN ExtLen ELSE StdLen
        /\ \A i \in DOMAIN f.data :
               f.data[i] \in IF f.rtr \/ i >= f.dlc THEN {NoData[i]} ELSE Pairs}

Digits == {"0", "1", "2"}

\* ascii_to_num; anything else is a large number.
Bad == 221
Num(b) == CASE b = "0" -> 0 [] b = "1" -> 1 [] b = "2" -> 2 [] OTHER -> Bad
Letter(n) == CASE n = 0 -> "0" [] n = 1 -> "1" [] OTHER -> "2"

\* slcan_parse_frame: what the firmware sends for a frame, and a host for its own.
Encode(f) ==
    <<CASE f.rtr /\ f.extd -> "R" [] f.rtr /\ ~f.extd -> "r"
        [] ~f.rtr /\ f.extd -> "T" [] OTHER -> "t">>
    \o f.id \o <<Letter(f.dlc)>>
    \o FlattenSeq([i \in 1 .. f.dlc |-> f.data[i - 1]]) \o <<"cr">>

Commands == {<<c, "cr">> : c \in {"O", "C", "L", "Y", "V"}} \cup {<<"S", "1", "cr">>}

Init ==
    /\ rest = <<>> /\ asked = "none" /\ want = Blank /\ sent = Blank /\ acks = 0
    /\ began = "yes" /\ state = "header" /\ cmd = "none" /\ msgIndex = 0
    /\ fstate = "id" /\ index = 0 /\ ids = <<>> /\ high = "0" /\ frame = Blank /\ stale = TRUE
    /\ loopback = FALSE /\ can = [on |-> FALSE, silent |-> FALSE, loop |-> FALSE]
    /\ clean = TRUE /\ bad = 0 /\ after = 0

TypeOK ==
    /\ state \in {"header", "body", "end"} /\ fstate \in {"id", "dlc", "data"}
    /\ index \in 0 .. IndexRange - 1 /\ msgIndex \in 0 .. FilterLen
    /\ Len(frame.id) <= ExtLen /\ Len(ids) <= ExtLen /\ began \in {"yes", "no", "quiet"} /\ DOMAIN frame.data = 0 .. MaxDlc - 1
    /\ acks <= 2 /\ bad <= MaxBad /\ after <= MaxAfter

-----------------------------------------------------------------------------
(* The host.                                                               *)

Sends(bytes, what, f) ==
    /\ rest = <<>>
    /\ IF clean THEN after' = after ELSE after < MaxAfter /\ after' = after + 1
    /\ rest' = bytes /\ asked' = what /\ want' = f /\ sent' = Blank /\ acks' = 0
    /\ began' = IF state = "header" \/ began = "quiet" THEN "yes" ELSE "no"
    /\ UNCHANGED <<parser, stale, loopback, can>>

\* slcan_set_frame looks for the end of a frame after a data byte only: one that
\* has none takes what follows for its data.
Swallows(f) == ~f.rtr /\ f.dlc = 0

SendsFrame(f) ==
    Sends(Encode(f), "frame", f) /\ clean' = (clean /\ ~Swallows(f)) /\ UNCHANGED bad
SendsCommand(c) == Sends(c, Head(c), Blank) /\ UNCHANGED <<clean, bad>>
SendsBad(b) ==
    /\ bad < MaxBad /\ bad' = bad + 1 /\ Sends(b, "bad", Blank)
    /\ clean' = (clean /\ Head(b) \notin {"t", "T", "r", "R", "s", "m", "M"})

-----------------------------------------------------------------------------
(* The calls.                                                              *)

\* time_now - time_old > 100 ms; time_old is stamped by the bytes of a body only.
TimedOut(old) == old

\* What the call parses of the n bytes its read brought: the length is cut to its
\* type, and the bytes past it are dropped, later lines with them.
Parsed(n) == SubSeq(rest, 1, IF n % LenRange < Len(rest) THEN n % LenRange ELSE Len(rest))

\* TCP cuts the text here and the rest comes with another call, soon or 100 ms
\* later, in a read of n bytes; tx_msg is a new variable of the task's loop, which
\* nothing sets.
NextCall(gap, n) ==
    /\ rest # <<>> \/ gap
    /\ IF rest = <<>> THEN UNCHANGED bad ELSE bad < MaxBad /\ bad' = bad + 1
    /\ stale' = (stale \/ gap)
    /\ IF TimedOut(stale')
       THEN state' = "header" /\ cmd' = "none" /\ msgIndex' = 0
       ELSE UNCHANGED <<state, cmd, msgIndex>>
    /\ frame' \in {frame, Blank}
    /\ began' = IF rest = <<>> THEN "quiet" ELSE "no"
    /\ clean' = (clean /\ (rest = <<>> \/ asked # "frame"))
    /\ n >= Len(rest) /\ rest' = Parsed(n)
    /\ UNCHANGED <<asked, want, sent, acks, fstate, index, ids, high, loopback, can, after>>

B == Head(rest)
Takes == rest # <<>> /\ rest' = Tail(rest)
Keep == UNCHANGED <<asked, want, began, clean, bad, after>>

\* The driver takes settings only while it is off the bus.
Driver(silent, loop) ==
    can' = IF can.on THEN can ELSE [on |-> TRUE, silent |-> silent, loop |-> loop]

\* Mutant: L leaves the loopback of Y on.
MuteKeeps(c) == IF c = "L" THEN loopback ELSE c = "Y"

\* The parser's own copy: O, L and Y set it.
Loops(c) == c = "Y"

\* SL_HEADER: one letter; what is not a command is passed over.
Header ==
    /\ state = "header" /\ Takes
    /\ \/ /\ B \in {"O", "L", "Y"} /\ state' = "end"
          /\ cmd' = "open" /\ loopback' = Loops(B) /\ Driver(B = "L", B = "Y")
       \/ B = "C" /\ state' = "end" /\ cmd' = "close" /\ can' = [can EXCEPT !.on = FALSE]
          /\ UNCHANGED loopback
       \/ /\ B \in {"V", "N", "F"} /\ state' = "end" /\ cmd' = "ver"
          /\ UNCHANGED <<loopback, can>>
       \/ /\ B \in {"S", "a", "D", "Z", "m", "M", "s", "t", "T", "r", "R"} /\ state' = "body"
          /\ cmd' = B /\ UNCHANGED <<loopback, can>>
       \/ /\ B \in {"cr", "bogus"} \cup Digits
          /\ UNCHANGED <<state, cmd, loopback, can>>
    /\ UNCHANGED <<msgIndex, fstate, index, ids, high, frame, stale, sent, acks>> /\ Keep

\* SL_BODY of a command: one byte, or the nibbles of a filter.
CommandBody ==
    /\ state = "body" /\ cmd \in {"S", "a", "D", "Z", "m", "M"} /\ Takes /\ stale' = FALSE
    /\ IF cmd \in {"m", "M"} /\ msgIndex + 1 < FilterLen
       THEN msgIndex' = msgIndex + 1 /\ UNCHANGED state
       ELSE msgIndex' = 0 /\ state' = "end"
    /\ UNCHANGED <<cmd, fstate, index, ids, high, frame, loopback, can, sent, acks>> /\ Keep

\* The count once an id is complete.
IdDone(i) == 0

IdLen == IF cmd \in {"T", "R"} THEN ExtLen ELSE StdLen

IdByte ==
    /\ fstate = "id" /\ UNCHANGED <<high, state>>
    /\ ids' = IF index < ExtLen THEN Append(SubSeq(ids, 1, index), B) ELSE ids
    /\ IF index + 1 = IdLen
       THEN /\ fstate' = "dlc" /\ index' = IdDone(index)
            /\ frame' = [frame EXCEPT !.id = ids', !.extd = cmd \in {"T", "R"}]
       ELSE fstate' = "id" /\ index' = (index + 1) % IndexRange /\ UNCHANGED frame

\* A frame is complete; "s" is no frame, and its body goes on.
Complete(f) ==
    /\ fstate' = "id" /\ index' = 0 /\ ids' = <<>> /\ high' = "0"
    /\ frame' = [f EXCEPT !.rtr = cmd \in {"r", "R"}, !.extd = cmd \in {"T", "R"}]
    /\ state' = IF cmd = "s" THEN "body" ELSE "end"

DlcByte ==
    /\ fstate = "dlc"
    /\ LET f == [frame EXCEPT !.dlc = Num(B)] IN
       IF cmd \in {"r", "R"} THEN Complete(f)
       ELSE frame' = f /\ fstate' = "data" /\ UNCHANGED <<index, ids, high, state>>

\* Past the eighth byte the code writes outside the frame: nothing is said of it.
Stored(f, i, pair) == IF i < MaxDlc THEN [f EXCEPT !.data[i] = pair] ELSE f

DataByte ==
    /\ fstate = "data"
    /\ LET f == IF index % 2 = 0 THEN frame ELSE Stored(frame, index \div 2, <<high, B>>)
           next == (index + 1) % IndexRange
       IN  IF next = 2 * frame.dlc THEN Complete(f)
           ELSE /\ high' = IF index % 2 = 0 THEN B ELSE high
                /\ frame' = f /\ index' = next /\ UNCHANGED <<fstate, ids, state>>

FrameBody ==
    /\ state = "body" /\ cmd \in {"t", "T", "r", "R", "s"} /\ Takes /\ stale' = FALSE
    /\ IdByte \/ DlcByte \/ DataByte
    /\ UNCHANGED <<cmd, msgIndex, loopback, can, sent, acks>> /\ Keep

\* SL_END: all but the end of the line is passed over; every line is answered.
End ==
    /\ state = "end" /\ Takes
    /\ IF B = "cr"
       THEN /\ acks' = acks + 1 /\ state' = "header" /\ cmd' = "none" /\ msgIndex' = 0
            /\ IF cmd \in {"t", "T", "r", "R"}
               THEN sent' = [frame EXCEPT !.self = loopback] ELSE UNCHANGED sent
            /\ frame' = Blank   \* every field is set again before it is read
       ELSE UNCHANGED <<acks, state, cmd, msgIndex, frame, sent>>
    /\ UNCHANGED <<fstate, index, ids, high, stale, loopback, can>> /\ Keep

Next ==
    \/ \E f \in Frames : SendsFrame(f)
    \/ \E c \in Commands : SendsCommand(c)
    \/ \E b \in BadLines : SendsBad(b)
    \/ \E gap \in BOOLEAN, n \in 1 .. MaxRead : NextCall(gap, n)
    \/ Header \/ CommandBody \/ FrameBody \/ End

Spec == Init /\ [][Next]_vars

-----------------------------------------------------------------------------
(* What must hold.                                                         *)

LineDone == rest = <<>> /\ began = "yes"

Same(f, g) ==
    /\ f.extd = g.extd /\ f.rtr = g.rtr /\ f.id = g.id /\ f.dlc = g.dlc
    /\ ~f.rtr => \A i \in 0 .. g.dlc - 1 : f.data[i] = g.data[i]

(* The frame a line spells is the frame sent, bit for bit, whatever lines  *)
(* and settings came before, as long as none of them was a frame cut or    *)
(* misspelt, or a data frame without data: for the others                  *)
(* slcan_parse_frame and slcan_set_frame are inverse, and a frame leaves   *)
(* both parsers at their start.                                            *)
FramesAreAsTyped ==
    clean /\ LineDone /\ asked = "frame" =>
        Same(sent, want) /\ acks = 1 /\ fstate = "id" /\ index = 0 /\ state = "header"

(* A command that meets the header is obeyed and answered once, even when  *)
(* the frame parser is stuck in a frame nobody finished.                   *)
CommandsGetThrough ==
    LineDone /\ asked \in {"O", "C", "L", "Y", "S", "V"} =>
        /\ acks = 1 /\ state = "header"
        /\ asked = "C" => ~can.on
        /\ asked \in {"O", "L", "Y"} => can.on

(* A frame is sent to itself only on a bus opened with Y since it was last *)
(* closed, or asked for Y while open: never after L or O.                  *)
SelfOnlyAfterY == [][can'.on /\ ~can.on => loopback' = can'.loop]_vars

-----------------------------------------------------------------------------
(* Claims the code does not keep.                                          *)

(* What the firmware itself writes for a frame without data it does not    *)
(* read back: it looks for the end after a data byte (slcan.c:209-233), and *)
(* takes 255 bytes of later lines for data.                                *)
EmptyFramesAreSent ==
    LineDone /\ asked = "frame" /\ Swallows(want) => Same(sent, want)

(* A call parses every byte of its read: main.c:291 passes up to 1023, and *)
(* slcan_parse_str takes the length modulo 256.                            *)
ReadsAreWhole == [][rest # <<>> => rest' \in {rest, Tail(rest)}]_vars

(* Silence of 100 ms "resets" the parser (slcan.c:258-266); the frame      *)
(* parser keeps its place, and a frame cut short costs the next ones.      *)
FramesAfterSilence ==
    LineDone /\ asked = "frame" => Same(sent, want)

(* Y and L open the bus as loopback and listen-only (slcan.c:286-314); on  *)
(* a bus that is open the driver refuses them and the reply is the same.   *)
ModeIsAsAsked ==
    LineDone /\ asked \in {"O", "L", "Y"} => can.silent = (asked = "L") /\ can.loop = (asked = "Y")
=============================================================================
