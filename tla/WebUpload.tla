----------------------------- MODULE WebUpload -----------------------------
(***************************************************************************)
(* One upload over HTTP: the body taken off the connection in reads of any *)
(* size, its chunked framing undone (multipart_upload.c), the multipart    *)
(* parser's callbacks, and the two sinks behind them, the firmware update  *)
(* and the staged image on the SD card (config_server.c).  One symbol      *)
(* stands for a byte, a run of data or a part's headers; whether the       *)
(* handler may run at all is FlashFence's.                                 *)
(***************************************************************************)
EXTENDS Integers, SequencesExt

CONSTANTS RxSize, MaxUpload    \* the receive buffer; MAX_SD_UPLOAD_SIZE

VARIABLES
    req,      \* what is sent and how, the same throughout
    wire,     \* what the connection has still to give
    left,     \* remaining, of the declared length
    known,    \* the boundary: "no", not known; "whole", named or its line met in the
              \* first data; "late", met after more; "wrong", half of its line
    rx,       \* what is held while it is not known
    dc,       \* the dechunker
    part,     \* the parser: "start", "part", "over", or "bad", stopped
    accept,   \* accept_current_part
    ctx,      \* the sink's context
    result,   \* of multipart_upload_handle: "runs", "ok", "fail"
    reply,    \* "none", "ok", "error"
    boot,     \* the image the next boot starts: "old", "new"
    final     \* the staged file: Old, Gone, or what it holds

vars == <<req, wire, left, known, rx, dc, part, accept, ctx, result, reply, boot, final>>

Data == {"p", "q", "r"}
Old  == <<"old">>
Gone == <<>>

-----------------------------------------------------------------------------
(* What clients send.                                                      *)

\* "field" and "file" are a part's boundary and headers, "end" the last boundary.
Bodies == {<<"field", "r", "file", "p", "q", "end">>, <<"file", "p", "q", "r", "end", "tail">>,
           <<"file", "p", "file", "q", "end">>, <<"file", "p", "q">>}

\* Where the boundary is not named its line comes in pieces, "b" each, the last of
\* them with the line's end in the first headers.
Sent(r) == [i \in 1 .. r.line |-> "b"] \o r.body

Closed(body) == "end" \in Range(body)

\* The data of a body's first file.
FileData(body) ==
    LET from == CHOOSE i \in DOMAIN body : body[i] = "file" /\ \A j \in 1 .. i - 1 : body[j] # "file"
        to   == CHOOSE i \in from .. Len(body) :
                    /\ \A j \in from + 1 .. i : body[j] \in Data
                    /\ i = Len(body) \/ body[i + 1] \notin Data
    IN  SubSeq(body, from + 1, to)

Digit == [d \in {"0", "1", "2"} |-> IF d = "0" THEN 0 ELSE IF d = "1" THEN 1 ELSE 2]

\* chunk = 0: a declared length; else chunks of that size, plain or with an
\* extension on each and a trailer.
Chunked(r) ==
    LET n == (Len(Sent(r)) + r.chunk - 1) \div r.chunk
        piece(i) == SubSeq(Sent(r), r.chunk * (i - 1) + 1,
                           IF i = n THEN Len(Sent(r)) ELSE r.chunk * i)
        size(i) == CHOOSE d \in DOMAIN Digit : Digit[d] = Len(piece(i))
        ext == IF r.fancy THEN <<";", "x">> ELSE <<>>
    IN  FlattenSeq([i \in 1 .. n |-> <<size(i)>> \o ext \o <<"cr", "lf">> \o piece(i) \o <<"cr", "lf">>])
        \o <<"0", "cr", "lf">> \o (IF r.fancy THEN <<"x", "cr", "lf">> ELSE <<>>) \o <<"cr", "lf">>

\* line: the pieces of the boundary's line, 0 where Content-Type names it; stays:
\* the client sends all of it; fault: the one call of the sink that fails.
Requests ==
    {r \in [sink : {"ota", "sd"}, body : Bodies, chunk : 0 .. 2, fancy : BOOLEAN,
            line : {0, 1, 2, RxSize}, stays : BOOLEAN,
            fault : {"none", "begin", "write", "close", "end", "boot", "rename"}] :
        /\ r.fancy => r.chunk # 0
        /\ r.line = RxSize => r.stays /\ r.fault = "none"
        /\ r.fault \in {"end", "boot"} => r.sink = "ota"
        /\ r.fault \in {"close", "rename"} => r.sink = "sd"}

-----------------------------------------------------------------------------
(* dechunker_consume, a byte at a time.                                    *)

Fresh == [state |-> "size", size |-> 0, digits |-> 0, ext |-> FALSE, chunk |-> 0,
          line |-> 0, out |-> <<>>]

SizeByte(d, c) ==
    CASE c = "cr" -> d
      [] c = "lf" /\ d.digits = 0 -> [d EXCEPT !.state = "error"]
      [] c = "lf" /\ d.digits # 0 ->
             [d EXCEPT !.chunk = d.size, !.size = 0, !.digits = 0, !.ext = FALSE,
                       !.state = IF d.size = 0 THEN "trailers" ELSE "data", !.line = 0]
      [] c = ";" -> [d EXCEPT !.ext = TRUE]
      [] c \notin {"cr", "lf", ";"} /\ d.ext -> d
      [] c \in DOMAIN Digit /\ ~d.ext ->
             [d EXCEPT !.size = 16 * @ + Digit[c], !.digits = @ + 1,
                       !.state = IF d.digits < 15 THEN @ ELSE "error"]
      [] OTHER -> [d EXCEPT !.state = "error"]

DataByte(d, c) ==
    [d EXCEPT !.out = Append(@, c), !.chunk = @ - 1,
              !.state = IF d.chunk = 1 THEN "crlf" ELSE "data"]

\* Mutant: the next size line is expected at once.
NoLineEnd(d, c) == SizeByte([d EXCEPT !.state = "size"], c)

\* The line end that closes a chunk.
ChunkEnd(d, c) ==
    CASE c = "cr" -> d
      [] c = "lf" -> [d EXCEPT !.state = "size", !.digits = 0, !.size = 0, !.ext = FALSE]
      [] OTHER -> [d EXCEPT !.state = "error"]

TrailerByte(d, c) ==
    CASE c = "cr" -> d
      [] c = "lf" -> [d EXCEPT !.line = 0, !.state = IF d.line = 0 THEN "done" ELSE "trailers"]
      [] OTHER -> [d EXCEPT !.line = @ + 1]

Dechunk(d, c) ==
    CASE d.state = "size" -> SizeByte(d, c)
      [] d.state = "data" -> DataByte(d, c)
      [] d.state = "crlf" -> ChunkEnd(d, c)
      [] d.state = "trailers" -> TrailerByte(d, c)
      [] OTHER -> d

\* With room for so much: what finds none is not read.
Into(room, d, c) == IF d.state = "data" /\ Len(d.out) >= room THEN d ELSE Dechunk(d, c)

-----------------------------------------------------------------------------
(* The sinks, and the parser's callbacks that drive them.                  *)

NoCtx == [started |-> FALSE, err |-> FALSE, data |-> <<>>, boot |-> "old"]

\* mp_commit_header: the part's Content-Disposition names a file.
NamesFile(header) == header = "file"

\* ota_on_part_begin, sd_on_part_begin: the first file of the body ...
Takes(c, header) == ~c.started /\ NamesFile(header)

\* ... unless the partition or the temporary file cannot be opened.
PartBegin(c, header) ==
    IF ~Takes(c, header) THEN c
    ELSE IF req.fault = "begin" THEN [c EXCEPT !.err = TRUE]
    ELSE [c EXCEPT !.started = TRUE]

Accepts(c, header) == Takes(c, header) /\ req.fault # "begin"

\* sd_on_part_data: no more than MAX_SD_UPLOAD_SIZE; either sink's write may fail.
WriteFails(c, d) ==
    \/ req.fault = "write" /\ d = "q"
    \/ req.sink = "sd" /\ Len(c.data) + 1 > MaxUpload

PartData(c, d) ==
    IF WriteFails(c, d) THEN [c EXCEPT !.err = TRUE] ELSE [c EXCEPT !.data = Append(@, d)]

\* ota_on_finished; nothing for the SD card.
Finished(c) ==
    IF req.sink = "sd" \/ ~c.started THEN c
    ELSE IF req.fault \in {"end", "boot"} THEN [c EXCEPT !.err = TRUE]
    ELSE [c EXCEPT !.err = FALSE, !.boot = "new"]

\* cb_on_part_data
OnData(s, d) ==
    IF ~s.accept THEN s
    ELSE [s EXCEPT !.ctx = PartData(@, d), !.part = IF WriteFails(s.ctx, d) THEN "bad" ELSE @]

\* multipart_parser_execute on one symbol, with its callbacks.  With half of a
\* boundary's line for the boundary no later one is found.
Parse(wrong, s, t) ==
    LET heads == t \in {"field", "file"} IN
    IF s.part \in {"bad", "over"} THEN s
    ELSE CASE s.part = "start" /\ t = "b" -> s
           [] heads /\ ~(wrong /\ s.part = "part") ->
                [s EXCEPT !.part = "part", !.accept = Accepts(s.ctx, t), !.ctx = PartBegin(@, t)]
           [] ~heads /\ t # "b" /\ s.part = "start" -> [s EXCEPT !.part = "bad"]
           [] t = "end" /\ ~wrong /\ s.part = "part" ->
                [s EXCEPT !.part = "over", !.accept = FALSE, !.ctx = Finished(@)]
           [] OTHER -> OnData(s, t)

Parser == [part |-> part, accept |-> accept, ctx |-> ctx]

Feed(boundary, tokens) ==
    LET step(s, t) == Parse(boundary = "wrong", s, t) IN FoldLeft(step, Parser, tokens)

-----------------------------------------------------------------------------
(* multipart_upload_handle.                                                *)

\* parse_boundary_from_content_type
Named(r) == r.line = 0

Init ==
    /\ req \in Requests
    /\ wire = (IF req.chunk = 0 THEN Sent(req) ELSE Chunked(req))
    /\ left = Len(Sent(req)) /\ known = (IF Named(req) THEN "whole" ELSE "no")
    /\ rx = <<>> /\ dc = Fresh /\ part = "start" /\ accept = FALSE /\ ctx = NoCtx
    /\ result = "runs" /\ reply = "none" /\ boot = "old" /\ final = Old

\* What is still to be read.
More == known = "no" \/ IF req.chunk = 0 THEN left > 0 ELSE dc.state # "done"

\* A read of n, what the dechunker makes of it (d) and what goes to the parser.
Delivers(n, d, boundary, tokens) ==
    LET s == IF d.state = "error" THEN Parser ELSE Feed(boundary, tokens) IN
    /\ result = "runs" /\ More
    /\ wire' = SubSeq(wire, n + 1, Len(wire))
    /\ dc' = [d EXCEPT !.out = <<>>]
    /\ part' = s.part /\ accept' = s.accept /\ ctx' = s.ctx
    /\ boot' = s.ctx.boot
    /\ UNCHANGED <<req, reply, final>>

Dechunked(n, room) ==
    LET step(d, c) == Into(room, d, c) IN
    IF req.chunk = 0 THEN [dc EXCEPT !.out = SubSeq(wire, 1, n)]
    ELSE FoldLeft(step, dc, SubSeq(wire, 1, n))

\* A boundary that is not named is looked for in what is held: the last read, or
\* every chunk so far; the first headers hold the line's end.  What a read brings
\* past the buffer's end is dropped, and nothing read here is taken off the
\* declared length.
Sniff(n) ==
    LET d == Dechunked(n, RxSize - Len(rx))
        held == IF req.chunk = 0 THEN d.out ELSE rx \o d.out
        found == IF Range(held) \cap {"field", "file"} = {} THEN "no" ELSE IF rx = <<>> THEN "whole"
                 ELSE IF req.chunk = 0 THEN "wrong" ELSE "late"
    IN  /\ known = "no"
        /\ Delivers(n, d, found, IF found = "no" THEN <<>> ELSE held)
        /\ known' = IF d.state = "error" THEN "no" ELSE found
        /\ rx' = IF found = "no" THEN held ELSE <<>>
        /\ result' = IF d.state = "error" \/ part' = "bad" \/ (found = "no" /\ Len(held) >= RxSize)
                     THEN "fail" ELSE "runs"
        /\ UNCHANGED left

\* One read, once it is known.
Read(n) ==
    LET d == Dechunked(n, RxSize) IN
    /\ known # "no" /\ Delivers(n, d, known, d.out)
    /\ left' = IF req.chunk = 0 THEN left - n ELSE left
    /\ result' = IF d.state = "error" \/ part' = "bad" THEN "fail" ELSE "runs"
    /\ UNCHANGED <<known, rx>>

\* A connection that ends early fails the upload.
LossMeans == "fail"

\* A read that brings no more: the client has gone, or has sent it all.
Lost ==
    /\ result = "runs" /\ More /\ (wire = <<>> \/ ~req.stays)
    /\ result' = LossMeans
    /\ UNCHANGED <<req, wire, left, known, rx, dc, part, accept, ctx, reply, boot, final>>

AllRead ==
    /\ result = "runs" /\ ~More
    /\ result' = "ok"
    /\ UNCHANGED <<req, wire, left, known, rx, dc, part, accept, ctx, reply, boot, final>>

-----------------------------------------------------------------------------
(* The rest of the two handlers.                                           *)

Refused == result = "fail" \/ ctx.err \/ ~ctx.started

\* What is on the card: fclose's result is not looked at.
Stored == IF req.fault = "close" /\ ctx.data # <<>> THEN Front(ctx.data) ELSE ctx.data

OtaReplies ==
    /\ req.sink = "ota" /\ result # "runs" /\ reply = "none"
    /\ reply' = IF Refused THEN "error" ELSE "ok"
    /\ UNCHANGED <<req, wire, left, known, rx, dc, part, accept, ctx, result, boot, final>>

\* The temporary file is complete: the old copy goes ...
UnlinksOld == req.sink = "sd" /\ result # "runs" /\ ~Refused /\ final = Old

SdUnlinks ==
    /\ reply = "none" /\ UnlinksOld
    /\ final' = Gone
    /\ UNCHANGED <<req, wire, left, known, rx, dc, part, accept, ctx, result, reply, boot>>

\* ... and the new one takes its name.
SdRenames ==
    /\ req.sink = "sd" /\ result # "runs" /\ ~Refused /\ final = Gone /\ reply = "none"
    /\ IF req.fault = "rename" THEN reply' = "error" /\ UNCHANGED final
                               ELSE reply' = "ok" /\ final' = Stored
    /\ UNCHANGED <<req, wire, left, known, rx, dc, part, accept, ctx, result, boot>>

SdRefuses ==
    /\ req.sink = "sd" /\ result # "runs" /\ Refused /\ reply = "none"
    /\ reply' = "error"
    /\ UNCHANGED <<req, wire, left, known, rx, dc, part, accept, ctx, result, boot, final>>

Reading == \E n \in 1 .. RxSize : n <= Len(wire) /\ (Sniff(n) \/ Read(n))

Handler == AllRead \/ OtaReplies \/ SdUnlinks \/ SdRenames \/ SdRefuses

Next == Reading \/ Lost \/ Handler

Spec == Init /\ [][Next]_vars

\* A client that stays keeps sending; the handler runs on.
Fairness == WF_vars(Reading) /\ WF_vars(Lost /\ wire = <<>>) /\ WF_vars(Handler)

FairSpec == Spec /\ Fairness

-----------------------------------------------------------------------------
(* Properties.                                                             *)

TypeOK ==
    /\ req \in Requests /\ left \in 0 .. 6 + RxSize /\ accept \in BOOLEAN
    /\ known \in {"no", "whole", "late", "wrong"} /\ Len(rx) <= RxSize
    /\ part \in {"start", "part", "over", "bad"} /\ boot \in {"old", "new"}
    /\ result \in {"runs", "ok", "fail"} /\ reply \in {"none", "ok", "error"}
    /\ dc.state \in {"size", "data", "crlf", "trailers", "done", "error"}

(* However the body is framed and split into reads, the sink gets the data  *)
(* of the first file, in order, nothing else and nothing twice, as long as   *)
(* the boundary is named or its line comes whole in the first data.          *)
SinkGetsTheFile == known = "whole" => IsPrefix(ctx.data, FileData(req.body))

(* An image that is not whole is never made the one that boots, whichever   *)
(* write fails and wherever the connection ends.                             *)
BootsOnlyWhole == known = "whole" /\ boot = "new" => ctx.data = FileData(req.body)

(* A client told that its upload is done, having closed it, has it done: all *)
(* of the file was taken, and the update is the next to boot.                *)
DoneIsWhole ==
    known = "whole" /\ reply = "ok" /\ Closed(req.body)
        => ctx.data = FileData(req.body) /\ (req.sink = "ota" => boot = "new")

(* "This is additive and NON-destructive" (upload_sd_handler): an upload     *)
(* that is refused leaves the copy staged before it, but for a rename that   *)
(* fails.                                                                    *)
RefusedKeepsOld == reply = "error" /\ req.fault # "rename" => final = Old

(* A proper upload of a client that stays is taken, whatever the chunks, the *)
(* extensions, the trailer and the sizes of the reads, from where the        *)
(* boundary is known whole.                                                  *)
GoodUploadLands ==
    (/\ req.stays /\ req.fault = "none" /\ Closed(req.body) /\ known = "whole"
     /\ Len(FileData(req.body)) <= MaxUpload /\ (Named(req) \/ req.chunk # 0))
        ~> reply = "ok"

-----------------------------------------------------------------------------
(* Claims the code does not keep.                                          *)

(* "so a half-upload never looks complete" (config_server.c): the close of   *)
(* the temporary file may fail, and the short file takes the name all the    *)
(* same, with the length and the CRC of what was received in the reply.      *)
HalfNeverComplete ==
    Closed(req.body) => final \in {Old, Gone, FileData(req.body)}

(* on_finished is "called once when the entire body has been processed       *)
(* successfully" (multipart_upload.h): it is called at the last boundary,    *)
(* and a connection lost in what follows fails an update already made the    *)
(* one that boots.                                                           *)
FailedLeavesBoot == reply = "error" => boot = "old"

(* "firmware update complete" (upload_post_handler): said of a body whose    *)
(* last boundary never came too, for which nothing was committed.            *)
CompleteIsCommitted == reply = "ok" /\ req.sink = "ota" => boot = "new"

(* "If boundary line is split across reads, this fallback may fail"          *)
(* (multipart_upload.c:587): it does more than fail.  Chunks that do not fit *)
(* beside the first half of the line are dropped, and what follows is taken  *)
(* for their data, to the last boundary and the commit.                      *)
UnnamedIsTheFile == boot = "new" => ctx.data = FileData(req.body)

(* A boundary missing from Content-Type is "extract[ed] from the body"; with *)
(* a declared length such an upload cannot succeed.                          *)
UnnamedLands ==
    (req.stays /\ req.fault = "none" /\ Closed(req.body) /\ Len(FileData(req.body)) <= MaxUpload)
        ~> reply = "ok"
=============================================================================
