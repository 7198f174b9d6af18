------------------------------- MODULE SdFiles -------------------------------
(***************************************************************************)
(* The Files page (components/sd_filemgr): list, download, make, rename    *)
(* and delete on the SD card, one request at a time on the httpd task,     *)
(* while the CSV writer opens, rotates and closes its log and a flash      *)
(* reads its image.  FAT is built without file locks                       *)
(* (CONFIG_FATFS_FS_LOCK=0): it removes a file that is open.               *)
(***************************************************************************)
EXTENDS FiniteSets, Sequences, SequencesExt

CONSTANTS
    Nodes,      \* the paths there may be
    Parent,     \* Parent[n]: the directory n is in; the root is its own parent
    Dirs,       \* those that are directories when they exist
    Root, Logs, \* the card's root and the log directory
    LogNames,   \* the paths in Logs the writer gives its logs, in order
    Reserved, Protected, Hidden,  \* the roots of the three sets of paths
    Image,      \* the image a flash reads
    Start,      \* the paths on the card at boot
    MaxRequests, MaxLogs, MaxFlashes, MaxFaults,  \* bounds
    MaxOpen     \* max_files of the card's file system

VARIABLES
    tree,       \* paths on the card
    req, target, new,   \* the request in hand, its path, the path asked for
    stack,      \* sdfm_rmtree: directories being emptied, innermost last, with
                \* the names gathered in each
    ok, hit, gone,      \* its result, active_hit, and what it has removed
    opens,      \* files httpd has open
    reply,      \* the last reply
    wpc, log, session,  \* the writer: its step, its file, csv_session_active
    flash,      \* the fast write has its image open
    used, logs, flashes, faults,  \* counts for the bounds
    kept        \* the log that was active when the request came (history)

fs     == <<tree>>
walk   == <<stack, ok, hit, gone>>
http   == <<req, target, new, opens, reply>>
writer == <<wpc, log, session>>
counts == <<used, logs, flashes, faults>>
vars == <<fs, walk, http, writer, flash, counts, kept>>

None == "none"

TypeOK ==
    /\ tree \subseteq Nodes
    /\ req \in {"none", "fenced", "walk", "download"}
    /\ target \in Nodes /\ new \in Nodes
    /\ \A i \in 1 .. Len(stack) : /\ stack[i].dir \in Dirs
                                  /\ Range(stack[i].left) \subseteq Nodes
    /\ ok \in BOOLEAN /\ hit \in BOOLEAN /\ gone \subseteq Nodes
    /\ reply \in {"none", "ok", "400", "403", "404", "409", "500", "active"}
    /\ opens \in 0 .. MaxRequests /\ wpc \in {"idle", "opening", "open"}
    /\ log \in Range(LogNames) \cup {None} /\ session \in BOOLEAN /\ flash \in BOOLEAN

Init ==
    /\ tree = Start /\ req = "none" /\ target = Root /\ new = Root /\ stack = <<>>
    /\ ok = TRUE /\ hit = FALSE /\ gone = {} /\ opens = 0 /\ reply = "none"
    /\ wpc = "idle" /\ log = None /\ session = FALSE /\ flash = FALSE
    /\ used = 0 /\ logs = 0 /\ flashes = 0 /\ faults = 0 /\ kept = None

\* At most three levels below the root here.
Under(n, d) == d \in {n, Parent[n], Parent[Parent[n]], Parent[Parent[Parent[n]]]}

Children(d) == {n \in tree \ {Root} : Parent[n] = d}
IsReserved(n) == n \in Reserved
IsProtected(n) == \E p \in Protected : Under(n, p)
IsHidden(n) == n \in Hidden

\* csv_logger_is_active_file: the session must be declared, not just the file open.
IsActive(n) == session /\ wpc = "open" /\ log = n

InUse == opens + (IF wpc # "idle" THEN 1 ELSE 0) + (IF flash THEN 1 ELSE 0)

-----------------------------------------------------------------------------
(* Requests.                                                               *)

Arrives(r, t) ==
    /\ req = "none" /\ used < MaxRequests /\ used' = used + 1
    /\ target' = t /\ reply' = "none"
    /\ kept' = IF session /\ wpc = "open" /\ log \in tree THEN log ELSE None
    /\ UNCHANGED <<logs, flashes, faults, writer, flash>>

Replies(r) == req' = "none" /\ reply' = r

Idle == UNCHANGED <<walk, new, opens>>

\* The list leaves out what is hidden and marks what may not be touched.
List(d) ==
    /\ Arrives("list", d) /\ req' = "none" /\ Idle /\ UNCHANGED fs

\* sdfm_op_mkdir and its guards.
Mkdir(n) ==
    /\ req = "none" /\ used < MaxRequests /\ used' = used + 1
    /\ n \in Dirs /\ target' = n /\ kept' = None
    /\ \/ /\ IsReserved(n) \/ IsProtected(n) \/ IsHidden(n)
          /\ reply' = "403" /\ UNCHANGED <<fs, faults>>
       \/ /\ ~(IsReserved(n) \/ IsProtected(n) \/ IsHidden(n))
          /\ IF n \in tree THEN reply' = "409" /\ UNCHANGED <<fs, faults>>
             ELSE \/ Parent[n] \in tree /\ tree' = tree \cup {n} /\ reply' = "ok"
                     /\ UNCHANGED faults
                  \/ faults < MaxFaults /\ faults' = faults + 1 /\ reply' = "500"
                     /\ UNCHANGED fs
                  \/ Parent[n] \notin tree /\ reply' = "500" /\ UNCHANGED <<fs, faults>>
    /\ UNCHANGED <<req, walk, new, opens, writer, flash, logs, flashes>>

\* Delete and rename ask the fence first; what follows is another moment.
Ask(t, n) ==
    /\ Arrives("fenced", t) /\ new' = n
    /\ IF flash THEN req' = "none" ELSE req' = "fenced"
    /\ UNCHANGED <<walk, opens, fs>>

Moved(n) == IF Under(n, target) THEN new ELSE n

RenameRefusesLog(t) == IsActive(t)

\* sdfm_op_rename: within the same directory; only a leaf is renamed here.
Rename ==
    /\ req = "fenced" /\ new # target
    /\ \/ IsReserved(target) /\ Replies("403") /\ UNCHANGED fs
       \/ ~IsReserved(target) /\ IsProtected(target) /\ Replies("403") /\ UNCHANGED fs
       \/ /\ ~IsReserved(target) /\ ~IsProtected(target)
          /\ IF RenameRefusesLog(target) THEN Replies("409") /\ UNCHANGED fs
             ELSE IF target \notin tree THEN Replies("404") /\ UNCHANGED fs
             ELSE IF IsReserved(new) \/ IsProtected(new) \/ IsHidden(new)
                  THEN Replies("403") /\ UNCHANGED fs
             ELSE IF new \in tree THEN Replies("409") /\ UNCHANGED fs
             ELSE tree' = (tree \ {target}) \cup {new} /\ Replies("ok")
    /\ UNCHANGED <<walk, target, new, opens, writer, flash, counts, kept>>

-----------------------------------------------------------------------------
(* Delete.                                                                 *)

\* sdfm_op_delete up to the walk.
Delete ==
    /\ req = "fenced" /\ new = target
    /\ \/ /\ IsReserved(target) \/ IsProtected(target)
          /\ Replies("403") /\ UNCHANGED walk
       \/ /\ ~IsReserved(target) /\ ~IsProtected(target) /\ target \notin tree
          /\ Replies("404") /\ UNCHANGED walk
       \/ /\ ~IsReserved(target) /\ ~IsProtected(target) /\ target \in tree
          /\ req' = "walk" /\ ok' = TRUE /\ hit' = FALSE /\ gone' = {}
          /\ stack' = <<[dir |-> Root, left |-> <<target>>]>> /\ UNCHANGED reply
    /\ UNCHANGED <<fs, target, new, opens, writer, flash, counts, kept>>

Top == stack[Len(stack)]
Rest(s) == Front(s) \o <<[Last(s) EXCEPT !.left = Tail(@)]>>

\* A file: refused when it is the writer's, else unlinked.
WalkFile(n) ==
    /\ n \notin Dirs
    /\ stack' = Rest(stack) /\ UNCHANGED req
    /\ IF IsActive(n) THEN hit' = TRUE /\ ok' = FALSE /\ UNCHANGED <<fs, gone, faults>>
       ELSE \/ /\ tree' = tree \ {n} /\ gone' = gone \cup ({n} \cap tree)
               /\ ok' = (ok /\ n \in tree) /\ UNCHANGED <<hit, faults>>
            \/ /\ faults < MaxFaults /\ faults' = faults + 1 /\ ok' = FALSE
               /\ UNCHANGED <<fs, gone, hit>>

\* A directory: its names are gathered before the first is followed.
WalkDir(n) ==
    /\ n \in Dirs
    /\ IF n \in tree /\ Len(stack) > 0
       THEN /\ stack' = Append(Rest(stack),
                               [dir |-> n, left |-> SetToSeq(Children(n))])
            /\ UNCHANGED ok
       ELSE stack' = Rest(stack) /\ ok' = FALSE
    /\ UNCHANGED <<fs, hit, gone, faults, req>>

\* Once something failed the names left are only freed.
WalkStep ==
    /\ req = "walk" /\ Top.left # <<>>
    /\ IF ~ok \/ hit
       THEN stack' = Rest(stack) /\ UNCHANGED <<fs, ok, hit, gone, faults, req>>
       ELSE LET n == Head(Top.left) IN WalkFile(n) \/ WalkDir(n)
    /\ UNCHANGED <<target, new, opens, reply, writer, flash, used, logs, flashes, kept>>

\* Mutant: the path buffer still ends in the last name followed.
Uncut(d) == IF gone # {} THEN CHOOSE n \in gone : TRUE ELSE d

\* The path in the buffer once the names of a directory are done.
CutBack(d) == d

\* The directory itself, and the reply when the walk is back at the target.
WalkUp ==
    /\ req = "walk" /\ Top.left = <<>> /\ stack' = Front(stack)
    /\ IF Len(stack) = 1
       THEN /\ Replies(IF hit THEN "active" ELSE IF ok THEN "ok" ELSE "500")
            /\ UNCHANGED <<fs, ok, gone>>
       ELSE /\ UNCHANGED <<req, reply>>
            /\ LET d == CutBack(Top.dir) IN
               IF ok /\ ~hit /\ d \in tree /\ Children(d) = {}
               THEN tree' = tree \ {d} /\ gone' = gone \cup {d} /\ UNCHANGED ok
               ELSE ok' = FALSE /\ UNCHANGED <<fs, gone>>
    /\ UNCHANGED <<hit, target, new, opens, writer, flash, counts, kept>>

-----------------------------------------------------------------------------
(* Download.                                                               *)

Download(n) ==
    /\ Arrives("download", n) /\ UNCHANGED <<walk, new, fs>>
    /\ IF n \notin tree THEN req' = "none" /\ UNCHANGED opens
       ELSE IF n \in Dirs THEN req' = "none" /\ UNCHANGED opens
       ELSE IF InUse = MaxOpen THEN req' = "none" /\ UNCHANGED opens
       ELSE req' = "download" /\ opens' = opens + 1

\* Out of memory for every size of buffer, down to 1 KB.
NoBufferCloses == opens - 1

\* Chunks to the end, or to a client that has gone, or no buffer at all.
DownloadEnds ==
    /\ req = "download"
    /\ \/ Replies("ok") /\ opens' = opens - 1 /\ UNCHANGED faults
       \/ /\ faults < MaxFaults /\ faults' = faults + 1
          /\ Replies("500") /\ opens' = NoBufferCloses
    /\ UNCHANGED <<fs, walk, target, new, writer, flash, used, logs, flashes, kept>>

-----------------------------------------------------------------------------
(* The writer and the flash.                                               *)

\* A name carries the time, and a suffix until it is free: none is given twice.
FreshLog == {LogNames[logs + 1]}

Others == UNCHANGED <<walk, http, flash, used, flashes, faults>>

\* csv_open_new_file; a new session is declared after the header is written.
LogOpens ==
    /\ wpc = "idle" /\ logs < MaxLogs /\ logs' = logs + 1 /\ InUse < MaxOpen
    /\ \E n \in FreshLog : log' = n /\ tree' = tree \cup {n, Logs}
    /\ wpc' = "opening" /\ UNCHANGED <<session, kept>> /\ Others

LogDeclared ==
    /\ wpc = "opening" /\ wpc' = "open" /\ session' = TRUE
    /\ UNCHANGED <<fs, log, logs, kept>> /\ Others

\* Rotation closes one file and opens the next inside the session.
LogRotates ==
    /\ wpc = "open" /\ logs < MaxLogs /\ logs' = logs + 1
    /\ \E n \in FreshLog : log' = n /\ tree' = tree \cup {n, Logs}
    /\ kept' = None /\ UNCHANGED <<wpc, session>> /\ Others

LogCloses ==
    /\ wpc = "open" /\ wpc' = "idle" /\ session' = FALSE /\ log' = None /\ kept' = None
    /\ UNCHANGED <<fs, logs>> /\ Others

FlashBegins ==
    /\ ~flash /\ flashes < MaxFlashes /\ flashes' = flashes + 1 /\ Image \in tree
    /\ InUse < MaxOpen /\ flash' = TRUE
    /\ UNCHANGED <<fs, walk, http, writer, used, logs, faults, kept>>

FlashEnds ==
    /\ flash /\ flash' = FALSE /\ UNCHANGED <<fs, walk, http, writer, counts, kept>>

Siblings(n) == {m \in Nodes \ {n, Root} : Parent[m] = Parent[n] /\ m \notin Dirs}

Next ==
    \/ \E n \in Nodes : Mkdir(n) \/ Ask(n, n) \/ Download(n)
    \/ \E d \in Dirs : List(d)
    \/ \E n \in Nodes \ Dirs : \E m \in Siblings(n) : Ask(n, m)
    \/ Rename \/ Delete \/ WalkStep \/ WalkUp \/ DownloadEnds
    \/ LogOpens \/ LogDeclared \/ LogRotates \/ LogCloses \/ FlashBegins \/ FlashEnds

Spec == Init /\ [][Next]_vars

-----------------------------------------------------------------------------
(* What must hold.                                                         *)

(* A log that was being written under its name when the request came, and  *)
(* still is, is still there: no rename or delete took it away, whatever    *)
(* the writer did around the request.                                      *)
LogOutlivesRequest == kept # None => kept \in tree

(* A delete that neither met the log nor a failing card removes the whole  *)
(* of what was asked and answers so, and never anything outside it: the    *)
(* one path buffer is right at every depth (sd_filemgr.c:250-254).  Only a *)
(* log the writer opened behind the walk may be there again.               *)
DeleteIsWhole ==
    [][req = "walk" /\ req' = "none" =>
        /\ \A n \in gone : Under(n, target)
        /\ reply' = "ok" => \A n \in tree : Under(n, target) => n \in Range(LogNames)
        /\ reply' = "500" => faults > 0]_vars

(* The files the page opens are closed with the request, so that the five  *)
(* the card allows last.                                                   *)
NothingLeaks == req = "none" => opens = 0

-----------------------------------------------------------------------------
(* Claims the code does not keep.                                          *)

(* csv_logger.c:977 lets the manager "refuse to delete/rename the in-use   *)
(* log"; the log is open, and may go, before the session is declared.      *)
OpenLogStays == wpc # "idle" => log \in tree

(* sd_filemgr.c:554: with a flash running, nothing is deleted or renamed   *)
(* for it; the fence is asked once, before the walk.                       *)
ImageStays == flash => Image \in tree

(* A delete that fails part of the way has removed what came before.       *)
FailedDeleteIsNone ==
    [][req = "walk" /\ req' = "none" /\ reply' # "ok" => gone = {}]_vars
=============================================================================
