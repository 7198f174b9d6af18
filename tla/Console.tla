------------------------------ MODULE Console ------------------------------
(***************************************************************************)
(* The consoles (components/cmdline/cmdline.c): the serial REPL, the TCP   *)
(* console's task and the Bluetooth stack's task all run commands through  *)
(* esp_console_run, which splits one shared line buffer in place, and all  *)
(* print through cmdline_printf, which follows one pointer, s_current_io,  *)
(* that each command saves, sets and puts back.  Nothing locks either.     *)
(***************************************************************************)
EXTENDS Naturals, Sequences

CONSTANTS
    LineMax,     \* MAX_CMDLINE_LENGTH - 1
    MaxRuns,     \* bound: commands run
    MaxClients   \* bound: TCP clients, one after the other

VARIABLES
    pc,          \* idle, save, point, copy, look, say, back
    prev,        \* the pointer each command saved on its stack
    io,          \* s_current_io, by the console whose frame it names
    line,        \* esp_console's line buffer, by the console that filled it
    ran,         \* whose line each console's command was split from
    heard,       \* pairs: whose command printed, and where
    mixed,       \* two commands have overlapped (history)
    client,      \* the TCP client, 0 for none
    clients,     \* clients so far
    buf,         \* cmd_buf, each character by the client that typed it
    runs

run == <<pc, prev, io, line, ran, heard, mixed, runs>>
tcp == <<client, clients, buf>>
vars == <<run, tcp>>

Consoles == {"uart", "tcp", "ble"}

TypeOK ==
    /\ pc \in [Consoles -> {"idle", "save", "point", "copy", "look", "say", "back"}]
    /\ prev \in [Consoles -> Consoles] /\ io \in Consoles
    /\ line \in Consoles \cup {"none"} /\ ran \in [Consoles -> Consoles \cup {"none"}]
    /\ heard \subseteq Consoles \X (Consoles \cup {"nowhere"}) /\ mixed \in BOOLEAN
    /\ client \in 0 .. MaxClients /\ clients \in 0 .. MaxClients
    /\ buf \in Seq(1 .. MaxClients) /\ Len(buf) <= LineMax /\ runs \in 0 .. MaxRuns

Init ==
    /\ pc = [c \in Consoles |-> "idle"] /\ prev = [c \in Consoles |-> "uart"]
    /\ io = "uart" /\ line = "none" /\ ran = [c \in Consoles |-> "none"] /\ heard = {}
    /\ mixed = FALSE /\ client = 0 /\ clients = 0 /\ buf = <<>> /\ runs = 0

-----------------------------------------------------------------------------
(* The TCP console's line, one client at a time.                           *)

\* A new client starts on an empty line.
NewLine(b) == <<>>

Accept ==
    /\ client = 0 /\ pc["tcp"] = "idle" /\ clients < MaxClients
    /\ clients' = clients + 1 /\ client' = clients' /\ buf' = NewLine(buf)
    /\ UNCHANGED run

\* A printable character, dropped when the line is full, or a backspace.
Key ==
    /\ client # 0 /\ pc["tcp"] = "idle"
    /\ \/ buf' = IF Len(buf) < LineMax THEN Append(buf, client) ELSE buf
       \/ buf # <<>> /\ buf' = SubSeq(buf, 1, Len(buf) - 1)
    /\ UNCHANGED <<run, client, clients>>

\* recv ends: the client went away or said nothing for five minutes.
Leave ==
    /\ client # 0 /\ pc["tcp"] = "idle" /\ client' = 0
    /\ UNCHANGED <<run, clients, buf>>

-----------------------------------------------------------------------------
(* One command.                                                            *)

Begins(c, at) ==
    /\ pc[c] = "idle" /\ runs < MaxRuns /\ runs' = runs + 1
    /\ pc' = [pc EXCEPT ![c] = at]
    /\ mixed' = (mixed \/ \E d \in Consoles \ {c} : pc[d] # "idle")
    /\ UNCHANGED <<prev, io, line, ran, heard>>

\* The REPL of ESP-IDF runs the line itself and sets no pointer.
UartLine == Begins("uart", "copy") /\ UNCHANGED tcp
BleLine == Begins("ble", "save") /\ UNCHANGED tcp
TcpLine == client # 0 /\ buf # <<>> /\ Begins("tcp", "save") /\ buf' = <<>>
           /\ UNCHANGED <<client, clients>>

Moves(c, from, to) == pc[c] = from /\ pc' = [pc EXCEPT ![c] = to]

Save(c) ==
    /\ Moves(c, "save", "point") /\ prev' = [prev EXCEPT ![c] = io]
    /\ UNCHANGED <<io, line, ran, heard, mixed, runs, tcp>>

Point(c) ==
    /\ Moves(c, "point", "copy") /\ io' = c
    /\ UNCHANGED <<prev, line, ran, heard, mixed, runs, tcp>>

\* esp_console_run copies the line, then splits it and finds the command.
Copy(c) ==
    /\ Moves(c, "copy", "look") /\ line' = c
    /\ UNCHANGED <<prev, io, ran, heard, mixed, runs, tcp>>

Look(c) ==
    /\ Moves(c, "look", "say") /\ ran' = [ran EXCEPT ![c] = line]
    /\ UNCHANGED <<prev, io, line, heard, mixed, runs, tcp>>

\* Bluetooth's frame is on the stack of the command; the others last.
Alive(d) == d = "ble" => pc["ble"] # "idle"

\* Where a print goes: nowhere when the TCP client is gone, anywhere through a
\* frame that is no more.
Goes(d) ==
    IF ~Alive(d) THEN Consoles \cup {"nowhere"}
    ELSE IF d = "tcp" /\ client = 0 THEN {"nowhere"} ELSE {d}

Say(c) ==
    /\ \E to \in {"say", "back"} : Moves(c, "say", to)
    /\ \E d \in Goes(io) : heard' = heard \cup {<<c, d>>}
    /\ UNCHANGED <<prev, io, line, ran, mixed, runs, tcp>>

\* Mutant: the pointer is left where it is.
LeftThere(c) == io

\* What a command leaves in the pointer; the REPL leaves it alone.
Restored(c) == IF c = "uart" THEN io ELSE prev[c]

Back(c) ==
    /\ Moves(c, "back", "idle") /\ io' = Restored(c)
    /\ UNCHANGED <<prev, line, ran, heard, mixed, runs, tcp>>

Next ==
    \/ Accept \/ Key \/ Leave \/ UartLine \/ BleLine \/ TcpLine
    \/ \E c \in Consoles : Save(c) \/ Point(c) \/ Copy(c) \/ Look(c) \/ Say(c) \/ Back(c)

Spec == Init /\ [][Next]_vars

-----------------------------------------------------------------------------
(* What must hold.                                                         *)

AtRest == \A c \in Consoles : pc[c] = "idle"

(* As long as no two commands overlap, each runs the line that was typed   *)
(* for it, prints only where it was typed, and leaves the serial console's *)
(* output where it was (cmdline.c:267-283).                                *)
OneAtATimeIsRight ==
    ~mixed => /\ \A p \in heard : p[2] = p[1]
              /\ \A c \in Consoles : ran[c] \in {"none", c}
              /\ AtRest => io = "uart"

(* A TCP client's command holds nothing an earlier client had typed and    *)
(* not sent (cmdline.c:477).                                               *)
LineIsTheClients == \A i \in 1 .. Len(buf) : client # 0 => buf[i] = client

-----------------------------------------------------------------------------
(* Claims the code does not keep.                                          *)

(* "Route output to the active IO context only" (cmdline.c:156): a command *)
(* of another console in between takes the output with it.                 *)
AnsweredAtHome == \A p \in heard : p[2] = p[1]

(* Two commands that overlap share one line buffer.                        *)
RunsWhatWasTyped == \A c \in Consoles : ran[c] \in {"none", c}

(* Restored in the wrong order, the pointer names another console for good. *)
SerialComesBack == AtRest => io = "uart"
=============================================================================
