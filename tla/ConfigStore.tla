---------------------------- MODULE ConfigStore ----------------------------
(***************************************************************************)
(* The settings: config.json in flash, the parsed copy the firmware runs   *)
(* on, the raw copy the settings page is filled from, and the two writers, *)
(* the web server's save and the console's debug command (config_server.c, *)
(* cmd_debug.c).  A configuration is abstracted to one field of each kind. *)
(***************************************************************************)
EXTENDS Integers

CONSTANTS
    Secrets,      \* values of a stored secret
    Held,         \* CONFIG_SECRET_PLACEHOLDER
    Short,        \* a secret the parser refuses for its length
    Absent, Odd,  \* a key left out, a value outside a key's range
    Broken,       \* a file that is no JSON
    NoFile,
    MaxSaves, MaxDebugs, MaxFaults   \* bounds

VARIABLES
    disk,         \* config.json
    ram,          \* device_config
    cache,        \* device_config_file, the text ram was parsed from
    form,         \* what the settings page holds
    stage,        \* the device: "boot", "recover", "up"
    web, body,    \* the save in progress, and the text it writes
    before,       \* the stored secret as the save began, if the form held it
    pending,      \* a reboot is scheduled
    console, text,\* the debug command, and the text it will write
    saves, debugs, faults

counts == <<saves, debugs, faults>>
vars   == <<disk, ram, cache, form, stage, web, body, before, pending, console, text,
            counts>>

\* sta_pass; led_blink, which applies live; wifi_mode, which needs a reboot;
\* debug, which no form shows.
Config  == [pass : Secrets, led : 0 .. 1, mode : 0 .. 1, debug : 0 .. 1]
Text    == [pass : Secrets \union {Held, Short}, led : {0, 1, Absent, Odd},
            mode : {0, 1, Absent}, debug : 0 .. 1]
Default == [pass |-> CHOOSE s \in Secrets : TRUE, led |-> 0, mode |-> 0, debug |-> 0]

(* config_server_parse_cfg_into, on top of what seed holds.                *)

\* A required key that is left out, or is no string.
Missing(t) == t.mode = Absent

\* A required key whose length is checked.
BadLength(t) == t.pass = Short

\* An optional key is taken if it is there and in its range ...
Usable(v) == v \notin {Absent, Odd}

\* ... and gives way to its default if not.
LedDefault == Default.led

Led(t) == IF Usable(t.led) THEN t.led ELSE LedDefault

Parses(t) == t # Broken /\ ~Missing(t) /\ ~BadLength(t)

Parsed(t, seed) == [pass |-> t.pass, led |-> Led(t), mode |-> t.mode, debug |-> t.debug]

\* load_config_handler: the raw copy with its secrets swapped for placeholders.
Redacted(c) == [c EXCEPT !.pass = Held]

Init ==
    /\ disk \in {Default, NoFile, Broken} /\ ram = Default /\ cache = Default
    /\ form = Redacted(Default) /\ stage = "boot"
    /\ web = "idle" /\ body = Broken /\ before = Held /\ pending = FALSE
    /\ console = "idle" /\ text = Broken /\ saves = 0 /\ debugs = 0 /\ faults = 0

-----------------------------------------------------------------------------
(* Boot.                                                                   *)

\* config_server_init: no file is written anew, one that parses is taken.
Boot ==
    /\ stage = "boot"
    /\ IF disk = NoFile THEN disk' = Default ELSE UNCHANGED disk
    /\ IF disk # NoFile /\ ~Parses(disk)
       THEN stage' = "recover" /\ UNCHANGED <<ram, cache>>
       ELSE stage' = "up" /\ ram' = Parsed(disk', Default) /\ cache' = disk'
    /\ UNCHANGED <<form, web, body, before, pending, console, text, counts>>

\* unlink, then the default written in its place.
WritesDefault ==
    \/ stage = "recover" /\ disk # NoFile /\ disk' = NoFile
    \/ stage = "recover" /\ disk = NoFile /\ disk' = Default

\* config_server_load_cfg: once the default is stored the device restarts.
Recover ==
    /\ WritesDefault
    /\ stage' = IF disk' = NoFile THEN "recover" ELSE "boot"
    /\ UNCHANGED <<ram, cache, form, web, body, before, pending, console, text, counts>>

Restarted ==
    /\ stage' = "boot" /\ web' = "idle" /\ body' = Broken /\ before' = Held
    /\ pending' = FALSE /\ console' = "idle" /\ text' = Broken
    /\ UNCHANGED <<ram, cache, form>>

Reboot == stage = "up" /\ pending /\ Restarted /\ UNCHANGED <<disk, counts>>

\* The power is cut: a file that was being written stays as it is.
PowerCut ==
    /\ stage # "boot" /\ faults < MaxFaults /\ faults' = faults + 1
    /\ Restarted /\ UNCHANGED <<disk, saves, debugs>>

-----------------------------------------------------------------------------
(* store_config_handler.                                                   *)

Load ==
    /\ stage = "up" /\ web = "idle" /\ form' = Redacted(cache) /\ form' # form
    /\ UNCHANGED <<disk, ram, cache, stage, web, body, before, pending, console, text,
                   counts>>

\* The user changes some of the fields shown, or a client posts its own text.
Edits == {f \in Text : f.debug = form.debug /\ (f.pass = Held => form.pass = Held)}

\* config_restore_placeholder_secrets
Restored(f) == [f EXCEPT !.pass = IF f.pass = Held THEN ram.pass ELSE f.pass]

\* The payload goes through the parser of the boot before the file is touched.
Accepted(t) == Parses(t)

\* fopen("w"): the old text may be gone at once, or stay until the close.
Save(posted) ==
    /\ stage = "up" /\ web = "idle" /\ saves < MaxSaves
    /\ posted # Broken /\ Accepted(Restored(posted))
    /\ body' = Restored(posted)
    /\ before' = IF posted.pass = Held /\ disk \in Text THEN disk.pass ELSE Held
    /\ disk' \in {disk, Broken}
    /\ web' = "writing" /\ saves' = saves + 1
    /\ UNCHANGED <<ram, cache, form, stage, pending, console, text, debugs, faults>>

\* What a restart would run on, parsed over a copy of ram.
Shadow(b) == Parsed(b, ram)

\* The fields of LIVE_APPLY_WHITELIST, taken from it.
Live(b) == [ram EXCEPT !.led = Shadow(b).led]

\* Nothing but listed fields changed.
OnlyListed(b) == Live(b) = Shadow(b)

\* Mutant: the raw copy stays what it was.
Unrefreshed(b) == cache

\* The raw copy is refreshed after a live change.
Fresh(b) == b

\* fclose, whose result nobody looks at, the decision and the reply.
Close ==
    /\ web = "writing" /\ web' = "idle" /\ before' = Held /\ body' = Broken
    /\ \/ disk' = body /\ UNCHANGED faults
       \/ faults < MaxFaults /\ faults' = faults + 1 /\ disk' = Broken
    /\ IF OnlyListed(body)
       THEN ram' = Live(body) /\ cache' = Fresh(body) /\ UNCHANGED pending
       ELSE pending' = TRUE /\ UNCHANGED <<ram, cache>>
    /\ UNCHANGED <<form, stage, console, text, saves, debugs>>

\* A short fwrite: the handler gives up, and the file stays cut.
WriteFails ==
    /\ web = "writing" /\ web' = "idle" /\ before' = Held /\ body' = Broken
    /\ faults < MaxFaults /\ faults' = faults + 1 /\ disk' = Broken
    /\ UNCHANGED <<ram, cache, form, stage, pending, console, text, saves, debugs>>

-----------------------------------------------------------------------------
(* persist_debug_state, on the console's task.                             *)

\* A file that cannot be read or parsed is replaced by the one key.
DebugReads ==
    /\ stage = "up" /\ console = "idle" /\ debugs < MaxDebugs
    /\ \E on \in 0 .. 1 :
         text' = IF disk \in Text THEN [disk EXCEPT !.debug = on] ELSE Broken
    /\ console' = "read" /\ debugs' = debugs + 1
    /\ UNCHANGED <<disk, ram, cache, form, stage, web, body, before, pending, saves, faults>>

\* write_buffer_to_file_atomic: the text in a file of its own, then remove ...
DebugRemoves ==
    /\ console = "read" /\ console' = "removed" /\ disk' = NoFile
    /\ UNCHANGED <<ram, cache, form, stage, web, body, before, pending, text, counts>>

\* ... and rename.
DebugRenames ==
    /\ console = "removed" /\ console' = "idle" /\ disk' = text /\ text' = Broken
    /\ UNCHANGED <<ram, cache, form, stage, web, body, before, pending, counts>>

-----------------------------------------------------------------------------
StartUp == Boot \/ Recover \/ Reboot
Saving  == (\E posted \in Edits : Save(posted)) \/ Close \/ WriteFails
Debug   == DebugReads \/ DebugRemoves \/ DebugRenames

Next == StartUp \/ PowerCut \/ Load \/ Saving \/ Debug

Spec == Init /\ [][Next]_vars

\* The firmware goes on; users, faults and power cuts come as they like.
Fairness == WF_vars(StartUp)

FairSpec == Spec /\ Fairness

-----------------------------------------------------------------------------
(* Properties.                                                             *)

TypeOK ==
    /\ disk \in Text \union {NoFile, Broken}
    /\ ram \in Config /\ cache \in Text /\ form \in Text
    /\ stage \in {"boot", "recover", "up"} /\ web \in {"idle", "writing"}
    /\ body \in Text \union {Broken} /\ before \in Secrets \union {Held, Short}
    /\ console \in {"idle", "read", "removed"} /\ text \in Text \union {Broken}
    /\ pending \in BOOLEAN
    /\ saves \in 0 .. MaxSaves /\ debugs \in 0 .. MaxDebugs /\ faults \in 0 .. MaxFaults

(* The placeholder shown for a secret never takes the secret's place, in    *)
(* any of the copies, whichever pages are loaded, edited and saved.         *)
SecretsAreReal ==
    \A c \in {disk, ram, cache, text} \ {NoFile, Broken} : c.pass # Held

(* "Reuse the shadow ... so a live apply is byte-for-byte reboot-equivalent" *)
(* (store_config_handler): with no reboot to come the three copies agree;   *)
(* what was applied live is what a restart would load, and the page shows   *)
(* it, so that the next save does not take it back.                          *)
CopiesAgree ==
    stage = "up" /\ web = "idle" /\ ~pending /\ debugs = 0 /\ faults = 0
        => disk \in Text /\ Parsed(disk, Default) = ram /\ cache = disk

(* Only a power cut, a short write or the console can leave a file that the *)
(* next boot answers with the factory settings.                              *)
SavedFilesParse ==
    stage = "up" /\ web = "idle" /\ debugs = 0 /\ faults = 0
        => disk \in Text /\ Parses(disk)

(* The device always comes up, from any file and any cut on the way.        *)
ComesUp == ~<>[](stage # "up")

-----------------------------------------------------------------------------
(* Claims the code does not keep.                                           *)

(* "Replace any placeholder the UI handed back with the value already       *)
(* stored" (config_server.c): it is replaced with the value in use, so that *)
(* a second save before the reboot takes a new password back.               *)
SecretsKept ==
    [][web = "writing" /\ before # Held /\ disk' \in Text => disk'.pass = before]_vars

(* write_buffer_to_file_atomic: a save that had cut the file as the command *)
(* read it, or the power cut between remove and rename, loses every setting.*)
DebugKeepsSettings ==
    [][console # "idle" /\ disk # Default => disk' # Broken /\ disk' # NoFile]_vars

(* "without it here every Submit ... silently turned debug logging back     *)
(* off" (main.js): until the next boot it still does.                       *)
DebugSurvivesSave ==
    [][web = "writing" /\ {disk, disk'} \subseteq Text /\ faults = 0
         => disk'.debug = disk.debug]_vars
=============================================================================
