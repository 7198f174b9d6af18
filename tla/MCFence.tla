------------------------------ MODULE MCFence -------------------------------
(*****************************************************************************)
(* The flash fence, the file manager and the event log that work on the same *)
(* card as a flash, and the consoles a factory reset is typed on.  Each      *)
(* behaviour is one component's; the instances of the file manager, the log  *)
(* and the consoles are those the theorems of FlashFence_proofs are about.   *)
(*****************************************************************************)
EXTENDS FlashFence_proofs, TLC

\* Every request, without the faults.
AllOps == {"reboot", "update", "sd", "write", "read", "session", "slcan"}

\* For the claim of the factory reset.
FactoryOps == {"factory", "write"}

\* A card with a log directory, an image, a protected and a user's directory.
CardTree ==
    "/" :> "/" @@ "logs" :> "/" @@ "logs/a" :> "logs" @@ "logs/b" :> "logs" @@
    "roms" :> "/" @@ "roms/i" :> "roms" @@ "events" :> "/" @@
    "events/e" :> "events" @@ "u" :> "/" @@ "u/v" :> "u" @@ "u/v/f" :> "u/v" @@
    "u/g" :> "u"
CardNodes == DOMAIN CardTree
CardDirs == {"/", "logs", "roms", "events", "u", "u/v"}
CardLogs == <<"logs/a", "logs/b">>
CardStart == CardNodes \ {"logs/a", "logs/b"}

VARIABLES
    part,   \* the component this behaviour is about
    every_flash, every_pending, every_ota, every_armed, every_session,
    every_can, every_codec, every_task, every_reset, every_image, every_runs,
    every_boots

everyVars ==
    <<every_flash, every_pending, every_ota, every_armed, every_session,
      every_can, every_codec, every_task, every_reset, every_image,
      every_runs, every_boots>>
filesVars ==
    <<tree, req, target, new, stack, ok, hit, gone, opens, reply, files_wpc,
      log, files_session, files_flash, used, logs, flashes, faults, files_kept>>
logVars ==
    <<head, persist, ring, dropped, file, kept, buffer, mutex, wpc, upto, at,
      rpc, from, end, told, written, faded, torn>>
typedVars ==
    <<pc, prev, io, line, ran, heard, mixed, client, clients, buf, typed_runs>>

Every == INSTANCE FlashFence WITH
    Ops <- OpNames, MaxRuns <- 3, MaxBoots <- 2,
    flash <- every_flash, pending <- every_pending, ota <- every_ota,
    armed <- every_armed, session <- every_session, can <- every_can,
    codec <- every_codec, task <- every_task, reset <- every_reset,
    image <- every_image, runs <- every_runs, boots <- every_boots

\* The other components stand still; where one may start from several states,
\* it stands in one of them.
AllInit ==
    /\ part \in {"fence", "every", "files", "log", "typed"}
    /\ Init
    /\ Every!Init
    /\ Files!Init
    /\ Log!Init
    /\ Typed!Init

\* Steps of one component.
OnFence == part = "fence" /\ UNCHANGED <<part, everyVars, filesVars, logVars, typedVars>>
OnEvery == part = "every" /\ UNCHANGED <<part, vars, filesVars, logVars, typedVars>>
OnFiles == part = "files" /\ UNCHANGED <<part, vars, everyVars, logVars, typedVars>>
OnLog == part = "log" /\ UNCHANGED <<part, vars, everyVars, filesVars, typedVars>>
OnTyped == part = "typed" /\ UNCHANGED <<part, vars, everyVars, filesVars, logVars>>

AllNext ==
    \/ OnFence /\ Next
    \/ OnEvery /\ Every!Next
    \/ OnFiles /\ Files!Next
    \/ OnLog /\ Log!Next
    \/ OnTyped /\ Typed!Next

all == <<part, vars, everyVars, filesVars, logVars, typedVars>>

AllSpec == AllInit /\ [][AllNext]_all

\* Each component's own fairness, of its steps while it is the one that runs.
everyFair ==
    /\ WF_everyVars(part = "every" /\ Every!Schedule)
    /\ WF_everyVars(part = "every" /\ Every!Update)
    /\ WF_everyVars(part = "every" /\ Every!Stage)
    /\ WF_everyVars(part = "every" /\ Every!Timer)
    /\ WF_everyVars(part = "every" /\ (Every!CheckPending \/ Every!CheckOta \/ Every!CodecEnd))
    /\ WF_everyVars(part = "every" /\ Every!FactoryRestart)
    /\ WF_everyVars(part = "every" /\ Every!HealCan)

logFair ==
    /\ SF_logVars(part = "log" /\ Log!DrainBegins /\ wpc' = "lines")
    /\ SF_logVars(part = "log" /\ Log!DrainEnds)
    /\ WF_logVars(part = "log" /\ Log!Line)
    /\ WF_logVars(part = "log" /\ Log!DrainFails)
    /\ WF_logVars(part = "log" /\ Log!FileRead /\ mutex = "file")

-----------------------------------------------------------------------------
(* The components' properties; liveness under each component's own fairness. *)

\* With resets, timers that fail and every request at once, a flash write and
\* an update still exclude each other, an accepted reboot comes, and a flash
\* lets the adapter go; with a card that fails the log still gets to every event.
\* (FlashFence, EventLog.)
FenceUnderFaults ==
    /\ []Every!NoWriteDuringUpdate
    /\ part = "every" /\ everyFair => Every!RebootHappens /\ Every!FlashEnds
    /\ part = "log" /\ logFair => Log!EventsLand
=============================================================================
