------------------------------ MODULE MCTables ------------------------------
(*****************************************************************************)
(* What the web server changes under the poll task: the PID table, the       *)
(* configuration and the uploads; and the gate that decides what the poll    *)
(* task asks.  Each behaviour is one component's; the instances of all but   *)
(* the uploads are those the theorems of PidTable_proofs are about.          *)
(*****************************************************************************)
EXTENDS PidTable_proofs

VARIABLES
    part,   \* the component this behaviour is about
    req, wire, left, known, rx, dc, upload_part, accept, ctx, upload_result,
    reply, boot, final

gateVars ==
    <<normal, answering, okAge, normAge, flipAge, withheld, gate, low, blocks,
      engine, engLow, rpmAge, rpmRuns, ctr, ran, rpm, casts, mute, ecu, volts,
      session, hold>>
configVars ==
    <<disk, ram, cache, form, stage, web, body, before, pending, console,
      text, saves, debugs, config_faults>>
uploadVars ==
    <<req, wire, left, known, rx, dc, upload_part, accept, ctx, upload_result,
      reply, boot, final>>

Upload == INSTANCE WebUpload WITH
    RxSize <- 3, MaxUpload <- 2,
    part <- upload_part, result <- upload_result

\* The other components stand still; where one may start from several states,
\* it stands in one of them.
AllInit ==
    /\ part \in {"table", "gate", "config", "upload"}
    /\ Init
    /\ part = "gate" \/ (rpm = "none" /\ casts = FALSE /\ mute = FALSE /\ ecu = "off" /\ volts = "ok")
    /\ Gate!Init
    /\ part = "config" \/ disk = Cfg!Default
    /\ Cfg!Init
    /\ part = "upload" \/ req = CHOOSE r \in Upload!Requests : TRUE
    /\ Upload!Init

\* Steps of one component.
OnTable == part = "table" /\ UNCHANGED <<part, gateVars, configVars, uploadVars>>
OnGate == part = "gate" /\ UNCHANGED <<part, vars, configVars, uploadVars>>
OnConfig == part = "config" /\ UNCHANGED <<part, vars, gateVars, uploadVars>>
OnUpload == part = "upload" /\ UNCHANGED <<part, vars, gateVars, configVars>>

AllNext ==
    \/ OnTable /\ Next
    \/ OnGate /\ Gate!Next
    \/ OnConfig /\ Cfg!Next
    \/ OnUpload /\ Upload!Next

all == <<part, vars, gateVars, configVars, uploadVars>>

AllSpec == AllInit /\ [][AllNext]_all

\* Each component's own fairness, of its steps while it is the one that runs.
tableFair ==
    /\ WF_vars(part = "table" /\ BeginReload)
    /\ WF_vars(part = "table" /\ Count)
    /\ WF_vars(part = "table" /\ Parse)
    /\ WF_vars(part = "table" /\ Swap)
    /\ WF_vars(part = "table" /\ Claim)
    /\ WF_vars(part = "table" /\ Execute)
    /\ WF_vars(part = "table" /\ Give)
    /\ WF_vars(part = "table" /\ Written)
    /\ WF_vars(part = "table" /\ RequestReload)

gateFair ==
    /\ WF_gateVars(part = "gate" /\ Gate!Pass)
    /\ WF_gateVars(part = "gate" /\ Gate!Clock)

configFair ==
    /\ WF_configVars(part = "config" /\ Cfg!StartUp)

uploadFair ==
    /\ WF_uploadVars(part = "upload" /\ Upload!Reading)
    /\ WF_uploadVars(part = "upload" /\ Upload!Lost /\ wire = <<>>)
    /\ WF_uploadVars(part = "upload" /\ Upload!Handler)


-----------------------------------------------------------------------------
(* The components' properties; liveness under each component's own fairness. *)

\* What changes takes hold in the end: the table stored last is in use, unless
\* a trip stays open, its file is incomplete or the failure is told; an engine
\* that stops or starts is noticed; and the device comes up from any
\* configuration file. (PidTable, PollGate, ConfigStore.)
ChangesTakeHold ==
    /\ part = "table" /\ tableFair => NewestApplies
    /\ part = "gate" /\ gateFair => Gate!StopIsSeen /\ Gate!DriveIsSeen
    /\ part = "config" /\ configFair => Cfg!ComesUp

\* What the parser hands on is the file that was sent, only a whole image is
\* selected, "done" means all of it is there, a refusal keeps the old one, and
\* a good upload lands. (WebUpload.)
UploadIsWhole ==
    /\ []Upload!TypeOK /\ []Upload!SinkGetsTheFile
    /\ []Upload!BootsOnlyWhole /\ []Upload!DoneIsWhole
    /\ []Upload!RefusedKeepsOld
    /\ part = "upload" /\ uploadFair => Upload!GoodUploadLands
=============================================================================
