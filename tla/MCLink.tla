------------------------------- MODULE MCLink -------------------------------
(*****************************************************************************)
(* What a host says and what becomes of it: the dedicated port and its       *)
(* commands, the lines of the SLCAN protocol, and the read codec.  Each      *)
(* behaviour is one component's; the read's promise, RomIsRead, and its      *)
(* variables are HostLink_proofs's.                                          *)
(*****************************************************************************)
EXTENDS HostLink_proofs

\* Images with two regions, without an SBL region, without a program region.
MCImages == {[sbl |-> 1, program |-> 1], [sbl |-> 0, program |-> 2],
             [sbl |-> 2, program |-> 0]}

\* For the claim of the port: hosts that reconnect at once.
PromptSlcan == {"slcan", "prompt"}

\* Lines that are no command: an unknown letter, a value or a filter cut short.
BadCommands ==
    {<<"bogus", "cr">>, <<"t", "1", "cr">>, <<"M", "1", "cr">>,
     <<"s", "1", "1", "cr">>, <<"S", "cr">>}

VARIABLES
    part,   \* the component this behaviour is about
    rest, asked, want, state, cmd, msgIndex, fstate, index, ids, high, frame,
    stale, loopback, can, sent, acks, clean, began, bad, after

readVars ==
    <<pc, block, attempt, pending, got, read_rx, asks, flowing, out, result,
      raised, polite, capped, lost, late>>
slcanVars ==
    <<rest, asked, want, state, cmd, msgIndex, fstate, index, ids, high,
      frame, stale, loopback, can, sent, acks, clean, began, bad, after>>

Slcan == INSTANCE SlcanLine WITH
    StdLen <- 1, ExtLen <- 2, FilterLen <- 2, MaxDlc <- 2,
    Ids <- {<<"1">>, <<"0", "1">>}, Pairs <- {<<"1", "0">>}, BadLines <- BadCommands,
    IndexRange <- 8, LenRange <- 10, MaxRead <- 19, MaxBad <- 1, MaxAfter <- 1

\* The other components stand still; where one may start from several states,
\* it stands in one of them.
AllInit ==
    /\ part \in {"link", "read", "slcan"}
    /\ Init
    /\ part = "read" \/ polite = FALSE
    /\ Read!Init
    /\ Slcan!Init

\* Steps of one component.
OnLink == part = "link" /\ UNCHANGED <<part, readVars, slcanVars>>
OnRead == part = "read" /\ UNCHANGED <<part, vars, slcanVars>>
OnSlcan == part = "slcan" /\ UNCHANGED <<part, vars, readVars>>

AllNext ==
    \/ OnLink /\ Next
    \/ OnRead /\ Read!Next
    \/ OnSlcan /\ Slcan!Next

all == <<part, vars, readVars, slcanVars>>

AllSpec == AllInit /\ [][AllNext]_all

\* Each component's own fairness, of its steps while it is the one that runs.
linkFair ==
    /\ WF_vars(part = "link" /\ Server)
    /\ WF_vars(part = "link" /\ Receive)
    /\ WF_vars(part = "link" /\ Transmit)
    /\ WF_vars(part = "link" /\ Advance)

readFair ==
    /\ WF_readVars(part = "read" /\ (Read!Start \/ Read!Request \/ Read!First \/ Read!Rest \/ Read!WaitEnds \/ Read!Stream))
    /\ WF_readVars(part = "read" /\ Read!Ecu)


-----------------------------------------------------------------------------
(* The components' properties; liveness under each component's own fairness. *)

\* Whatever the host does every command ends, and after it has gone the port
\* listens again; a read of the ROM always ends. (HostLink, FastRead.)
LinkLive ==
    /\ part = "link" /\ linkFair => CommandsFinish /\ PortRecovers
    /\ part = "read" /\ readFair => Read!AlwaysEnds

\* A frame is sent as it was typed, a good command is done whatever was typed
\* before it, and the controller hears itself only after Y. (SlcanLine.)
LineIsTyped ==
    /\ []Slcan!TypeOK /\ []Slcan!FramesAreAsTyped
    /\ []Slcan!CommandsGetThrough
    /\ Slcan!SelfOnlyAfterY

\* The host port alone, under its fairness, for the claim that it recovers
\* whatever a host does.
PortSpec == AllSpec /\ [](part = "link") /\ linkFair
=============================================================================
