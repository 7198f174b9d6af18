------------------------------ MODULE MCLeases ------------------------------
(*****************************************************************************)
(* The coexistence leases under two sets of requests: every lease operation  *)
(* with hosts that come back, and everything at once around a flash.  Each   *)
(* behaviour is one set's.                                                   *)
(*****************************************************************************)
EXTENDS Coexist

\* The REST lease operations with reconnecting clients and live traffic.
LeaseOps == {"pause", "resume", "claim", "release", "keepalive", "port",
             "tokenless"}

\* A codec and a pausing, claiming host beside the owner's web page, the
\* writer's rearm and diagnostic traffic.
BusyOps == {"pause", "claim", "flash", "diag", "start", "start_parked", "rearm"}

VARIABLES
    part,   \* the component this behaviour is about
    busy_now, busy_gen, busy_open, busy_seq, busy_park, busy_claim,
    busy_flash, busy_flashSince, busy_lastDiag, busy_mode, busy_prepause,
    busy_wanted, busy_http, busy_reaper, busy_stuckSince, busy_alarm,
    busy_writer

busyVars ==
    <<busy_now, busy_gen, busy_open, busy_seq, busy_park, busy_claim,
      busy_flash, busy_flashSince, busy_lastDiag, busy_mode, busy_prepause,
      busy_wanted, busy_http, busy_reaper, busy_stuckSince, busy_alarm,
      busy_writer>>

Busy == INSTANCE Coexist WITH
    Ops <- BusyOps, ParkTTL <- 1, ClaimTTL <- 1, Grace <- 0, Quiesce <- 1,
    StuckCeiling <- 1, MaxTime <- 3, HostHorizon <- 3, MaxToken <- 2,
    MaxGen <- 1,
    now <- busy_now, gen <- busy_gen, open <- busy_open, seq <- busy_seq,
    park <- busy_park, claim <- busy_claim, flash <- busy_flash,
    flashSince <- busy_flashSince, lastDiag <- busy_lastDiag,
    mode <- busy_mode, prepause <- busy_prepause, wanted <- busy_wanted,
    http <- busy_http, reaper <- busy_reaper, stuckSince <- busy_stuckSince,
    alarm <- busy_alarm, writer <- busy_writer

\* The other components stand still; where one may start from several states,
\* it stands in one of them.
AllInit ==
    /\ part \in {"leases", "busy"}
    /\ Init
    /\ Busy!Init

\* Steps of one component.
OnLeases == part = "leases" /\ UNCHANGED <<part, busyVars>>
OnBusy == part = "busy" /\ UNCHANGED <<part, vars>>

AllNext ==
    \/ OnLeases /\ Next
    \/ OnBusy /\ Busy!Next

all == <<part, vars, busyVars>>

AllSpec == AllInit /\ [][AllNext]_all

-----------------------------------------------------------------------------
(* The components' properties; liveness under each component's own fairness. *)

\* A codec that owned the bus when the reaper read the flash bit keeps both
\* leases through that pass. (Coexist.)
BusyFlashKeepsLeases == Busy!RunningFlashKeepsLeases
=============================================================================
