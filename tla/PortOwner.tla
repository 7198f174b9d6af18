------------------------------ MODULE PortOwner ------------------------------
(***************************************************************************)
(* What the dead-man reaper relies on about the host port: at any moment   *)
(* it has at most one owner, each owner has a number no owner had before,  *)
(* and an owner that has gone never comes back.                            *)
(***************************************************************************)
EXTENDS Naturals

VARIABLES owner,   \* the owner's number, 0 when there is none
          used     \* the last number given out

Init == owner = 0 /\ used = 0

Arrive == owner = 0 /\ owner' = used + 1 /\ used' = used + 1

Leave == owner # 0 /\ owner' = 0 /\ UNCHANGED used

Spec == Init /\ [][Arrive \/ Leave]_<<owner, used>>
=============================================================================
