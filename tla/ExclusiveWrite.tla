--------------------------- MODULE ExclusiveWrite ---------------------------
(***************************************************************************)
(* What the ECU-flash fence promises, whatever flags implement it: an ECU  *)
(* write is exclusive with a firmware update and with a reset of the       *)
(* adapter.  A reset may cut an update short; nothing cuts a write short.  *)
(***************************************************************************)

VARIABLE owner   \* who has the adapter: "none", "write", "update" or "reset"

Init == owner = "none"

Begin(who) == owner = "none" /\ owner' = who

Next ==
    \/ Begin("write") \/ Begin("update") \/ Begin("reset")
    \/ owner \in {"write", "update"} /\ owner' = "none"
    \/ owner = "update" /\ owner' = "reset"
    \/ owner = "reset" /\ owner' = "none"

Spec == Init /\ [][Next]_owner
=============================================================================
