---------------------------- MODULE DeadManLease ----------------------------
(***************************************************************************)
(* What a dead-man lease promises its holder, whatever tasks and locks     *)
(* implement it: tokens are never reused, and a lease ends only because    *)
(* its holder (or an unconditional release) asked, or because it lapsed.   *)
(* A renewal, or a new grant, takes the lease out of the lapsed state.     *)
(* used is the last token handed out by the shared counter.                *)
(***************************************************************************)
EXTENDS Naturals

VARIABLES holder,   \* the token of the lease, 0 when nobody holds it
          used,     \* the highest token ever granted
          lapsed,   \* the holder is past its deadline
          asked     \* a release that names this lease is in progress

vars == <<holder, used, lapsed, asked>>

Init == holder = 0 /\ used = 0 /\ lapsed = FALSE /\ asked = FALSE

\* A fresh token replaces whatever was there: a new pause is its own lease.
Grant ==
    /\ used' = used + 1
    /\ holder' = used'
    /\ lapsed' \in BOOLEAN
    /\ asked' \in BOOLEAN

\* The counter is shared: the other lease was granted.
GrantElsewhere ==
    /\ used' = used + 1
    /\ asked' \in BOOLEAN
    /\ UNCHANGED <<holder, lapsed>>

\* Time passes, renewals arrive, releases are asked for.
Hold ==
    /\ lapsed' \in BOOLEAN
    /\ lapsed' => holder # 0
    /\ asked' \in BOOLEAN
    /\ UNCHANGED <<holder, used>>

End ==
    /\ holder # 0
    /\ lapsed \/ asked
    /\ holder' = 0
    /\ lapsed' = FALSE
    /\ asked' \in BOOLEAN
    /\ UNCHANGED used

Next == Grant \/ GrantElsewhere \/ Hold \/ End

Spec == Init /\ [][Next]_vars
=============================================================================
