------------------------------- MODULE Coexist -------------------------------
(***************************************************************************)
(* No-reboot coexistence between the datalogger and an NC Flash host: the  *)
(* two dead-man leases of main/can.c, the POST /datalog and /csv_logger    *)
(* handlers that arm and release them and switch the CSV manual mode       *)
(* (components/csv_logger/csv_logger.c), the reaper task that takes a      *)
(* vanished host's leases away (main/datalog_lease_task.c), the writer     *)
(* task's manual-stop rearm, and the connection generation of the 35001    *)
(* port (main/slcan_port.c).                                               *)
(*                                                                         *)
(* httpd is one task, so at most one handler runs; the reaper and the      *)
(* writer are separate unpinned tasks on a two-core chip, so their steps   *)
(* interleave with the handler's at every shared access.  One step here is *)
(* one critical section, or one lock-free access of shared state with the  *)
(* local computation around it; two reads with nothing decided in between  *)
(* (clock and connection generation; flash bit and diagnostic clock) share *)
(* a step.                                                                 *)
(*                                                                         *)
(* The CSV writer was created at boot (csv_log = enable), so setting the   *)
(* manual mode cannot fail; the rearm that sleep performs is not modelled. *)
(***************************************************************************)
EXTENDS Naturals

CONSTANTS
    ParkTTL, ClaimTTL,   \* COEXIST_PARK_LEASE_TTL, COEXIST_HOST_CLAIM_LEASE_TTL
    Grace,               \* COEXIST_TEARDOWN_GRACE
    Quiesce,             \* COEXIST_BUS_IDLE_QUIESCE
    StuckCeiling,        \* COEXIST_STUCK_FLASH_CEILING
    Ops,                 \* the operations the environment performs
    MaxTime,             \* bound: the clock stops here
    HostHorizon,         \* bound: no host or owner activity after this time
    MaxToken,            \* bound: lease grants
    MaxGen               \* bound: connections accepted on 35001

OpNames == {"pause", "resume", "claim", "release", "keepalive", "start",
            "start_parked", "stop", "tokenless", "rearm", "port", "flash",
            "diag"}

ASSUME CoexistAssumption ==
    /\ ParkTTL \in Nat \ {0}
    /\ ClaimTTL \in Nat \ {0}
    /\ Grace \in Nat /\ Quiesce \in Nat /\ StuckCeiling \in Nat
    /\ MaxTime \in Nat /\ HostHorizon \in Nat
    /\ MaxToken \in Nat /\ MaxGen \in Nat
    /\ Ops \subseteq OpNames

-----------------------------------------------------------------------------
(* A lease, {active, token, owner, deadline}: one shape for the datalog-park *)
(* (s_park) and the host bus-claim (s_claim).  Each operator is the body of   *)
(* one critical section under s_park_mux; the clock and the connection        *)
(* generation it uses are sampled by the caller before the lock is taken, so  *)
(* they are parameters.  The code's uint32 token counter would need 2^32      *)
(* grants to wrap.                                                            *)

LeaseSet == [active : BOOLEAN, token : Nat, owner : Nat, deadline : Nat]

\* lease_clear: token 0 is the reserved "disarmed" sentinel.
NoLease == [active |-> FALSE, token |-> 0, owner |-> 0, deadline |-> 0]

\* lease_arm: a fresh token, the sampled owner and sampled clock + ttl.
ArmedLease(tok, owner, t, ttl) ==
    [active |-> TRUE, token |-> tok, owner |-> owner, deadline |-> t + ttl]

\* lease_renew: a token-matched deadline bump.  The owner is re-stamped only
\* when a client is connected.  An expired lease that was not reaped can be
\* renewed.
RenewMatches(L, tok) == L.active /\ L.token = tok

RenewedLease(L, owner, t, ttl) ==
    [L EXCEPT !.deadline = t + ttl,
              !.owner = IF owner # 0 THEN owner ELSE @]

\* Mutant: a release that takes any token.
ReleaseClearsAny(L, tok) == L.active

\* lease_release: token-matched, 0 releases unconditionally; releasing what
\* is already released unconditionally is a success.
ReleaseClears(L, tok) == L.active /\ (tok = 0 \/ L.token = tok)

ReleaseSucceeds(L, tok) == ReleaseClears(L, tok) \/ (~L.active /\ tok = 0)

\* lease_reap: compare-and-act on the (token, deadline) the reaper sampled.
ReapClears(L, tok, deadline, t) ==
    /\ L.active
    /\ L.token = tok
    /\ L.deadline = deadline
    /\ deadline # 0
    /\ t > deadline

\* can_coexist_snapshot: the two derived facts of a lease.
Expired(L, t) == L.deadline # 0 /\ t > L.deadline

OwnerAlive(L, gen) == IF L.owner = 0 THEN gen # 0 ELSE gen = L.owner

-----------------------------------------------------------------------------

VARIABLES
    now,        \* esp_timer_get_time(), coarse ticks, started before any lease
    gen,        \* s_conn_gen
    open,       \* PORT_OPEN_BIT
    seq,        \* s_token_seq
    park,       \* s_park
    claim,      \* s_claim
    flash,      \* FLASH_ACTIVE_BIT
    flashSince, \* when FLASH_ACTIVE_BIT was last raised (history)
    lastDiag,   \* s_last_diag_activity_ms
    mode,       \* csv_manual_mode
    prepause,   \* s_datalog_prepause_mode
    wanted,     \* the mode the owner last asked for (history)
    http,       \* the handler the httpd task is in, with its locals
    reaper,     \* datalog_lease_task's position and snapshot
    stuckSince, \* its flash_since_us, 0 when no flash was seen
    alarm,      \* s_stuck_flash_alarm
    writer      \* csv_manual_stop_rearm's position in the writer task

envVars    == <<now, gen, open, lastDiag>>
leaseVars  == <<seq, park, claim>>
flashVars  == <<flash, flashSince>>
modeVars   == <<mode, prepause, wanted>>
reaperVars == <<reaper, stuckSince, alarm>>
vars == <<envVars, leaseVars, flashVars, modeVars, http, reaperVars, writer>>

Mode == {"auto", "on", "off"}

HttpPC == {"idle", "pause_save", "pause_stop", "pause_sample", "arm_park",
           "release_park", "restore", "arm_claim", "release_claim",
           "renew_park", "sample_claim", "renew_claim"}

HttpSet == [pc : HttpPC, was : BOOLEAN, t : Nat, owner : Nat,
            ptok : Nat, ctok : Nat]

IdleHttp == [pc |-> "idle", was |-> FALSE, t |-> 0, owner |-> 0,
             ptok |-> 0, ctok |-> 0]

ReaperPC == {"sleep", "bus", "leases", "reap_claim", "reap_park", "restore"}

ReaperSet == [pc : ReaperPC, t : Nat, gen : Nat, flash : BOOLEAN,
              quiet : BOOLEAN, ctok : Nat, cdl : Nat, ptok : Nat, pdl : Nat,
              parkDue : BOOLEAN]

AsleepReaper == [pc |-> "sleep", t |-> 0, gen |-> 0, flash |-> FALSE,
                 quiet |-> FALSE, ctok |-> 0, cdl |-> 0,
                 ptok |-> 0, pdl |-> 0, parkDue |-> FALSE]

TypeOK ==
    /\ now \in Nat \ {0}
    /\ gen \in Nat
    /\ open \in BOOLEAN
    /\ seq \in Nat
    /\ park \in LeaseSet
    /\ claim \in LeaseSet
    /\ flash \in BOOLEAN
    /\ flashSince \in Nat
    /\ lastDiag \in Nat
    /\ mode \in Mode
    /\ prepause \in Mode
    /\ wanted \in Mode
    /\ http \in HttpSet
    /\ reaper \in ReaperSet
    /\ stuckSince \in Nat
    /\ alarm \in BOOLEAN
    /\ writer \in {"idle", "park", "clear"}

Init ==
    /\ now = 1 /\ gen = 0 /\ open = FALSE /\ lastDiag = 0
    /\ seq = 0 /\ park = NoLease /\ claim = NoLease
    /\ flash = FALSE /\ flashSince = 0
    /\ mode = "auto" /\ prepause = "auto" /\ wanted = "auto"
    /\ http = IdleHttp
    /\ reaper = AsleepReaper /\ stuckSince = 0 /\ alarm = FALSE
    /\ writer = "idle"

-----------------------------------------------------------------------------
(* The environment: the clock, the 35001 port, the ECU traffic, the codec. *)

HostActive == now <= HostHorizon

\* slcan_port_conn_gen: the accept generation while a client is connected.
ConnGen == IF open THEN gen ELSE 0

Tick ==
    /\ now < MaxTime
    /\ now' = now + 1
    /\ UNCHANGED <<gen, open, lastDiag, leaseVars, flashVars, modeVars, http,
                   reaperVars, writer>>

PortAccept ==
    /\ "port" \in Ops /\ HostActive /\ gen < MaxGen
    /\ ~open
    /\ gen' = gen + 1
    /\ open' = TRUE
    /\ UNCHANGED <<now, lastDiag, leaseVars, flashVars, modeVars, http,
                   reaperVars, writer>>

PortClose ==
    /\ open
    /\ open' = FALSE
    /\ UNCHANGED <<now, gen, lastDiag, leaseVars, flashVars, modeVars, http,
                   reaperVars, writer>>

\* can_send, or an ECU reply in the diagnostic range, stamps the diag clock.
DiagTraffic ==
    /\ "diag" \in Ops /\ HostActive
    /\ lastDiag' = now
    /\ UNCHANGED <<now, gen, open, leaseVars, flashVars, modeVars, http,
                   reaperVars, writer>>

\* A codec runs inline on can_tx_task, so its test-and-set has one writer.
FlashStart ==
    /\ "flash" \in Ops /\ HostActive
    /\ ~flash
    /\ flash' = TRUE
    /\ flashSince' = now
    /\ UNCHANGED <<envVars, leaseVars, modeVars, http, reaperVars, writer>>

FlashEnd ==
    /\ flash
    /\ flash' = FALSE
    /\ UNCHANGED <<envVars, leaseVars, flashSince, modeVars, http, reaperVars,
                   writer>>

Environment == Tick \/ PortAccept \/ PortClose \/ DiagTraffic
               \/ FlashStart \/ FlashEnd

-----------------------------------------------------------------------------
(* The REST handlers, on the single httpd task. *)

Request(op) == op \in Ops /\ HostActive /\ http.pc = "idle"

\* op=pause, first access: was_parked.
Pause ==
    /\ Request("pause") /\ seq < MaxToken
    /\ http' = [IdleHttp EXCEPT !.pc = "pause_save", !.was = park.active]
    /\ UNCHANGED <<envVars, leaseVars, flashVars, modeVars, reaperVars, writer>>

\* Only a first pause records the mode to restore.
PauseSave ==
    /\ http.pc = "pause_save"
    /\ prepause' = IF http.was THEN prepause ELSE mode
    /\ http' = [http EXCEPT !.pc = "pause_stop"]
    /\ UNCHANGED <<envVars, leaseVars, flashVars, mode, wanted, reaperVars,
                   writer>>

\* csv_logger_set_manual_override(false): stop the producer first ...
PauseStop ==
    /\ http.pc = "pause_stop"
    /\ mode' = "off"
    /\ http' = [http EXCEPT !.pc = "pause_sample"]
    /\ UNCHANGED <<envVars, leaseVars, flashVars, prepause, wanted, reaperVars,
                   writer>>

\* ... then lease_arm, which samples clock and owner before the lock.
PauseSample ==
    /\ http.pc = "pause_sample"
    /\ http' = [http EXCEPT !.pc = "arm_park", !.t = now, !.owner = ConnGen]
    /\ UNCHANGED <<envVars, leaseVars, flashVars, modeVars, reaperVars, writer>>

ArmPark ==
    /\ http.pc = "arm_park"
    /\ seq' = seq + 1
    /\ park' = ArmedLease(seq', http.owner, http.t, ParkTTL)
    /\ http' = IdleHttp
    /\ UNCHANGED <<envVars, claim, flashVars, modeVars, reaperVars, writer>>

\* op=resume with a token the host holds, made up, or left out (0).
Resume(tok) ==
    /\ Request("resume")
    /\ http' = [IdleHttp EXCEPT !.pc = "release_park", !.ptok = tok]
    /\ UNCHANGED <<envVars, leaseVars, flashVars, modeVars, reaperVars, writer>>

\* Mutant: the mode is restored whether or not the release succeeded.
ReleaseParkUnchecked ==
    /\ http.pc = "release_park"
    /\ park' = IF ReleaseClears(park, http.ptok) THEN NoLease ELSE park
    /\ http' = [http EXCEPT !.pc = "restore", !.ptok = park.token]
    /\ UNCHANGED <<envVars, seq, claim, flashVars, modeVars, reaperVars, writer>>

\* can_park_lease_release: on failure the reply is 409 and nothing changes.
\* ptok keeps the token of the lease this handler ended.
ReleasePark ==
    /\ http.pc = "release_park"
    /\ IF ReleaseSucceeds(park, http.ptok)
         THEN /\ park' = NoLease
              /\ http' = [http EXCEPT !.pc = "restore", !.ptok = park.token]
         ELSE /\ http' = IdleHttp
              /\ UNCHANGED park
    /\ UNCHANGED <<envVars, seq, claim, flashVars, modeVars, reaperVars, writer>>

\* datalog_restore_mode, called by the resume handler.
HttpRestore ==
    /\ http.pc = "restore"
    /\ mode' = prepause
    /\ http' = IdleHttp
    /\ UNCHANGED <<envVars, leaseVars, flashVars, prepause, wanted, reaperVars,
                   writer>>

BusClaim ==
    /\ Request("claim") /\ seq < MaxToken
    /\ http' = [IdleHttp EXCEPT !.pc = "arm_claim", !.t = now, !.owner = ConnGen]
    /\ UNCHANGED <<envVars, leaseVars, flashVars, modeVars, reaperVars, writer>>

\* Mutant: the claim does not draw from the shared counter.
ArmClaimSameToken ==
    /\ http.pc = "arm_claim"
    /\ claim' = ArmedLease(seq + 1, http.owner, http.t, ClaimTTL)
    /\ http' = IdleHttp
    /\ UNCHANGED <<envVars, seq, park, flashVars, modeVars, reaperVars, writer>>

ArmClaim ==
    /\ http.pc = "arm_claim"
    /\ seq' = seq + 1
    /\ claim' = ArmedLease(seq', http.owner, http.t, ClaimTTL)
    /\ http' = IdleHttp
    /\ UNCHANGED <<envVars, park, flashVars, modeVars, reaperVars, writer>>

BusRelease(tok) ==
    /\ Request("release")
    /\ http' = [IdleHttp EXCEPT !.pc = "release_claim", !.ctok = tok]
    /\ UNCHANGED <<envVars, leaseVars, flashVars, modeVars, reaperVars, writer>>

ReleaseClaim ==
    /\ http.pc = "release_claim"
    /\ claim' = IF ReleaseClears(claim, http.ctok) THEN NoLease ELSE claim
    /\ http' = IdleHttp
    /\ UNCHANGED <<envVars, seq, park, flashVars, modeVars, reaperVars, writer>>

\* op=keepalive renews the park, then the claim; a token left out is 0, which
\* matches no armed lease.
Keepalive(ptok, ctok) ==
    /\ Request("keepalive")
    /\ http' = [IdleHttp EXCEPT !.pc = "renew_park", !.t = now,
                                !.owner = ConnGen, !.ptok = ptok, !.ctok = ctok]
    /\ UNCHANGED <<envVars, leaseVars, flashVars, modeVars, reaperVars, writer>>

RenewPark ==
    /\ http.pc = "renew_park"
    /\ park' = IF RenewMatches(park, http.ptok)
               THEN RenewedLease(park, http.owner, http.t, ParkTTL) ELSE park
    /\ http' = [http EXCEPT !.pc = "sample_claim"]
    /\ UNCHANGED <<envVars, seq, claim, flashVars, modeVars, reaperVars, writer>>

SampleClaim ==
    /\ http.pc = "sample_claim"
    /\ http' = [http EXCEPT !.pc = "renew_claim", !.t = now, !.owner = ConnGen]
    /\ UNCHANGED <<envVars, leaseVars, flashVars, modeVars, reaperVars, writer>>

RenewClaim ==
    /\ http.pc = "renew_claim"
    /\ claim' = IF RenewMatches(claim, http.ctok)
                THEN RenewedLease(claim, http.owner, http.t, ClaimTTL) ELSE claim
    /\ http' = IdleHttp
    /\ UNCHANGED <<envVars, seq, park, flashVars, modeVars, reaperVars, writer>>

\* POST /csv_logger?op=start and op=stop, from the owner's web page.  Nothing
\* in the handler looks at the park lease.
CsvStart ==
    /\ Request("start")
    /\ park.active => "start_parked" \in Ops
    /\ mode' = "on"
    /\ wanted' = "on"
    /\ UNCHANGED <<envVars, leaseVars, flashVars, prepause, http, reaperVars,
                   writer>>

CsvStop ==
    /\ Request("stop")
    /\ park.active => "start_parked" \in Ops
    /\ mode' = "off"
    /\ wanted' = "off"
    /\ UNCHANGED <<envVars, leaseVars, flashVars, prepause, http, reaperVars,
                   writer>>

HttpStep == PauseSave \/ PauseStop \/ PauseSample \/ ArmPark \/ ReleasePark
            \/ HttpRestore \/ ArmClaim \/ ReleaseClaim \/ RenewPark
            \/ SampleClaim \/ RenewClaim

HttpRequest ==
    \/ Pause \/ BusClaim \/ CsvStart \/ CsvStop
    \/ \E tok \in 0..seq :
         /\ tok = 0 => "tokenless" \in Ops
         /\ Resume(tok) \/ BusRelease(tok)
    \/ \E ptok, ctok \in 0..seq : Keepalive(ptok, ctok)

-----------------------------------------------------------------------------
(* The reaper, datalog_lease_task. *)

\* can_coexist_snapshot, the reads before the lock: first the clock ...
SnapClock ==
    /\ reaper.pc = "sleep"
    /\ reaper' = [AsleepReaper EXCEPT !.pc = "bus", !.t = now, !.gen = ConnGen]
    /\ UNCHANGED <<envVars, leaseVars, flashVars, modeVars, http, stuckSince,
                   alarm, writer>>

\* diag_idle_ms >= COEXIST_BUS_IDLE_QUIESCE_MS, a uint32 difference: a stamp
\* newer than the sampled clock wraps to an age of almost 2^32 ms.
DiagIdle(t) == lastDiag > t \/ t - lastDiag >= Quiesce

\* ... then the flash bit and the diagnostic clock.
SnapBus ==
    /\ reaper.pc = "bus"
    /\ reaper' = [reaper EXCEPT !.pc = "leases", !.flash = flash,
                                !.quiet = DiagIdle(reaper.t)]
    /\ UNCHANGED <<envVars, leaseVars, flashVars, modeVars, http, stuckSince,
                   alarm, writer>>

\* The sampled conditions of the two reaps.
ClaimReapDue ==
    /\ Expired(claim, reaper.t)
    /\ ~OwnerAlive(claim, reaper.gen)
    /\ reaper.quiet
    /\ reaper.t > claim.deadline + Grace

ParkReapDue ==
    /\ park.active
    /\ Expired(park, reaper.t)
    /\ ~OwnerAlive(park, reaper.gen)
    /\ reaper.quiet

\* Where the two conditions send the reaper: a live claim fences the bus.
ReapChosen ==
    LET sampled == [reaper EXCEPT !.ptok = park.token, !.pdl = park.deadline,
                                  !.parkDue = ParkReapDue]
    IN  IF claim.active /\ ClaimReapDue
          THEN [sampled EXCEPT !.pc = "reap_claim", !.ctok = claim.token,
                               !.cdl = claim.deadline]
        ELSE IF ~claim.active /\ ParkReapDue
          THEN [sampled EXCEPT !.pc = "reap_park"]
        ELSE AsleepReaper

\* Mutant: a reaper that acts during a flash.
SnapLeasesInFlash ==
    /\ reaper.pc = "leases"
    /\ reaper' = ReapChosen
    /\ UNCHANGED <<envVars, leaseVars, flashVars, modeVars, http, stuckSince,
                   alarm, writer>>

\* The leases, under the lock, and the local decisions up to the next shared
\* access: while a flash owns the bus only the stuck alarm is touched.
SnapLeases ==
    /\ reaper.pc = "leases"
    /\ stuckSince' = IF ~reaper.flash THEN 0
                     ELSE IF stuckSince = 0 THEN reaper.t ELSE stuckSince
    /\ alarm' = /\ reaper.flash
                /\ \/ alarm
                   \/ stuckSince # 0 /\ reaper.t - stuckSince > StuckCeiling
    /\ reaper' = IF reaper.flash THEN AsleepReaper ELSE ReapChosen
    /\ UNCHANGED <<envVars, leaseVars, flashVars, modeVars, http, writer>>

\* can_host_bus_claim_reap; only its success lets the park reap follow.
ReapClaim ==
    /\ reaper.pc = "reap_claim"
    /\ IF ReapClears(claim, reaper.ctok, reaper.cdl, now)
         THEN /\ claim' = NoLease
              /\ reaper' = IF reaper.parkDue
                           THEN [reaper EXCEPT !.pc = "reap_park"]
                           ELSE AsleepReaper
         ELSE /\ reaper' = AsleepReaper
              /\ UNCHANGED claim
    /\ UNCHANGED <<envVars, seq, park, flashVars, modeVars, http, stuckSince,
                   alarm, writer>>

\* can_park_lease_reap ...
ReapPark ==
    /\ reaper.pc = "reap_park"
    /\ IF ReapClears(park, reaper.ptok, reaper.pdl, now)
         THEN /\ park' = NoLease
              /\ reaper' = [reaper EXCEPT !.pc = "restore"]
         ELSE /\ reaper' = AsleepReaper
              /\ UNCHANGED park
    /\ UNCHANGED <<envVars, seq, claim, flashVars, modeVars, http, stuckSince,
                   alarm, writer>>

\* ... and only then datalog_restore_mode.
ReaperRestore ==
    /\ reaper.pc = "restore"
    /\ mode' = prepause
    /\ reaper' = AsleepReaper
    /\ UNCHANGED <<envVars, leaseVars, flashVars, prepause, wanted, http,
                   stuckSince, alarm, writer>>

Reaper == SnapClock \/ SnapBus \/ SnapLeases \/ ReapClaim \/ ReapPark \/ ReaperRestore

-----------------------------------------------------------------------------
(* csv_manual_stop_rearm, on the writer task: the mode is read, then the   *)
(* park flag, then AUTO is written.  Whether the trip is over is the        *)
(* environment's choice.                                                    *)

RearmMode ==
    /\ "rearm" \in Ops /\ HostActive
    /\ writer = "idle"
    /\ mode = "off"
    /\ writer' = "park"
    /\ UNCHANGED <<envVars, leaseVars, flashVars, modeVars, http, reaperVars>>

RearmPark ==
    /\ writer = "park"
    /\ writer' = IF park.active THEN "idle" ELSE "clear"
    /\ UNCHANGED <<envVars, leaseVars, flashVars, modeVars, http, reaperVars>>

RearmWrite ==
    /\ writer = "clear"
    /\ mode' = "auto"
    /\ wanted' = IF wanted = "off" THEN "auto" ELSE wanted
    /\ writer' = "idle"
    /\ UNCHANGED <<envVars, leaseVars, flashVars, prepause, http, reaperVars>>

Writer == RearmMode \/ RearmPark \/ RearmWrite

-----------------------------------------------------------------------------

Next == Environment \/ HttpRequest \/ HttpStep \/ Reaper \/ Writer

\* The tasks of the adapter keep being scheduled and the clock keeps running;
\* the host, the owner and the codec promise nothing.
Fairness == WF_vars(Tick) /\ WF_vars(HttpStep) /\ WF_vars(Reaper)
            /\ WF_vars(RearmPark \/ RearmWrite)

Spec == Init /\ [][Next]_vars

FairSpec == Spec /\ Fairness

-----------------------------------------------------------------------------
(* Properties. *)

\* The strengthening the proofs rest on, in named parts.  A disarmed lease
\* holds nothing; tokens in circulation were granted and differ between the
\* two leases (can.c: "claim/park tokens can never collide").
LeaseShape(L) ==
    /\ L.active => L.token \in 1..seq /\ L.deadline # 0
    /\ ~L.active => L = NoLease

TokensDistinct == park.active /\ claim.active => park.token # claim.token

\* The reaper's position implies what it sampled.
ReaperShape ==
    /\ reaper.t <= now
    /\ reaper.ptok <= seq
    /\ reaper.pc = "reap_claim" =>
          /\ reaper.ctok # 0
          /\ reaper.t > reaper.cdl + Grace
    /\ reaper.pc = "restore" =>
          /\ reaper.ptok # 0
          /\ park.active => park.token # reaper.ptok

HttpShape ==
    /\ http.t <= now
    /\ http.pc = "restore" =>
          /\ http.ptok <= seq
          /\ park.active => park.token # http.ptok

\* The mode is restored by exactly one winner per park lease: when the resume
\* handler and the reaper both stand before datalog_restore_mode, they got
\* there by ending different leases (csv_logger.c, datalog_restore_mode).
OneWinnerPerLease ==
    http.pc = "restore" /\ reaper.pc = "restore" => http.ptok # reaper.ptok

\* The inductive invariant.
CoexistInv ==
    /\ TypeOK
    /\ LeaseShape(park)
    /\ LeaseShape(claim)
    /\ TokensDistinct
    /\ ReaperShape
    /\ HttpShape
    /\ OneWinnerPerLease

\* Only the reaper lowers a lease outside a handler step, and it lowers the
\* claim only past the deadline of its latest renewal plus the teardown grace:
\* a keepalive or a fresh claim landing between the reaper's snapshot and its
\* reap is never destroyed (can.c and datalog_lease_task.c, "ABORTS the reap").
ClaimTakenOnlyWhenDead ==
    [][claim.active /\ ~claim'.active /\ http' = http
         => now > claim.deadline + Grace]_vars

\* Each lease keeps the promise of DeadManLease: it ends only when its holder
\* asked, or when it had lapsed, whatever the handlers and the reaper do.
ParkLease == INSTANCE DeadManLease WITH
    holder <- park.token,
    used   <- seq,
    lapsed <- park.active /\ now > park.deadline,
    asked  <- http.pc = "release_park" /\ http.ptok \in {0, park.token}

ClaimLease == INSTANCE DeadManLease WITH
    holder <- claim.token,
    used   <- seq,
    lapsed <- claim.active /\ now > claim.deadline,
    asked  <- http.pc = "release_claim" /\ http.ctok \in {0, claim.token}

ParkKeepsPromise == ParkLease!Spec
ClaimKeepsPromise == ClaimLease!Spec

\* Both leases keep that promise, and a claim no handler released was dead when
\* the reaper took it.
LeasesKeepPromises ==
    ParkKeepsPromise /\ ClaimKeepsPromise /\ ClaimTakenOnlyWhenDead

\* While a host holds the park lease the logger stays forced off; only
\* datalog_restore_mode may lift that (csv_bringup_logic.h, "HARD exclusion").
ParkedMeansForcedOff == park.active /\ http.pc = "idle" => mode = "off"

\* Once no host is parked, the logger is in the mode its owner last asked for:
\* a pause and its end, in any order with re-pauses, lose nothing.
ModeSurvivesSession ==
    ~park.active /\ http.pc = "idle" /\ reaper.pc # "restore" => mode = wanted

\* A resume restores a mode only after ending a park lease
\* (csv_logger.c, datalog_restore_mode: "exactly ONE winner per park lease").
RestoreEndsALease ==
    [][http.pc # "restore" /\ http'.pc = "restore" => park.active]_vars

\* What the owner of the logger is promised while hosts come and go: it is off
\* while one is parked, it is back as asked when none is, and only the end of a
\* lease brings it back.
ModeIsKept ==
    []ParkedMeansForcedOff /\ []ModeSurvivesSession /\ RestoreEndsALease

LeaseLowered(L) == L.active /\ ~L'.active

\* A codec that owned the bus when the reaper read the flash bit keeps both
\* leases through that pass (datalog_lease_task.c: "While a flash owns the bus
\* we touch nothing else").
RunningFlashKeepsLeases ==
    [][flash /\ http' = http /\ (LeaseLowered(park) \/ LeaseLowered(claim))
         => flashSince >= reaper.t]_vars

HostGone(L) == L.active => /\ ~OwnerAlive(L, ConnGen)
                           /\ now > L.deadline + Grace

\* The dead-man promise: if from some time on no codec owns the bus, and every
\* raised lease has run out (with the teardown grace) and is owned by no
\* connected client, then both leases are eventually lowered for good.
DeadManResumes ==
    <>[](~flash /\ HostGone(park) /\ HostGone(claim))
        => <>[](~park.active /\ ~claim.active)

Watching == stuckSince # 0 /\ (reaper.pc = "leases" => reaper.flash)

\* A codec the reaper has watched for longer than the ceiling is reported
\* unless it lets go of the bus first.
StuckFlashAlarmed ==
    (flash /\ Watching /\ now - stuckSince > StuckCeiling) ~> (alarm \/ ~flash)

-----------------------------------------------------------------------------
(* Claims of the comments the code does not keep, each with the operations  *)
(* that show it.  The parts of ModeIsKept are such claims once a host is    *)
(* late or a page careless: ModeSurvivesSession when "port" lets a lease    *)
(* lapse between two pauses, ParkedMeansForcedOff with "start_parked", and  *)
(* RestoreEndsALease with "tokenless".                                      *)

\* The reaper resumes the datalogger only when no claim and no flash holds
\* the bus (datalog_lease_task.c, DATALOG-REAP).  A claim or a flash may
\* arrive between the snapshot and the reap ("pause",
\* "claim", "port").
ParkReapNeedsFreeBus ==
    [][park.active /\ ~park'.active /\ http' = http
         => ~claim.active /\ ~flash]_vars

\* The reaper takes the diagnostic path for quiet only if it was quiet
\* (datalog_lease_task.c: "no diagnostic exchange is in flight").  A stamp
\* newer than the sampled clock reads as 49 days of silence ("pause", "diag").
QuietMeansQuiet ==
    [][reaper.pc = "bus" /\ reaper'.quiet => now - lastDiag >= Quiesce]_vars

\* The rearm moves OFF to AUTO and nothing else (csv_logger.c,
\* csv_manual_stop_rearm: "can only move OFF -> AUTO").  A start between its
\* read and its write is undone ("start", "stop", "rearm").
RearmOnlyFromOff ==
    [][writer = "clear" /\ writer' = "idle" => mode = "off"]_vars
=============================================================================
