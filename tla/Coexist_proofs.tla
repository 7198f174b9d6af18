--------------------------- MODULE Coexist_proofs ---------------------------
(***************************************************************************)
(* Proofs about Coexist, for every lease length, grace, operation set and  *)
(* bound.  CoexistInv is inductive; it is proved in two layers, the types  *)
(* first and then the relations between leases, handler and reaper.        *)
(***************************************************************************)
EXTENDS Coexist, TLAPS

USE DEF envVars, leaseVars, flashVars, modeVars, reaperVars

-----------------------------------------------------------------------------
(* The lease operators.                                                     *)

\* Arming, renewing and clearing a lease yield a lease (can.c, lease_arm,
\* lease_renew, lease_clear).
LEMMA NoLeaseType == NoLease \in LeaseSet
  BY DEF NoLease, LeaseSet

LEMMA ArmedType ==
    ASSUME NEW tok \in Nat, NEW owner \in Nat, NEW t \in Nat, NEW ttl \in Nat
    PROVE  ArmedLease(tok, owner, t, ttl) \in LeaseSet
  BY DEF ArmedLease, LeaseSet

LEMMA RenewedType ==
    ASSUME NEW L \in LeaseSet, NEW owner \in Nat, NEW t \in Nat, NEW ttl \in Nat
    PROVE  RenewedLease(L, owner, t, ttl) \in LeaseSet
<1>1. /\ (IF owner # 0 THEN owner ELSE L.owner) \in Nat
      /\ t + ttl \in Nat
  BY DEF LeaseSet
<1> QED
  BY <1>1 DEF RenewedLease, LeaseSet

\* A renewal changes neither the flag nor the token, and leaves a deadline.
LEMMA RenewalKeepsToken ==
    ASSUME NEW L \in LeaseSet, NEW owner \in Nat, NEW t \in Nat,
           NEW ttl \in Nat \ {0}
    PROVE  LET R == RenewedLease(L, owner, t, ttl) IN
           R.active = L.active /\ R.token = L.token /\ R.deadline # 0
  BY DEF RenewedLease, LeaseSet

-----------------------------------------------------------------------------
(* Types.                                                                   *)

LEMMA IdleTypes == IdleHttp \in HttpSet /\ AsleepReaper \in ReaperSet
  BY DEF IdleHttp, HttpSet, HttpPC, AsleepReaper, ReaperSet, ReaperPC

LEMMA TypeInit == Init => TypeOK
<1> SUFFICES ASSUME Init PROVE TypeOK
  OBVIOUS
<1>1. park \in LeaseSet /\ claim \in LeaseSet
  BY NoLeaseType DEF Init
<1>2. http \in HttpSet /\ reaper \in ReaperSet
  BY IdleTypes DEF Init
<1>3. open \in BOOLEAN /\ flash \in BOOLEAN /\ alarm \in BOOLEAN
  BY DEF Init
<1>4. /\ now \in Nat \ {0} /\ gen \in Nat /\ lastDiag \in Nat /\ seq \in Nat
      /\ flashSince \in Nat /\ stuckSince \in Nat
  BY DEF Init
<1>5. /\ mode \in Mode /\ prepause \in Mode /\ wanted \in Mode
      /\ writer \in {"idle", "park", "clear"}
  BY DEF Init, Mode
<1> QED
  BY <1>1, <1>2, <1>3, <1>4, <1>5 DEF TypeOK

\* The environment touches only the clock, the port and the codec bit.
LEMMA TypeEnvironment == TypeOK /\ Environment => TypeOK'
<1> SUFFICES ASSUME TypeOK, Environment PROVE TypeOK'
  OBVIOUS
<1> USE DEF TypeOK
<1>1. CASE Tick         BY <1>1 DEF Tick
<1>2. CASE PortAccept   BY <1>2 DEF PortAccept
<1>3. CASE PortClose    BY <1>3 DEF PortClose
<1>4. CASE DiagTraffic  BY <1>4 DEF DiagTraffic
<1>5. CASE FlashStart   BY <1>5 DEF FlashStart
<1>6. CASE FlashEnd     BY <1>6 DEF FlashEnd
<1> QED
  BY <1>1, <1>2, <1>3, <1>4, <1>5, <1>6 DEF Environment

\* A request only enters a handler (or, for the CSV buttons, sets the mode).
LEMMA TypeRequest == TypeOK /\ HttpRequest => TypeOK'
<1> SUFFICES ASSUME TypeOK, HttpRequest PROVE TypeOK'
  OBVIOUS
<1>0. ConnGen \in Nat /\ now \in Nat /\ park.active \in BOOLEAN /\ seq \in Nat
  BY DEF TypeOK, ConnGen, LeaseSet
<1>h. http' \in HttpSet => TypeOK'
  BY <1>0 DEF TypeOK, Mode, HttpRequest, Pause, BusClaim, CsvStart, CsvStop,
     Resume, BusRelease, Keepalive
<1>1. CASE Pause
  BY <1>0, <1>1, <1>h, IdleTypes DEF Pause, HttpSet, HttpPC
<1>2. CASE BusClaim
  BY <1>0, <1>2, <1>h, IdleTypes DEF BusClaim, HttpSet, HttpPC
<1>3. CASE CsvStart \/ CsvStop
  BY <1>3, <1>h DEF CsvStart, CsvStop, TypeOK
<1>4. ASSUME NEW tok \in 0..seq, Resume(tok) PROVE TypeOK'
  <2>1. tok \in Nat
    BY <1>0
  <2>2. http' \in HttpSet
    BY <2>1, <1>4, IdleTypes DEF Resume, HttpSet, HttpPC
  <2> QED
    BY <2>2, <1>h
<1>5. ASSUME NEW tok \in 0..seq, BusRelease(tok) PROVE TypeOK'
  <2>1. tok \in Nat
    BY <1>0
  <2>2. http' \in HttpSet
    BY <2>1, <1>5, IdleTypes DEF BusRelease, HttpSet, HttpPC
  <2> QED
    BY <2>2, <1>h
<1>6. ASSUME NEW ptok \in 0..seq, NEW ctok \in 0..seq, Keepalive(ptok, ctok)
      PROVE  TypeOK'
  <2>1. ptok \in Nat /\ ctok \in Nat
    BY <1>0
  <2>2. http' \in HttpSet
    BY <1>0, <2>1, <1>6, IdleTypes DEF Keepalive, HttpSet, HttpPC
  <2> QED
    BY <2>2, <1>h
<1> QED
  BY <1>1, <1>2, <1>3, <1>4, <1>5, <1>6 DEF HttpRequest

\* A handler step changes the leases through the lease operators only.
LEMMA TypeHttp == TypeOK /\ HttpStep => TypeOK'
<1> SUFFICES ASSUME TypeOK, HttpStep PROVE TypeOK'
  OBVIOUS
<1>0. /\ ConnGen \in Nat /\ now \in Nat /\ park.token \in Nat /\ seq' \in Nat
      /\ http.owner \in Nat /\ http.t \in Nat
      /\ ParkTTL \in Nat /\ ClaimTTL \in Nat
      /\ park \in LeaseSet /\ claim \in LeaseSet
  BY CoexistAssumption DEF CoexistAssumption, TypeOK, ConnGen, LeaseSet, HttpSet,
     HttpStep, PauseSave, PauseStop, PauseSample, ArmPark, ReleasePark,
     HttpRestore, ArmClaim, ReleaseClaim, RenewPark, SampleClaim, RenewClaim
<1>p. park' \in LeaseSet
  <2>1. CASE ArmPark
    BY <1>0, <2>1, ArmedType DEF ArmPark
  <2>2. CASE ReleasePark
    BY <1>0, <2>2, NoLeaseType DEF ReleasePark
  <2>3. CASE RenewPark
    BY <1>0, <2>3, RenewedType DEF RenewPark
  <2> QED
    BY <1>0, <2>1, <2>2, <2>3
       DEF HttpStep, PauseSave, PauseStop, PauseSample, HttpRestore, ArmClaim,
           ReleaseClaim, SampleClaim, RenewClaim
<1>c. claim' \in LeaseSet
  <2>1. CASE ArmClaim
    BY <1>0, <2>1, ArmedType DEF ArmClaim
  <2>2. CASE ReleaseClaim
    BY <1>0, <2>2, NoLeaseType DEF ReleaseClaim
  <2>3. CASE RenewClaim
    BY <1>0, <2>3, RenewedType DEF RenewClaim
  <2> QED
    BY <1>0, <2>1, <2>2, <2>3
       DEF HttpStep, PauseSave, PauseStop, PauseSample, ArmPark, ReleasePark,
           HttpRestore, RenewPark, SampleClaim
<1>h. http' \in HttpSet
  <2> USE <1>0, IdleTypes DEF TypeOK, HttpSet, HttpPC
  <2>1. CASE PauseSave \/ PauseStop
    BY <2>1 DEF PauseSave, PauseStop
  <2>2. CASE PauseSample \/ SampleClaim
    BY <2>2 DEF PauseSample, SampleClaim
  <2>3. CASE ReleasePark
    BY <2>3 DEF ReleasePark
  <2>4. CASE RenewPark
    BY <2>4 DEF RenewPark
  <2>5. CASE http' = IdleHttp
    BY <2>5
  <2> QED
    BY <2>1, <2>2, <2>3, <2>4, <2>5
       DEF HttpStep, ArmPark, HttpRestore, ArmClaim, ReleaseClaim, RenewClaim
<1> QED
  BY <1>0, <1>p, <1>c, <1>h
     DEF TypeOK, Mode, HttpStep, PauseSave, PauseStop, PauseSample, ArmPark,
         ReleasePark, HttpRestore, ArmClaim, ReleaseClaim, RenewPark,
         SampleClaim, RenewClaim

\* Where the sampled conditions send the reaper, field by field.
LEMMA ReapChosenFields ==
    ASSUME TypeOK
    PROVE  /\ ReapChosen \in ReaperSet
           /\ \/ ReapChosen = AsleepReaper
              \/ /\ ReapChosen.pc = "reap_claim"
                 /\ claim.active /\ ClaimReapDue
                 /\ ReapChosen.ctok = claim.token
                 /\ ReapChosen.cdl = claim.deadline
                 /\ ReapChosen.ptok = park.token
                 /\ ReapChosen.t = reaper.t
                 /\ ReapChosen.flash = reaper.flash
              \/ /\ ReapChosen.pc = "reap_park"
                 /\ ReapChosen.ptok = park.token
                 /\ ReapChosen.t = reaper.t
                 /\ ReapChosen.flash = reaper.flash
<1> DEFINE sampled == [reaper EXCEPT !.ptok = park.token,
                         !.pdl = park.deadline, !.parkDue = ParkReapDue]
           toClaim == [sampled EXCEPT !.pc = "reap_claim",
                         !.ctok = claim.token, !.cdl = claim.deadline]
           toPark  == [sampled EXCEPT !.pc = "reap_park"]
<1>0. /\ reaper \in ReaperSet
      /\ park.token \in Nat /\ park.deadline \in Nat
      /\ claim.token \in Nat /\ claim.deadline \in Nat
      /\ ParkReapDue \in BOOLEAN
  BY DEF TypeOK, LeaseSet, ParkReapDue
<1>1. /\ sampled \in ReaperSet
      /\ sampled.ptok = park.token /\ sampled.t = reaper.t
      /\ sampled.flash = reaper.flash
  BY <1>0 DEF ReaperSet
<1> HIDE DEF sampled
<1>2. /\ toClaim \in ReaperSet
      /\ toClaim.pc = "reap_claim" /\ toClaim.ctok = claim.token
      /\ toClaim.cdl = claim.deadline /\ toClaim.ptok = park.token
      /\ toClaim.t = reaper.t /\ toClaim.flash = reaper.flash
  BY <1>0, <1>1 DEF ReaperSet, ReaperPC
<1>3. /\ toPark \in ReaperSet
      /\ toPark.pc = "reap_park" /\ toPark.ptok = park.token
      /\ toPark.t = reaper.t /\ toPark.flash = reaper.flash
  BY <1>0, <1>1 DEF ReaperSet, ReaperPC
<1>4. ReapChosen = IF claim.active /\ ClaimReapDue THEN toClaim
                   ELSE IF ~claim.active /\ ParkReapDue THEN toPark
                   ELSE AsleepReaper
  BY DEF ReapChosen, sampled
<1> HIDE DEF toClaim, toPark
<1> QED
  BY <1>2, <1>3, <1>4, IdleTypes

\* The reaper changes the leases to NoLease only, and samples typed values.
LEMMA TypeReaper == TypeOK /\ Reaper => TypeOK'
<1> SUFFICES ASSUME TypeOK, Reaper PROVE TypeOK'
  OBVIOUS
<1>0. /\ ConnGen \in Nat /\ now \in Nat /\ flash \in BOOLEAN
      /\ DiagIdle(reaper.t) \in BOOLEAN
      /\ park.token \in Nat /\ park.deadline \in Nat
      /\ claim.token \in Nat /\ claim.deadline \in Nat
      /\ ParkReapDue \in BOOLEAN /\ reaper.t \in Nat
  BY DEF TypeOK, ConnGen, DiagIdle, LeaseSet, ReaperSet, ParkReapDue, Expired,
     OwnerAlive
<1>r. reaper' \in ReaperSet
  <2> USE <1>0, IdleTypes DEF TypeOK, ReaperSet, ReaperPC
  <2>1. CASE SnapClock     BY <2>1 DEF SnapClock
  <2>2. CASE SnapBus       BY <2>2 DEF SnapBus
  <2>3. CASE SnapLeases    BY <2>3, ReapChosenFields DEF SnapLeases
  <2>4. CASE ReapClaim     BY <2>4 DEF ReapClaim
  <2>5. CASE ReapPark      BY <2>5 DEF ReapPark
  <2>6. CASE ReaperRestore BY <2>6 DEF ReaperRestore
  <2> QED
    BY <2>1, <2>2, <2>3, <2>4, <2>5, <2>6 DEF Reaper
<1>l. park' \in LeaseSet /\ claim' \in LeaseSet
  BY NoLeaseType DEF TypeOK, Reaper, SnapClock, SnapBus, SnapLeases, ReapClaim,
     ReapPark, ReaperRestore
<1>s. stuckSince' \in Nat /\ alarm' \in BOOLEAN
  <2>1. CASE SnapLeases
    <3>1. stuckSince' \in Nat
      <4>1. stuckSince \in Nat
        BY DEF TypeOK
      <4>2. stuckSince' = stuckSince \/ stuckSince' = reaper.t \/ stuckSince' = 0
        BY <2>1 DEF SnapLeases
      <4> QED
        BY <1>0, <4>1, <4>2
    <3>2. alarm' \in BOOLEAN
      BY <1>0, <2>1 DEF SnapLeases, TypeOK
    <3> QED
      BY <3>1, <3>2
  <2>2. CASE ~SnapLeases
    BY <2>2 DEF TypeOK, Reaper, SnapClock, SnapBus, ReapClaim, ReapPark,
       ReaperRestore
  <2> QED
    BY <2>1, <2>2
<1>m. mode' \in Mode /\ UNCHANGED <<envVars, seq, flashVars, prepause, wanted,
                                   http, writer>>
  BY DEF TypeOK, Reaper, SnapClock, SnapBus, SnapLeases, ReapClaim, ReapPark,
     ReaperRestore
<1> QED
  BY <1>r, <1>l, <1>s, <1>m DEF TypeOK

LEMMA TypeWriter == TypeOK /\ Writer => TypeOK'
  BY DEF TypeOK, Writer, RearmMode, RearmPark, RearmWrite, Mode

LEMMA TypeStep == TypeOK /\ [Next]_vars => TypeOK'
<1>1. TypeOK /\ UNCHANGED vars => TypeOK'
  BY DEF TypeOK, vars
<1> QED
  BY <1>1, TypeEnvironment, TypeRequest, TypeHttp, TypeReaper, TypeWriter
     DEF Next

\* Every variable keeps its type, in every behaviour.
THEOREM TypeCorrect == Spec => []TypeOK
  BY TypeInit, TypeStep, PTL DEF Spec

-----------------------------------------------------------------------------
(* The relations between the leases, the handler and the reaper.            *)

Shape ==
    /\ LeaseShape(park)
    /\ LeaseShape(claim)
    /\ TokensDistinct
    /\ ReaperShape
    /\ HttpShape
    /\ OneWinnerPerLease

LEMMA ShapeInit == Init => Shape
<1> SUFFICES ASSUME Init PROVE Shape
  OBVIOUS
<1>1. park.active = FALSE /\ claim.active = FALSE
  BY DEF Init, NoLease
<1>2. ReaperShape
  BY DEF Init, ReaperShape, AsleepReaper
<1>3. HttpShape /\ OneWinnerPerLease
  BY DEF Init, HttpShape, OneWinnerPerLease, IdleHttp
<1> QED
  BY <1>1, <1>2, <1>3 DEF Init, Shape, LeaseShape, TokensDistinct

\* Steps that leave leases, counter, handler and reaper alone.
LEMMA ShapeOther ==
    TypeOK /\ Shape /\ (Environment \/ Writer \/ CsvStart \/ CsvStop \/ UNCHANGED vars)
        => Shape'
<1> SUFFICES ASSUME TypeOK, Shape,
                    Environment \/ Writer \/ CsvStart \/ CsvStop \/ UNCHANGED vars
             PROVE  Shape'
  OBVIOUS
<1>1. /\ UNCHANGED <<seq, park, claim, http, reaper>>
      /\ now \in Nat /\ now' \in Nat /\ now' >= now
      /\ reaper.t \in Nat /\ http.t \in Nat
  BY DEF TypeOK, ReaperSet, HttpSet, Environment, Tick, PortAccept, PortClose,
     DiagTraffic, FlashStart, FlashEnd, Writer, RearmMode, RearmPark, RearmWrite,
     CsvStart, CsvStop, vars
<1> QED
  BY <1>1 DEF Shape, LeaseShape, TokensDistinct, ReaperShape, HttpShape,
     OneWinnerPerLease

\* A request, or a step that only moves the handler, cannot stand at restore.
LEMMA ShapeQuietHttp ==
    ASSUME TypeOK, Shape, UNCHANGED <<now, seq, park, claim, reaper>>,
           http'.t <= now, http'.pc # "restore"
    PROVE  Shape'
  BY DEF Shape, LeaseShape, TokensDistinct, ReaperShape, HttpShape,
     OneWinnerPerLease

LEMMA ShapeRequest == TypeOK /\ Shape /\ HttpRequest => Shape'
<1> SUFFICES ASSUME TypeOK, Shape, HttpRequest PROVE Shape'
  OBVIOUS
<1>0. now \in Nat /\ 0 <= now
  BY DEF TypeOK
<1>1. CASE Pause
  BY <1>0, <1>1, ShapeQuietHttp DEF Pause, IdleHttp
<1>2. CASE BusClaim
  BY <1>0, <1>2, ShapeQuietHttp DEF BusClaim, IdleHttp
<1>3. CASE CsvStart \/ CsvStop
  BY <1>3, ShapeOther
<1>4. ASSUME NEW tok \in 0..seq, Resume(tok) PROVE Shape'
  BY <1>0, <1>4, ShapeQuietHttp DEF Resume, IdleHttp
<1>5. ASSUME NEW tok \in 0..seq, BusRelease(tok) PROVE Shape'
  BY <1>0, <1>5, ShapeQuietHttp DEF BusRelease, IdleHttp
<1>6. ASSUME NEW ptok \in 0..seq, NEW ctok \in 0..seq, Keepalive(ptok, ctok)
      PROVE  Shape'
  BY <1>0, <1>6, ShapeQuietHttp DEF Keepalive, IdleHttp
<1> QED
  BY <1>1, <1>2, <1>3, <1>4, <1>5, <1>6 DEF HttpRequest

LEMMA ShapeHttp == TypeOK /\ Shape /\ HttpStep => Shape'
<1> SUFFICES ASSUME TypeOK, Shape, HttpStep PROVE Shape'
  OBVIOUS
<1>0. /\ now \in Nat /\ seq \in Nat /\ http \in HttpSet /\ reaper \in ReaperSet
      /\ park \in LeaseSet /\ claim \in LeaseSet
      /\ ParkTTL \in Nat \ {0} /\ ClaimTTL \in Nat \ {0}
      /\ http.t \in Nat /\ http.t <= now /\ http.owner \in Nat
      /\ reaper.ptok \in Nat
  BY CoexistAssumption DEF CoexistAssumption, TypeOK, Shape, HttpShape, HttpSet,
     ReaperSet
<1>1. CASE PauseSave \/ PauseStop
  BY <1>0, <1>1, ShapeQuietHttp DEF PauseSave, PauseStop, HttpSet
<1>2. CASE PauseSample \/ SampleClaim
  <2>1. http'.t = now /\ http'.pc # "restore"
    BY <1>0, <1>2 DEF PauseSample, SampleClaim, HttpSet
  <2> QED
    BY <1>0, <1>2, <2>1, ShapeQuietHttp DEF PauseSample, SampleClaim
<1>3. CASE HttpRestore
  BY <1>0, <1>3, ShapeQuietHttp DEF HttpRestore, IdleHttp
<1>4. CASE ArmPark
  <2>1. /\ seq' = seq + 1 /\ UNCHANGED <<claim, reaper, now>>
        /\ park'.active /\ park'.token = seq + 1 /\ park'.deadline # 0
        /\ http'.t = 0 /\ http'.pc = "idle"
    BY <1>0, <1>4 DEF ArmPark, ArmedLease, IdleHttp
  <2>2. seq + 1 \in 1..seq' /\ (\A n \in 0..seq : n # seq + 1 /\ n \in 0..seq')
    BY <1>0, <2>1
  <2>3. LeaseShape(park)' /\ LeaseShape(claim)' /\ TokensDistinct'
    BY <1>0, <2>1, <2>2 DEF Shape, LeaseShape, TokensDistinct
  <2>4. ReaperShape'
    BY <1>0, <2>1, <2>2 DEF Shape, ReaperShape
  <2> QED
    BY <1>0, <2>1, <2>3, <2>4 DEF Shape, HttpShape, OneWinnerPerLease
<1>5. CASE ArmClaim
  <2>1. /\ seq' = seq + 1 /\ UNCHANGED <<park, reaper, now>>
        /\ claim'.active /\ claim'.token = seq + 1 /\ claim'.deadline # 0
        /\ http'.t = 0 /\ http'.pc = "idle"
    BY <1>0, <1>5 DEF ArmClaim, ArmedLease, IdleHttp
  <2>2. seq + 1 \in 1..seq' /\ (\A n \in 0..seq : n # seq + 1 /\ n \in 0..seq')
    BY <1>0, <2>1
  <2>3. LeaseShape(park)' /\ LeaseShape(claim)' /\ TokensDistinct'
    BY <1>0, <2>1, <2>2 DEF Shape, LeaseShape, TokensDistinct
  <2>4. ReaperShape'
    BY <1>0, <2>1, <2>2 DEF Shape, ReaperShape
  <2> QED
    BY <1>0, <2>1, <2>3, <2>4 DEF Shape, HttpShape, OneWinnerPerLease
<1>6. CASE ReleasePark
  <2>2. CASE ReleaseSucceeds(park, http.ptok)
    <3>0. /\ park' = NoLease
          /\ http' = [http EXCEPT !.pc = "restore", !.ptok = park.token]
          /\ UNCHANGED <<seq, claim, reaper, now>>
      BY <1>6, <2>2 DEF ReleasePark
    <3>a. http'.ptok = park.token /\ http'.t = http.t
      BY <1>0, <3>0 DEF HttpSet
    <3>1. /\ park' = NoLease /\ park'.active = FALSE
          /\ http'.ptok = park.token /\ http'.t = http.t
          /\ UNCHANGED <<seq, claim, reaper, now>>
      BY <3>0, <3>a DEF NoLease
    <3>2. park.token <= seq /\ (reaper.pc = "restore" => park.token # reaper.ptok)
      BY <1>0 DEF Shape, LeaseShape, ReaperShape, NoLease
    <3>3. LeaseShape(park)' /\ LeaseShape(claim)' /\ TokensDistinct'
      BY <3>1 DEF Shape, LeaseShape, TokensDistinct
    <3> QED
      BY <1>0, <3>1, <3>2, <3>3
         DEF Shape, ReaperShape, HttpShape, OneWinnerPerLease
  <2>3. CASE ~ReleaseSucceeds(park, http.ptok)
    BY <1>0, <1>6, <2>3, ShapeQuietHttp DEF ReleasePark, IdleHttp
  <2> QED
    BY <2>2, <2>3
<1>7. CASE ReleaseClaim
  <2>1. /\ UNCHANGED <<seq, park, reaper, now>>
        /\ claim' = NoLease \/ claim' = claim
        /\ http'.t = 0 /\ http'.pc = "idle"
    BY <1>0, <1>7 DEF ReleaseClaim, IdleHttp
  <2>2. NoLease.active = FALSE
    BY DEF NoLease
  <2> QED
    BY <1>0, <2>1, <2>2 DEF Shape, LeaseShape, TokensDistinct, ReaperShape,
       HttpShape, OneWinnerPerLease
<1>8. CASE RenewPark
  <2>1. /\ UNCHANGED <<seq, claim, reaper, now>>
        /\ http'.t = http.t /\ http'.pc = "sample_claim"
    BY <1>0, <1>8 DEF RenewPark, HttpSet
  <2>2. CASE RenewMatches(park, http.ptok)
    <3>1. /\ park.active /\ park'.active /\ park'.token = park.token
          /\ park'.deadline # 0
      BY <1>0, <1>8, <2>2, RenewalKeepsToken DEF RenewPark, RenewMatches
    <3> QED
      BY <1>0, <2>1, <3>1 DEF Shape, LeaseShape, TokensDistinct, ReaperShape,
         HttpShape, OneWinnerPerLease
  <2>3. CASE ~RenewMatches(park, http.ptok)
    BY <1>0, <1>8, <2>1, <2>3, ShapeQuietHttp DEF RenewPark
  <2> QED
    BY <2>2, <2>3
<1>9. CASE RenewClaim
  <2>1. /\ UNCHANGED <<seq, park, reaper, now>>
        /\ http'.t = 0 /\ http'.pc = "idle"
    BY <1>0, <1>9 DEF RenewClaim, IdleHttp
  <2>2. CASE RenewMatches(claim, http.ctok)
    <3>1. /\ claim.active /\ claim'.active /\ claim'.token = claim.token
          /\ claim'.deadline # 0
      BY <1>0, <1>9, <2>2, RenewalKeepsToken DEF RenewClaim, RenewMatches
    <3> QED
      BY <1>0, <2>1, <3>1 DEF Shape, LeaseShape, TokensDistinct, ReaperShape,
         HttpShape, OneWinnerPerLease
  <2>3. CASE ~RenewMatches(claim, http.ctok)
    BY <1>0, <1>9, <2>1, <2>3, ShapeQuietHttp DEF RenewClaim
  <2> QED
    BY <2>2, <2>3
<1> QED
  BY <1>1, <1>2, <1>3, <1>4, <1>5, <1>6, <1>7, <1>8, <1>9 DEF HttpStep

LEMMA ShapeReaper == TypeOK /\ Shape /\ Reaper => Shape'
<1> SUFFICES ASSUME TypeOK, Shape, Reaper PROVE Shape'
  OBVIOUS
<1>0. /\ now \in Nat /\ seq \in Nat /\ http \in HttpSet /\ reaper \in ReaperSet
      /\ park \in LeaseSet /\ claim \in LeaseSet /\ Grace \in Nat
      /\ reaper.t \in Nat /\ reaper.t <= now /\ reaper.ptok \in 0..seq
  BY CoexistAssumption DEF CoexistAssumption, TypeOK, Shape, ReaperShape,
     ReaperSet
<1>f. park.token \in 0..seq /\ NoLease.active = FALSE
  BY <1>0 DEF Shape, LeaseShape, NoLease
\* A step that leaves the leases alone and does not stand at restore.
<1>q. ASSUME UNCHANGED <<now, seq, park, claim, http>>,
             reaper'.t <= now, reaper'.ptok <= seq, reaper'.pc # "restore",
             reaper'.pc = "reap_claim" =>
                reaper'.ctok # 0 /\ reaper'.t > reaper'.cdl + Grace
      PROVE  Shape'
  BY <1>q DEF Shape, LeaseShape, TokensDistinct, ReaperShape, HttpShape,
     OneWinnerPerLease
<1>1. CASE SnapClock
  BY <1>0, <1>1, <1>q DEF SnapClock, AsleepReaper
<1>2. CASE SnapBus
  BY <1>0, <1>2, <1>q DEF SnapBus, ReaperSet
<1>z. ASSUME UNCHANGED <<now, seq, park, claim, http>>, reaper' = AsleepReaper
      PROVE  Shape'
  BY <1>0, <1>z, <1>q DEF AsleepReaper
<1>3. CASE SnapLeases
  <2>1. UNCHANGED <<now, seq, park, claim, http>>
    BY <1>3 DEF SnapLeases
  <2>2. CASE reaper' = AsleepReaper
    BY <2>1, <2>2, <1>z
  <2>3. CASE reaper' # AsleepReaper
    <3>1. reaper' = ReapChosen
      BY <1>3, <2>3 DEF SnapLeases
    <3>2. claim.active => claim.token # 0
      BY <1>0 DEF Shape, LeaseShape
    <3>3. ClaimReapDue => reaper.t > claim.deadline + Grace
      BY DEF ClaimReapDue
    <3> QED
      BY <1>0, <1>f, <1>q, <2>1, <2>3, <3>1, <3>2, <3>3, ReapChosenFields
  <2> QED
    BY <2>2, <2>3
<1>4. CASE ReapClaim
  <2>1. UNCHANGED <<now, seq, park, http>> /\ (claim' = claim \/ claim' = NoLease)
    BY <1>4 DEF ReapClaim
  <2>2. /\ reaper'.pc \in {"sleep", "reap_park"}
        /\ reaper'.t <= now /\ reaper'.ptok <= seq
    BY <1>0, <1>4 DEF ReapClaim, AsleepReaper, ReaperSet
  <2> QED
    BY <1>f, <2>1, <2>2 DEF Shape, LeaseShape, TokensDistinct, ReaperShape,
       HttpShape, OneWinnerPerLease
<1>5. CASE ReapPark
  <2>1. CASE ReapClears(park, reaper.ptok, reaper.pdl, now)
    <3>1. /\ park' = NoLease /\ UNCHANGED <<now, seq, claim, http>>
          /\ reaper' = [reaper EXCEPT !.pc = "restore"]
      BY <1>5, <2>1 DEF ReapPark
    <3>2. /\ reaper'.pc = "restore" /\ reaper'.t = reaper.t
          /\ reaper'.ptok = reaper.ptok
      BY <1>0, <3>1 DEF ReaperSet
    <3>3. park.active /\ park.token = reaper.ptok
      BY <2>1 DEF ReapClears
    <3>4. reaper.ptok # 0 /\ (http.pc = "restore" => http.ptok # reaper.ptok)
      BY <1>0, <3>3 DEF Shape, LeaseShape, HttpShape
    <3> QED
      BY <1>0, <1>f, <3>1, <3>2, <3>4
         DEF Shape, LeaseShape, TokensDistinct, ReaperShape, HttpShape,
             OneWinnerPerLease
  <2>2. CASE ~ReapClears(park, reaper.ptok, reaper.pdl, now)
    BY <1>5, <2>2, <1>z DEF ReapPark
  <2> QED
    BY <2>1, <2>2
<1>6. CASE ReaperRestore
  BY <1>6, <1>z DEF ReaperRestore
<1> QED
  BY <1>1, <1>2, <1>3, <1>4, <1>5, <1>6 DEF Reaper

LEMMA InvInit == Init => CoexistInv
  BY TypeInit, ShapeInit DEF CoexistInv, Shape

LEMMA InvStep == CoexistInv /\ [Next]_vars => CoexistInv'
<1>1. TypeOK /\ Shape /\ [Next]_vars => Shape'
  BY ShapeOther, ShapeRequest, ShapeHttp, ShapeReaper DEF Next
<1> QED
  BY <1>1, TypeStep DEF CoexistInv, Shape

\* The leases, the handler and the reaper stay related as CoexistInv says.
THEOREM Invariance == Spec => []CoexistInv
  BY InvInit, InvStep, PTL DEF Spec

\* For each park lease exactly one of the resume handler and the reaper gets
\* to datalog_restore_mode.
THEOREM OneWinner == Spec => []OneWinnerPerLease
  BY Invariance, PTL DEF CoexistInv

-----------------------------------------------------------------------------
(* What a step may never do.                                                *)

\* Only two steps lower the claim, and only one of them is the reaper's.
LEMMA ClaimLowering ==
    ASSUME CoexistInv, [Next]_vars, claim.active, ~claim'.active
    PROVE  ReleaseClaim \/ ReapClaim
<1>1. CASE Environment \/ HttpRequest \/ Writer \/ UNCHANGED vars
  BY <1>1 DEF Environment, Tick, PortAccept, PortClose, DiagTraffic, FlashStart,
     FlashEnd, HttpRequest, Pause, BusClaim, CsvStart, CsvStop, Resume,
     BusRelease, Keepalive, Writer, RearmMode, RearmPark, RearmWrite, vars
<1>2. CASE Reaper
  BY <1>2 DEF Reaper, SnapClock, SnapBus, SnapLeases, ReapPark, ReaperRestore
<1>3. CASE ArmClaim
  BY <1>3 DEF ArmClaim, ArmedLease
<1>4. CASE RenewClaim
  <2>1. RenewedLease(claim, http.owner, http.t, ClaimTTL).active = claim.active
    BY DEF RenewedLease, CoexistInv, TypeOK, LeaseSet
  <2> QED
    BY <1>4, <2>1 DEF RenewClaim
<1>5. CASE HttpStep
  BY <1>3, <1>4, <1>5 DEF HttpStep, PauseSave, PauseStop, PauseSample, ArmPark,
     ReleasePark, HttpRestore, RenewPark, SampleClaim
<1> QED
  BY <1>1, <1>2, <1>5 DEF Next

LEMMA ParkLowering ==
    ASSUME CoexistInv, [Next]_vars, park.active, ~park'.active
    PROVE  http' # http \/ ReapPark
<1>1. CASE Environment \/ HttpRequest \/ Writer \/ UNCHANGED vars
  BY <1>1 DEF Environment, Tick, PortAccept, PortClose, DiagTraffic, FlashStart,
     FlashEnd, HttpRequest, Pause, BusClaim, CsvStart, CsvStop, Resume,
     BusRelease, Keepalive, Writer, RearmMode, RearmPark, RearmWrite, vars
<1>2. CASE Reaper
  BY <1>2 DEF Reaper, SnapClock, SnapBus, SnapLeases, ReapClaim, ReaperRestore
<1>3. CASE HttpStep
  <2>0. http \in HttpSet
    BY DEF CoexistInv, TypeOK
  <2>1. CASE ReleasePark
    BY <2>0, <2>1 DEF ReleasePark, IdleHttp, HttpSet
  <2>2. CASE RenewPark
    <3>1. http'.pc = "sample_claim" /\ http.pc = "renew_park"
      BY <2>0, <2>2 DEF RenewPark, HttpSet
    <3> QED
      BY <3>1
  <2>3. CASE ArmPark
    BY <2>3 DEF ArmPark, ArmedLease
  <2> QED
    BY <1>3, <2>1, <2>2, <2>3
       DEF HttpStep, PauseSave, PauseStop, PauseSample, HttpRestore, ArmClaim,
           ReleaseClaim, SampleClaim, RenewClaim
<1> QED
  BY <1>1, <1>2, <1>3 DEF Next

\* A claim no handler released was past its latest deadline and the grace.
THEOREM ClaimSafety == Spec => ClaimTakenOnlyWhenDead
<1>1. CoexistInv /\ [Next]_vars =>
        [claim.active /\ ~claim'.active /\ http' = http
            => now > claim.deadline + Grace]_vars
  <2> SUFFICES ASSUME CoexistInv, [Next]_vars, claim.active, ~claim'.active,
                      http' = http
               PROVE  now > claim.deadline + Grace
    OBVIOUS
  <2>1. CASE ReleaseClaim
    BY <2>1 DEF ReleaseClaim, IdleHttp
  <2>2. CASE ReapClaim
    <3>1. reaper.pc = "reap_claim" /\ claim.deadline = reaper.cdl
      BY <2>2 DEF ReapClaim, ReapClears
    <3>2. /\ reaper.t \in Nat /\ now \in Nat /\ reaper.cdl \in Nat
          /\ Grace \in Nat
      BY CoexistAssumption
         DEF CoexistAssumption, CoexistInv, TypeOK, ReaperSet
    <3>3. reaper.t <= now /\ reaper.t > reaper.cdl + Grace
      BY <3>1 DEF CoexistInv, ReaperShape
    <3> QED
      BY <3>1, <3>2, <3>3
  <2> QED
    BY <2>1, <2>2, ClaimLowering
<1> QED
  BY <1>1, Invariance, PTL DEF Spec, ClaimTakenOnlyWhenDead

\* What the reaper's position says of the codec: past the flash test it saw no
\* codec, so one that runs now started after the clock was sampled.
FlashSeen ==
    /\ reaper.pc \in {"reap_claim", "reap_park"} => ~reaper.flash
    /\ reaper.pc \in {"leases", "reap_claim", "reap_park"} =>
          reaper.flash \/ ~flash \/ flashSince >= reaper.t

LEMMA FlashSeenStep ==
    CoexistInv /\ FlashSeen /\ [Next]_vars => FlashSeen'
<1> SUFFICES ASSUME CoexistInv, FlashSeen, [Next]_vars PROVE FlashSeen'
  OBVIOUS
<1>0. reaper \in ReaperSet /\ reaper.t <= now
  BY DEF CoexistInv, TypeOK, ReaperShape
<1>1. CASE FlashStart
  BY <1>0, <1>1 DEF FlashSeen, FlashStart
<1>2. CASE FlashEnd
  BY <1>2 DEF FlashSeen, FlashEnd
<1>3. CASE SnapBus
  BY <1>0, <1>3 DEF FlashSeen, SnapBus, ReaperSet
<1>4. CASE SnapLeases
  <2>1. reaper' = AsleepReaper \/
        (/\ ~reaper.flash /\ reaper'.pc \in {"reap_claim", "reap_park"}
         /\ reaper'.flash = reaper.flash /\ reaper'.t = reaper.t)
    BY <1>4, ReapChosenFields DEF SnapLeases, CoexistInv
  <2>2. UNCHANGED <<flash, flashSince>> /\ reaper.pc = "leases"
    BY <1>4 DEF SnapLeases
  <2> QED
    BY <2>1, <2>2 DEF FlashSeen, AsleepReaper
<1>5. CASE ReapClaim
  BY <1>0, <1>5 DEF FlashSeen, ReapClaim, AsleepReaper, ReaperSet
<1>6. CASE SnapClock \/ ReapPark \/ ReaperRestore
  <2>a. ASSUME ReapPark PROVE reaper'.pc \in {"sleep", "restore"}
    BY <1>0, <2>a DEF ReapPark, AsleepReaper, ReaperSet
  <2>1. reaper'.pc \in {"sleep", "bus", "restore"}
    <3>1. ASSUME SnapClock PROVE reaper'.pc = "bus"
      BY <3>1 DEF SnapClock, AsleepReaper
    <3>2. ASSUME ReaperRestore PROVE reaper'.pc = "sleep"
      BY <3>2 DEF ReaperRestore, AsleepReaper
    <3> QED
      BY <1>6, <2>a, <3>1, <3>2
  <2> QED
    BY <2>1 DEF FlashSeen
<1>7. CASE UNCHANGED <<reaper, flash, flashSince>>
  BY <1>7 DEF FlashSeen
<1>8. CASE HttpStep
  BY <1>7, <1>8 DEF HttpStep, PauseSave, PauseStop, PauseSample, ArmPark,
     ReleasePark, HttpRestore, ArmClaim, ReleaseClaim, RenewPark, SampleClaim,
     RenewClaim
<1>9. CASE Tick \/ PortAccept \/ PortClose \/ DiagTraffic \/ HttpRequest \/ Writer
           \/ UNCHANGED vars
  BY <1>7, <1>9 DEF Tick, PortAccept, PortClose, DiagTraffic, HttpRequest, Pause,
     BusClaim, CsvStart, CsvStop, Resume, BusRelease, Keepalive, Writer,
     RearmMode, RearmPark, RearmWrite, vars
<1> QED
  BY <1>1, <1>2, <1>3, <1>4, <1>5, <1>6, <1>8, <1>9
     DEF Next, Environment, Reaper

\* The reaper takes no lease from under a codec it could have seen.
THEOREM FlashSafety == Spec => RunningFlashKeepsLeases
<1>1. Init => FlashSeen
  BY DEF Init, FlashSeen, AsleepReaper
<1>2. CoexistInv /\ FlashSeen /\ [Next]_vars =>
        [flash /\ http' = http /\ (LeaseLowered(park) \/ LeaseLowered(claim))
            => flashSince >= reaper.t]_vars
  <2> SUFFICES ASSUME CoexistInv, FlashSeen, [Next]_vars, flash, http' = http,
                      LeaseLowered(park) \/ LeaseLowered(claim)
               PROVE  flashSince >= reaper.t
    OBVIOUS
  <2>1. ReapPark \/ ReapClaim
    <3>0. (LeaseLowered(claim) => claim.active /\ ~claim'.active)
          /\ (LeaseLowered(park) => park.active /\ ~park'.active)
      BY DEF LeaseLowered
    <3>1. CASE LeaseLowered(claim)
      <4>1. ReleaseClaim \/ ReapClaim
        BY <3>0, <3>1, ClaimLowering
      <4>2. ~ReleaseClaim
        <5>1. ASSUME ReleaseClaim PROVE http'.pc # http.pc
          BY <5>1 DEF ReleaseClaim, IdleHttp
        <5> QED
          BY <5>1
      <4> QED
        BY <4>1, <4>2
    <3>2. CASE LeaseLowered(park)
      BY <3>0, <3>2, ParkLowering
    <3> QED
      BY <3>1, <3>2
  <2> QED
    BY <2>1 DEF FlashSeen, ReapPark, ReapClaim
<1> QED
  BY <1>1, <1>2, FlashSeenStep, Invariance, PTL
     DEF Spec, RunningFlashKeepsLeases

-----------------------------------------------------------------------------
(* Each lease implements DeadManLease.                                      *)

\* What CoexistInv says of the values the park lease shows its abstraction.
LEMMA ParkTyped ==
    CoexistInv => /\ park.token # 0 <=> park.active
                  /\ park.token \in Nat /\ seq \in Nat
  BY DEF CoexistInv, LeaseShape, NoLease, TypeOK, LeaseSet

LEMMA ParkTypedNext ==
    CoexistInv' => park'.token # 0 <=> park'.active
  BY DEF CoexistInv, LeaseShape, NoLease, TypeOK, LeaseSet

\* Every step arms the park lease with the next token, ends it for a cause, or
\* leaves its token alone.
LEMMA ParkStep ==
    ASSUME CoexistInv, [Next]_vars
    PROVE  \/ park'.token = seq' /\ seq' = seq + 1
           \/ park' = park /\ now' = now /\ seq' = seq + 1
           \/ park'.token = park.token /\ seq' = seq
           \/ /\ park' = NoLease /\ seq' = seq /\ park.active
              /\ \/ now > park.deadline
                 \/ http.pc = "release_park" /\ http.ptok \in {0, park.token}
<1>1. CASE Environment \/ HttpRequest \/ Writer \/ UNCHANGED vars
  BY <1>1 DEF Environment, Tick, PortAccept, PortClose, DiagTraffic, FlashStart,
     FlashEnd, HttpRequest, Pause, BusClaim, CsvStart, CsvStop, Resume,
     BusRelease, Keepalive, Writer, RearmMode, RearmPark, RearmWrite, vars
<1>2. CASE ReapPark
  BY <1>2 DEF ReapPark, ReapClears
<1>3. CASE Reaper /\ ~ReapPark
  BY <1>3 DEF Reaper, SnapClock, SnapBus, SnapLeases, ReapClaim, ReaperRestore
<1>4. CASE ArmPark
  BY <1>4 DEF ArmPark, ArmedLease
<1>5. CASE ReleasePark
  <2>1. CASE ReleaseClears(park, http.ptok)
    BY <1>5, <2>1 DEF ReleasePark, ReleaseClears, ReleaseSucceeds
  <2>2. CASE ~ReleaseClears(park, http.ptok)
    BY <1>5, <2>2, ParkTyped
       DEF ReleasePark, ReleaseSucceeds, NoLease
  <2> QED
    BY <2>1, <2>2
<1>6. CASE RenewPark
  <2>1. RenewedLease(park, http.owner, http.t, ParkTTL).token = park.token
    BY DEF RenewedLease, CoexistInv, TypeOK, LeaseSet
  <2> QED
    BY <1>6, <2>1 DEF RenewPark
<1>7. CASE HttpStep /\ ~ArmPark /\ ~ReleasePark /\ ~RenewPark
  BY <1>7 DEF HttpStep, PauseSave, PauseStop, PauseSample, HttpRestore, ArmClaim,
     ReleaseClaim, SampleClaim, RenewClaim
<1> QED
  BY <1>1, <1>2, <1>3, <1>4, <1>5, <1>6, <1>7 DEF Next

\* The park lease never ends but on a matching request or after it lapsed, and
\* its tokens are never reused.
THEOREM ParkRefinement == Spec => ParkKeepsPromise
<1>1. Init => ParkLease!Init
  BY DEF Init, ParkLease!Init, NoLease, IdleHttp
<1>2. CoexistInv /\ CoexistInv' /\ [Next]_vars => [ParkLease!Next]_(ParkLease!vars)
  <2> SUFFICES ASSUME CoexistInv, CoexistInv', [Next]_vars
               PROVE  ParkLease!Next
    BY DEF ParkLease!vars
  <2> DEFINE Lapsed == park.active /\ now > park.deadline
             Asked == http.pc = "release_park" /\ http.ptok \in {0, park.token}
  <2>1. /\ Lapsed' \in BOOLEAN /\ Asked' \in BOOLEAN
        /\ Lapsed' => park'.token # 0
    BY ParkTypedNext
  <2>2. CASE park'.token = seq' /\ seq' = seq + 1
    BY <2>1, <2>2 DEF ParkLease!Next, ParkLease!Grant
  <2>3. CASE park' = park /\ now' = now /\ seq' = seq + 1
    <3>1. Lapsed' <=> Lapsed
      BY <2>3
    <3> QED
      BY <2>1, <2>3, <3>1 DEF ParkLease!Next, ParkLease!GrantElsewhere
  <2>4. CASE park'.token = park.token /\ seq' = seq
    BY <2>1, <2>4 DEF ParkLease!Next, ParkLease!Hold
  <2>5. CASE park' = NoLease /\ seq' = seq /\ park.active /\ (Lapsed \/ Asked)
    <3>1. park'.token = 0 /\ ~Lapsed' /\ park.token # 0
      BY <2>5, ParkTyped DEF NoLease
    <3> QED
      BY <2>1, <2>5, <3>1 DEF ParkLease!Next, ParkLease!End
  <2> QED
    BY <2>2, <2>3, <2>4, <2>5, ParkStep
<1> QED
  BY <1>1, <1>2, Invariance, PTL DEF Spec, ParkKeepsPromise, ParkLease!Spec

\* The same argument for the claim.
LEMMA ClaimTyped ==
    CoexistInv => /\ claim.token # 0 <=> claim.active
                  /\ claim.token \in Nat /\ seq \in Nat
  BY DEF CoexistInv, LeaseShape, NoLease, TypeOK, LeaseSet

LEMMA ClaimTypedNext ==
    CoexistInv' => claim'.token # 0 <=> claim'.active
  BY DEF CoexistInv, LeaseShape, NoLease, TypeOK, LeaseSet

LEMMA ClaimStep ==
    ASSUME CoexistInv, [Next]_vars
    PROVE  \/ claim'.token = seq' /\ seq' = seq + 1
           \/ claim' = claim /\ now' = now /\ seq' = seq + 1
           \/ claim'.token = claim.token /\ seq' = seq
           \/ /\ claim' = NoLease /\ seq' = seq /\ claim.active
              /\ \/ now > claim.deadline
                 \/ http.pc = "release_claim" /\ http.ctok \in {0, claim.token}
<1>1. CASE Environment \/ HttpRequest \/ Writer \/ UNCHANGED vars
  BY <1>1 DEF Environment, Tick, PortAccept, PortClose, DiagTraffic, FlashStart,
     FlashEnd, HttpRequest, Pause, BusClaim, CsvStart, CsvStop, Resume,
     BusRelease, Keepalive, Writer, RearmMode, RearmPark, RearmWrite, vars
<1>2. CASE ReapClaim
  BY <1>2 DEF ReapClaim, ReapClears
<1>3. CASE Reaper /\ ~ReapClaim
  BY <1>3 DEF Reaper, SnapClock, SnapBus, SnapLeases, ReapPark, ReaperRestore
<1>4. CASE ArmClaim
  BY <1>4 DEF ArmClaim, ArmedLease
<1>5. CASE ReleaseClaim
  BY <1>5 DEF ReleaseClaim, ReleaseClears
<1>6. CASE RenewClaim
  <2>1. RenewedLease(claim, http.owner, http.t, ClaimTTL).token = claim.token
    BY DEF RenewedLease, CoexistInv, TypeOK, LeaseSet
  <2> QED
    BY <1>6, <2>1 DEF RenewClaim
<1>7. CASE HttpStep /\ ~ArmClaim /\ ~ReleaseClaim /\ ~RenewClaim
  BY <1>7 DEF HttpStep, PauseSave, PauseStop, PauseSample, HttpRestore, ArmPark,
     ReleasePark, RenewPark, SampleClaim
<1> QED
  BY <1>1, <1>2, <1>3, <1>4, <1>5, <1>6, <1>7 DEF Next

\* The bus claim never ends but on a matching request or after it lapsed, and
\* its tokens are never reused.
THEOREM ClaimRefinement == Spec => ClaimKeepsPromise
<1>1. Init => ClaimLease!Init
  BY DEF Init, ClaimLease!Init, NoLease, IdleHttp
<1>2. CoexistInv /\ CoexistInv' /\ [Next]_vars
        => [ClaimLease!Next]_(ClaimLease!vars)
  <2> SUFFICES ASSUME CoexistInv, CoexistInv', [Next]_vars
               PROVE  ClaimLease!Next
    BY DEF ClaimLease!vars
  <2> DEFINE Lapsed == claim.active /\ now > claim.deadline
             Asked == http.pc = "release_claim" /\ http.ctok \in {0, claim.token}
  <2>1. /\ Lapsed' \in BOOLEAN /\ Asked' \in BOOLEAN
        /\ Lapsed' => claim'.token # 0
    BY ClaimTypedNext
  <2>2. CASE claim'.token = seq' /\ seq' = seq + 1
    BY <2>1, <2>2 DEF ClaimLease!Next, ClaimLease!Grant
  <2>3. CASE claim' = claim /\ now' = now /\ seq' = seq + 1
    <3>1. Lapsed' <=> Lapsed
      BY <2>3
    <3> QED
      BY <2>1, <2>3, <3>1 DEF ClaimLease!Next, ClaimLease!GrantElsewhere
  <2>4. CASE claim'.token = claim.token /\ seq' = seq
    BY <2>1, <2>4 DEF ClaimLease!Next, ClaimLease!Hold
  <2>5. CASE claim' = NoLease /\ seq' = seq /\ claim.active /\ (Lapsed \/ Asked)
    <3>1. claim'.token = 0 /\ ~Lapsed' /\ claim.token # 0
      BY <2>5, ClaimTyped DEF NoLease
    <3> QED
      BY <2>1, <2>5, <3>1 DEF ClaimLease!Next, ClaimLease!End
  <2> QED
    BY <2>2, <2>3, <2>4, <2>5, ClaimStep
<1> QED
  BY <1>1, <1>2, Invariance, PTL DEF Spec, ClaimKeepsPromise, ClaimLease!Spec

\* Both leases keep their promise, whatever the handlers, the reaper and the
\* clients do, and the reaper takes only a claim that was dead.
THEOREM LeaseSafety == Spec => LeasesKeepPromises
  BY ParkRefinement, ClaimRefinement, ClaimSafety DEF LeasesKeepPromises
=============================================================================
