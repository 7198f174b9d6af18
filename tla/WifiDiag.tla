------------------------------ MODULE WifiDiag ------------------------------
(***************************************************************************)
(* The WiFi diagnostics (components/wifi_diag): hooks that run on the      *)
(* system event task and on the reconnect task and may only write down a   *)
(* fact, the ring the facts wait in, the sampler task that turns them into *)
(* lines and reads the radio once a second, and the findings drawn from    *)
(* the counters.  A hook stamps the time and updates the counters under    *)
(* the lock, then takes it again to push its fact: two steps.              *)
(***************************************************************************)
EXTENDS Integers, Sequences, FiniteSets, SequencesExt

CONSTANTS
    Reasons,   \* the reasons a disconnect can give
    RingN,     \* WD_FACT_RING_N
    TallyN,    \* WD_TALLY_N: reasons the tally has room for
    Repeat,    \* WD_EVL_REPEAT_MS, in ticks of the clock
    Half,      \* disconnects a finding needs (3 in the code)
    MaxDrops,  \* bound: disconnects
    Horizon,   \* bound: no link event after this time
    MaxLost    \* bound: facts lost before the last link event

VARIABLES
    now,                 \* esp_timer_get_time, from 1 on
    sampler,             \* whether the sampler task could be created
    link,                \* whether the station is associated, as the driver has it
    hook,                \* by task: the fact its hook is about to push
    start, total,        \* s_session_start_ms (0: none), s_connected_ms_total
    drops, tally,        \* s_disconnects; s_tally, a count for each reason in it
    evlAt, evlReason, suppressed,  \* the throttle of the log's DROP line
    facts, dropped,      \* the ring, s_fact_dropped
    warned, warnAt,      \* s_fact_drop_warned, s_fact_drop_warn_ms
    hand,                \* the fact the drain formats, NoFact for none
    up,                  \* s_snap.sta_up
    told, real, said     \* disconnects the log's lines stand for, disconnects by
                         \* reason, the last loss the log was told of (history)

clock  == <<now, sampler>>
counts == <<start, total, drops, tally, real>>
throttle == <<evlAt, evlReason, suppressed>>
ring   == <<facts, dropped>>
drain  == <<warned, warnAt, said, hand, told>>
vars == <<clock, link, hook, counts, throttle, ring, drain, up>>

Tasks == {"sys_evt", "reconnect"}
NoReason == "none"

\* A fact is what its line says of the disconnects: a DROP line and the count it
\* carries, or nothing (an attempt, an association, an address, a ban, and a
\* disconnect whose line is held back).
NoFact == [waits |-> FALSE, line |-> FALSE, suppressed |-> 0]
Facts == [waits : {TRUE}, line : BOOLEAN, suppressed : 0 .. MaxDrops]
Fact == [NoFact EXCEPT !.waits = TRUE]
End == Horizon + Repeat

TypeOK ==
    /\ now \in 1 .. End /\ sampler \in BOOLEAN
    /\ link \in BOOLEAN
    /\ hook \in [Tasks -> Facts \cup {NoFact}]
    /\ start \in 0 .. End /\ total \in Nat /\ drops \in 0 .. MaxDrops
    /\ tally \in [Reasons -> 0 .. MaxDrops] /\ real \in [Reasons -> 0 .. MaxDrops]
    /\ evlAt \in 0 .. End /\ evlReason \in Reasons \cup {NoReason}
    /\ suppressed \in 0 .. MaxDrops
    /\ facts \in Seq(Facts) /\ Len(facts) <= RingN /\ dropped \in Nat
    /\ warned \in Nat /\ warnAt \in 0 .. End
    /\ hand \in Facts \cup {NoFact}
    /\ up \in BOOLEAN /\ told \in Nat /\ said \in Nat

Init ==
    /\ now = 1 /\ sampler \in BOOLEAN /\ link = FALSE
    /\ hook = [t \in Tasks |-> NoFact]
    /\ start = 0 /\ total = 0 /\ drops = 0
    /\ tally = [r \in Reasons |-> 0] /\ real = [r \in Reasons |-> 0]
    /\ evlAt = 0 /\ evlReason = NoReason /\ suppressed = 0
    /\ facts = <<>> /\ dropped = 0 /\ warned = 0 /\ warnAt = 0
    /\ hand = NoFact /\ up = FALSE /\ told = 0 /\ said = 0

-----------------------------------------------------------------------------
(* The hooks.  The event task runs one at a time, for one event of the      *)
(* driver after the other.                                                 *)

\* Past the horizon the clock runs on once every hook is through.
Tick ==
    /\ now < Horizon \/ (now < End /\ \A t \in Tasks : hook[t] = NoFact)
    /\ now' = now + 1
    /\ UNCHANGED <<sampler, link, hook, counts, throttle, ring, drain, up>>

Bounded == now < Horizon /\ dropped < MaxLost

Fills(t, f) == Bounded /\ hook[t] = NoFact /\ hook' = [hook EXCEPT ![t] = f]

\* wifi_diag_note_attempt, from wifi_mgr_set_attempted_ssid on the reconnect
\* task; on the event task: wifi_diag_note_ban, and an attempt made there.
NoteOther(t) ==
    /\ Fills(t, Fact)
    /\ UNCHANGED <<clock, link, counts, throttle, ring, drain, up>>

NoteConnected ==
    /\ ~link /\ link' = TRUE /\ Fills("sys_evt", Fact)
    /\ UNCHANGED <<clock, counts, throttle, ring, drain, up>>

\* A lease, or a renewal that brings another address.
NoteGotIp ==
    /\ link /\ Fills("sys_evt", Fact) /\ start' = now
    /\ UNCHANGED <<clock, link, total, drops, tally, real, throttle, ring, drain, up>>

\* wd_tally_add: a reason beyond the table's room is not counted.
Tally(r) ==
    IF tally[r] > 0 \/ Cardinality({q \in Reasons : tally[q] > 0}) < TallyN
    THEN [tally EXCEPT ![r] = @ + 1] ELSE tally

\* Mutant: the session that was banked goes on.
BankedGoesOn ==
    /\ total' = IF start = 0 THEN total ELSE total + now - start
    /\ start' = start

\* The session that ends is banked, and there is none.
Bank ==
    /\ total' = IF start = 0 THEN total ELSE total + now - start
    /\ start' = 0

Emits(r) == r # evlReason \/ evlAt = 0 \/ now - evlAt >= Repeat

\* A DROP line for another reason, or a Repeat after the last one, carries the
\* count of those held back; any other one is held back.
Throttle(r) ==
    IF Emits(r)
    THEN suppressed' = 0 /\ evlAt' = now /\ evlReason' = r
    ELSE suppressed' = suppressed + 1 /\ UNCHANGED <<evlAt, evlReason>>

\* wifi_diag_note_disconnected: of a link that is lost, or a join that fails.
NoteDisconnected(r) ==
    LET held == IF Emits(r) THEN [Fact EXCEPT !.line = TRUE, !.suppressed = suppressed]
                ELSE Fact
    IN  /\ link' = FALSE /\ drops < MaxDrops /\ Fills("sys_evt", held)
        /\ drops' = drops + 1 /\ real' = [real EXCEPT ![r] = @ + 1]
        /\ tally' = Tally(r) /\ Bank /\ Throttle(r)
        /\ UNCHANGED <<clock, ring, drain, up>>

\* wd_fact_push: a full ring loses its oldest fact, and counts it.
Queue(f) ==
    IF Len(facts) >= RingN
    THEN facts' = Append(Tail(facts), f) /\ dropped' = dropped + 1
    ELSE facts' = Append(facts, f) /\ dropped' = dropped

\* The hook returns, and with it the handler.
Push(t) ==
    /\ hook[t] # NoFact /\ Queue(hook[t]) /\ hook' = [hook EXCEPT ![t] = NoFact]
    /\ UNCHANGED <<clock, link, counts, throttle, drain, up>>

-----------------------------------------------------------------------------
(* The sampler task; with none, the web server's handlers drain instead.   *)

\* wd_fact_pop: copied out and gone from the ring in one step.
Pop ==
    /\ hand = NoFact /\ facts # <<>>
    /\ hand' = Head(facts) /\ facts' = Tail(facts)
    /\ UNCHANGED <<clock, link, hook, counts, throttle, dropped, warned, warnAt, said, told,
                   up>>

\* Disconnects a line stands for.
Carried(f) == IF f.line THEN 1 + f.suppressed ELSE 0

\* wd_fact_format.
Format ==
    /\ hand # NoFact /\ hand' = NoFact
    /\ told' = told + Carried(hand)
    /\ UNCHANGED <<clock, link, hook, counts, throttle, ring, warned, warnAt, said, up>>

\* Losses are said when there are new ones, at most once a Repeat.
Warn ==
    IF dropped # warned /\ (warnAt = 0 \/ now - warnAt >= Repeat)
    THEN warned' = dropped /\ warnAt' = now /\ said' = dropped
    ELSE UNCHANGED <<warned, warnAt, said>>

\* Whether there is an association, as wd_sample_once reads and publishes it.
Sample == up' = IF sampler THEN link ELSE up

\* The ring is empty: the losses, then the radio if this is the sampler.
DrainEnds ==
    /\ hand = NoFact /\ facts = <<>>
    /\ Warn /\ Sample
    /\ UNCHANGED <<clock, link, hook, counts, throttle, ring, hand, told>>

Next ==
    \/ Tick \/ NoteConnected \/ NoteGotIp
    \/ \E r \in Reasons : NoteDisconnected(r)
    \/ \E t \in Tasks : NoteOther(t) \/ Push(t)
    \/ Pop \/ Format \/ DrainEnds

\* The sampler wakes every second, the clock runs and the tasks that run a
\* hook finish it; nothing says that a page is ever opened.
Fairness ==
    /\ WF_vars(Tick) /\ WF_vars(Format) /\ \A t \in Tasks : WF_vars(Push(t))
    /\ WF_vars(sampler /\ Pop) /\ WF_vars(sampler /\ DrainEnds)

Spec == Init /\ [][Next]_vars
FairSpec == Spec /\ Fairness

-----------------------------------------------------------------------------
\* While the ring has lost nothing, every disconnect is on the log exactly
\* once: what is told and in hand, the counts the waiting facts take it to one
\* after the other, the fact a hook is about to push, and those held back for
\* the next line add up.
EveryDropTold ==
    dropped = 0 => \E s \in [0 .. Len(facts) -> 0 .. MaxDrops] :
        /\ s[0] = told + Carried(hand)
        /\ \A i \in 1 .. Len(facts) : s[i] = s[i - 1] + Carried(facts[i])
        /\ drops = s[Len(facts)] + Carried(hook["sys_evt"]) + suppressed

\* The linked time the report sums up, the session still open included, counts
\* no second twice, whatever disconnects of failed joins come after a session.
LinkedTimeIsReal == total + (IF start = 0 THEN 0 ELSE now - start) <= now - 1

\* wd_findings' rule on the reasons: the most frequent one in the tally.
Named == {r \in Reasons : /\ tally[r] >= Half /\ 2 * tally[r] >= drops
                          /\ \A q \in Reasons : tally[q] <= tally[r]}

\* A reason a finding names really is behind at least half of the disconnects.
NamedReasonIsReal == drops >= Half => \A r \in Named : 2 * real[r] >= drops

\* Facts the ring lost are reported to the event log in the end, however often
\* it overflows within one Repeat.
LossesReported ==
    \A n \in 1 .. MaxLost : (sampler /\ dropped = n) ~> (said >= n)

-----------------------------------------------------------------------------
(* Claims the code does not keep.                                          *)

\* "A full ring loses its OLDEST fact, which is counted so the loss is visible
\* rather than silent" (wifi_diag.c:518): the fact may carry a count of its own,
\* and the disconnects in that count are then lost unseen.
LossCoversAll ==
    drops <= told + FoldSeq(LAMBDA f, n : Carried(f) + n, 0, facts) + Carried(hand)
               + Carried(hook["sys_evt"]) + suppressed + dropped

\* "(never associated)" is printed for a failed join (wifi_diag.c:274), and not
\* for a link that came and went between two samples: it is.
AssociatedIsSeen ==
    [][(start # 0 /\ \E r \in Reasons : NoteDisconnected(r)) => up]_vars

\* "the tail is noise for this purpose, drop it" (wifi_diag.c:498): a reason that
\* finds the table full is never named, be it behind most of the disconnects.
DominantIsNamed ==
    drops >= Half => \A r \in Reasons : (real[r] >= Half /\ 2 * real[r] > drops) => r \in Named
=============================================================================
