------------------------------ MODULE RtcClock ------------------------------
(***************************************************************************)
(* The two clocks: the system's, which every log is stamped with, and the  *)
(* RX8130 that carries the time over a restart.  The chip is read and      *)
(* written one register at a time, without a lock, by the boot, by the     *)
(* time-server task (main/sync_sys_time.c) and by the web page's           *)
(* set_rtc_time (main/config_server.c), while it goes on counting.         *)
(* A time is a number of Radix-ary digits, one per register.               *)
(***************************************************************************)
EXTENDS Integers, Sequences, FiniteSets

CONSTANTS
    Regs,         \* the registers, 1 .. Regs, written and read in order
    Radix,        \* each counts 0 .. Radix - 1
    MaxTime,      \* bound: the true time stops here
    MaxRetries,   \* MAX_RETRIES of the first synchronization
    MaxWeb,       \* bound: times set from the page
    MaxFaults,    \* bound: I2C failures, answers the server does not give
    MaxBoots      \* bound: restarts

VARIABLES
    now,       \* the true time
    chip,      \* the registers
    sys,       \* the system clock
    task, at,  \* the time-server task: its step and the next register
    sent,      \* the time it is writing
    tries,     \* retry_count
    synced,    \* DEV_TIME_SYNCED_BIT
    net, init, \* connected; esp_netif_sntp_init succeeds
    web, wat,  \* the page's request: its step and the next register
    posted,    \* the time the browser sent
    got,       \* the registers a reader has so far
    reader,    \* none, "boot" or "web": who is reading
    webs, faults, boots

clocks == <<now, chip, sys>>
ntp == <<task, at, sent, tries, synced>>
page == <<web, wat, posted>>
reading == <<got, reader>>
env == <<net, init>>
counts == <<webs, faults, boots>>
vars == <<clocks, ntp, page, reading, env, counts>>

\* A register may hold no digit at all: the chip lost its supply.
Lost == Radix
Times == [1 .. Regs -> 0 .. Radix - 1]
Chip == [1 .. Regs -> 0 .. Radix]

Value(r) == LET v[i \in 0 .. Regs] ==
                  IF i = 0 THEN 0 ELSE v[i - 1] + r[i] * Radix ^ (i - 1)
            IN  v[Regs]
Digits(t) == [i \in 1 .. Regs |-> (t \div Radix ^ (i - 1)) % Radix]
Clock == 0 .. Radix ^ Regs - 1
Unset == -1     \* the system clock of a boot that found no date

TypeOK ==
    /\ now \in 0 .. MaxTime /\ chip \in Chip /\ sys \in Clock \cup {Unset}
    /\ task \in {"wait", "init", "first", "hourly", "write", "dead"}
    /\ at \in 1 .. Regs + 1 /\ sent \in Times /\ tries \in 0 .. MaxRetries
    /\ synced \in BOOLEAN /\ net \in BOOLEAN /\ init \in BOOLEAN
    /\ web \in {"none", "write", "read"} /\ wat \in 1 .. Regs + 1 /\ posted \in Times
    /\ got \in UNION {[1 .. k -> 0 .. Radix] : k \in 0 .. Regs}
    /\ reader \in {"none", "boot", "web"}

Init ==
    /\ now = 0 /\ chip \in {Digits(0), [i \in 1 .. Regs |-> Lost]} /\ sys = Unset
    /\ task = "wait" /\ at = 1 /\ sent = Digits(0) /\ tries = 0 /\ synced = FALSE
    /\ net = FALSE /\ init \in BOOLEAN
    /\ web = "none" /\ wat = 1 /\ posted = Digits(0) /\ got = <<>> /\ reader = "boot"
    /\ webs = 0 /\ faults = 0 /\ boots = 0

\* rtcm_get_time and rtcm_get_date, rtcm_set_time and rtcm_set_date: a register at a time.
Taken(r, i) == r[i]
Put(r, i, digit) == [r EXCEPT ![i] = digit]

\* The chip counts what digits it has.
Counts(r) ==
    IF \E i \in 1 .. Regs : r[i] = Lost THEN r ELSE Digits((Value(r) + 1) % Radix ^ Regs)

Tick ==
    /\ now < MaxTime /\ now' = now + 1 /\ chip' = Counts(chip)
    /\ sys' = IF sys = Unset THEN sys ELSE (sys + 1) % Radix ^ Regs
    /\ UNCHANGED <<ntp, page, reading, env, counts>>

Connects == ~net /\ net' = TRUE /\ UNCHANGED <<clocks, ntp, page, reading, init, counts>>

Fault == faults < MaxFaults /\ faults' = faults + 1 /\ UNCHANGED <<webs, boots>>

Drops ==
    /\ net /\ Fault /\ net' = FALSE /\ UNCHANGED <<clocks, ntp, page, reading, init>>

Restart ==
    /\ boots < MaxBoots /\ boots' = boots + 1
    /\ sys' = Unset /\ synced' = FALSE /\ task' = "wait" /\ tries' = 0 /\ at' = 1
    /\ web' = "none" /\ wat' = 1 /\ got' = <<>> /\ reader' = "boot" /\ net' = FALSE
    /\ UNCHANGED <<now, chip, sent, posted, init, webs, faults>>

-----------------------------------------------------------------------------
(* rtcm_sync_system_time_from_rtc.                                         *)

\* The ranges checked before the registers are believed.
HoldsATime(r) == \A i \in 1 .. Regs : r[i] < Radix

Believed(r) ==
    IF HoldsATime(r) THEN Value(r) ELSE sys

\* One register; a failure leaves the system clock alone.
ReadNext ==
    /\ reader # "none"
    /\ \/ /\ Len(got) < Regs /\ got' = Append(got, Taken(chip, Len(got) + 1))
          /\ UNCHANGED <<sys, reader, web, counts>>
       \/ /\ Fault /\ got' = <<>> /\ reader' = "none" /\ UNCHANGED sys
          /\ web' = IF reader = "web" THEN "none" ELSE web
       \/ /\ Len(got) = Regs /\ sys' = Believed(got) /\ got' = <<>> /\ reader' = "none"
          /\ web' = IF reader = "web" THEN "none" ELSE web
          /\ UNCHANGED counts
    /\ UNCHANGED <<now, chip, ntp, wat, posted, env>>

-----------------------------------------------------------------------------
(* The time-server task; it starts at the end of app_main.                 *)

Booted == reader # "boot"

\* Two servers, or one if the build holds one; else the task ends.
StartsSntp ==
    /\ Booted /\ task = "wait" /\ net
    /\ task' = IF init THEN "first" ELSE "dead"
    /\ UNCHANGED <<clocks, at, sent, tries, synced, page, reading, env, counts>>

\* Where the task goes when the attempts are used up.
AfterTheLast == "hourly"

\* Mutant: the chip is written once.
OnceOnly(from) == from = "first"

\* A synchronization from which the chip is written.
WritesChip(from) == from \in {"first", "hourly"}

\* The server answers: SNTP has set the system clock.
Answer ==
    /\ task \in {"first", "hourly"} /\ net
    /\ sys' = now /\ synced' = TRUE /\ sent' = Digits(now) /\ at' = 1
    /\ task' = IF WritesChip(task) THEN "write" ELSE "hourly"
    /\ UNCHANGED <<now, chip, tries, page, reading, env, counts>>

NoAnswer ==
    /\ task = "first"
    /\ Fault \/ (~net /\ UNCHANGED counts)
    /\ tries' = tries + 1
    /\ task' = IF tries + 1 = MaxRetries THEN AfterTheLast ELSE "first"
    /\ UNCHANGED <<clocks, at, sent, synced, page, reading, env>>

\* sync_rtcm_with_system_time: a failure leaves the rest for the next hour.
WriteNext ==
    /\ task = "write"
    /\ \/ /\ chip' = Put(chip, at, sent[at]) /\ at' = at + 1
          /\ task' = IF at = Regs THEN "hourly" ELSE "write"
          /\ UNCHANGED counts
       \/ Fault /\ task' = "hourly" /\ UNCHANGED <<chip, at>>
    /\ UNCHANGED <<now, sys, sent, tries, synced, page, reading, env>>

-----------------------------------------------------------------------------
(* set_rtc_time: the time registers, then the date whatever came of them,  *)
(* then the system clock from the chip.                                    *)

WebArrives(t) ==
    /\ Booted /\ web = "none" /\ reader = "none" /\ webs < MaxWeb /\ webs' = webs + 1
    /\ web' = "write" /\ wat' = 1 /\ posted' = t
    /\ UNCHANGED <<clocks, ntp, reading, env, faults, boots>>

WebWrites ==
    /\ web = "write" /\ wat <= Regs /\ wat' = wat + 1
    /\ \/ chip' = Put(chip, wat, posted[wat]) /\ UNCHANGED counts
       \/ Fault /\ UNCHANGED chip
    /\ UNCHANGED <<now, sys, ntp, web, posted, reading, env>>

WebReads ==
    /\ web = "write" /\ wat = Regs + 1 /\ web' = "read" /\ reader' = "web" /\ got' = <<>>
    /\ UNCHANGED <<clocks, ntp, wat, posted, env, counts>>

Next ==
    \/ Tick \/ Connects \/ Drops \/ Restart \/ ReadNext \/ StartsSntp \/ Answer \/ NoAnswer
    \/ WriteNext \/ (\E t \in Times : WebArrives(t)) \/ WebWrites \/ WebReads

Fairness ==
    /\ WF_vars(Tick) /\ WF_vars(Connects) /\ WF_vars(ReadNext) /\ WF_vars(StartsSntp)
    /\ WF_vars(Answer) /\ WF_vars(WriteNext) /\ WF_vars(WebWrites) /\ WF_vars(WebReads)

Spec == Init /\ [][Next]_vars
FairSpec == Spec /\ Fairness

-----------------------------------------------------------------------------
(* What must hold.                                                         *)

(* The system clock never comes from registers that hold no date: it stays *)
(* as it was, through torn reads, failed writes and restarts in the middle *)
(* of one (rtcm.c:213-222).                                                *)
NoTimeOutOfNothing ==
    [][sys' # sys /\ reader # "none" /\ Len(got) = Regs /\ task' = task /\ now' = now
        /\ boots' = boots => (\A i \in 1 .. Regs : got[i] # Lost) /\ sys' = Value(got)]_vars

(* Whatever was posted, lost or half written, with a network and a server  *)
(* that answers the system clock and the chip both come to the true time   *)
(* and stay there; only a task that could not start SNTP never tries again *)
(* (sync_sys_time.c:283-311).                                              *)
ClocksComeRight ==
    init => <>[](sys = now /\ chip = Digits(now))

-----------------------------------------------------------------------------
(* Claims the code does not keep.                                          *)

(* config_server.c:1418 sets the system clock to the time just posted; the *)
(* hourly task or a failed register may have left another in the chip.     *)
PostedTakesHold ==
    [][web = "read" /\ web' = "none" /\ Len(got) = Regs /\ boots' = boots =>
        sys' = Value(posted)]_vars

(* rtcm.c:292: the time restored at boot is the chip's; a carry between    *)
(* two registers makes it another.                                         *)
RestoredIsTheChips ==
    [][reader = "boot" /\ reader' = "none" /\ Len(got) = Regs /\ sys' # Unset =>
        sys' = Value(chip)]_vars
=============================================================================
