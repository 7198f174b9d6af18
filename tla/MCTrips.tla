------------------------------ MODULE MCTrips -------------------------------
(*****************************************************************************)
(* The trip logger from outside: its guarded start, the columns and formulas *)
(* of its rows, the hosts that park it, one that vanishes and one that keeps *)
(* its promises, and those who switch the bus off under its poll task.  Each *)
(* behaviour is one component's.                                             *)
(*****************************************************************************)
EXTENDS BringUp, TLC

\* A host that ends its pauses before they can expire, and an owner who uses
\* the web page only between them.
TimelyOps == {"pause", "resume", "keepalive", "start", "stop"}

\* Everything that can leave the controller off.
OffOps == {"park", "flash", "upload", "slcan", "sleep"}

\* Entries of the four lists: the same name twice, a name that is cut, one that
\* cleaning turns into another, and entries that nothing can be decoded with.
E(k, n, h) == [kind |-> k, name |-> n, how |-> h]
ListEntries ==
    {E("custom", "a", "good"), E("custom", "a", "off"), E("custom", "l1", "good"),
     E("custom", "a", "bad"), E("std", "a", "good"), E("specific", "a", "good"),
     E("specific", "b", "good"), E("specific", "b", "bad"), E("filter", "a", "good"),
     E("filter", "b", "mute"), E("filter", "a", "bad"), E("vfilter", "b", "good"),
     E("calc", "a", "good"), E("calc", "b", "good")}
CutNames ==
    "a" :> "a" @@ "b" :> "b" @@ "l1" :> "l" @@ "l" :> "l" @@ "none" :> "none"
CleanNames == "a" :> "a" @@ "b" :> "a" @@ "l" :> "l" @@ "none" :> "none"

VARIABLES
    part,   \* the component this behaviour is about
    off_held, off_stray, off_on, off_silent, off_pc, off_asked, off_left,
    off_target, off_waited, off_normal, off_answering, off_ota, off_upload,
    off_sleep, off_forward,
    vanish_now, vanish_gen, vanish_open, vanish_seq, vanish_park,
    vanish_claim, vanish_flash, vanish_flashSince, vanish_lastDiag,
    vanish_mode, vanish_prepause, vanish_wanted, vanish_http, vanish_reaper,
    vanish_stuckSince, vanish_alarm, vanish_writer,
    timely_now, timely_gen, timely_open, timely_seq, timely_park,
    timely_claim, timely_flash, timely_flashSince, timely_lastDiag,
    timely_mode, timely_prepause, timely_wanted, timely_http, timely_reaper,
    timely_stuckSince, timely_alarm, timely_writer,
    file, std, specific, cols_open, cols, unmatched, drops,
    seen, operands, operators, stage, slips

offVars ==
    <<off_held, off_stray, off_on, off_silent, off_pc, off_asked, off_left,
      off_target, off_waited, off_normal, off_answering, off_ota, off_upload,
      off_sleep, off_forward>>
vanishVars ==
    <<vanish_now, vanish_gen, vanish_open, vanish_seq, vanish_park,
      vanish_claim, vanish_flash, vanish_flashSince, vanish_lastDiag,
      vanish_mode, vanish_prepause, vanish_wanted, vanish_http, vanish_reaper,
      vanish_stuckSince, vanish_alarm, vanish_writer>>
timelyVars ==
    <<timely_now, timely_gen, timely_open, timely_seq, timely_park,
      timely_claim, timely_flash, timely_flashSince, timely_lastDiag,
      timely_mode, timely_prepause, timely_wanted, timely_http, timely_reaper,
      timely_stuckSince, timely_alarm, timely_writer>>
colsVars == <<file, std, specific, cols_open, cols, unmatched, drops>>
formulaVars == <<seen, operands, operators, stage, slips>>

SwitchedOff == INSTANCE BusInterlock WITH
    Ops <- OffOps, Pids <- 1, Withheld <- 2,
    held <- off_held, stray <- off_stray, on <- off_on, silent <- off_silent,
    pc <- off_pc, asked <- off_asked, left <- off_left, target <- off_target,
    waited <- off_waited, normal <- off_normal, answering <- off_answering,
    ota <- off_ota, upload <- off_upload, sleep <- off_sleep,
    forward <- off_forward

Vanish == INSTANCE Coexist WITH
    Ops <- {"pause", "claim", "port", "flash"}, ParkTTL <- 1, ClaimTTL <- 1,
    Grace <- 1, Quiesce <- 1, StuckCeiling <- 1, MaxTime <- 4,
    HostHorizon <- 2, MaxToken <- 2, MaxGen <- 1,
    now <- vanish_now, gen <- vanish_gen, open <- vanish_open,
    seq <- vanish_seq, park <- vanish_park, claim <- vanish_claim,
    flash <- vanish_flash, flashSince <- vanish_flashSince,
    lastDiag <- vanish_lastDiag, mode <- vanish_mode,
    prepause <- vanish_prepause, wanted <- vanish_wanted, http <- vanish_http,
    reaper <- vanish_reaper, stuckSince <- vanish_stuckSince,
    alarm <- vanish_alarm, writer <- vanish_writer

Timely == INSTANCE Coexist WITH
    Ops <- TimelyOps, ParkTTL <- 3, ClaimTTL <- 3, Grace <- 1, Quiesce <- 1,
    StuckCeiling <- 2, MaxTime <- 3, HostHorizon <- 3, MaxToken <- 3,
    MaxGen <- 1,
    now <- timely_now, gen <- timely_gen, open <- timely_open,
    seq <- timely_seq, park <- timely_park, claim <- timely_claim,
    flash <- timely_flash, flashSince <- timely_flashSince,
    lastDiag <- timely_lastDiag, mode <- timely_mode,
    prepause <- timely_prepause, wanted <- timely_wanted, http <- timely_http,
    reaper <- timely_reaper, stuckSince <- timely_stuckSince,
    alarm <- timely_alarm, writer <- timely_writer

Cols == INSTANCE LogColumns WITH
    Entries <- ListEntries, MaxEntries <- 3, MaxCalc <- 1, MaxCols <- 2,
    Cut <- CutNames, Clean <- CleanNames,
    open <- cols_open

Formula == INSTANCE ExprEval WITH
    Operators <- {"-", "/", "&"}, MaxTokens <- 7, MaxSlips <- 1,
    CalcMaxDepth <- 1, StackMax <- 100

\* The other components stand still; where one may start from several states,
\* it stands in one of them.
AllInit ==
    /\ part \in {"bringup", "off", "vanish", "timely", "cols", "formula"}
    /\ \/ part = "bringup"
       \/ /\ armed = [s \in OneShots |-> FALSE] /\ guard = FALSE /\ skips = 0
          /\ faulty = OneShots \cup {"csv"}
    /\ Init
    /\ SwitchedOff!Init
    /\ Vanish!Init
    /\ Timely!Init
    /\ part = "cols" \/ (file = <<>> /\ std = FALSE /\ specific = FALSE)
    /\ Cols!Init
    /\ Formula!Init

\* Steps of one component.
OnBringUp ==
    part = "bringup" /\
    UNCHANGED <<part, offVars, vanishVars, timelyVars, colsVars, formulaVars>>
OnOff ==
    part = "off" /\
    UNCHANGED <<part, vars, vanishVars, timelyVars, colsVars, formulaVars>>
OnVanish ==
    part = "vanish" /\
    UNCHANGED <<part, vars, offVars, timelyVars, colsVars, formulaVars>>
OnTimely ==
    part = "timely" /\
    UNCHANGED <<part, vars, offVars, vanishVars, colsVars, formulaVars>>
OnCols ==
    part = "cols" /\
    UNCHANGED <<part, vars, offVars, vanishVars, timelyVars, formulaVars>>
OnFormula ==
    part = "formula" /\
    UNCHANGED <<part, vars, offVars, vanishVars, timelyVars, colsVars>>

AllNext ==
    \/ OnBringUp /\ Next
    \/ OnOff /\ SwitchedOff!Next
    \/ OnVanish /\ Vanish!Next
    \/ OnTimely /\ Timely!Next
    \/ OnCols /\ Cols!Next
    \/ OnFormula /\ Formula!Next

all == <<part, vars, offVars, vanishVars, timelyVars, colsVars, formulaVars>>

AllSpec == AllInit /\ [][AllNext]_all

\* Each component's own fairness, of its steps while it is the one that runs.
bringupFair ==
    /\ WF_vars(part = "bringup" /\ Boot)
    /\ WF_vars(part = "bringup" /\ RetryWakes)
    /\ WF_vars(part = "bringup" /\ RetryStarts)
    /\ WF_vars(part = "bringup" /\ MarkStable)
    /\ WF_vars(part = "bringup" /\ CsvCrash)
    /\ \A s \in OneShots : WF_vars(part = "bringup" /\ OneShotStable(s))
    /\ \A s \in OneShots : WF_vars(part = "bringup" /\ OneShotCrash(s))
    /\ WF_vars(part = "bringup" /\ Sleep)
    /\ WF_vars(part = "bringup" /\ Wake)

offFair ==
    /\ WF_offVars(part = "off" /\ SwitchedOff!Poller)

vanishFair ==
    /\ WF_vanishVars(part = "vanish" /\ Vanish!Tick)
    /\ WF_vanishVars(part = "vanish" /\ Vanish!HttpStep)
    /\ WF_vanishVars(part = "vanish" /\ Vanish!Reaper)
    /\ WF_vanishVars(part = "vanish" /\ (Vanish!RearmPark \/ Vanish!RearmWrite))


-----------------------------------------------------------------------------
(* The components' properties; liveness under each component's own fairness. *)

\* While nothing is faulty, what a boot skipped is repaired for good, and later
\* wakes do not reboot for it again. (BringUp.)
RepairLasts == part = "bringup" /\ bringupFair => RepairIsLasting

\* The leases of a host that vanished are taken back, and a flash bit that
\* stays up raises the alarm; however the owners, an upload and sleep switch
\* the controller, it is not left off without an owner, the poll task comes
\* round again, and its veto lapses. (Coexist, BusInterlock.)
TakenComesBack ==
    /\ part = "vanish" /\ vanishFair =>
          Vanish!DeadManResumes /\ Vanish!StuckFlashAlarmed
    /\ part = "off" /\ offFair =>
          SwitchedOff!BusHeals /\ SwitchedOff!PollerComesRound /\ SwitchedOff!VetoLapses

\* While a host that keeps its promises is parked the logger is off, and once
\* it has gone the logger is as its owner last asked: only the end of a lease
\* brings it back. (Coexist.)
ModeIsKept == Timely!ModeIsKept

\* A column holds the values of its own row, a row without a column is
\* accounted for, no row has two, the header tells them apart, and a column is
\* one something can fill. (LogColumns.)
ColumnsAreTrue ==
    /\ Cols!TypeOK /\ Cols!OwnValues /\ Cols!LossHasItsReason
    /\ Cols!OneColumnEach /\ Cols!HeaderTellsApart /\ Cols!ColumnsAreFed

\* Both evaluators give a formula the value its grammar gives it, and a sign
\* binds the operand after it. (ExprEval.)
FormulasAreTrue ==
    /\ Formula!MeansWhatItSays /\ Formula!CalcMeansTheSame
    /\ Formula!SignBindsTightest
=============================================================================
