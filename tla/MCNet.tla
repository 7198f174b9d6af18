------------------------------- MODULE MCNet --------------------------------
(*****************************************************************************)
(* The ways in: the boot with its updates and safe mode, the Wi-Fi manager   *)
(* and its diagnostics, and SmartConnect.  Each behaviour is one             *)
(* component's, and the instances are those the theorems of                  *)
(* BootImage_proofs are about.                                               *)
(*****************************************************************************)
EXTENDS BootImage_proofs

\* One configuration file is enough to be cut between two.
BootFiles == <<"config">>

\* The settings SmartConnect may find or be given.
Setting(h, d, c, t, a, e) ==
    [home |-> h, drive |-> d, conn |-> c, timeout |-> t, auto |-> a, elm |-> e]
SmartConfigs == {Setting("n1", "d1", "wifi", 1, TRUE, TRUE),
                 Setting("n2", NoNet, "wifi", 1, FALSE, TRUE),
                 Setting(NoNet, "d1", "ble", 2, TRUE, FALSE)}

VARIABLE part    \* the component this behaviour is about

wifiVars ==
    <<mode, wifi_enabled, connected, stations, tries, attempted, upBit,
      downBit, ours, fails, ban, cursor, hpc, rpc, fast, mpc, radio, air,
      wifi_link, wifi_events, around, quick>>
diagVars ==
    <<now, sampler, diag_link, hook, start, total, drops, tally, evlAt,
      evlReason, suppressed, facts, dropped, warned, warnAt, hand, diag_up,
      told, real, diag_said>>
smartVars ==
    <<st, timer, todo, wifi, join, ble, flags, networks, cfg, motion,
      linked, awake, mode_saves, radio_faults, moving, still>>

\* The other components stand still; where one may start from several states,
\* it stands in one of them.  The diagnostics have their sampler task: without it
\* nothing is promised in the end, and DiagStaysTrue is proved for both.
AllInit ==
    /\ part \in {"boot", "wifi", "diag", "smart"}
    /\ part = "boot" \/ (button = TRUE /\ card = "absent")
    /\ Init
    /\ Wifi!Init
    /\ sampler = TRUE
    /\ Diag!Init
    /\ part = "smart" \/ cfg = CHOOSE c \in SmartConfigs : TRUE
    /\ Modes!Init

\* Steps of one component.
OnBoot == part = "boot" /\ UNCHANGED <<part, wifiVars, diagVars, smartVars>>
OnWifi == part = "wifi" /\ UNCHANGED <<part, vars, diagVars, smartVars>>
OnDiag == part = "diag" /\ UNCHANGED <<part, vars, wifiVars, smartVars>>
OnSmart == part = "smart" /\ UNCHANGED <<part, vars, wifiVars, diagVars>>

AllNext ==
    \/ OnBoot /\ Next
    \/ OnWifi /\ Wifi!Next
    \/ OnDiag /\ Diag!Next
    \/ OnSmart /\ Modes!Next

all == <<part, vars, wifiVars, diagVars, smartVars>>

AllSpec == AllInit /\ [][AllNext]_all

\* Each component's own fairness, of its steps while it is the one that runs.
bootFair ==
    /\ WF_vars(part = "boot" /\ Steps)

wifiFair ==
    /\ WF_wifiVars(part = "wifi" /\ Wifi!Handler)
    /\ WF_wifiVars(part = "wifi" /\ Wifi!Top)
    /\ WF_wifiVars(part = "wifi" /\ Wifi!Attempt)
    /\ WF_wifiVars(part = "wifi" /\ (Wifi!Scan({}) \/ Wifi!ScanFailed))
    /\ WF_wifiVars(part = "wifi" /\ Wifi!Manager)
    /\ \A n \in {1, 2} : WF_wifiVars(part = "wifi" /\ Wifi!BanLapses(n))
    /\ SF_wifiVars(part = "wifi" /\ Wifi!Scan({1, 2}))

diagFair ==
    /\ WF_diagVars(part = "diag" /\ Diag!Tick)
    /\ WF_diagVars(part = "diag" /\ Diag!Format)
    /\ \A t \in Diag!Tasks : WF_diagVars(part = "diag" /\ Diag!Push(t))
    /\ WF_diagVars(part = "diag" /\ sampler /\ Diag!Pop)
    /\ WF_diagVars(part = "diag" /\ sampler /\ Diag!DrainEnds)

smartFair ==
    /\ WF_smartVars(part = "smart" /\ Modes!Switch)
    /\ WF_smartVars(part = "smart" /\ Modes!Pass)

-----------------------------------------------------------------------------
(* The components' properties; liveness under each component's own fairness. *)

\* With the button let go a boot ends in the application or in safe mode,
\* whatever is on the card; the manager comes back to a network that accepts it,
\* and opens its access point again when nobody is on it; facts its diagnostics
\* lose are reported; and the mode is in the end the one of where the car is.
\* (BootImage, WifiMgr, WifiDiag, SmartConnect.)
NetComesUp ==
    /\ part = "boot" /\ bootFair => BootEnds
    /\ part = "wifi" /\ wifiFair => Wifi!Reconnects /\ Wifi!ApComesBack
    /\ part = "diag" /\ diagFair => Diag!LossesReported
    /\ part = "smart" /\ smartFair => Modes!ModeFollowsCar

\* A configuration saved while the device runs is used from the next transition
\* on: claimed by the code, and not so.  (SmartConnect.)
TransitionTakesSettings == Modes!TransitionTakesSettings
=============================================================================
