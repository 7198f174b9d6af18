---------------------------- MODULE SmartConnect ----------------------------
(***************************************************************************)
(* The home and drive modes (main/smartconnect.c): a task that polls the   *)
(* motion sensor once a second and, when the car has moved or stood long   *)
(* enough, takes the radios of one mode down and brings those of the other *)
(* up.  A change of mode is a list of calls with pauses between them, in   *)
(* which a save changes the settings and the sleep task begins its own     *)
(* teardown.  Times are counted in passes of the task.                     *)
(***************************************************************************)
EXTENDS Naturals, Sequences

CONSTANTS
    DriveDelay, HomeDelay,  \* DRIVE_MODE_DELAY_MS, HOME_MODE_DELAY_MS
    Configs,      \* settings: [home, drive, conn, timeout, auto, elm]
    NoNet,        \* an empty network name
    MaxSaves,     \* bound: settings saved over one boot
    MaxFaults     \* bound: radios that fail to come up

VARIABLES
    st,           \* current_state
    timer,        \* what is left of state_timer or drive_mode_timeout_timer
    todo,         \* the calls of a change of mode still to make
    wifi, join,   \* the manager: "none" before init, "idle", or its mode; the network
    ble,          \* "off", "half" when enabling failed midway, "on"
    flags,        \* DEV_HOME_MODE, DEV_DRIVE_MODE, DEV_AUTOPID_ENABLED bits
    held,         \* smartconnect_config: the networks copied at the start
    cfg,          \* device_config
    \* the world
    motion, linked, awake, saves, faults,
    moving, still \* passes since the car was last seen still, last seen moving

radios == <<wifi, join, ble, flags>>
world  == <<motion, linked, awake, saves, faults>>
vars == <<st, timer, todo, radios, held, cfg, world, moving, still>>

States == {"INIT", "WAIT_ON", "WAIT_OFF", "DRIVE", "DRIVE_TIMEOUT", "HOME"}
MinTimeout == CHOOSE n \in {c.timeout : c \in Configs} :
                  \A c \in Configs : n <= c.timeout
Top == DriveDelay + HomeDelay + MinTimeout

TypeOK ==
    /\ st \in States /\ timer \in Nat
    /\ wifi \in {"none", "idle", "AP", "STA", "APSTA"}
    /\ join \in {NoNet} \cup {c.home : c \in Configs} \cup {c.drive : c \in Configs}
    /\ ble \in {"off", "half", "on"} /\ flags \subseteq {"home", "drive", "autopid"}
    /\ cfg \in Configs /\ motion \in {"moving", "still", "invalid"}
    /\ {linked, awake} \subseteq BOOLEAN /\ moving \in 0 .. Top /\ still \in 0 .. Top

-----------------------------------------------------------------------------
(* The two modes as lists of calls.                                        *)

EnableHome == <<"home_flags", "ble_disable", "sta_disconnect", "disable", "deinit",
                "home_up">>

EnableDrive == <<"drive_flags", "sta_disconnect", "disable", "deinit", "drive_up">>
DisableHome == <<"clear_home", "sta_disconnect", "disable", "deinit">>

\* What is taken down is what the settings of this moment name.
DisableDrive ==
    <<"clear_drive">> \o (IF cfg.conn = "wifi" THEN <<"sta_disconnect">>
                                               ELSE <<"ble_disable">>)
                      \o <<"disable", "deinit">>

\* smartconnect_init, and the task's first call.  A wake in this mode reboots.
Boot ==
    /\ st' = "INIT" /\ timer' = 0 /\ todo' = EnableHome
    /\ wifi' = "none" /\ join' = NoNet /\ ble' = "off" /\ flags' = {}
    /\ held' = [home |-> cfg.home, drive |-> cfg.drive]
    /\ awake' = TRUE /\ linked' = FALSE /\ moving' = 0 /\ still' = 0

Init ==
    /\ cfg \in Configs /\ st = "INIT" /\ timer = 0 /\ todo = EnableHome
    /\ wifi = "none" /\ join = NoNet /\ ble = "off" /\ flags = {}
    /\ held = [home |-> cfg.home, drive |-> cfg.drive]
    /\ motion = "invalid" /\ linked = FALSE /\ awake = TRUE /\ saves = 0 /\ faults = 0
    /\ moving = 0 /\ still = 0

-----------------------------------------------------------------------------
(* One call of a change of mode.                                           *)

\* wifi_mgr_init, wifi_mgr_enable and, with a network, wifi_mgr_sta_connect;
\* nobody looks at what they return.
WifiUp(mode, net) ==
    \/ wifi' = mode /\ join' = net /\ UNCHANGED faults
    \/ /\ faults < MaxFaults /\ faults' = faults + 1
       /\ wifi' \in {"none", "idle"} /\ join' = NoNet

\* ble_enable: the controller is up before the bit is set, so that a failure
\* in between leaves what the next ble_enable cannot initialise again.
BleEnable ==
    \/ ble' = (IF ble = "off" THEN "on" ELSE ble) /\ WifiUp("AP", NoNet)
    \/ /\ ble = "off" /\ ble' = "half" /\ faults < MaxFaults /\ faults' = faults + 1
       /\ wifi' = "AP" /\ join' = NoNet
BleDisable == ble' = IF ble = "on" THEN "off" ELSE ble

\* Wi-Fi as the drive mode set it up, when a phone that held it down goes.
WifiBack == IF wifi = "none" THEN "none" ELSE "AP"

HomeUp ==
    /\ WifiUp(IF held.home = NoNet THEN "AP" ELSE "APSTA", held.home)
    /\ UNCHANGED <<ble, flags, linked>>

DriveUp ==
    CASE cfg.conn = "ble" -> BleEnable /\ UNCHANGED <<flags, linked>>
      [] cfg.conn = "wifi" /\ held.drive # NoNet ->
             BleDisable /\ linked' = (linked /\ ble' = "on")
                        /\ WifiUp("STA", held.drive) /\ UNCHANGED flags
      [] OTHER -> /\ BleDisable /\ linked' = (linked /\ ble' = "on")
                  /\ wifi' = (IF wifi = "none" THEN "none" ELSE "idle")
                  /\ join' = NoNet /\ UNCHANGED <<flags, faults>>

WifiStop(down) ==
    /\ wifi' = (IF wifi = "none" THEN "none" ELSE down) /\ join' = NoNet
    /\ UNCHANGED <<ble, flags, linked, faults>>

SetFlags(new) == flags' = new /\ UNCHANGED <<wifi, join, ble, linked, faults>>

Call(c) ==
    CASE c = "home_flags"  -> SetFlags((flags \ {"drive"}) \cup {"home"} \cup
                                       (IF cfg.auto THEN {"autopid"} ELSE {}))
      [] c = "drive_flags" -> SetFlags(((flags \ {"home"}) \cup {"drive"}) \
                                       (IF cfg.elm THEN {"autopid"} ELSE {}))
      [] c = "clear_home"  -> SetFlags(flags \ {"home"})
      [] c = "clear_drive" -> SetFlags(flags \ {"drive"})
      [] c = "ble_disable" -> /\ BleDisable /\ linked' = (linked /\ ble' = "on")
                              /\ wifi' \in {wifi} \cup (IF linked' # linked THEN {WifiBack} ELSE {})
                              /\ UNCHANGED <<join, flags, faults>>
      [] c = "sta_disconnect" -> /\ join' = NoNet
                                 /\ UNCHANGED <<wifi, ble, flags, linked, faults>>
      [] c = "disable"     -> WifiStop("idle")
      [] c = "deinit"      -> WifiStop("none")
      [] c = "home_up"     -> HomeUp
      [] OTHER             -> DriveUp

\* The last call of a change enters the state it led to.
Switch ==
    /\ todo # <<>> /\ todo' = Tail(todo) /\ Call(Head(todo))
    /\ st' = IF Len(todo) > 1 \/ st = "INIT" THEN st
             ELSE CASE Head(todo) = "home_up"  -> "HOME"
                    [] Head(todo) = "drive_up" -> "DRIVE"
                    [] OTHER                   -> "WAIT_ON"
    /\ timer' = IF Len(todo) = 1 /\ Head(todo) = "deinit" THEN DriveDelay ELSE timer
    /\ UNCHANGED <<held, cfg, motion, awake, saves, moving, still>>

-----------------------------------------------------------------------------
(* One pass of smartconnect_task.                                          *)

Left == IF timer = 0 THEN 0 ELSE timer - 1
Expired == Left = 0
BleHolds == cfg.conn = "ble" /\ linked

Stay == st' = st /\ timer' = Left /\ UNCHANGED todo
Go(s, t) == st' = s /\ timer' = t /\ UNCHANGED todo
Change(calls) == todo' = calls /\ timer' = Left /\ UNCHANGED st

FromInit ==
    IF motion = "moving" THEN Go("WAIT_ON", DriveDelay) ELSE Go("WAIT_OFF", HomeDelay)

FromWaitOn ==
    IF motion = "still" THEN Go("WAIT_OFF", HomeDelay)
    ELSE IF Expired THEN Change(EnableDrive) ELSE Stay

FromWaitOff ==
    IF motion = "moving" THEN Go("WAIT_ON", DriveDelay)
    ELSE IF Expired THEN Change(EnableHome) ELSE Stay

FromDrive ==
    IF motion = "still" /\ ~BleHolds THEN Go("DRIVE_TIMEOUT", cfg.timeout) ELSE Stay

\* Mutant: the timeout keeps running when the car moves off again.
TimeoutRuns ==
    IF ~Expired THEN (IF BleHolds THEN Go("DRIVE", Left) ELSE Stay)
    ELSE IF BleHolds THEN Go("DRIVE", Left) ELSE Change(DisableDrive \o EnableHome)

FromTimeout ==
    IF motion = "moving" \/ BleHolds THEN Go("DRIVE", Left)
    ELSE IF Expired THEN Change(DisableDrive \o EnableHome) ELSE Stay

FromHome == IF motion = "moving" THEN Change(DisableHome) ELSE Stay

Cap(n) == IF n < Top THEN n + 1 ELSE n

Pass ==
    /\ todo = <<>> /\ awake
    /\ moving' = (IF motion = "still" THEN 0 ELSE Cap(moving))
    /\ still' = (IF motion = "moving" THEN 0 ELSE Cap(still))
    /\ IF motion = "invalid" THEN Stay
       ELSE CASE st = "INIT"          -> FromInit
              [] st = "WAIT_ON"       -> FromWaitOn
              [] st = "WAIT_OFF"      -> FromWaitOff
              [] st = "DRIVE"         -> FromDrive
              [] st = "DRIVE_TIMEOUT" -> FromTimeout
              [] OTHER                -> FromHome
    /\ UNCHANGED <<radios, held, cfg, world>>

-----------------------------------------------------------------------------
(* The world: the car, a phone, a save, and the sleep task.                *)

Rest == UNCHANGED <<st, timer, todo, held, saves, faults, moving, still>>

Moves ==
    /\ motion' \in {"moving", "still", "invalid"} \ {motion}
    /\ UNCHANGED <<radios, cfg, linked, awake>> /\ Rest

\* A phone's connection takes Wi-Fi down, its going brings it back.
PhoneLinks ==
    /\ ble = "on" /\ linked' = ~linked
    /\ wifi' = (IF linked \/ wifi = "none" THEN WifiBack ELSE "idle")
    /\ UNCHANGED <<join, ble, flags, cfg, motion, awake>> /\ Rest

\* These settings take effect without a reboot.
Save ==
    /\ saves < MaxSaves /\ saves' = saves + 1 /\ cfg' \in Configs \ {cfg}
    /\ UNCHANGED <<st, timer, todo, radios, held, motion, linked, awake, faults,
                   moving, still>>

\* The sleep task clears DEV_AWAKE_BIT and, later, takes the radios down.
GoToSleep ==
    /\ awake /\ awake' = FALSE
    /\ UNCHANGED <<radios, cfg, motion, linked>> /\ Rest

SleepTeardown ==
    /\ ~awake /\ (wifi # "none" \/ ble = "on")
    /\ wifi' = "none" /\ join' = NoNet /\ BleDisable /\ linked' = FALSE
    /\ UNCHANGED <<flags, cfg, motion, awake>> /\ Rest

Wake ==
    /\ ~awake /\ Boot /\ UNCHANGED <<cfg, motion, saves, faults>>

Next == \/ Switch \/ Pass \/ Moves \/ PhoneLinks \/ Save
        \/ GoToSleep \/ SleepTeardown \/ Wake

\* The task is scheduled; the car, the phone and the sleep task owe nothing.
Fairness == WF_vars(Switch) /\ WF_vars(Pass)

FairSpec == Init /\ [][Next]_vars /\ Fairness

-----------------------------------------------------------------------------
(* What must hold.                                                         *)

Settled == todo = <<>> /\ awake /\ faults = 0

(* Between changes the radios and the two mode flags are those of the mode *)
(* the task believes in: at home the access point and no Bluetooth, on the *)
(* road one of the three sets a drive connection stands for, whatever was  *)
(* saved while a change was under way.                                     *)
RadiosMatchMode ==
    Settled =>
        /\ st = "HOME" => /\ wifi \in {"AP", "APSTA"} /\ ble = "off"
                          /\ flags \cap {"home", "drive"} = {"home"}
        /\ st \in {"DRIVE", "DRIVE_TIMEOUT"} =>
               /\ flags \cap {"home", "drive"} = {"drive"}
               /\ <<wifi, ble>> \in {<<"STA", "off">>, <<"none", "off">>,
                                    <<IF linked THEN "idle" ELSE "AP", "on">>}

Begins(call) ==
    todo = <<>> /\ awake /\ \E i \in 1 .. Len(todo') : todo'[i] = call

(* A change of mode needs the car to have done the same thing for the whole *)
(* delay: no pass saw it still before the road radios, none saw it moving   *)
(* before the home radios (main/smartconnect.c:121).                        *)
SwitchIsDebounced ==
    [][/\ Begins("drive_up") => moving' >= DriveDelay
       /\ (st = "WAIT_OFF" /\ Begins("home_up")) => still' >= HomeDelay
       /\ (st = "DRIVE_TIMEOUT" /\ Begins("home_up")) => still' >= MinTimeout]_vars

(* A car that stays parked, its phone gone, ends in the home mode, and one  *)
(* that keeps moving in the drive mode.                                     *)
ModeFollowsCar ==
    /\ <>[](motion = "still" /\ ~linked /\ awake) => <>(st = "HOME")
    /\ <>[](motion = "moving" /\ awake) => <>(st = "DRIVE")

-----------------------------------------------------------------------------
(* Claims the code does not keep.                                          *)

(* config_server.c:744 applies home_ssid and drive_ssid without a reboot   *)
(* "because every consumer re-reads them live (... smartconnect per        *)
(* transition ...)"; smartconnect_load_config runs once, at the start.     *)
TransitionTakesSettings ==
    [][(todo # <<>> /\ Head(todo) = "home_up" /\ faults' = faults)
           => join' = cfg.home]_vars

(* Asleep, the radios stay down: a change of mode under way when sleep     *)
(* begins brings them up again after the teardown.                         *)
StaysDownAsleep ==
    [][(~awake /\ ~awake' /\ wifi = "none") => wifi' = "none"]_vars
=============================================================================
