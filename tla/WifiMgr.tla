------------------------------ MODULE WifiMgr ------------------------------
(***************************************************************************)
(* The WiFi manager (main/wifi_mgr.c): the event handler on the system's   *)
(* event task, the reconnect task, the manager's enable, disable and mode  *)
(* switch on whoever calls them, the bans of networks that refuse the      *)
(* password, and the access point that goes away while the station is      *)
(* connected.  The driver's events are handled in the order it raises      *)
(* them.  Delays are not timed; a ban is live until it lapses.             *)
(***************************************************************************)
EXTENDS Integers, Sequences, FiniteSetsExt

CONSTANTS
    Networks,     \* 1 .. n: the configured network and its fallbacks, in order
    BanAfter,     \* WIFI_MGR_AUTH_FAIL_THRESHOLD
    MaxEvents,    \* bound: driver events waiting for the handler
    WifiModes,    \* the configured modes of interest: "STA", "APSTA"
    AutoDisable,  \* ap_auto_disable
    Open          \* the networks that take the password we have for them

VARIABLES
    mode,         \* wifi_config.mode
    enabled, connected, stations, tries, attempted,  \* wifi_status
    upBit, downBit,        \* WIFI_INIT|ENABLED_BIT, WIFI_DISCONNECTED_BIT
    ours,         \* s_last_disc_reason is 8: we left
    fails, ban,   \* per network: auth_fail_count, banned_until
    cursor,       \* s_select_seq_cursor
    hpc,          \* the event handler: "idle", or in the delay before APSTA
    rpc, fast,    \* the reconnect task ("none" without one), its fast_retry
    mpc,          \* the manager's caller
    \* the driver and the air
    radio, air, link, events, around,
    quick         \* quick retries since an address was last held (history)

status == <<enabled, connected, stations, tries, attempted>>
bans   == <<fails, ban, cursor>>
driver == <<radio, air, link, events, around>>
vars == <<mode, status, upBit, downBit, ours, bans, hpc, rpc, fast, mpc, driver,
          quick>>

TypeOK ==
    /\ mode \in WifiModes /\ {enabled, connected, upBit, downBit, ours} \subseteq BOOLEAN
    /\ stations \in 0 .. 1 /\ tries \in 0 .. 2 /\ attempted \in Networks
    /\ fails \in [Networks -> 0 .. BanAfter]
    /\ ban \in [Networks -> {"none", "live", "over"}]
    /\ cursor \in Networks
    /\ hpc \in {"idle", "delay"} /\ rpc \in {"none", "top", "delay", "scan"}
    /\ fast \in BOOLEAN
    /\ mpc \in {"idle", "stop", "clear", "start", "bits", "task"}
    /\ radio \in {"off", "STA", "APSTA"} /\ air \in {"idle", "joining", "joined"}
    /\ link \in Networks /\ Len(events) <= MaxEvents /\ around \in BOOLEAN
    /\ quick \in 0 .. 3

Init ==
    /\ mode \in WifiModes /\ enabled = FALSE /\ connected = FALSE /\ stations = 0
    /\ tries = 0 /\ attempted = 1 /\ upBit = FALSE /\ downBit = FALSE /\ ours = FALSE
    /\ fails = [n \in Networks |-> 0] /\ ban = [n \in Networks |-> "none"]
    /\ cursor = Max(Networks)
    /\ hpc = "idle" /\ rpc = "none" /\ fast = FALSE /\ mpc = "idle"
    /\ radio = "off" /\ air = "idle" /\ link = 1 /\ events = <<>> /\ around = FALSE
    /\ quick = 0

-----------------------------------------------------------------------------
(* The driver and the world around it.                                     *)

Raise(e) == Len(events) < MaxEvents /\ events' = Append(events, e)

\* A join and a link last longer than the handler needs for what is waiting.
RaiseNext(e) == events = <<>> /\ events' = <<e>>

Elsewhere == UNCHANGED <<mode, status, upBit, downBit, ours, bans, hpc, rpc, fast,
                         mpc, quick>>

\* A join ends with an address, with a refused password, or otherwise.
JoinSucceeds ==
    /\ air = "joining" /\ link \in Open /\ air' = "joined"
    /\ RaiseNext("address")
    /\ UNCHANGED <<radio, link, around>> /\ Elsewhere

JoinFails ==
    /\ air = "joining" /\ air' = "idle"
    /\ \/ RaiseNext("lost")
       \/ link \notin Open /\ RaiseNext("refused")
    /\ UNCHANGED <<radio, link, around>> /\ Elsewhere

LinkLost ==
    /\ air = "joined" /\ air' = "idle" /\ RaiseNext("lost")
    /\ UNCHANGED <<radio, link, around>> /\ Elsewhere

\* A phone joins the access point, and goes again.
StationMoves ==
    /\ radio = "APSTA" /\ around' = ~around
    /\ Raise(IF around THEN "station_gone" ELSE "station")
    /\ UNCHANGED <<radio, air, link>> /\ Elsewhere

BanLapses(n) ==
    /\ ban[n] = "live" /\ ban' = [ban EXCEPT ![n] = "over"]
    /\ UNCHANGED <<mode, status, upBit, downBit, ours, fails, cursor, hpc, rpc, fast,
                   mpc, driver, quick>>

-----------------------------------------------------------------------------
(* Choosing a network.                                                     *)

\* wifi_mgr_fs_should_skip, and what asking does to a ban that is over.
ShouldSkip(n) == ban[n] = "live"
Asked(set) == ban' = [n \in Networks |-> IF n \in set /\ ban[n] = "over" THEN "none"
                                         ELSE ban[n]]

\* The networks a search over the candidates c asks about, first to last.
AskedIn(c) == {n \in c : \A m \in c : m < n => ShouldSkip(m)}

\* esp_wifi_connect: a join in flight is cut short.
Connect(n) == attempted' = n /\ link' = n /\ air' = "joining"

\* wifi_mgr_scan_select_and_connect: the first network in sight that is not
\* banned, or the first in sight; the one last used when none is.
ScanSelect(seen) ==
    IF seen = {} THEN Connect(link) /\ UNCHANGED <<ban, cursor>>
    ELSE LET free == {n \in seen : ~ShouldSkip(n)}
         IN  /\ Connect(Min(IF free = {} THEN seen ELSE free))
             /\ Asked(AskedIn(seen)) /\ UNCHANGED cursor

\* The same when the scan fails: the networks in turn.
InTurn ==
    LET n    == Max(Networks)
        at(i) == ((cursor + i - 1) % n) + 1
        free == {i \in 1 .. n : ~ShouldSkip(at(i))}
        i    == IF free = {} THEN 1 ELSE Min(free)
    IN  /\ Connect(at(i)) /\ cursor' = at(i)
        /\ Asked({at(j) : j \in 1 .. (IF free = {} THEN n ELSE i)})

Fallbacks == Networks # {1}

-----------------------------------------------------------------------------
(* The event handler.                                                      *)

Handles(e) == hpc = "idle" /\ events # <<>> /\ Head(events) = e
              /\ events' = Tail(events)

\* STA_START connects, by a scan if there are fallbacks; a radio that is off
\* again refuses.
OnStart ==
    /\ Handles("start")
    /\ IF radio = "off" THEN UNCHANGED <<attempted, link, air, ban, cursor>>
       ELSE IF Fallbacks THEN (\E seen \in SUBSET Networks : ScanSelect(seen)) \/ InTurn
       ELSE Connect(link) /\ UNCHANGED <<ban, cursor>>
    /\ UNCHANGED <<mode, enabled, connected, stations, tries, upBit, downBit, ours,
                   fails, hpc, rpc, fast, mpc, radio, around, quick>>

\* wifi_mgr_fs_on_auth_failure, for the network last attempted.
ChargeFailure(n) ==
    IF ban[n] # "none" THEN UNCHANGED <<fails, ban>>
    ELSE IF fails[n] + 1 >= BanAfter
    THEN fails' = [fails EXCEPT ![n] = 0] /\ ban' = [ban EXCEPT ![n] = "live"]
    ELSE fails' = [fails EXCEPT ![n] = @ + 1] /\ UNCHANGED ban

\* The handler waits before it brings the access point back.
AfterDisconnect ==
    IF mode = "APSTA" /\ AutoDisable /\ radio = "STA" THEN "delay" ELSE "idle"

OnDisconnect ==
    /\ \/ Handles("lost") \/ Handles("refused") \/ Handles("left")
    /\ ours' = (Head(events) = "left")
    /\ connected' = FALSE /\ downBit' = TRUE
    /\ IF Head(events) = "refused" THEN ChargeFailure(attempted)
       ELSE UNCHANGED <<fails, ban>>
    /\ hpc' = AfterDisconnect
    /\ UNCHANGED <<mode, enabled, stations, tries, attempted, upBit, cursor, rpc, fast,
                   mpc, radio, air, link, around, quick>>

\* ... if the station is still down, and the driver takes it.
ApBack ==
    /\ hpc = "delay" /\ hpc' = "idle"
    /\ radio' = IF ~connected /\ radio # "off" THEN "APSTA" ELSE radio
    /\ UNCHANGED <<mode, status, upBit, downBit, ours, bans, rpc, fast, mpc, air, link,
                   events, around, quick>>

\* GOT_IP: the ban record is cleared, and the access point goes.
OnAddress ==
    /\ hpc = "idle" /\ events # <<>> /\ Head(events) = "address"
    /\ connected' = TRUE /\ tries' = 0 /\ downBit' = FALSE /\ quick' = 0
    /\ fails' = [fails EXCEPT ![attempted] = 0] /\ ban' = [ban EXCEPT ![attempted] = "none"]
    /\ IF mode = "APSTA" /\ AutoDisable /\ radio = "APSTA"
       THEN radio' = "STA" /\ around' = FALSE /\ events' = Append(Tail(events), "ap_stop")
       ELSE events' = Tail(events) /\ UNCHANGED <<radio, around>>
    /\ UNCHANGED <<mode, enabled, stations, attempted, upBit, ours, cursor, hpc, rpc, fast, mpc,
                   air, link>>

\* Mutant: a stopped access point keeps its stations.
ApStopKeepsCount ==
    /\ \/ Handles("station") /\ stations' = 1
       \/ Handles("station_gone") /\ stations' = 0
       \/ Handles("ap_stop") /\ UNCHANGED stations
    /\ UNCHANGED <<mode, enabled, connected, tries, attempted, upBit, downBit, ours,
                   bans, hpc, rpc, fast, mpc, radio, air, link, around, quick>>

\* The access point's stations, and its end.
OnStation ==
    /\ \/ Handles("station") /\ stations' = 1
       \/ Handles("station_gone") /\ stations' = 0
       \/ Handles("ap_stop") /\ stations' = 0
    /\ UNCHANGED <<mode, enabled, connected, tries, attempted, upBit, downBit, ours,
                   bans, hpc, rpc, fast, mpc, radio, air, link, around, quick>>

-----------------------------------------------------------------------------
(* The reconnect task.                                                     *)

\* The top of the loop: it ends with the radio, waits while connected or while
\* a station uses the access point, and otherwise takes the disconnect.
Top ==
    /\ rpc = "top"
    /\ IF ~upBit THEN rpc' = "none" /\ UNCHANGED <<downBit, fast>>
       ELSE /\ enabled /\ ~connected
            /\ fast' = (downBit /\ ~ours) /\ downBit' = FALSE
            /\ rpc' = IF stations > 0 THEN "top" ELSE "delay"
    /\ UNCHANGED <<mode, status, upBit, ours, bans, hpc, mpc, driver, quick>>

CountTry == tries' = IF tries < 2 THEN tries + 1 ELSE tries

\* Mutant: every drop of a link is answered without a wait.
AlwaysQuick == fast

\* The drop is answered without a wait, twice.
IsQuick == fast /\ tries < 2

\* The attempt without fallbacks: put off while the network is banned.
Direct ==
    /\ Asked({link})
    /\ IF ShouldSkip(link)
       THEN attempted' = link /\ UNCHANGED <<link, air>>
       ELSE Connect(link)

\* The delay is over, and the handler has caught up unless it sits in its own:
\* everything is looked at once more, the attempt is counted
\* and takes any disconnect reported so far.
Attempt ==
    /\ rpc = "delay" /\ (events = <<>> \/ hpc = "delay")
    /\ IF enabled /\ ~connected /\ upBit
       THEN /\ CountTry /\ downBit' = FALSE
            /\ quick' = IF IsQuick /\ quick < 3 THEN quick + 1 ELSE quick
            /\ IF Fallbacks
               THEN rpc' = "scan" /\ UNCHANGED <<attempted, link, air, ban>>
               ELSE rpc' = "top" /\ Direct
       ELSE rpc' = "top" /\ UNCHANGED <<tries, downBit, quick, attempted, link, air, ban>>
    /\ fast' = (fast /\ rpc' = "scan")
    /\ UNCHANGED <<mode, enabled, connected, stations, upBit, ours, fails, cursor, hpc,
                   mpc, radio, events, around>>

\* The scan takes seconds and may fail.
ScanEnds ==
    /\ rpc = "scan" /\ rpc' = "top" /\ fast' = FALSE
    /\ UNCHANGED <<mode, enabled, connected, stations, tries, upBit, downBit, ours,
                   fails, hpc, mpc, radio, events, around, quick>>

Scan(seen) == ScanEnds /\ ScanSelect(seen)
ScanFailed == ScanEnds /\ InTurn

-----------------------------------------------------------------------------
(* The manager's operations, on their caller's task.                       *)

\* wifi_mgr_disable, or wifi_mgr_set_mode: first the bits, and the reconnect
\* task is deleted wherever it is ...
Disable ==
    /\ mpc = "idle" /\ enabled
    /\ mpc' = "stop" /\ upBit' = FALSE /\ downBit' = FALSE
    /\ rpc' = "none" /\ fast' = FALSE
    /\ mode' \in {mode, "APSTA"} \cap WifiModes
    /\ UNCHANGED <<status, ours, bans, hpc, driver, quick>>

\* ... then the radio ...
RadioOff ==
    /\ mpc = "stop" /\ mpc' = "clear"
    /\ radio' = "off" /\ air' = "idle" /\ around' = FALSE
    /\ events' = events \o (IF connected /\ air = "joined" THEN <<"left">> ELSE <<>>)
                        \o (IF radio = "APSTA" THEN <<"ap_stop">> ELSE <<>>)
    /\ Len(events') <= MaxEvents
    /\ UNCHANGED <<mode, status, upBit, downBit, ours, bans, hpc, rpc, fast, link,
                   quick>>

\* ... and the record, after a delay in which the handler has run, unless it
\* sits in its own.
Forget ==
    /\ mpc = "clear" /\ mpc' = "start" /\ (events = <<>> \/ hpc = "delay")
    /\ enabled' = FALSE /\ connected' = FALSE /\ stations' = 0
    /\ UNCHANGED <<mode, tries, attempted, upBit, downBit, ours, bans, hpc, rpc, fast,
                   driver, quick>>

\* What enable does after the radio is started.
AfterStart == mpc' = "bits"

\* wifi_mgr_enable: the radio, with the configured network ...
Enable ==
    /\ ~enabled /\ mpc \in {"idle", "start"}
    /\ radio' = mode /\ link' = 1 /\ Raise("start")
    /\ enabled' = TRUE /\ AfterStart
    /\ UNCHANGED <<mode, connected, stations, tries, attempted, upBit, downBit, ours,
                   bans, hpc, rpc, fast, air, around, quick>>

\* ... then the bits, and disconnects from before are forgotten ...
EnableBits ==
    /\ mpc = "bits" /\ mpc' = "task"
    /\ upBit' = TRUE /\ downBit' = FALSE
    /\ UNCHANGED <<mode, status, ours, bans, hpc, rpc, fast, driver, quick>>

\* ... and the reconnect task, unless there is one.
EnableTask ==
    /\ mpc = "task" /\ mpc' = "idle"
    /\ rpc' = IF rpc = "none" THEN "top" ELSE rpc
    /\ UNCHANGED <<mode, status, upBit, downBit, ours, bans, hpc, fast, driver,
                   quick>>

\* wifi_mgr_sta_disconnect
Leave ==
    /\ mpc = "idle" /\ enabled /\ connected /\ air = "joined"
    /\ air' = "idle" /\ Raise("left")
    /\ UNCHANGED <<mode, status, upBit, downBit, ours, bans, hpc, rpc, fast, mpc, radio,
                   link, around, quick>>

Handler == OnStart \/ OnDisconnect \/ ApBack \/ OnAddress \/ OnStation
Manager == RadioOff \/ Forget \/ EnableBits \/ EnableTask \/ Enable

Next ==
    \/ JoinSucceeds \/ JoinFails \/ LinkLost \/ StationMoves
    \/ \E n \in Networks : BanLapses(n)
    \/ OnStart \/ OnDisconnect \/ ApBack \/ OnAddress \/ OnStation
    \/ Top \/ Attempt \/ (\E seen \in SUBSET Networks : Scan(seen)) \/ ScanFailed
    \/ Disable \/ RadioOff \/ Forget \/ Enable \/ EnableBits \/ EnableTask \/ Leave

Spec == Init /\ [][Next]_vars

(* The tasks run, a ban lapses, and a scan sees every network now and then.  *)
Fairness ==
    /\ WF_vars(Handler) /\ WF_vars(Top) /\ WF_vars(Attempt) /\ WF_vars(Scan({}) \/ ScanFailed)
    /\ WF_vars(Manager) /\ (\A n \in Networks : WF_vars(BanLapses(n)))
    /\ SF_vars(Scan(Networks))

FairSpec == Spec /\ Fairness

-----------------------------------------------------------------------------
(* Properties.                                                             *)

(* If the configured network, which takes our password, lets a device in    *)
(* that keeps asking, then the station is connected again in the end while  *)
(* nobody uses its access point, whatever bans, mode switches and stale     *)
(* events came before.                                                      *)
Reconnects ==
    SF_vars(JoinSucceeds) =>
        ~<>[](enabled /\ mpc = "idle" /\ ~connected /\ ~around
              /\ 1 \in Open)

(* A drop earns at most two quick retries until an address is held again    *)
(* ("this cannot become a tight loop").                                     *)
NoTightLoop == quick <= 2

(* A station that stays away brings the access point back, so that the      *)
(* device can be reached.                                                   *)
ApComesBack == ~<>[](mode = "APSTA" /\ enabled /\ mpc = "idle" /\ ~connected
                     /\ radio = "STA")

-----------------------------------------------------------------------------
(* A claim the code does not keep.                                          *)

(* "From here the bit means one thing only: a disconnect happened AFTER our *)
(* last attempt" (wifi_reconnect_task): with fallbacks the bit is cleared   *)
(* before the scan and the attempt is made after it, so a disconnect        *)
(* during the scan reads as news of the new attempt, and the quick retry    *)
(* cuts a join short that is still in flight.                               *)
QuickSparesJoins ==
    [][rpc = "delay" /\ IsQuick /\ enabled /\ ~connected /\ upBit /\ rpc' # "delay"
         => air # "joining"]_vars
=============================================================================
