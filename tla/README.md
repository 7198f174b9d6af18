# Formal models of the NC Flash WiCAN PRO firmware

The firmware turns an ESP32-S3 adapter into two things at once: a datalogger
that polls a car's ECU, and a wireless endpoint through which a PC tool (NC
Flash) reads and rewrites that ECU.  There is one CAN controller, there are
some twenty FreeRTOS tasks on two cores, and a mistake made while the ECU is
erased leaves the car dead.  Around this core stand a sleep task that must not
empty the battery, a trip logger, three radios, a file manager, and updates
that may lose power at any byte.

TLC checks the models on small instances; TLAPS proves most of their safety
properties for every value of the constants.  `PROJECT.json` lists components, runs, mutants,
hazards, findings, theorems, and the source lines behind every definition.

    tlc -config coexist_leases.cfg MCLeases.tla      # one run
    tlapm Coexist_proofs.tla                         # one module's proofs

Sections: 1 inventory, 2 how the modules are laid out, 3 correspondence with
the code, 4 runs, 5 proofs, 6 where code and comments part, 7 not modelled,
8 what is left.

## 1. Inventory

### Components, their state and operations

**Who may use the controller**

| component (source) | module | state | correct when |
|---|---|---|---|
| Coexistence leases (`main/can.c`) | `Coexist` | `s_park`, `s_claim` (flag, token, deadline, owner), token counter | a lease ends only by its holder or after it lapsed |
| Dead-man reaper (`main/datalog_lease_task.c`) | `Coexist` | a snapshot, the stuck-flash timer | a vanished host is cleaned up, a live one never |
| `/datalog`, `/csv_logger` (`components/csv_logger`) | `Coexist` | manual mode, pre-pause mode | the owner's mode survives a host session |
| Flash fence, uploads, resets (`main/flash_fence_logic.c`, `config_server.c`) | `FlashFence` | flash bit, reboot-pending flag, update flag, restart timer | no reset or update during an ECU write |
| Poll task and owners (`components/fast_log/poll_log.c`, `main/main.c`) | `BusInterlock` | position in its pass, quiesce state, controller on/off | off the bus one pass after an owner comes; the bus comes back |
| Dedicated port and codecs (`main/slcan_port.c`, `ncflash_fast*.c`) | `HostLink`, `FastRead`, `SlcanLine` | socket, generation, event bits, mutex, queues; point of no return | recovers from any host; an erasing ECU is never abandoned |

**Power and time**

| component (source) | module | state | correct when |
|---|---|---|---|
| Sleep (`main/sleep_mode.c`) | `SleepMode` | state machine, fence, timers, streak of refusals | wholly up or wholly down; the battery is saved |
| Wake on CAN (`main/can_wake.c`) | `CanWake` | fault, strikes, account of fruitless wakes in RTC memory | parked traffic wakes it a bounded number of times per cooldown |
| UART1 and its chip (`main/elm327.c`) | `ElmLink`, `ObdUpdate` | lock, driver ring and events, command queue; update step | no reader takes another's answer; an interrupted update is repaired |
| Clocks (`main/rtcm.c`, `sync_sys_time.c`) | `RtcClock` | registers, system time, three users without a lock | no time is made of nothing; both clocks come right |
| SmartConnect (`main/smartconnect.c`) | `SmartConnect` | mode, timer, the rest of a change of mode | the radios are those of the mode |

**The owner's data**

| component (source) | module | state | correct when |
|---|---|---|---|
| Bring-up guards (`csv_bringup_logic.c`, `event_log.c`, `poll_log.c`) | `BringUp` | RTC words, skip count, what this boot left out | a crashing start is given up in time, a stable one never blamed |
| Trip writer (`components/csv_logger`) | `CsvWriter` | trip, unflushed rows, timers, manual mode | no more than a flush period is lost |
| Columns and formulas (`components/autopid`, `main/expression_parser.c`) | `LogColumns`, `ExprEval` | lists, columns, two stacks | a column holds its own row's values |
| Table under its users (`autopid*.c`, `poll_log.c`) | `PidTable` | stored, staged and live table, one-slot mailbox | an open trip keeps its columns, an answer is about its own test |
| Poll gate (`poll_gate_logic.c`) | `PollGate` | ages, confirmations, flags | the gate opens for a car that answers |
| Event log, live stream (`components/event_log`, `main/datalog_stream.c`) | `EventLog`, `DatalogStream` | rings, file, client | every loss is counted and announced |
| Settings, uploads (`main/config_server.c`, `multipart_upload.c`) | `ConfigStore`, `WebUpload` | file, parsed and raw copy; parser and sinks | no mask is stored; a file arrives whole or not at all |
| SD files (`components/sd_filemgr`) | `SdFiles` | tree, open handles, one request | the open log outlives any request |
| Boot, safe mode, crash report (`main/main.c`, `sdcard.c`, `safemode.c`, `crash_report.c`) | `BootImage` | partitions, boot choice, settings, record | what runs is never written, what boots is whole |

**The ways in**

| component (source) | module | state | correct when |
|---|---|---|---|
| WiFi manager (`main/wifi_mgr.c`) | `WifiMgr` | bits, attempts, bans, driver events | comes back to a network, never in a tight loop |
| WiFi diagnostics (`components/wifi_diag`) | `WifiDiag` | fact ring, tallies, times | what it says happened |
| Bluetooth (`main/ble.c`) | `BleLink` | connection, MTU, notifications, radio hand-over | no gap in what the phone gets; it is served again |
| Consoles (`components/cmdline`) | `Console` | shared line buffer, shared output pointer | alone, a command's output goes where it was typed |

What has no module stands in section 7 and, with its reason, under `components`.

### How they interact

* **Flags without a common lock.**  The poll task reads four flags (flash bit,
  park, claim, sleep fence) one after the other, once per pass.  A codec raises
  its bit and *then* reads the reboot and update flags; the reboot scheduler and
  the upload raise theirs and *then* read the bit.
* **Samples used later.**  The reaper decides on a snapshot; the handlers sample
  clock and connection before they take the lease lock; the pause handler
  samples the park flag before it saves the mode; the sleep task reads the
  flash bit once, at the top of its teardown.
* **Queues.**  The port's receive task feeds `can_tx_task`, which runs a whole
  flash inline and feeds the port's transmit task, which feeds a socket whose
  far end may stop reading.
* **Who switches the controller.**  Sleep, upload, SLCAN commands, the poll
  task's quiesce and its self-heal all call `can_enable`/`can_disable`.
* **One web server task.**  Every HTTP handler runs on it, one at a time, so
  handlers interleave with tasks but not with each other.
* **Memory that survives.**  RTC words (bring-up guards, wake account, crash
  record), files and partitions are all a restart leaves; each may be cut
  between any two writes.

### What is hard

Two tasks between a check and an act; a host that vanishes, stalls or
reconnects at once; a lease renewed in the instant it is reaped; a flash begun
in the instant a reboot is accepted; a controller switched off under a task
that waits for it; a queue at its limit while the ECU erases; a crash in the
code that guards against crashes; a late answer taken for the next one's; a
write that falls short.  The list, line by line, is `hazards`.

## 2. Layout

One module per component, parameterised by its sizes, lifetimes and, where a
claim depends on who takes part, by the set `Ops` of operations the
environment may ask for.  Three abstract specifications are implemented:
`DeadManLease` (a lease has one holder, until it asked or lapsed) by `Coexist`,
twice; `ExclusiveWrite` (write, update and reset take turns) by `FlashFence`;
`PortOwner` (one owner at a time, never the same number twice) by `HostLink`.

An `MC*` module puts several components side by side for one run.  The variable
`part` names the one a behaviour is about; the others stand still in their
initial states, so the states add up instead of multiplying.  Each component's
fairness speaks of its steps while it is the one that runs.  The properties of
a run are conjunctions of one component's named parts, each part with its own
comment beside its definition in the component's module:

    WakeIsTrue == Wake!TypeOK /\ Wake!WakeBudget /\ Wake!MirrorTrue

Where a component's safety is proved as a whole, its aggregate is defined in
the proof module (or in the component's), and the `MC*` module extends that
module: the run checks, on a small instance, the very formula the theorem
states.  Liveness stands in aggregates of its own, in which each component has
its fairness:

    ChangesTakeHold ==
        /\ part = "table" /\ tableFair => NewestApplies
        /\ part = "gate" /\ gateFair => Gate!StopIsSeen /\ Gate!DriveIsSeen
        /\ part = "config" /\ configFair => Cfg!ComesUp

The plan followed what is lost when it goes wrong: the ECU (leases, fence, bus,
link), then the battery and the boot, then the owner's data, then the ways in.

| module of a run | components |
|---|---|
| `MCLeases` | `Coexist` twice: the lease operations; everything around a flash |
| `MCBus` | `BusInterlock`, `CsvWriter`, `DatalogStream`, `BleLink` |
| `MCFence` | `FlashFence` twice (without and with faults), `SdFiles`, `EventLog`, `Console` |
| `MCLink` | `HostLink`, `FastRead`, `SlcanLine` |
| `MCPower` | `SleepMode`, `CanWake`, `ElmLink`, `RtcClock`, `ObdUpdate` |
| `MCTrips` | `BringUp`, `Coexist` twice (a vanishing host; a timely one), `BusInterlock` (all that switch off), `LogColumns`, `ExprEval` |
| `MCNet` | `BootImage`, `WifiMgr`, `WifiDiag`, `SmartConnect` |
| `MCTables` | `PidTable`, `PollGate`, `ConfigStore`, `WebUpload` |

## 3. Correspondence

*Grain.*  One step is one access to state another task can touch, with the
local computation around it.  Spinlock and mutex sections are one step unless
the code releases the lock inside.  A handler or a task is a program counter
with its locals; an early return is a disjunct, or a branch of the step that
decides it.  Clocks count in units of the delays the code compares.

* **Coexist.**  At most one handler runs (`http.pc`); the reaper and the writer
  interleave with it at every step.  `SnapClock`, `SnapBus`, `SnapLeases` are
  `can_coexist_snapshot`; the reaper's decisions, being local, are taken in
  `SnapLeases`.  `wanted` and `flashSince` are history.
* **FlashFence.**  `task` holds `httpd` and the shell; both may schedule
  reboots.  The order of the codec's two flag reads is open in C, so both are
  modelled (`ota_left`, `pending_left`).  `Restart` forgets RAM and keeps the
  card.
* **BusInterlock.**  `can_should_park` is four steps.  `can_enable`,
  `can_disable`, `can_set_silent` are one each.  The 10 s for which a bus must
  be withheld are `Withheld` passes.  `stray` counts poll frames put on the
  wire under an owner.
* **HostLink.**  A socket is its host: reading, stalled, gone.  The receive task
  holds the socket mutex while it waits for room, as the code does, and the
  transmit task sends without comparing generations.  `EraseEdge` is the code's
  test, over images of any two region sizes.  An ISO-TP exchange is an outcome.
* **FastRead, SlcanLine.**  The read frame by frame with losses and late
  answers; the line parser byte by byte, its static places kept from call to
  call, and of each read no more than the length the parser takes, an eight-bit
  one, says.
* **SleepMode.**  A pass of `light_sleep_task` is a handful of steps and one
  unit of time; voltages are the bands the comparisons tell apart.
* **CanWake.**  Called in the order of its phases; deadlines are kept as the
  time left on `esp_timer` (reset by a boot) and on the wall clock (set by
  SNTP).  A boot takes a stored streak above 100 for a torn write; what it so
  forgets, and a window a reboot leaves unscored, is counted (`forgotten`).  **ElmLink** keeps the driver's bytes apart from the events that
  announce them.  **ObdUpdate** is the boot's and the web page's update, one
  command a step.  **RtcClock** reads and writes one register a step.
* **BringUp, CsvWriter, DatalogStream.**  A boot and what follows it up to the
  next; a pass of the writer's loop; the hook, the stream task and the client's
  generation between them.
* **PidTable, PollGate, LogColumns, ExprEval.**  The table changed under its
  users; the gate pass by pass; the loader, the column provider and the
  producers; the evaluators, with a number standing for the tree of operations
  that computes it.
* **ConfigStore, WebUpload, SdFiles, EventLog, Console.**  One field of each
  kind; one upload, a symbol for each byte the parser tells apart, the line of
  a boundary nobody named in pieces of its own (`Sniff` looks for it as the code
  does, `Read` goes on from there); one request at a time on a card without
  file locks; an event is its number, written to the file's buffer first, of
  which a flush or a close that fails may leave any part behind; three consoles
  and the two things they share.
* **BootImage, WifiMgr, WifiDiag, SmartConnect, BleLink.**  Boots with power cut
  at any step; the driver's events in order; hooks that stamp and then push; a
  change of mode call by call; the stack's events and `ble_task`,
  which share the packets the stack can take.

ECU, phone, interpreter chip, card and driver are external: modelled by every
answer the code distinguishes.

## 4. Runs

| run | properties | bounds |
|---|---|---|
| `coexist_leases` | `CoexistInv`, `LeasesKeepPromises`, `BusyFlashKeepsLeases` | 5 ticks, 2 grants, 1 reconnect; busy: 3 ticks |
| `bus` | `BusSafe`, `DriveIsRecorded`, `TripIsKept`, `StreamIsTrue`, `PhoneIsServed` | 2 PIDs; 2 withheld passes; timers of 1; 4 rows, 2 trips, 2 clients; notifications of 2 and 3 bytes, 1 answer of the console |
| `fence` | `FenceSafe`, `FenceUnderFaults`, `FilesAreSafe`, `LogIsTrue`, `ConsoleIsOne` | 3 codec runs, 2 reboots; 2 requests and 2 logs; 5 events into a ring of 2; 3 commands |
| `link` | `LinkSafe`, `OwnerPromise`, `LinkLive`, `RomIsRead`, `LineIsTyped` | queues of 1, 2 connections, images 1+1, 0+2, 2+0; 2 blocks of 3 frames, 3 retries; 1 bad line or cut, lengths modulo 10, reads of up to 19 |
| `power` | `SleepSafe`, `BatteryLive`, `WakeIsTrue`, `ElmIsShared`, `ClocksAreTrue`, `ChipIsRepaired` | timers of 1 or 2 passes; 3 fruitless wakes, streaks of 5 of which 4 are believed, 1 unscored window; 3 sets of tasks on UART1; 2 registers of 2 values; 3 boots |
| `trips` | `GuardsHold`, `ColumnsAreTrue`, `FormulasAreTrue`, `RepairLasts`, `TakenComesBack`, `ModeIsKept` | 2 skips, 2 one-shot guards; the host acts until tick 2 of 4; lists of 3 entries; formulas of 7 tokens |
| `net` | `RetriesStayFew`, `DiagIsTrue`, `ImagesAreWhole`, `NetComesUp`, `RadiosFollow` | 1 power cut, 2 faults; 2 networks; fact ring of 1, 3 disconnects, 2 lost facts, events at 2 times; 3 settings, 1 save |
| `tables` | `ConfigIsKept`, `TableIsSound`, `ChangesTakeHold`, `GateIsTrue`, `UploadIsWhole` | 3 stores, 2 tests, 1 fault; reads of up to 3 symbols, lines of 1, 2 and 3 pieces |
| `fence_factory` | `NoRebootMidWrite` is violated: the factory reset that cuts a write | 2 runs |
| `bus_sleep_cut` | `SleepSparesFlash` is violated: the teardown that cuts a flash | - |
| `link_wedge` | `PortRecovers` is violated: the reconnect that leaves the port dead | 2 connections |
| `smart_live` | `TransitionTakesSettings` is violated: settings that do not apply live | 1 save |

Liveness is in `BatteryLive` (sleep, wake), `ElmIsShared`, `ClocksAreTrue`,
`FenceUnderFaults` (reboots, event log), `LinkLive` (port, codecs, ROM read),
`DriveIsRecorded` (writer, stream), `PhoneIsServed`, `TakenComesBack` (leases,
bus), `RepairLasts`, `ChangesTakeHold` (table, gate, settings) and `NetComesUp`
(boot, manager, diagnostics, SmartConnect); the rest is safety.

A run covers several components because each keeps to itself there: nothing is
lost by checking them in one run, and each component's properties still have a
mutant of their own.

*Why the bounds are enough.*  A lease race needs two grants (the old and the
fresh one), one clock step to lapse, one of grace and one reaper pass after it.
A handshake race needs one write and one request, and a second of each to see a
leftover flag.  Stray frames need a pass with more than one PID.  A queue or
ring of one is full and empty within one command, and two connections, trips or
clients are an old and a new one.  Images cover an empty region on either side,
where the erase edges fall together.  A timer of one unit is running or lapsed,
which is all its comparison tells apart; a count that the code compares with a
limit is given room to pass it.  Two registers are enough for a carry between
them, two networks for a ban and a fallback.  Three disconnects at two times
are one told, one held back and the one that carries it, on either side of the
end of a session; the run has the sampler task, `DiagStaysTrue` covers the
device without it.

Every guard with a bound stops *requests* and *faults*, never a step that was
promised.  The runs that put components side by side do not check for deadlock,
because a component whose bounded requests are used up has really nothing left
to do; `coexist_leases`, whose tasks go on for ever, does.  That the tasks of
the others get stuck nowhere is what their liveness properties say.

*Fairness.*  All of it is of tasks, never of hosts, owners, drivers or phones.
Weak fairness is what FreeRTOS round-robin among equal priorities gives a task
that stays ready.  Strong fairness is used where the code retries and the world
is assumed to let it succeed in the end: a voltage sample that can be read
(`SleepMode`), a queue that delivers and a card that takes a file
(`CsvWriter`, `EventLog`, `DatalogStream`), a scan that finds the network
(`WifiMgr`), a pass of the clock in sleep (`CanWake`), a turn of `can_tx_task`
between others (`BleLink`).  `FlashFence` assumes that a codec ends while its
controller is on: every wait in it has a deadline except `can_receive`'s for
the enable bit.  `HostLink` assumes nothing of the host.

## 5. What is proved

All with TLAPS, for every value of the constants that the named assumptions
allow (`CoexistAssumption`, `BusAssumption`, `LinkAssumption`,
`BringUpAssumption`, `BootAssumption`, `TableAssumption`, ...: lifetimes and
sizes are natural numbers, operation sets are sets of known operations).
Proofs are in `*_proofs`, and at the end of `BringUp`.

A module's invariant is inductive only as a whole, and each proof has the same
shape: the initial states satisfy it, one step per action preserves it, and the
property follows from it.  Eight modules hold proofs; six of them also prove
things about related components, which they bring in with `INSTANCE`.

* **`Coexist_proofs`.**  `TypeCorrect`, then `Invariance`: `CoexistInv` is
  inductive only with the shape of the reaper and of the handlers in it, since
  the reaper acts on tokens it read earlier, and only "its token is the lease's
  or the lease has changed hands" carries that across the steps in between.
  From it `OneWinner`, `ClaimSafety`, `FlashSafety`; `ParkRefinement`,
  `ClaimRefinement` and both at once `LeaseSafety` (each lease implements
  `DeadManLease`).
* **`FlashFence_proofs`.**  `Invariance`: `FenceInv` is the handshake in three
  parts, for every place of the codec which flags it has seen down, for every
  place of the upload and of the reboot scheduler whether it has seen the bit.
  `UpdateSafety` (writes exclude updates) needs no hypothesis; `TimerSafety`
  (the flag covers the armed timer and falls only in a restart that finds it
  disarmed), `WriteSafety`, `ExclusiveRefinement` and the aggregate
  `FenceSafety` do.
  *Event log*: `LossesAreCounted`, by the numbers below the mark that are
  neither on the card, nor in the file's buffer, nor given up by a flush; `FilesStayInOrder`, by what the writer has in hand being the next
  number above the last line of the files; `ListingsGoForward`; together
  `LogStaysTrue`.  *Files page*: `NoFileStaysOpen`; `LogsOutliveRequests`, by
  what the stack of a deletion may still name; `FilesStaySafe`, for which the
  one path buffer is always the chain of directories from what was named down
  to where the walk is.  *Consoles*: `ConsoleStaysOne`.
* **`BusInterlock_proofs`.**  `TypeCorrect`, `Invariance`: `BusInv` gives each
  place of the poll task's pass the number of frames it may still send under an
  owner; from it `BoundedStray`, `QuietSafety`, `BusSafety`.  *Trip writer*:
  `LossIsBounded`, by the age of the oldest row and what is left of the timer
  adding up to a period; `DipsKeepTheTrip`; `TripStaysKept`.  *Live stream*:
  `GapsAddUp`, `RowsFollowTheTrip`, `StreamStaysTrue`.  What the client will
  have been told is what the ring still holds applied to what it has been told;
  `Path` states that for a queue of any length without a recursive definition
  (there are values in between, one for every place), `PathAppend` and
  `PathTail` move it along, and `PathRises` says the values in between only grow.
  *Bluetooth*: `BitFollowsTheLink`, the same over the stack's queue of events.
* **`HostLink_proofs`.**  `LinkInvariant` ties the point of no return to the
  block at which the erase may begin; `ErasingEcuKept`, `OwnerPromiseKept` (the
  port implements `PortOwner`), `LinkSafety`.  *ROM read*: `ReadIsClean`, by
  what the queue, the ECU and the buffer hold between them at every place of the
  reader; from it `RomStaysRead`.
* **`SleepMode_proofs`.**  `TypeCorrect`, `NeverHalfUp`, `FenceCoversBus`,
  `AwakeIsPublished`, `SpikesAreIgnored`, `SleepSafety`, by what is up at every
  place of a pass.  *Wake on CAN*: `WakeStaysTrue`, by an account in which wakes
  spent, cooldowns served and wakes forgotten add up across reboots.  *Update of the chip*:
  `UpdateHandsBack`, `BootsRepair`, `OneFaultIsHarmless`, `ChipStaysRepaired`.
  *UART1*: `ClientHearsItsOwn`, by one holder of the lock and, while it waits
  for its answer, nothing older than its command in the ring.
* **`BringUp`.**  `TypeCorrect`, `CrashesAreBounded`, `StableIsDisarmed`,
  `GuardsAlwaysHold`.
* **`BootImage_proofs`.**  `TypeCorrect`, `RunningIsNeverWritten`,
  `OnlyWholeIsSelected`, `ReportsAreNeverTorn`, `ImagesStayWhole`.
  *SmartConnect*: `SwitchesAreDebounced`, by what is left of a delay plus what
  the car has done of it; `RadiosFollowMode`, by reading the rest of a change of
  mode as a script that ends at home or on the road, with a role for every point
  where a call fails; `ModesStayTrue`.  *WiFi manager*: `RetriesAreFew`,
  `RetriesAlwaysFew`.  *Diagnostics*: `DiagStaysTrue`, by the running sums of
  what the waiting facts carry: a push adds one at their end, a pop takes one
  off their beginning, and drops told, on the way and held back stay the total.
* **`PidTable_proofs`.**  `TypeCorrect`, `ReloadFits`, `TripKeepsColumns`,
  `TesterIsToldItsOwn`, `TableStaysSound`.  *Poll gate*: `GateFollowsTheEcu`,
  `KeyOffIsReal`, `GateStaysTrue`.  *Configuration store*: `SecretsStayReal`, by
  following every copy a masked text can reach; `SavesAreTrue`;
  `ConfigStaysKept`.

Twenty-three of the forty properties the passing runs check are the statement of
a theorem; `theorems` lists which.

*What proving found.*  Four definitions (`SmartConnect!Pass`, `ElmLink!Heard`,
`WebUpload!SizeByte` and `Parse`) chose with a `CASE` whose guards overlap.  TLC
takes the first true arm, TLA+ leaves the choice open, and the provers refuse to
choose; they are `IF`s or have disjoint guards now, in the order of the code's
`if`s.  `ElmLink` did not mark what the chip says while no command waits for it
as left over, which made `NoLeftovers` weaker than it reads; it does.  That a
read streams the ROM turned out to need an ECU that drops its old answer for a
new request: with one that does not, the requests of three or more retries (the
code allows four) queue up in it, and its surplus answers are taken for later
blocks; with fewer retries the run had not met that, and `StreamIsTheRom` now
says so.  `LinkedTimeIsReal` had held in a run whose link events all fell at
one time; it has two now.

The components brought in with `INSTANCE` have assumptions on their constants as
hypotheses, all of them facts of the code's constants:

| hypothesis | says | in the code |
|---|---|---|
| `WakeConstants` | the limit and the cooldown are positive, the counter reaches the limit, what is believed and forgotten is counted | 3 wakes, an hour, a 32-bit count, 100 |
| `WriterConstants`, `TripConstants` | periods and sizes are natural numbers, the card is tried again after a while | `csv_logger.c`'s `#define`s |
| `GateConstants` | time-outs are natural numbers; an answer goes stale before the engine is called off | `POLLLOG_GATE_STALE_MS` is half of `POLLLOG_ENGINE_OFF_MS` |
| `LogConstants`, `LogBounds`, `LiveBounds`, `TypedConstants`, `ElmConstants` | sizes and the bounds on what happens are natural numbers | the `#define`s of the modules |
| `DiagConstants` | the fact ring holds something; throttle and threshold are natural numbers | `WD_FACT_RING_N`, `WD_EVL_REPEAT_MS` |
| `FilesConstants`, `CardConstants` | a finite tree of at most three levels, as `Under` unrolls them; root and log directory are reserved; no log has a directory's name | `/sdcard`; logs end in `.csv`; the walk refuses more than 16 levels (`SDFM_RMTREE_DEPTH`) |
| `ReadConstants` | a block has a frame, a read a block, and there are two attempts or more | `BLOCK_RETRIES` is 4 |
| `ConfigConstants` | the mask, a short password, a secret and the marks for no text differ | the mask has control characters (`\x01stored\x01`); the other names are the model's |
| `ModeConstants` | delays are natural numbers, `MinTimeout` is the least time-out | `atoi` of a positive number of seconds, or the default |
| `WifiConstants` | there is a network, a ban takes a failure, the station is on | the list has the configured network; the modes that join |
| `ObdConstants`, `ObdBounds` | the firmware has a line, a command an attempt | the embedded file |

Beyond the constants there are three hypotheses, and each is a hazard rather than
a convenience: without it the claim is false in the code.

| hypothesis | says | what shows that it is needed |
|---|---|---|
| `NoFaults` | no factory reset, no failing restart timer | run `fence_factory`; a failing second timer lowers the flag of the first |
| `TimerStarts` | no failing restart timer | the same |
| `OwnersOnly` | SLCAN commands and sleep do not switch the controller | an SLCAN open, or a resume, switches it on under a quiesced poll task |

*Only model-checked.*  Every liveness property, being out of the prover's reach,
and with it the aggregates that contain one.  `ModeIsKept` is about an owner who
waits and a host in time (the run gives it no other): the cases beyond are claims
the code does not keep.  What a recursive definition
computes (`ExprEval`, `SlcanLine`'s lines) or folds (`WebUpload`'s framing, the
columns of `LogColumns`, the order of a phone's bytes in `BleLink`) would need
induction over data, and `RtcClock` counts with powers, which the provers do
not know.  Of `ElmLink` the type of the driver's ring is left to TLC.
`BusyFlashKeepsLeases` is `FlashSafety`'s formula for the second instance of
`Coexist` in its run, and `FenceUnderFaults` contains `UpdateSafety`'s.

## 6. Where code and comments part

Four runs find a comment's claim violated (`findings`): the factory reset that
restarts three seconds after its check, the sleep teardown that asks about a
flash once, the port that a prompt host leaves neither open nor closed, and the
networks SmartConnect reads once although the settings page answers "applied".

More claims the code does not keep stand at the end of the modules, each with
its comment.  No run checks them: to see a trace, put the claim, and the named
operations where there is a set, into a copy of a run's configuration.

| module | claim | what happens |
|---|---|---|
| `Coexist` | `ModeSurvivesSession` | a re-pause samples the park flag before the reaper lowers it and saves the forced-off mode |
| | `ParkedMeansForcedOff` | the web page's start does not look at the lease |
| | `RestoreEndsALease` | a resume without a token succeeds with nothing parked and restores a stale mode |
| | `ParkReapNeedsFreeBus` | a claim arrives between the snapshot and the park's reap |
| | `QuietMeansQuiet` | a diagnostic stamp newer than the sampled clock wraps |
| | `RearmOnlyFromOff` | a start between the rearm's read and write is undone |
| `FlashFence` | `NoRebootMidWrite` | a second request's failing timer lowers the flag of the first |
| | `FlashIsFinite` | a read drains a controller that an upload switched off |
| | `ImageStable` | a write starts between the upload's second check and the swap |
| `BusInterlock` | `FlashUndisturbed` | a pass that has asked sends its sweep |
| | `SoleConsumer` | both readers go on after the session changed |
| | `UploadKeepsBusOff` | the heal read the update flag before it rose |
| | `AsleepIsOff` | a pass outlasts the 300 ms the teardown waits |
| `SleepMode` | `CeilingCutsOnlyOld` | a second flash inherits the age of the first one's refusals |
| | `ChargingWakesAnyone` | the boot-loop guard puts a device to sleep that never wakes |
| `ElmLink` | `UnreachedIsTrue`, `DozeUndisturbed` | one nudge that reached is forgotten; a command waits for the lock across the doze |
| `ObdUpdate` | `SuccessIsWhole`, `UpToDateIsKept` | answers one command behind hide a dropped line; a late version erases a good chip |
| `RtcClock` | `PostedTakesHold`, `RestoredIsTheChips` | the hourly task writes between the registers; a carry falls between two reads |
| `CsvWriter` | `MarkInItsTrip`, `NoTripAsleep` | a trip ends between the handler's look and its mark; the sleep waits a bounded time |
| `CanWake` | `EveryWakeIsScored`, `RebootKeepsCooldown` | a reboot other than the fallback drops the open window (can_wake.c:74 says "exactly once per wake"); one after more than 100 fruitless wakes drops the streak and its cooldown |
| `EventLog` | `FilesInOrderAlways`, `LossIsCountedAlways` | lines before a failed write are written again; flush, sync and close are not looked at, and the mark passes what they lost |
| `PollGate` | `StopIsDebounced` | an engine whose RPM is broadcast by an ECU that does not answer is called started by each probe and stopped by each quiesce |
| `PidTable` | `NeverTorn`, `ColumnsAreLive` | a reload put off by a trip reads a file cut since; a swap while a trip opens |
| `ConfigStore` | `SecretsKept`, `DebugKeepsSettings`, `DebugSurvivesSave` | a mask is replaced by the value in use, not the stored one; power between remove and rename |
| `WebUpload` | `HalfNeverComplete`, `FailedLeavesBoot`, `CompleteIsCommitted`, `UnnamedIsTheFile`, `UnnamedLands` | a failed close; a loss after the last boundary; "complete" without one; a boundary's line in two reads: chunks dropped, the image committed all the same |
| `SdFiles` | `OpenLogStays`, `ImageStays`, `FailedDeleteIsNone` | the log is open before its session is declared; the fence is asked once |
| `Console` | `AnsweredAtHome`, `RunsWhatWasTyped`, `SerialComesBack` | two commands that overlap share a line and a pointer |
| `BootImage` | `SettingsOutlastFailure`, `FailedUploadLeavesBoot`, `HeldUpdatesOnce` | settings are deleted before the image is looked at; a button still held |
| `WifiMgr` | `QuickSparesJoins` | a disconnect during the scan reads as news of the new attempt |
| `WifiDiag` | `LossCoversAll`, `AssociatedIsSeen`, `DominantIsNamed` | a lost fact carries a count; a link between two samples; a full tally |
| `SmartConnect` | `StaysDownAsleep` | a change of mode under way brings the radios up after the teardown |
| `BleLink` | `WideNoGaps`, `NoGapsAlways`, `OnlyItsOwn`, `FlowsWhenClear`, `ServedAfterDisable` | a length modulo 256; the console's answer takes a packet `ble_task` has counted; leftovers of the last phone; a congestion that outlives its link |
| `FastRead` | `StreamIsAlwaysTheRom`, `LossIsSurvived` | a late answer is taken for the retry's; an ECU that answers every request answers the retries' into later blocks |
| `SlcanLine` | `FramesAfterSilence`, `ModeIsAsAsked`, `EmptyFramesAreSent`, `ReadsAreWhole` | the frame parser keeps its place; an open bus refuses a mode silently; a data frame without data takes the lines after it for its data; a read of 256 bytes or more loses all but its length modulo 256 |
| `LogColumns` | `NoPhantoms`, `NoneUnmatched`, `OneColumnEachAlways`, `HeadersDiffer`, `FiltersLoad` | standard rows without an expression; a profile nobody lists; cut names; names that differ in a comma alone |
| `ExprEval` | `RejectsTheRest`, `BracketsMatch` | an open bracket at the end evaluates to 0 |

Three more differences stand in no claim.  wifi_mgr.c:1713 says that a drop gets
one quick try because the driver takes seconds to report a failure; the model has
no such time, and `RetriesStayFew` bounds the tries by the two the test itself
allows.  csv_logger.c:853 and 930 look at the result of neither flush nor sync,
so that rows a failing card has not taken count as flushed; `CsvWriter`'s card
fails in its writes only, and its bound on what a power cut takes is for a card
whose flushes work.  A push past the hundred places of either stack of
`expression_parser.c` is dropped silently; no formula of the run is as deep.

Three more are visible in `HostLink` and no property: lines queued for a client
that has gone reach the next one; a command received between `accept` and the
generation's increment is dropped although its socket is live; and with both
regions of an image empty the transfer's end is awaited with the heartbeat armed
before the point of no return, which no erase can follow.

## 7. Not modelled

* **No state that anything waits on:** the trip listing and download pages, the
  first-boot copy of the factory PID list, LEDs, motion sensor, USB, the web
  pages, the restart tracker's record of why.
* **No caller in this build:** the fast logger, the stock TCP server and its
  console, AutoPID's own polling task and its ELM parsers, the emulated AT
  commands, the stock data path of Bluetooth.
* **Data:** frame formats, PID decoding, floating-point values, statistics,
  JSON, dates.  The standard PID table is a table.
* **Left to hazards with a note:** a driver uninstalled under a call in
  progress, a forced sleep during an update, a failed resume's reboot during a
  flash, and the others `hazards` lists without a property.

## 8. What is left

The safety properties that only TLC checks are those of `RtcClock`,
`LogColumns`, `SlcanLine`, `ExprEval` and `WebUpload`, and of `BleLink` the
order of bytes, for the reasons section 5 gives.  A prover with the induction
theorems would start with `LogColumns`, whose lists need one induction each.

The hazards without a property each name their reason; the ones worth a model of
their own are the CSV rearm against the pause, and the driver uninstalled under
a call.
