------------------------------- MODULE MCBus --------------------------------
(*****************************************************************************)
(* The bus and what becomes of its answers: the poll task among the owners   *)
(* of the bus, the trip logger's writer, the live stream of its rows, and    *)
(* the Bluetooth link.  Each behaviour is one component's; the instances of  *)
(* the writer, the stream and the link are those the theorems of             *)
(* BusInterlock_proofs are about.                                            *)
(*****************************************************************************)
EXTENDS BusInterlock_proofs

\* Every party but the two that switch the controller on themselves.
OwnerOps == {"flash", "park", "claim", "upload", "test", "forward"}

\* For the claim of the sleep check.
SleepFlashOps == {"sleep", "flash"}

VARIABLE part   \* the component this behaviour is about

csvVars ==
    <<wpc, got, active, require, ignOn, offPending, offTimer, sinceOn, open,
      rows, pending, flushTimer, backoff, dirty, mode, sleepReq, mark, hpc,
      spc, csv_waited, parked, key, ecu>>
streamVars ==
    <<liveGen, ring, shown, served, syncPending, syncFresh, drops, counted,
      trips, clients, known, next>>
bleVars ==
    <<enabled, setting, adv, link, mtu, events, bit, congested, jam, up, size,
      rx, busy, tx, ble_pc, room, ble_held, free, heard, first, crowded, said,
      links, typed, enables, cut>>

\* The other components stand still; where one may start from several states,
\* it stands in one of them.
AllInit ==
    /\ part \in {"owners", "csv", "stream", "ble"}
    /\ Init
    /\ part = "csv" \/ require = FALSE
    /\ Csv!Init
    /\ Live!Init
    /\ Ble!Init

\* Steps of one component.
OnOwners == part = "owners" /\ UNCHANGED <<part, csvVars, streamVars, bleVars>>
OnCsv == part = "csv" /\ UNCHANGED <<part, vars, streamVars, bleVars>>
OnStream == part = "stream" /\ UNCHANGED <<part, vars, csvVars, bleVars>>
OnBle == part = "ble" /\ UNCHANGED <<part, vars, csvVars, streamVars>>

AllNext ==
    \/ OnOwners /\ Next
    \/ OnCsv /\ Csv!Next
    \/ OnStream /\ Live!Next
    \/ OnBle /\ Ble!Next

all == <<part, vars, csvVars, streamVars, bleVars>>

AllSpec == AllInit /\ [][AllNext]_all

\* Each component's own fairness, of its steps while it is the one that runs.
csvFair ==
    /\ SF_csvVars(part = "csv" /\ Csv!Receive /\ got')
    /\ SF_csvVars(part = "csv" /\ Csv!OpenTrip)
    /\ WF_csvVars(part = "csv" /\ Csv!Writer)
    /\ WF_csvVars(part = "csv" /\ Csv!MarkSet)
    /\ WF_csvVars(part = "csv" /\ Csv!SleepLooks)
    /\ WF_csvVars(part = "csv" /\ Csv!Wake)

streamFair ==
    /\ WF_streamVars(part = "stream" /\ Live!HookPoll)
    /\ WF_streamVars(part = "stream" /\ Live!Deliver)
    /\ WF_streamVars(part = "stream" /\ Live!Discard)
    /\ SF_streamVars(part = "stream" /\ Live!HookPoll /\ ~syncPending')

bleFair ==
    /\ WF_bleVars(part = "ble" /\ Ble!BleTask)
    /\ WF_bleVars(part = "ble" /\ Ble!Confirms)
    /\ WF_bleVars(part = "ble" /\ Ble!Handle)
    /\ SF_bleVars(part = "ble" /\ Ble!CanTx)
    /\ WF_bleVars(part = "ble" /\ busy /\ Ble!CodecRuns)


-----------------------------------------------------------------------------
(* The components' properties; liveness under each component's own fairness. *)

\* A stop holds no longer than the drive it was given in, and a drive is
\* recorded; a client of the stream hears where it stands. (CsvWriter,
\* DatalogStream.)
DriveIsRecorded ==
    /\ part = "csv" /\ csvFair => Csv!StopNeverLatches /\ Csv!TripRecorded
    /\ part = "stream" /\ streamFair => Live!ClientHearsState

\* The connected bit is the link, what the phone gets has no gap but for lines
\* the console crowded out, the web is up again when the phone has gone, and
\* then the device can be found; lines flow to a phone that keeps up. (BleLink.)
PhoneIsServed ==
    /\ []Ble!TypeOK /\ []Ble!BitIsTheLink /\ []Ble!NoGaps
    /\ part = "ble" /\ bleFair =>
          /\ Ble!ServedAgain
          /\ Ble!FoundAgain
          /\ Ble!LinesFlow
=============================================================================
