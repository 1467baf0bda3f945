------------------------------ MODULE Reconnect ------------------------------
(***************************************************************************)
(* How a device that lost its session is found again: the onDisconnect     *)
(* closure of HandleNewConnection, ReconnectWithBackoff, the paired branch *)
(* of onDeviceFound, and Device's TryReconnect, ReconnectDone and          *)
(* ReconnectWake (internal/daemon, internal/device).                       *)
(*                                                                         *)
(* The closure runs on the goroutine that ended the session, after the     *)
(* plugins were told (an unmount may take seconds), the loop and the       *)
(* sightings run on goroutines of their own; a step is one atomic read or  *)
(* write of the device.  Abstracted: addresses and ports, and the length   *)
(* of every wait; a session is only there or not, since a session replaced *)
(* by another never runs the closure (module Session).                     *)
(***************************************************************************)
EXTENDS Integers

CONSTANTS
    Enders,        \* goroutines that end sessions
    MaxLoops,      \* room for goroutines of ReconnectWithBackoff
    SightingDriven \* [reconnect].sighting_driven

ASSUME ReconnectAssumption ==
    /\ MaxLoops \in Nat \ {0, 1}
    /\ SightingDriven \in BOOLEAN

Loops == 1..MaxLoops

VARIABLES
    state,        \* Device.state; both pending states are "Pending"
    connected,    \* Device.conn is set
    recording,    \* a Connect has not recorded the peer's address yet
    known,        \* Device.lastIP is set
    stale,        \* longer than stale_after since Device.lastSeen
    reconnecting, \* Device.reconnecting
    wake,         \* the tokens in Device.reconnectWake
    ender,        \* per goroutine: progress of the onDisconnect closure
    sighting,     \* progress of the sighting being handled
    loop,         \* per goroutine: where ReconnectWithBackoff is
    triggered,    \* per loop: the last wait was cut short by a token
    dialled       \* per loop: it has dialled before

reconnectVars ==
    <<state, connected, recording, known, stale, reconnecting, wake,
      ender, sighting, loop, triggered, dialled>>

device   == <<state, connected, recording, known>>
progress == <<loop, triggered, dialled>>

LoopPlaces == {"none", "state", "conn", "seen", "waiting", "reconn", "restate",
               "pace", "dial", "dialled", "leaving"}

Live == {l \in Loops : loop[l] # "none"}

(* The goroutine a new loop gets.                                          *)
Spare == {l \in Loops \ Live : \A k \in Loops \ Live : l <= k}

ReconnectInit ==
    /\ state \in {"Unpaired", "Paired"}
    /\ connected = FALSE
    /\ recording = FALSE
    /\ known \in BOOLEAN
    /\ stale \in BOOLEAN
    /\ reconnecting = FALSE
    /\ wake = 0
    /\ ender = [e \in Enders |-> "idle"]
    /\ sighting = "idle"
    /\ loop = [l \in Loops |-> "none"]
    /\ triggered = [l \in Loops |-> FALSE]
    /\ dialled = [l \in Loops |-> FALSE]

-----------------------------------------------------------------------------
(* The device: sessions and pairing.                                       *)

(* A handshake completes: the peer connected, or a dial on its behalf.     *)
Establish ==
    /\ connected' = TRUE
    /\ recording' = TRUE
    /\ UNCHANGED <<state, known>>

Inbound ==
    /\ Establish
    /\ UNCHANGED <<stale, reconnecting, wake, ender, sighting, progress>>

RecordAddress ==
    /\ recording
    /\ recording' = FALSE
    /\ known' = TRUE
    /\ UNCHANGED <<state, connected, stale, reconnecting, wake, ender,
                   sighting, progress>>

Lose(e) ==
    /\ connected
    /\ ender[e] = "idle"
    /\ connected' = FALSE
    /\ stale' = FALSE
    /\ ender' = [ender EXCEPT ![e] = "check"]
    /\ UNCHANGED <<state, recording, known, reconnecting, wake, sighting,
                   progress>>

(* stale_after passes without a sign of the peer.                          *)
Silence ==
    /\ ~connected
    /\ stale' = TRUE
    /\ UNCHANGED <<device, reconnecting, wake, ender, sighting, progress>>

(* The channel holds one token: a burst of pokes leaves one.               *)
PokeReconnect == wake' = 1

(* SetState and TransitionState: a request starts, completes, or the       *)
(* device is unpaired, which wakes a parked loop.                          *)
StartPairing ==
    /\ connected
    /\ state' = "Pending"
    /\ UNCHANGED <<connected, recording, known, stale, reconnecting, wake,
                   ender, sighting, progress>>

CompletePairing ==
    /\ state = "Pending"
    /\ state' = "Paired"
    /\ UNCHANGED <<connected, recording, known, stale, reconnecting, wake,
                   ender, sighting, progress>>

Unpair_Silent ==
    /\ state' = "Unpaired"
    /\ UNCHANGED <<connected, recording, known, stale, reconnecting, wake,
                   ender, sighting, progress>>

Unpair ==
    /\ state' = "Unpaired"
    /\ PokeReconnect
    /\ UNCHANGED <<connected, recording, known, stale, reconnecting, ender,
                   sighting, progress>>

-----------------------------------------------------------------------------
(* TryReconnect: a compare-and-swap; the winner starts a loop.             *)
TryReconnect_Blind ==
    /\ reconnecting' = TRUE
    /\ \E l \in Spare : loop' = [loop EXCEPT ![l] = "state"]
    /\ UNCHANGED <<triggered, dialled>>

TryReconnect ==
    \/ /\ reconnecting
       /\ UNCHANGED <<reconnecting, progress>>
    \/ /\ ~reconnecting
       /\ reconnecting' = TRUE
       /\ \E l \in Spare : loop' = [loop EXCEPT ![l] = "state"]
       /\ UNCHANGED <<triggered, dialled>>

(* onDisconnect: only a paired device with a known address is redialled.   *)
OnDisconnect(e) ==
    /\ ender[e] = "check"
    /\ ender' = [ender EXCEPT ![e] =
                    IF state = "Paired" /\ known THEN "claim" ELSE "idle"]
    /\ UNCHANGED <<device, stale, reconnecting, wake, sighting, progress>>

ClaimReconnect(e) ==
    /\ ender[e] = "claim"
    /\ ender' = [ender EXCEPT ![e] = "idle"]
    /\ TryReconnect
    /\ UNCHANGED <<device, stale, wake, sighting>>

-----------------------------------------------------------------------------
(* onDeviceFound for a paired device: the peer announced itself.  (The     *)
(* dial it may make to a new address is a session of Inbound.)             *)

Sight ==
    /\ sighting = "idle"
    /\ state = "Paired"
    /\ stale' = FALSE
    /\ sighting' = IF SightingDriven THEN "poke" ELSE "idle"
    /\ UNCHANGED <<device, reconnecting, wake, ender, progress>>

SightPoke ==
    /\ sighting = "poke"
    /\ PokeReconnect
    /\ sighting' = "conn"
    /\ UNCHANGED <<device, stale, reconnecting, ender, progress>>

SightConnected_WakesOnly ==
    /\ sighting = "conn"
    /\ sighting' = "idle"
    /\ UNCHANGED <<device, stale, reconnecting, wake, ender, progress>>

SightConnected ==
    /\ sighting = "conn"
    /\ sighting' = IF connected THEN "idle" ELSE "claim"
    /\ UNCHANGED <<device, stale, reconnecting, wake, ender, progress>>

SightClaim ==
    /\ sighting = "claim"
    /\ sighting' = "idle"
    /\ TryReconnect
    /\ UNCHANGED <<device, stale, wake, ender>>

-----------------------------------------------------------------------------
(* ReconnectWithBackoff.                                                   *)

Go(l, place) == loop' = [loop EXCEPT ![l] = place]

(* The loop goes on only for a paired device without a session that was    *)
(* seen not too long ago.                                                  *)
Check(l) ==
    /\ \/ loop[l] = "state" /\ Go(l, IF state = "Paired" THEN "conn" ELSE "leaving")
       \/ loop[l] = "conn"  /\ Go(l, IF connected THEN "leaving" ELSE "seen")
       \/ loop[l] = "seen"  /\ Go(l, IF SightingDriven /\ stale
                                     THEN "leaving" ELSE "waiting")
    /\ UNCHANGED <<device, stale, reconnecting, wake, ender, sighting,
                   triggered, dialled>>

(* The wait ends by a token or by the backoff timer.                       *)
Woken(l) ==
    /\ loop[l] = "waiting"
    /\ wake = 1
    /\ wake' = 0
    /\ Go(l, "reconn")
    /\ triggered' = [triggered EXCEPT ![l] = TRUE]
    /\ UNCHANGED <<device, stale, reconnecting, ender, sighting, dialled>>

Timeout(l) ==
    /\ loop[l] = "waiting"
    /\ Go(l, "reconn")
    /\ triggered' = [triggered EXCEPT ![l] = FALSE]
    /\ UNCHANGED <<device, stale, reconnecting, wake, ender, sighting,
                   dialled>>

Recheck(l) ==
    /\ \/ loop[l] = "reconn"  /\ Go(l, IF connected THEN "leaving" ELSE "restate")
       \/ loop[l] = "restate" /\ Go(l, IF state = "Paired" THEN "pace" ELSE "leaving")
    /\ UNCHANGED <<device, stale, reconnecting, wake, ender, sighting,
                   triggered, dialled>>

(* A token within reconnectTriggerMinGap of the last dial is not worth     *)
(* another one.                                                            *)
SkipDial(l) ==
    /\ loop[l] = "pace"
    /\ triggered[l] /\ dialled[l]
    /\ Go(l, "state")
    /\ UNCHANGED <<device, stale, reconnecting, wake, ender, sighting,
                   triggered, dialled>>

StartDial(l) ==
    /\ loop[l] = "pace"
    /\ Go(l, "dial")
    /\ UNCHANGED <<device, stale, reconnecting, wake, ender, sighting,
                   triggered, dialled>>

DialSucceeds(l) ==
    /\ loop[l] = "dial"
    /\ Establish
    /\ Go(l, "dialled")
    /\ dialled' = [dialled EXCEPT ![l] = TRUE]
    /\ UNCHANGED <<stale, reconnecting, wake, ender, sighting, triggered>>

DialFails(l) ==
    /\ loop[l] = "dial"
    /\ Go(l, "dialled")
    /\ dialled' = [dialled EXCEPT ![l] = TRUE]
    /\ UNCHANGED <<device, stale, reconnecting, wake, ender, sighting,
                   triggered>>

AfterDial(l) ==
    /\ loop[l] = "dialled"
    /\ Go(l, IF connected THEN "leaving" ELSE "state")
    /\ UNCHANGED <<device, stale, reconnecting, wake, ender, sighting,
                   triggered, dialled>>

(* The deferred ReconnectDone: whatever happened since the loop decided to *)
(* stop, it is no longer looked at.                                        *)
ReconnectDone(l) ==
    /\ loop[l] = "leaving"
    /\ Go(l, "none")
    /\ reconnecting' = FALSE
    /\ triggered' = [triggered EXCEPT ![l] = FALSE]
    /\ dialled' = [dialled EXCEPT ![l] = FALSE]
    /\ UNCHANGED <<device, stale, wake, ender, sighting>>

-----------------------------------------------------------------------------
EnderStep(e)  == OnDisconnect(e) \/ ClaimReconnect(e)
SightingStep  == SightPoke \/ SightConnected \/ SightClaim
LoopStep(l)   == \/ Check(l) \/ Woken(l) \/ Recheck(l) \/ SkipDial(l)
                 \/ StartDial(l) \/ DialSucceeds(l) \/ DialFails(l)
                 \/ AfterDial(l) \/ ReconnectDone(l)

ReconnectNext ==
    \/ Inbound \/ RecordAddress \/ Silence
    \/ StartPairing \/ CompletePairing \/ Unpair
    \/ \E e \in Enders : Lose(e) \/ EnderStep(e)
    \/ Sight \/ SightingStep
    \/ \E l \in Loops : LoopStep(l) \/ Timeout(l)

ReconnectSpec == ReconnectInit /\ [][ReconnectNext]_reconnectVars

(* Goroutines keep running.  The backoff timer is given no fairness: with  *)
(* sighting_driven it may be an hour away, and what must happen has to     *)
(* happen without it.                                                      *)
Scheduling ==
    /\ \A e \in Enders : WF_reconnectVars(EnderStep(e))
    /\ WF_reconnectVars(SightingStep)
    /\ \A l \in Loops : WF_reconnectVars(LoopStep(l))

(* The surroundings in which a device is found again: it keeps announcing  *)
(* itself, the pause after a dial ends, and not every dial fails.          *)
Reachable ==
    /\ WF_reconnectVars(Sight)
    /\ SF_reconnectVars(\E l \in Loops : StartDial(l))
    /\ SF_reconnectVars(\E l \in Loops : DialSucceeds(l))

FairReconnectSpec == ReconnectSpec /\ Scheduling /\ Reachable
-----------------------------------------------------------------------------
(* Every variable has the values the code can give it.                     *)
ReconnectTypeOK ==
    /\ state \in {"Unpaired", "Pending", "Paired"}
    /\ connected \in BOOLEAN
    /\ recording \in BOOLEAN
    /\ known \in BOOLEAN
    /\ stale \in BOOLEAN
    /\ reconnecting \in BOOLEAN
    /\ wake \in 0..1
    /\ ender \in [Enders -> {"idle", "check", "claim"}]
    /\ sighting \in {"idle", "poke", "conn", "claim"}
    /\ loop \in [Loops -> LoopPlaces]
    /\ triggered \in [Loops -> BOOLEAN]
    /\ dialled \in [Loops -> BOOLEAN]

(* Sessions that end and sightings race to restart the dialling, yet at    *)
(* most one loop runs for the device, and the mark is never left behind by *)
(* a loop that is gone (TryReconnect, ReconnectDone).                      *)
OneLoop ==
    /\ \A k, l \in Live : k = l
    /\ reconnecting <=> Live # {}

(* Unpairing ends the dialling without waiting for the backoff timer: the  *)
(* token of PokeReconnect is not lost wherever the loop is when it is put. *)
UnpairStopsLoop ==
    state = "Unpaired" ~> (state # "Unpaired" \/ Live = {})

(* A paired device that is lost is found again, whatever race made a loop  *)
(* miss its respawn, as long as it announces itself more often than        *)
(* stale_after.                                                            *)
FoundAgain ==
    <>[]~stale =>
        (state = "Paired" /\ ~connected ~> (connected \/ state # "Paired"))
=============================================================================
