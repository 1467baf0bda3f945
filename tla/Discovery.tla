------------------------------ MODULE Discovery ------------------------------
(***************************************************************************)
(* How a stranger becomes a connected device: sightings                    *)
(* (internal/daemon/transport.go, onDeviceFound), dials                    *)
(* (transport_dial.go) and inbound connections.                            *)
(*                                                                         *)
(* One device that is not known at first.  Two goroutines handle its       *)
(* announcements, the UDP listener and the mDNS browser.  A dial is a      *)
(* goroutine of its own, which brings a connection at some later time or   *)
(* fails; as the device may also dial us at any time, only that it began   *)
(* is kept.  Other strangers show in the rate limit only.                  *)
(* The registry's entry for the device is an object: whoever did not find  *)
(* one adds one, which replaces what was added meanwhile, and a goroutine  *)
(* goes on with the object it has.  An object that is not the entry takes  *)
(* part no more but for the marker that its holder looks at.               *)
(* What follows a sighting of a paired device is in Reconnect, whether a   *)
(* broadcast runs in Broadcast, the steps of pairing and the intent of a   *)
(* pair command are in Pairing: here a pairing change is one step with the *)
(* marker it clears, and an intent may be there or not.  Abstracted:       *)
(* addresses, ports, identities, the limit per address, which only turns   *)
(* more dials away, and the cooldown: as it ends at any time, a connection *)
(* it may refuse is one that may not come about.                           *)
(***************************************************************************)
EXTENDS Integers

CONSTANT
    Entries \* the objects that the registry may hold for the device

Unknown == "unknown" \* the registry has none; a goroutine holds none

ASSUME DiscoveryAssumption == Unknown \notin Entries

Sighters == {"udp", "mdns"}

VARIABLES
    entry,      \* the registry's object for the device
    trust,      \* of the entry: Device.state
    linked,     \* of the entry: Device.IsConnected
    marked,     \* objects with Device.ephemeralDialed
    throttled,  \* an ephemeral dial was allowed less than a second ago
    spot,       \* per sighter: where it is in onDeviceFound
    dev,        \* per sighter: the object it goes on with
    pairMode,   \* sighters that found the broadcast running
    joining,    \* a handshake did not find the device (bound: one)
    ephemerals, \* ephemeral dials begun in this unpaired era (counted to 2)
    parted      \* the marker and the dials of this era have parted (history)

peer    == <<entry, trust, linked>>
sighter == <<spot, dev, pairMode>>
era     == <<ephemerals, parted>>

discoveryVars == <<peer, marked, throttled, sighter, joining, era>>

DiscoveryInit ==
    /\ entry = Unknown /\ trust = "Unpaired" /\ linked = FALSE
    /\ marked = {} /\ throttled = FALSE
    /\ spot = [s \in Sighters |-> "idle"]
    /\ dev = [s \in Sighters |-> Unknown]
    /\ pairMode = {} /\ joining = FALSE
    /\ ephemerals = 0 /\ parted = FALSE

GoTo(s, place) == spot' = [spot EXCEPT ![s] = place]

(* The announcement is done with.                                          *)
Handled(s) == GoTo(s, "idle") /\ dev' = [dev EXCEPT ![s] = Unknown]

Held == {dev[s] : s \in Sighters}

(* The marker of an object that is not the entry and that no sighter has   *)
(* is gone.                                                                *)
EntryLost == marked' = marked \cap Held /\ trust' = "Unpaired"

(* Registry.Add of a new object, without a look at what is there.          *)
AddEntry(object) ==
    /\ object \in Entries \ ({entry} \cup Held)
    /\ entry' = object
    /\ EntryLost
    /\ parted' = (parted \/ entry # Unknown)
    /\ UNCHANGED ephemerals

(* A sighter that is on its way to the limit with a look at the marker of  *)
(* an earlier era, or of an object that is not the entry.                  *)
Crossing ==
    \E s \in Sighters :
        \/ spot[s] = "allow"
        \/ spot[s] \in {"intent", "marker", "mark"} /\ dev[s] # entry'

(* The device is a stranger anew.                                          *)
NewEra ==
    /\ ephemerals' = 0
    /\ parted' = Crossing

-----------------------------------------------------------------------------
(* A sighting.                                                             *)

(* The announcement arrives; whether a broadcast runs is read.             *)
Hear(s) ==
    /\ spot[s] = "idle"
    /\ GoTo(s, "look")
    /\ pairMode' = pairMode \/ pairMode' = pairMode \cup {s}
    /\ UNCHANGED <<peer, marked, throttled, dev, joining, era>>

(* A link of an unpaired device that existed only for the exchange of      *)
(* identities; it is not closed when an intent holds it.                   *)
shouldEphemeralClose(s) ==
    s \notin pairMode /\ entry \in marked /\ trust = "Unpaired"

(* Registry.Get: a connected device is closed or left alone, a paired one  *)
(* is handled elsewhere, the address of any other is noted.                *)
LookAt(s) ==
    /\ spot[s] = "look"
    /\ IF entry = Unknown THEN GoTo(s, "absent") /\ UNCHANGED <<dev, pairMode>>
       ELSE IF linked \/ trust = "Paired"
            THEN /\ \/ /\ linked /\ shouldEphemeralClose(s)
                       /\ GoTo(s, "close") /\ dev' = [dev EXCEPT ![s] = entry]
                    \/ Handled(s)
                 /\ pairMode' = pairMode \ {s}
       ELSE /\ GoTo(s, "intent")
            /\ dev' = [dev EXCEPT ![s] = entry]
            /\ UNCHANGED pairMode
    /\ UNCHANGED <<peer, marked, throttled, joining, era>>

(* A new object for a device that was not found.                           *)
AddStranger(s) ==
    /\ spot[s] = "absent"
    /\ GoTo(s, "intent")
    /\ \E object \in Entries :
          AddEntry(object) /\ dev' = [dev EXCEPT ![s] = object]
    /\ linked' = FALSE
    /\ UNCHANGED <<throttled, pairMode, joining>>

(* Disconnect, whatever has become of the device since it was looked at.   *)
Close(s) ==
    /\ spot[s] = "close"
    /\ Handled(s)
    /\ linked' = (linked /\ dev[s] # entry)
    /\ UNCHANGED <<entry, trust, marked, throttled, pairMode, joining, era>>

(* While a broadcast runs, or for an intent that is used up by it, the     *)
(* device is dialled without regard to limit and cooldown.                 *)
ConsumePairDial(s) ==
    /\ spot[s] = "intent"
    /\ \/ Handled(s)
       \/ s \notin pairMode /\ GoTo(s, "marker") /\ UNCHANGED dev
    /\ pairMode' = pairMode \ {s}
    /\ UNCHANGED <<peer, marked, throttled, joining, era>>

EphemeralDialed_Ignored(s) ==
    /\ spot[s] = "marker"
    /\ GoTo(s, "mark")
    /\ UNCHANGED <<peer, marked, throttled, dev, pairMode, joining, era>>

EphemeralDialed(s) ==
    /\ spot[s] = "marker"
    /\ IF dev[s] \in marked THEN Handled(s) ELSE GoTo(s, "mark") /\ UNCHANGED dev
    /\ UNCHANGED <<peer, marked, throttled, pairMode, joining, era>>

MarkEphemeralDialed(s) ==
    /\ spot[s] = "mark"
    /\ GoTo(s, "allow")
    /\ marked' = marked \cup {dev[s]}
    /\ UNCHANGED <<peer, throttled, dev, pairMode, joining, era>>

(* The limit on dials to strangers; every dial it lets through counts.     *)
AllowEphemeralDial(s) ==
    /\ spot[s] = "allow"
    /\ Handled(s)
    /\ IF throttled THEN UNCHANGED <<throttled, ephemerals>>
       ELSE /\ throttled' = TRUE
            /\ ephemerals' = IF ephemerals = 2 THEN 2 ELSE ephemerals + 1
    /\ UNCHANGED <<peer, marked, pairMode, joining, parted>>

(* Another stranger is dialled.                                            *)
OtherStranger ==
    /\ ~throttled
    /\ throttled' = TRUE
    /\ UNCHANGED <<peer, marked, sighter, joining, era>>

(* A second passes; it may do so while a sighter is on its way from the    *)
(* look at the marker to the limit, and another has dialled meanwhile.     *)
Second ==
    /\ throttled
    /\ throttled' = FALSE
    /\ parted' = \/ parted
                 \/ ephemerals > 0 /\ \E s \in Sighters : spot[s] \in {"mark", "allow"}
    /\ UNCHANGED <<peer, marked, sighter, joining, ephemerals>>

-----------------------------------------------------------------------------
(* Connections.                                                            *)

(* HandleNewConnection: the device is connected, if the registry knows it; *)
(* else it is going to be added.                                           *)
Link ==
    /\ IF entry = Unknown THEN joining' = TRUE /\ UNCHANGED linked
                          ELSE linked' = TRUE /\ UNCHANGED joining
    /\ UNCHANGED <<entry, trust>>

(* A new object for a device that the handshake did not find, which is     *)
(* then connected.                                                         *)
Join ==
    /\ joining
    /\ joining' = FALSE
    /\ \E object \in Entries : AddEntry(object)
    /\ linked' = TRUE
    /\ UNCHANGED <<throttled, sighter>>

(* A dial reaches the device, or the device dials us, its identity passes  *)
(* the checks, and neither is stopped by the cooldown.                     *)
Connection ==
    /\ Link
    /\ UNCHANGED <<marked, throttled, sighter, era>>

LinkLost ==
    /\ linked
    /\ linked' = FALSE
    /\ UNCHANGED <<entry, trust, marked, throttled, sighter, joining, era>>

(* Prune, before a save: a device that is neither paired nor connected and *)
(* was not seen for long.                                                  *)
PruneEntry ==
    /\ entry # Unknown /\ trust # "Paired" /\ ~linked
    /\ entry' = Unknown
    /\ EntryLost
    /\ NewEra
    /\ UNCHANGED <<linked, throttled, sighter, joining>>

-----------------------------------------------------------------------------
(* Pairing, which needs a connection to begin and to be completed.         *)

SetTrust(to) == trust' = to /\ UNCHANGED <<entry, linked>>

PairingBegins ==
    /\ linked /\ trust = "Unpaired"
    /\ SetTrust("Pending")
    /\ UNCHANGED <<marked, throttled, sighter, joining, era>>

PairingCompletes ==
    /\ trust = "Pending"
    /\ SetTrust("Paired")
    /\ UNCHANGED <<marked, throttled, sighter, joining, era>>

(* A request is declined or expires, a pairing ends, or the user unpairs a *)
(* device that is unpaired: ClearEphemeral begins another unpaired era.    *)
PairingEnds ==
    /\ entry # Unknown
    /\ SetTrust("Unpaired")
    /\ marked' = marked \ {entry}
    /\ NewEra
    /\ UNCHANGED <<throttled, sighter, joining>>

(* broadcast_stop: the link of an unpaired device that no intent holds is  *)
(* closed.                                                                 *)
StopWindow ==
    /\ linked /\ trust = "Unpaired"
    /\ linked' = FALSE
    /\ UNCHANGED <<entry, trust, marked, throttled, sighter, joining, era>>

-----------------------------------------------------------------------------
SighterStep(s) ==
    \/ Hear(s) \/ LookAt(s) \/ AddStranger(s) \/ Close(s) \/ ConsumePairDial(s)
    \/ EphemeralDialed(s) \/ MarkEphemeralDialed(s) \/ AllowEphemeralDial(s)

DiscoveryNext ==
    \/ \E s \in Sighters : SighterStep(s)
    \/ OtherStranger \/ Second
    \/ Join \/ Connection \/ LinkLost \/ PruneEntry
    \/ PairingBegins \/ PairingCompletes \/ PairingEnds \/ StopWindow

DiscoverySpec == DiscoveryInit /\ [][DiscoveryNext]_discoveryVars
-----------------------------------------------------------------------------
Objects == Entries \cup {Unknown}

(* Every variable has the values the code can give it.                     *)
DiscoveryTypeOK ==
    /\ entry \in Objects
    /\ trust \in {"Unpaired", "Pending", "Paired"}
    /\ linked \in BOOLEAN
    /\ marked \subseteq Objects
    /\ throttled \in BOOLEAN
    /\ spot \in [Sighters -> {"idle", "look", "absent", "close", "intent", "marker",
                             "mark", "allow"}]
    /\ dev \in [Sighters -> Objects]
    /\ pairMode \subseteq Sighters
    /\ joining \in BOOLEAN
    /\ ephemerals \in 0..2
    /\ parted \in BOOLEAN

(* A stranger is dialled at most once in an unpaired era to exchange       *)
(* identities (transport.go:109), although two goroutines look at the      *)
(* marker before either sets it: the limit per second stops the second of  *)
(* them.  It does not where a sighter takes more than a second from its    *)
(* look to the limit, where one that looked in an earlier era or at        *)
(* another object is still on its way when the era begins, or where the    *)
(* object with the marker is replaced.                                     *)
EphemeralAtMostOnce == ~parted => ephemerals <= 1
=============================================================================
