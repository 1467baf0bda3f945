------------------------------ MODULE Handshake ------------------------------
(***************************************************************************)
(* How a connection becomes a session of a device: HandleNewConnection     *)
(* after TLS (internal/daemon, transport_handshake.go), with the registry  *)
(* of devices (internal/device, registry.go), the sightings that register  *)
(* a phone (daemon/transport.go), and the pruning of stale devices before  *)
(* every save.                                                             *)
(*                                                                         *)
(* One phone, which may connect twice at a time, and may be set up anew    *)
(* and then presents another certificate.  The daemon may come to have     *)
(* more than one Device object for it: looking a device up and adding it   *)
(* are two steps, and Add replaces.                                        *)
(*                                                                         *)
(* Abstracted: the identities, which match here; names, ports and          *)
(* capabilities; what happens in a session, which is in Session, and how   *)
(* pairing settles, which is in Pairing.                                   *)
(***************************************************************************)
EXTENDS Naturals, FiniteSets

CONSTANTS
    Handshakes, \* connections of the phone (bound)
    DeviceObjs, \* Device objects (bound)
    Certs       \* certificates of the phone

NoObj  == "no device"
NoCert == "no certificate"

ASSUME HandshakeAssumption == NoObj \notin DeviceObjs /\ NoCert \notin Certs

VARIABLES
    registered, \* the object that Registry.Get finds, or NoObj
    made,       \* objects that NewDevice has made
    trustOf,    \* per object: its pairing state
    certFP,     \* per object: Device.CertFP, or NoCert
    linkCert,   \* per object: the certificate of its connection, or NoCert
    recentObjs, \* objects whose LastSeen is within the threshold
    hsAt,       \* per connection: where HandleNewConnection is
    hsObj,      \* per connection: its device
    hsCert,     \* per connection: the certificate of the peer
    hsState,    \* per connection: the pairing state it has read
    sightAt,    \* the sighting: "idle", "missed", "added"
    sightObj,   \* the object it makes
    crowded     \* history: two connections were between check and session

registryVars == <<registered, made>>
objectVars   == <<trustOf, certFP, linkCert, recentObjs>>
hsVars       == <<hsAt, hsObj, hsCert, hsState, crowded>>
sightVars    == <<sightAt, sightObj>>
handshakeVars == <<registryVars, objectVars, hsVars, sightVars>>

(* Nothing is known of the phone, or it was paired before the daemon       *)
(* started.                                                                *)
HandshakeInit ==
    /\ \E o \in DeviceObjs, c \in Certs :
        \/ /\ registered = NoObj /\ made = {}
           /\ trustOf = [p \in DeviceObjs |-> "unpaired"]
           /\ certFP = [p \in DeviceObjs |-> NoCert]
        \/ /\ registered = o /\ made = {o}
           /\ trustOf = [p \in DeviceObjs |-> IF p = o THEN "paired" ELSE "unpaired"]
           /\ certFP = [p \in DeviceObjs |-> IF p = o THEN c ELSE NoCert]
    /\ linkCert = [o \in DeviceObjs |-> NoCert] /\ recentObjs = {}
    /\ hsAt = [h \in Handshakes |-> "none"]
    /\ hsObj = [h \in Handshakes |-> NoObj]
    /\ hsCert = [h \in Handshakes |-> NoCert]
    /\ hsState = [h \in Handshakes |-> "unpaired"]
    /\ sightAt = "idle" /\ sightObj = NoObj
    /\ crowded = FALSE

HsTo(h, place) == hsAt' = [hsAt EXCEPT ![h] = place]
HsEnds(h) ==
    /\ HsTo(h, "over") /\ UNCHANGED crowded
    /\ hsObj' = [hsObj EXCEPT ![h] = NoObj] /\ hsCert' = [hsCert EXCEPT ![h] = NoCert]
    /\ hsState' = [hsState EXCEPT ![h] = "unpaired"]

(* The memory of a new object: any that is not in use.                     *)
NewDevice(o) ==
    /\ made # DeviceObjs
    /\ o = CHOOSE p \in DeviceObjs : p \notin made
    /\ made' = made \union {o}

(* Add inserts or replaces.                                                *)
Add(o) == registered' = o

-----------------------------------------------------------------------------
(* HandleNewConnection.                                                    *)

(* Get: a device that is not known is made.                                *)
Lookup(h, c) ==
    /\ hsAt[h] = "none"
    /\ hsCert' = [hsCert EXCEPT ![h] = c]
    /\ \/ /\ registered # NoObj
          /\ hsObj' = [hsObj EXCEPT ![h] = registered]
          /\ HsTo(h, "seen") /\ UNCHANGED made
       \/ /\ registered = NoObj
          /\ \E o \in DeviceObjs : NewDevice(o) /\ hsObj' = [hsObj EXCEPT ![h] = o]
          /\ HsTo(h, "add")
    /\ UNCHANGED <<registered, objectVars, hsState, crowded, sightVars>>

AddDevice(h) ==
    /\ hsAt[h] = "add"
    /\ Add(hsObj[h])
    /\ HsTo(h, "seen")
    /\ UNCHANGED <<made, objectVars, hsObj, hsCert, hsState, crowded, sightVars>>

SetLastSeen(h) ==
    /\ hsAt[h] = "seen"
    /\ recentObjs' = recentObjs \union {hsObj[h]}
    /\ HsTo(h, "check")
    /\ UNCHANGED <<registryVars, trustOf, certFP, linkCert, hsObj, hsCert, hsState,
                   crowded, sightVars>>

LiveMismatch_Ignored(h) == FALSE

(* There is a connection, and its certificate is another one.              *)
LiveMismatch(h) == linkCert[hsObj[h]] \notin {NoCert, hsCert[h]}

CheckLive(h) ==
    /\ hsAt[h] = "check"
    /\ IF LiveMismatch(h)
       THEN HsEnds(h)
       ELSE /\ HsTo(h, "state") /\ UNCHANGED <<hsObj, hsCert, hsState>>
            /\ crowded' = (crowded \/ \E g \in Handshakes \ {h} :
                                         hsAt[g] \in {"state", "pin", "connect"})
    /\ UNCHANGED <<registryVars, objectVars, sightVars>>

ReadState(h) ==
    /\ hsAt[h] = "state"
    /\ hsState' = [hsState EXCEPT ![h] = trustOf[hsObj[h]]]
    /\ HsTo(h, "pin")
    /\ UNCHANGED <<registryVars, objectVars, hsObj, hsCert, crowded, sightVars>>

(* A paired device must present the certificate it is known by, one that   *)
(* is being paired too once there is one, and any other gives its own.     *)
Mismatch(h) ==
    /\ hsState[h] # "unpaired"
    /\ certFP[hsObj[h]] \notin {NoCert, hsCert[h]}

CheckPinned(h) ==
    /\ hsAt[h] = "pin"
    /\ IF Mismatch(h)
       THEN HsEnds(h) /\ UNCHANGED certFP
       ELSE /\ HsTo(h, "connect") /\ UNCHANGED <<hsObj, hsCert, hsState, crowded>>
            /\ IF hsState[h] = "paired" THEN UNCHANGED certFP
               ELSE certFP' = [certFP EXCEPT ![hsObj[h]] = hsCert[h]]
    /\ UNCHANGED <<registryVars, trustOf, linkCert, recentObjs, sightVars>>

(* Connect replaces the connection there is.                               *)
ConnectSession(h) ==
    /\ hsAt[h] = "connect"
    /\ linkCert' = [linkCert EXCEPT ![hsObj[h]] = hsCert[h]]
    /\ HsEnds(h)
    /\ UNCHANGED <<registryVars, trustOf, certFP, recentObjs, sightVars>>

-----------------------------------------------------------------------------
(* A sighting of a phone that is not known.                                *)
Sight ==
    /\ sightAt = "idle" /\ registered = NoObj
    /\ \E o \in DeviceObjs : NewDevice(o) /\ sightObj' = o
    /\ sightAt' = "missed"
    /\ UNCHANGED <<registered, objectVars, hsVars>>

SightAdds ==
    /\ sightAt = "missed"
    /\ Add(sightObj) /\ sightAt' = "added"
    /\ UNCHANGED <<made, objectVars, hsVars, sightObj>>

SightSeen ==
    /\ sightAt = "added"
    /\ recentObjs' = recentObjs \union {sightObj}
    /\ sightAt' = "idle" /\ sightObj' = NoObj
    /\ UNCHANGED <<registryVars, trustOf, certFP, linkCert, hsVars>>

(* Prune, before a save: what is neither paired, connected nor recent.     *)
Prune ==
    /\ registered # NoObj
    /\ trustOf[registered] # "paired" /\ linkCert[registered] = NoCert
    /\ registered \notin recentObjs
    /\ registered' = NoObj
    /\ UNCHANGED <<made, objectVars, hsVars, sightVars>>

GrowsStale(o) ==
    /\ recentObjs' = recentObjs \ {o}
    /\ UNCHANGED <<registryVars, trustOf, certFP, linkCert, hsVars, sightVars>>

-----------------------------------------------------------------------------
(* What pairing and the session do meanwhile.                              *)
PairStateChanges(o, s) ==
    /\ o = registered /\ trustOf[o] # s
    /\ s # "unpaired" => linkCert[o] # NoCert
    /\ s = "paired" => trustOf[o] = "requested"
    /\ trustOf' = [trustOf EXCEPT ![o] = s]
    /\ UNCHANGED <<registryVars, certFP, linkCert, recentObjs, hsVars, sightVars>>

SessionOver(o) ==
    /\ linkCert[o] # NoCert
    /\ linkCert' = [linkCert EXCEPT ![o] = NoCert]
    /\ recentObjs' = recentObjs \union {o}
    /\ UNCHANGED <<registryVars, trustOf, certFP, hsVars, sightVars>>

HandshakeNext ==
    \/ \E h \in Handshakes :
        \/ \E c \in Certs : Lookup(h, c)
        \/ AddDevice(h) \/ SetLastSeen(h) \/ CheckLive(h) \/ ReadState(h)
        \/ CheckPinned(h) \/ ConnectSession(h)
    \/ Sight \/ SightAdds \/ SightSeen \/ Prune
    \/ \E o \in DeviceObjs :
        \/ GrowsStale(o) \/ SessionOver(o)
        \/ \E s \in {"unpaired", "requested", "paired"} : PairStateChanges(o, s)

HandshakeSpec == HandshakeInit /\ [][HandshakeNext]_handshakeVars

-----------------------------------------------------------------------------
(* Properties.                                                             *)

HandshakeTypeOK ==
    /\ registered \in made \union {NoObj} /\ made \subseteq DeviceObjs
    /\ trustOf \in [DeviceObjs -> {"unpaired", "requested", "paired"}]
    /\ certFP \in [DeviceObjs -> Certs \union {NoCert}]
    /\ linkCert \in [DeviceObjs -> Certs \union {NoCert}]
    /\ recentObjs \subseteq DeviceObjs
    /\ hsAt \in [Handshakes -> {"none", "over", "add", "seen", "check", "state",
                           "pin", "connect"}]
    /\ hsObj \in [Handshakes -> DeviceObjs \union {NoObj}]
    /\ hsCert \in [Handshakes -> Certs \union {NoCert}]
    /\ hsState \in [Handshakes -> {"unpaired", "requested", "paired"}]
    /\ sightObj \in DeviceObjs \union {NoObj} /\ crowded \in BOOLEAN
    /\ sightAt \in {"idle", "missed", "added"}

(* A device is known by the certificate of the connection it has: the one  *)
(* it will be asked for when it is paired and comes again - however        *)
(* connections, pairing and the end of sessions interleave, as long as two *)
(* connections of a phone are not between the checks and Connect at once.  *)
LinkIsPinned ==
    ~crowded => \A o \in DeviceObjs : linkCert[o] \in {NoCert, certFP[o]}

=============================================================================
