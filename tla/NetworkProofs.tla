---------------------------- MODULE NetworkProofs -----------------------------
(***************************************************************************)
(* What the network side promises, for every number of connections,        *)
(* objects, certificates, devices, packets and lines.  The four parts      *)
(* share no state; each has its own specification and invariant.           *)
(***************************************************************************)
EXTENDS Discovery, Handshake, Dispatch, Framing, TLAPS

-----------------------------------------------------------------------------
(* Discovery: a stranger is dialled once.                                  *)

(* A sighter that goes on with an object and has not yet asked the limit.  *)
Passing(s) == spot[s] \in {"intent", "marker", "mark", "allow"}

(* Until marker and dials part, every sighter on its way has the entry;    *)
(* the marker of the entry is set before any of them asks the limit, and   *)
(* who had got past it when an ephemeral dial began meets the limit.       *)
DialledOnce ==
    /\ EphemeralAtMostOnce
    /\ \A s \in Sighters : Passing(s) => dev[s] # Unknown
    /\ ~parted =>
        /\ ephemerals = 1 => entry # Unknown /\ entry \in marked
        /\ \A s \in Sighters :
            /\ Passing(s) => dev[s] = entry
            /\ spot[s] = "allow" => entry \in marked
            /\ spot[s] \in {"mark", "allow"} /\ ephemerals = 1 => throttled

DiscoveryInv == DiscoveryTypeOK /\ DialledOnce

(* Every step keeps every variable in its type.                            *)
LEMMA DiscoveryTypes ==
    ASSUME DiscoveryTypeOK, [DiscoveryNext]_discoveryVars PROVE DiscoveryTypeOK'
<1> USE DEF DiscoveryTypeOK, Objects, peer, sighter, era, GoTo, Handled
<1>1. ASSUME NEW s \in Sighters,
             \/ Hear(s) \/ LookAt(s) \/ Close(s) \/ ConsumePairDial(s)
             \/ EphemeralDialed(s) \/ MarkEphemeralDialed(s)
      PROVE  DiscoveryTypeOK'
  BY <1>1 DEF Hear, LookAt, Close, ConsumePairDial, EphemeralDialed, MarkEphemeralDialed
<1>2. ASSUME NEW s \in Sighters, AddStranger(s) PROVE DiscoveryTypeOK'
  BY <1>2 DEF AddStranger, AddEntry, EntryLost, Held
<1>3. ASSUME NEW s \in Sighters, AllowEphemeralDial(s) PROVE DiscoveryTypeOK'
  <2>1. ephemerals' \in 0..2 BY <1>3 DEF AllowEphemeralDial
  <2>2. throttled' \in BOOLEAN BY <1>3, Zenon DEF AllowEphemeralDial
  <2> QED BY <1>3, <2>1, <2>2 DEF AllowEphemeralDial
<1>4. CASE OtherStranger \/ Second BY <1>4 DEF OtherStranger, Second
<1>5. CASE Join BY <1>5 DEF Join, AddEntry, EntryLost, Held
<1>6. CASE Connection \/ LinkLost \/ StopWindow
  BY <1>6 DEF Connection, Link, LinkLost, StopWindow
<1>7. CASE PruneEntry BY <1>7 DEF PruneEntry, EntryLost, NewEra, Crossing, Held
<1>8. CASE PairingBegins \/ PairingCompletes
  BY <1>8 DEF PairingBegins, PairingCompletes, SetTrust
<1>9. CASE PairingEnds BY <1>9 DEF PairingEnds, SetTrust, NewEra, Crossing
<1>10. CASE UNCHANGED discoveryVars BY <1>10 DEF discoveryVars
<1> QED BY <1>1, <1>2, <1>3, <1>4, <1>5, <1>6, <1>7, <1>8, <1>9, <1>10
        DEF DiscoveryNext, SighterStep

(* A new object becomes the entry: if that parts nothing there was none,   *)
(* so nobody is on the way and nobody was dialled.                         *)
LEMMA EntryAdded ==
    ASSUME DiscoveryInv, NEW object \in Entries, AddEntry(object), ~parted'
    PROVE  ephemerals' = 0 /\ ~parted /\ \A u \in Sighters : ~Passing(u)
<1>1. entry = Unknown /\ ~parted /\ ephemerals' = ephemerals BY DEF AddEntry
<1>2. ephemerals \in {0, 1}
  BY <1>1 DEF DiscoveryInv, DiscoveryTypeOK, DialledOnce, EphemeralAtMostOnce
<1> QED BY <1>1, <1>2 DEF DiscoveryInv, DialledOnce

(* Every step of Discovery preserves the invariant.                        *)
LEMMA DiscoveryInductive ==
    ASSUME DiscoveryInv, [DiscoveryNext]_discoveryVars PROVE DiscoveryInv'
<1>1. DiscoveryTypeOK' BY DiscoveryTypes DEF DiscoveryInv
<1> SUFFICES DialledOnce' BY <1>1 DEF DiscoveryInv
<1> USE DEF DiscoveryInv, DiscoveryTypeOK, DialledOnce, Passing,
        EphemeralAtMostOnce, peer, sighter, era, GoTo, Handled
<1>2. ASSUME NEW s \in Sighters,
             Hear(s) \/ Close(s) \/ ConsumePairDial(s) \/ EphemeralDialed(s)
      PROVE  DialledOnce'
  BY <1>2 DEF Hear, Close, ConsumePairDial, EphemeralDialed
<1>3. ASSUME NEW s \in Sighters, LookAt(s) PROVE DialledOnce'
  BY <1>3 DEF LookAt
<1>4. ASSUME NEW s \in Sighters, MarkEphemeralDialed(s) PROVE DialledOnce'
  BY <1>4 DEF MarkEphemeralDialed
<1>5. ASSUME NEW s \in Sighters, AddStranger(s) PROVE DialledOnce'
  <2>1. PICK object \in Entries : AddEntry(object) /\ dev' = [dev EXCEPT ![s] = object]
    BY <1>5 DEF AddStranger
  <2>2. /\ spot' = [spot EXCEPT ![s] = "intent"] /\ entry' = object
        /\ object # Unknown
    BY <1>5, <2>1, DiscoveryAssumption DEF AddStranger, AddEntry
  <2>3. \A u \in Sighters : Passing(u)' => dev'[u] # Unknown BY <2>1, <2>2
  <2>4. ASSUME ~parted'
        PROVE  /\ ephemerals' = 0
               /\ \A u \in Sighters : Passing(u)' => u = s
    BY <2>1, <2>2, <2>4, EntryAdded
  <2> QED BY <2>1, <2>2, <2>3, <2>4
<1>6. ASSUME NEW s \in Sighters, AllowEphemeralDial(s) PROVE DialledOnce'
  <2>1. /\ UNCHANGED <<entry, marked, parted>>
        /\ \A u \in Sighters : Passing(u)' =>
              u # s /\ Passing(u) /\ spot'[u] = spot[u] /\ dev'[u] = dev[u]
    BY <1>6 DEF AllowEphemeralDial
  <2>2. CASE throttled
    BY <1>6, <2>1, <2>2 DEF AllowEphemeralDial
  <2>3. CASE ~throttled
    <3>1. throttled' = TRUE /\ (~parted => ephemerals = 0)
      BY <1>6, <2>3 DEF AllowEphemeralDial
    <3>2. ~parted => ephemerals' = 1 /\ entry \in marked /\ entry # Unknown
      BY <1>6, <2>3, <3>1 DEF AllowEphemeralDial
    <3> QED BY <2>1, <3>1, <3>2
  <2> QED BY <2>2, <2>3
<1>7. CASE OtherStranger BY <1>7 DEF OtherStranger
<1>8. CASE Second
  <2>1. /\ UNCHANGED <<entry, marked, spot, dev, ephemerals>>
        /\ ~parted' => ~parted /\ (ephemerals = 1 =>
              \A s \in Sighters : spot[s] \notin {"mark", "allow"})
    BY <1>8 DEF Second
  <2> QED BY <2>1
<1>9. CASE Join
  <2>1. PICK object \in Entries : AddEntry(object) BY <1>9 DEF Join
  <2>2. UNCHANGED <<spot, dev>> BY <1>9 DEF Join
  <2>3. ~parted' => ephemerals' = 0 /\ \A u \in Sighters : ~Passing(u)'
    BY <2>1, <2>2, EntryAdded
  <2> QED BY <2>2, <2>3
<1>10. CASE Connection \/ LinkLost \/ StopWindow
  BY <1>10 DEF Connection, Link, LinkLost, StopWindow
<1>11. CASE PruneEntry
  <2>1. /\ entry' = Unknown /\ ephemerals' = 0 /\ parted' = Crossing
        /\ UNCHANGED <<spot, dev>>
    BY <1>11 DEF PruneEntry, NewEra
  <2>2. ~Crossing => \A s \in Sighters : ~Passing(s)
    BY <2>1 DEF Crossing
  <2> QED BY <2>1, <2>2
<1>12. CASE PairingBegins \/ PairingCompletes
  BY <1>12 DEF PairingBegins, PairingCompletes, SetTrust
<1>13. CASE PairingEnds
  <2>1. /\ ephemerals' = 0 /\ parted' = Crossing
        /\ UNCHANGED <<entry, spot, dev>>
    BY <1>13 DEF PairingEnds, SetTrust, NewEra
  <2>2. ~Crossing => \A s \in Sighters :
            spot[s] # "allow" /\ (Passing(s) => dev[s] = entry)
    BY <2>1 DEF Crossing
  <2> QED BY <2>1, <2>2
<1>14. CASE UNCHANGED discoveryVars BY <1>14 DEF discoveryVars
<1> HIDE DEF DialledOnce, DiscoveryInv, DiscoveryTypeOK, discoveryVars
<1> QED BY <1>2, <1>3, <1>4, <1>5, <1>6, <1>7, <1>8, <1>9, <1>10, <1>11, <1>12, <1>13,
           <1>14 DEF DiscoveryNext, SighterStep

(* The invariant holds of dialling, from the first announcement on.        *)
LEMMA DiscoveryInvariant == DiscoverySpec => []DiscoveryInv
<1>1. DiscoveryInit => DiscoveryInv
  <2> SUFFICES ASSUME DiscoveryInit PROVE DiscoveryInv OBVIOUS
  <2>1. DiscoveryTypeOK
    <3>1. ephemerals \in 0..2 BY DEF DiscoveryInit
    <3> QED BY <3>1 DEF DiscoveryInit, DiscoveryTypeOK, Objects
  <2>2. DialledOnce BY DEF DiscoveryInit, DialledOnce, Passing, EphemeralAtMostOnce
  <2> QED BY <2>1, <2>2 DEF DiscoveryInv
<1>2. DiscoveryInv /\ [DiscoveryNext]_discoveryVars => DiscoveryInv'
  BY DiscoveryInductive
<1> QED
  BY <1>1, <1>2, PTL DEF DiscoverySpec

(* EphemeralAtMostOnce: every dial that the limit lets through counts, and *)
(* unless a sighter is overtaken by a second, an era or another object in  *)
(* the registry, marker and limit together stop all but one.               *)
THEOREM DialledAtMostOnce == DiscoverySpec => []EphemeralAtMostOnce
<1>1. DiscoveryInv => EphemeralAtMostOnce
  BY DEF DiscoveryInv, DialledOnce
<1> QED
  BY <1>1, DiscoveryInvariant, PTL

-----------------------------------------------------------------------------
(* Handshake: a device is known by the certificate it has.                 *)

(* Between the check of the live connection and Connect.                   *)
Inside(h) == hsAt[h] \in {"state", "pin", "connect"}

(* Whoever holds an object holds one that was made, and a connection has   *)
(* the certificate its peer gave.                                          *)
HeldIsMade ==
    /\ \A h \in Handshakes :
        hsAt[h] \in {"add", "seen", "check", "state", "pin", "connect"}
            => hsObj[h] \in made /\ hsCert[h] # NoCert
    /\ sightAt \in {"missed", "added"} => sightObj \in made

(* A paired device has a certificate on record, also one that was seen to  *)
(* be paired a step ago.                                                   *)
PairedIsPinned ==
    /\ \A o \in DeviceObjs : trustOf[o] = "paired" => certFP[o] # NoCert
    /\ \A h \in Handshakes :
        hsAt[h] = "pin" /\ hsState[h] = "paired" => certFP[hsObj[h]] # NoCert

(* At most one connection is inside; what it presents is that of the       *)
(* connection it will replace, if any, and is on record before Connect.    *)
GoesOnPinned ==
    /\ \A g, h \in Handshakes : Inside(g) /\ Inside(h) => g = h
    /\ \A o \in DeviceObjs : linkCert[o] \in {NoCert, certFP[o]}
    /\ \A h \in Handshakes :
        /\ Inside(h) => linkCert[hsObj[h]] \in {NoCert, hsCert[h]}
        /\ hsAt[h] = "connect" => certFP[hsObj[h]] = hsCert[h]

HandshakeInv ==
    /\ HandshakeTypeOK /\ HeldIsMade
    /\ ~crowded => PairedIsPinned /\ GoesOnPinned

(* Every step of Handshake preserves the invariant.                        *)
LEMMA HandshakeInductive ==
    ASSUME HandshakeInv, [HandshakeNext]_handshakeVars PROVE HandshakeInv'
<1> USE HandshakeAssumption DEF HandshakeInv, HandshakeTypeOK, HeldIsMade,
        PairedIsPinned, GoesOnPinned, Inside, HsTo, HsEnds, Add
<1>1. ASSUME NEW h \in Handshakes, NEW c \in Certs, Lookup(h, c)
      PROVE  HandshakeInv'
  BY <1>1 DEF Lookup, NewDevice, objectVars, sightVars
<1>2. ASSUME NEW h \in Handshakes, AddDevice(h) PROVE HandshakeInv'
  BY <1>2 DEF AddDevice, objectVars, sightVars
<1>3. ASSUME NEW h \in Handshakes, SetLastSeen(h) PROVE HandshakeInv'
  BY <1>3 DEF SetLastSeen, registryVars, sightVars
<1>4. ASSUME NEW h \in Handshakes, CheckLive(h) PROVE HandshakeInv'
  <2>1. CASE LiveMismatch(h)
    BY <1>4, <2>1 DEF CheckLive, registryVars, objectVars, sightVars
  <2>2. CASE ~LiveMismatch(h)
    <3>1. HandshakeTypeOK' /\ HeldIsMade'
      BY <1>4, <2>2 DEF CheckLive, registryVars, objectVars, sightVars
    <3>2. /\ ~crowded' => ~crowded /\ \A g \in Handshakes \ {h} : ~Inside(g)
          /\ \A g \in Handshakes \ {h} : hsAt'[g] = hsAt[g]
          /\ hsAt'[h] = "state" /\ hsCert[h] # NoCert
      BY <1>4, <2>2 DEF CheckLive
    <3>3. UNCHANGED <<objectVars, hsObj, hsCert, hsState>>
      BY <1>4, <2>2 DEF CheckLive
    <3> QED BY <2>2, <3>1, <3>2, <3>3 DEF LiveMismatch, objectVars
  <2> QED BY <2>1, <2>2
<1>5. ASSUME NEW h \in Handshakes, ReadState(h) PROVE HandshakeInv'
  BY <1>5 DEF ReadState, registryVars, objectVars, sightVars
<1>6. ASSUME NEW h \in Handshakes, CheckPinned(h) PROVE HandshakeInv'
  BY <1>6 DEF CheckPinned, Mismatch, registryVars, sightVars
<1>7. ASSUME NEW h \in Handshakes, ConnectSession(h) PROVE HandshakeInv'
  BY <1>7 DEF ConnectSession, registryVars, sightVars
<1>8. CASE Sight BY <1>8 DEF Sight, NewDevice, objectVars, hsVars
<1>9. CASE SightAdds BY <1>9 DEF SightAdds, objectVars, hsVars
<1>10. CASE SightSeen BY <1>10 DEF SightSeen, registryVars, hsVars
<1>11. CASE Prune BY <1>11 DEF Prune, objectVars, hsVars, sightVars
<1>12. ASSUME NEW o \in DeviceObjs, GrowsStale(o) PROVE HandshakeInv'
  BY <1>12 DEF GrowsStale, registryVars, hsVars, sightVars
<1>13. ASSUME NEW o \in DeviceObjs, SessionOver(o) PROVE HandshakeInv'
  BY <1>13 DEF SessionOver, registryVars, hsVars, sightVars
<1>14. ASSUME NEW o \in DeviceObjs, NEW s \in {"unpaired", "requested", "paired"},
              PairStateChanges(o, s)
       PROVE  HandshakeInv'
  BY <1>14 DEF PairStateChanges, registryVars, hsVars, sightVars
<1>15. CASE UNCHANGED handshakeVars
  BY <1>15 DEF handshakeVars, registryVars, objectVars, hsVars, sightVars
<1> HIDE DEF HandshakeInv
<1> QED BY <1>1, <1>2, <1>3, <1>4, <1>5, <1>6, <1>7, <1>8, <1>9, <1>10, <1>11,
           <1>12, <1>13, <1>14, <1>15 DEF HandshakeNext

(* The invariant holds of every handshake.                                 *)
LEMMA HandshakeInvariant == HandshakeSpec => []HandshakeInv
<1>1. HandshakeInit => HandshakeInv
  <2> SUFFICES ASSUME HandshakeInit PROVE HandshakeInv OBVIOUS
  <2>1. HandshakeTypeOK BY DEF HandshakeInit, HandshakeTypeOK
  <2>2. HeldIsMade BY DEF HandshakeInit, HeldIsMade
  <2>3. PairedIsPinned BY HandshakeAssumption DEF HandshakeInit, PairedIsPinned
  <2>4. GoesOnPinned BY DEF HandshakeInit, GoesOnPinned, Inside
  <2> QED BY <2>1, <2>2, <2>3, <2>4 DEF HandshakeInv
<1> QED
  BY <1>1, HandshakeInductive, PTL DEF HandshakeSpec

(* LinkIsPinned: HandleNewConnection never gives a device a connection     *)
(* with another certificate than the one on record, as long as two         *)
(* connections of it are not between check and Connect at once.            *)
THEOREM LinksAlwaysPinned == HandshakeSpec => []LinkIsPinned
<1>1. HandshakeInv => LinkIsPinned BY DEF HandshakeInv, GoesOnPinned, LinkIsPinned
<1> QED
  BY <1>1, HandshakeInvariant, PTL

-----------------------------------------------------------------------------
(* Dispatch: a packet that is recycled is in nobody's hands.               *)

(* A packet object that is in use has one owner - a reader, a queue or a   *)
(* writer - and is not in the pool.                                        *)
OneOwner ==
    /\ \A d \in Links : reading[d] = NoPacket <=> readAt[d] = "read"
    /\ \A d \in Links : /\ reading[d] \notin pool /\ writing[d] \notin pool
                        /\ \A o \in outgoing[d] : o \notin pool
    /\ \A d, e \in Links :
        /\ reading[d] = NoPacket \/ reading[d] # writing[e]
        /\ reading[d] \notin outgoing[e] /\ writing[d] \notin outgoing[e]
    /\ \A d, e \in Links :
        d # e => /\ reading[d] = NoPacket \/ reading[d] # reading[e]
                 /\ writing[d] = NoPacket \/ writing[d] # writing[e]
                 /\ \A o \in outgoing[d] : o \notin outgoing[e]

DispatchInv == DispatchTypeOK /\ OneOwner /\ NoUseAfterRecycle

(* New memory is in nobody's hands.                                        *)
LEMMA NewIsFree ==
    ASSUME NEW o \in PacketObjs, NewObject(o)
    PROVE  /\ o \notin pool
           /\ \A d \in Links : o # reading[d] /\ o # writing[d] /\ o \notin outgoing[d]
           /\ \A h \in handlers : o # h.packet
BY DEF NewObject, Referred

(* AcquirePacket returns an object nobody refers to.                       *)
LEMMA AcquiredIsFree ==
    ASSUME NEW o \in PacketObjs, AcquirePacket(o), DispatchInv
    PROVE  /\ \A d \in Links : o # reading[d] /\ o # writing[d] /\ o \notin outgoing[d]
           /\ \A h \in handlers : o # h.packet
BY NewIsFree DEF AcquirePacket, DispatchInv, OneOwner, NoUseAfterRecycle

(* Every step of Dispatch preserves the invariant.                         *)
LEMMA DispatchInductive ==
    ASSUME DispatchInv, [DispatchNext]_dispatchVars PROVE DispatchInv'
<1> USE DispatchAssumption
<1>1. ASSUME NEW d \in Links, NEW o \in PacketObjs, ReadPacket(d, o)
      PROVE  DispatchInv'
  BY <1>1, AcquiredIsFree DEF DispatchInv, DispatchTypeOK, OneOwner,
     NoUseAfterRecycle, ReadPacket, ReadTo
<1>2. ASSUME NEW d \in Links, NEW kind, StartHandler(d, kind) PROVE DispatchInv'
  BY <1>2 DEF DispatchInv, DispatchTypeOK, OneOwner, NoUseAfterRecycle,
     StartHandler, ReadTo, ReadDone
<1>3. ASSUME NEW h \in handlers, HandlerReturns(h) PROVE DispatchInv'
  BY <1>3 DEF DispatchInv, DispatchTypeOK, OneOwner, NoUseAfterRecycle,
     HandlerReturns
<1>4. ASSUME NEW d \in Links, NEW kind, TakePacket(d, kind) PROVE DispatchInv'
  BY <1>4 DEF DispatchInv, DispatchTypeOK, OneOwner, NoUseAfterRecycle, TakePacket
<1>5. ASSUME NEW d \in Links, NEW kind, NEW o \in PacketObjs, Send(d, kind, o)
      PROVE  DispatchInv'
  BY <1>5, NewIsFree DEF DispatchInv, DispatchTypeOK, OneOwner, NoUseAfterRecycle,
     Send, Queue, Drop
<1>6. ASSUME NEW d \in Links, HandledInTime(d) PROVE DispatchInv'
  BY <1>6 DEF DispatchInv, DispatchTypeOK, OneOwner, NoUseAfterRecycle,
     HandledInTime, ReadTo, ReadDone
<1>7. ASSUME NEW d \in Links, HandlerTimesOut(d) PROVE DispatchInv'
  BY <1>7 DEF DispatchInv, DispatchTypeOK, OneOwner, NoUseAfterRecycle,
     HandlerTimesOut, ReadTo, ReadDone
<1>8. ASSUME NEW d \in Links, WritePacket(d) PROVE DispatchInv'
  BY <1>8 DEF DispatchInv, DispatchTypeOK, OneOwner, NoUseAfterRecycle,
     WritePacket, EndSession
<1>9. ASSUME NEW d \in Links, SessionEnds(d) PROVE DispatchInv'
  BY <1>9 DEF DispatchInv, DispatchTypeOK, OneOwner, NoUseAfterRecycle,
     SessionEnds, EndSession
<1>10. ASSUME NEW d \in Links,
              SessionBegins(d) \/ PairingChanges(d) \/ SetDevicePluginPolicy(d)
       PROVE  DispatchInv'
  BY <1>10 DEF DispatchInv, DispatchTypeOK, OneOwner, NoUseAfterRecycle,
     SessionBegins, PairingChanges, SetDevicePluginPolicy
<1>11. CASE UNCHANGED dispatchVars
  BY <1>11 DEF DispatchInv, DispatchTypeOK, OneOwner, NoUseAfterRecycle, dispatchVars
<1> QED BY <1>1, <1>2, <1>3, <1>4, <1>5, <1>6, <1>7, <1>8, <1>9, <1>10, <1>11
           DEF DispatchNext

(* The invariant holds of the pool and its readers.                        *)
LEMMA DispatchInvariant == DispatchSpec => []DispatchInv
<1>1. DispatchInit => DispatchInv
  BY DispatchAssumption DEF DispatchInit, DispatchInv, DispatchTypeOK, OneOwner,
     NoUseAfterRecycle
<1> QED
  BY <1>1, DispatchInductive, PTL DEF DispatchSpec

(* NoUseAfterRecycle: no handler that readLoop or the time limit of        *)
(* Dispatch left behind has a packet that was released for another use.    *)
THEOREM PacketsNeverReused == DispatchSpec => []NoUseAfterRecycle
<1>1. DispatchInv => NoUseAfterRecycle BY DEF DispatchInv
<1> QED
  BY <1>1, DispatchInvariant, PTL

-----------------------------------------------------------------------------
(* Framing: the packets are the lines.                                     *)

(* Lines up to a given one that are to become packets.                     *)
Fits(n) == input[n] <= LineLimit /\ ~(cut /\ n = Len(input))
Due(n)   == {m \in DOMAIN input : m < n /\ Fits(m)}

(* A packet that ReadPacketBounded returned.                               *)
Packet == [line : Nat, size : Nat]

(* What readLineBounded has collected is what was handed out of the line;  *)
(* discardLine is at work only in a line that is too long.                 *)
FramingInv ==
    /\ input \in Seq(1..MaxLength) /\ cut \in BOOLEAN
    /\ lineNo \in 1..(Len(input) + 1)
    /\ IF AtEnd THEN offset = 0 ELSE offset \in 0..(input[lineNo] - 1)
    /\ lineHeld \in 0..LineLimit
    /\ framingAt = "collect" => lineHeld = offset
    /\ framingAt = "discard" => ~AtEnd /\ input[lineNo] > LineLimit /\ lineHeld = 0
    /\ packets \in Seq(Packet)
    /\ FramedLines

(* The property, in these words.                                           *)
LEMMA FramedMeans ==
    FramedLines <=>
        /\ {packets[i].line : i \in DOMAIN packets} = Due(lineNo)
        /\ \A i \in DOMAIN packets :
            /\ packets[i].size = input[packets[i].line]
            /\ i > 1 => packets[i - 1].line < packets[i].line
BY DEF FramedLines, Due, Fits

(* A slice is not empty and does not go beyond the line.                   *)
LEMMA Slice ==
    ASSUME FramingInv, ~AtEnd
    PROVE  /\ lineNo \in DOMAIN input /\ input[lineNo] \in Nat /\ offset \in Nat
           /\ ChunkSize \in Nat \ {0} /\ offset + ChunkSize <= input[lineNo]
<1>1. lineNo \in 1..Len(input) /\ offset \in 0..(input[lineNo] - 1)
  BY DEF FramingInv, AtEnd
<1>i. input \in Seq(1..MaxLength) BY DEF FramingInv
<1>2. input[lineNo] \in 1..MaxLength
  <2> DEFINE S == 1..MaxLength
  <2>1. input \in Seq(S) BY <1>i
  <2> HIDE DEF S
  <2>2. input[lineNo] \in S BY <1>1, <2>1
  <2> QED BY <2>2 DEF S
<1> QED BY <1>1, <1>2, FramingAssumption DEF ChunkSize, Unread, FramingInv

(* Reading on, the reader is before the next line or inside this one.      *)
LEMMA Advanced ==
    ASSUME FramingInv, ~AtEnd, Advance, UNCHANGED input
    PROVE  /\ lineNo' \in 1..(Len(input) + 1)
           /\ IF AtEnd' THEN offset' = 0 ELSE offset' \in 0..(input[lineNo'] - 1)
           /\ ChunkEnds => lineNo' = lineNo + 1 /\ offset' = 0
           /\ ~ChunkEnds => /\ lineNo' = lineNo /\ offset' = offset + ChunkSize
                            /\ offset' < input[lineNo] /\ ~AtEnd'
<1>1. /\ lineNo \in 1..Len(input) /\ input[lineNo] \in Nat /\ offset \in Nat
      /\ ChunkSize \in Nat \ {0} /\ offset + ChunkSize <= input[lineNo]
      /\ Len(input) \in Nat /\ \A n \in 1..Len(input) : input[n] \in 1..MaxLength
  <2>1. input \in Seq(1..MaxLength) /\ ~AtEnd /\ lineNo \in 1..(Len(input) + 1)
    BY DEF FramingInv
  <2> DEFINE S == 1..MaxLength
  <2>3. input \in Seq(S) BY <2>1
  <2> HIDE DEF S
  <2>2. Len(input) \in Nat /\ \A n \in 1..Len(input) : input[n] \in S BY <2>3
  <2> QED BY <2>1, <2>2, Slice DEF S, AtEnd
<1>2. CASE ChunkEnds
  <2>1. lineNo' = lineNo + 1 /\ offset' = 0 BY <1>2 DEF Advance
  <2>2. ~AtEnd' => lineNo' \in 1..Len(input) BY <1>1, <2>1 DEF AtEnd
  <2>3. ~AtEnd' => offset' \in 0..(input[lineNo'] - 1) BY <1>1, <2>1, <2>2
  <2> QED BY <1>1, <1>2, <2>1, <2>3
<1>3. CASE ~ChunkEnds
  <2>1. lineNo' = lineNo /\ offset' = offset + ChunkSize BY <1>3 DEF Advance
  <2>2. offset' < input[lineNo] BY <1>1, <1>3, <2>1 DEF ChunkEnds
  <2> QED BY <1>1, <1>3, <2>1, <2>2 DEF AtEnd
<1> QED BY <1>2, <1>3

(* One more line is done.                                                  *)
LEMMA OneMoreDue ==
    ASSUME FramingInv, ~AtEnd
    PROVE  Due(lineNo + 1) = IF Fits(lineNo) THEN Due(lineNo) \union {lineNo}
                                              ELSE Due(lineNo)
BY Slice DEF Due, FramingInv

(* No packet may come of a slice that does not end a line due.             *)
LEMMA Skipped ==
    ASSUME FramingInv, ~AtEnd, Advance, ChunkEnds => ~Fits(lineNo),
           UNCHANGED <<input, cut, packets>>
    PROVE  FramedLines'
<1>1. Due(lineNo)' = Due(lineNo)
  <2>1. CASE ChunkEnds
    <3>1. Due(lineNo + 1) = Due(lineNo) BY <2>1, OneMoreDue
    <3>2. lineNo' = lineNo + 1 BY <2>1, Advanced
    <3> QED BY <3>1, <3>2 DEF Due, Fits
  <2>2. CASE ~ChunkEnds BY <2>2, Advanced DEF Due, Fits
  <2> QED BY <2>1, <2>2
<1>2. FramedLines BY DEF FramingInv
<1>3. {packets[i].line : i \in DOMAIN packets} = Due(lineNo)'
  BY <1>1, <1>2, FramedMeans
<1> QED BY <1>2, <1>3 DEF FramedLines, Due, Fits

(* One must, of a slice that does.                                         *)
LEMMA Taken ==
    ASSUME FramingInv, ~AtEnd, Advance, ChunkEnds, Fits(lineNo),
           ReturnPacket(input[lineNo]), UNCHANGED <<input, cut>>
    PROVE  FramedLines' /\ packets' \in Seq(Packet)
<1> DEFINE packet == [line |-> lineNo, size |-> input[lineNo]]
<1>1. packet \in Packet /\ packet.line = lineNo /\ packet.size = input[lineNo]
  BY Slice DEF Packet, FramingInv
<1>2. packets' = Append(packets, packet) BY DEF ReturnPacket
<1> HIDE DEF packet
<1>3. packets \in Seq(Packet) /\ Len(packets) \in Nat BY DEF FramingInv
<1>4. /\ packets' \in Seq(Packet) /\ Len(packets') = Len(packets) + 1
      /\ packets'[Len(packets) + 1] = packet
      /\ \A i \in 1..Len(packets) : packets'[i] = packets[i]
  BY <1>1, <1>2, <1>3
<1>5. /\ {packets[i].line : i \in DOMAIN packets} = Due(lineNo)
      /\ \A i \in DOMAIN packets :
            /\ packets[i].size = input[packets[i].line]
            /\ i > 1 => packets[i - 1].line < packets[i].line
  BY FramedMeans DEF FramingInv
<1>6. Due(lineNo)' = Due(lineNo) \union {lineNo}
  <2>1. lineNo' = lineNo + 1 BY Advanced
  <2> QED BY <2>1, OneMoreDue DEF Due, Fits
<1>7. {packets'[i].line : i \in DOMAIN packets'} = Due(lineNo)'
  <2>1. DOMAIN packets' = 1..(Len(packets) + 1) /\ DOMAIN packets = 1..Len(packets)
    BY <1>3, <1>4
  <2>2. {packets'[i].line : i \in DOMAIN packets'}
           = {packets[i].line : i \in DOMAIN packets} \union {lineNo}
    BY <1>1, <1>3, <1>4, <2>1
  <2> QED BY <1>5, <1>6, <2>2
<1>8. ASSUME NEW i \in DOMAIN packets'
      PROVE  /\ packets'[i].size = input[packets'[i].line]
             /\ i > 1 => packets'[i - 1].line < packets'[i].line
  <2>1. CASE i \in 1..Len(packets)
    <3>1. i > 1 => i - 1 \in 1..Len(packets) BY <1>3, <2>1
    <3> QED BY <1>3, <1>4, <1>5, <2>1, <3>1
  <2>2. CASE i = Len(packets) + 1
    <3>1. ASSUME i > 1 PROVE packets[i - 1].line < lineNo
      <4>1. i - 1 \in DOMAIN packets BY <1>3, <2>2, <3>1
      <4> QED BY <1>5, <4>1 DEF Due
    <3>2. i > 1 => packets'[i - 1] = packets[i - 1] BY <1>3, <1>4, <2>2
    <3> QED BY <1>1, <1>4, <2>2, <3>1, <3>2
  <2> QED BY <1>3, <1>4, <2>1, <2>2
<1> QED BY <1>4, <1>7, <1>8 DEF FramedLines, Due, Fits

(* Every step of Framing preserves the invariant.                          *)
LEMMA FramingStep == ASSUME FramingInv, [FramingNext]_framingVars PROVE FramingInv'
<1>i. /\ input \in Seq(1..MaxLength) /\ cut \in BOOLEAN /\ lineHeld \in 0..LineLimit
      /\ LineLimit \in Nat /\ packets \in Seq(Packet)
      /\ framingAt = "collect" => lineHeld = offset
      /\ framingAt = "discard" => ~AtEnd /\ input[lineNo] > LineLimit /\ lineHeld = 0
  BY FramingAssumption DEF FramingInv
<1>1. CASE Collect
  <2>1. /\ framingAt = "collect" /\ ~AtEnd /\ Advance /\ UNCHANGED <<input, cut>>
        /\ lineHeld = offset
    BY <1>i, <1>1 DEF Collect
  <2>2. /\ lineNo' \in 1..(Len(input) + 1)
        /\ IF AtEnd' THEN offset' = 0 ELSE offset' \in 0..(input[lineNo'] - 1)
        /\ ChunkEnds => lineNo' = lineNo + 1 /\ offset' = 0
        /\ ~ChunkEnds => /\ lineNo' = lineNo /\ offset' = offset + ChunkSize
                         /\ offset' < input[lineNo] /\ ~AtEnd'
    BY <2>1, Advanced
  <2>3. /\ lineNo \in DOMAIN input /\ input[lineNo] \in Nat /\ offset \in Nat
        /\ ChunkSize \in Nat \ {0} /\ offset + ChunkSize <= input[lineNo]
    BY <2>1, Slice
  <2>4. CASE ChunkSize > LineLimit - lineHeld
    <3>1. /\ lineHeld' = 0 /\ UNCHANGED packets
          /\ framingAt' = IF Broken THEN "ended" ELSE AfterOversized
      BY <1>1, <2>4 DEF Collect
    <3>2. input[lineNo] > LineLimit BY <1>i, <2>1, <2>3, <2>4
    <3>3. FramedLines' BY <1>i, <2>1, <2>3, <3>1, <3>2, Skipped DEF Fits
    <3>4. framingAt' = "collect" => offset' = 0
      BY <2>2, <3>1 DEF AfterOversized
    <3>5. framingAt' = "discard" => ~AtEnd' /\ input[lineNo'] > LineLimit
      BY <2>2, <3>1, <3>2 DEF AfterOversized
    <3> QED BY <1>i, <2>1, <2>2, <3>1, <3>3, <3>4, <3>5 DEF FramingInv
  <2>5. CASE ~(ChunkSize > LineLimit - lineHeld) /\ Broken
    <3>1. lineHeld' = 0 /\ framingAt' = "ended" /\ UNCHANGED packets
      BY <1>1, <2>5 DEF Collect
    <3>2. ~Fits(lineNo) BY <2>5 DEF Broken, Fits
    <3>3. FramedLines' BY <2>1, <3>1, <3>2, Skipped
    <3> QED BY <1>i, <2>1, <2>2, <3>1, <3>3 DEF FramingInv
  <2>6. CASE ~(ChunkSize > LineLimit - lineHeld) /\ ~Broken /\ ChunkEnds
    <3>1. /\ lineHeld' = 0 /\ framingAt' = framingAt
          /\ ReturnPacket(lineHeld + ChunkSize)
      BY <1>1, <2>6 DEF Collect
    <3>2. lineHeld + ChunkSize = input[lineNo] BY <2>1, <2>6 DEF ChunkEnds
    <3>3. Fits(lineNo)
      <4>1. input[lineNo] <= LineLimit BY <1>i, <2>1, <2>3, <2>6, <3>2
      <4> QED BY <2>6, <4>1 DEF Fits, Broken
    <3>4. ReturnPacket(input[lineNo]) BY <3>1, <3>2
    <3>5. FramedLines' /\ packets' \in Seq(Packet)
      BY <2>1, <2>6, <3>3, <3>4, Taken
    <3> QED BY <1>i, <2>1, <2>2, <2>6, <3>1, <3>5 DEF FramingInv
  <2>7. CASE ~(ChunkSize > LineLimit - lineHeld) /\ ~Broken /\ ~ChunkEnds
    <3>1. lineHeld' = lineHeld + ChunkSize /\ UNCHANGED <<framingAt, packets>>
      BY <1>1, <2>7 DEF Collect
    <3>2. FramedLines' BY <2>1, <2>7, <3>1, Skipped
    <3>3. lineHeld' \in 0..LineLimit /\ lineHeld' = offset'
      BY <1>i, <2>1, <2>2, <2>3, <2>7, <3>1
    <3> QED BY <1>i, <2>1, <2>2, <3>1, <3>2, <3>3 DEF FramingInv
  <2> QED BY <2>4, <2>5, <2>6, <2>7
<1>2. CASE Discard
  <2>1. /\ framingAt = "discard" /\ ~AtEnd /\ Advance
        /\ UNCHANGED <<input, cut, lineHeld, packets>>
        /\ framingAt' = IF Broken THEN "ended"
                        ELSE IF ChunkEnds THEN "collect" ELSE "discard"
    BY <1>2 DEF Discard
  <2>2. /\ lineNo' \in 1..(Len(input) + 1)
        /\ IF AtEnd' THEN offset' = 0 ELSE offset' \in 0..(input[lineNo'] - 1)
        /\ ChunkEnds => lineNo' = lineNo + 1 /\ offset' = 0
        /\ ~ChunkEnds => lineNo' = lineNo /\ ~AtEnd'
    BY <2>1, Advanced
  <2>3. input[lineNo] \in Nat BY <2>1, Slice
  <2>4. FramedLines' BY <1>i, <2>1, <2>3, Skipped DEF Fits
  <2> QED BY <1>i, <2>1, <2>2, <2>4 DEF FramingInv
<1>3. CASE FramingEnds \/ UNCHANGED framingVars
  <2>1. UNCHANGED <<input, cut, lineNo, offset, lineHeld, packets>>
        /\ framingAt' \in {framingAt, "ended"}
    BY <1>3 DEF FramingEnds, framingVars
  <2>2. FramedLines' BY <2>1 DEF FramingInv, FramedLines
  <2> QED BY <2>1, <2>2 DEF FramingInv, AtEnd
<1> QED BY <1>1, <1>2, <1>3 DEF FramingNext

(* The invariant holds of the reader, whatever the peer sends.             *)
LEMMA FramingInvariant == FramingSpec => []FramingInv
<1>1. FramingInit => FramingInv
  <2>1. SUFFICES ASSUME FramingInit PROVE FramingInv OBVIOUS
  <2>2. PICK n \in 1..MaxLines : input \in [1..n -> 1..MaxLength]
    BY <2>1 DEF FramingInit
  <2>3. input \in Seq(1..MaxLength) /\ Len(input) = n
    <3> DEFINE S == 1..MaxLength
    <3>1. n \in Nat /\ input \in [1..n -> S] BY <2>2, FramingAssumption
    <3> HIDE DEF S
    <3>2. input \in Seq(S) /\ Len(input) = n BY <3>1
    <3> QED BY <3>2 DEF S
  <2>4. /\ cut \in BOOLEAN /\ lineNo = 1 /\ offset = 0 /\ lineHeld = 0
        /\ framingAt = "collect" /\ packets = <<>>
    BY <2>1 DEF FramingInit
  <2>5. input[1] \in 1..MaxLength BY <2>2, FramingAssumption
  <2>6. FramedLines BY <2>3, <2>4, FramedMeans DEF Due
  <2> QED BY <2>2, <2>3, <2>4, <2>5, <2>6, FramingAssumption DEF FramingInv, AtEnd
<1> QED
  BY <1>1, FramingStep, PTL DEF FramingSpec

(* FramedLines: whatever the peer sends, wherever bufio's slices fall and  *)
(* wherever the connection breaks, ReadPacketBounded returns each complete *)
(* line within MaxPacketSize once, in order, and nothing else: discardLine *)
(* takes the rest of a line that is too long, and no more than that.       *)
THEOREM PacketsAreLines == FramingSpec => []FramedLines
<1>1. FramingInv => FramedLines BY DEF FramingInv
<1> QED
  BY <1>1, FramingInvariant, PTL

=============================================================================
