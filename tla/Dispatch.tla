------------------------------ MODULE Dispatch ------------------------------
(***************************************************************************)
(* What becomes of a packet: the pool it is taken from (internal/protocol, *)
(* packet.go), the readLoop, Send and the writerLoop of a device           *)
(* (internal/device/io.go), and the dispatch to a plugin with its time     *)
(* limit and its policy (internal/plugin/registry.go).                     *)
(*                                                                         *)
(* The devices share the pool.  A packet is an object: it may be taken     *)
(* from the pool or be a new one, and its memory is reused when nobody     *)
(* refers to it.  A handler is a goroutine that refers to its packet until *)
(* it returns, which may be long after the dispatch has given it up.       *)
(*                                                                         *)
(* Abstracted: contents and framing; what the plugins do, but that they    *)
(* may answer with a packet; the loops of a replaced session, which are in *)
(* Session; the handlers' panics, which end them like a return.            *)
(***************************************************************************)
EXTENDS Naturals, FiniteSets

CONSTANTS
    Links,      \* devices
    PacketObjs, \* packet objects (bound)
    QueueMax    \* capacity of a send channel

NoPacket == "no packet"

ASSUME DispatchAssumption ==
    /\ QueueMax \in Nat \ {0}
    /\ NoPacket \notin PacketObjs

VARIABLES
    pool,     \* packetPool: objects that may be acquired
    reading,  \* per device: the packet its readLoop has, or NoPacket
    readAt,   \* per device: where the readLoop is
    handlers, \* goroutines of Dispatch: the device and the packet
    outgoing, \* per device: the packets in its send channel
    writing,  \* per device: the packet its writerLoop has, or NoPacket
    trusts,   \* devices that are paired
    open,     \* devices with a session
    enabled   \* devices for which the policy allows the plugin

dispatchVars ==
    <<pool, reading, readAt, handlers, outgoing, writing, trusts, open, enabled>>

DispatchInit ==
    /\ pool = {}
    /\ reading = [d \in Links |-> NoPacket]
    /\ readAt = [d \in Links |-> "read"]
    /\ handlers = {}
    /\ outgoing = [d \in Links |-> {}]
    /\ writing = [d \in Links |-> NoPacket]
    /\ trusts \in {{}, Links} /\ open = Links /\ enabled \in {{}, Links}

(* What somebody refers to.                                                *)
Referred ==
    {reading[d] : d \in Links} \union {writing[d] : d \in Links}
        \union {h.packet : h \in handlers} \union UNION {outgoing[d] : d \in Links}

(* An object that is in nobody's hands: new memory, or collected garbage.  *)
NewObject(o)     == o \notin Referred \union pool
AcquirePacket(o) == o \in pool \/ NewObject(o)

ReadTo(d, place, o) ==
    /\ readAt' = [readAt EXCEPT ![d] = place]
    /\ reading' = [reading EXCEPT ![d] = o]

ReadDone(d) == ReadTo(d, "read", NoPacket)

(* packetAllowed.                                                          *)
PacketAllowed(d, kind) == d \in trusts \/ kind = "pair"

-----------------------------------------------------------------------------
(* The readLoop.                                                           *)

(* A packet arrives.  A malformed one goes back to the pool and the loop   *)
(* goes on.                                                                *)
ReadPacket(d, o) ==
    /\ d \in open /\ readAt[d] = "read" /\ AcquirePacket(o)
    /\ \/ ReadTo(d, "dispatch", o) /\ pool' = pool \ {o}
       \/ pool' = pool \union {o} /\ UNCHANGED <<readAt, reading>>
    /\ UNCHANGED <<handlers, outgoing, writing, trusts, open, enabled>>

(* Dispatch: a packet of a device that is not paired, of no plugin, or of  *)
(* a plugin that is not enabled is recycled; a handler gets any other.     *)
StartHandler(d, kind) ==
    /\ readAt[d] = "dispatch"
    /\ IF PacketAllowed(d, kind) /\ kind # "unknown" /\ d \in enabled
       THEN /\ handlers' = handlers \union {[dev |-> d, packet |-> reading[d]]}
            /\ ReadTo(d, "wait", reading[d])
            /\ UNCHANGED pool
       ELSE /\ pool' = pool \union {reading[d]}
            /\ ReadDone(d)
            /\ UNCHANGED handlers
    /\ UNCHANGED <<outgoing, writing, trusts, open, enabled>>

(* The handler returns, with an error or a panic all the same.             *)
HandlerReturns(h) ==
    /\ h \in handlers
    /\ handlers' = handlers \ {h}
    /\ UNCHANGED <<pool, reading, readAt, outgoing, writing, trusts, open, enabled>>

(* The dispatch has its result: the packet is recycled.                    *)
HandledInTime(d) ==
    /\ readAt[d] = "wait"
    /\ [dev |-> d, packet |-> reading[d]] \notin handlers
    /\ pool' = pool \union {reading[d]}
    /\ ReadDone(d)
    /\ UNCHANGED <<handlers, outgoing, writing, trusts, open, enabled>>

HandlerTimesOut_Recycled(d) ==
    /\ readAt[d] = "wait"
    /\ pool' = pool \union {reading[d]}
    /\ ReadDone(d)
    /\ UNCHANGED <<handlers, outgoing, writing, trusts, open, enabled>>

(* The time limit of the plugin, or the end of the context: the packet is  *)
(* left to the handler and to the collector, and the loop reads on.        *)
HandlerTimesOut(d) ==
    /\ readAt[d] = "wait"
    /\ ReadDone(d)
    /\ UNCHANGED <<pool, handlers, outgoing, writing, trusts, open, enabled>>

-----------------------------------------------------------------------------
(* Send, by a handler that answers or by a command; a packet to send is    *)
(* always a new object.                                                    *)

Queue(d, o) ==
    /\ outgoing' = [outgoing EXCEPT ![d] = @ \union {o}]
    /\ UNCHANGED pool

Drop(o) == pool' = pool \union {o} /\ UNCHANGED outgoing

(* policySender.Send and Device.Send: what is not allowed or finds a full  *)
(* channel is recycled, and the caller is told that all is well.           *)
Send(d, kind, o) ==
    /\ NewObject(o)
    /\ IF d \in enabled /\ d \in open /\ PacketAllowed(d, kind)
          /\ Cardinality(outgoing[d]) < QueueMax
       THEN Queue(d, o) ELSE Drop(o)
    /\ UNCHANGED <<reading, readAt, handlers, writing, trusts, open, enabled>>

(* The writerLoop takes a packet, and asks again whether it is allowed.    *)
TakePacket(d, kind) ==
    /\ d \in open /\ writing[d] = NoPacket
    /\ \E o \in outgoing[d] :
        /\ outgoing' = [outgoing EXCEPT ![d] = @ \ {o}]
        /\ IF PacketAllowed(d, kind)
           THEN writing' = [writing EXCEPT ![d] = o] /\ UNCHANGED pool
           ELSE pool' = pool \union {o} /\ UNCHANGED writing
    /\ UNCHANGED <<reading, readAt, handlers, trusts, open, enabled>>

EndSession(d) ==
    /\ open' = open \ {d}
    /\ outgoing' = [outgoing EXCEPT ![d] = {}]

(* A write that takes too long ends the session; the packet is recycled in *)
(* any case.                                                               *)
WritePacket(d) ==
    /\ writing[d] # NoPacket
    /\ writing' = [writing EXCEPT ![d] = NoPacket]
    /\ pool' = pool \union {writing[d]}
    /\ EndSession(d) \/ UNCHANGED <<open, outgoing>>
    /\ UNCHANGED <<reading, readAt, handlers, trusts, enabled>>

-----------------------------------------------------------------------------
(* A session ends, and its channel with what is in it; the next one has a  *)
(* readLoop of its own.                                                    *)
SessionEnds(d) ==
    /\ d \in open
    /\ EndSession(d)
    /\ UNCHANGED <<pool, reading, readAt, handlers, writing, trusts, enabled>>

SessionBegins(d) ==
    /\ d \notin open /\ readAt[d] = "read" /\ writing[d] = NoPacket
    /\ open' = open \union {d}
    /\ UNCHANGED <<pool, reading, readAt, handlers, outgoing, writing, trusts, enabled>>

PairingChanges(d) ==
    /\ trusts' = IF d \in trusts THEN trusts \ {d} ELSE trusts \union {d}
    /\ UNCHANGED <<pool, reading, readAt, handlers, outgoing, writing, open, enabled>>

(* SetDevicePluginPolicy, with a reload of the configuration.              *)
SetDevicePluginPolicy(d) ==
    /\ enabled' = IF d \in enabled THEN enabled \ {d} ELSE enabled \union {d}
    /\ UNCHANGED <<pool, reading, readAt, handlers, outgoing, writing, trusts, open>>

DispatchNext ==
    \/ \E d \in Links, o \in PacketObjs : ReadPacket(d, o)
    \/ \E d \in Links, kind \in {"pair", "plugin", "unknown"} : StartHandler(d, kind)
    \/ \E h \in handlers : HandlerReturns(h)
    \/ \E d \in Links, kind \in {"pair", "plugin"} :
        TakePacket(d, kind) \/ \E o \in PacketObjs : Send(d, kind, o)
    \/ \E d \in Links :
        \/ HandledInTime(d) \/ HandlerTimesOut(d) \/ WritePacket(d)
        \/ SessionEnds(d) \/ SessionBegins(d)
        \/ PairingChanges(d) \/ SetDevicePluginPolicy(d)

DispatchSpec == DispatchInit /\ [][DispatchNext]_dispatchVars

-----------------------------------------------------------------------------
(* Properties.                                                             *)

DispatchTypeOK ==
    /\ pool \subseteq PacketObjs
    /\ reading \in [Links -> PacketObjs \union {NoPacket}]
    /\ readAt \in [Links -> {"read", "dispatch", "wait"}]
    /\ handlers \subseteq [dev : Links, packet : PacketObjs]
    /\ outgoing \in [Links -> SUBSET PacketObjs]
    /\ writing \in [Links -> PacketObjs \union {NoPacket}]
    /\ trusts \subseteq Links /\ open \subseteq Links /\ enabled \subseteq Links

(* A packet that a handler may still read is not recycled under it: it is  *)
(* not in the pool, in no queue, and no other loop fills or sends it - not *)
(* even when the dispatch gave the handler up long ago, or the pool serves *)
(* another device meanwhile.                                               *)
NoUseAfterRecycle ==
    \A h \in handlers :
        /\ h.packet \notin pool
        /\ \A d \in Links :
            /\ h.packet \notin outgoing[d] \union {writing[d]}
            /\ reading[d] = h.packet => d = h.dev /\ readAt[d] = "wait"
        /\ \A g \in handlers : g.packet = h.packet => g = h

=============================================================================
