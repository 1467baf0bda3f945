------------------------------- MODULE Pairing -------------------------------
(***************************************************************************)
(* The pairing state machine of one device: the pair plugin                *)
(* (internal/plugins/pair) over the device's pairing state                 *)
(* (internal/device).                                                      *)
(*                                                                         *)
(* Three kinds of goroutine run it at once: IPC commands of the local user *)
(* (pair, unpair), packet handlers started by the plugin registry for what *)
(* the peer sends, and the callbacks of the pending-request timer.  A step *)
(* here is one section under PairPlugin.mu, or one atomic access to the    *)
(* device, exactly as the code divides its work: between two steps of one  *)
(* goroutine every other goroutine may run.                                *)
(*                                                                         *)
(* A pair command for a device without a session (internal/daemon/         *)
(* pairdial.go) marks an intent and goes on as the goroutine of the dial   *)
(* it starts.  Whether there is a session, and whether a dial has brought  *)
(* one, is module Session's: here either may be so at any time, and so may *)
(* a sighting, which uses the trigger of the intent up.                    *)
(*                                                                         *)
(* Abstracted: the peer is the set of pair packets it may send, at any     *)
(* time; a verification code is named by whose request time stamp it was   *)
(* computed from.  Send only queues a packet for the link and never fails  *)
(* (internal/device/io.go): it changes nothing of this module's state, so  *)
(* it is left to module Session, with the error branches after it, which   *)
(* are unreachable.                                                        *)
(***************************************************************************)
EXTENDS Integers, FiniteSets

CONSTANTS
    Users,          \* goroutines of IPC pair and unpair commands, and dials
    Handlers,       \* goroutines of Dispatch for pair packets
    AcceptRequests, \* [pairing].accept_requests: "ask" or "never"
    LegacyPeer,     \* the peer speaks a protocol older than version 8
    MaxCommands,    \* bound: IPC commands issued
    MaxPackets      \* bound: pair packets received

ASSUME PairingAssumption ==
    /\ Users \cap Handlers = {}
    /\ IsFiniteSet(Users) /\ IsFiniteSet(Handlers)
    /\ AcceptRequests \in {"ask", "never"}
    /\ LegacyPeer \in BOOLEAN
    /\ MaxCommands \in Nat
    /\ MaxPackets \in Nat

Threads == Users \cup Handlers

Pending == {"PairRequested", "PairRequestedByPeer"}
States  == Pending \cup {"Unpaired", "Paired"}

(* The pair packets a peer sends: pair=false, and pair=true with a time    *)
(* stamp in the allowed window, with one outside it, or with none.         *)
Packets == {"reject", "dated", "stale", "undated"}

(* Where a goroutine is: "idle", or the next section it executes.          *)
Places == {"idle", "intend", "dial", "proceed",
           "accept", "acceptStop", "complete", "completed",
           "stamp", "request",
           "unpair", "unpairMarks", "unpairStamp",
           "readKey", "incoming", "announce",
           "declined", "declinedMarks", "declinedStamp"}

VARIABLES
    state,             \* Device.state
    pendingGeneration, \* PairPlugin.pendingGeneration[id], 0 when absent
    nextGeneration,    \* PairPlugin.nextGeneration
    armed,             \* timers scheduled and not yet fired
    fired,             \* timer callbacks that run and have not taken mu yet
    expiring,          \* callbacks that expired a request, reject not sent
    stampOf,           \* whose request PairPlugin.pairingTimestamp[id] is of
    marks,             \* Device discovery markers: ephemeral dial, pair dial
                       \* (the one-shot trigger), keep (the intent's hold)
    tardy,             \* marks of an intent set when already Paired (history)
    pc, seen, key,     \* per goroutine: place, state read, code computed
    owed,              \* per goroutine: lifecycle callback still to be called
    hooks,             \* onPaired calls minus onUnpaired calls
    commands, packets  \* inputs so far

vars == <<state, pendingGeneration, nextGeneration, armed, fired, expiring,
          stampOf, marks, tardy, pc, seen, key, owed, hooks, commands, packets>>

timerVars == <<pendingGeneration, nextGeneration, armed>>
callbacks == <<fired, expiring>>
markers   == <<marks, tardy>>
notes     == <<stampOf, markers>>
locals    == <<seen, key>>
inputs    == <<commands, packets>>

Timers == [gen : Nat, expects : Pending]

(* A device loaded from disk is Unpaired or Paired (registry_persistence   *)
(* resets pending ones); a paired device's plugins were notified when it   *)
(* connected.                                                              *)
Init ==
    /\ state \in {"Unpaired", "Paired"}
    /\ pendingGeneration = 0
    /\ nextGeneration = 0
    /\ armed = {}
    /\ fired = {}
    /\ expiring = {}
    /\ stampOf = "none"
    /\ marks = IF state = "Paired" THEN {} ELSE {"ephemeral"}
    /\ tardy = {}
    /\ pc = [t \in Threads |-> "idle"]
    /\ seen = [t \in Threads |-> "Unpaired"]
    /\ key = [t \in Threads |-> "none"]
    /\ owed = [t \in Threads |-> "none"]
    /\ hooks = IF state = "Paired" THEN 1 ELSE 0
    /\ commands = 0
    /\ packets = 0

-----------------------------------------------------------------------------
(* Timers and state changes, all under PairPlugin.mu.  (A definition whose *)
(* name has a suffix after "_", here and in the other modules, is a        *)
(* plausible bug in the definition it precedes, used to check that a       *)
(* property notices it.)                                                   *)

(* Stop removes a timer that has not fired; a callback already running is  *)
(* not recalled, only its generation is forgotten.                         *)
cancelPendingTimer ==
    /\ armed' = {}
    /\ pendingGeneration' = 0
    /\ UNCHANGED nextGeneration

schedulePendingTimer(next) ==
    /\ nextGeneration' = nextGeneration + 1
    /\ pendingGeneration' = nextGeneration + 1
    /\ armed' = {[gen |-> nextGeneration + 1, expects |-> next]}

updatePendingTimer_NoTimer(next) == cancelPendingTimer

updatePendingTimer(next) ==
    IF next \in Pending THEN schedulePendingTimer(next)
                        ELSE cancelPendingTimer

(* The callback notifyStateChanged makes after mu is released.             *)
Callback(previous, next) ==
    CASE previous = "Paired" /\ next # "Paired" -> "onUnpaired"
      [] previous # "Paired" /\ next = "Paired" -> "onPaired"
      [] OTHER -> "none"

changeState(t, next) ==
    /\ state' = next
    /\ owed' = [owed EXCEPT ![t] = Callback(state, next)]
    /\ IF state = next THEN UNCHANGED timerVars ELSE updatePendingTimer(next)

Goto(t, place) == pc' = [pc EXCEPT ![t] = place]

(* A goroutine is at place p and owes no callback: a callback is called    *)
(* before the goroutine's next statement.                                  *)
At(t, p) == pc[t] = p /\ owed[t] = "none"

(* notifyStateChanged, outside mu: the hooks of the other plugins run now. *)
Notify(t) ==
    /\ owed[t] # "none"
    /\ hooks' = IF owed[t] = "onPaired" THEN hooks + 1 ELSE hooks - 1
    /\ owed' = [owed EXCEPT ![t] = "none"]
    /\ UNCHANGED <<state, timerVars, callbacks, notes, pc, locals, inputs>>

-----------------------------------------------------------------------------
(* IPC pair: accept the peer's pending request, or send one of our own.    *)

ToPair == CASE state = "PairRequestedByPeer" -> "accept"
            [] state = "Paired"              -> "idle"
            [] OTHER                         -> "stamp"

(* With a session the command pairs at once; without one the hook first    *)
(* looks whether the device is Paired and then marks an intent.            *)
PairCommand(u) ==
    /\ At(u, "idle")
    /\ commands < MaxCommands
    /\ commands' = commands + 1
    /\ \/ Goto(u, ToPair)
       \/ Goto(u, IF state = "Paired" THEN "idle" ELSE "intend")
    /\ UNCHANGED <<state, timerVars, callbacks, notes, locals, owed, hooks,
                   packets>>

Intent == {"pairDial", "keep"}

(* A device whose address is known is dialled at once.                     *)
RequestPairDial(u) ==
    /\ At(u, "intend")
    /\ marks' = marks \cup Intent
    /\ tardy' = IF state = "Paired" THEN Intent ELSE {}
    /\ Goto(u, "dial") \/ Goto(u, "idle")
    /\ UNCHANGED <<state, timerVars, callbacks, stampOf, locals, owed, hooks,
                   inputs>>

(* The dial has failed, or ConsumePairDial: the device has a session, by   *)
(* this dial or another connection.                                        *)
DialReturns(u) ==
    /\ At(u, "dial")
    /\ \/ Goto(u, "idle") /\ UNCHANGED markers
       \/ /\ Goto(u, "proceed")
          /\ marks' = marks \ {"pairDial"}
          /\ tardy' = tardy \ {"pairDial"}
    /\ UNCHANGED <<state, timerVars, callbacks, stampOf, locals, owed, hooks,
                   inputs>>

(* The hook goes on as the command of a connected device does.             *)
ProceedToPair(u) ==
    /\ At(u, "proceed")
    /\ Goto(u, ToPair)
    /\ UNCHANGED <<state, timerVars, callbacks, notes, locals, owed, hooks,
                   inputs>>

(* A sighting dials with the trigger; the hold ends by time.               *)
IntentWanes ==
    /\ \E mark \in marks \cap Intent :
          marks' = marks \ {mark} /\ tardy' = tardy \ {mark}
    /\ UNCHANGED <<state, timerVars, callbacks, stampOf, pc, locals, owed,
                   hooks, inputs>>

AcceptPairing(u) ==
    /\ At(u, "accept")
    /\ IF state \in Pending
       THEN Goto(u, "acceptStop") /\ seen' = [seen EXCEPT ![u] = state]
       ELSE Goto(u, "idle") /\ UNCHANGED seen
    /\ UNCHANGED <<state, timerVars, callbacks, notes, key, owed, hooks,
                   inputs>>

stopPendingTimeout(u) ==
    /\ At(u, "acceptStop")
    /\ IF state = seen[u]
       THEN Goto(u, "complete") /\ cancelPendingTimer
       ELSE Goto(u, "idle") /\ UNCHANGED timerVars
    /\ seen' = [seen EXCEPT ![u] = "Unpaired"]
    /\ UNCHANGED <<state, callbacks, notes, key, owed, hooks, inputs>>

transitionPendingToPaired_Blind(t) ==
    /\ At(t, "complete")
    /\ state' = "Paired"
    /\ owed' = [owed EXCEPT ![t] = "onPaired"]
    /\ cancelPendingTimer
    /\ Goto(t, "completed")
    /\ UNCHANGED <<callbacks, notes, locals, hooks, inputs>>

(* pairingDone, also a handler's when the peer accepts our request.        *)
transitionPendingToPaired(t) ==
    /\ At(t, "complete")
    /\ IF state \in Pending
       THEN /\ state' = "Paired"
            /\ owed' = [owed EXCEPT ![t] = "onPaired"]
            /\ cancelPendingTimer
            /\ Goto(t, "completed")
       ELSE /\ Goto(t, "idle")
            /\ UNCHANGED <<state, owed, timerVars>>
    /\ UNCHANGED <<callbacks, notes, locals, hooks, inputs>>

PairingDone_KeepsIntent(t) ==
    /\ At(t, "completed")
    /\ stampOf' = "none"
    /\ Goto(t, "idle")
    /\ UNCHANGED <<state, timerVars, callbacks, markers, locals, owed, hooks,
                   inputs>>

(* ClearPairDial, then delete(pairingTimestamp).                           *)
PairingDone(t) ==
    /\ At(t, "completed")
    /\ marks' = marks \ Intent
    /\ tardy' = {}
    /\ stampOf' = "none"
    /\ Goto(t, "idle")
    /\ UNCHANGED <<state, timerVars, callbacks, locals, owed, hooks,
                   inputs>>

StampRequest(u) ==
    /\ At(u, "stamp")
    /\ stampOf' = "ours"
    /\ Goto(u, "request")
    /\ UNCHANGED <<state, timerVars, callbacks, markers, locals, owed, hooks,
                   inputs>>

RequestPairing(u) ==
    /\ At(u, "request")
    /\ changeState(u, "PairRequested")
    /\ Goto(u, "idle")
    /\ UNCHANGED <<callbacks, notes, locals, hooks, inputs>>

-----------------------------------------------------------------------------
(* IPC unpair, and pair with reject: both send pair=false.                 *)

UnpairCommand(u) ==
    /\ At(u, "idle")
    /\ commands < MaxCommands
    /\ commands' = commands + 1
    /\ Goto(u, "unpair")
    /\ UNCHANGED <<state, timerVars, callbacks, notes, locals, owed, hooks,
                   packets>>

Unpair(u) ==
    /\ At(u, "unpair")
    /\ changeState(u, "Unpaired")
    /\ Goto(u, "unpairMarks")
    /\ UNCHANGED <<callbacks, notes, locals, hooks, inputs>>

(* ClearEphemeral and ClearPairDial, then delete(pairingTimestamp).        *)
ClearMarks(t, from, to) ==
    /\ At(t, from)
    /\ marks' = {} /\ tardy' = {}
    /\ Goto(t, to)
    /\ UNCHANGED <<state, timerVars, callbacks, stampOf, locals, owed,
                   hooks, inputs>>

ClearStamp(t, from) ==
    /\ At(t, from)
    /\ stampOf' = "none"
    /\ Goto(t, "idle")
    /\ UNCHANGED <<state, timerVars, callbacks, markers, locals, owed, hooks,
                   inputs>>

-----------------------------------------------------------------------------
(* A pair packet of the peer.                                              *)

(* handlePairRequest turns a request away without asking the user.         *)
Refused(packet) ==
    \/ AcceptRequests = "never"
    \/ packet = "stale"
    \/ packet = "undated" /\ ~LegacyPeer

handlePairRequest(h, packet) ==
    /\ packet # "reject"
    /\ LET fresh  == state \in {"Paired", "Unpaired"}
           refuse == fresh /\ Refused(packet)
           start  == fresh /\ ~refuse
       IN /\ Goto(h, CASE state = "PairRequested" -> "complete"
                       [] start                   -> "readKey"
                       [] OTHER                   -> "idle")
          /\ stampOf' = IF start /\ packet = "dated" THEN "theirs" ELSE stampOf

handleUnpairRequest(h, packet) ==
    /\ packet = "reject"
    /\ Goto(h, IF state = "Unpaired" THEN "declinedStamp" ELSE "declined")
    /\ UNCHANGED stampOf

(* Handle reads the state once; what it then does may find it changed.     *)
Handle(h) ==
    /\ At(h, "idle")
    /\ packets < MaxPackets
    /\ packets' = packets + 1
    /\ \E packet \in Packets :
          handlePairRequest(h, packet) \/ handleUnpairRequest(h, packet)
    /\ UNCHANGED <<state, timerVars, callbacks, markers, locals, owed, hooks,
                   commands>>

(* startIncomingRequest: the code is computed, the state set, the event    *)
(* published.                                                              *)
ReadKey(h) ==
    /\ At(h, "readKey")
    /\ key' = [key EXCEPT ![h] = stampOf]
    /\ Goto(h, "incoming")
    /\ UNCHANGED <<state, timerVars, callbacks, notes, seen, owed, hooks,
                   inputs>>

StartIncoming(h) ==
    /\ At(h, "incoming")
    /\ changeState(h, "PairRequestedByPeer")
    /\ Goto(h, "announce")
    /\ UNCHANGED <<callbacks, notes, locals, hooks, inputs>>

Announce(h) ==
    /\ At(h, "announce")
    /\ key' = [key EXCEPT ![h] = "none"]
    /\ Goto(h, "idle")
    /\ UNCHANGED <<state, timerVars, callbacks, notes, seen, owed, hooks,
                   inputs>>

Declined(h) ==
    /\ At(h, "declined")
    /\ changeState(h, "Unpaired")
    /\ Goto(h, "declinedMarks")
    /\ UNCHANGED <<callbacks, notes, locals, hooks, inputs>>

-----------------------------------------------------------------------------
(* The pending-request timer.                                              *)

Fire(timer) ==
    /\ timer \in armed
    /\ armed' = armed \ {timer}
    /\ fired' = fired \cup {timer}
    /\ UNCHANGED <<state, pendingGeneration, nextGeneration, expiring,
                   notes, pc, locals, owed, hooks, inputs>>

expirePending_AnyGeneration(timer) ==
    /\ timer \in fired
    /\ fired' = fired \ {timer}
    /\ cancelPendingTimer
    /\ IF state = timer.expects
       THEN /\ state' = "Unpaired"
            /\ stampOf' = "none"
            /\ expiring' = expiring \cup {timer}
       ELSE UNCHANGED <<state, stampOf, expiring>>
    /\ UNCHANGED <<markers, pc, locals, owed, hooks, inputs>>

(* A callback of a request that was settled meanwhile finds another        *)
(* generation and returns.                                                 *)
expirePending(timer) ==
    /\ timer \in fired
    /\ fired' = fired \ {timer}
    /\ IF pendingGeneration # timer.gen
       THEN UNCHANGED <<state, timerVars, stampOf, expiring>>
       ELSE /\ cancelPendingTimer
            /\ IF state = timer.expects
               THEN /\ state' = "Unpaired"
                    /\ stampOf' = "none"
                    /\ expiring' = expiring \cup {timer}
               ELSE UNCHANGED <<state, stampOf, expiring>>
    /\ UNCHANGED <<markers, pc, locals, owed, hooks, inputs>>

(* After mu is released: clear the markers and tell the peer.              *)
RejectExpired(timer) ==
    /\ timer \in expiring
    /\ expiring' = expiring \ {timer}
    /\ marks' = {} /\ tardy' = {}
    /\ UNCHANGED <<state, timerVars, fired, stampOf, pc, locals, owed,
                   hooks, inputs>>

-----------------------------------------------------------------------------
UserStep(u) ==
    \/ RequestPairDial(u) \/ DialReturns(u) \/ ProceedToPair(u)
    \/ AcceptPairing(u) \/ stopPendingTimeout(u)
    \/ StampRequest(u) \/ RequestPairing(u)
    \/ Unpair(u)
    \/ ClearMarks(u, "unpairMarks", "unpairStamp")
    \/ ClearStamp(u, "unpairStamp")

HandlerStep(h) ==
    \/ ReadKey(h) \/ StartIncoming(h) \/ Announce(h)
    \/ Declined(h)
    \/ ClearMarks(h, "declinedMarks", "declinedStamp")
    \/ ClearStamp(h, "declinedStamp")

ThreadStep(t) ==
    \/ Notify(t) \/ transitionPendingToPaired(t) \/ PairingDone(t)
    \/ t \in Users /\ UserStep(t)
    \/ t \in Handlers /\ HandlerStep(t)

TimerStep(timer) ==
    Fire(timer) \/ expirePending(timer) \/ RejectExpired(timer)

Next ==
    \/ \E u \in Users : PairCommand(u) \/ UnpairCommand(u)
    \/ \E h \in Handlers : Handle(h)
    \/ \E t \in Threads : ThreadStep(t)
    \/ \E timer \in armed \cup fired \cup expiring : TimerStep(timer)
    \/ IntentWanes

Spec == Init /\ [][Next]_vars

(* Goroutines keep running, and the runtime fires a timer that is due: the *)
(* wait is bounded by pendingTimeout.  Nothing is assumed of the user or   *)
(* the peer.                                                               *)
Fairness ==
    /\ \A t \in Threads : WF_vars(ThreadStep(t))
    /\ WF_vars(\E timer \in armed \cup fired \cup expiring : TimerStep(timer))

FairSpec == Spec /\ Fairness
-----------------------------------------------------------------------------
(* Every variable has the values the code can give it; the lifecycle       *)
(* callbacks of a goroutine and its place agree on who may run what.       *)
TypeOK ==
    /\ state \in States
    /\ pendingGeneration \in Nat
    /\ nextGeneration \in Nat
    /\ armed \subseteq Timers
    /\ fired \subseteq Timers
    /\ expiring \subseteq Timers
    /\ stampOf \in {"none", "ours", "theirs"}
    /\ marks \subseteq {"ephemeral"} \cup Intent
    /\ tardy \subseteq Intent
    /\ pc \in [Threads -> Places]
    /\ seen \in [Threads -> States]
    /\ key \in [Threads -> {"none", "ours", "theirs"}]
    /\ owed \in [Threads -> {"none", "onPaired", "onUnpaired"}]
    /\ hooks \in Int
    /\ commands \in 0..MaxCommands
    /\ packets \in 0..MaxPackets

(* A timer, scheduled or with its callback waiting for mu, that will end   *)
(* the current request.                                                    *)
Timed == \E timer \in armed \cup fired :
            /\ timer.gen = pendingGeneration
            /\ timer.expects = state

(* An accept command that has stopped the timer and will settle the        *)
(* request itself.                                                         *)
BeingAccepted == \E u \in Users : pc[u] = "complete"

(* A pending request can never be left to hang (updatePendingTimerLocked,  *)
(* stopPendingTimeout): whatever interleaving of commands, packets and     *)
(* callbacks led here, either the timer of exactly this request is live or *)
(* the command that stopped it is still on its way to settling it.         *)
PendingIsTimed == state \in Pending => Timed \/ BeingAccepted

(* A callback that blocks on mu while its request is settled and another   *)
(* one starts does not end that later request (the generation check of     *)
(* expirePending): only the last timer scheduled ever changes the state.   *)
ExpiryEndsOwnRequest ==
    [][\A timer \in fired :
          timer \notin fired' /\ state' # state => timer.gen = nextGeneration]_vars

Owing(callback) == {t \in Threads : owed[t] = callback}

(* Every entry into Paired calls the plugins' OnConnect once and every     *)
(* exit calls OnDisconnect once (notifyStateChanged), although the calls   *)
(* run outside mu: counting the calls still to be made, they balance.      *)
HooksBalanced ==
    hooks + Cardinality(Owing("onPaired")) - Cardinality(Owing("onUnpaired"))
        = IF state = "Paired" THEN 1 ELSE 0

Quiet == /\ \A t \in Threads : pc[t] = "idle" /\ owed[t] = "none"
         /\ expiring = {}

(* A pair command may mark its intent at any moment of a pairing that      *)
(* somebody else brings to its end.  Once every goroutine is done, no      *)
(* intent that was marked before the pairing completed is left             *)
(* (ClearPairDial of pairingDone comes after the transition): the one that *)
(* may be is of a command that had looked before and marked after.         *)
NoStaleIntent == Quiet /\ state = "Paired" => marks \cap Intent \subseteq tardy

(* Every request, ours or the peer's, is settled: accepted, declined or    *)
(* expired (pending timers of lifecycle.go).                               *)
RequestsSettle == state \in Pending ~> state \notin Pending

(* What pairing promises the rest of the daemon, to which a request is a   *)
(* request, whoever made it.                                               *)
Standing == IF state \in Pending THEN "asked"
            ELSE IF state = "Paired" THEN "trusted"
            ELSE "none"

Contract == INSTANCE PairingContract WITH standing <- Standing
ImplementsContract == Contract!Spec

(* The code the user is shown for the peer's request is the code of that   *)
(* request (startIncomingRequest); the documentation has the user compare  *)
(* it with the peer's.                                                     *)
AnnouncedCodeIsTheirs ==
    \A h \in Handlers : At(h, "announce") => key[h] = "theirs"
=============================================================================
