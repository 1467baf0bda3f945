---------------------------- MODULE PairingProofs ----------------------------
(* Proofs about module Pairing, for any number of goroutines, commands and *)
(* packets.                                                                *)
EXTENDS Pairing, FiniteSetTheorems, TLAPS

(* The generations under mu: the current one is the last one issued, no    *)
(* live timer is newer, none has the generation of an absent entry.        *)
GenerationsInv ==
    /\ pendingGeneration \in {0, nextGeneration}
    /\ \A timer \in armed \cup fired :
          /\ timer.gen \in 1..nextGeneration
          /\ timer.gen = pendingGeneration => timer.expects = state

(* The inductive invariant: PendingIsTimed alone does not survive a        *)
(* callback that finds its generation current but another state.           *)
IInv == GenerationsInv /\ PendingIsTimed

-----------------------------------------------------------------------------
(* Every step keeps every variable in its type.                            *)
LEMMA TypeInductive == TypeOK /\ [Next]_vars => TypeOK'
<1> SUFFICES ASSUME TypeOK, [Next]_vars PROVE TypeOK'
  OBVIOUS
<1> USE PairingAssumption
    DEF TypeOK, Threads, Goto, At, timerVars, callbacks, markers, notes, locals,
        inputs
<1>1. ASSUME NEW u \in Users, PairCommand(u) \/ UnpairCommand(u)
      PROVE  TypeOK'
  BY <1>1 DEF PairCommand, UnpairCommand, ToPair, Places
<1>2. ASSUME NEW h \in Handlers, Handle(h)
      PROVE  TypeOK'
  BY <1>2 DEF Handle, handlePairRequest, handleUnpairRequest, Places
<1>3. ASSUME NEW t \in Threads, Notify(t)
      PROVE  TypeOK'
  BY <1>3 DEF Notify
<1>4. ASSUME NEW t \in Threads, transitionPendingToPaired(t) \/ PairingDone(t)
      PROVE  TypeOK'
  <2>1. CASE transitionPendingToPaired(t)
    BY <2>1 DEF transitionPendingToPaired, cancelPendingTimer, Places, States
  <2>2. CASE PairingDone(t)
    BY <2>2 DEF PairingDone, Intent, Places
  <2> QED
    BY <1>4, <2>1, <2>2
<1>5. ASSUME NEW u \in Users, UserStep(u)
      PROVE  TypeOK'
  <2> USE DEF Places, States, Pending, Timers
  <2>1. CASE AcceptPairing(u)
    BY <2>1 DEF AcceptPairing
  <2>2. CASE stopPendingTimeout(u)
    BY <2>2 DEF stopPendingTimeout, cancelPendingTimer
  <2>3. CASE StampRequest(u)
    BY <2>3 DEF StampRequest
  <2>4. CASE RequestPairing(u)
    BY <2>4 DEF RequestPairing, changeState, updatePendingTimer,
                schedulePendingTimer, cancelPendingTimer, Callback
  <2>5. CASE Unpair(u)
    BY <2>5 DEF Unpair, changeState, updatePendingTimer, cancelPendingTimer,
                Callback
  <2>6. CASE ClearMarks(u, "unpairMarks", "unpairStamp")
    BY <2>6 DEF ClearMarks
  <2>7. CASE ClearStamp(u, "unpairStamp")
    BY <2>7 DEF ClearStamp
  <2>8. CASE RequestPairDial(u)
    BY <2>8 DEF RequestPairDial, Intent
  <2>9. CASE DialReturns(u)
    BY <2>9 DEF DialReturns, Intent
  <2>10. CASE ProceedToPair(u)
    BY <2>10 DEF ProceedToPair, ToPair
  <2> QED
    BY <1>5, <2>1, <2>2, <2>3, <2>4, <2>5, <2>6, <2>7, <2>8, <2>9, <2>10 DEF UserStep
<1>6. ASSUME NEW h \in Handlers, HandlerStep(h)
      PROVE  TypeOK'
  <2> USE DEF Places, States, Pending, Timers
  <2>1. CASE ReadKey(h)
    BY <2>1 DEF ReadKey
  <2>2. CASE Announce(h)
    BY <2>2 DEF Announce
  <2>3. CASE StartIncoming(h)
    BY <2>3 DEF StartIncoming, changeState, updatePendingTimer,
                schedulePendingTimer, cancelPendingTimer, Callback
  <2>4. CASE Declined(h)
    BY <2>4 DEF Declined, changeState, updatePendingTimer,
                cancelPendingTimer, Callback
  <2>5. CASE ClearMarks(h, "declinedMarks", "declinedStamp")
    BY <2>5 DEF ClearMarks
  <2>6. CASE ClearStamp(h, "declinedStamp")
    BY <2>6 DEF ClearStamp
  <2> QED
    BY <1>6, <2>1, <2>2, <2>3, <2>4, <2>5, <2>6 DEF HandlerStep
<1>7. ASSUME NEW timer \in armed \cup fired \cup expiring, TimerStep(timer)
      PROVE  TypeOK'
  <2>1. CASE Fire(timer)
    BY <2>1 DEF Fire
  <2>2. CASE expirePending(timer)
    BY <2>2 DEF expirePending, cancelPendingTimer, States
  <2>3. CASE RejectExpired(timer)
    BY <2>3 DEF RejectExpired
  <2> QED
    BY <1>7, <2>1, <2>2, <2>3 DEF TimerStep
<1>8. CASE IntentWanes
  BY <1>8 DEF IntentWanes
<1>9. CASE UNCHANGED vars
  BY <1>9 DEF vars
<1> QED
  BY <1>1, <1>2, <1>3, <1>4, <1>5, <1>6, <1>7, <1>8, <1>9 DEF Next, ThreadStep

(* TypeOK holds throughout: the pairing state, timers and goroutines of    *)
(* the pair plugin keep their types.                                       *)
THEOREM TypeCorrect == Spec => []TypeOK
<1>1. Init => TypeOK
  BY PairingAssumption DEF Init, TypeOK, States, Pending, Places
<1> QED
  BY <1>1, TypeInductive, PTL DEF Spec

-----------------------------------------------------------------------------
(* The invariant survives any change of state that goes through            *)
(* changeState: a pending state gets a timer of a new generation, a        *)
(* settled one forgets its generation.                                     *)
LEMMA ChangeStateKeepsIInv ==
    ASSUME TypeOK, IInv, NEW t \in Threads, NEW next \in States,
           changeState(t, next), UNCHANGED fired,
           \A u \in Users : pc[u] = "complete" => pc'[u] = "complete"
    PROVE  IInv'
<1> USE DEF TypeOK, IInv, GenerationsInv, Timers, timerVars
<1>1. CASE state = next
  BY <1>1 DEF changeState, PendingIsTimed, Timed, BeingAccepted
<1>2. CASE state # next /\ next \in Pending
  <2>1. /\ state' = next
        /\ nextGeneration' = nextGeneration + 1
        /\ pendingGeneration' = nextGeneration + 1
        /\ armed' = {[gen |-> nextGeneration + 1, expects |-> next]}
    BY <1>2 DEF changeState, updatePendingTimer, schedulePendingTimer
  <2>2. Timed'
    <3> DEFINE new == [gen |-> nextGeneration + 1, expects |-> next]
    <3>1. new \in (armed \cup fired)'
      BY <2>1
    <3>2. new.gen = pendingGeneration' /\ new.expects = state'
      BY <2>1
    <3> QED
      BY <3>1, <3>2 DEF Timed
  <2>3. GenerationsInv'
    <3>1. ASSUME NEW timer \in armed' \cup fired'
          PROVE  /\ timer.gen \in 1..nextGeneration'
                 /\ timer.gen = pendingGeneration' => timer.expects = state'
      <4>1. CASE timer \in armed'
        BY <2>1, <4>1
      <4>2. CASE timer \in fired
        <5>1. timer.gen \in 1..nextGeneration
          BY <4>2
        <5> QED
          BY <2>1, <5>1
      <4> QED
        BY <3>1, <4>1, <4>2
    <3> QED
      BY <2>1, <3>1
  <2> QED
    BY <2>2, <2>3 DEF PendingIsTimed
<1>3. CASE state # next /\ next \notin Pending
  <2>1. /\ state' = next
        /\ nextGeneration' = nextGeneration
        /\ pendingGeneration' = 0
        /\ armed' = {}
    BY <1>3 DEF changeState, updatePendingTimer, cancelPendingTimer
  <2> QED
    BY <2>1, <1>3 DEF PendingIsTimed
<1> QED
  BY <1>1, <1>2, <1>3

(* So does a step that leaves the device and the timers alone and takes no *)
(* goroutine away from the settling of a request.                          *)
LEMMA OtherStepKeepsIInv ==
    ASSUME IInv, UNCHANGED <<state, timerVars, fired>>,
           \A u \in Users : pc[u] = "complete" => pc'[u] = "complete"
    PROVE  IInv'
BY DEF IInv, GenerationsInv, timerVars, PendingIsTimed, Timed, BeingAccepted

LEMMA IInvInductive == TypeOK /\ IInv /\ [Next]_vars => IInv'
<1> SUFFICES ASSUME TypeOK, IInv, [Next]_vars PROVE IInv'
  OBVIOUS
<1> USE PairingAssumption DEF Threads, Goto, At, callbacks, inputs
<1>1. ASSUME NEW u \in Users, PairCommand(u) \/ UnpairCommand(u)
      PROVE  IInv'
  BY <1>1, OtherStepKeepsIInv DEF PairCommand, UnpairCommand, TypeOK
<1>2. ASSUME NEW h \in Handlers, Handle(h)
      PROVE  IInv'
  <2>1. \A u \in Users : pc'[u] = pc[u]
    BY <1>2 DEF Handle, handlePairRequest, handleUnpairRequest, TypeOK
  <2> QED
    BY <1>2, <2>1, OtherStepKeepsIInv DEF Handle
<1>3. ASSUME NEW t \in Threads, Notify(t)
      PROVE  IInv'
  BY <1>3, OtherStepKeepsIInv DEF Notify
<1>4. ASSUME NEW t \in Threads, transitionPendingToPaired(t)
      PROVE  IInv'
  <2>1. CASE state \in Pending
    <3>1. /\ state' = "Paired"
          /\ pendingGeneration' = 0
          /\ nextGeneration' = nextGeneration
          /\ armed' = {} /\ fired' = fired
      BY <1>4, <2>1 DEF transitionPendingToPaired, cancelPendingTimer
    <3> QED
      BY <3>1 DEF IInv, GenerationsInv, PendingIsTimed, Pending
  <2>2. CASE state \notin Pending
    <3>1. UNCHANGED <<state, timerVars, fired>>
      BY <1>4, <2>2 DEF transitionPendingToPaired
    <3> QED
      BY <2>2, <3>1 DEF IInv, GenerationsInv, timerVars, PendingIsTimed
  <2> QED
    BY <2>1, <2>2
<1>5. ASSUME NEW t \in Threads, PairingDone(t)
      PROVE  IInv'
  BY <1>5, OtherStepKeepsIInv DEF PairingDone, TypeOK
<1>6. ASSUME NEW u \in Users, UserStep(u)
      PROVE  IInv'
  <2>1. CASE AcceptPairing(u)
    BY <2>1, OtherStepKeepsIInv DEF AcceptPairing, TypeOK
  <2>2. CASE stopPendingTimeout(u)
    <3>1. CASE state = seen[u]
      <4>1. /\ pendingGeneration' = 0
            /\ nextGeneration' = nextGeneration
            /\ armed' = {} /\ fired' = fired
            /\ pc'[u] = "complete"
        BY <2>2, <3>1 DEF stopPendingTimeout, cancelPendingTimer, TypeOK
      <4> QED
        BY <4>1 DEF IInv, GenerationsInv, PendingIsTimed, BeingAccepted
    <3>2. CASE state # seen[u]
      BY <2>2, <3>2, OtherStepKeepsIInv DEF stopPendingTimeout, TypeOK
    <3> QED
      BY <3>1, <3>2
  <2>3. CASE StampRequest(u)
    BY <2>3, OtherStepKeepsIInv DEF StampRequest, TypeOK
  <2>4. CASE RequestPairing(u)
    BY <2>4, ChangeStateKeepsIInv DEF RequestPairing, TypeOK, States, Pending
  <2>5. CASE Unpair(u)
    BY <2>5, ChangeStateKeepsIInv DEF Unpair, TypeOK, States, Pending
  <2>6. CASE ClearMarks(u, "unpairMarks", "unpairStamp")
    BY <2>6, OtherStepKeepsIInv DEF ClearMarks, TypeOK
  <2>7. CASE ClearStamp(u, "unpairStamp")
    BY <2>7, OtherStepKeepsIInv DEF ClearStamp, TypeOK
  <2>8. CASE RequestPairDial(u) \/ DialReturns(u) \/ ProceedToPair(u)
    <3>1. /\ UNCHANGED <<state, timerVars, fired>> /\ pc[u] # "complete"
          /\ \A v \in Users \ {u} : pc'[v] = pc[v]
      BY <2>8 DEF RequestPairDial, DialReturns, ProceedToPair, TypeOK
    <3> QED
      BY <3>1, OtherStepKeepsIInv
  <2> QED
    BY <1>6, <2>1, <2>2, <2>3, <2>4, <2>5, <2>6, <2>7, <2>8 DEF UserStep
<1>7. ASSUME NEW h \in Handlers, HandlerStep(h)
      PROVE  IInv'
  <2>1. CASE ReadKey(h)
    BY <2>1, OtherStepKeepsIInv DEF ReadKey, TypeOK
  <2>2. CASE Announce(h)
    BY <2>2, OtherStepKeepsIInv DEF Announce, TypeOK
  <2>3. CASE StartIncoming(h)
    BY <2>3, ChangeStateKeepsIInv DEF StartIncoming, TypeOK, States, Pending
  <2>4. CASE Declined(h)
    BY <2>4, ChangeStateKeepsIInv DEF Declined, TypeOK, States, Pending
  <2>5. CASE ClearMarks(h, "declinedMarks", "declinedStamp")
    BY <2>5, OtherStepKeepsIInv DEF ClearMarks, TypeOK
  <2>6. CASE ClearStamp(h, "declinedStamp")
    BY <2>6, OtherStepKeepsIInv DEF ClearStamp, TypeOK
  <2> QED
    BY <1>7, <2>1, <2>2, <2>3, <2>4, <2>5, <2>6 DEF HandlerStep
<1>8. ASSUME NEW timer \in armed \cup fired \cup expiring, TimerStep(timer)
      PROVE  IInv'
  <2>1. CASE Fire(timer)
    <3>1. /\ UNCHANGED <<state, pendingGeneration, nextGeneration, pc>>
          /\ armed' \cup fired' = armed \cup fired
      BY <2>1 DEF Fire
    <3> QED
      BY <3>1 DEF IInv, GenerationsInv, PendingIsTimed, Timed, BeingAccepted
  <2>2. CASE expirePending(timer)
    <3>1. CASE pendingGeneration # timer.gen
      BY <2>2, <3>1 DEF expirePending, timerVars, IInv, GenerationsInv,
                        PendingIsTimed, Timed, BeingAccepted
    <3>2. CASE pendingGeneration = timer.gen
      <4>1. state = timer.expects
        BY <2>2, <3>2 DEF expirePending, IInv, GenerationsInv
      <4>2. /\ state' = "Unpaired"
            /\ pendingGeneration' = 0
            /\ nextGeneration' = nextGeneration
            /\ armed' = {} /\ fired' = fired \ {timer}
        BY <2>2, <3>2, <4>1 DEF expirePending, cancelPendingTimer
      <4> QED
        BY <4>2 DEF IInv, GenerationsInv, PendingIsTimed, Pending
    <3> QED
      BY <3>1, <3>2
  <2>3. CASE RejectExpired(timer)
    BY <2>3, OtherStepKeepsIInv DEF RejectExpired
  <2> QED
    BY <1>8, <2>1, <2>2, <2>3 DEF TimerStep
<1>9. CASE IntentWanes
  BY <1>9, OtherStepKeepsIInv DEF IntentWanes
<1>10. CASE UNCHANGED vars
  BY <1>10, OtherStepKeepsIInv DEF vars, timerVars
<1> QED
  BY <1>1, <1>2, <1>3, <1>4, <1>5, <1>6, <1>7, <1>8, <1>9, <1>10
  DEF Next, ThreadStep

LEMMA InvariantHolds == Spec => [](TypeOK /\ IInv)
<1>1. Init => IInv
  BY DEF Init, IInv, GenerationsInv, PendingIsTimed, Pending
<1> QED
  BY <1>1, TypeCorrect, IInvInductive, PTL DEF Spec

(* No interleaving of commands, packets and timer callbacks leaves a       *)
(* request pending without a live timer of its own or a command that is    *)
(* about to settle it (updatePendingTimerLocked, stopPendingTimeout).      *)
THEOREM PendingAlwaysTimed == Spec => []PendingIsTimed
BY InvariantHolds, PTL DEF IInv

-----------------------------------------------------------------------------
(* Only the callback itself leaves fired, and only with the current        *)
(* generation does it change the state.                                    *)
LEMMA ExpiryStep ==
    ASSUME TypeOK, IInv, [Next]_vars,
           NEW timer \in fired, timer \notin fired', state' # state
    PROVE  timer.gen = nextGeneration
<1> USE DEF callbacks
<1>1. PICK other \in armed \cup fired \cup expiring : TimerStep(other)
  <2>1. \/ \E u \in Users : PairCommand(u) \/ UnpairCommand(u)
        \/ \E h \in Handlers : Handle(h)
        \/ IntentWanes
        \/ UNCHANGED vars
        => fired' = fired
    BY DEF PairCommand, UnpairCommand, Handle, IntentWanes, vars
  <2>2. ASSUME NEW t \in Threads, ThreadStep(t)
        PROVE  fired' = fired
    BY <2>2 DEF ThreadStep, Notify, transitionPendingToPaired, PairingDone,
         UserStep, RequestPairDial, DialReturns, ProceedToPair, AcceptPairing,
         stopPendingTimeout, StampRequest,
         RequestPairing, Unpair, ClearMarks, ClearStamp, HandlerStep,
         ReadKey, Announce, StartIncoming, Declined
  <2> QED
    BY <2>1, <2>2 DEF Next
<1>2. other = timer /\ expirePending(timer)
  BY <1>1 DEF TimerStep, Fire, expirePending, RejectExpired
<1>3. timer.gen = pendingGeneration
  BY <1>2 DEF expirePending
<1> QED
  BY <1>3 DEF IInv, GenerationsInv, TypeOK, Timers

(* A callback that was already running when its request was settled never  *)
(* ends a request that came after it (expirePending).                      *)
THEOREM ExpiryNeverEndsLaterRequest == Spec => ExpiryEndsOwnRequest
<1>1. TypeOK /\ IInv /\ [Next]_vars
        => [\A timer \in fired :
              timer \notin fired' /\ state' # state
                => timer.gen = nextGeneration]_vars
  BY ExpiryStep
<1> QED
  BY <1>1, InvariantHolds, PTL DEF Spec, ExpiryEndsOwnRequest

-----------------------------------------------------------------------------
(* Every step of the plugin is a step of the contract, or none.            *)
LEMMA ContractStep == TypeOK /\ [Next]_vars => [Contract!Next]_Standing
<1> SUFFICES ASSUME TypeOK, [Next]_vars
             PROVE  Contract!Next \/ Standing' = Standing
  BY DEF Contract!Next
<1> USE DEF Contract!Next, Contract!Ask, Contract!Settle, Contract!Drop,
            Pending, Standing
<1>1. ASSUME NEW u \in Users, PairCommand(u) \/ UnpairCommand(u)
      PROVE  Standing' = Standing
  BY <1>1 DEF PairCommand, UnpairCommand
<1>2. ASSUME NEW h \in Handlers, Handle(h)
      PROVE  Standing' = Standing
  BY <1>2 DEF Handle
<1>3. ASSUME NEW t \in Threads, ThreadStep(t)
      PROVE  Contract!Next \/ Standing' = Standing
  <2>1. CASE Notify(t) \/ PairingDone(t)
    BY <2>1 DEF Notify, PairingDone
  <2>2. CASE transitionPendingToPaired(t)
    BY <2>2 DEF transitionPendingToPaired
  <2>3. CASE UserStep(t)
    BY <2>3 DEF UserStep, RequestPairDial, DialReturns, ProceedToPair,
         AcceptPairing, stopPendingTimeout, StampRequest, RequestPairing, Unpair, ClearMarks, ClearStamp, changeState
  <2>4. CASE HandlerStep(t)
    BY <2>4 DEF HandlerStep, ReadKey, Announce, StartIncoming, Declined,
         ClearMarks, ClearStamp, changeState
  <2> QED
    BY <1>3, <2>1, <2>2, <2>3, <2>4 DEF ThreadStep
<1>4. ASSUME NEW timer \in armed \cup fired \cup expiring, TimerStep(timer)
      PROVE  Contract!Next \/ Standing' = Standing
  BY <1>4 DEF TimerStep, Fire, expirePending, RejectExpired
<1>5. CASE IntentWanes \/ UNCHANGED vars
  BY <1>5 DEF IntentWanes, vars
<1> QED
  BY <1>1, <1>2, <1>3, <1>4, <1>5 DEF Next

(* The plugin implements the pairing contract: whatever its goroutines do, *)
(* a device becomes paired only while a request is pending.                *)
THEOREM PairingImplementsContract == Spec => ImplementsContract
<1>1. Init => Contract!Init
  BY DEF Init, Contract!Init, Standing, Pending
<1> QED
  BY <1>1, ContractStep, TypeCorrect, PTL
  DEF Spec, ImplementsContract, Contract!Spec


-----------------------------------------------------------------------------
(* The goroutines that owe a callback can be counted.                      *)
LEMMA OwingIsFinite ==
    ASSUME NEW callback
    PROVE  /\ IsFiniteSet(Owing(callback)) /\ IsFiniteSet(Owing(callback)')
           /\ Cardinality(Owing(callback)) \in Nat
<1>1. IsFiniteSet(Threads) BY PairingAssumption, FS_Union DEF Threads
<1>2. Owing(callback) \in SUBSET Threads /\ Owing(callback)' \in SUBSET Threads
  BY DEF Owing
<1>3. IsFiniteSet(Owing(callback)) /\ IsFiniteSet(Owing(callback)')
  BY <1>1, <1>2, FS_Subset
<1> QED BY <1>3, FS_CardinalityType

(* A goroutine that owes nothing comes to owe one callback, or none.       *)
LEMMA Owes ==
    ASSUME TypeOK, NEW t \in Threads, owed[t] = "none",
           NEW due \in {"none", "onPaired", "onUnpaired"},
           owed' = [owed EXCEPT ![t] = due],
           NEW callback \in {"onPaired", "onUnpaired"}
    PROVE  Cardinality(Owing(callback)') =
              Cardinality(Owing(callback)) + IF due = callback THEN 1 ELSE 0
<1>1. t \notin Owing(callback) BY DEF Owing
<1>2. Cardinality(Owing(callback)) \in Nat BY OwingIsFinite
<1>3. CASE due = callback
  <2>1. Owing(callback)' = Owing(callback) \cup {t} BY <1>3 DEF Owing, TypeOK
  <2> QED BY <1>1, <1>3, <2>1, OwingIsFinite, FS_AddElement
<1>4. CASE due # callback
  <2>1. Owing(callback)' = Owing(callback) BY <1>4, <1>1 DEF Owing, TypeOK
  <2> QED BY <1>2, <1>4, <2>1
<1> QED BY <1>3, <1>4

(* A goroutine calls the callback it owes.                                 *)
LEMMA Pays ==
    ASSUME TypeOK, NEW t \in Threads, owed[t] # "none",
           owed' = [owed EXCEPT ![t] = "none"],
           NEW callback \in {"onPaired", "onUnpaired"}
    PROVE  Cardinality(Owing(callback)') =
              Cardinality(Owing(callback)) - IF owed[t] = callback THEN 1 ELSE 0
<1>1. Owing(callback)' = Owing(callback) \ {t} BY DEF Owing, TypeOK
<1>2. t \in Owing(callback) <=> owed[t] = callback BY DEF Owing
<1>3. Cardinality(Owing(callback)) \in Nat BY OwingIsFinite
<1>4. Cardinality(Owing(callback) \ {t}) =
         IF t \in Owing(callback) THEN Cardinality(Owing(callback)) - 1
                                  ELSE Cardinality(Owing(callback))
  BY OwingIsFinite, FS_RemoveElement
<1>5. CASE owed[t] = callback BY <1>1, <1>2, <1>4, <1>5
<1>6. CASE owed[t] # callback BY <1>1, <1>2, <1>3, <1>4, <1>6
<1> QED BY <1>5, <1>6

(* A change of state owes exactly the callback that keeps the balance.     *)
LEMMA ChangeStateBalances ==
    ASSUME TypeOK, HooksBalanced, NEW t \in Threads, owed[t] = "none",
           NEW next \in States, state' = next, hooks' = hooks,
           owed' = [owed EXCEPT ![t] = Callback(state, next)]
    PROVE  HooksBalanced'
<1> DEFINE due == Callback(state, next)
<1>1. due \in {"none", "onPaired", "onUnpaired"} BY DEF Callback
<1>2. /\ due = "onPaired" <=> state # "Paired" /\ next = "Paired"
      /\ due = "onUnpaired" <=> state = "Paired" /\ next # "Paired"
  BY DEF Callback
<1> HIDE DEF due
<1>3. owed' = [owed EXCEPT ![t] = due] BY DEF due
<1>4. /\ Cardinality(Owing("onPaired")') =
            Cardinality(Owing("onPaired")) + IF due = "onPaired" THEN 1 ELSE 0
      /\ Cardinality(Owing("onUnpaired")') =
            Cardinality(Owing("onUnpaired")) + IF due = "onUnpaired" THEN 1 ELSE 0
  BY <1>1, <1>3, Owes
<1>5. /\ Cardinality(Owing("onPaired")) \in Nat
      /\ Cardinality(Owing("onUnpaired")) \in Nat /\ hooks \in Int
  BY OwingIsFinite DEF TypeOK
<1>6. CASE state = "Paired" BY <1>2, <1>4, <1>5, <1>6 DEF HooksBalanced
<1>7. CASE state # "Paired" BY <1>2, <1>4, <1>5, <1>7 DEF HooksBalanced
<1> QED BY <1>6, <1>7

(* Every step keeps the balance: what ends in expirePending was not        *)
(* Paired.                                                                 *)
LEMMA HooksStep == ASSUME TypeOK, HooksBalanced, [Next]_vars PROVE HooksBalanced'
<1> USE DEF Threads, Goto, At, callbacks, inputs
<1>1. ASSUME UNCHANGED <<owed, hooks>>, state' = "Paired" <=> state = "Paired"
      PROVE  HooksBalanced'
  BY <1>1 DEF HooksBalanced, Owing
<1>2. ASSUME NEW t \in Threads, owed[t] = "none", NEW next \in States,
             changeState(t, next), hooks' = hooks
      PROVE  HooksBalanced'
  BY <1>2, ChangeStateBalances DEF changeState
<1>3. ASSUME NEW t \in Threads, Notify(t) PROVE HooksBalanced'
  <2>1. /\ owed[t] \in {"onPaired", "onUnpaired"} /\ state' = state
        /\ hooks' = IF owed[t] = "onPaired" THEN hooks + 1 ELSE hooks - 1
        /\ owed' = [owed EXCEPT ![t] = "none"] /\ owed[t] # "none"
    BY <1>3 DEF Notify, TypeOK
  <2>2. /\ Cardinality(Owing("onPaired")') =
              Cardinality(Owing("onPaired")) - IF owed[t] = "onPaired" THEN 1 ELSE 0
        /\ Cardinality(Owing("onUnpaired")') =
              Cardinality(Owing("onUnpaired")) - IF owed[t] = "onUnpaired" THEN 1 ELSE 0
    BY <2>1, Pays
  <2>3. /\ Cardinality(Owing("onPaired")) \in Nat
        /\ Cardinality(Owing("onUnpaired")) \in Nat /\ hooks \in Int
    BY OwingIsFinite DEF TypeOK
  <2>4. CASE owed[t] = "onPaired" BY <2>1, <2>2, <2>3, <2>4 DEF HooksBalanced
  <2>5. CASE owed[t] = "onUnpaired" BY <2>1, <2>2, <2>3, <2>5 DEF HooksBalanced
  <2> QED BY <2>1, <2>4, <2>5
<1>4. ASSUME NEW t \in Threads, transitionPendingToPaired(t) PROVE HooksBalanced'
  <2>1. CASE state \in Pending
    <3>1. Callback(state, "Paired") = "onPaired" BY <2>1 DEF Callback, Pending
    <3>2. /\ state' = "Paired" /\ hooks' = hooks /\ owed[t] = "none"
          /\ owed' = [owed EXCEPT ![t] = "onPaired"]
      BY <1>4, <2>1 DEF transitionPendingToPaired
    <3> QED BY <3>1, <3>2, ChangeStateBalances DEF States
  <2>2. CASE state \notin Pending
    BY <1>1, <1>4, <2>2 DEF transitionPendingToPaired
  <2> QED BY <2>1, <2>2
<1>5. ASSUME NEW u \in Users, RequestPairing(u) \/ Unpair(u) PROVE HooksBalanced'
  BY <1>2, <1>5 DEF RequestPairing, Unpair, States, Pending
<1>6. ASSUME NEW h \in Handlers, StartIncoming(h) \/ Declined(h) PROVE HooksBalanced'
  BY <1>2, <1>6 DEF StartIncoming, Declined, States, Pending
<1>7. ASSUME NEW timer \in armed \cup fired \cup expiring, TimerStep(timer)
      PROVE  HooksBalanced'
  <2>1. timer.expects \in Pending BY DEF TypeOK, Timers
  <2>2. state' = "Paired" <=> state = "Paired"
    BY <1>7, <2>1 DEF TimerStep, Fire, expirePending, RejectExpired, Pending
  <2>3. UNCHANGED <<owed, hooks>>
    BY <1>7 DEF TimerStep, Fire, expirePending, RejectExpired
  <2> QED BY <1>1, <2>2, <2>3
<1>8. ASSUME NEW u \in Users,
             \/ PairCommand(u) \/ UnpairCommand(u) \/ RequestPairDial(u)
             \/ DialReturns(u) \/ ProceedToPair(u) \/ AcceptPairing(u)
             \/ stopPendingTimeout(u) \/ StampRequest(u)
             \/ ClearMarks(u, "unpairMarks", "unpairStamp")
             \/ ClearStamp(u, "unpairStamp")
      PROVE  HooksBalanced'
  BY <1>1, <1>8 DEF PairCommand, UnpairCommand, RequestPairDial, DialReturns,
                    ProceedToPair, AcceptPairing, stopPendingTimeout,
                    StampRequest, ClearMarks, ClearStamp
<1>9. ASSUME NEW h \in Handlers,
             \/ Handle(h) \/ ReadKey(h) \/ Announce(h)
             \/ ClearMarks(h, "declinedMarks", "declinedStamp")
             \/ ClearStamp(h, "declinedStamp")
      PROVE  HooksBalanced'
  BY <1>1, <1>9 DEF Handle, ReadKey, Announce, ClearMarks, ClearStamp
<1>10. ASSUME NEW t \in Threads, PairingDone(t) PROVE HooksBalanced'
  BY <1>1, <1>10 DEF PairingDone
<1>11. CASE IntentWanes \/ UNCHANGED vars BY <1>1, <1>11 DEF IntentWanes, vars
<1> QED
  BY <1>3, <1>4, <1>5, <1>6, <1>7, <1>8, <1>9, <1>10, <1>11
  DEF Next, ThreadStep, UserStep, HandlerStep

(* However commands, packets and timers interleave, and however late the   *)
(* callbacks run outside mu, the plugins of a paired device were told      *)
(* OnConnect once more than OnDisconnect, counting the calls still owed    *)
(* (HooksBalanced; notifyStateChanged).                                    *)
THEOREM HooksStayBalanced == Spec => []HooksBalanced
<1>1. Init => HooksBalanced
  <2> SUFFICES ASSUME Init PROVE HooksBalanced OBVIOUS
  <2>1. Owing("onPaired") = {} /\ Owing("onUnpaired") = {} BY DEF Init, Owing
  <2> QED BY <2>1, FS_EmptySet DEF Init, HooksBalanced
<1> QED BY <1>1, HooksStep, TypeCorrect, PTL DEF Spec

-----------------------------------------------------------------------------
(* The marks of an intent that were set before the pairing completed.      *)
Early == (marks \cap Intent) \ tardy

(* A pairing with an early mark has a goroutine that is about to clear it. *)
IntentIsBeingCleared ==
    state = "Paired" /\ Early # {} => \E t \in Threads : pc[t] = "completed"

(* Only transitionPendingToPaired enters Paired, and its goroutine goes on *)
(* to clear the marks; what is marked while Paired is tardy.               *)
LEMMA IntentStep ==
    ASSUME TypeOK, IntentIsBeingCleared, [Next]_vars PROVE IntentIsBeingCleared'
<1> USE DEF IntentIsBeingCleared, Early, At, Goto, callbacks, inputs, notes, markers
<1>1. ASSUME NEW t \in Threads, pc[t] # "completed", \A u \in Threads \ {t} : pc'[u] = pc[u],
             state' = "Paired" => state = "Paired", Early' \subseteq Early
      PROVE  IntentIsBeingCleared'
  BY <1>1
<1>2. ASSUME NEW t \in Threads, transitionPendingToPaired(t) PROVE IntentIsBeingCleared'
  <2>1. CASE state \in Pending
    BY <1>2, <2>1 DEF transitionPendingToPaired, TypeOK
  <2>2. CASE state \notin Pending
    BY <1>1, <1>2, <2>2 DEF transitionPendingToPaired, TypeOK
  <2> QED BY <2>1, <2>2
<1>3. ASSUME NEW t \in Threads, PairingDone(t) PROVE IntentIsBeingCleared'
  BY <1>3 DEF PairingDone
<1>4. ASSUME UNCHANGED pc, state' = "Paired" => state = "Paired", Early' \subseteq Early
      PROVE  IntentIsBeingCleared'
  BY <1>4
<1>5. ASSUME NEW t \in Threads, Notify(t) PROVE IntentIsBeingCleared'
  BY <1>4, <1>5 DEF Notify
<1>6. ASSUME NEW timer \in armed \cup fired \cup expiring, TimerStep(timer)
      PROVE  IntentIsBeingCleared'
  BY <1>4, <1>6 DEF TimerStep, Fire, expirePending, RejectExpired
<1>7. ASSUME NEW u \in Users, PairCommand(u) \/ UnpairCommand(u) PROVE IntentIsBeingCleared'
  BY <1>1, <1>7 DEF PairCommand, UnpairCommand, Threads, TypeOK
<1>8. ASSUME NEW h \in Handlers, Handle(h) PROVE IntentIsBeingCleared'
  <2>1. /\ pc[h] = "idle" /\ \A u \in Threads \ {h} : pc'[u] = pc[u]
        /\ UNCHANGED <<state, marks, tardy>>
    BY <1>8 DEF Handle, handlePairRequest, handleUnpairRequest, Threads, TypeOK
  <2> QED BY <2>1, <1>1 DEF Threads
<1>9. ASSUME NEW u \in Users, UserStep(u) PROVE IntentIsBeingCleared'
  <2> USE DEF Threads, TypeOK
  <2>1. CASE AcceptPairing(u) BY <1>1, <2>1 DEF AcceptPairing
  <2>2. CASE stopPendingTimeout(u) BY <1>1, <2>2 DEF stopPendingTimeout
  <2>3. CASE StampRequest(u) BY <1>1, <2>3 DEF StampRequest
  <2>4. CASE RequestPairing(u) BY <1>1, <2>4 DEF RequestPairing, changeState
  <2>5. CASE Unpair(u) BY <1>1, <2>5 DEF Unpair, changeState
  <2>6. CASE ClearMarks(u, "unpairMarks", "unpairStamp")
    BY <1>1, <2>6 DEF ClearMarks
  <2>7. CASE ClearStamp(u, "unpairStamp") BY <1>1, <2>7 DEF ClearStamp
  <2>8. CASE RequestPairDial(u)
    <3>1. CASE state = "Paired" BY <2>8, <3>1 DEF RequestPairDial
    <3>2. CASE state # "Paired" BY <2>8, <3>2 DEF RequestPairDial
    <3> QED BY <3>1, <3>2
  <2>9. CASE DialReturns(u)
    <3>1. /\ pc[u] # "completed" /\ \A v \in Threads \ {u} : pc'[v] = pc[v]
          /\ state' = state /\ Early' \subseteq Early
      BY <2>9 DEF DialReturns
    <3> QED BY <1>1, <3>1
  <2>10. CASE ProceedToPair(u) BY <1>1, <2>10 DEF ProceedToPair
  <2> QED
    BY <1>9, <2>1, <2>2, <2>3, <2>4, <2>5, <2>6, <2>7, <2>8, <2>9, <2>10 DEF UserStep
<1>10. ASSUME NEW h \in Handlers, HandlerStep(h) PROVE IntentIsBeingCleared'
  <2> USE DEF Threads, TypeOK
  <2>1. CASE ReadKey(h) BY <1>1, <2>1 DEF ReadKey
  <2>2. CASE StartIncoming(h) BY <1>1, <2>2 DEF StartIncoming, changeState
  <2>3. CASE Announce(h) BY <1>1, <2>3 DEF Announce
  <2>4. CASE Declined(h) BY <1>1, <2>4 DEF Declined, changeState
  <2>5. CASE ClearMarks(h, "declinedMarks", "declinedStamp")
    BY <1>1, <2>5 DEF ClearMarks
  <2>6. CASE ClearStamp(h, "declinedStamp") BY <1>1, <2>6 DEF ClearStamp
  <2> QED BY <1>10, <2>1, <2>2, <2>3, <2>4, <2>5, <2>6 DEF HandlerStep
<1>11. CASE IntentWanes \/ UNCHANGED vars BY <1>4, <1>11 DEF IntentWanes, vars
<1> QED
  BY <1>2, <1>3, <1>5, <1>6, <1>7, <1>8, <1>9, <1>10, <1>11 DEF Next, ThreadStep

(* However pair commands, the dials they start and the peer interleave:    *)
(* when every goroutine is done, a paired device has no intent left that   *)
(* was marked before its pairing completed (NoStaleIntent; ClearPairDial   *)
(* in pairingDone).                                                        *)
THEOREM PairingLeavesNoIntent == Spec => []NoStaleIntent
<1>1. Init => IntentIsBeingCleared BY DEF Init, IntentIsBeingCleared, Early
<1>2. IntentIsBeingCleared => NoStaleIntent
  BY DEF IntentIsBeingCleared, Early, NoStaleIntent, Quiet
<1> QED BY <1>1, <1>2, IntentStep, TypeCorrect, PTL DEF Spec
=============================================================================
