---------------------------- MODULE WatchProofs ----------------------------
(***************************************************************************)
(* For every capacity of the ring and of the channel, and any number of    *)
(* events and restarts: the gap that EventsSince reports to a client that  *)
(* resumes is exact (RingInv: the ring has no holes), the client misses no *)
(* event, and once it has read everything it knows the daemon's state      *)
(* (ResumeInv: besides, where each of the events after since is).          *)
(***************************************************************************)
EXTENDS Watch, TLAPS

(* The ring holds the latest events, one for each number up to seq.        *)
RingInv ==
    /\ value \in Nat /\ owed \subseteq Nat
    /\ seq \in Nat
    /\ ring \in Seq([seq : Nat, matches : BOOLEAN, value : Nat])
    /\ Len(ring) <= RingCap
    /\ Len(ring) <= seq
    /\ ring = <<>> => seq = 0
    /\ \A i \in 1..Len(ring) : ring[i].seq = seq - Len(ring) + i

(* When the ring is full, Retain drops its oldest event and no other.      *)
LEMMA RetainKeepsLatest ==
    ASSUME NEW S, NEW events \in Seq(S), Len(events) \in 1..(RingCap + 1)
    PROVE  /\ Retain(events) \in Seq(S)
           /\ Len(Retain(events)) \in 1..RingCap
           /\ Len(Retain(events)) <= Len(events)
           /\ \A i \in 1..Len(Retain(events)) :
                  Retain(events)[i] =
                      events[Len(events) - Len(Retain(events)) + i]
  <1>1. CASE Len(events) > RingCap
    <2>1. Retain(events) = Tail(events)
      BY <1>1 DEF Retain
    <2>2. /\ Tail(events) \in Seq(S)
          /\ Len(Tail(events)) = Len(events) - 1
          /\ \A i \in 1..Len(Tail(events)) : Tail(events)[i] = events[i + 1]
      BY <1>1, WatchAssumption
    <2> QED
      BY <1>1, <2>1, <2>2, WatchAssumption
  <1>2. CASE ~(Len(events) > RingCap)
    BY <1>2, WatchAssumption DEF Retain
  <1> QED
    BY <1>1, <1>2

(* Publish appends the event that has the next number.                     *)
LEMMA PublishKeepsRing ==
    ASSUME RingInv, NEW matches \in BOOLEAN, NEW told \in Nat, Publish(matches, told),
           value' = value, owed' \subseteq owed
    PROVE  RingInv'
  <1> DEFINE Kept  == [seq : Nat, matches : BOOLEAN, value : Nat]
             event == [seq |-> seq + 1, matches |-> matches, value |-> told]
             all   == Append(ring, event)
  <1>1. /\ value \in Nat /\ seq \in Nat
        /\ ring \in Seq(Kept)
        /\ Len(ring) <= RingCap
        /\ Len(ring) <= seq
        /\ \A i \in 1..Len(ring) : ring[i].seq = seq - Len(ring) + i
    BY DEF RingInv
  <1>2. seq' = seq + 1 /\ ring' = Retain(all)
    BY DEF Publish
  <1>3. event \in Kept /\ event.seq = seq + 1
    BY <1>1
  <1>4. /\ all \in Seq(Kept)
        /\ Len(all) = Len(ring) + 1
        /\ all[Len(ring) + 1] = event
        /\ \A i \in 1..Len(ring) : all[i] = ring[i]
    <2> HIDE DEF Kept, event
    <2> QED BY <1>1, <1>3
  <1> HIDE DEF Kept, event, all
  <1>5. Len(ring) \in Nat /\ Len(all) \in 1..(RingCap + 1)
    BY <1>1, <1>4, WatchAssumption
  <1>6. \A i \in 1..Len(all) : all[i].seq = seq + 1 - Len(all) + i
    <2> SUFFICES ASSUME NEW i \in 1..Len(all)
                 PROVE  all[i].seq = seq + 1 - Len(all) + i
      OBVIOUS
    <2>1. CASE i = Len(ring) + 1
      <3>1. all[i].seq = seq + 1 BY <1>3, <1>4, <2>1
      <3>2. seq + 1 = seq + 1 - Len(all) + i BY <1>1, <1>4, <1>5, <2>1
      <3> QED BY <3>1, <3>2
    <2>2. CASE i \in 1..Len(ring)
      <3>1. all[i].seq = seq - Len(ring) + i BY <1>1, <1>4, <2>2
      <3>2. seq - Len(ring) + i = seq + 1 - Len(all) + i BY <1>1, <1>4, <1>5, <2>2
      <3> QED BY <3>1, <3>2
    <2>3. i = Len(ring) + 1 \/ i \in 1..Len(ring)
      BY <1>4, <1>5
    <2> QED
      BY <2>1, <2>2, <2>3
  <1>7. /\ ring' \in Seq(Kept)
        /\ Len(ring') \in 1..RingCap
        /\ Len(ring') <= Len(all)
        /\ \A i \in 1..Len(ring') : ring'[i] = all[Len(all) - Len(ring') + i]
    BY <1>2, <1>4, <1>5, RetainKeepsLatest
  <1>8. \A i \in 1..Len(ring') : ring'[i].seq = seq' - Len(ring') + i
    <2> SUFFICES ASSUME NEW i \in 1..Len(ring')
                 PROVE  ring'[i].seq = seq' - Len(ring') + i
      OBVIOUS
    <2>1. Len(all) - Len(ring') + i \in 1..Len(all)
      BY <1>5, <1>7, WatchAssumption
    <2>2. all[Len(all) - Len(ring') + i].seq = seq + 1 - Len(ring') + i
      BY <1>1, <1>5, <1>6, <1>7, <2>1, WatchAssumption
    <2>3. Len(ring') \in Int /\ i \in Int
      BY <1>7, WatchAssumption
    <2>4. (seq + 1) - Len(ring') + i = seq' - Len(ring') + i
      BY <1>2
    <2> QED
      BY <1>1, <1>7, <2>2, <2>3, <2>4
  <1>9. value' \in Nat /\ owed' \subseteq Nat /\ seq' \in Nat /\ Len(ring') <= seq'
    <2>1. owed' \subseteq Nat BY DEF RingInv
    <2> QED BY <1>1, <1>2, <1>4, <1>5, <1>7, <2>1, WatchAssumption
  <1>10. ring' # <<>>
    BY <1>7, WatchAssumption
  <1> QED
    BY <1>7, <1>8, <1>9, <1>10, WatchAssumption DEF RingInv, Kept

(* No step leaves a hole in the ring.                                      *)
LEMMA RingStep == ASSUME RingInv, [Next]_vars PROVE RingInv'
  <1> USE DEF bus, state
  <1>1. CASE Change
    BY <1>1, WatchAssumption DEF Change, RingInv
  <1>2. CASE PublishChange
    <2>1. PICK change \in owed : Publish(TRUE, change) /\ owed' = owed \ {change}
      BY <1>2 DEF PublishChange
    <2>2. change \in Nat /\ owed' \subseteq owed BY <2>1 DEF RingInv
    <2> QED BY <1>2, <2>1, <2>2, PublishKeepsRing DEF PublishChange
  <1>3. CASE PublishOther
    BY <1>3, PublishKeepsRing DEF PublishOther
  <1>4. CASE Open
    BY <1>4 DEF Open, RingInv
  <1>5. CASE HandlerStep
    <2>1. UNCHANGED <<value, owed, seq, ring>>
      BY <1>5 DEF HandlerStep, Describe, Subscribe, Replay, WriteReplay, WriteLive
    <2> QED
      BY <2>1 DEF RingInv
  <1>6. CASE Leave
    BY <1>6 DEF Leave, RingInv
  <1>7. CASE Restart
    BY <1>7, WatchAssumption DEF Restart, RingInv
  <1>8. CASE UNCHANGED vars
    BY <1>8 DEF vars, RingInv
  <1> QED
    BY <1>1, <1>2, <1>3, <1>4, <1>5, <1>6, <1>7, <1>8 DEF Next

LEMMA RingInvInductive == Init /\ [][Next]_vars => []RingInv
  <1>1. Init => RingInv
    BY WatchAssumption DEF Init, RingInv
  <1>2. RingInv /\ [Next]_vars => RingInv'
    BY RingStep
  <1> QED
    BY <1>1, <1>2, PTL

(* A ring without holes makes the comparison of EventsSince exact.         *)
LEMMA RingGivesGap == RingInv => GapIsExact
  <1> SUFFICES ASSUME RingInv, NEW from \in 1..seq
               PROVE  Gap(from) <=> ~((from + 1)..seq \subseteq Seqs(ring))
    BY DEF GapIsExact
  <1>1. /\ seq \in Nat /\ Len(ring) \in Nat /\ Len(ring) <= seq
        /\ DOMAIN ring = 1..Len(ring)
        /\ \A i \in 1..Len(ring) : ring[i].seq = seq - Len(ring) + i
        /\ ring # <<>> /\ 1 \in 1..Len(ring)
    BY DEF RingInv
  <1>2. Gap(from) <=> from < seq - Len(ring)
    BY <1>1 DEF Gap
  <1>3. Seqs(ring) = (seq - Len(ring) + 1)..seq
    <2>1. \A n \in Seqs(ring) : n \in (seq - Len(ring) + 1)..seq
      BY <1>1 DEF Seqs
    <2>2. ASSUME NEW n \in (seq - Len(ring) + 1)..seq
          PROVE  n \in Seqs(ring)
      <3>1. n - (seq - Len(ring)) \in 1..Len(ring)
        BY <1>1
      <3>2. ring[n - (seq - Len(ring))].seq = n
        BY <1>1, <3>1
      <3> QED
        BY <1>1, <3>1, <3>2 DEF Seqs
    <2> QED
      BY <2>1, <2>2
  <1>4. CASE from < seq - Len(ring)
    <2>1. from + 1 \in (from + 1)..seq /\ from + 1 \notin Seqs(ring)
      BY <1>1, <1>3, <1>4
    <2> QED
      BY <1>2, <1>4, <2>1
  <1>5. CASE ~(from < seq - Len(ring))
    <2>1. (from + 1)..seq \subseteq Seqs(ring)
      BY <1>1, <1>3, <1>5
    <2> QED
      BY <1>2, <1>5, <2>1
  <1> QED
    BY <1>4, <1>5

(* A client that resumes is told of a gap exactly when an event it has not *)
(* seen has left the ring: the test since+1 < ring[0].Seq of EventsSince   *)
(* is right because Publish numbers and retains events without holes.      *)
THEOREM GapAlwaysExact == Spec => []GapIsExact
  <1>1. Spec => []RingInv
    BY RingInvInductive DEF Spec
  <1> QED
    BY <1>1, RingGivesGap, PTL

-----------------------------------------------------------------------------
(* Publish keeps the ring and the channel within their capacities.         *)
LEMMA PublishTypes ==
    ASSUME TypeOK, NEW matches \in BOOLEAN, NEW told \in 0..MaxEvents,
           Publish(matches, told)
    PROVE  /\ seq' \in 0..MaxEvents /\ ring' \in Seq(Event) /\ Len(ring') <= RingCap
           /\ log' \in Seq(Event) /\ queue' \in Seq(Event) /\ Len(queue') <= QueueCap
           /\ subscribed' \in BOOLEAN /\ dropped' \in BOOLEAN
  <1> DEFINE event == [seq |-> seq + 1, matches |-> matches, value |-> told]
  <1>1. seq + 1 \in 1..MaxEvents BY WatchAssumption DEF Publish, TypeOK
  <1>2. event \in Event BY <1>1 DEF TypeOK, Event
  <1>3. /\ seq' = seq + 1 /\ ring' = Retain(Append(ring, event))
        /\ log' = Append(log, event)
    BY DEF Publish
  <1>4. \/ UNCHANGED sub
        \/ /\ queue' = IF Len(queue) < QueueCap THEN Append(queue, event) ELSE queue
           /\ dropped' = (dropped \/ Len(queue) = QueueCap) /\ subscribed' = subscribed
    BY DEF Publish
  <1> HIDE DEF event
  <1>5. /\ Append(ring, event) \in Seq(Event)
        /\ Len(Append(ring, event)) \in 1..(RingCap + 1)
    BY <1>2, WatchAssumption DEF TypeOK
  <1>6. ring' \in Seq(Event) /\ Len(ring') <= RingCap
    <2> DEFINE all == Append(ring, event)
    <2>1. all \in Seq(Event) /\ Len(all) \in 1..(RingCap + 1) /\ ring' = Retain(all)
      BY <1>3, <1>5
    <2> HIDE DEF all
    <2>2. Retain(all) \in Seq(Event) /\ Len(Retain(all)) \in 1..RingCap
      BY <2>1, RetainKeepsLatest
    <2> QED BY <2>1, <2>2, WatchAssumption
  <1>7. log' \in Seq(Event) BY <1>2, <1>3 DEF TypeOK
  <1>8. queue' \in Seq(Event) /\ Len(queue') <= QueueCap
    <2>1. CASE UNCHANGED sub BY <2>1 DEF sub, TypeOK
    <2>2. CASE queue' = Append(queue, event) /\ Len(queue) < QueueCap
      <3>1. Append(queue, event) \in Seq(Event) /\ Len(Append(queue, event)) = Len(queue) + 1
        BY <1>2 DEF TypeOK
      <3> QED BY <2>2, <3>1, WatchAssumption DEF TypeOK
    <2>3. CASE queue' = queue BY <2>3 DEF TypeOK
    <2> QED BY <1>4, <2>1, <2>2, <2>3
  <1>9. subscribed' \in BOOLEAN /\ dropped' \in BOOLEAN
    <2>1. subscribed' = subscribed BY <1>4 DEF sub
    <2>2. dropped' \in BOOLEAN
      <3>1. CASE UNCHANGED sub BY <3>1 DEF sub, TypeOK
      <3>2. CASE dropped' = (dropped \/ Len(queue) = QueueCap) BY <3>2
      <3> QED BY <1>4, <3>1, <3>2
    <2> QED BY <2>1, <2>2 DEF TypeOK
  <1>10. seq' \in 0..MaxEvents BY <1>1, <1>3, WatchAssumption
  <1> QED BY <1>6, <1>7, <1>8, <1>9, <1>10

(* Every step keeps the types.                                             *)
LEMMA WatchTypesStep == ASSUME TypeOK, [Next]_vars PROVE TypeOK'
  <1> USE DEF state, bus, opened, sub, client
  <1>1. CASE Change
    <2>1. value' \in 0..MaxEvents /\ owed' \subseteq 1..value'
      BY <1>1, WatchAssumption DEF Change, TypeOK
    <2> QED BY <1>1, <2>1 DEF Change, TypeOK
  <1>2. CASE PublishChange
    <2>1. PICK change \in owed : /\ Publish(TRUE, change) /\ owed' = owed \ {change}
                                 /\ swapped' = ~((change + 1)..value \subseteq owed)
      BY <1>2 DEF PublishChange
    <2>2. change \in 0..MaxEvents BY WatchAssumption DEF TypeOK
    <2>3. owed' \subseteq 1..value BY <2>1 DEF TypeOK
    <2>4. swapped' \in BOOLEAN BY <2>1
    <2> QED BY <1>2, <2>1, <2>2, <2>3, <2>4, PublishTypes DEF PublishChange, TypeOK
  <1>3. CASE PublishOther
    <2>1. 0 \in 0..MaxEvents BY WatchAssumption
    <2> QED BY <1>3, <2>1, PublishTypes DEF PublishOther, TypeOK
  <1>4. CASE Open
    <2>1. since' \in 0..MaxEvents BY <1>4, WatchAssumption DEF Open, TypeOK
    <2>2. foreign' \in BOOLEAN BY <1>4 DEF Open, TypeOK
    <2>3. dropped' \in BOOLEAN /\ gapTold' \in BOOLEAN BY <1>4 DEF Open
    <2>4. got' \in SUBSET (1..MaxEvents) BY <1>4 DEF Open
    <2> QED BY <1>4, <2>1, <2>2, <2>3, <2>4 DEF Open, TypeOK
  <1>5. ASSUME NEW from, NEW to \in {"dump", "subscribe"}, Describe(from, to) PROVE TypeOK'
    BY <1>5 DEF Describe, TypeOK
  <1>6. CASE Subscribe BY <1>6 DEF Subscribe, TypeOK
  <1>7. CASE Replay
    <2>1. Retained \subseteq Event BY DEF Retained, TypeOK
    <2>2. replay' \subseteq Event BY <1>7, <2>1 DEF Replay, EventsSince
    <2>3. gapTold' \in BOOLEAN BY <1>7 DEF Replay, Gap
    <2> QED BY <1>7, <2>2, <2>3 DEF Replay, TypeOK
  <1>8. ASSUME NEW event \in Event, Deliver(event)
        PROVE  /\ got' \in SUBSET (1..MaxEvents) /\ view' \in 0..MaxEvents
               /\ last' \in 0..MaxEvents /\ ours' \in BOOLEAN
    <2>1. event.seq \in 1..MaxEvents /\ event.value \in 0..MaxEvents BY DEF Event
    <2>2. event.seq \in 0..MaxEvents BY <2>1, WatchAssumption
    <2> QED BY <1>8, <2>1, <2>2 DEF Deliver, TypeOK
  <1>9. CASE WriteReplay
    <2>1. PICK event \in replay : Deliver(event) /\ replay' = replay \ {event}
      BY <1>9 DEF WriteReplay
    <2> QED BY <1>8, <1>9, <2>1 DEF WriteReplay, TypeOK
  <1>10. CASE WriteLive
    <2>1. /\ Head(queue) \in Event /\ Tail(queue) \in Seq(Event)
          /\ Len(Tail(queue)) <= Len(queue)
      BY <1>10, WatchAssumption DEF WriteLive, TypeOK
    <2>2. /\ got' \in SUBSET (1..MaxEvents) /\ view' \in 0..MaxEvents
          /\ last' \in 0..MaxEvents /\ ours' \in BOOLEAN
      BY <1>8, <1>10, <2>1 DEF WriteLive
    <2>3. queue' \in Seq(Event) /\ Len(queue') <= QueueCap
      BY <1>10, <2>1, WatchAssumption DEF WriteLive, TypeOK
    <2> QED BY <1>10, <2>2, <2>3 DEF WriteLive, TypeOK
  <1>11. CASE Leave
    <2>1. queue' \in Seq(Event) /\ Len(queue') <= QueueCap
      BY <1>11, WatchAssumption DEF Leave
    <2> QED BY <1>11, <2>1 DEF Leave, TypeOK
  <1>12. CASE Restart
    <2>1. queue' \in Seq(Event) /\ Len(queue') <= QueueCap /\ ring' \in Seq(Event)
          /\ Len(ring') <= RingCap /\ log' \in Seq(Event) /\ seq' \in 0..MaxEvents
      BY <1>12, WatchAssumption DEF Restart
    <2>2. owed' \subseteq 1..value /\ swapped' \in BOOLEAN
      BY <1>12 DEF Restart
    <2> QED BY <1>12, <2>1, <2>2 DEF Restart, TypeOK
  <1>13. CASE UNCHANGED vars BY <1>13 DEF vars, TypeOK
  <1> QED
    BY <1>1, <1>2, <1>3, <1>4, <1>5, <1>6, <1>7, <1>9, <1>10, <1>11, <1>12, <1>13
    DEF Next, HandlerStep

(* So do the initial states.                                               *)
LEMMA WatchTypesInit == Init => TypeOK
  <1> SUFFICES ASSUME Init PROVE TypeOK OBVIOUS
  <1>1. ring \in Seq(Event) /\ Len(ring) = 0 /\ log \in Seq(Event) /\ queue \in Seq(Event)
        /\ Len(queue) = 0
    BY DEF Init
  <1>2. 0 \in 0..MaxEvents /\ 0 <= RingCap /\ 0 <= QueueCap BY WatchAssumption
  <1>3. got \in SUBSET (1..MaxEvents) /\ replay \subseteq Event BY DEF Init
  <1> QED BY <1>1, <1>2, <1>3 DEF Init, TypeOK

-----------------------------------------------------------------------------
(* The ring is the end of the log, and the log has every event in its      *)
(* place.                                                                  *)
LogInv ==
    /\ Len(log) = seq /\ \A n \in 1..seq : log[n].seq = n
    /\ \A i \in 1..Len(ring) : ring[i].seq \in 1..seq /\ ring[i] = log[ring[i].seq]

(* A new event is the next of the log.                                     *)
LEMMA Logged ==
    ASSUME TypeOK, LogInv, NEW matches \in BOOLEAN, NEW told \in 0..MaxEvents,
           Publish(matches, told)
    PROVE  /\ seq' = seq + 1 /\ seq \in Nat /\ Len(log') = seq'
           /\ log'[seq + 1].seq = seq + 1
           /\ log'[seq + 1].matches = matches /\ log'[seq + 1].value = told
           /\ \A n \in 1..seq : log'[n] = log[n]
           /\ ring' = Retain(Append(ring, log'[seq + 1]))
           /\ log'[seq + 1] \in Event
  <1> DEFINE event == [seq |-> seq + 1, matches |-> matches, value |-> told]
  <1>1. /\ seq' = seq + 1 /\ ring' = Retain(Append(ring, event))
        /\ log' = Append(log, event) /\ seq < MaxEvents
    BY DEF Publish
  <1>2. /\ event.seq = seq + 1 /\ event.matches = matches /\ event.value = told
        /\ event \in Event
    BY <1>1, WatchAssumption DEF TypeOK, Event
  <1> HIDE DEF event
  <1>3. log \in Seq(Event) /\ seq \in Nat /\ Len(log) = seq
    BY WatchAssumption DEF TypeOK, LogInv
  <1>4. /\ Len(Append(log, event)) = seq + 1 /\ Append(log, event)[seq + 1] = event
        /\ \A n \in 1..seq : Append(log, event)[n] = log[n]
    BY <1>2, <1>3
  <1> QED BY <1>1, <1>2, <1>3, <1>4

(* What is published is one of the changes that were owed; if it leaves    *)
(* the bus told of every change in order, it is the newest.                *)
LEMMA ChangePublished ==
    ASSUME TypeOK, PublishChange
    PROVE  \E change \in 0..MaxEvents :
              Publish(TRUE, change) /\ (Told' => change = value)
  <1>1. PICK change \in owed : /\ Publish(TRUE, change) /\ owed' = owed \ {change}
                               /\ swapped' = ~((change + 1)..value \subseteq owed)
    BY DEF PublishChange
  <1>2. change \in 0..MaxEvents /\ change \in 1..value /\ value \in Nat
    BY WatchAssumption DEF TypeOK
  <1>3. ASSUME Told' PROVE change = value
    <2>1. owed \ {change} = {} /\ (change + 1)..value \subseteq owed
      BY <1>1, <1>3 DEF Told
    <2>2. CASE change < value
      <3>1. value \in (change + 1)..value BY <1>2, <2>2
      <3> QED BY <1>2, <2>1, <2>2, <3>1
    <2> QED BY <1>2, <2>2
  <1> QED BY <1>1, <1>2, <1>3

(* Nothing else that is published can pass for a change.                   *)
LEMMA OtherPublished ==
    PublishOther => 0 \in 0..MaxEvents /\ Publish(FALSE, 0) /\ UNCHANGED state
  <1>1. 0 \in 0..MaxEvents BY WatchAssumption
  <1> QED BY <1>1 DEF PublishOther

(* Publish appends to the log, and what is left in the ring is its end.    *)
LEMMA PublishKeepsLog ==
    ASSUME TypeOK, LogInv, NEW matches \in BOOLEAN, NEW told \in 0..MaxEvents,
           Publish(matches, told)
    PROVE  LogInv'
  <1> DEFINE event == log'[seq + 1]
             all == Append(ring, event)
  <1>1. /\ seq' = seq + 1 /\ seq \in Nat /\ Len(log') = seq' /\ event.seq = seq + 1
        /\ \A n \in 1..seq : log'[n] = log[n]
        /\ ring' = Retain(all) /\ event \in Event
    BY Logged
  <1>2. ring \in Seq(Event) /\ Len(ring) <= RingCap /\ Len(ring) \in Nat
    BY DEF TypeOK
  <1> HIDE DEF event
  <1>3. /\ all \in Seq(Event) /\ Len(all) = Len(ring) + 1 /\ all[Len(ring) + 1] = event
        /\ \A i \in 1..Len(ring) : all[i] = ring[i]
    BY <1>1, <1>2
  <1> HIDE DEF all
  <1>4. Len(all) \in 1..(RingCap + 1) BY <1>2, <1>3, WatchAssumption
  <1>5. /\ Len(Retain(all)) \in 1..RingCap /\ Len(Retain(all)) <= Len(all)
        /\ \A i \in 1..Len(Retain(all)) :
              Retain(all)[i] = all[Len(all) - Len(Retain(all)) + i]
    BY <1>3, <1>4, RetainKeepsLatest
  <1>6. ASSUME NEW k \in 1..Len(all)
        PROVE  all[k].seq \in 1..seq' /\ all[k] = log'[all[k].seq]
    <2>1. CASE k \in 1..Len(ring)
      <3>1. ring[k].seq \in 1..seq /\ ring[k] = log[ring[k].seq]
        BY <2>1 DEF LogInv
      <3> QED BY <1>1, <1>3, <2>1, <3>1
    <2>2. CASE k = Len(ring) + 1
      <3>1. all[k] = event BY <1>3, <2>2
      <3> QED BY <1>1, <3>1 DEF event
    <2> QED BY <1>2, <1>3, <2>1, <2>2
  <1>7. ASSUME NEW i \in 1..Len(ring')
        PROVE  ring'[i].seq \in 1..seq' /\ ring'[i] = log'[ring'[i].seq]
    <2>1. Len(all) - Len(ring') + i \in 1..Len(all)
      BY <1>1, <1>4, <1>5, WatchAssumption
    <2>2. ring'[i] = all[Len(all) - Len(ring') + i] BY <1>1, <1>5
    <2> QED BY <1>6, <2>1, <2>2
  <1>8. ASSUME NEW n \in 1..seq' PROVE log'[n].seq = n
    <2>1. CASE n \in 1..seq BY <1>1, <2>1 DEF LogInv
    <2>2. CASE n = seq + 1 BY <1>1, <2>2 DEF event
    <2> QED BY <1>1, <2>1, <2>2
  <1> QED BY <1>1, <1>7, <1>8 DEF LogInv

(* A restart empties both; nothing else touches them.                      *)
LEMMA LogStep == ASSUME TypeOK, LogInv, [Next]_vars PROVE LogInv'
  <1>1. CASE PublishChange BY <1>1, PublishKeepsLog, ChangePublished
  <1>2. CASE PublishOther BY <1>2, PublishKeepsLog, OtherPublished
  <1>3. CASE Restart BY <1>3 DEF Restart, LogInv
  <1>4. ASSUME UNCHANGED bus PROVE LogInv'
    BY <1>4 DEF bus, LogInv
  <1> QED
    BY <1>1, <1>2, <1>3, <1>4
    DEF Next, vars, HandlerStep, Change, Open, Describe, Subscribe, Replay, WriteReplay,
        WriteLive, Leave, bus

-----------------------------------------------------------------------------
(* Where the stream is: it has a channel between Subscribe and the return  *)
(* of its handler, and a replay only when it is live.                      *)
Places ==
    /\ subscribed <=> place \in {"replay", "live"}
    /\ ~subscribed => queue = <<>>
    /\ place # "live" => replay = {}

(* What is on its way to the client was published in this run of the       *)
(* daemon; so was what a client resumes from, if it is of this run.        *)
Published ==
    /\ \A i \in 1..Len(queue) : queue[i].seq \in 1..seq
    /\ \A event \in replay : event.seq \in 1..seq
    /\ ours => last \in 1..seq
    /\ place # "away" /\ ~foreign => since <= seq

(* The handler subscribes before its replay, and every way out of it       *)
(* unsubscribes.                                                           *)
LEMMA PlacesStep == ASSUME TypeOK, Places, [Next]_vars PROVE Places'
  <1> USE DEF Places
  <1>1. ASSUME UNCHANGED <<subscribed, place, replay>>, subscribed \/ queue' = queue
        PROVE  Places'
    BY <1>1
  <1>2. CASE Change BY <1>1, <1>2 DEF Change, sub
  <1>3. ASSUME NEW matches, NEW told, Publish(matches, told), UNCHANGED <<place, replay>>
        PROVE  Places'
    <2>1. subscribed' = subscribed /\ (subscribed \/ queue' = queue)
      BY <1>3 DEF Publish, sub
    <2> QED BY <1>1, <1>3, <2>1
  <1>4. CASE PublishChange \/ PublishOther
    BY <1>3, <1>4 DEF PublishChange, PublishOther
  <1>5. CASE Open BY <1>5 DEF Open, TypeOK
  <1>6. CASE Describe("snapshot", "dump") \/ Describe("dump", "subscribe")
    BY <1>6 DEF Describe, sub
  <1>7. CASE Subscribe BY <1>7 DEF Subscribe
  <1>8. CASE Replay BY <1>8 DEF Replay, sub
  <1>9. CASE WriteReplay BY <1>9 DEF WriteReplay, sub
  <1>10. CASE WriteLive BY <1>10 DEF WriteLive
  <1>11. CASE Leave \/ Restart BY <1>11 DEF Leave, Restart
  <1>12. CASE UNCHANGED vars BY <1>12 DEF vars
  <1> QED
    BY <1>2, <1>4, <1>5, <1>6, <1>7, <1>8, <1>9, <1>10, <1>11, <1>12 DEF Next,
       HandlerStep

(* What Publish puts in the channel is the event, or nothing.              *)
LEMMA Queued ==
    ASSUME TypeOK, LogInv, NEW matches \in BOOLEAN, NEW told \in 0..MaxEvents,
           Publish(matches, told)
    PROVE  \/ UNCHANGED sub /\ ~(subscribed /\ matches)
           \/ /\ matches /\ subscribed' = subscribed
              /\ queue' = Append(queue, log'[seq + 1]) /\ (dropped' <=> dropped)
           \/ subscribed' = subscribed /\ matches /\ UNCHANGED queue /\ dropped'
  <1> DEFINE event == [seq |-> seq + 1, matches |-> matches, value |-> told]
  <1>1. /\ log' = Append(log, event)
        /\ IF ~(subscribed /\ matches) THEN UNCHANGED sub
           ELSE /\ queue' = IF Len(queue) < QueueCap THEN Append(queue, event) ELSE queue
                /\ dropped' = (dropped \/ Len(queue) = QueueCap)
                /\ UNCHANGED subscribed
    BY DEF Publish
  <1>e. event \in Event BY WatchAssumption DEF Publish, TypeOK, Event
  <1> HIDE DEF event
  <1>2. log'[seq + 1] = event BY <1>1, <1>e DEF TypeOK, LogInv
  <1>3. Len(queue) \in Nat /\ Len(queue) <= QueueCap /\ QueueCap \in Nat
    BY WatchAssumption DEF TypeOK
  <1>d. dropped \in BOOLEAN BY DEF TypeOK
  <1>4. CASE subscribed /\ matches /\ Len(queue) < QueueCap
    <2>1. queue' = Append(queue, event) /\ subscribed' = subscribed BY <1>1, <1>4
    <2>2. dropped' = (dropped \/ Len(queue) = QueueCap) BY <1>1, <1>4
    <2>3. Len(queue) # QueueCap BY <1>3, <1>4
    <2>4. dropped' <=> dropped BY <1>d, <2>2, <2>3
    <2> QED BY <1>2, <1>4, <2>1, <2>4
  <1>5. CASE subscribed /\ matches /\ ~(Len(queue) < QueueCap)
    <2>1. queue' = queue /\ subscribed' = subscribed BY <1>1, <1>5
    <2>2. dropped' = (dropped \/ Len(queue) = QueueCap) BY <1>1, <1>5
    <2>3. Len(queue) = QueueCap BY <1>3, <1>5
    <2>4. dropped' BY <2>2, <2>3
    <2> QED BY <1>5, <2>1, <2>4
  <1>6. CASE ~(subscribed /\ matches) BY <1>1, <1>6
  <1> QED BY <1>4, <1>5, <1>6

(* The handler writes only what Publish numbered.                          *)
LEMMA PublishedStep ==
    ASSUME TypeOK, LogInv, Places, Published, [Next]_vars PROVE Published'
  <1> USE DEF Published
  <1>n. seq \in Nat /\ since \in Nat /\ last \in Nat BY WatchAssumption DEF TypeOK
  <1>1. ASSUME NEW matches \in BOOLEAN, NEW told \in 0..MaxEvents, Publish(matches, told),
               UNCHANGED <<place, since, foreign, replay, last, ours>>
        PROVE  Published'
    <2>1. seq' = seq + 1 BY <1>1, Logged
    <2>2. ASSUME NEW i \in 1..Len(queue') PROVE queue'[i].seq \in 1..seq'
      <3>1. CASE queue' = queue BY <1>n, <2>1, <3>1
      <3>2. CASE queue' = Append(queue, log'[seq + 1])
        <4>1. log'[seq + 1].seq = seq + 1 /\ log'[seq + 1] \in Event
          BY <1>1, Logged
        <4>2. queue \in Seq(Event) BY DEF TypeOK
        <4>3. CASE i \in 1..Len(queue) BY <1>n, <2>1, <3>2, <4>1, <4>2, <4>3
        <4>4. CASE i = Len(queue) + 1 BY <1>n, <2>1, <3>2, <4>1, <4>2, <4>4
        <4> QED BY <3>2, <4>1, <4>2, <4>3, <4>4
      <3> QED BY <1>1, <3>1, <3>2, Queued DEF sub
    <2> QED BY <1>1, <1>n, <2>1, <2>2
  <1>2. CASE PublishChange
    BY <1>1, <1>2, ChangePublished DEF PublishChange, opened, client
  <1>3. CASE PublishOther
    BY <1>1, <1>3, OtherPublished DEF PublishOther, opened, client
  <1>4. CASE Open
    <2>1. since' <= seq \/ foreign'
      <3>1. since' \in {0, last} /\ foreign' = (since' # 0 /\ ~ours)
        BY <1>4 DEF Open
      <3>2. CASE since' = 0 BY <1>n, <3>2
      <3>3. CASE since' # 0 /\ ours BY <1>n, <3>1, <3>3
      <3>4. CASE since' # 0 /\ ~ours BY <3>1, <3>4
      <3> QED BY <3>2, <3>3, <3>4
    <2>2. UNCHANGED <<seq, queue, replay, last, ours>> BY <1>4 DEF Open, bus
    <2> QED BY <2>1, <2>2
  <1>5. ASSUME UNCHANGED <<seq, queue, replay, last, ours, since, foreign>>,
               place' = "away" \/ place # "away"
        PROVE  Published'
    BY <1>5
  <1>6. CASE \/ Change \/ Describe("snapshot", "dump") \/ Describe("dump", "subscribe")
             \/ Subscribe \/ UNCHANGED vars
    BY <1>5, <1>6 DEF Change, Describe, Subscribe, vars, bus, sub, opened, client
  <1>7. CASE Replay
    <2>1. ASSUME NEW event \in replay' PROVE event.seq \in 1..seq
      <3>1. PICK i \in DOMAIN ring : event = ring[i]
        BY <1>7, <2>1 DEF Replay, EventsSince, Retained
      <3> QED BY <3>1 DEF LogInv, TypeOK
    <2>2. UNCHANGED <<seq, queue, last, ours, since, foreign>> /\ place # "away"
      BY <1>7 DEF Replay, bus, sub, opened, client
    <2> QED BY <2>1, <2>2
  <1>8. CASE WriteReplay
    <2>1. PICK event \in replay : last' = event.seq /\ replay' = replay \ {event}
      BY <1>8 DEF WriteReplay, Deliver
    <2>2. UNCHANGED <<seq, queue, since, foreign, place>>
      BY <1>8 DEF WriteReplay, bus, sub, opened
    <2> QED BY <2>1, <2>2
  <1>9. CASE WriteLive
    <2>1. /\ Len(queue) \in Nat \ {0} /\ Head(queue) = queue[1] /\ queue \in Seq(Event)
          /\ Len(Tail(queue)) = Len(queue) - 1
          /\ \A i \in 1..Len(Tail(queue)) : Tail(queue)[i] = queue[i + 1]
      BY <1>9 DEF WriteLive, TypeOK
    <2>2. last' = queue[1].seq /\ queue' = Tail(queue)
      BY <1>9, <2>1 DEF WriteLive, Deliver
    <2>3. UNCHANGED <<seq, replay, since, foreign, place>>
      BY <1>9 DEF WriteLive, bus, opened
    <2>4. queue[1].seq \in 1..seq BY <2>1
    <2>5. ASSUME NEW i \in 1..Len(queue') PROVE queue'[i].seq \in 1..seq
      <3>1. i + 1 \in 1..Len(queue) /\ queue'[i] = queue[i + 1] BY <2>1, <2>2
      <3> QED BY <3>1
    <2> QED BY <2>2, <2>3, <2>4, <2>5
  <1>10. CASE Leave
    <2>1. queue' = <<>> /\ replay' = {} /\ place' = "away" /\ UNCHANGED <<seq, last, ours>>
      BY <1>10 DEF Leave, bus, client
    <2> QED BY <2>1
  <1>11. CASE Restart
    <2>1. queue' = <<>> /\ replay' = {} /\ place' = "away" /\ ~ours'
      BY <1>11 DEF Restart
    <2> QED BY <2>1
  <1> QED
    BY <1>2, <1>3, <1>4, <1>6, <1>7, <1>8, <1>9, <1>10, <1>11 DEF Next,
       HandlerStep

-----------------------------------------------------------------------------
(* Once the bus is told of every change, the newest last, the last event   *)
(* the client's filter matches tells of the state as it is, in the log, and *)
(* in the channel if it was never full.                                    *)
LastMatch(n) == log[n].matches /\ \A m \in (n + 1)..seq : ~log[m].matches

LogTail == Told => \A n \in 1..seq : LastMatch(n) => log[n].value = value

QueueTail ==
    Told /\ ~dropped /\ queue # <<>> => queue[Len(queue)].value = value

(* A change that is made is owed.                                          *)
LEMMA ChangeIsOwed == Change => ~Told'
BY DEF Change, Told

(* The daemon changes its state before it publishes the event of it, and   *)
(* owes that event in between.                                             *)
LEMMA LogTailStep == ASSUME TypeOK, LogInv, LogTail, [Next]_vars PROVE LogTail'
  <1>n. seq \in Nat BY WatchAssumption DEF TypeOK
  <1>1. CASE PublishChange
    <2>1. /\ seq' = seq + 1 /\ log'[seq + 1].matches
          /\ Told' => log'[seq + 1].value = value
          /\ value' = value
      BY <1>1, Logged, ChangePublished DEF PublishChange
    <2>2. ASSUME Told', NEW n \in 1..seq', LastMatch(n)' PROVE log'[n].value = value
      <3>1. CASE n = seq + 1 BY <2>1, <2>2, <3>1
      <3>2. CASE n # seq + 1
        <4>1. seq + 1 \in (n + 1)..seq' BY <1>n, <2>1, <3>2
        <4> QED BY <2>1, <2>2, <4>1 DEF LastMatch
      <3> QED BY <3>1, <3>2
    <2> QED BY <2>1, <2>2 DEF LogTail
  <1>2. CASE PublishOther
    <2>1. /\ seq' = seq + 1 /\ ~log'[seq + 1].matches
          /\ \A n \in 1..seq : log'[n] = log[n]
          /\ UNCHANGED <<value, owed, swapped>>
      BY <1>2, Logged, OtherPublished DEF state
    <2>2. ASSUME Told, NEW n \in 1..seq', LastMatch(n)' PROVE log'[n].value = value
      <3>1. n \in 1..seq BY <1>n, <2>1, <2>2 DEF LastMatch
      <3>2. LastMatch(n)
        <4>1. \A m \in (n + 1)..seq : m \in (n + 1)..seq' /\ m \in 1..seq
          BY <1>n, <2>1, <3>1
        <4> QED BY <2>1, <2>2, <3>1, <4>1 DEF LastMatch
      <3> QED BY <2>1, <2>2, <3>1, <3>2 DEF LogTail
    <2> QED BY <2>1, <2>2 DEF LogTail, Told
  <1>3. CASE Change BY <1>3, ChangeIsOwed DEF LogTail
  <1>4. CASE Restart BY <1>4 DEF Restart, LogTail
  <1>5. ASSUME UNCHANGED <<value, owed, swapped, seq, log>> PROVE LogTail'
    BY <1>5 DEF LogTail, LastMatch, Told
  <1> QED
    BY <1>1, <1>2, <1>3, <1>4, <1>5
    DEF Next, vars, HandlerStep, Open, Describe, Subscribe, Replay, WriteReplay, WriteLive,
        Leave, bus, state

(* So does the channel, from whose front alone events are taken.           *)
LEMMA QueueTailStep ==
    ASSUME TypeOK, LogInv, Places, QueueTail, [Next]_vars PROVE QueueTail'
  <1>t. queue \in Seq(Event) BY DEF TypeOK
  <1>1. CASE PublishChange
    <2>1. /\ Told' => log'[seq + 1].value = value
          /\ value' = value /\ log'[seq + 1] \in Event
      BY <1>1, Logged, ChangePublished DEF PublishChange
    <2>2. \/ UNCHANGED sub /\ ~subscribed
          \/ queue' = Append(queue, log'[seq + 1])
          \/ dropped'
      BY <1>1, Queued, ChangePublished
    <2>3. CASE UNCHANGED sub /\ ~subscribed BY <2>3 DEF sub, Places, QueueTail
    <2>4. CASE queue' = Append(queue, log'[seq + 1])
      <3>1. queue'[Len(queue')] = log'[seq + 1] BY <1>t, <2>1, <2>4
      <3> QED BY <2>1, <3>1 DEF QueueTail
    <2>5. CASE dropped' BY <2>5 DEF QueueTail
    <2> QED BY <2>2, <2>3, <2>4, <2>5
  <1>2. CASE PublishOther
    <2>1. UNCHANGED <<queue, dropped, owed, swapped, value>>
      BY <1>2, Queued, OtherPublished DEF state, sub
    <2> QED BY <2>1 DEF QueueTail, Told
  <1>3. CASE Change BY <1>3, ChangeIsOwed DEF QueueTail
  <1>4. CASE Leave \/ Restart \/ Open
    <2>1. queue' = <<>> BY <1>4 DEF Leave, Restart, Open, Places
    <2> QED BY <2>1 DEF QueueTail
  <1>5. CASE WriteLive
    <2>1. /\ Len(queue) \in Nat \ {0}
          /\ Len(Tail(queue)) = Len(queue) - 1
          /\ \A i \in 1..Len(Tail(queue)) : Tail(queue)[i] = queue[i + 1]
          /\ Tail(queue) \in Seq(Event)
      BY <1>5, <1>t DEF WriteLive
    <2>2. queue' = Tail(queue) /\ UNCHANGED <<owed, swapped, dropped, value>>
      BY <1>5 DEF WriteLive, state
    <2>3. queue' # <<>> => queue'[Len(queue')] = queue[Len(queue)]
      BY <2>1, <2>2
    <2> QED BY <2>1, <2>2, <2>3 DEF QueueTail, Told
  <1>6. ASSUME UNCHANGED <<queue, dropped, owed, swapped, value>> PROVE QueueTail'
    BY <1>6 DEF QueueTail, Told
  <1> QED
    BY <1>1, <1>2, <1>3, <1>4, <1>5, <1>6
    DEF Next, vars, HandlerStep, Describe, Subscribe, Replay, WriteReplay, sub, state

-----------------------------------------------------------------------------
(* A client that resumes.                                                  *)

(* The client resumes within one run of the daemon.                        *)
Resuming == since # 0 /\ ~foreign

(* Before the replay, a client for which nothing was published has the     *)
(* state from the dump.                                                    *)
BeforeReplay ==
    /\ place \in {"subscribe", "replay"} /\ Resuming /\ Told
    /\ \A n \in (since + 1)..seq : ~log[n].matches
    => view = value

(* Then the last event on its way to it, or the last one it got, tells of  *)
(* the state as it is.                                                     *)
LastTellsState ==
    Resumed /\ Told /\ queue = <<>> =>
        /\ \A event \in replay :
              (\A other \in replay : other.seq <= event.seq) => event.value = value
        /\ replay = {} => view = value

(* The inductive invariant.                                                *)
ResumeInv ==
    /\ TypeOK /\ RingInv /\ LogInv /\ Places /\ Published /\ LogTail /\ QueueTail
    /\ BeforeReplay /\ ResumeMissesNothing /\ LastTellsState

(* The dump reads the devices after since was handed out: what it does not *)
(* show is published later, and the replay has it.                         *)
LEMMA BeforeReplayStep ==
    ASSUME TypeOK, LogInv, Places, Published, BeforeReplay, [Next]_vars
    PROVE  BeforeReplay'
  <1> USE DEF BeforeReplay, Resuming
  <1>n. seq \in Nat /\ since \in Nat BY WatchAssumption DEF TypeOK
  <1>1. CASE PublishChange
    <2>1. /\ seq' = seq + 1 /\ log'[seq + 1].matches /\ UNCHANGED <<place, since, foreign>>
      BY <1>1, Logged, ChangePublished DEF PublishChange, opened
    <2>2. place # "away" /\ Resuming => seq + 1 \in (since' + 1)..seq'
      BY <1>n, <2>1 DEF Published
    <2> QED BY <2>1, <2>2
  <1>2. CASE PublishOther
    <2>1. /\ seq' = seq + 1 /\ \A n \in 1..seq : log'[n] = log[n]
          /\ UNCHANGED <<place, since, foreign, owed, swapped, value, view>>
      BY <1>2, Logged, OtherPublished DEF PublishOther, opened, client, state
    <2>2. \A n \in (since + 1)..seq : n \in (since' + 1)..seq' /\ n \in 1..seq
      BY <1>n, <2>1
    <2> QED BY <2>1, <2>2 DEF Told
  <1>3. CASE Change BY <1>3, ChangeIsOwed
  <1>4. ASSUME place' \notin {"subscribe", "replay"} PROVE BeforeReplay'
    BY <1>4
  <1>5. CASE Open \/ Replay \/ Leave \/ Restart \/ WriteLive \/ WriteReplay
    BY <1>4, <1>5 DEF Open, Replay, Leave, Restart, WriteLive, WriteReplay, Places
  <1>6. CASE Describe("snapshot", "dump") \/ Describe("dump", "subscribe")
    BY <1>6 DEF Describe, state
  <1>7. CASE Subscribe
    <2>1. UNCHANGED <<since, foreign, owed, swapped, seq, log, view, value>>
          /\ place = "subscribe"
      BY <1>7 DEF Subscribe, state, bus, opened, client
    <2> QED BY <2>1 DEF Told
  <1>8. CASE UNCHANGED vars BY <1>8 DEF vars, Told
  <1> QED
    BY <1>1, <1>2, <1>3, <1>5, <1>6, <1>7, <1>8 DEF Next, HandlerStep

(* With no gap, what EventsSince returns is every event after since that   *)
(* the client's filter matches.                                            *)
LEMMA ReplayIsComplete ==
    ASSUME TypeOK, RingInv, LogInv, Published, Replay, Resuming, ~Gap(since),
           NEW n \in (since + 1)..seq, log[n].matches
    PROVE  log[n] \in replay' /\ log[n].seq = n
  <1>n. seq \in Nat /\ since \in Nat \ {0} /\ n \in 1..seq
    BY WatchAssumption DEF TypeOK, Resuming
  <1>1. since \in 1..seq BY <1>n
  <1>2. n \in Seqs(ring) BY <1>1, RingGivesGap DEF GapIsExact
  <1>3. PICK i \in DOMAIN ring : ring[i].seq = n BY <1>2 DEF Seqs
  <1>4. ring[i] = log[n]
    <2>1. i \in 1..Len(ring) BY <1>3 DEF TypeOK
    <2>2. ring[i] = log[ring[i].seq] BY <2>1 DEF LogInv
    <2> QED BY <1>3, <2>2
  <1>5. log[n].seq = n BY <1>n DEF LogInv
  <1>6. log[n] \in Retained BY <1>3, <1>4 DEF Retained
  <1>7. Missed(since, log[n]) BY <1>5, <1>n DEF Missed
  <1>8. log[n] \in EventsSince(since) BY <1>6, <1>7, <1>n DEF EventsSince
  <1> QED BY <1>5, <1>8 DEF Replay

(* A write takes the event that it delivers; Subscribe comes before the    *)
(* replay is read, so what is published after it is in the channel.        *)
LEMMA MissesNothingStep ==
    ASSUME TypeOK, RingInv, LogInv, Places, Published, ResumeMissesNothing, [Next]_vars
    PROVE  ResumeMissesNothing'
  <1> DEFINE Coming == Seqs(queue) \cup {event.seq : event \in replay}
  <1>n. seq \in Nat /\ since \in Nat BY WatchAssumption DEF TypeOK
  <1>t. queue \in Seq(Event) BY DEF TypeOK
  <1>1. ASSUME place' # "live" PROVE ResumeMissesNothing'
    BY <1>1 DEF ResumeMissesNothing, Resumed
  <1>2. ASSUME NEW matches \in BOOLEAN, NEW told \in 0..MaxEvents, Publish(matches, told),
               UNCHANGED <<place, since, foreign, gapTold, got, replay>>
        PROVE  ResumeMissesNothing'
    <2>1. /\ seq' = seq + 1 /\ (log'[seq + 1].matches <=> matches)
          /\ log'[seq + 1].seq = seq + 1 /\ log'[seq + 1] \in Event
          /\ \A n \in 1..seq : log'[n] = log[n]
      BY <1>2, Logged
    <2>2. SUFFICES ASSUME Resumed', NEW n \in (since + 1)..seq', log'[n].matches
                   PROVE  n \in (got \cup Seqs(queue) \cup {event.seq : event \in replay})'
      BY <1>2 DEF ResumeMissesNothing
    <2>3. subscribed BY <1>2, <2>2 DEF Resumed, Places
    <2>4. \/ ~matches /\ queue' = queue /\ (dropped' <=> dropped)
          \/ matches /\ queue' = Append(queue, log'[seq + 1]) /\ (dropped' <=> dropped)
      BY <1>2, <2>2, <2>3, Queued DEF Resumed, sub
    <2>5. Resumed BY <1>2, <2>2, <2>4 DEF Resumed
    <2>6. Seqs(queue) \subseteq Seqs(queue')
      <3>1. CASE queue' = queue BY <3>1
      <3>2. CASE queue' = Append(queue, log'[seq + 1])
        <4>1. \A i \in DOMAIN queue : i \in DOMAIN queue' /\ queue'[i] = queue[i]
          BY <1>t, <2>1, <3>2
        <4> QED BY <4>1 DEF Seqs
      <3> QED BY <2>4, <3>1, <3>2
    <2>7. CASE n \in 1..seq
      <3>1. n \in (since + 1)..seq /\ log[n].matches BY <1>n, <2>1, <2>2, <2>7
      <3>2. n \in got \cup Seqs(queue) \cup {event.seq : event \in replay}
        BY <2>5, <3>1 DEF ResumeMissesNothing
      <3> QED BY <1>2, <2>6, <3>2
    <2>8. CASE n = seq + 1
      <3>1. queue' = Append(queue, log'[seq + 1]) BY <2>1, <2>2, <2>4, <2>8
      <3>2. Len(queue) + 1 \in DOMAIN queue' /\ queue'[Len(queue) + 1] = log'[seq + 1]
        BY <1>t, <2>1, <3>1
      <3>3. n \in Seqs(queue') BY <2>1, <2>8, <3>2 DEF Seqs
      <3> QED BY <3>3
    <2> QED BY <1>n, <2>1, <2>2, <2>7, <2>8
  <1>3. CASE PublishChange
    BY <1>2, <1>3, ChangePublished DEF PublishChange, opened, client
  <1>4. CASE PublishOther
    BY <1>2, <1>4, OtherPublished DEF PublishOther, opened, client
  <1>5. CASE \/ Open \/ Describe("snapshot", "dump") \/ Describe("dump", "subscribe")
             \/ Subscribe \/ Leave \/ Restart
    BY <1>1, <1>5 DEF Open, Describe, Subscribe, Leave, Restart
  <1>6. CASE Replay
    <2>1. SUFFICES ASSUME Resumed', NEW n \in (since + 1)..seq, log[n].matches
                   PROVE  n \in {event.seq : event \in replay'}
      BY <1>6 DEF ResumeMissesNothing, Replay, bus, opened
    <2>2. Resuming /\ ~Gap(since)
      BY <1>6, <2>1 DEF Resumed, Resuming, Replay, opened
    <2>3. log[n] \in replay' /\ log[n].seq = n
      BY <1>6, <2>1, <2>2, ReplayIsComplete
    <2> QED BY <2>3
  <1>7. ASSUME NEW event, Deliver(event),
               UNCHANGED <<place, since, foreign, gapTold, dropped, seq, log>>,
               Coming \subseteq Coming' \cup {event.seq}
        PROVE  ResumeMissesNothing'
    <2>1. got' = got \cup {event.seq} BY <1>7 DEF Deliver
    <2>2. Resumed' <=> Resumed BY <1>7 DEF Resumed
    <2>3. got \cup Coming \subseteq got' \cup Coming' BY <1>7, <2>1
    <2> QED BY <1>7, <2>2, <2>3 DEF ResumeMissesNothing
  <1>8. CASE WriteReplay
    <2>1. PICK event \in replay : Deliver(event) /\ replay' = replay \ {event}
      BY <1>8 DEF WriteReplay
    <2>2. UNCHANGED <<queue, place, since, foreign, gapTold, dropped, seq, log>>
      BY <1>8 DEF WriteReplay, bus, sub, opened
    <2>3. Coming \subseteq Coming' \cup {event.seq} BY <2>1, <2>2
    <2> QED BY <1>7, <2>1, <2>2, <2>3
  <1>9. CASE WriteLive
    <2>1. /\ Len(queue) \in Nat \ {0} /\ Head(queue) = queue[1]
          /\ Len(Tail(queue)) = Len(queue) - 1 /\ Tail(queue) \in Seq(Event)
          /\ \A i \in 1..Len(Tail(queue)) : Tail(queue)[i] = queue[i + 1]
      BY <1>9, <1>t DEF WriteLive
    <2>2. /\ Deliver(queue[1]) /\ queue' = Tail(queue)
          /\ UNCHANGED <<replay, place, since, foreign, gapTold, dropped, seq, log>>
      BY <1>9, <2>1 DEF WriteLive, bus, opened
    <2>3. ASSUME NEW i \in DOMAIN queue PROVE queue[i].seq \in Seqs(queue') \cup {queue[1].seq}
      <3>1. CASE i = 1 BY <3>1
      <3>2. CASE i # 1
        <4>1. i - 1 \in DOMAIN queue' /\ queue'[i - 1] = queue[i]
          BY <1>t, <2>1, <2>2, <3>2
        <4> QED BY <4>1 DEF Seqs
      <3> QED BY <3>1, <3>2
    <2>4. Coming \subseteq Coming' \cup {queue[1].seq} BY <2>2, <2>3 DEF Seqs
    <2> QED BY <1>7, <2>2, <2>4
  <1>10. CASE Change \/ UNCHANGED vars
    <2>1. UNCHANGED <<place, since, foreign, gapTold, dropped, seq, log, got, queue, replay>>
      BY <1>10 DEF Change, vars, bus, opened, sub, client
    <2> QED BY <2>1 DEF ResumeMissesNothing, Resumed, Seqs
  <1> QED
    BY <1>3, <1>4, <1>5, <1>6, <1>8, <1>9, <1>10 DEF Next, HandlerStep

(* The last event of a replay without a gap is the last the filter         *)
(* matches; a client for which there is none knows the state already.      *)
LEMMA ReplayTellsState ==
    ASSUME TypeOK, RingInv, LogInv, Published, LogTail, BeforeReplay, Replay,
           Resumed', Told
    PROVE  /\ \A event \in replay' :
                 (\A other \in replay' : other.seq <= event.seq) => event.value = value
           /\ replay' = {} => view = value
  <1>n. seq \in Nat /\ since \in Nat BY WatchAssumption DEF TypeOK
  <1>1. Resuming /\ ~Gap(since) /\ place = "replay"
    BY DEF Resumed, Resuming, Replay, opened
  <1>2. ASSUME NEW n \in (since + 1)..seq, log[n].matches
        PROVE  log[n] \in replay' /\ log[n].seq = n
    BY <1>1, <1>2, ReplayIsComplete
  <1>3. ASSUME NEW event \in replay', \A other \in replay' : other.seq <= event.seq
        PROVE  event.value = value
    <2>1. PICK i \in DOMAIN ring : event = ring[i] /\ Missed(since, event)
      BY DEF Replay, EventsSince, Retained
    <2>2. i \in 1..Len(ring) BY <2>1 DEF TypeOK
    <2>3. event.seq \in 1..seq /\ event = log[event.seq] BY <2>1, <2>2 DEF LogInv
    <2>4. event.seq > since /\ event.matches BY <2>1 DEF Missed
    <2>5. ASSUME NEW m \in (event.seq + 1)..seq PROVE ~log[m].matches
      <3>1. m \in (since + 1)..seq BY <1>n, <2>3, <2>4
      <3>2. ~(m <= event.seq) BY <1>n, <2>3
      <3> QED BY <1>2, <1>3, <3>1, <3>2
    <2>6. LastMatch(event.seq) BY <2>3, <2>4, <2>5 DEF LastMatch
    <2> QED BY <2>3, <2>6 DEF LogTail
  <1>4. ASSUME replay' = {} PROVE view = value
    <2>1. \A n \in (since + 1)..seq : ~log[n].matches BY <1>2, <1>4
    <2> QED BY <1>1, <2>1 DEF BeforeReplay
  <1> QED BY <1>3, <1>4

(* What the client gets last is the last there is, whether from the replay *)
(* or from the channel.                                                    *)
LEMMA LastTellsStateStep ==
    ASSUME ResumeInv, [Next]_vars PROVE LastTellsState'
  <1> USE DEF ResumeInv
  <1>t. queue \in Seq(Event) BY DEF TypeOK
  <1>1. ASSUME place' # "live" \/ ~Told' PROVE LastTellsState'
    BY <1>1 DEF LastTellsState, Resumed
  <1>2. CASE PublishChange
    <2>1. ASSUME Resumed' PROVE queue' # <<>>
      <3>1. place = "live" /\ ~dropped' BY <1>2, <2>1 DEF PublishChange, Resumed
      <3>2. subscribed BY <3>1 DEF Places
      <3>3. log'[seq + 1] \in Event /\ queue' = Append(queue, log'[seq + 1])
        BY <1>2, <3>1, <3>2, Logged, Queued, ChangePublished
      <3> QED BY <1>t, <3>3
    <2> QED BY <2>1 DEF LastTellsState
  <1>3. CASE PublishOther
    <2>1. UNCHANGED <<queue, dropped, owed, swapped, value, place, since, foreign, gapTold,
                      replay, view>>
      BY <1>3, Queued, OtherPublished DEF PublishOther, state, sub, opened, client
    <2> QED BY <2>1 DEF LastTellsState, Resumed, Told
  <1>4. CASE \/ Change \/ Open \/ Describe("snapshot", "dump") \/ Describe("dump", "subscribe")
             \/ Subscribe \/ Leave \/ Restart
    BY <1>1, <1>4, ChangeIsOwed DEF Open, Describe, Subscribe, Leave, Restart
  <1>5. CASE Replay
    <2>1. UNCHANGED <<owed, swapped, value, view>> BY <1>5 DEF Replay, state, client
    <2> QED BY <1>5, <2>1, ReplayTellsState DEF LastTellsState, Told
  <1>6. CASE WriteReplay
    <2>1. PICK event \in replay : /\ \A other \in replay : event.seq <= other.seq
                                  /\ view' = event.value /\ replay' = replay \ {event}
      BY <1>6 DEF WriteReplay, Deliver
    <2>2. UNCHANGED <<queue, dropped, owed, swapped, value, place, since, foreign, gapTold>>
      BY <1>6 DEF WriteReplay, state, sub, opened
    <2>3. SUFFICES ASSUME Resumed, Told, queue = <<>> PROVE LastTellsState'
      BY <2>2 DEF LastTellsState, Resumed, Told
    <2>4. \A e \in replay : (\A other \in replay : other.seq <= e.seq) => e.value = value
      BY <2>3 DEF LastTellsState
    <2>5. ASSUME NEW e \in replay', \A other \in replay' : other.seq <= e.seq
          PROVE  e.value = value
      <3>1. e \in replay /\ \A other \in replay : other.seq <= e.seq BY <2>1, <2>5
      <3> QED BY <2>4, <3>1
    <2>6. ASSUME replay' = {} PROVE view' = value
      <3>1. \A other \in replay : other = event BY <2>1, <2>6
      <3>2. \A other \in replay : other.seq <= event.seq BY <2>1, <3>1
      <3> QED BY <2>1, <2>4, <3>2
    <2> QED BY <2>2, <2>5, <2>6 DEF LastTellsState
  <1>7. CASE WriteLive
    <2>1. queue # <<>> /\ queue' = Tail(queue) /\ view' = queue[1].value /\ replay = {}
      BY <1>7, <1>t DEF WriteLive, Deliver
    <2>2. UNCHANGED <<replay, dropped, owed, swapped, value, place, since, foreign, gapTold>>
      BY <1>7 DEF WriteLive, state, opened
    <2>3. SUFFICES ASSUME Resumed, Told, queue' = <<>> PROVE view' = value
      BY <2>1, <2>2 DEF LastTellsState, Resumed, Told
    <2>4. Len(queue) = 1
      <3>1. Len(queue) \in Nat \ {0} /\ Len(Tail(queue)) = Len(queue) - 1
        BY <1>t, <2>1
      <3> QED BY <2>1, <2>3, <3>1
    <2>5. queue[Len(queue)].value = value BY <2>1, <2>3 DEF QueueTail, Resumed
    <2> QED BY <2>1, <2>4, <2>5
  <1>8. CASE UNCHANGED vars BY <1>8 DEF vars, LastTellsState, Resumed, Told
  <1> QED
    BY <1>2, <1>3, <1>4, <1>5, <1>6, <1>7, <1>8 DEF Next, HandlerStep

(* The invariant holds in every state of the specification.                *)
LEMMA ResumeInvariant == Spec => []ResumeInv
  <1>1. Init => ResumeInv
    <2>1. ASSUME Init PROVE ResumeInv
      <3>1. TypeOK /\ RingInv
        BY <2>1, WatchTypesInit, WatchAssumption DEF Init, RingInv
      <3>2. LogInv /\ Places /\ Published /\ LogTail
        BY <2>1 DEF Init, LogInv, Places, Published, LogTail
      <3>3. QueueTail /\ BeforeReplay /\ ResumeMissesNothing /\ LastTellsState
        BY <2>1 DEF Init, QueueTail, BeforeReplay, ResumeMissesNothing,
           LastTellsState, Resumed
      <3> QED BY <3>1, <3>2, <3>3 DEF ResumeInv
    <2> QED BY <2>1
  <1>2. ResumeInv /\ [Next]_vars => ResumeInv'
    <2>1. ASSUME ResumeInv, [Next]_vars PROVE ResumeInv'
      <3> USE DEF ResumeInv
      <3>1. TypeOK' /\ RingInv' BY <2>1, WatchTypesStep, RingStep
      <3>2. LogInv' /\ Places' /\ Published'
        BY <2>1, LogStep, PlacesStep, PublishedStep
      <3>3. LogTail' /\ QueueTail' BY <2>1, LogTailStep, QueueTailStep
      <3>4. BeforeReplay' /\ ResumeMissesNothing'
        BY <2>1, BeforeReplayStep, MissesNothingStep
      <3>5. LastTellsState' BY <2>1, LastTellsStateStep
      <3> QED BY <3>1, <3>2, <3>3, <3>4, <3>5
    <2> QED BY <2>1
  <1> QED BY <1>1, <1>2, PTL DEF Spec

(* ResumeMissesNothing: a stream that resumes within one run of the daemon *)
(* gets every event after since that its filter matches, unless it is told *)
(* of a gap or loses events to a full channel: server_watch.go subscribes  *)
(* before it asks the bus for the replay.                                  *)
THEOREM WatchMissesNothing == Spec => []ResumeMissesNothing
  <1>1. ResumeInv => ResumeMissesNothing BY DEF ResumeInv
  <1> QED BY <1>1, ResumeInvariant, PTL

(* ResumedViewIsCurrent: when such a stream has nothing left to write and  *)
(* the bus was told of every change, the newest last, the client knows the *)
(* state as it is, though sessions publish in any order before that, and   *)
(* handleWatch writes some events twice: the replay and the channel are    *)
(* each in the order of the log, and the channel ends with its last event. *)
THEOREM WatchViewIsCurrent == Spec => []ResumedViewIsCurrent
  <1>1. ResumeInv => ResumedViewIsCurrent
    BY DEF ResumeInv, LastTellsState, ResumedViewIsCurrent, Drained
  <1> QED BY <1>1, ResumeInvariant, PTL
=============================================================================
