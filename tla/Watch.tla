-------------------------------- MODULE Watch --------------------------------
(***************************************************************************)
(* The event bus (internal/events/bus.go) and a client's watch stream      *)
(* (internal/ipc/server_watch.go): the snapshot of the daemon's state,     *)
(* the events replayed to a client that resumes, and the live events.      *)
(*                                                                         *)
(* The bus works under its mutex; the handler of the stream is a goroutine *)
(* of its own that writes to the client between its steps, for as long as  *)
(* the client makes it wait.  The daemon's state is abstracted to the      *)
(* number of the last change of a device.  A session changes the device    *)
(* under its lock and publishes the event of the change after it has       *)
(* released it (device_session.go), so other changes come in between and   *)
(* events are published in another order than their changes were made.     *)
(* Events the client's filter does not match take sequence numbers too.    *)
(***************************************************************************)
EXTENDS Integers, Sequences

CONSTANTS
    MaxEvents, \* bound: events of one run of the daemon, and changes
    RingCap,   \* eventReplayCapacity (256 in the code)
    QueueCap   \* WatchSubscriberCap

ASSUME WatchAssumption ==
    /\ MaxEvents \in Nat
    /\ RingCap \in Nat \ {0}
    /\ QueueCap \in Nat \ {0}

VARIABLES
    value,      \* the last change of the state
    owed,       \* the changes that are not published yet
    swapped,    \* history: the change published last is older than one
                \* published before it
    seq, ring,  \* Bus.seq, Bus.ring
    log,        \* every event since the daemon started
    place,      \* the handler of the stream, "away" when there is none
    since,      \* WatchPayload.Since of the stream, 0 when absent
    foreign,    \* since was handed out by an earlier run of the daemon
    subscribed, \* the stream's subscription is in Bus.subscribers
    queue,      \* the subscription's channel
    replay,     \* what EventsSince returned and is not written yet; the
                \* ring's order, in which it is written, is that of seq
    gapTold,    \* the stream was told of a gap
    dropped,    \* the subscription lost an event
    got,        \* sequence numbers the stream has delivered
    view,       \* the state as the client knows it
    last, ours  \* the last sequence number the client has seen, and whether
                \* it is of this run of the daemon

vars == <<value, owed, swapped, seq, ring, log, place, since, foreign,
          subscribed, queue, replay, gapTold, dropped, got, view, last, ours>>

state  == <<value, owed, swapped>>
bus    == <<seq, ring, log>>
opened == <<since, foreign>>
sub    == <<subscribed, queue, dropped>>
client == <<got, view, last, ours>>

Event == [seq : 1..MaxEvents, matches : BOOLEAN, value : 0..MaxEvents]

Init ==
    /\ value = 0 /\ owed = {} /\ swapped = FALSE
    /\ seq = 0 /\ ring = <<>> /\ log = <<>>
    /\ place = "away"
    /\ since = 0 /\ foreign = FALSE
    /\ subscribed = FALSE /\ queue = <<>> /\ dropped = FALSE
    /\ replay = {} /\ gapTold = FALSE
    /\ got = {} /\ view = 0
    /\ last = 0 /\ ours = FALSE

-----------------------------------------------------------------------------
(* The bus.                                                                *)

(* The ring keeps the latest events.                                       *)
Retain(events) == IF Len(events) > RingCap THEN Tail(events) ELSE events

(* Publish: a subscriber whose channel is full loses the event.            *)
Publish(matches, told) ==
    LET event == [seq |-> seq + 1, matches |-> matches, value |-> told]
    IN /\ seq < MaxEvents
       /\ seq' = seq + 1
       /\ ring' = Retain(Append(ring, event))
       /\ log' = Append(log, event)
       /\ IF ~(subscribed /\ matches) THEN UNCHANGED sub
          ELSE /\ queue' = IF Len(queue) < QueueCap THEN Append(queue, event)
                           ELSE queue
               /\ dropped' = (dropped \/ Len(queue) = QueueCap)
               /\ UNCHANGED subscribed

(* A device connects or disconnects; the change is made under its lock.    *)
Change ==
    /\ value < MaxEvents
    /\ value' = value + 1
    /\ owed' = owed \cup {value + 1}
    /\ UNCHANGED <<swapped, bus, place, opened, sub, replay, gapTold, client>>

(* The goroutine that made a change publishes it, whatever the others did. *)
PublishChange ==
    /\ \E change \in owed :
          /\ Publish(TRUE, change)
          /\ owed' = owed \ {change}
          /\ swapped' = ~((change + 1)..value \subseteq owed)
    /\ UNCHANGED <<value, place, opened, replay, gapTold, client>>

PublishOther ==
    /\ Publish(FALSE, 0)
    /\ UNCHANGED <<state, place, opened, replay, gapTold, client>>

Gap_OffByOne(from) == ring # <<>> /\ from # 0 /\ from < ring[1].seq

(* EventsSince: what is retained after a sequence number, and whether      *)
(* something after it is not.                                              *)
Gap(from) == ring # <<>> /\ from # 0 /\ from + 1 < ring[1].seq

Missed(from, event) == event.seq > from /\ event.matches

Retained == {ring[i] : i \in DOMAIN ring}

EventsSince_SkipsOne(from) ==
    IF from = 0 THEN {} ELSE {event \in Retained : Missed(from + 1, event)}

EventsSince(from) ==
    IF from = 0 THEN {} ELSE {event \in Retained : Missed(from, event)}

-----------------------------------------------------------------------------
(* A watch stream.                                                         *)

(* A client begins a stream, with the last sequence number it has seen or  *)
(* without.                                                                *)
Open ==
    /\ place = "away"
    /\ place' = "snapshot"
    /\ since' \in {0, last}
    /\ foreign' = (since' # 0 /\ ~ours)
    /\ dropped' = FALSE
    /\ gapTold' = FALSE
    /\ got' = {}
    /\ UNCHANGED <<state, bus, subscribed, queue, replay, view, last, ours>>

(* The snapshot, and the dump of the connected devices, each read from the *)
(* devices when it is written.                                             *)
Describe(from, to) ==
    /\ place = from
    /\ place' = to
    /\ view' = value
    /\ UNCHANGED <<state, bus, opened, sub, replay, gapTold, got, last, ours>>

Subscribe ==
    /\ place = "subscribe"
    /\ place' = "replay"
    /\ subscribed' = TRUE
    /\ UNCHANGED <<state, bus, opened, queue, dropped, replay, gapTold,
                   client>>

Replay ==
    /\ place = "replay"
    /\ place' = "live"
    /\ replay' = EventsSince(since)
    /\ gapTold' = Gap(since)
    /\ UNCHANGED <<state, bus, opened, sub, client>>

(* The event reaches the client.                                           *)
Deliver(event) ==
    /\ got' = got \cup {event.seq}
    /\ view' = event.value
    /\ last' = event.seq
    /\ ours' = TRUE

WriteReplay ==
    /\ \E event \in replay :
          /\ \A other \in replay : event.seq <= other.seq
          /\ Deliver(event)
          /\ replay' = replay \ {event}
    /\ UNCHANGED <<state, bus, place, opened, sub, gapTold>>

WriteLive_Eager ==
    /\ place = "live"
    /\ queue # <<>>
    /\ Deliver(Head(queue))
    /\ queue' = Tail(queue)
    /\ UNCHANGED <<state, bus, place, opened, subscribed, dropped, replay,
                   gapTold>>

WriteLive ==
    /\ place = "live"
    /\ replay = {}
    /\ queue # <<>>
    /\ Deliver(Head(queue))
    /\ queue' = Tail(queue)
    /\ UNCHANGED <<state, bus, place, opened, subscribed, dropped, replay,
                   gapTold>>

(* The handler returns: a write fails because the client is gone.          *)
Leave ==
    /\ place # "away"
    /\ place' = "away"
    /\ subscribed' = FALSE
    /\ queue' = <<>>
    /\ replay' = {}
    /\ UNCHANGED <<state, bus, opened, dropped, gapTold, client>>

(* The daemon restarts, and numbers its events from 1 again.               *)
Restart ==
    /\ seq > 0
    /\ owed' = {} /\ swapped' = FALSE
    /\ seq' = 0 /\ ring' = <<>> /\ log' = <<>>
    /\ place' = "away"
    /\ subscribed' = FALSE /\ queue' = <<>> /\ replay' = {}
    /\ ours' = FALSE
    /\ UNCHANGED <<value, opened, dropped, gapTold, got, view, last>>

-----------------------------------------------------------------------------
HandlerStep ==
    \/ Describe("snapshot", "dump") \/ Describe("dump", "subscribe")
    \/ Subscribe \/ Replay \/ WriteReplay \/ WriteLive

Next ==
    \/ Change \/ PublishChange \/ PublishOther
    \/ Open \/ HandlerStep \/ Leave
    \/ Restart

Spec == Init /\ [][Next]_vars
-----------------------------------------------------------------------------
(* Every variable has the values the code can give it; the ring and the    *)
(* channel stay within their capacities.                                   *)
TypeOK ==
    /\ value \in 0..MaxEvents
    /\ owed \subseteq 1..value
    /\ swapped \in BOOLEAN
    /\ seq \in 0..MaxEvents
    /\ ring \in Seq(Event) /\ Len(ring) <= RingCap
    /\ log \in Seq(Event)
    /\ place \in {"away", "snapshot", "dump", "subscribe", "replay", "live"}
    /\ since \in 0..MaxEvents
    /\ foreign \in BOOLEAN
    /\ subscribed \in BOOLEAN
    /\ queue \in Seq(Event) /\ Len(queue) <= QueueCap
    /\ replay \subseteq Event
    /\ gapTold \in BOOLEAN
    /\ dropped \in BOOLEAN
    /\ got \in SUBSET (1..MaxEvents)
    /\ view \in 0..MaxEvents
    /\ last \in 0..MaxEvents
    /\ ours \in BOOLEAN

Seqs(events) == {events[i].seq : i \in DOMAIN events}

(* Whatever number a client resumes from, EventsSince reports a gap        *)
(* exactly when an event after that number has left the ring.              *)
GapIsExact ==
    \A from \in 1..seq : Gap(from) <=> ~((from + 1)..seq \subseteq Seqs(ring))

(* A stream that promises the client to be complete: resumed within one    *)
(* run of the daemon, with no gap told, and read fast enough.              *)
Resumed == place = "live" /\ since # 0 /\ ~foreign /\ ~gapTold /\ ~dropped

(* Between the replay and the live events nothing falls through, whatever  *)
(* is published while the stream is set up: every event after since is     *)
(* delivered or on its way (Subscribe comes before EventsSince).           *)
ResumeMissesNothing ==
    Resumed => \A n \in (since + 1)..seq :
        log[n].matches => n \in got \cup Seqs(queue) \cup {event.seq : event \in replay}

(* Every change is published, the newest of them last.                     *)
Told == owed = {} /\ ~swapped

Drained == replay = {} /\ queue = <<>> /\ Told

(* Events that are replayed and delivered again do not take the client     *)
(* back: once it has read everything, it knows the daemon's state, unless  *)
(* the bus itself was told of the changes in another order.                *)
ResumedViewIsCurrent == Resumed /\ Drained => view = value

(* A client boots complete from the connection alone, without hydration    *)
(* races.                                                                  *)
BootsComplete == place = "live" /\ ~dropped /\ Drained => view = value
=============================================================================
