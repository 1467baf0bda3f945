------------------------------- MODULE Hooks -------------------------------
(***************************************************************************)
(* Commands that run on events (internal/hooks, hooks.go): one goroutine   *)
(* takes the events and gives each to a worker, of which there are at most *)
(* maxConcurrent; a worker looks whether the hook has run for the device   *)
(* within its debounce time, and runs the command.                         *)
(*                                                                         *)
(* Abstracted: one hook; an event is the device it is about; contents,     *)
(* expansion and environment of commands.  Time is a number of ticks.      *)
(***************************************************************************)
EXTENDS Integers, Sequences, FiniteSets

CONSTANTS
    HookDevices,   \* devices events are about
    HookWorkers,   \* worker goroutines: maxConcurrent of them
    Debounce,      \* debounce time of the hook, in ticks; 0: none
    MaxHookEvents, \* bound: events
    MaxTime        \* bound: ticks

ASSUME HooksAssumption ==
    Debounce \in Nat /\ MaxTime \in Nat /\ MaxHookEvents \in Nat

VARIABLES
    eventsDue,   \* events in the channel of the subscription
    eventsLeft,  \* events still to be published (bound)
    workerOn,    \* per worker: the device of its event, or Free
    workerStep,  \* per worker: "free", "clock", "check", "run"
    workerNow,   \* per worker: the time it has read
    lastRun,     \* Runner.last: per device the time of its last run, or Never
    startedAt,   \* history: per device the times read for the runs of its command
    clock,       \* the time
    hooksStopped \* the context of the daemon is over

hooksVars ==
    <<eventsDue, eventsLeft, workerOn, workerStep, workerNow, lastRun, startedAt,
      clock, hooksStopped>>

Free  == "free"
Never == MaxTime + 1

HooksInit ==
    /\ eventsDue = <<>> /\ eventsLeft = MaxHookEvents
    /\ workerOn = [w \in HookWorkers |-> Free]
    /\ workerStep = [w \in HookWorkers |-> "free"]
    /\ workerNow = [w \in HookWorkers |-> 0]
    /\ lastRun = [d \in HookDevices |-> Never]
    /\ startedAt = [d \in HookDevices |-> <<>>]
    /\ clock = 0 /\ hooksStopped = FALSE

PublishEvent(d) ==
    /\ eventsLeft > 0
    /\ eventsLeft' = eventsLeft - 1
    /\ eventsDue' = Append(eventsDue, d)
    /\ UNCHANGED <<workerOn, workerStep, workerNow, lastRun, startedAt, clock,
                   hooksStopped>>

(* The loop takes an event: a free worker gets it, else it is lost.        *)
TakeEvent ==
    /\ ~hooksStopped /\ eventsDue # <<>>
    /\ eventsDue' = Tail(eventsDue)
    /\ \/ \E w \in HookWorkers :
            /\ workerStep[w] = "free"
            /\ workerOn' = [workerOn EXCEPT ![w] = Head(eventsDue)]
            /\ workerStep' = [workerStep EXCEPT ![w] = "clock"]
       \/ /\ \A w \in HookWorkers : workerStep[w] # "free"
          /\ UNCHANGED <<workerOn, workerStep>>
    /\ UNCHANGED <<eventsLeft, workerNow, lastRun, startedAt, clock, hooksStopped>>

Done(w) ==
    /\ workerOn' = [workerOn EXCEPT ![w] = Free]
    /\ workerStep' = [workerStep EXCEPT ![w] = "free"]

(* debounced reads the clock, and then looks and stamps under the lock.    *)
ReadClock(w) ==
    /\ workerStep[w] = "clock"
    /\ workerNow' = [workerNow EXCEPT ![w] = clock]
    /\ workerStep' = [workerStep EXCEPT ![w] = "check"]
    /\ UNCHANGED <<eventsDue, eventsLeft, workerOn, lastRun, startedAt, clock,
                   hooksStopped>>

Debounced(w) ==
    LET d == workerOn[w]
    IN  Debounce > 0 /\ lastRun[d] # Never /\ workerNow[w] - lastRun[d] < Debounce

Stamp_OnlyOnce(w) ==
    lastRun' = IF Debounce > 0 /\ lastRun[workerOn[w]] = Never
               THEN [lastRun EXCEPT ![workerOn[w]] = workerNow[w]] ELSE lastRun

Stamp(w) ==
    lastRun' = IF Debounce > 0
               THEN [lastRun EXCEPT ![workerOn[w]] = workerNow[w]] ELSE lastRun

CheckDebounce(w) ==
    /\ workerStep[w] = "check"
    /\ IF Debounced(w)
       THEN Done(w) /\ UNCHANGED <<lastRun, startedAt>>
       ELSE /\ Stamp(w)
            /\ startedAt' = [startedAt EXCEPT ![workerOn[w]] = Append(@, workerNow[w])]
            /\ workerStep' = [workerStep EXCEPT ![w] = "run"]
            /\ UNCHANGED workerOn
    /\ UNCHANGED <<eventsDue, eventsLeft, workerNow, clock, hooksStopped>>

(* The command ends, or its time limit does; the end of the daemon's       *)
(* context does not end it.                                                *)
HookEnds(w) ==
    /\ workerStep[w] = "run"
    /\ Done(w)
    /\ UNCHANGED <<eventsDue, eventsLeft, workerNow, lastRun, startedAt, clock,
                   hooksStopped>>

HooksStop ==
    /\ ~hooksStopped /\ hooksStopped' = TRUE
    /\ UNCHANGED <<eventsDue, eventsLeft, workerOn, workerStep, workerNow,
                   lastRun, startedAt, clock>>

Tick ==
    /\ clock < MaxTime /\ clock' = clock + 1
    /\ UNCHANGED <<eventsDue, eventsLeft, workerOn, workerStep, workerNow,
                   lastRun, startedAt, hooksStopped>>

HooksNext ==
    \/ \E d \in HookDevices : PublishEvent(d)
    \/ TakeEvent \/ HooksStop \/ Tick
    \/ \E w \in HookWorkers : ReadClock(w) \/ CheckDebounce(w) \/ HookEnds(w)

HooksSpec == HooksInit /\ [][HooksNext]_hooksVars

-----------------------------------------------------------------------------
(* Properties.                                                             *)

HooksTypeOK ==
    /\ workerOn \in [HookWorkers -> HookDevices \union {Free}]
    /\ workerStep \in [HookWorkers -> {"free", "clock", "check", "run"}]
    /\ workerNow \in [HookWorkers -> 0..MaxTime]
    /\ lastRun \in [HookDevices -> 0..Never]
    /\ clock \in 0..MaxTime /\ eventsLeft \in 0..MaxHookEvents

(* A burst of events of a device runs its hook once: by the times their    *)
(* workers read, no two runs are closer than the debounce time, however    *)
(* many workers take the events, whether the earlier run is still under    *)
(* way or not, and although a worker may have read the clock long before   *)
(* it gets the lock.                                                       *)
RunsAreApart ==
    Debounce > 0 =>
        \A d \in HookDevices : \A i \in 2..Len(startedAt[d]) :
            startedAt[d][i] - startedAt[d][i - 1] >= Debounce

=============================================================================
