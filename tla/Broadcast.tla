------------------------------ MODULE Broadcast ------------------------------
(***************************************************************************)
(* When the daemon announces itself: the BroadcasterController             *)
(* (internal/discovery), the user's pairing window, and the reconnect      *)
(* owner, which the watcher of internal/daemon/daemon.go and the sightings *)
(* of paired devices (transport.go) keep in step with the devices.         *)
(*                                                                         *)
(* A step is one section under BroadcasterController.mu or one read of a   *)
(* device.  The watcher and the goroutine that handles sightings run the   *)
(* same function, syncReconnectBroadcastUntil, at once.                    *)
(*                                                                         *)
(* The goroutines that run a broadcast loop are named by what the          *)
(* controller can still do to them: the one bc.cancel belongs to, those it *)
(* has cancelled, and those that nothing will cancel.  Abstracted: what is *)
(* sent and when, the mDNS browse that shares the context, and the time in *)
(* stale_after.                                                            *)
(***************************************************************************)
EXTENDS Integers

CONSTANTS
    Devices,   \* devices in the registry
    MaxEnding, \* bound: loops ending at once whose reports are modelled
    QueueCap   \* capacity of the watcher's subscription; also the bound of
               \* the events waiting to be published

ASSUME BroadcastAssumption ==
    /\ MaxEnding \in Nat \ {0}
    /\ QueueCap \in Nat \ {0}

Owners  == {"pairing", "reconnect"}
Syncers == {"watcher", "sighting"}

VARIABLES
    owners,         \* bc.owners
    running,        \* bc.running
    current,        \* the loop of bc.cancel, "none" when that is nil
    ending,         \* cancelled or failed loops that have not reported their end
    orphaned,       \* a loop runs that bc.cancel no longer belongs to
    paired, online, \* per device
    heard,          \* per device: lastSeen is zero, recent, or past stale_after
    unsent,         \* connects and disconnects whose event is not published yet
    events,         \* events in the watcher's subscription
    timer,          \* the watcher's timer is set
    at,             \* per syncer: the statement it is at
    todo,           \* per syncer: the devices it has not looked at
    wanted,         \* per syncer: some device wants the broadcast
    expires         \* per syncer: some wanted device has an expiry

broadcastVars ==
    <<owners, running, current, ending, orphaned, paired, online, heard,
      unsent, events, timer, at, todo, wanted, expires>>

controller == <<owners, running, current, ending, orphaned>>
devices    == <<paired, online, heard>>
bus        == <<unsent, events>>
locals     == <<todo, wanted, expires>>

BroadcastInit ==
    /\ owners = {}
    /\ running = FALSE
    /\ current = "none"
    /\ ending = 0
    /\ orphaned = FALSE
    /\ paired \in [Devices -> BOOLEAN]
    /\ online = [d \in Devices |-> FALSE]
    /\ heard \in [Devices -> {"never", "recently", "long ago"}]
    /\ unsent = 0
    /\ events = 0
    /\ timer = FALSE
    /\ at = [s \in Syncers |-> IF s = "watcher" THEN <<"look">> ELSE <<"idle">>]
    /\ todo = [s \in Syncers |-> IF s = "watcher" THEN Devices ELSE {}]
    /\ wanted = [s \in Syncers |-> FALSE]
    /\ expires = [s \in Syncers |-> FALSE]

-----------------------------------------------------------------------------
(* BroadcasterController, under bc.mu.                                     *)

(* One more loop that will report its end.                                 *)
OneMoreEnding == IF ending < MaxEnding THEN ending + 1 ELSE ending

(* A loop that bc.cancel belonged to, when bc.cancel is overwritten: one   *)
(* that has failed still reports its end, one that runs is forgotten.      *)
Overwrite ==
    /\ ending' = IF current = "failed" THEN OneMoreEnding ELSE ending
    /\ orphaned' = (orphaned \/ current \in {"starting", "broadcasting"})

StartOwned(owner) ==
    /\ owners' = owners \cup {owner}
    /\ IF running THEN UNCHANGED <<running, current, ending, orphaned>>
       ELSE /\ running' = TRUE
            /\ current' = "starting"
            /\ Overwrite

StopOwned_AnyOwner(owner) ==
    /\ owners' = owners \ {owner}
    /\ IF owner \notin owners \/ ~running \/ current = "none"
       THEN UNCHANGED <<running, current, ending, orphaned>>
       ELSE /\ current' = "none"
            /\ running' = FALSE
            /\ ending' = OneMoreEnding
            /\ UNCHANGED orphaned

StopOwned_KeepsRunning(owner) ==
    /\ owners' = owners \ {owner}
    /\ IF owner \notin owners \/ owners' # {} \/ ~running \/ current = "none"
       THEN UNCHANGED <<running, current, ending, orphaned>>
       ELSE /\ current' = "none"
            /\ ending' = OneMoreEnding
            /\ UNCHANGED <<running, orphaned>>

StopOwned(owner) ==
    /\ owners' = owners \ {owner}
    /\ IF owner \notin owners \/ owners' # {} \/ ~running \/ current = "none"
       THEN UNCHANGED <<running, current, ending, orphaned>>
       ELSE /\ current' = "none"
            /\ running' = FALSE
            /\ ending' = OneMoreEnding
            /\ UNCHANGED orphaned

-----------------------------------------------------------------------------
(* The goroutine of a loop: Run, then running = false.                     *)

Listen ==
    /\ current = "starting"
    /\ current' \in {"broadcasting", "failed"}
    /\ UNCHANGED <<owners, running, ending, orphaned, devices, bus, timer,
                   at, locals>>

ReportFailed ==
    /\ current = "failed"
    /\ current' = "gone"
    /\ running' = FALSE
    /\ UNCHANGED <<owners, ending, orphaned, devices, bus, timer, at,
                   locals>>

(* Whichever loop runs now.                                                *)
ReportEnded ==
    /\ ending > 0
    /\ ending' = ending - 1
    /\ running' = FALSE
    /\ UNCHANGED <<owners, current, orphaned, devices, bus, timer, at,
                   locals>>

-----------------------------------------------------------------------------
(* IPC broadcast start and stop.  (Stop also drops unpaired connections    *)
(* without a pair intent: each is one of the losses of Lose.)              *)

BroadcastStart ==
    /\ StartOwned("pairing")
    /\ UNCHANGED <<devices, bus, timer, at, locals>>

BroadcastStop ==
    /\ StopOwned("pairing")
    /\ UNCHANGED <<devices, bus, timer, at, locals>>

-----------------------------------------------------------------------------
(* The devices.                                                            *)

Connect(d) ==
    /\ unsent < QueueCap
    /\ online' = [online EXCEPT ![d] = TRUE]
    /\ heard' = [heard EXCEPT ![d] = "recently"]
    /\ unsent' = unsent + 1
    /\ UNCHANGED <<controller, paired, events, timer, at, locals>>

Lose(d) ==
    /\ online[d]
    /\ unsent < QueueCap
    /\ online' = [online EXCEPT ![d] = FALSE]
    /\ heard' = [heard EXCEPT ![d] = "recently"]
    /\ unsent' = unsent + 1
    /\ UNCHANGED <<controller, paired, events, timer, at, locals>>

(* The event of a connect or disconnect; a full subscription loses it.     *)
Publish ==
    /\ unsent > 0
    /\ unsent' = unsent - 1
    /\ events' = IF events < QueueCap THEN events + 1 ELSE events
    /\ UNCHANGED <<controller, devices, timer, at, locals>>

ChangeTrust(d) ==
    /\ paired' = [paired EXCEPT ![d] = ~@]
    /\ UNCHANGED <<controller, online, heard, bus, timer, at, locals>>

Silence(d) ==
    /\ heard[d] = "recently"
    /\ heard' = [heard EXCEPT ![d] = "long ago"]
    /\ UNCHANGED <<controller, paired, online, bus, timer, at, locals>>

-----------------------------------------------------------------------------
(* What starts syncReconnectBroadcastUntil: an event or the timer for the  *)
(* watcher, the announcement of a paired device for the other.             *)

Begin(s) ==
    /\ at[s] = <<"idle">>
    /\ at' = [at EXCEPT ![s] = <<"look">>]
    /\ todo' = [todo EXCEPT ![s] = Devices]
    /\ UNCHANGED <<controller, paired, online, unsent, wanted, expires>>

Wake ==
    /\ Begin("watcher")
    /\ events > 0
    /\ events' = events - 1
    /\ UNCHANGED <<heard, timer>>

Expire ==
    /\ Begin("watcher")
    /\ timer
    /\ timer' = FALSE
    /\ UNCHANGED <<heard, events>>

Sight(d) ==
    /\ Begin("sighting")
    /\ paired[d]
    /\ heard' = [heard EXCEPT ![d] = "recently"]
    /\ UNCHANGED <<events, timer>>

-----------------------------------------------------------------------------
(* syncReconnectBroadcastUntil.                                            *)

Goto(s, place) == at' = [at EXCEPT ![s] = place]

(* One device: State, IsConnected, LastSeen, each read on its own.         *)
Look(s, d) ==
    /\ at[s] = <<"look">>
    /\ d \in todo[s]
    /\ IF paired[d] THEN Goto(s, <<"conn", d>>) /\ UNCHANGED todo
       ELSE todo' = [todo EXCEPT ![s] = @ \ {d}] /\ UNCHANGED at
    /\ UNCHANGED <<controller, devices, bus, timer, wanted, expires>>

LookConnected(s, d) ==
    /\ at[s] = <<"conn", d>>
    /\ IF online[d]
       THEN Goto(s, <<"look">>) /\ todo' = [todo EXCEPT ![s] = @ \ {d}]
       ELSE Goto(s, <<"seen", d>>) /\ UNCHANGED todo
    /\ UNCHANGED <<controller, devices, bus, timer, wanted, expires>>

LookSeen(s, d) ==
    /\ at[s] = <<"seen", d>>
    /\ todo' = [todo EXCEPT ![s] = @ \ {d}]
    /\ IF heard[d] = "long ago"
       THEN Goto(s, <<"look">>) /\ UNCHANGED <<wanted, expires>>
       ELSE /\ Goto(s, <<"start">>)
            /\ wanted' = [wanted EXCEPT ![s] = TRUE]
            /\ expires' = [expires EXCEPT ![s] = @ \/ heard[d] = "recently"]
    /\ UNCHANGED <<controller, devices, bus, timer>>

Want_Forgets(s) ==
    /\ at[s] = <<"start">>
    /\ Goto(s, <<"look">>)
    /\ UNCHANGED <<controller, devices, bus, timer, locals>>

Want(s) ==
    /\ at[s] = <<"start">>
    /\ StartOwned("reconnect")
    /\ Goto(s, <<"look">>)
    /\ UNCHANGED <<devices, bus, timer, locals>>

(* The end of the list.  Only the watcher sets a timer from the result.    *)
Finish(s) ==
    /\ at[s] = <<"look">>
    /\ todo[s] = {}
    /\ Goto(s, <<"idle">>)
    /\ wanted' = [wanted EXCEPT ![s] = FALSE]
    /\ expires' = [expires EXCEPT ![s] = FALSE]
    /\ timer' = IF s = "watcher" THEN expires[s] ELSE timer
    /\ UNCHANGED <<devices, bus, todo>>

Withdraw_Never(s) ==
    /\ Finish(s)
    /\ UNCHANGED controller

Withdraw(s) ==
    /\ Finish(s)
    /\ IF wanted[s] THEN UNCHANGED controller ELSE StopOwned("reconnect")

-----------------------------------------------------------------------------
LoopStep == Listen \/ ReportFailed \/ ReportEnded

SyncStep(s) ==
    \/ \E d \in Devices : Look(s, d) \/ LookConnected(s, d) \/ LookSeen(s, d)
    \/ Want(s) \/ Withdraw(s)

WatcherStep == Wake \/ Expire \/ SyncStep("watcher")

BroadcastNext ==
    \/ LoopStep
    \/ BroadcastStart \/ BroadcastStop
    \/ \E d \in Devices : \/ Connect(d) \/ Lose(d) \/ ChangeTrust(d)
                          \/ Silence(d) \/ Sight(d)
    \/ Publish
    \/ WatcherStep \/ SyncStep("sighting")

BroadcastSpec == BroadcastInit /\ [][BroadcastNext]_broadcastVars

(* Goroutines keep running and the watcher's timer, once set, goes off;    *)
(* a select that finds several cases ready takes one at random.            *)
Scheduling ==
    /\ WF_broadcastVars(LoopStep)
    /\ WF_broadcastVars(Publish)
    /\ WF_broadcastVars(WatcherStep) /\ SF_broadcastVars(Wake)
    /\ WF_broadcastVars(SyncStep("sighting"))

(* Paired devices announce themselves now and then.                        *)
Announcing == WF_broadcastVars(\E d \in Devices : Sight(d))

FairBroadcastSpec == BroadcastSpec /\ Scheduling /\ Announcing
-----------------------------------------------------------------------------
Places == {<<"idle">>, <<"look">>, <<"start">>} \cup ({"conn", "seen"} \X Devices)

(* Every variable has the values the code can give it.                     *)
BroadcastTypeOK ==
    /\ owners \subseteq Owners
    /\ running \in BOOLEAN
    /\ current \in {"none", "starting", "broadcasting", "failed", "gone"}
    /\ ending \in 0..MaxEnding
    /\ orphaned \in BOOLEAN
    /\ paired \in [Devices -> BOOLEAN]
    /\ online \in [Devices -> BOOLEAN]
    /\ heard \in [Devices -> {"never", "recently", "long ago"}]
    /\ unsent \in 0..QueueCap
    /\ events \in 0..QueueCap
    /\ timer \in BOOLEAN
    /\ at \in [Syncers -> Places]
    /\ todo \in [Syncers -> SUBSET Devices]
    /\ wanted \in [Syncers -> BOOLEAN]
    /\ expires \in [Syncers -> BOOLEAN]

(* Owners come and go in any order, and loops of earlier owners report     *)
(* their end late: the loop an owner relies on is never cancelled while    *)
(* anybody holds the broadcast (StartOwned, StopOwned).                    *)
OwnersAreServed == owners # {} => current # "none"

(* IsRunning, which opens the pairing mode to strangers, is never left on  *)
(* by a loop that has been cancelled or has reported its failure.          *)
RunningIsLive == running => current \notin {"none", "gone"}

Offline(d) == paired[d] /\ ~online[d] /\ heard[d] = "recently"

(* A paired device that is lost is announced to, although the watcher and  *)
(* the sightings start and withdraw the same owner from what they read     *)
(* earlier: the next sighting repairs what the race did.                   *)
OfflineIsAnnounced ==
    \A d \in Devices :
        Offline(d) ~> (~Offline(d) \/ "reconnect" \in owners)

AllOnline == \A d \in Devices : paired[d] => online[d]

(* Once all paired devices are connected and stay so, the reconnect owner  *)
(* lets go for good: a late StartOwned of a sighting does not keep the     *)
(* announcements going.                                                    *)
OnlineIsQuiet ==
    <>[](AllOnline /\ \E d \in Devices : paired[d])
        => <>[]("reconnect" \notin owners)

(* Broadcast is active only while somebody holds it.                       *)
UnownedIsQuiet ==
    owners = {} => current \notin {"starting", "broadcasting"} /\ ~orphaned
=============================================================================
