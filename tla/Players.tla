------------------------------ MODULE Players ------------------------------
(***************************************************************************)
(* The local half of the MPRIS plugin (internal/plugins/mpris): which      *)
(* media players of the desktop are tracked, what is known of them, the    *)
(* poller that samples them while one plays, and the pause of the music    *)
(* during a call.                                                          *)
(*                                                                         *)
(* Two bus names that announce the same identity, as two windows of one    *)
(* browser do; the second display name is the identity with a number.      *)
(* The watcher of the session bus is one goroutine and handles a signal at *)
(* a time, but the bus does not wait for it.  Every poller is a goroutine  *)
(* that reads the players, then stores what changed, and the bus and the   *)
(* watcher run in between.                                                 *)
(*                                                                         *)
(* Abstracted: of a player's state whether it plays; the packets to the    *)
(* phones, which carry what is stored; a player that does not answer the   *)
(* watcher although it is there; positions and their drift.                *)
(***************************************************************************)
EXTENDS Naturals, Sequences, FiniteSets

CONSTANTS
    PlayerNames, \* bus names of media players
    MaxChanges,  \* bound: what players and callers do
    MaxFailures, \* maxConsecutiveReadFailures
    MaxPollers   \* bound: poller goroutines alive at once

ASSUME PlayersAssumption ==
    /\ MaxChanges \in Nat /\ MaxFailures \in Nat \ {0} /\ MaxPollers \in Nat \ {0}
    /\ IsFiniteSet(PlayerNames) /\ Cardinality(PlayerNames) \in 1..2

Displays  == 1..Cardinality(PlayerNames)  \* 1 is the identity itself
Owners    == 1..MaxChanges          \* unique names on the bus
Pollers   == 1..MaxPollers
NoName    == "no name"
NoReading   == [seen |-> "nothing"]

VARIABLES
    owner,     \* the bus: who owns a name, 0 when nobody does
    plays,     \* the bus: names whose player plays
    listFirst, \* the bus: which of two names it lists first
    changes,   \* changes so far
    signals,   \* the channel of the watcher
    watcher,   \* starting, listed, or watching
    matched,   \* names with a match rule on the watcher's connection
    shown,     \* uniqueToDisplay: the display name of an owner, 0 for none
    reconcile, \* reconcileCh holds a token
    media,     \* what p.mu protects: see MediaInit
    sampled,   \* what a poller has read and not compared yet
    onCall     \* the phone is in a call

playersVars ==
    <<owner, plays, listFirst, changes, signals, watcher, matched, shown,
      reconcile, media, sampled, onCall>>

(* players and lastStates by display name; pollCancel, as the poller it    *)
(* cancels; pollGen, as the poller armed last; the pollers that run; the   *)
(* players that a call has paused.  A poller that has ended gives its      *)
(* number back: a generation is only ever compared with the latest.        *)
MediaInit ==
    [player |-> [d \in Displays |-> NoName],
     state  |-> [d \in Displays |-> "unknown"],
     handle |-> 0, gen |-> 0,
     poller |-> [g \in Pollers |-> "none"], cancelled |-> {},
     paused |-> {}]

PlayersInit ==
    /\ owner = [n \in PlayerNames |-> 0] /\ plays = {} /\ changes = 0
    /\ listFirst \in PlayerNames
    /\ signals = <<>> /\ watcher = "starting" /\ matched = {}
    /\ shown = [o \in Owners |-> 0]
    /\ reconcile = FALSE
    /\ media = MediaInit
    /\ sampled = [g \in Pollers |-> NoReading]
    /\ onCall = FALSE

TrackedNames(m) == {m.player[d] : d \in Displays} \ {NoName}
Owned           == {n \in PlayerNames : owner[n] # 0}
Status(n)       == IF n \in plays THEN "playing" ELSE "stopped"

-----------------------------------------------------------------------------
(* The poller's handle, under p.mu.                                        *)
SparePollers(m) == {g \in Pollers : m.poller[g] = "none"}

(* At the bound on pollers no other one is started.                        *)
ArmPoller(m) ==
    IF m.handle # 0 \/ SparePollers(m) = {} THEN m
    ELSE LET g == CHOOSE g \in SparePollers(m) : TRUE
         IN  [m EXCEPT !.gen = g, !.handle = g, !.poller[g] = "waiting"]

StopPoller(m) == [m EXCEPT !.handle = 0, !.cancelled = @ \union ({m.handle} \ {0})]

SyncPoller(m) == IF TrackedNames(m) = {} THEN StopPoller(m) ELSE ArmPoller(m)

StoreState(m, d, s) == SyncPoller([m EXCEPT !.state[d] = s])

(* addPlayer stores the state only when the player answers.                *)
AddPlayer(m, d, n) ==
    LET put == [m EXCEPT !.player[d] = n]
    IN  IF owner[n] = 0 THEN put ELSE StoreState(put, d, Status(n))

RemovePlayer(m, d) ==
    SyncPoller([m EXCEPT !.player[d] = NoName, !.state[d] = "unknown"])

(* Operations for several display names, one after the other.  Every one   *)
(* of them ends with SyncPoller, and what the first SyncPoller has done    *)
(* the next ones leave as it is, unless the last player goes.              *)
Replaced(old, set, new) == [d \in Displays |-> IF d \in set THEN new[d] ELSE old[d]]

StoreStates(m, set, status) ==
    IF set = {} THEN m
    ELSE SyncPoller([m EXCEPT !.state = Replaced(@, set, status)])

AddPlayers(m, set, name) ==
    IF set = {} THEN m
    ELSE SyncPoller([m EXCEPT !.player = Replaced(@, set, name),
                              !.state = Replaced(@, set, [d \in set |-> Status(name[d])])])

(* Before the last of several is removed there are players, and a poller   *)
(* is armed for them if there was none.                                    *)
RemovePlayers(m, set) ==
    IF set = {} THEN m
    ELSE LET kept == IF Cardinality(set) = 1 THEN m ELSE ArmPoller(m)
         IN  SyncPoller(
                [kept EXCEPT
                    !.player = Replaced(@, set, [d \in set |-> NoName]),
                    !.state = Replaced(@, set, [d \in set |-> "unknown"])])

(* refreshTrackedStates: every tracked player that answers and differs.    *)
RefreshTrackedStates(m) ==
    LET differs == {d \in Displays : /\ m.player[d] \in Owned
                                     /\ m.state[d] # Status(m.player[d])}
    IN  StoreStates(m, differs, [d \in differs |-> Status(m.player[d])])

(* listPlayersDBus: the names in the order of the bus, each with a display *)
(* name of its own.                                                        *)
Listed ==
    [n \in Owned |-> IF n = listFirst \/ listFirst \notin Owned THEN 1 ELSE 2]

AddListed(m, new) ==
    LET listing == Listed
        set     == {listing[n] : n \in new}
    IN  AddPlayers(m, set, [d \in set |-> CHOOSE n \in new : listing[n] = d])

ShowListed(new) ==
    LET listing == Listed
    IN  [o \in Owners |->
            IF \E n \in new : owner[n] = o
            THEN listing[CHOOSE n \in new : owner[n] = o] ELSE shown[o]]

-----------------------------------------------------------------------------
(* The desktop.  A signal reaches the watcher when a match rule of its     *)
(* connection takes it at that moment.                                     *)
Emit(heard, sig) == signals' = IF heard THEN Append(signals, sig) ELSE signals

(* What players of a set tell, one after the other, in any order.          *)
Orders(set) ==
    {order \in [1..Cardinality(set) -> set] :
        \A n \in set : \E i \in DOMAIN order : order[i] = n}

TellStatus(set, status) ==
    \E order \in Orders(set) :
        signals' = signals \o [i \in DOMAIN order |->
                        [kind |-> "props", from |-> owner[order[i]], status |-> status]]

OwnerSignal(n, old, new) ==
    Emit(watcher = "watching",
         [kind |-> "owner", name |-> n, from |-> old, to |-> new])

ByUser ==
    /\ changes < MaxChanges
    /\ changes' = changes + 1

PlayerOpens(n) ==
    /\ ByUser /\ owner[n] = 0
    /\ owner' = [owner EXCEPT ![n] = changes + 1]
    /\ OwnerSignal(n, 0, changes + 1)
    /\ UNCHANGED <<plays, listFirst, watcher, matched, shown, reconcile, media,
                   sampled, onCall>>

PlayerCloses(n) ==
    /\ ByUser /\ owner[n] # 0
    /\ owner' = [owner EXCEPT ![n] = 0]
    /\ plays' = plays \ {n}
    /\ OwnerSignal(n, owner[n], 0)
    /\ UNCHANGED <<listFirst, watcher, matched, shown, reconcile, media, sampled,
                   onCall>>

PlayOrPause(n) ==
    /\ ByUser /\ owner[n] # 0
    /\ plays' = IF n \in plays THEN plays \ {n} ELSE plays \union {n}
    /\ Emit(n \in matched, [kind |-> "props", from |-> owner[n],
                            status |-> IF n \in plays THEN "stopped" ELSE "playing"])
    /\ UNCHANGED <<owner, listFirst, watcher, matched, shown, reconcile, media,
                   sampled, onCall>>

UserSeeks(n) ==
    /\ ByUser /\ owner[n] # 0
    /\ Emit(n \in matched, [kind |-> "seeked", from |-> owner[n]])
    /\ UNCHANGED <<owner, plays, listFirst, watcher, matched, shown, reconcile,
                   media, sampled, onCall>>

-----------------------------------------------------------------------------
(* The watcher: it lists, then registers for new owners, then listens.  If *)
(* it cannot register it begins again with a new connection.               *)
ListInitially ==
    /\ watcher = "starting"
    /\ watcher' = "listed"
    /\ matched' = matched \union Owned
    /\ shown' = ShowListed(Owned)
    /\ media' = AddListed(media, Owned)
    /\ UNCHANGED <<owner, plays, listFirst, changes, signals, reconcile, sampled,
                   onCall>>

BeginWatching ==
    /\ watcher = "listed"
    /\ watcher' = "watching"
    /\ UNCHANGED <<owner, plays, listFirst, changes, signals, matched, shown,
                   reconcile, media, sampled, onCall>>

WatcherFails ==
    /\ watcher = "listed"
    /\ watcher' = "starting"
    /\ matched' = {} /\ shown' = [o \in Owners |-> 0] /\ signals' = <<>>
    /\ UNCHANGED <<owner, plays, listFirst, changes, reconcile, media, sampled,
                   onCall>>

Receive(kind) ==
    /\ watcher = "watching" /\ signals # <<>> /\ Head(signals).kind = kind
    /\ signals' = Tail(signals)

(* A name changed hands: what its old owner was shown as is removed, and   *)
(* the name is added under its identity.                                   *)
HandleNameOwnerChanged ==
    /\ Receive("owner")
    /\ LET sig  == Head(signals)
           gone == IF sig.from = 0 THEN 0 ELSE shown[sig.from]
           left == IF gone = 0 THEN media ELSE RemovePlayer(media, gone)
       IN  IF sig.to = 0
           THEN /\ media' = left
                /\ shown' = [shown EXCEPT ![sig.from] = 0]
                /\ UNCHANGED matched
           ELSE /\ media' = AddPlayer(left, 1, sig.name)
                /\ shown' = [o \in Owners |-> CASE o = sig.to   -> 1
                                                [] o = sig.from -> 0
                                                [] OTHER        -> shown[o]]
                /\ matched' = matched \union {sig.name}
    /\ UNCHANGED <<owner, plays, listFirst, changes, watcher, reconcile, sampled,
                   onCall>>

(* A signal of an owner that is not known proves drift.                    *)
HandleSeeked ==
    /\ Receive("seeked")
    /\ reconcile' = (reconcile \/ shown[Head(signals).from] = 0)
    /\ UNCHANGED <<owner, plays, listFirst, changes, watcher, matched, shown,
                   media, sampled, onCall>>

(* The status the signal carries is stored for the display name, if a      *)
(* player is tracked under it.                                             *)
HandlePropertiesChanged ==
    /\ Receive("props")
    /\ LET sig == Head(signals)
           d   == shown[sig.from]
       IN  /\ reconcile' = (reconcile \/ d = 0)
           /\ media' = IF d # 0 /\ media.player[d] # NoName
                       THEN StoreState(media, d, sig.status) ELSE media
    /\ UNCHANGED <<owner, plays, listFirst, changes, watcher, matched, shown,
                   sampled, onCall>>

(* requestReconcile: a device connects, a phone asks for the players, or   *)
(* the list command does.                                                  *)
RequestReconcile ==
    /\ ~reconcile
    /\ reconcile' = TRUE
    /\ UNCHANGED <<owner, plays, listFirst, changes, signals, watcher, matched,
                   shown, media, sampled, onCall>>

ReconcileFails ==
    /\ watcher = "watching" /\ reconcile
    /\ reconcile' = FALSE
    /\ UNCHANGED <<owner, plays, listFirst, changes, signals, watcher, matched,
                   shown, media, sampled, onCall>>

ReconcilePlayers_KeepsTheDead ==
    /\ watcher = "watching" /\ reconcile
    /\ reconcile' = FALSE
    /\ LET new == Owned \ TrackedNames(media)
       IN  /\ matched' = matched \union new
           /\ shown' = ShowListed(new)
           /\ media' = RefreshTrackedStates(AddListed(media, new))
    /\ UNCHANGED <<owner, plays, listFirst, changes, signals, watcher, sampled,
                   onCall>>

(* What is owned and not tracked is added; then what was tracked and is    *)
(* not owned is removed, with the owners shown under its display name,     *)
(* unless the display name has been taken over.  A name tracked twice is   *)
(* found under one display name only.                                      *)
ReconcilePlayers ==
    /\ watcher = "watching" /\ reconcile
    /\ reconcile' = FALSE
    /\ LET new   == Owned \ TrackedNames(media)
           dead  == TrackedNames(media) \ Owned
           added == AddListed(media, new)
           under(n) == {d \in Displays : media.player[d] = n}
       IN  \E found \in {f \in [dead -> Displays] : \A n \in dead : f[n] \in under(n)} :
               LET drop == {found[n] : n \in {k \in dead : added.player[found[k]] = k}}
               IN  /\ matched' = matched \union new
                   /\ shown' = [o \in Owners |->
                          IF ShowListed(new)[o] \in drop THEN 0 ELSE ShowListed(new)[o]]
                   /\ media' = RefreshTrackedStates(RemovePlayers(added, drop))
    /\ UNCHANGED <<owner, plays, listFirst, changes, signals, watcher, sampled,
                   onCall>>

-----------------------------------------------------------------------------
(* A poller.                                                               *)
PollRead(g) ==
    /\ media.poller[g] = "waiting"
    /\ \E slow \in SUBSET Owned :
         sampled' = [sampled EXCEPT ![g] =
             [seen |-> [d \in Displays |->
                 LET n == media.player[d]
                 IN  CASE n = NoName               -> "absent"
                       [] n \in Owned \ slow       -> Status(n)
                       [] OTHER                    -> "error"],
              failures |-> IF sampled[g] = NoReading THEN 0 ELSE sampled[g].failures]]
    /\ media' = [media EXCEPT !.poller[g] = "read"]
    /\ UNCHANGED <<owner, plays, listFirst, changes, signals, watcher, matched,
                   shown, reconcile, onCall>>

(* pollPlayingPlayers stores what differs; then the loop goes on while one *)
(* plays or, for a while, while one did not answer.                        *)
PollStore(g) ==
    /\ media.poller[g] = "read"
    /\ LET seen     == sampled[g].seen
           playing  == \E d \in Displays : seen[d] = "playing"
           failures == IF playing THEN 0 ELSE sampled[g].failures + 1
           complete == \A d \in Displays : seen[d] # "error"
           more     == playing \/ (~complete /\ failures < MaxFailures)
           differs  == {d \in Displays : /\ seen[d] \in {"playing", "stopped"}
                                         /\ seen[d] # media.state[d]}
       IN  /\ media' = [StoreStates(media, differs, seen) EXCEPT
                           !.poller[g] = IF more THEN "waiting" ELSE "ending"]
           /\ sampled' = [sampled EXCEPT ![g] =
                 IF more /\ failures > 0
                 THEN [seen |-> "nothing", failures |-> failures] ELSE NoReading]
    /\ UNCHANGED <<owner, plays, listFirst, changes, signals, watcher, matched,
                   shown, reconcile, onCall>>

PollCancelled(g) ==
    /\ media.poller[g] = "waiting" /\ g \in media.cancelled
    /\ media' = [media EXCEPT !.poller[g] = "ending"]
    /\ sampled' = [sampled EXCEPT ![g] = NoReading]
    /\ UNCHANGED <<owner, plays, listFirst, changes, signals, watcher, matched,
                   shown, reconcile, onCall>>

FinishPoller_OfAnyGeneration(g) ==
    /\ media.poller[g] = "ending"
    /\ media' = [media EXCEPT !.poller[g] = "none", !.handle = 0,
                              !.cancelled = @ \ {g}]
    /\ UNCHANGED <<owner, plays, listFirst, changes, signals, watcher, matched,
                   shown, reconcile, sampled, onCall>>

(* finishPlayingPoller                                                     *)
FinishPoller(g) ==
    /\ media.poller[g] = "ending"
    /\ media' = [media EXCEPT !.poller[g] = "none",
                              !.handle = IF media.gen = g THEN 0 ELSE @,
                              !.cancelled = @ \ {g}]
    /\ UNCHANGED <<owner, plays, listFirst, changes, signals, watcher, matched,
                   shown, reconcile, sampled, onCall>>

-----------------------------------------------------------------------------
(* A call: players that play are paused, once, and resumed by their        *)
(* display names when it ends.                                             *)
Ring ==
    /\ ByUser
    /\ onCall' = TRUE
    /\ LET pause == {d \in Displays : media.player[d] \in plays}
       IN  IF media.paused # {} THEN UNCHANGED <<media, plays>>
           ELSE /\ media' = [media EXCEPT !.paused = pause]
                /\ plays' = plays \ {media.player[d] : d \in pause}
    /\ TellStatus((plays \ plays') \intersect matched, "stopped")
    /\ UNCHANGED <<owner, listFirst, watcher, matched, shown, reconcile, sampled>>

CallEnds ==
    /\ onCall
    /\ onCall' = FALSE
    /\ plays' = plays \union ({media.player[d] : d \in media.paused} \intersect Owned)
    /\ TellStatus((plays' \ plays) \intersect matched, "playing")
    /\ media' = [media EXCEPT !.paused = {}]
    /\ UNCHANGED <<owner, listFirst, changes, watcher, matched, shown, reconcile,
                   sampled>>

(* The one goroutine of the watcher, once it is registered.                *)
WatcherStep ==
    \/ ListInitially
    \/ HandleNameOwnerChanged \/ HandleSeeked \/ HandlePropertiesChanged

PlayersNext ==
    \/ \E n \in PlayerNames :
        PlayerOpens(n) \/ PlayerCloses(n) \/ PlayOrPause(n) \/ UserSeeks(n)
    \/ WatcherStep \/ BeginWatching \/ WatcherFails
    \/ RequestReconcile \/ ReconcileFails \/ ReconcilePlayers
    \/ \E g \in Pollers :
        PollRead(g) \/ PollStore(g) \/ PollCancelled(g) \/ FinishPoller(g)
    \/ Ring \/ CallEnds

PlayersSpec == PlayersInit /\ [][PlayersNext]_playersVars

-----------------------------------------------------------------------------
(* Properties.                                                             *)

PlayersTypeOK ==
    /\ owner \in [PlayerNames -> 0..MaxChanges] /\ plays \subseteq PlayerNames
    /\ watcher \in {"starting", "listed", "watching"} /\ matched \subseteq PlayerNames
    /\ shown \in [Owners -> 0..Cardinality(PlayerNames)]
    /\ media.player \in [Displays -> PlayerNames \union {NoName}]
    /\ media.state \in [Displays -> {"unknown", "playing", "stopped"}]
    /\ media.handle \in {0, media.gen} /\ media.gen \in 0..MaxPollers
    /\ media.paused \subseteq Displays

(* pollGen: "a generation token lets a poller that stops itself avoid      *)
(* clearing the handle of the poller that replaced it".  So no two pollers *)
(* sample the players at once.                                             *)
OnePositionPoller ==
    Cardinality({g \in Pollers : /\ media.poller[g] \in {"waiting", "read"}
                                 /\ g \notin media.cancelled}) <= 1

(* reconcilePlayers heals drift: when the desktop is quiet and the phones  *)
(* keep asking, the tracked players are in the end the ones there are,     *)
(* whatever signals were missed or came for a twin.                        *)
DriftHeals ==
    <>[](TrackedNames(media) = Owned)

=============================================================================
