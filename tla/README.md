# A TLA+ development of kcd

kcd is a KDE Connect daemon for Linux: it finds phones on the network, keeps
one encrypted session per phone, pairs with them, and lets plugins exchange
packets with them. Scripts and desktop clients talk to the daemon through a
Unix socket (IPC). This directory holds TLA+ models of the parts of the daemon
in which several goroutines, the network, the user and the clock meet, the TLC
configurations that check them on small instances, and TLAPS proofs of what
holds on every instance. All paths below are relative to the repository.

    tlc -config MCPairing.cfg MCPairing      check a model
    tlapm PairingProofs.tla                  check the proofs about it

Every invariant and every action property that a run checks is also a theorem,
for every value of the constants; only what needs fairness is left to TLC alone
(section 4).

`PROJECT.json` is the index: which definition models which lines (`map`), what
each run checks (`runs`), how every property is shown to notice a bug of the
code it is about (`mutants`), what is hard to test in the code and which
property looks at it (`hazards`), where the code and its documentation differ
(`findings`), and which theorems are proved (`theorems`).

## 1. Inventory

kcd is a single process of many goroutines. Everything that is shared is
shared through a mutex, an atomic or a channel, so the natural grain of a model
is *one critical section, one atomic access, one channel operation*. The parts:

| Part | State | Operations | Interacts with |
|---|---|---|---|
| **Pairing** `internal/plugins/pair` | per device: pairing state (in `device`), pending timer and its generation, time stamp of the request | pair, accept, reject, unpair (IPC); pair packet received; timer fires | device, lifecycle hooks of all plugins, state manager (save), event bus |
| **Device session** `internal/device/{device_session,io}.go` | connection, send queue, done channel and its once, trust | Connect, Disconnect, disconnectConn, readLoop, writerLoop, Send | transport, plugins (dispatch), daemon hooks |
| **Reconnect loop** `internal/daemon/transport_reconnect.go` | reconnecting mark, wake token, last address, last seen | onDisconnect, TryReconnect, PokeReconnect, the loop, sightings | device, discovery, dialling |
| **Persistence** `internal/daemon/state.go`, `internal/device/{registry_persistence,state}.go`, `internal/config/state_lock.go` | registry, save request channel, save mutex, state file, lock file | requestSave, Save, Load (which may fail to read the file), graceful stop | pairing, IPC routes, the file system |
| **Device registry** `internal/device/registry.go` | map of devices | Add, Get, Remove, Prune | everything |
| **Discovery and dialling** `internal/daemon/{transport,transport_dial,pairdial}.go` | ephemeral-dial and pair-dial markers, dial rate limit, cooldown | onDeviceFound, dial, RequestPairDial | broadcast control, device, registry, pairing |
| **Broadcast control** `internal/discovery/broadcaster_controller.go` | running, cancel, owner, deadline | StartOwned, StopOwned, Extend, stale watcher | daemon watcher, IPC, event bus |
| **Discovery listeners** `internal/discovery/listener*.go` | sockets | UDP and mDNS receive | discovery |
| **Connection setup** `internal/daemon/transport_handshake.go`, `internal/transport/conn.go`, `internal/cert` | pinned certificates | TLS, identity exchange, pinning | session |
| **Payload transfer** `internal/transport/{sidechannel,send,receive}.go` | port range, one listener per payload | offer, accept, copy, size check, cancel | share, sms, contacts, mpris |
| **Packet codec** `internal/protocol` | packet pool | encode, decode, retain, release | session, plugins |
| **Plugin dispatch** `internal/plugin/registry.go` | handlers per packet type | Dispatch with a time limit, OnConnect, OnDisconnect | session, every plugin |
| **Event bus** `internal/events/bus.go` | sequence number, ring of 256, subscribers | Publish, Subscribe, EventsSince, Unsubscribe | IPC watch, desktop |
| **IPC** `internal/ipc` | clients, watch streams, prompts | request and response, watch, ask and respond | daemon routes, event bus |
| **IPC routes** `internal/daemon/ipc_routes*.go` | none | one handler per command | everything |
| **Daemon life cycle** `internal/daemon/{daemon,reload}.go` | contexts, wait groups | start, reload, stop | everything |
| **sftp** | credentials, the command that waits, mount points; the kernel's mount table | mount, unmount, credentials, end of session, stop | processes, IPC |
| **mpris**, local half | names and display names, states, poller and its generation, players paused by a call | signals of the bus, reconciliation, polling, calls | the desktop's bus, the phones, telephony |
| **mpris**, remote half | the phone's player, art asked for, art cache | state packets, art downloads, audience | event bus, payload transfer |
| **share** | listeners, temporary and final files | send, receive | payload transfer, the file system |
| **sms** | devices, who is armed and since which session | subscribers change, sync, packets | event bus |
| **contacts** | index of time stamps and cards | rounds, lists, cards, wipe | files, pairing |
| **clipboard** | last content, last push, time stamps | packets, pushes | programs of the desktop |
| **runcommand, lockdevice** | running executions, waiter for a list; the lock state | run, cancel, list; lock, unlock | processes |
| **mousepad, presenter, digitizer** | summed moves, queue, wake-ups, timer; the pointer; tablet devices | packets, workers | kernel devices, processes |
| **notification** | popup numbers, closes that are pending | post, withdraw, dismiss, the grace timer | the desktop |
| **battery, connectivity, remotesystemvolume** | the last report of each | packets, summaries | event bus, IPC |
| **systemvolume, findthisdevice** | the flag `playing`; the sink | requests | processes |
| **telephony, ping, findmyphone** | none | a packet each | event bus |
| **Hooks** `internal/hooks` | workers, time of the last run per device | event, run, stop | event bus, processes |
| **Client session** `pkg/client/persistent.go` | number of the next request | OpenSession, Call, Close | IPC |
| **Configuration, helpers, command line, rest of the client library** | the configuration | load, save | files |

### What makes it hard, and what must hold

* **Pairing.** IPC commands, packets of the peer and timer callbacks change one
  pairing state; the lock is released between reading the state and acting on
  it. Trust must be reached only through a pending request; no request may hang
  without a timer; an old timer must not end a new request; plugins must be
  told of each pairing and each end of one exactly once.
* **Session.** A new connection replaces the old one while the loops of the old
  one still run. No old loop may end the new session, no socket and no
  goroutine may be left behind, every session must be served, every `done`
  channel must be closed exactly once.
* **Reconnect.** Ends of sessions and sightings race to start the one dialling
  loop; the loop may be about to give up when they do. There must be at most
  one loop, it must stop on unpair without waiting for its timer, and a device
  that is out there must be found again.
* **Persistence.** Save requests are coalesced, saves can overlap, each file
  system call may fail, and the process may be killed at any point. No change
  may be forgotten by the coalescing, no old list may overwrite a newer one, no
  file may be left truncated.
* **Broadcast control and discovery.** Loops of several owners end while others
  start; sightings are throttled by markers set at one place and cleared at
  others, on objects that others may replace. A broadcast someone asked for must
  run, one that nobody needs must stop, a stranger must not be dialled again and
  again, and a pair intent must not outlive the pairing it was for.
* **Event bus and IPC.** A client must be able to rely on the snapshot, the
  replay and the stream together; slow clients must not block the daemon; a
  prompt must be answered once.
* **Dispatch and plugins.** Handlers run under a time limit and may overlap
  after it; plugins clean up on disconnect while a new session is starting; a
  late answer of the phone may arrive after the request was given up.
* **Transfers.** Listeners, ports and partial files must be released whichever
  side fails.

The full list, each hazard at its line, is `hazards` in `PROJECT.json`.

## 2. What is modelled

### Pairing (`Pairing.tla`, `PairingContract.tla`)

One device. `Users` are goroutines of IPC commands, `Handlers` goroutines of
the dispatcher; the callbacks of the pending timer are the members of `fired`
and `expiring`. Every goroutine has a program counter `pc`; a step is one
section under `PairPlugin.mu` or one atomic access to the device.

| Model | Code |
|---|---|
| `state` | `Device.state` |
| `armed`, `fired`, `pendingGeneration`, `nextGeneration` | `pendingTimers`, `pendingGeneration`, `nextGeneration` of the plugin; `fired` are callbacks that wait for the mutex |
| `stampOf` | whose request `pairingTimestamp[id]` is of |
| `marks` | the markers of the device: `ephemeralDialed`, the one-shot trigger of a pair intent (`pairDialRequested`) and its hold (`pairIntentUntil`) |
| `RequestPairDial`, `DialReturns`, `ProceedToPair`, `IntentWanes` | the pair command of a device without a session (`daemon/pairdial.go`): the look at the state and the mark are two steps, the dial comes back at any time, and its goroutine goes on as the command of a connected device does; a sighting uses the trigger up, and time ends the hold |
| `owed`, `hooks` | the lifecycle callback that `notifyStateChanged` makes after releasing the mutex, and how often the plugins were told |
| `PairCommand`, `AcceptPairing`, `stopPendingTimeout`, `transitionPendingToPaired`, `PairingDone`, `StampRequest`, `RequestPairing`, `UnpairCommand`, `Unpair` | `handlePair`/`handleUnpair` and `actions.go`, in the order the code makes these steps |
| `Handle`, `ReadKey`, `StartIncoming`, `Announce`, `Declined`, `ClearMarks`, `ClearStamp` | `handle.go` |
| `Fire`, `expirePending`, `RejectExpired` | the timer of `lifecycle.go` |

The peer may send any pair packet at any time. `Send` never fails (it only
queues), so its error branches, which are unreachable, are not modelled.
`PairingContract` is the abstract specification: a device stands in one of three
ways to us - nothing, asked, trusted - and is trusted only from asked. `Pairing`
implements it under the refinement mapping `Standing`, which forgets which of
the two sides has asked (`Contract == INSTANCE PairingContract WITH standing <-
Standing`).

Simplifications: whether there is a session, and whether a dial has brought one,
may be either way at any time (sessions are in `Session`, sightings in
`Discovery`); verification codes are named by whose time stamp they were computed
from.

### Session (`Session.tla`)

One device with connections `1..MaxConns`. Any number of goroutines may be
between the parts of `Connect`; the loops of a replaced session go on. A
`sendChan`/`done` pair is named by the connection it was made for.

| Model | Code |
|---|---|
| `conn`, `chan`, `closeOnce`, `done` | the fields of `Device` under its lock, and which channels are closed |
| `connecting`, `superseded` | how far each `Connect` has come after it released the lock, and the connection it must close |
| `reader`, `writer`, `serves`, `via` | `readLoop` and `writerLoop`: where they are, which channels the writer captured, which connection it resolved |
| `sending`, `Enqueue`, `Discard` | `Send`: a snapshot under the lock, then a `select` without it |
| `disconnectConn`, `Disconnect` | the same |
| `UnpairSend`, `UnpairChange`, `UnpairDisconnect` | IPC unpair as the session sees it |

Simplifications: one `Send` at a time is between its snapshot and its `select`;
what received packets do is left to the plugins; the handshake and the cooldown
come before `Connect`.

### Reconnect (`Reconnect.tla`)

One paired device that loses its session. `Enders` are the goroutines that run
the `onDisconnect` closure, `Loops` those of `ReconnectWithBackoff`, and one
sighting at a time is handled. Time is abstracted: the backoff timer may end any
wait, `stale` is whether `stale_after` has passed. Pairing changes are the
device's (`SetState`), with the token `PokeReconnect` leaves.

### Persistence (`Persistence.tla`)

One or two daemons on one state directory. The contents of a registry and of the
file are named by the number of the last pairing change in them. Each save is
the sequence of file system calls of `SaveDevices`, each of which may fail, and
between any two of them the process may be killed (`Kill`) or the machine lose
its power (`PowerLoss`, after which the name may point to the old or the new
file and unsynced bytes may be missing). A start may fail to read or to parse the
file (`Load`): the daemon logs it and goes on with an empty registry, and its next
save replaces the file. `unread` remembers that until a save has succeeded.
`pairPlugin` distinguishes the daemon
kcd builds, in which only `stateManager.run` saves, from one without the pair
plugin, in which IPC handlers save on their own goroutines: this branch of the
routes is in the code and is what `saveMu` is for, but the stock daemon never
takes it.

### Broadcast (`Broadcast.tla`)

The `BroadcasterController` with its two owners (the user's pairing window and
the reconnect owner), the goroutine in `daemon.go` that watches the devices, and
the sightings of paired devices. The watcher and the sightings run the same
function, `syncReconnectBroadcastUntil`, each on what it read of the devices.

| Model | Code |
|---|---|
| `owners`, `running`, `current` | `bc.owners`, `bc.running`, and the loop `bc.cancel` belongs to |
| `ending`, `orphaned` | goroutines of `StartOwned` that are cancelled but have not reported their end; loops no `cancel` belongs to any more |
| `StartOwned`, `StopOwned`, `Listen`, `ReportFailed`, `ReportEnded` | the controller's methods and the goroutine they start |
| `at`, `todo`, `wanted`, `expires`, `Look...`, `Want`, `Withdraw`, `Finish` | `syncReconnectBroadcastUntil`, one read of a device at a time |
| `Begin`, `Wake`, `Expire`, `timer`, `events`, `Publish` | the watcher with its subscription and timer |
| `Sight`, `Connect`, `Lose`, `Silence`, `ChangeTrust`, `BroadcastStart`, `BroadcastStop` | what the devices, the network, the clock and the user do |

Simplifications: what is sent, and at which interval; `stale_after` is the step
`Silence`; events that wait in the watcher's channel are counted, because the
watcher reads the devices and not the events.

### Watch (`Watch.tla`)

The event bus and the watch stream of one client. Between any two of its writes
the handler may wait for the client while events are published.

| Model | Code |
|---|---|
| `seq`, `ring`, `Publish`, `Retain`, `Gap`, `EventsSince` | the same of `events.Bus` |
| `subscribed`, `queue`, `dropped` | the stream's `Subscriber` and its channel, and whether `Publish` found it full |
| `place`, `Open`, `Describe` (the snapshot, then the dump), `Subscribe`, `Replay`, `WriteReplay`, `WriteLive`, `Leave` | `handleWatch`, in order |
| `replay` | what `EventsSince` returned and is not written yet: a set, as the events bear their numbers, of which the smallest is written first |
| `value`, `owed` | the last change of a device's state, and the changes that have been made under the lock and are still to be published, by several goroutines in any order |
| `swapped` | the event published last tells of an older change than one published before it |
| `got`, `view`, `last`, `ours` | what the client has seen |
| `log` | every event of this run of the daemon, to compare with |

Simplifications: the events the client's filter does not match are one kind. `matches` of an event is
decided when it is published, as the filter does not change while a client
resumes.

### The network side

| Module | Models | State and actions | Left out |
|---|---|---|---|
| `Discovery` | how a stranger becomes a connected device: `onDeviceFound`, connections in both directions, pruning | the registry's object for the device (`entry`), which a sighter or a handshake that found none replaces; `marked`, the objects with `ephemeralDialed`; two goroutines that handle sightings, each at a place `spot` between the reads and writes of `onDeviceFound` with the object `dev` it holds; the limit per second; the ends of pairings, which clear the marker and begin an era in which ephemeral dials are counted | addresses; the cooldown, which can only refuse a connection that may not come about anyway; the steps of pairing and the pair command (`Pairing`) |
| `Handshake` | `HandleNewConnection` after TLS, the registry, sightings that register, pruning | Device objects (`made`, `registered`: there may be several for one phone, as looking up and adding are two steps), what each has pinned (`certFP`) and what its link has (`linkCert`), the place of each connection between its checks and `Connect` | identities, which match here |
| `Dispatch` | the packet pool, `readLoop`, `Send`, `writerLoop`, `Registry.Dispatch` | a packet is an object, in the pool or with a loop, a handler or a queue; a handler goes on after the dispatch has given it up | contents; the loops of a replaced session (`Session`) |
| `Framing` | `readLineBounded`, `discardLine` | the lines as their lengths, the slices the reader's buffer cuts them into, what has been collected | contents |
| `Requests` | `ipc/server.go` and `pkg/client/persistent.go` together | requests and answers on their way, one goroutine of the server per request, callers that share the session, deadlines that lapse | what the commands do |
| `Hooks` | `hooks.Runner` | workers with their event, the time each has read, `lastRun`, the clock in ticks | one hook; what it runs is external |

### The plugins

| Module | Models | State and actions | Left out |
|---|---|---|---|
| `Status` | connectivity, remotesystemvolume, battery | stored reports, what the clients were told in this session, any handlers between storing and publishing, which may overlap or outlive their session, and ends of sessions whose `OnDisconnect` is still to run, possibly in the next session | contents; the summary of a device, which reads what is stored |
| `Popups` | notification | posts, each shown by a goroutine of its own (fetch an icon, call the desktop, store the number), `notifIDs`, `pendingCloses`, grace timers that are armed or have fired | texts, filters, replies and actions |
| `Arming` | sms | sessions and their connect and disconnect callbacks, which may change places, `syncArming` of two callers, goroutines that ask the phone | messages |
| `Contacts` | contacts | the phone's book, the index, answers of any number of rounds under way, the wipe at the end of a pairing | what cards say; files |
| `Clipboard` | clipboard | both clipboards, the records they are compared with, packets and copies under way | programs, files |
| `Transfers` | share, `internal/transport`, `fsutil` | `inbox`: the folder and where each reception is; `outbox`: ports, invitations, the single accept | contents, progress |
| `Mount` | sftp | credentials that are cached or awaited, mount commands and two goroutines that unmount, the kernel's table, which outlives the daemon | names of directories, volumes |
| `Commands` | runcommand | executions from launch to end, with process, pipes, context and batch; cancel functions that were taken under the lock and not called yet (`cancelling`); ends of sessions whose `OnDisconnect` is still to run (`leavers`); waiters for a list. The two halves share no variable; `CommandsSpec` is of both, and each is a subject of `parts` | text of lines |
| `Players` | mpris, local | the bus with the owners of at most two names, which it lists and which tell of a call in any order, the watcher and its channel, display names, a bounded number of pollers with their generations, players paused by a call | positions; the filter of plasma-browser players, the matching of short names |
| `RemoteMedia` | mpris, remote | the song, art asked for, on its way, in the cache, being stamped and shown | positions, image work |
| `Desktop` | findthisdevice, systemvolume, lockdevice | the sink and the requests on it; the session's lock and its requests | parsing, choice of program |
| `Input` | mousepad, presenter, digitizer | handler and worker of the touchpad with sum, queue, wake channel and timer; of the pointer; the tablet devices, and goroutines (`PenHands`) that are each in one step of `handleSession` or of `OnDisconnect` - after the time limit of the dispatch, or across sessions, several at once | kinds of events, one axis |

Each module's header says the same at more length, and names what it abstracts.

### One run for many parts (`MCParts.tla`)

These parts share no variable, so that one run can search all of them: the
initial state picks a `subject`, only the subject's next-state relation takes
steps, and the other parts stay as they begin, in one chosen initial state
(`Pinned`). The states of the run are the sum of the states of the parts, not
their product, and nothing is lost by it: a step of one part neither reads nor
changes what another has. The properties are those of the parts; whatever is
not the subject satisfies them in its initial state. That this is so is proved
(`PartsAreThemselves`): every behaviour of `PartsSpec` is one of each part's own
specification.

## 3. What the runs check

A definition whose name has a suffix after `_` (`Retire_LeavesDone`) is a
plausible bug in the definition of that name; it takes no part in the
specification. Replacing the definition by it makes the run of the property
named in `mutants` fail, which shows that the property is not vacuous.

| Run | Shows | Bounds |
|---|---|---|
| `pairing` | no request hangs (`PendingIsTimed`, `RequestsSettle`), old timers are harmless (`ExpiryEndsOwnRequest`), plugin notifications balance (`HooksBalanced`), no pair intent marked before a pairing survives it (`NoStaleIntent`), the contract holds | two IPC commands, with or without a session, on two goroutines that may overlap; three packets of the peer on one handler |
| `session` | `done` channels match sessions, no socket or loop leaks, every session is served, old loops never end new sessions, retired loops end | two connections, two packets, queue of one |
| `reconnect` | at most one loop, unpair stops it, the device is found again | two goroutines ending sessions, room for two loops |
| `persistence` | coalescing forgets nothing and saves never overtake each other (except after a start that could not read the file), no torn file, a graceful stop saves | one daemon, three changes, three goroutines that save |
| `broadcast` | an owner is never left with a cancelled loop (`OwnersAreServed`), pairing mode is never on without a loop (`RunningIsLive`), a lost device is announced to, and the announcements end when all are back | one device, one loop ending late, one event in the watcher's channel |
| `parts` | 24 subjects, those above and `Watch`, each in every interleaving; see the table below | see below |
| `parts_live` | a mount the user wants gone goes, every execution reports its end, a contact the phone dropped leaves for good, the tracked players converge to those there are | two mounts, one execution, two contacts and one edit, two names and two changes of the bus |
| `pairing_code` | **violated**: the code announced for the peer's request may be that of our own request | as `pairing` |
| `session_writers` | **violated**: two writer loops may write to one connection at once | queue of two |
| `broadcast_leak` | **violated**: a broadcast may go on with no owner | as `broadcast` |
| `watch_boot` | **violated**: a change that falls between the dump and the subscription is never told | three events |
| `persistence_lock` | **violated**: the state lock does not keep two daemons apart | two daemons, two changes |

What `parts` checks, property by property, and the condition each has:

| Property | Says | Except |
|---|---|---|
| `GapIsExact`, `ResumeMissesNothing` | the gap reported to a resumed stream is exact, and a stream without one misses nothing | streams that dropped events, or resumed with a number of an earlier daemon |
| `ResumedViewIsCurrent` | such a stream, once read, tells the state as it is | the same; and the last event published was of an older change than one before it (`swapped`): changes are published after the lock is released, so a quick reconnect may publish `device.connected` before the older `device.disconnected` |
| `EphemeralAtMostOnce` | a stranger is dialled for its identity once in an unpaired era, although two goroutines look at the marker before either sets it: the rate limit is what stops the second | `parted`: a sighter is on its way from the look to the limit for more than a second, or from one era or object into the next; or the object with the marker is replaced by somebody who had found none |
| `LinkIsPinned` | the certificate of a device's live link is the pinned one | two handshakes of the phone between check and `Connect` at once (`crowded`): then the pin may be one's and the link the other's |
| `NoUseAfterRecycle` | a packet that a handler refers to is in no pool, queue or other hand | - |
| `FramedLines` | the packets are exactly the complete lines that are not too long, whole and in order | - |
| `RepostSurvives` | a deferred close does not close the popup of a re-post | popups that replace each other, where there is one popup |
| `WatchedIsArmed` | when somebody watches, the phone has been armed in this session | - |
| `ReceivedIsKept` | a file received whole stays where it was announced | with `overwrite`, another of the same name |
| `OnePositionPoller` | at most one poller that was not cancelled samples the players | a cancelled one may still take the sample it has begun |
| `SignalIsTold` | a phone that has reported its signal in this session has had the stored report told | `late`: a handler ran beside another or outlived its session, or an `OnDisconnect` came after the next session had begun; until the phone has been away with nothing of this left |
| `TabletsAreReachable` | every tablet device that is open is the session's, or in the hands of a goroutine that will store or close it; none is in the map after the last `OnDisconnect` | the first: the handlers of two starts have overlapped (`overlapped`); the second: a start was handled after that `OnDisconnect` (`stray`) |
| `PartsInvariant` | the types of all parts, and the seven promises below | as below |

`PartsInvariant` is a conjunction. Its mutant in `mutants` breaks one of its
conjuncts; for each of the others there is a mutated definition with which TLC
finds it violated too:

| Conjunct | Says | Except | Mutated definition |
|---|---|---|---|
| `LiveIsStoppable` | an execution that is registered and runs uncancelled has its cancel function in the map, or with a goroutine that took it and is about to call it | - | `stopAll` of `Commands` as `stopAll_Forgets` |
| `ArtIsShown` | a track shown as waiting for its art is one whose art has not come | art comes exactly between lookup and publication (`artCrossed`) | `StampWanted` of `RemoteMedia` as `StampWanted_Never` |
| `RingIsHeard` | a ring that sounds is not muted | somebody else mutes, or a command fails (`othersMuted`, `audioFailed`) | `AnotherRings` of `Desktop` as `AnotherRings_Unchecked` |
| `RunsAreApart` | a burst of events runs a hook once | - | `Stamp` of `Hooks` as `Stamp_OnlyOnce` |
| `InputInOrder` | no move is lost or doubled, and no click overtakes one | - | `AfterTaking` of `Input` as `AfterTaking_EventFirst` |
| `NoInputStranded` | no wake-up of touchpad or presenter is lost | - | `PadWake` of `Input` as `PadWake_OnlyInSelect` |
| `AnswersAreOwn` | goroutines that share a client session get their own answers, that is, the mutex held over write and read is enough | a deadline has lapsed (`lapsed`): from then on each call gets the answer of an earlier one | `Call` of `Requests` as `Call_Unlocked` |

The history variables of the other runs are `tardy` (`pairing`: marks of an intent
that were set when the device was paired already, between the hook's look at the
state and its mark; they stay until they are used up or the device is unpaired)
and `unread` (`persistence`: a start could not read the file, and no save has
succeeded since: the registry is not what the disk holds, and the next save puts
an emptier list over a newer one).

Every exception but two is a history variable that records what the code really
does, is reached in the run, and is needed: without it TLC shows a behaviour in
which the property fails. The one of `RepostSurvives` is a choice of the user, made
in the initial state, and that of `OnePositionPoller` is what `cancelled` says.
They say where the promise of the code ends, and section 5 lists them.
`Clipboard` is explored with its types only: what a user would want of it does
not hold.

The bounds of `parts`: two goroutines or workers wherever there may be many, two
objects, certificates and links, three packet objects for two devices; lines of
up to six bytes against a limit of three and a buffer of two; three calls of two
callers; three posts and two cancellations; three sessions; two contacts and one
edit; three files of one name with two candidates to fall back on; two mount
commands; two executions with a stream of one line before it is cut, and one
`OnDisconnect` that is still to come (`MaxLeavers`); three objects for one
stranger (`Entries`: the registry's, and one for each of two sighters); two
report handlers at once (`MaxHandlers`); three goroutines of the pen
(`PenHands`: two handlers and an `OnDisconnect`) and two tablet devices; two
players that claim one name, three changes, three pollers; four inputs. A third
goroutine adds only a repetition of what the second does to the first: each
waits in one place at a time, and what they compare is a flag or a number of the
last one.

Why the bounds are enough: every race of the code is between *one* operation
that was overtaken and *one* that overtakes it. Two connections make a
replacement, and the loops of the first outlive it; a second loop is all that
`OneLoop` needs to fail; three pairing changes let a save be overtaken while a
third is requested; a queue of one is full after one packet; one loop that
reports late is enough to reset the flag of another; four events fill a ring of
two and leave two for a gap and for what is published while the stream is set
up. The state spaces
are searched exhaustively within the bounds. Where the invariants are proved
(section 4) the bounds disappear.

`CHECK_DEADLOCK FALSE` is given where a behaviour may really stop: an idle
daemon whose user and peer do nothing more (the bounded inputs are used up).
`persistence` and `broadcast` do check for deadlock: something can always be
started, stopped, connected or killed. In `parts` most behaviours end, as the
inputs of every part are bounded.

The type invariants of `Pairing`, `Session`, `Reconnect`, `Persistence` and
`Broadcast` are theorems (section 4) and are not checked again by a run. Those of
the other modules are in `PartsInvariant`, which is both checked and a theorem.

### Fairness

* `Pairing`: goroutines keep running, and the Go runtime runs a timer that is
  due; nothing is assumed of the user or the peer.
* `Session`: goroutines keep running. Nothing is assumed of the network, the
  peer or the user. A write that blocks ends by the write deadline, so the
  writer is never stuck.
* `Reconnect`: goroutines keep running; the backoff timer gets *no* fairness,
  as with `sighting_driven` it may be an hour away. `FoundAgain` additionally
  assumes that the device keeps announcing itself, that the pause between dials
  ends (strong fairness, because the loop leaves and comes back), and that not
  every dial fails for ever: without these no code could find the device.

* `Broadcast`: goroutines keep running; the watcher's timer runs when it is due;
  `Wake` is strongly fair, because Go's `select` picks at random among the
  channels that are ready; devices that are not connected keep announcing
  themselves (`Announcing`), which is the network's part of the bargain and not
  the daemon's. Nothing is assumed of the user, of a disconnect, or of a stale
  device.
* `parts_live`: goroutines keep running, and what has a time limit ends, which
  the code sees to itself (the limit of an execution and `WaitDelay`). For `Mount` the user goes on asking
  to unmount, and a release that is tried for ever succeeds in the end (strong
  fairness: `fusermount` may refuse while a file is open). For `Contacts` rounds
  go on being started and some are answered (strong fairness), and the answers
  are handled. For `Players` the watcher can register in the end, the phones go
  on asking for the players, which is what puts the token into the channel, and
  lists of the bus are not refused for ever. Nothing is assumed of which round,
  signal or player comes first.
* `Persistence` and the other parts have safety properties only.

## 4. What is proved

By TLAPS, for every value of the constants: the type invariant of every module,
every invariant and every action property of the passing runs, and that
`Pairing` implements its contract. Each argument has the same shape. A property
speaks of the moment at which something is done, and says nothing of the way
there; the inductive invariant says what holds on the way. The proof that a step
preserves it has one step per action, and the property follows from it.

### Pairing: `PairingProofs`

Type correctness, and:

* `PendingIsTimed`, `ExpiryEndsOwnRequest`. The invariant adds that no timer has
  a generation above `nextGeneration`, and that the generation on record is 0 or
  the last one scheduled. Without it a callback could match a generation it does
  not have, and the step that expires a request could not be told from one that
  expires another.
* `HooksBalanced`. What was told plus what is owed is the state: a sum over all
  goroutines, so that the proof counts those that owe `onPaired` and those that
  owe `onUnpaired`, and shows that each step moves one goroutine from a set, or
  into one. It is why `PairingAssumption` has finitely many goroutines.
* `NoStaleIntent`. As long as a paired device bears a mark that was set before it
  was paired, the goroutine that completed the pairing has not come to
  `ClearPairDial` yet (`IntentIsBeingCleared`), whoever else is between the look at
  the state and the mark, or at a dial.
* `ImplementsContract`: the initial states map to initial states, and every step
  to a step or a stutter of `PairingContract` under `Standing`.

### Session and reconnect loop: `SessionProofs`

* `DoneMatchesSession`, `NoLeakedSocket`, `Served`, `OnlyOwnLoopsEnd`. The
  invariant adds what the lock guarantees: while there is a session the channels
  are its own, `closeOnce` is unused, and `done` is closed for all the others; the
  last step of each `Connect` knows which connection it superseded.
* `OneLoop` of `Reconnect`, which is inductive together with the types.

### State file and broadcast: `DaemonProofs`

* `NeverTorn`, for any number of daemons on one directory: whatever is about to
  be renamed has its bytes on the disk (`Safe`).
* `QuietIsSaved`, `StopSaves`, `NeverBackwards`. These need that one daemon runs
  at a time, which the code does not ensure (run `persistence_lock` shows that
  the lock does not), so that it is a hypothesis of the theorems, `[]OneDaemon`:
  at every moment one daemon at most is past loading.
  `PersistenceAlone` shows what it amounts to: for one daemon, started, stopped
  and killed any number of times, it holds by itself. The invariant, `SavesInv`,
  says that `saveMu` lets one saver at a time past the lock; that a listing on its
  way is no older than the file and no newer than the registry; that, when
  nobody is still going to list, the last change is in the listing on its way, or
  in the file, or its save has failed; and, of a daemon that is told to stop,
  that the last save has all that came before. Where it compares the file with
  the registry it says `unread`, which a start that could not read the file sets
  and the first save that succeeds clears; `StopSaves` needs no such exception.
* `OwnersAreServed`, `RunningIsLive` of `Broadcast`. Whoever holds the broadcast
  has a loop that was not cancelled, since only the last owner to leave cancels;
  `StartOwned` starts nothing when the flag is set, and so relies on it.

### Watch streams: `WatchProofs`

* `GapIsExact`. The ring holds the latest events without a hole,
  `ring[i].seq = seq - Len(ring) + i`; it is what makes the one comparison in
  `EventsSince` exact.
* `ResumeMissesNothing`, `ResumedViewIsCurrent`. Every event is, in order of their
  numbers, either not one to tell of, with the client, in the replay, or in the
  channel (`ResumeInv`). Its parts are the log of which ring, channel and replay
  are pieces; what changes that are made and not published, in whatever order
  they will be, mean to a client that reads the devices in between
  (`BeforeReplay`, which like the rest holds when nothing is owed and the last
  publication told of the last change, `Told`); and that the last event on
  its way, or the last one that arrived, tells of the state as it is
  (`LastTellsState`), although the replay and the channel may bring an event
  twice.

### Network side: `NetworkProofs`

Parts that share no state, each with an invariant of its own:

* `EphemeralAtMostOnce` (`Discovery`): until `parted`, every sighter on its way has
  the registry's object; its marker is set before any of them asks the limit; and
  when a dial has begun, who had got past the marker before it meets the limit
  (`DialledOnce`).
* `LinkIsPinned` (`Handshake`): while no two connections were between check and
  `Connect`, the one that is inside presents the certificate of the connection it
  replaces, which is on record before `Connect`.
* `NoUseAfterRecycle` (`Dispatch`): every packet in use has one owner and is not
  in the pool.
* `FramedLines` (`Framing`): what `readLineBounded` has collected is what was
  handed out of the line, and `discardLine` is at work only in a line that is too
  long. For every buffer size, limit and number of lines.

### Programs and users of this computer: `LocalProofs`

* `AnswersAreOwn` (`Requests`): while no call has lapsed at most one message is
  under way, and it belongs to the caller that has the mutex.
* `LiveIsStoppable` (`Commands`), which is inductive with the places of the
  executions, since what `stopAll` takes out of the map is `cancelling` until it is
  called.
* `RunsAreApart` (`Hooks`): `Runner.last` is the last time a run was started with,
  which a worker compares with its own reading of the clock under the lock.
* `WatchedIsArmed` (`Arming`): a phone that should be armed and is not has a
  caller, or a connect callback, that is about to arm it (`MarkIsComing`); a
  mark is of this session once the callback has run.
* `RepostSurvives` (`Popups`): what is to be closed, now or later, belongs to a
  post before the one the phone shows (`ClosesAreOld`), and each post has a popup
  of its own (`OwnPopups`).
* `ReceivedIsKept` (`Transfers`): without `overwrite` two transfers do not hold
  one name (`NamesAreHeld`), and a copy without error of a file of known size is
  whole (`CameWhole`).

### Plugins: `PluginProofs`

* `SignalIsTold` (`Status`): unless `late`, one handler at most is at work, nothing
  is stored of a phone that has gone once the plugin was told, no `OnDisconnect` is
  still to come for one that is there, and what is stored of it has been told or
  is in the hands of the handler (`StoredIsTold`).
* `ArtIsShown` (`RemoteMedia`): a track about to be shown as waiting has no art,
  and art that is there for the track that is shown is about to be stamped.
* `RingIsHeard` (`Desktop`): the flag lets one ring in at a time, and what it
  found is what it finds again when it is over.
* `InputInOrder`, `NoInputStranded` (`Input`): moves received are moves out or in
  the sum, an event in the queue comes after the moves that were received before
  it, and at its turn at most half a pixel of them is left; while a worker waits,
  what there is for it has its wake-up.
* `TabletsAreReachable` (`Input`): a start is handled by a goroutine on its way from
  the old device to the new one (`StartsAreHandled`); unless two overlapped there is
  one, and no session until it stores its own (`OneStart`); and unless one came too
  late, none is at work after the last `OnDisconnect` (`NoLateStart`).
* `OnePositionPoller` (`Players`): the handle is that of the poller armed last, or
  gone, and a poller that samples and was not cancelled has the handle
  (`HasHandle`).

### All parts together: `PartsProofs`

* `PartsAreThemselves`: a behaviour of `PartsSpec` is, for each of the 23
  specifications, a behaviour of it. It carries every theorem about a part to the
  whole: `PartsKeepTheirWord` states the thirteen other invariants of run `parts` of
  its specification.
* `PartsAlwaysHold`: `PartsInvariant`, that is the types of all parts and the
  promises of the small ones. Most types follow with the invariants above; those
  of `Requests` need that the greeting comes first and once (`HelloFirst`), which is
  where the numbers of requests start.

### Assumptions

Those named in the modules (`PairingAssumption` and so on) say of the constants
what Go's types, the constants of the code and the configuration's validation
say: bounds are natural numbers, buffers, queues and limits that the code makes
positive are positive, and a value that stands for "none" is none of the values.
Two go further. `PairingAssumption` has finitely many goroutines.
`PlayersAssumption` has at most two players, as `Players` gives each name one of
two places in a list. The theorems about `Persistence` that name `[]OneDaemon` are
the only ones with a hypothesis on behaviours. The exceptions of the
properties (`late`, `parted`, `unread`, ...) are those of section 3.

### Only model-checked

Liveness, for which the prover has no rules: `RequestsSettle` (pairing),
`RetiredLoopsEnd` (session), `UnpairStopsLoop`, `FoundAgain` (reconnect),
`OfflineIsAnnounced`, `OnlineIsQuiet` (broadcast), and `UnmountSettles`,
`ExecutionsEnd`, `DroppedContactsLeave`, `DriftHeals` (`parts_live`). And the violations of section 5, which are counterexamples.

## 5. Where code and documentation differ

See `findings`. Each was met while translating the code and has a run whose
counterexample shows it: the shared time stamp of crossing pair requests, the
writer loop that resolves the connection per packet, the state lock that is
released when loading ends, the flag that the end of one broadcast loop resets
although it belongs to the next, and the watch stream that subscribes after it
has described the state.

More came up that no document contradicts, and is modelled:

* A session lost while the reconnect loop that found it is returning starts no
  new loop, so that only the next sighting does (`FoundAgain` holds because of it).
* Sequence numbers start at 1 again when the daemon restarts, so that a client
  that resumes with an old number is told of no gap (`foreign`).
* A state file that cannot be read is logged, and the daemon goes on with an empty
  registry, which its next save puts over the file (`daemon/state.go:29`; `unread`).
* `device.connected` and `device.disconnected` are published after the lock is
  released and may come in the other order (`device_session.go:120`; `swapped`).
* For the same reason `OnDisconnect` of one session may run in the next: it then
  forgets the next session's reports (`connectivity.go:128`; `late`), ends its
  drawing session (`digitizer.go:37`) and cancels its commands
  (`runcommand.go:268`).
* A pair intent that is marked after the pairing is complete, as the hook looked at
  the state before, stays until it is used up, expires or the device is unpaired
  (`pairdial.go:22`; `tardy`). And a rejection while the hook's dial is under way does
  not keep the hook from asking the phone to pair (line 39).
* A stranger may be dialled twice in an era (`transport.go:239`; `parted`).
* Two starts of a drawing session whose handlers overlap leave a device of the
  kernel open that nobody can close, and one that is handled after the last
  `OnDisconnect` leaves a session (`digitizer/handle.go:50`; `overlapped`, `stray`).

* After a call of a persistent session has run into its deadline, its late
  answer is taken for that of the next call, and so on
  (`pkg/client/persistent.go:48`); the number in each answer is not looked at.
* Two handshakes of one phone that overlap may leave the pin of one and the
  link of the other (`transport_handshake.go:98`).
* Album art that arrives between its lookup and the publication of a track is
  not shown until the phone sends its state again (`mpris/handle.go:153`).
* The last move of a swipe may wait for the next packet: the touchpad's timer is
  made once and not armed again (`mousepad/dispatch.go:132`).
* Copying A, B and A again leaves the two clipboards different, as the second A
  equals what was last pushed or received (`clipboard/handle.go:44`).
* An execution that is launched and not yet registered when its session ends
  runs on to its time limit (`runcommand.go:147`).
* A notification that is withdrawn before its popup's number is stored keeps its
  popup (`notification/handle.go:154`); a phone stays marked as armed when the
  request could not be sent (`sms/send.go:109`); a reception that fails leaves
  its empty placeholder (`share/handle.go:81`).
* Two volume requests run at the same time and may be carried out and reported
  in the other order (`systemvolume/handle.go:36`).

And one difference of wording that no run can show: docs/ARCHITECTURE.md:314 and
PROTOCOL_COMPAT.md:31 name the packet `kdeconnect.findthisdevice.request`, where
`findthisdevice.go:38` handles `kdeconnect.findmyphone.request`.

## 6. Plan

What is left to prove is deeper than what the runs check, and starts from it:

1. Abstract specifications for the parts that have a promise worth stating by
   itself, and that the part implements it: a register that survives crashes for
   `Persistence`, a channel without loss between gaps for `Watch`, one current
   link per device for `Session`.
2. The safety half of the liveness properties: that what has to happen next is
   enabled where fairness relies on it (a loop that is retired can take a step, a
   mount that is to go has a goroutine that is about to release it), as invariants.
3. The exceptions (`late`, `crowded`, ...) as weak as they can be: that a
   property holds again once the overtaken goroutine is done.

And to model: `pair-listen`, which looks at the devices and then subscribes; a
reload, which replaces commands and filters one lock at a time.

### Not modelled

* Discovery listeners: socket input whose result, a sighting, is an input of
  `Discovery`, `Handshake` and `Reconnect`.
* Configuration: parsing, defaults and rewriting of one file; the values that
  matter are constants.
* Telephony, ping and findmyphone: one packet, one event, no state. What a call
  does to the players is in `Players`.
* Prompts: `PromptManager.Ask` has no caller in this commit.
* `pair-listen` and reload: see the plan.
* Command line, the rest of the client library, wording and formatting, helpers
  around processes and files, packaging, `doctor`: no shared state of their own.
