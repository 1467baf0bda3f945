----------------------------- MODULE Persistence -----------------------------
(***************************************************************************)
(* How pairings reach the disk: the state manager (internal/daemon/        *)
(* state.go), Registry.Save and Load, SaveDevices (internal/device) and    *)
(* the state lock (internal/config).                                       *)
(*                                                                         *)
(* The contents of a registry, and of the state file, are named by the     *)
(* number of the last pairing change they hold.  A step is one channel     *)
(* operation, one registry listing or one file-system call, each of which  *)
(* may fail; a process may be killed between any two of them, and the      *)
(* machine may lose its power.  Abstracted: the fields of a device, and    *)
(* changes that no save is requested for.                                  *)
(***************************************************************************)
EXTENDS Integers

CONSTANTS
    Daemons,   \* processes started with the same state directory
    MaxChanges \* bound: pairing changes

ASSUME PersistenceAssumption == MaxChanges \in Nat

(* The goroutines of a daemon that save: stateManager.run, and, in a       *)
(* daemon without the pair plugin, IPC handlers.                           *)
Handlers == {"ipc1", "ipc2"}
Savers   == {"run"} \cup Handlers

(* A listing, and a file made of it: synced says its bytes are on the disk *)
(* and not only in the page cache.                                         *)
Contents == [version : 0..MaxChanges, synced : BOOLEAN]
Empty    == [version |-> 0, synced |-> TRUE]

NoDaemon == "none"

SaverPlaces == {"idle", "lock", "list", "write", "sync", "rename", "syncDir"}

VARIABLES
    pairPlugin, \* the pair plugin is registered, in every daemon
    phase,      \* per daemon: "down", "loading", "up", "stopping", "exited"
    lock,       \* the daemon that holds the state lock
    mem,        \* per daemon: the last pairing change in its registry
    owed,       \* per daemon: a change whose requestSave is not called yet
    saveQueue,  \* per daemon: tokens in saveQueue
    saving,     \* per daemon and saver: the step of the save it is at
    listed,     \* per daemon and saver: the listing it saves
    failed,     \* per daemon: a save failed, and none has succeeded since
    final,      \* per daemon: run is in the save it makes after ctx.Done
    cancelled,  \* per daemon: the last change when it was told to stop
    unread,     \* a daemon began without what the file held, and no save has
                \* succeeded since (history)
    file,       \* the contents under the state file's name
    durable,    \* the contents a loss of power may go back to
    torn,       \* a loss of power left the file incomplete
    changes

vars == <<pairPlugin, phase, lock, mem, owed, saveQueue, saving, listed, failed, final,
          cancelled, unread, file, durable, torn, changes>>

disk    == <<file, durable, torn>>
process == <<phase, lock>>
queue   == <<owed, saveQueue>>
saver   == <<saving, listed, failed>>
history == <<cancelled, unread>>
inputs  == <<pairPlugin, changes>>

Running(d) == phase[d] \in {"up", "stopping"}

Init ==
    /\ pairPlugin \in BOOLEAN
    /\ phase = [d \in Daemons |-> "down"]
    /\ lock = NoDaemon
    /\ mem = [d \in Daemons |-> 0]
    /\ owed = [d \in Daemons |-> FALSE]
    /\ saveQueue = [d \in Daemons |-> 0]
    /\ saving = [d \in Daemons |-> [s \in Savers |-> "idle"]]
    /\ listed = [d \in Daemons |-> [s \in Savers |-> Empty]]
    /\ failed = [d \in Daemons |-> FALSE]
    /\ final = [d \in Daemons |-> FALSE]
    /\ cancelled = [d \in Daemons |-> 0]
    /\ unread = FALSE
    /\ file = Empty
    /\ durable = Empty
    /\ torn = FALSE
    /\ changes = 0

-----------------------------------------------------------------------------
(* initStateManager: the lock is held while the file is loaded, and        *)
(* released when the function returns.  A file that cannot be read, or not *)
(* be parsed, is reported, and the daemon starts with no devices: its next *)
(* save replaces what was in the file.                                     *)

AcquireStateLock(d) ==
    /\ phase[d] \in {"down", "exited"}
    /\ lock = NoDaemon
    /\ lock' = d
    /\ phase' = [phase EXCEPT ![d] = "loading"]
    /\ UNCHANGED <<mem, queue, saver, final, history, disk, inputs>>

Load(d) ==
    /\ phase[d] = "loading"
    /\ phase' = [phase EXCEPT ![d] = "up"]
    /\ lock' = NoDaemon
    /\ \/ /\ ~torn
          /\ mem' = [mem EXCEPT ![d] = file.version]
          /\ UNCHANGED history
       \/ /\ mem' = [mem EXCEPT ![d] = 0]
          /\ unread' = TRUE
          /\ cancelled' = [e \in Daemons |-> 0]
    /\ failed' = [failed EXCEPT ![d] = FALSE]
    /\ UNCHANGED <<queue, saving, listed, final, disk, inputs>>

-----------------------------------------------------------------------------
(* A pairing changes; requestSave follows, and never blocks.               *)

Change(d) ==
    /\ Running(d)
    /\ pairPlugin
    /\ ~owed[d]
    /\ changes < MaxChanges
    /\ changes' = changes + 1
    /\ mem' = [mem EXCEPT ![d] = changes + 1]
    /\ owed' = [owed EXCEPT ![d] = TRUE]
    /\ UNCHANGED <<pairPlugin, process, saveQueue, saver, final, history,
                   disk>>

requestSave_SkipsWhileSaving(d) ==
    /\ Running(d)
    /\ owed[d]
    /\ owed' = [owed EXCEPT ![d] = FALSE]
    /\ saveQueue' = [saveQueue EXCEPT ![d] =
                        IF saving[d]["run"] = "idle" THEN 1 ELSE @]
    /\ UNCHANGED <<process, mem, saver, final, history, disk, inputs>>

requestSave(d) ==
    /\ Running(d)
    /\ owed[d]
    /\ owed' = [owed EXCEPT ![d] = FALSE]
    /\ saveQueue' = [saveQueue EXCEPT ![d] = 1]
    /\ UNCHANGED <<process, mem, saver, final, history, disk, inputs>>

TakeRequest(d) ==
    /\ Running(d)
    /\ saveQueue[d] = 1
    /\ saving[d]["run"] = "idle"
    /\ ~final[d]
    /\ saveQueue' = [saveQueue EXCEPT ![d] = 0]
    /\ saving' = [saving EXCEPT ![d]["run"] = "lock"]
    /\ UNCHANGED <<process, mem, owed, listed, failed, final, history, disk,
                   inputs>>

(* The fallbacks of handlePair and handleUnpair: without the pair plugin   *)
(* the handler changes the device and saves on its own goroutine.          *)
ChangeAndSave(d, h) ==
    /\ Running(d)
    /\ ~pairPlugin
    /\ saving[d][h] = "idle"
    /\ changes < MaxChanges
    /\ changes' = changes + 1
    /\ mem' = [mem EXCEPT ![d] = changes + 1]
    /\ saving' = [saving EXCEPT ![d][h] = "lock"]
    /\ UNCHANGED <<pairPlugin, process, queue, listed, failed, final,
                   history, disk>>

-----------------------------------------------------------------------------
(* Registry.Save and SaveDevices.                                          *)

Step(d, s, from, to) ==
    /\ Running(d)
    /\ saving[d][s] = from
    /\ saving' = [saving EXCEPT ![d][s] = to]

(* saveMu is held from "list" to the end.                                  *)
HoldsSaveMu(d, s) == saving[d][s] \notin {"idle", "lock"}

LockSave_NoMutex(d, s) ==
    /\ Step(d, s, "lock", "list")
    /\ UNCHANGED <<process, mem, queue, listed, failed, final, history,
                   disk, inputs>>

LockSave(d, s) ==
    /\ Step(d, s, "lock", "list")
    /\ \A other \in Savers : ~HoldsSaveMu(d, other)
    /\ UNCHANGED <<process, mem, queue, listed, failed, final, history,
                   disk, inputs>>

List(d, s) ==
    /\ Step(d, s, "list", "write")
    /\ listed' = [listed EXCEPT ![d][s] =
                     [version |-> mem[d], synced |-> FALSE]]
    /\ UNCHANGED <<process, mem, queue, failed, final, history, disk,
                   inputs>>

(* The temporary file of each save has a name of its own.                  *)
WriteTemp(d, s) ==
    /\ Step(d, s, "write", "sync")
    /\ UNCHANGED <<process, mem, queue, listed, failed, final, history,
                   disk, inputs>>

SyncTemp_Skipped(d, s) ==
    /\ Step(d, s, "sync", "rename")
    /\ UNCHANGED <<process, mem, queue, listed, failed, final, history,
                   disk, inputs>>

SyncTemp(d, s) ==
    /\ Step(d, s, "sync", "rename")
    /\ listed' = [listed EXCEPT ![d][s].synced = TRUE]
    /\ UNCHANGED <<process, mem, queue, failed, final, history, disk,
                   inputs>>

Rename(d, s) ==
    /\ Step(d, s, "rename", "syncDir")
    /\ file' = listed[d][s]
    /\ torn' = FALSE
    /\ UNCHANGED <<process, mem, queue, listed, failed, final, history,
                   durable, inputs>>

SyncDir(d, s) ==
    /\ Step(d, s, "syncDir", "idle")
    /\ durable' = file
    /\ failed' = [failed EXCEPT ![d] = FALSE]
    /\ unread' = FALSE
    /\ UNCHANGED <<process, mem, queue, listed, final, cancelled, file, torn,
                   inputs>>

(* A file-system call fails: the error is logged or returned to the IPC    *)
(* client, and nothing retries.                                            *)
SaveFails(d, s) ==
    /\ \E from \in {"write", "sync", "rename", "syncDir"} :
          Step(d, s, from, "idle")
    /\ failed' = [failed EXCEPT ![d] = TRUE]
    /\ UNCHANGED <<process, mem, queue, listed, final, history, disk,
                   inputs>>

-----------------------------------------------------------------------------
(* The daemon is told to stop, makes a last save, and exits; or it is      *)
(* killed; or the power is lost.                                           *)

Cancel(d) ==
    /\ phase[d] = "up"
    /\ phase' = [phase EXCEPT ![d] = "stopping"]
    /\ cancelled' = [cancelled EXCEPT ![d] = mem[d]]
    /\ UNCHANGED <<lock, mem, queue, saver, final, unread, disk, inputs>>

FinalSave_Skipped(d) ==
    /\ phase[d] = "stopping"
    /\ saving[d]["run"] = "idle"
    /\ ~final[d]
    /\ final' = [final EXCEPT ![d] = TRUE]
    /\ UNCHANGED <<process, mem, queue, saver, history, disk, inputs>>

FinalSave(d) ==
    /\ phase[d] = "stopping"
    /\ saving[d]["run"] = "idle"
    /\ ~final[d]
    /\ final' = [final EXCEPT ![d] = TRUE]
    /\ saving' = [saving EXCEPT ![d]["run"] = "lock"]
    /\ UNCHANGED <<process, mem, queue, listed, failed, history, disk,
                   inputs>>

(* Everything in the memory of the processes in gone is gone; the kernel   *)
(* releases their lock.                                                    *)
Forget(gone, to) ==
    /\ phase' = [d \in Daemons |-> IF d \in gone THEN to ELSE phase[d]]
    /\ lock' = IF lock \in gone THEN NoDaemon ELSE lock
    /\ mem' = [d \in Daemons |-> IF d \in gone THEN 0 ELSE mem[d]]
    /\ owed' = [d \in Daemons |-> d \notin gone /\ owed[d]]
    /\ saveQueue' = [d \in Daemons |-> IF d \in gone THEN 0 ELSE saveQueue[d]]
    /\ saving' = [d \in Daemons |-> [s \in Savers |->
                     IF d \in gone THEN "idle" ELSE saving[d][s]]]
    /\ listed' = [d \in Daemons |-> [s \in Savers |->
                     IF d \in gone THEN Empty ELSE listed[d][s]]]
    /\ final' = [d \in Daemons |-> d \notin gone /\ final[d]]
    /\ UNCHANGED <<failed, history, inputs>>

Exit(d) ==
    /\ final[d]
    /\ saving[d]["run"] = "idle"
    /\ Forget({d}, "exited")
    /\ UNCHANGED disk

Kill(d) ==
    /\ phase[d] \notin {"down", "exited"}
    /\ Forget({d}, "down")
    /\ UNCHANGED disk

(* The name may point to the old file or the new one, and bytes that were  *)
(* not synced may be missing.                                              *)
PowerLoss ==
    /\ \E d \in Daemons : phase[d] \notin {"down", "exited"}
    /\ Forget({d \in Daemons : phase[d] # "exited"}, "down")
    /\ \E survivor \in {file, durable} :
          /\ file' = survivor
          /\ durable' = survivor
          /\ torn' = (torn \/ ~survivor.synced)

-----------------------------------------------------------------------------
DaemonStep(d) ==
    \/ AcquireStateLock(d) \/ Load(d)
    \/ Change(d) \/ requestSave(d) \/ TakeRequest(d)
    \/ \E h \in Handlers : ChangeAndSave(d, h)
    \/ Cancel(d) \/ FinalSave(d) \/ Exit(d) \/ Kill(d)

SaverStep(d, s) ==
    \/ LockSave(d, s) \/ List(d, s) \/ WriteTemp(d, s) \/ SyncTemp(d, s)
    \/ Rename(d, s) \/ SyncDir(d, s) \/ SaveFails(d, s)

Next ==
    \/ \E d \in Daemons : DaemonStep(d) \/ \E s \in Savers : SaverStep(d, s)
    \/ PowerLoss

Spec == Init /\ [][Next]_vars
-----------------------------------------------------------------------------
(* Every variable has the values the code can give it; saveQueue holds one *)
(* token at most.                                                          *)
TypeOK ==
    /\ pairPlugin \in BOOLEAN
    /\ phase \in [Daemons -> {"down", "loading", "up", "stopping", "exited"}]
    /\ lock \in Daemons \cup {NoDaemon}
    /\ mem \in [Daemons -> 0..MaxChanges]
    /\ owed \in [Daemons -> BOOLEAN]
    /\ saveQueue \in [Daemons -> 0..1]
    /\ saving \in [Daemons -> [Savers -> SaverPlaces]]
    /\ listed \in [Daemons -> [Savers -> Contents]]
    /\ failed \in [Daemons -> BOOLEAN]
    /\ final \in [Daemons -> BOOLEAN]
    /\ cancelled \in [Daemons -> 0..MaxChanges]
    /\ unread \in BOOLEAN
    /\ file \in Contents
    /\ durable \in Contents
    /\ torn \in BOOLEAN
    /\ changes \in 0..MaxChanges

Quiet(d) == /\ ~owed[d] /\ saveQueue[d] = 0
            /\ \A s \in Savers : saving[d][s] = "idle"

(* No pairing change is forgotten by the coalescing of save requests: when *)
(* nothing is left to do, the file holds the registry (requestSave,        *)
(* stateManager.run).  It does not where the last save failed, or where    *)
(* the file could not be read at the start and nothing was saved since.    *)
QuietIsSaved ==
    \A d \in Daemons :
        phase[d] = "up" /\ Quiet(d) /\ ~failed[d] /\ ~unread => file.version = mem[d]

(* Two saves never overtake each other: what is safe on the disk is never  *)
(* replaced by an older listing, whoever saves, fails or is killed         *)
(* (saveMu covers the listing and the rename).  The one exception is the   *)
(* first save after a start that could not read the file.                  *)
NeverBackwards == [][unread \/ durable'.version >= durable.version]_vars

(* Wherever the process is killed or the power is lost, the file is the    *)
(* old list or the new one, never a truncated one (SaveDevices).           *)
NeverTorn == ~torn

(* After a graceful stop the file has every pairing made before it         *)
(* (stateManager.run on ctx.Done, stateManager.wait), as long as no later  *)
(* start fails to read it.                                                 *)
StopSaves ==
    \A d \in Daemons :
        phase[d] = "exited" /\ ~failed[d] => file.version >= cancelled[d]

(* The state lock keeps two daemons from running on one state directory.   *)
OneDaemon ==
    \A d, e \in Daemons : Running(d) /\ Running(e) => d = e
=============================================================================
