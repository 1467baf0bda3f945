----------------------------- MODULE DaemonProofs -----------------------------
(***************************************************************************)
(* What the daemon keeps and when it announces itself.                     *)
(*                                                                         *)
(* The state file, for any number of daemons and of changes: that it is    *)
(* never torn needs no assumption; that a save is never overtaken, and     *)
(* that nothing is forgotten, needs that only one daemon runs on the       *)
(* directory.  The code does not ensure that (run persistence_lock), so it *)
(* is a hypothesis, []OneDaemon.                                           *)
(*                                                                         *)
(* The broadcast, for any number of devices and of events: types, and that *)
(* owners are served and the running flag is honest.  The flag is what     *)
(* makes the rest inductive: StartOwned starts nothing when it is set, and *)
(* so relies on it.                                                        *)
(***************************************************************************)
EXTENDS Persistence, Broadcast, TLAPS


-----------------------------------------------------------------------------
(* Types.                                                                  *)

(* The initial values have their types.                                    *)
LEMMA TypeInit == Init => TypeOK
<1> SUFFICES ASSUME Init PROVE TypeOK OBVIOUS
<1>1. Empty \in Contents BY PersistenceAssumption DEF Empty, Contents
<1>2. saving \in [Daemons -> [Savers -> SaverPlaces]] BY DEF Init, SaverPlaces
<1>3. listed \in [Daemons -> [Savers -> Contents]] BY <1>1 DEF Init
<1>4. mem \in [Daemons -> 0..MaxChanges] /\ cancelled \in [Daemons -> 0..MaxChanges]
      /\ changes \in 0..MaxChanges
  BY PersistenceAssumption DEF Init
<1>5. owed \in [Daemons -> BOOLEAN] /\ failed \in [Daemons -> BOOLEAN]
      /\ final \in [Daemons -> BOOLEAN] /\ torn \in BOOLEAN /\ unread \in BOOLEAN
  BY DEF Init
<1>6. phase \in [Daemons -> {"down", "loading", "up", "stopping", "exited"}]
      /\ saveQueue \in [Daemons -> 0..1]
  BY DEF Init
<1> QED BY <1>1, <1>2, <1>3, <1>4, <1>5, <1>6 DEF Init, TypeOK

(* Every step, whoever takes it, keeps the types.                          *)
LEMMA TypeStep == ASSUME TypeOK, [Next]_vars PROVE TypeOK'
<1> USE DEF TypeOK, history
<1>0. ASSUME NEW s \in Handlers PROVE s \in Savers BY DEF Savers
<1>run. "run" \in Savers BY DEF Savers
<1>e. Empty \in Contents BY PersistenceAssumption DEF Empty, Contents
<1>1. ASSUME NEW d \in Daemons, AcquireStateLock(d) PROVE TypeOK'
  BY <1>1 DEF AcquireStateLock, queue, saver, disk, inputs
<1>2. ASSUME NEW d \in Daemons, Load(d) PROVE TypeOK'
  <2>1. 0 \in 0..MaxChanges /\ file.version \in 0..MaxChanges
    BY PersistenceAssumption DEF Contents
  <2>2. mem' \in [Daemons -> 0..MaxChanges] /\ unread' \in BOOLEAN
        /\ cancelled' \in [Daemons -> 0..MaxChanges]
    BY <1>2, <2>1 DEF Load
  <2>3. phase' \in [Daemons -> {"down", "loading", "up", "stopping", "exited"}]
        /\ failed' \in [Daemons -> BOOLEAN] /\ lock' \in Daemons \cup {NoDaemon}
    BY <1>2 DEF Load
  <2> QED BY <1>2, <2>2, <2>3 DEF Load, queue, disk, inputs
<1>3. ASSUME NEW d \in Daemons, Change(d) PROVE TypeOK'
  <2>1. changes + 1 \in 0..MaxChanges BY <1>3, PersistenceAssumption DEF Change
  <2>2. mem' \in [Daemons -> 0..MaxChanges] BY <1>3, <2>1 DEF Change
  <2>3. owed' \in [Daemons -> BOOLEAN] BY <1>3 DEF Change
  <2> QED BY <1>3, <2>1, <2>2, <2>3 DEF Change, process, saver, disk
<1>4. ASSUME NEW d \in Daemons, requestSave(d) PROVE TypeOK'
  <2>1. owed' \in [Daemons -> BOOLEAN] /\ saveQueue' \in [Daemons -> 0..1]
    BY <1>4 DEF requestSave
  <2> QED BY <1>4, <2>1 DEF requestSave, process, saver, disk, inputs
<1>5. ASSUME NEW d \in Daemons, TakeRequest(d) PROVE TypeOK'
  <2>1. saveQueue' \in [Daemons -> 0..1] BY <1>5 DEF TakeRequest
  <2>2. saving' \in [Daemons -> [Savers -> SaverPlaces]]
    BY <1>5, <1>run DEF TakeRequest, SaverPlaces
  <2> QED BY <1>5, <2>1, <2>2 DEF TakeRequest, process, disk, inputs
<1>6. ASSUME NEW d \in Daemons, NEW h \in Handlers, ChangeAndSave(d, h) PROVE TypeOK'
  <2>1. changes + 1 \in 0..MaxChanges
    BY <1>6, PersistenceAssumption DEF ChangeAndSave
  <2>2. mem' \in [Daemons -> 0..MaxChanges] BY <1>6, <2>1 DEF ChangeAndSave
  <2>3. saving' \in [Daemons -> [Savers -> SaverPlaces]]
    BY <1>6, <1>0 DEF ChangeAndSave, SaverPlaces
  <2> QED BY <1>6, <2>1, <2>2, <2>3 DEF ChangeAndSave, process, queue, disk
<1>7. ASSUME NEW d \in Daemons, Cancel(d) PROVE TypeOK'
  BY <1>7 DEF Cancel, queue, saver, disk, inputs
<1>8. ASSUME NEW d \in Daemons, FinalSave(d) PROVE TypeOK'
  <2>1. final' \in [Daemons -> BOOLEAN] BY <1>8 DEF FinalSave
  <2>2. saving' \in [Daemons -> [Savers -> SaverPlaces]]
    BY <1>8, <1>run DEF FinalSave, SaverPlaces
  <2> QED BY <1>8, <2>1, <2>2 DEF FinalSave, process, queue, disk, inputs
<1>9. ASSUME NEW gone, NEW to \in {"down", "exited"}, Forget(gone, to),
             file' \in Contents, durable' \in Contents, torn' \in BOOLEAN
      PROVE  TypeOK'
  <2>1. phase' \in [Daemons -> {"down", "loading", "up", "stopping", "exited"}]
    BY <1>9 DEF Forget
  <2>2. mem' \in [Daemons -> 0..MaxChanges]
    BY <1>9, PersistenceAssumption DEF Forget
  <2>3. owed' \in [Daemons -> BOOLEAN] /\ final' \in [Daemons -> BOOLEAN]
    BY <1>9 DEF Forget
  <2>4. saveQueue' \in [Daemons -> 0..1] BY <1>9 DEF Forget
  <2>5. saving' \in [Daemons -> [Savers -> SaverPlaces]]
    BY <1>9 DEF Forget, SaverPlaces
  <2>6. listed' \in [Daemons -> [Savers -> Contents]] BY <1>9, <1>e DEF Forget
  <2>7. lock' \in Daemons \cup {NoDaemon} BY <1>9 DEF Forget
  <2> QED BY <1>9, <2>1, <2>2, <2>3, <2>4, <2>5, <2>6, <2>7 DEF Forget, inputs
<1>10. ASSUME NEW d \in Daemons, Exit(d) PROVE TypeOK'
  BY <1>10, <1>9 DEF Exit, disk
<1>11. ASSUME NEW d \in Daemons, Kill(d) PROVE TypeOK'
  BY <1>11, <1>9 DEF Kill, disk
<1>12. CASE PowerLoss
  <2>1. PICK survivor \in {file, durable} :
            /\ file' = survivor
            /\ durable' = survivor
            /\ torn' = (torn \/ ~survivor.synced)
    BY <1>12 DEF PowerLoss
  <2>2. file' \in Contents /\ durable' \in Contents BY <2>1
  <2>3. torn' \in BOOLEAN BY <2>1
  <2> QED BY <1>12, <2>2, <2>3, <1>9 DEF PowerLoss
<1>13. ASSUME NEW d \in Daemons, NEW s \in Savers, NEW from, NEW to \in SaverPlaces,
              Step(d, s, from, to)
       PROVE  saving' \in [Daemons -> [Savers -> SaverPlaces]]
  BY <1>13 DEF Step
<1>14. ASSUME NEW d \in Daemons, NEW s \in Savers, SaverStep(d, s) PROVE TypeOK'
  <2>1. saving' \in [Daemons -> [Savers -> SaverPlaces]]
    BY <1>14, <1>13 DEF SaverStep, LockSave, List, WriteTemp, SyncTemp, Rename,
                        SyncDir, SaveFails, SaverPlaces
  <2>2. CASE LockSave(d, s) \/ WriteTemp(d, s)
    BY <2>1, <2>2 DEF LockSave, WriteTemp, process, queue, disk, inputs
  <2>3. CASE List(d, s)
    <3>1. [version |-> mem[d], synced |-> FALSE] \in Contents BY DEF Contents
    <3>2. listed' \in [Daemons -> [Savers -> Contents]] BY <2>3, <3>1 DEF List
    <3> QED BY <2>1, <2>3, <3>2 DEF List, process, queue, disk, inputs
  <2>4. CASE SyncTemp(d, s)
    <3>0. listed[d][s] \in Contents OBVIOUS
    <3>1. [listed[d][s] EXCEPT !.synced = TRUE] \in Contents BY <3>0 DEF Contents
    <3>2. listed' \in [Daemons -> [Savers -> Contents]] BY <2>4, <3>1 DEF SyncTemp
    <3> QED BY <2>1, <2>4, <3>2 DEF SyncTemp, process, queue, disk, inputs
  <2>5. CASE Rename(d, s)
    BY <2>1, <2>5 DEF Rename, process, queue, inputs
  <2>6. CASE SyncDir(d, s) \/ SaveFails(d, s)
    <3>1. failed' \in [Daemons -> BOOLEAN] BY <2>6 DEF SyncDir, SaveFails
    <3>2. durable' \in Contents BY <2>6 DEF SyncDir, SaveFails, disk
    <3> QED BY <2>1, <2>6, <3>1, <3>2 DEF SyncDir, SaveFails, process, queue,
               disk, inputs
  <2> QED BY <1>14, <2>2, <2>3, <2>4, <2>5, <2>6 DEF SaverStep
<1>15. CASE UNCHANGED vars BY <1>15 DEF vars
<1> QED
  BY <1>1, <1>2, <1>3, <1>4, <1>5, <1>6, <1>7, <1>8, <1>10, <1>11, <1>12,
     <1>14, <1>15
  DEF Next, DaemonStep

(* Every variable of the state manager keeps its type: saveQueue never     *)
(* holds a second token (TypeOK; requestSave on a channel of capacity      *)
(* one).                                                                   *)
THEOREM PersistenceTypes == Spec => []TypeOK
BY TypeInit, TypeStep, PTL DEF Spec

-----------------------------------------------------------------------------
(* Never torn.                                                             *)

(* What is under the state file's name, now or after a loss of power, has  *)
(* its bytes on the disk, and so has every temporary file that is about to *)
(* be renamed.                                                             *)
Safe ==
    /\ file.synced /\ durable.synced /\ ~torn
    /\ \A d \in Daemons, s \in Savers :
          saving[d][s] \in {"rename", "syncDir"} => listed[d][s].synced

(* One saver of one daemon goes to a place, and the others stay.           *)
Moves(d, s, to) ==
    /\ saving'[d][s] = to
    /\ \A e \in Daemons, t \in Savers :
          e # d \/ t # s => saving'[e][t] = saving[e][t]

(* One saver of one daemon has another listing.                            *)
Relists(d, s, version, synced) ==
    /\ listed'[d][s].version = version
    /\ listed'[d][s].synced = synced
    /\ \A e \in Daemons, t \in Savers :
          e # d \/ t # s => listed'[e][t] = listed[e][t]

(* A step of a save moves its saver.                                       *)
LEMMA StepMoves ==
    ASSUME TypeOK, NEW d \in Daemons, NEW s \in Savers, NEW from, NEW to,
           Step(d, s, from, to)
    PROVE  saving[d][s] = from /\ Moves(d, s, to) /\ Running(d)
BY DEF TypeOK, Step, Moves

(* stateManager.run moves when it takes a request or makes its last save.  *)
LEMMA TakeMoves ==
    ASSUME TypeOK, NEW d \in Daemons, TakeRequest(d) \/ FinalSave(d)
    PROVE  Moves(d, "run", "lock")
BY DEF TypeOK, TakeRequest, FinalSave, Moves, Savers

(* An IPC handler moves when it saves by itself.                           *)
LEMMA ChangeMoves ==
    ASSUME TypeOK, NEW d \in Daemons, NEW h \in Handlers, ChangeAndSave(d, h)
    PROVE  Moves(d, h, "lock") /\ h \in Savers
BY DEF TypeOK, ChangeAndSave, Moves, Savers

(* List reads the registry as it is.                                       *)
LEMMA ListRelists ==
    ASSUME TypeOK, NEW d \in Daemons, NEW s \in Savers, List(d, s)
    PROVE  Relists(d, s, mem[d], FALSE)
<1>1. listed'[d][s] = [version |-> mem[d], synced |-> FALSE] BY DEF TypeOK, List
<1>2. ASSUME NEW e \in Daemons, NEW t \in Savers, e # d \/ t # s
      PROVE  listed'[e][t] = listed[e][t]
  BY <1>2 DEF TypeOK, List
<1> QED BY <1>1, <1>2 DEF Relists

(* SyncTemp puts the listing on the disk and leaves it as it is.           *)
LEMMA SyncRelists ==
    ASSUME TypeOK, NEW d \in Daemons, NEW s \in Savers, SyncTemp(d, s)
    PROVE  Relists(d, s, listed[d][s].version, TRUE)
<1> DEFINE c == [listed[d][s] EXCEPT !.synced = TRUE]
<1>1. listed[d][s] \in Contents BY DEF TypeOK
<1>2. c.synced = TRUE /\ c.version = listed[d][s].version BY <1>1 DEF Contents
<1>3. listed' = [listed EXCEPT ![d][s] = c] BY DEF SyncTemp, TypeOK
<1> HIDE DEF c
<1>4. listed'[d][s] = c BY <1>3 DEF TypeOK
<1>5. ASSUME NEW e \in Daemons, NEW t \in Savers, e # d \/ t # s
      PROVE  listed'[e][t] = listed[e][t]
  BY <1>3, <1>5 DEF TypeOK
<1> QED BY <1>2, <1>4, <1>5 DEF Relists

(* A process that is gone has nothing left; the others keep everything.    *)
LEMMA Gone ==
    ASSUME TypeOK, NEW gone, NEW to, Forget(gone, to), NEW d \in Daemons
    PROVE  /\ d \in gone => /\ phase'[d] = to
                            /\ mem'[d] = 0 /\ ~owed'[d] /\ saveQueue'[d] = 0 /\ ~final'[d]
                            /\ \A s \in Savers : saving'[d][s] = "idle"
           /\ d \notin gone => /\ phase'[d] = phase[d] /\ mem'[d] = mem[d]
                               /\ (owed'[d] <=> owed[d]) /\ saveQueue'[d] = saveQueue[d]
                               /\ (final'[d] <=> final[d])
                               /\ \A s \in Savers : /\ saving'[d][s] = saving[d][s]
                                                    /\ listed'[d][s] = listed[d][s]
<1>1. d \in gone => /\ phase'[d] = to /\ mem'[d] = 0 /\ saveQueue'[d] = 0
                    /\ \A s \in Savers : saving'[d][s] = "idle"
  BY DEF Forget
<1>2. d \notin gone => /\ phase'[d] = phase[d] /\ mem'[d] = mem[d]
                       /\ saveQueue'[d] = saveQueue[d]
  BY DEF Forget
<1>3. d \notin gone => \A s \in Savers : /\ saving'[d][s] = saving[d][s]
                                         /\ listed'[d][s] = listed[d][s]
  BY DEF Forget
<1>4. (owed'[d] <=> d \notin gone /\ owed[d]) /\ (final'[d] <=> d \notin gone /\ final[d])
  BY DEF Forget, TypeOK
<1> QED BY <1>1, <1>2, <1>3, <1>4

(* Every step preserves it: only a synced file is renamed, so a loss of    *)
(* power finds one.                                                        *)
LEMMA SafeStep == ASSUME TypeOK, Safe, [Next]_vars PROVE Safe'
<1> USE DEF Safe
<1>run. "run" \in Savers BY DEF Savers
<1>1. ASSUME NEW d \in Daemons,
             \/ AcquireStateLock(d) \/ Load(d) \/ Change(d) \/ requestSave(d) \/ Cancel(d)
      PROVE  Safe'
  <2>1. UNCHANGED <<saving, listed, disk>>
    BY <1>1 DEF AcquireStateLock, Load, Change, requestSave, Cancel, saver
  <2> QED BY <2>1 DEF disk
<1>2. ASSUME NEW d \in Daemons, NEW s \in Savers, UNCHANGED <<listed, disk>>,
             NEW to \in {"idle", "lock", "list", "sync"}, Moves(d, s, to)
      PROVE  Safe'
  BY <1>2 DEF disk, Moves
<1>3. ASSUME NEW d \in Daemons, TakeRequest(d) \/ FinalSave(d) PROVE Safe'
  BY <1>run, <1>2, <1>3, TakeMoves DEF TakeRequest, FinalSave
<1>4. ASSUME NEW d \in Daemons, NEW h \in Handlers, ChangeAndSave(d, h) PROVE Safe'
  BY <1>2, <1>4, ChangeMoves DEF ChangeAndSave
<1>5. ASSUME NEW gone, NEW to, Forget(gone, to), UNCHANGED disk PROVE Safe'
  BY <1>5, Gone DEF disk
<1>6. ASSUME NEW d \in Daemons, Exit(d) \/ Kill(d) PROVE Safe'
  BY <1>5, <1>6 DEF Exit, Kill
<1>7. CASE PowerLoss
  <2>1. /\ file'.synced /\ durable'.synced /\ ~torn'
    BY <1>7 DEF PowerLoss
  <2> QED BY <1>7, <2>1, Gone DEF PowerLoss
<1>8. ASSUME NEW d \in Daemons, NEW s \in Savers, SaverStep(d, s) PROVE Safe'
  <2>1. CASE LockSave(d, s) \/ WriteTemp(d, s) \/ SaveFails(d, s)
    BY <1>2, <2>1, StepMoves DEF LockSave, WriteTemp, SaveFails
  <2>2. CASE List(d, s)
    <3>1. Moves(d, s, "write") BY <2>2, StepMoves DEF List
    <3>2. ASSUME NEW e \in Daemons, NEW t \in Savers,
                 saving'[e][t] \in {"rename", "syncDir"}
          PROVE  listed'[e][t] = listed[e][t] /\ saving'[e][t] = saving[e][t]
      <4>1. Relists(d, s, mem[d], FALSE) BY <2>2, ListRelists
      <4>2. e # d \/ t # s BY <3>1, <3>2 DEF Moves
      <4> QED BY <3>1, <4>1, <4>2 DEF Moves, Relists
    <3>3. UNCHANGED <<file, durable, torn>> BY <2>2 DEF List, disk
    <3> QED BY <3>2, <3>3
  <2>3. CASE SyncTemp(d, s)
    <3>1. Moves(d, s, "rename") BY <2>3, StepMoves DEF SyncTemp
    <3>2. Relists(d, s, listed[d][s].version, TRUE) BY <2>3, SyncRelists
    <3>3. UNCHANGED <<file, durable, torn>> BY <2>3 DEF SyncTemp, disk
    <3> QED BY <3>1, <3>2, <3>3 DEF Moves, Relists
  <2>4. CASE Rename(d, s)
    <3>1. saving[d][s] = "rename" /\ Moves(d, s, "syncDir")
      BY <2>4, StepMoves DEF Rename
    <3> QED BY <2>4, <3>1 DEF Rename, Moves
  <2>5. CASE SyncDir(d, s)
    <3>1. Moves(d, s, "idle") BY <2>5, StepMoves DEF SyncDir
    <3> QED BY <2>5, <3>1 DEF SyncDir, Moves
  <2> QED BY <1>8, <2>1, <2>2, <2>3, <2>4, <2>5 DEF SaverStep
<1>9. CASE UNCHANGED vars BY <1>9 DEF vars
<1> QED BY <1>1, <1>3, <1>4, <1>6, <1>7, <1>8, <1>9 DEF Next, DaemonStep

(* Wherever processes are killed or the power is lost, and however many    *)
(* daemons share the directory, the file is whole (NeverTorn; SaveDevices  *)
(* syncs before it renames).                                               *)
THEOREM PersistenceNeverTorn == Spec => []NeverTorn
<1>1. Init => Safe BY DEF Init, Safe, Empty
<1>2. Safe => NeverTorn BY DEF Safe, NeverTorn
<1> QED BY <1>1, <1>2, PersistenceTypes, SafeStep, PTL DEF Spec

-----------------------------------------------------------------------------
(* Who saves.                                                              *)

(* A process that is not up has no save, and no request for one, under     *)
(* way.                                                                    *)
IdleUnlessRunning ==
    \A d \in Daemons : ~Running(d) =>
        /\ ~owed[d] /\ saveQueue[d] = 0 /\ ~final[d]
        /\ \A s \in Savers : saving[d][s] = "idle"

(* saveMu excludes: one saver of a daemon at most is between the listing   *)
(* and the end.                                                            *)
OneSaver ==
    \A d \in Daemons : \A s, t \in Savers :
        HoldsSaveMu(d, s) /\ HoldsSaveMu(d, t) => s = t

(* A process starts idle and is forgotten when it ends.                    *)
LEMMA IdleStep ==
    ASSUME TypeOK, IdleUnlessRunning, [Next]_vars PROVE IdleUnlessRunning'
<1> USE DEF IdleUnlessRunning, Running
<1>1. ASSUME NEW d \in Daemons, AcquireStateLock(d) \/ Load(d) \/ Cancel(d)
      PROVE  IdleUnlessRunning'
  <2>1. /\ UNCHANGED <<owed, saveQueue, final, saving>>
        /\ \A e \in Daemons : e # d => phase'[e] = phase[e]
    BY <1>1 DEF AcquireStateLock, Load, Cancel, queue, saver, TypeOK
  <2>2. phase'[d] \in {"up", "stopping"} \/ phase[d] \in {"down", "exited"}
    BY <1>1 DEF AcquireStateLock, Load, Cancel, TypeOK
  <2> QED BY <2>1, <2>2
<1>2. ASSUME NEW d \in Daemons, Running(d), UNCHANGED phase,
             \A e \in Daemons : e # d =>
                /\ (owed'[e] <=> owed[e]) /\ saveQueue'[e] = saveQueue[e]
                /\ (final'[e] <=> final[e])
                /\ \A s \in Savers : saving'[e][s] = saving[e][s]
      PROVE  IdleUnlessRunning'
  BY <1>2
<1>3. ASSUME NEW d \in Daemons, Change(d) \/ requestSave(d) PROVE IdleUnlessRunning'
  <2>1. Running(d) /\ UNCHANGED <<phase, saving, final>>
    BY <1>3 DEF Change, requestSave, process, saver
  <2>2. \A e \in Daemons : e # d =>
           (owed'[e] <=> owed[e]) /\ saveQueue'[e] = saveQueue[e]
    BY <1>3 DEF Change, requestSave, TypeOK
  <2> QED BY <2>1, <2>2, <1>2
<1>4. ASSUME NEW d \in Daemons, TakeRequest(d) \/ FinalSave(d) PROVE IdleUnlessRunning'
  <2>1. Running(d) /\ UNCHANGED <<phase, owed>> /\ Moves(d, "run", "lock")
    BY <1>4, TakeMoves DEF TakeRequest, FinalSave, process, queue
  <2>2. \A e \in Daemons : e # d =>
           (final'[e] <=> final[e]) /\ saveQueue'[e] = saveQueue[e]
    BY <1>4 DEF TakeRequest, FinalSave, queue, TypeOK
  <2> QED BY <2>1, <2>2, <1>2 DEF Moves
<1>5. ASSUME NEW d \in Daemons, NEW h \in Handlers, ChangeAndSave(d, h)
      PROVE  IdleUnlessRunning'
  <2>1. Running(d) /\ UNCHANGED <<phase, owed, saveQueue, final>> /\ Moves(d, h, "lock")
    BY <1>5, ChangeMoves DEF ChangeAndSave, process, queue
  <2> QED BY <2>1, <1>2 DEF Moves
<1>6. ASSUME NEW d \in Daemons, NEW s \in Savers, SaverStep(d, s)
      PROVE  IdleUnlessRunning'
  <2>1. PICK to : Running(d) /\ Moves(d, s, to)
    BY <1>6, StepMoves
    DEF SaverStep, LockSave, List, WriteTemp, SyncTemp, Rename, SyncDir, SaveFails
  <2>2. UNCHANGED <<phase, owed, saveQueue, final>>
    BY <1>6 DEF SaverStep, LockSave, List, WriteTemp, SyncTemp, Rename, SyncDir,
                SaveFails, process, queue
  <2> QED BY <2>1, <2>2, <1>2 DEF Moves
<1>7. ASSUME NEW gone, NEW to, Forget(gone, to) PROVE IdleUnlessRunning'
  BY <1>7, Gone
<1>8. CASE UNCHANGED vars BY <1>8 DEF vars
<1> QED
  BY <1>1, <1>3, <1>4, <1>5, <1>6, <1>7, <1>8
  DEF Next, DaemonStep, Exit, Kill, PowerLoss

(* Only LockSave enters, and only when nobody else is inside.              *)
LEMMA OneSaverStep ==
    ASSUME TypeOK, OneSaver, [Next]_vars PROVE OneSaver'
<1> USE DEF OneSaver, HoldsSaveMu
<1>1. ASSUME NEW d \in Daemons, NEW s \in Savers, NEW to \in {"idle", "lock"},
             Moves(d, s, to)
      PROVE  OneSaver'
  BY <1>1 DEF Moves
<1>2. ASSUME NEW d \in Daemons, NEW s \in Savers, NEW to, Moves(d, s, to),
             \/ HoldsSaveMu(d, s)
             \/ \A other \in Savers : ~HoldsSaveMu(d, other)
      PROVE  OneSaver'
  BY <1>2 DEF Moves
<1>3. ASSUME NEW d \in Daemons,
             \/ AcquireStateLock(d) \/ Load(d) \/ Change(d) \/ requestSave(d) \/ Cancel(d)
      PROVE  OneSaver'
  <2>1. UNCHANGED saving
    BY <1>3 DEF AcquireStateLock, Load, Change, requestSave, Cancel, saver
  <2> QED BY <2>1
<1>4. ASSUME NEW d \in Daemons, TakeRequest(d) \/ FinalSave(d) PROVE OneSaver'
  BY <1>1, <1>4, TakeMoves DEF Savers
<1>5. ASSUME NEW d \in Daemons, NEW h \in Handlers, ChangeAndSave(d, h) PROVE OneSaver'
  BY <1>1, <1>5, ChangeMoves
<1>6. ASSUME NEW d \in Daemons, NEW s \in Savers, SaverStep(d, s) PROVE OneSaver'
  <2>1. CASE SyncDir(d, s) \/ SaveFails(d, s)
    BY <1>1, <2>1, StepMoves DEF SyncDir, SaveFails
  <2>2. CASE LockSave(d, s)
    BY <1>2, <2>2, StepMoves DEF LockSave
  <2>3. CASE List(d, s) \/ WriteTemp(d, s) \/ SyncTemp(d, s) \/ Rename(d, s)
    BY <1>2, <2>3, StepMoves DEF List, WriteTemp, SyncTemp, Rename
  <2> QED BY <1>6, <2>1, <2>2, <2>3 DEF SaverStep
<1>7. ASSUME NEW gone, NEW to, Forget(gone, to) PROVE OneSaver'
  BY <1>7, Gone
<1>8. CASE UNCHANGED vars BY <1>8 DEF vars
<1> QED
  BY <1>3, <1>4, <1>5, <1>6, <1>7, <1>8 DEF Next, DaemonStep, Exit, Kill,
     PowerLoss

-----------------------------------------------------------------------------
(* What the file holds.                                                    *)

(* The steps at which a listing is on its way to the file.                 *)
Keeping(d, s) == saving[d][s] \in {"write", "sync", "rename"}

(* A save that will list the registry as it now is, or a later one, is     *)
(* requested or has begun.                                                 *)
ToBeListed(d) ==
    \/ owed[d] \/ saveQueue[d] = 1
    \/ \E s \in Savers : saving[d][s] \in {"lock", "list"}

(* Neither what is safe on the disk nor the file is newer than the last    *)
(* change; nor is what is safe newer than the file, unless a daemon began  *)
(* without the file.                                                       *)
DiskInOrder ==
    /\ file.version <= changes /\ durable.version <= changes
    /\ unread \/ durable.version <= file.version

(* A listing on its way is between what the file holds and what the        *)
(* registry holds: a save never puts an older list in the place of a newer *)
(* one, unless the registry began without the file; what it puts there is  *)
(* no newer than the registry even then.                                   *)
RegistryIsAhead(d) ==
    /\ mem[d] <= changes
    /\ Running(d) =>
          /\ unread \/ file.version <= mem[d]
          /\ \A s \in Savers :
                /\ Keeping(d, s) => /\ unread \/ file.version <= listed[d][s].version
                                   /\ listed[d][s].version <= mem[d]
                /\ saving[d][s] = "syncDir" => file.version <= mem[d]

(* When no save is to list the registry any more, the last change is in    *)
(* the listing on its way, or in the file, or the save of it failed, or    *)
(* the registry began without the file and was never saved.                *)
LastIsOnItsWay(d) ==
    Running(d) /\ ~ToBeListed(d) =>
        /\ \A s \in Savers :
              /\ Keeping(d, s) => listed[d][s].version = mem[d]
              /\ saving[d][s] = "syncDir" => file.version = mem[d]
        /\ (\A s \in Savers : saving[d][s] = "idle") =>
              failed[d] \/ unread \/ file.version = mem[d]

(* Once run has begun its last save, every listing on its way has the      *)
(* changes made before the daemon was told to stop; when run is done they  *)
(* are safe on the disk, or the save of them failed; and a daemon that     *)
(* begins without the file leaves nothing to be kept of earlier stops.     *)
StopIsOnItsWay(d) ==
    /\ phase[d] = "stopping" => cancelled[d] <= mem[d]
    /\ final[d] => phase[d] = "stopping"
    /\ final[d] /\ saving[d]["run"] # "lock" =>
          \A s \in Savers :
                /\ Keeping(d, s) => listed[d][s].version >= cancelled[d]
                /\ saving[d][s] = "syncDir" => file.version >= cancelled[d]
    /\ phase[d] = "exited" \/ (final[d] /\ saving[d]["run"] = "idle") =>
          \/ failed[d]
          \/ durable.version >= cancelled[d] /\ (unread => cancelled[d] = 0)

SavedIn(d) == RegistryIsAhead(d) /\ LastIsOnItsWay(d) /\ StopIsOnItsWay(d)

(* The inductive invariant: QuietIsSaved and StopSaves speak of a daemon   *)
(* that rests, and it says what holds on the way there.                    *)
SavesInv ==
    /\ TypeOK /\ Safe /\ IdleUnlessRunning /\ OneSaver
    /\ DiskInOrder /\ \A d \in Daemons : SavedIn(d)

(* The values the proofs compare are numbers.                              *)
LEMMA Versions ==
    ASSUME TypeOK
    PROVE  /\ file.version \in Int /\ durable.version \in Int /\ changes \in Int
           /\ \A d \in Daemons : /\ mem[d] \in Int /\ cancelled[d] \in Int
                                 /\ saveQueue[d] \in 0..1
                                 /\ \A s \in Savers : listed[d][s].version \in Int
<1>1. file.version \in 0..MaxChanges /\ durable.version \in 0..MaxChanges
  BY DEF TypeOK, Contents
<1>2. ASSUME NEW d \in Daemons, NEW s \in Savers
      PROVE  listed[d][s].version \in 0..MaxChanges
  <2>1. listed[d][s] \in Contents BY DEF TypeOK
  <2> QED BY <2>1 DEF Contents
<1> QED BY <1>1, <1>2, PersistenceAssumption DEF TypeOK

(* A step of somebody else, as daemon d sees it.                           *)
SameIn(d) ==
    /\ phase'[d] = phase[d] /\ mem'[d] = mem[d] /\ saveQueue'[d] = saveQueue[d]
    /\ (owed'[d] <=> owed[d]) /\ (final'[d] <=> final[d]) /\ (failed'[d] <=> failed[d])
    /\ (cancelled'[d] = cancelled[d] /\ (unread' => unread)) \/ cancelled'[d] = 0
    /\ \A s \in Savers : saving'[d][s] = saving[d][s] /\ listed'[d][s] = listed[d][s]

(* Steps of other daemons do no harm unless they change the disk, and then *)
(* d must not be running: another process that renames its own, older      *)
(* listing is what the hypothesis OneDaemon excludes.                      *)
LEMMA OthersKeep ==
    ASSUME SavesInv, TypeOK', NEW d \in Daemons, SameIn(d), changes' >= changes,
           \/ UNCHANGED <<file, durable>> /\ (unread => unread')
           \/ ~Running(d) /\ (unread \/ durable'.version >= durable.version)
    PROVE  SavedIn(d)'
<1> USE Versions DEF SavesInv, SavedIn, SameIn
<1>0. changes' \in Int /\ durable'.version \in Nat BY DEF TypeOK, Contents
<1>1. Running(d)' <=> Running(d) BY DEF Running
<1>2. \A s \in Savers : Keeping(d, s)' <=> Keeping(d, s) BY DEF Keeping
<1>3. ToBeListed(d)' <=> ToBeListed(d) BY DEF ToBeListed
<1>run. "run" \in Savers BY DEF Savers
<1>4. CASE UNCHANGED <<file, durable>> /\ (unread => unread')
  <2>1. RegistryIsAhead(d)' BY <1>0, <1>1, <1>2, <1>4 DEF RegistryIsAhead
  <2>2. LastIsOnItsWay(d)' BY <1>1, <1>2, <1>3, <1>4 DEF LastIsOnItsWay
  <2>3. StopIsOnItsWay(d)'
    <3>1. /\ mem[d] \in Nat /\ durable.version \in Nat
          /\ \A s \in Savers : listed[d][s].version \in Nat /\ file.version \in Nat
      <4>1. \A s \in Savers : listed[d][s] \in Contents BY DEF TypeOK
      <4> QED BY <4>1, PersistenceAssumption DEF TypeOK, Contents
    <3>2. CASE cancelled'[d] = cancelled[d] /\ (unread' => unread)
      BY <1>2, <1>4, <1>run, <3>2 DEF StopIsOnItsWay
    <3>3. CASE cancelled'[d] = 0
      BY <1>2, <1>4, <1>run, <3>1, <3>3 DEF StopIsOnItsWay
    <3> QED BY <3>2, <3>3
  <2> QED BY <2>1, <2>2, <2>3
<1>5. CASE ~Running(d) /\ (unread \/ durable'.version >= durable.version)
  <2>1. RegistryIsAhead(d)' BY <1>0, <1>1, <1>5 DEF RegistryIsAhead
  <2>2. LastIsOnItsWay(d)' BY <1>1, <1>5 DEF LastIsOnItsWay
  <2>3. StopIsOnItsWay(d)' 
    <3>1. ~final[d] BY <1>5 DEF IdleUnlessRunning
    <3>2. phase[d] = "exited" =>
             \/ failed'[d]
             \/ durable'.version >= cancelled'[d] /\ (unread' => cancelled'[d] = 0)
      BY <1>0, <1>5 DEF StopIsOnItsWay
    <3> QED BY <1>0, <1>5, <1>1, <3>1, <3>2 DEF StopIsOnItsWay, Running
  <2> QED BY <2>1, <2>2, <2>3
<1> QED BY <1>4, <1>5

(* A daemon changes nothing in the memory of another.                      *)
LEMMA OthersSame ==
    ASSUME TypeOK, NEW d \in Daemons,
           DaemonStep(d) \/ \E s \in Savers : SaverStep(d, s),
           NEW e \in Daemons, e # d
    PROVE  SameIn(e)
<1> USE DEF SameIn, history
<1>1. CASE AcquireStateLock(d) \/ Load(d) \/ Change(d) \/ requestSave(d) \/ Cancel(d)
  BY <1>1 DEF AcquireStateLock, Load, Change, requestSave, Cancel, process,
     queue, saver,
              TypeOK
<1>2. CASE TakeRequest(d) \/ FinalSave(d)
  <2>1. Moves(d, "run", "lock") BY <1>2, TakeMoves
  <2>2. \A s \in Savers : saving'[e][s] = saving[e][s] BY <2>1 DEF Moves
  <2> QED BY <1>2, <2>2 DEF TakeRequest, FinalSave, process, queue, TypeOK
<1>3. ASSUME NEW h \in Handlers, ChangeAndSave(d, h) PROVE SameIn(e)
  <2>1. Moves(d, h, "lock") BY <1>3, ChangeMoves
  <2>2. \A s \in Savers : saving'[e][s] = saving[e][s] BY <2>1 DEF Moves
  <2> QED BY <1>3, <2>2 DEF ChangeAndSave, process, queue, TypeOK
<1>4. ASSUME NEW s \in Savers, SaverStep(d, s) PROVE SameIn(e)
  <2>1. \A t \in Savers : saving'[e][t] = saving[e][t]
    <3>1. PICK to : Moves(d, s, to)
      BY <1>4, StepMoves
      DEF SaverStep, LockSave, List, WriteTemp, SyncTemp, Rename, SyncDir, SaveFails
    <3> QED BY <3>1 DEF Moves
  <2>2. \A t \in Savers : listed'[e][t] = listed[e][t]
    <3>1. CASE List(d, s)
      <4>1. Relists(d, s, mem[d], FALSE) BY <3>1, ListRelists
      <4> QED BY <4>1 DEF Relists
    <3>2. CASE SyncTemp(d, s)
      <4>1. Relists(d, s, listed[d][s].version, TRUE) BY <3>2, SyncRelists
      <4> QED BY <4>1 DEF Relists
    <3>3. CASE ~List(d, s) /\ ~SyncTemp(d, s)
      BY <1>4, <3>3 DEF SaverStep, LockSave, WriteTemp, Rename, SyncDir, SaveFails
    <3> QED BY <3>1, <3>2, <3>3
  <2>3. failed'[e] = failed[e]
    BY <1>4 DEF SaverStep, LockSave, List, WriteTemp, SyncTemp, Rename,
       SyncDir, SaveFails,
                TypeOK
  <2>4. UNCHANGED <<phase, mem, owed, saveQueue, final, cancelled>> /\ (unread' => unread)
    BY <1>4 DEF SaverStep, LockSave, List, WriteTemp, SyncTemp, Rename,
       SyncDir, SaveFails,
                process, queue
  <2> QED BY <2>1, <2>2, <2>3, <2>4
<1>5. CASE Exit(d) \/ Kill(d)
  <2>1. PICK to : Forget({d}, to) BY <1>5 DEF Exit, Kill
  <2>2. e \notin {d} OBVIOUS
  <2>3. UNCHANGED <<failed, cancelled, unread>> BY <2>1 DEF Forget
  <2> QED BY <2>1, <2>2, <2>3, Gone
<1> QED BY <1>1, <1>2, <1>3, <1>4, <1>5 DEF DaemonStep

(* The daemon that acts: starting, changes, requests.                      *)
LEMMA LoadSaved ==
    ASSUME SavesInv, NEW d \in Daemons, AcquireStateLock(d) \/ Load(d)
    PROVE  SavedIn(d)'
<1> USE Versions DEF SavesInv, history
<1>1. ~Running(d) /\ phase'[d] \in {"loading", "up"} /\ UNCHANGED <<saving, final, file, durable>>
  BY DEF AcquireStateLock, Load, Running, saver, disk, TypeOK
<1>2. ~final[d] /\ \A s \in Savers : saving[d][s] = "idle"
  BY <1>1 DEF IdleUnlessRunning
<1>3. StopIsOnItsWay(d)'
  <2>1. ~final'[d] /\ phase'[d] \notin {"stopping", "exited"} BY <1>1, <1>2
  <2> QED BY <2>1 DEF StopIsOnItsWay
<1>4. CASE AcquireStateLock(d)
  <2>1. ~Running(d)' BY <1>4 DEF AcquireStateLock, Running, TypeOK
  <2>2. mem'[d] <= changes'
    BY <1>4 DEF AcquireStateLock, SavedIn, RegistryIsAhead, inputs
  <2> QED BY <1>3, <2>1, <2>2 DEF SavedIn, RegistryIsAhead, LastIsOnItsWay
<1>5. CASE Load(d)
  <2>1. changes' = changes /\ mem'[d] <= changes
        /\ (mem'[d] = file.version \/ unread')
    BY <1>5, PersistenceAssumption DEF Load, TypeOK, inputs, DiskInOrder
  <2>2. mem'[d] \in Int BY <1>5 DEF Load, TypeOK
  <2>3. RegistryIsAhead(d)'
    BY <1>1, <1>2, <2>1, <2>2 DEF RegistryIsAhead, Keeping
  <2>4. LastIsOnItsWay(d)'
    BY <1>1, <1>2, <2>1 DEF LastIsOnItsWay, Keeping
  <2> QED BY <1>3, <2>3, <2>4 DEF SavedIn
<1> QED BY <1>4, <1>5

(* The daemon that acts: a change is to be listed until run, or the        *)
(* handler that made it, lists it.                                         *)
LEMMA RequestSaved ==
    ASSUME SavesInv, NEW d \in Daemons,
           \/ Change(d) \/ requestSave(d) \/ TakeRequest(d)
           \/ \E h \in Handlers : ChangeAndSave(d, h)
    PROVE  SavedIn(d)'
<1> USE Versions DEF SavesInv
<1>run. "run" \in Savers BY DEF Savers
<1>1. /\ UNCHANGED <<phase, file, durable, listed, final, failed, cancelled,
                      unread>>
      /\ Running(d)
  BY DEF Change, requestSave, TakeRequest, ChangeAndSave, process, saver, disk, history
<1>2. mem'[d] >= mem[d] /\ mem'[d] <= changes' /\ mem'[d] \in Int /\ changes' \in Int
  <2>1. CASE UNCHANGED <<mem, changes>>
    BY <2>1 DEF SavedIn, RegistryIsAhead
  <2>2. CASE mem'[d] = changes + 1 /\ changes' = changes + 1
    BY <2>2 DEF SavedIn, RegistryIsAhead
  <2> QED BY <2>1, <2>2 DEF Change, requestSave, TakeRequest, ChangeAndSave,
             inputs, TypeOK
<1>3. ASSUME NEW s \in Savers
      PROVE  saving'[d][s] = saving[d][s] \/ (saving'[d][s] = "lock" /\ saving[d][s] = "idle")
  <2>1. CASE Change(d) \/ requestSave(d)
    <3>1. UNCHANGED saving BY <2>1 DEF Change, requestSave, saver
    <3> QED BY <3>1
  <2>2. CASE TakeRequest(d)
    <3>1. Moves(d, "run", "lock") /\ saving[d]["run"] = "idle"
      BY <2>2, TakeMoves DEF TakeRequest
    <3> QED BY <3>1 DEF Moves
  <2>3. ASSUME NEW h \in Handlers, ChangeAndSave(d, h)
        PROVE  saving'[d][s] = saving[d][s] \/ (saving'[d][s] = "lock" /\ saving[d][s] = "idle")
    <3>1. Moves(d, h, "lock") /\ saving[d][h] = "idle"
      BY <2>3, ChangeMoves DEF ChangeAndSave
    <3> QED BY <3>1 DEF Moves
  <2> QED BY <2>1, <2>2, <2>3
<1>4. ToBeListed(d)'
  <2>1. CASE Change(d) BY <2>1 DEF Change, ToBeListed, TypeOK
  <2>2. CASE requestSave(d) BY <2>2 DEF requestSave, ToBeListed, TypeOK
  <2>3. CASE TakeRequest(d) BY <2>3, TakeMoves, <1>run DEF ToBeListed, Moves
  <2>4. ASSUME NEW h \in Handlers, ChangeAndSave(d, h) PROVE ToBeListed(d)'
    BY <2>4, ChangeMoves DEF ToBeListed, Moves
  <2> QED BY <2>1, <2>2, <2>3, <2>4
<1>5. RegistryIsAhead(d)'
  BY <1>1, <1>2, <1>3 DEF SavedIn, RegistryIsAhead, Keeping, Running
<1>6. LastIsOnItsWay(d)' BY <1>4 DEF LastIsOnItsWay
<1>7. StopIsOnItsWay(d)'
  BY <1>1, <1>2, <1>3, <1>run DEF SavedIn, StopIsOnItsWay, Keeping, Running
<1> QED BY <1>5, <1>6, <1>7 DEF SavedIn

(* The daemon that acts: the ends of a process.                            *)
LEMMA StopSaved ==
    ASSUME SavesInv, NEW d \in Daemons, Cancel(d) \/ FinalSave(d) \/ Exit(d) \/ Kill(d)
    PROVE  SavedIn(d)'
<1> USE Versions DEF SavesInv, history
<1>run. "run" \in Savers BY DEF Savers
<1>1. CASE Cancel(d)
  <2>1. /\ phase[d] = "up" /\ phase'[d] = "stopping" /\ cancelled'[d] = mem[d]
        /\ UNCHANGED <<mem, owed, saveQueue, saving, listed, failed, final, file, durable,
                       unread, changes>>
    BY <1>1 DEF Cancel, queue, saver, disk, inputs, TypeOK
  <2>2. ~final[d] BY <2>1 DEF SavedIn, StopIsOnItsWay
  <2>3. StopIsOnItsWay(d)' BY <2>1, <2>2 DEF StopIsOnItsWay
  <2>4. RegistryIsAhead(d)' BY <2>1 DEF SavedIn, RegistryIsAhead, Running, Keeping
  <2>5. LastIsOnItsWay(d)'
    BY <2>1 DEF SavedIn, LastIsOnItsWay, Running, Keeping, ToBeListed
  <2> QED BY <2>3, <2>4, <2>5 DEF SavedIn
<1>2. CASE FinalSave(d)
  <2>1. /\ phase[d] = "stopping" /\ saving[d]["run"] = "idle" /\ Moves(d, "run", "lock")
        /\ UNCHANGED <<phase, mem, owed, saveQueue, listed, failed, cancelled, unread, file,
                       durable, changes>>
    BY <1>2, TakeMoves DEF FinalSave, process, queue, disk, inputs
  <2>2. StopIsOnItsWay(d)' BY <2>1 DEF SavedIn, StopIsOnItsWay, Moves
  <2>3. RegistryIsAhead(d)'
    BY <2>1 DEF SavedIn, RegistryIsAhead, Running, Keeping, Moves
  <2>4. ToBeListed(d)' BY <2>1, <1>run DEF ToBeListed, Moves
  <2> QED BY <2>2, <2>3, <2>4 DEF SavedIn, LastIsOnItsWay
<1>3. ASSUME NEW to \in {"down", "exited"}, Forget({d}, to), UNCHANGED disk,
             to = "exited" =>
                \/ failed[d]
                \/ durable.version >= cancelled[d] /\ (unread => cancelled[d] = 0)
      PROVE  SavedIn(d)'
  <2>1. phase'[d] = to /\ mem'[d] = 0 /\ ~final'[d] BY <1>3, Gone
  <2>2. UNCHANGED <<failed, cancelled, unread, durable, changes>>
    BY <1>3 DEF Forget, disk, inputs
  <2>3. ~Running(d)' BY <2>1, <1>3 DEF Running
  <2>4. 0 <= changes BY DEF TypeOK, PersistenceAssumption
  <2> QED BY <1>3, <2>1, <2>2, <2>3, <2>4
          DEF SavedIn, RegistryIsAhead, LastIsOnItsWay, StopIsOnItsWay
<1>4. CASE Exit(d)
  BY <1>3, <1>4 DEF Exit, SavedIn, StopIsOnItsWay
<1>5. CASE Kill(d) BY <1>3, <1>5 DEF Kill
<1> QED BY <1>1, <1>2, <1>4, <1>5

(* The daemon that acts: the steps of a save.                              *)
LEMMA SaverSaved ==
    ASSUME SavesInv, NEW d \in Daemons, NEW s \in Savers, SaverStep(d, s)
    PROVE  SavedIn(d)'
<1> USE Versions DEF SavesInv, history
<1>run. "run" \in Savers BY DEF Savers
<1>1. /\ UNCHANGED <<phase, mem, owed, saveQueue, final, cancelled, changes>>
      /\ Running(d)
  BY DEF SaverStep, LockSave, List, WriteTemp, SyncTemp, Rename, SyncDir,
     SaveFails, Step,
         process, queue, inputs
<1>2. /\ RegistryIsAhead(d) /\ LastIsOnItsWay(d) /\ StopIsOnItsWay(d)
      /\ unread \/ file.version <= mem[d]
      /\ mem[d] <= changes
      /\ phase[d] = "stopping" => cancelled[d] <= mem[d]
      /\ final[d] => phase[d] = "stopping"
  BY <1>1 DEF SavedIn, RegistryIsAhead, StopIsOnItsWay
<1>3. ASSUME NEW t \in Savers, HoldsSaveMu(d, s), t # s
      PROVE  saving[d][t] \in {"idle", "lock"}
  BY <1>3 DEF OneSaver, HoldsSaveMu
<1>4. CASE LockSave(d, s)
  <2>1. /\ saving[d][s] = "lock" /\ Moves(d, s, "list")
        /\ UNCHANGED <<listed, failed, unread, file, durable>>
    BY <1>4, StepMoves DEF LockSave, disk
  <2>2. \A t \in Savers : saving[d][t] \in {"idle", "lock"}
    BY <1>4 DEF LockSave, HoldsSaveMu
  <2>3. RegistryIsAhead(d)'
    BY <1>1, <1>2, <2>1, <2>2 DEF RegistryIsAhead, Keeping, Moves
  <2>4. ToBeListed(d)' BY <2>1 DEF ToBeListed, Moves
  <2>5. StopIsOnItsWay(d)'
    BY <1>1, <1>2, <1>run, <2>1, <2>2 DEF StopIsOnItsWay, Keeping, Moves
  <2> QED BY <2>3, <2>4, <2>5 DEF SavedIn, LastIsOnItsWay
<1>5. CASE List(d, s)
  <2>1. /\ saving[d][s] = "list" /\ Moves(d, s, "write")
        /\ UNCHANGED <<failed, unread, file, durable>>
    BY <1>5, StepMoves DEF List, disk
  <2>2. Relists(d, s, mem[d], FALSE) BY <1>5, ListRelists
  <2>3. \A t \in Savers : t # s => saving'[d][t] \in {"idle", "lock"}
    BY <1>3, <2>1 DEF HoldsSaveMu, Moves
  <2>4. listed'[d][s].version = mem[d] /\ saving'[d][s] = "write"
    BY <2>1, <2>2 DEF Relists, Moves
  <2>5. RegistryIsAhead(d)'
    BY <1>1, <1>2, <2>1, <2>3, <2>4 DEF RegistryIsAhead, Keeping
  <2>6. LastIsOnItsWay(d)' BY <1>1, <2>3, <2>4 DEF LastIsOnItsWay, Keeping
  <2>7. StopIsOnItsWay(d)'
    <3>1. saving'[d]["run"] # "idle" \/ saving[d]["run"] = "idle"
      BY <2>1, <1>run DEF Moves
    <3>2. saving'[d]["run"] # "lock" => saving[d]["run"] # "lock"
      BY <2>1, <1>run DEF Moves
    <3> QED BY <1>1, <1>2, <2>1, <2>3, <2>4, <3>1, <3>2 DEF StopIsOnItsWay,
               Keeping
  <2> QED BY <2>5, <2>6, <2>7 DEF SavedIn
<1>6. CASE WriteTemp(d, s) \/ SyncTemp(d, s)
  <2>1. /\ Keeping(d, s) /\ HoldsSaveMu(d, s)
        /\ \E to \in {"sync", "rename"} : Moves(d, s, to)
        /\ UNCHANGED <<failed, unread, file, durable>>
    BY <1>6, StepMoves DEF WriteTemp, SyncTemp, disk, Keeping, HoldsSaveMu
  <2>2. \A t \in Savers : listed'[d][t].version = listed[d][t].version
    <3>1. CASE WriteTemp(d, s) BY <3>1 DEF WriteTemp
    <3>2. CASE SyncTemp(d, s)
      <4>1. Relists(d, s, listed[d][s].version, TRUE) BY <3>2, SyncRelists
      <4> QED BY <4>1 DEF Relists
    <3> QED BY <1>6, <3>1, <3>2
  <2>3. \A t \in Savers : t # s => saving'[d][t] = saving[d][t]
    BY <2>1 DEF Moves
  <2>4. /\ saving[d][s] \in {"write", "sync"} /\ saving'[d][s] \in {"sync", "rename"}
    BY <1>6, <2>1, StepMoves DEF WriteTemp, SyncTemp, Moves
  <2>5. RegistryIsAhead(d)'
    BY <1>1, <1>2, <2>1, <2>2, <2>3, <2>4 DEF RegistryIsAhead, Keeping
  <2>6. LastIsOnItsWay(d)'
    <3>1. ToBeListed(d) => ToBeListed(d)' BY <1>1, <2>3, <2>4 DEF ToBeListed
    <3> QED BY <1>1, <1>2, <2>1, <2>2, <2>3, <2>4, <3>1 DEF LastIsOnItsWay,
               Keeping
  <2>7. StopIsOnItsWay(d)'
    BY <1>1, <1>2, <1>run, <2>1, <2>2, <2>3, <2>4 DEF StopIsOnItsWay, Keeping
  <2> QED BY <2>5, <2>6, <2>7 DEF SavedIn
<1>7. CASE Rename(d, s)
  <2>1. /\ saving[d][s] = "rename" /\ Moves(d, s, "syncDir")
        /\ UNCHANGED <<listed, failed, unread, durable>> /\ file' = listed[d][s]
    BY <1>7, StepMoves DEF Rename
  <2>2. \A t \in Savers : t # s => /\ saving'[d][t] = saving[d][t]
                                   /\ saving'[d][t] \in {"idle", "lock"}
    BY <1>3, <2>1 DEF HoldsSaveMu, Moves
  <2>3. saving'[d][s] = "syncDir" BY <2>1 DEF Moves
  <2>4. listed[d][s].version <= mem[d]
    BY <1>1, <1>2, <2>1 DEF RegistryIsAhead, Keeping
  <2>5. RegistryIsAhead(d)'
    BY <1>1, <1>2, <2>1, <2>2, <2>3, <2>4 DEF RegistryIsAhead, Keeping
  <2>6. LastIsOnItsWay(d)'
    <3>1. ToBeListed(d) => ToBeListed(d)' BY <1>1, <2>1, <2>2 DEF ToBeListed
    <3> QED BY <1>1, <1>2, <2>1, <2>2, <2>3, <3>1 DEF LastIsOnItsWay, Keeping
  <2>7. StopIsOnItsWay(d)'
    BY <1>1, <1>2, <1>run, <2>1, <2>2, <2>3 DEF StopIsOnItsWay, Keeping
  <2> QED BY <2>5, <2>6, <2>7 DEF SavedIn
<1>8. CASE SyncDir(d, s)
  <2>1. /\ saving[d][s] = "syncDir" /\ Moves(d, s, "idle")
        /\ UNCHANGED <<listed, file>> /\ durable' = file /\ ~failed'[d] /\ ~unread'
    BY <1>8, StepMoves DEF SyncDir, TypeOK
  <2>2. \A t \in Savers : t # s => /\ saving'[d][t] = saving[d][t]
                                   /\ saving'[d][t] \in {"idle", "lock"}
    BY <1>3, <2>1 DEF HoldsSaveMu, Moves
  <2>3. saving'[d][s] = "idle" BY <2>1 DEF Moves
  <2>4. RegistryIsAhead(d)'
    BY <1>1, <1>2, <2>1, <2>2, <2>3 DEF RegistryIsAhead, Keeping
  <2>5. LastIsOnItsWay(d)'
    <3>1. ToBeListed(d) => ToBeListed(d)' BY <1>1, <2>1, <2>2 DEF ToBeListed
    <3> QED BY <1>1, <1>2, <2>1, <2>2, <2>3, <3>1 DEF LastIsOnItsWay, Keeping
  <2>6. StopIsOnItsWay(d)'
    <3>1. phase[d] # "exited" BY <1>1 DEF Running
    <3>2. saving'[d]["run"] # "lock" => saving[d]["run"] # "lock"
      BY <1>run, <2>1, <2>2
    <3>3. final[d] /\ saving[d]["run"] # "lock" => file.version >= cancelled[d]
      BY <1>2, <2>1 DEF StopIsOnItsWay
    <3> QED BY <1>1, <1>2, <2>1, <2>2, <2>3, <3>1, <3>2, <3>3 DEF
               StopIsOnItsWay, Keeping
  <2> QED BY <2>4, <2>5, <2>6 DEF SavedIn
<1>9. CASE SaveFails(d, s)
  <2>1. /\ saving[d][s] \notin {"lock", "list", "idle"} /\ Moves(d, s, "idle")
        /\ UNCHANGED <<listed, unread, file, durable>> /\ failed'[d]
    BY <1>9, StepMoves DEF SaveFails, disk, TypeOK
  <2>2. \A t \in Savers : t # s => /\ saving'[d][t] = saving[d][t]
                                   /\ saving'[d][t] \in {"idle", "lock"}
    BY <1>3, <2>1 DEF HoldsSaveMu, Moves
  <2>3. saving'[d][s] = "idle" BY <2>1 DEF Moves
  <2>4. RegistryIsAhead(d)'
    BY <1>1, <1>2, <2>1, <2>2, <2>3 DEF RegistryIsAhead, Keeping
  <2>5. LastIsOnItsWay(d)'
    <3>1. ToBeListed(d) => ToBeListed(d)' BY <1>1, <2>1, <2>2 DEF ToBeListed
    <3> QED BY <1>1, <1>2, <2>1, <2>2, <2>3, <3>1 DEF LastIsOnItsWay, Keeping
  <2>6. StopIsOnItsWay(d)'
    <3>1. phase[d] # "exited" BY <1>1 DEF Running
    <3> QED BY <1>1, <1>2, <2>1, <2>2, <2>3, <3>1 DEF StopIsOnItsWay, Keeping
  <2> QED BY <2>4, <2>5, <2>6 DEF SavedIn
<1> QED BY <1>4, <1>5, <1>6, <1>7, <1>8, <1>9 DEF SaverStep

(* A loss of power ends every process and may take the file back to what   *)
(* was durable, and no further.                                            *)
LEMMA PowerLossSaved ==
    ASSUME SavesInv, PowerLoss, TypeOK'
    PROVE  /\ DiskInOrder' /\ (unread \/ durable'.version >= durable.version)
           /\ \A d \in Daemons : SavedIn(d)'
<1> USE Versions DEF SavesInv
<1>1. /\ durable' = file' /\ changes' = changes /\ unread' = unread
      /\ file'.version \in {file.version, durable.version}
  BY DEF PowerLoss, Forget, inputs, history
<1>2. DiskInOrder' /\ (unread \/ durable'.version >= durable.version)
  BY <1>1 DEF DiskInOrder
<1>3. ASSUME NEW d \in Daemons PROVE SavedIn(d)'
  <2>1. Forget({e \in Daemons : phase[e] # "exited"}, "down") BY DEF PowerLoss
  <2>2. CASE phase[d] # "exited"
    <3>1. phase'[d] = "down" /\ mem'[d] = 0 /\ ~final'[d] BY <2>1, <2>2, Gone
    <3>2. ~Running(d)' BY <3>1 DEF Running
    <3>3. 0 <= changes' BY DEF TypeOK
    <3> QED BY <3>1, <3>2, <3>3
            DEF SavedIn, RegistryIsAhead, LastIsOnItsWay, StopIsOnItsWay
  <2>3. CASE phase[d] = "exited"
    <3>1. UNCHANGED <<failed, cancelled, unread>> BY <2>1 DEF Forget, history
    <3>2. SameIn(d) BY <2>1, <2>3, <3>1, Gone DEF SameIn
    <3> QED BY <1>1, <1>2, <2>3, <3>2, OthersKeep DEF Running
  <2> QED BY <2>2, <2>3
<1> QED BY <1>2, <1>3

(* What one daemon does to the disk while no other runs.                   *)
LEMMA DiskStep ==
    ASSUME SavesInv, TypeOK', NEW d \in Daemons,
           DaemonStep(d) \/ \E s \in Savers : SaverStep(d, s)
    PROVE  /\ changes' >= changes /\ DiskInOrder' /\ (unread \/ durable'.version >= durable.version)
           /\ (UNCHANGED <<file, durable>> /\ (unread => unread')) \/ Running(d)
<1> USE Versions DEF SavesInv
<1>1. CASE DaemonStep(d)
  <2>1. UNCHANGED <<file, durable>> /\ (unread => unread')
    BY <1>1 DEF DaemonStep, AcquireStateLock, Load, Change, requestSave,
       TakeRequest,
                ChangeAndSave, Cancel, FinalSave, Exit, Kill, Forget, history,
                disk
  <2>2. changes' >= changes
    BY <1>1 DEF DaemonStep, AcquireStateLock, Load, Change, requestSave,
       TakeRequest,
                ChangeAndSave, Cancel, FinalSave, Exit, Kill, Forget, inputs
  <2>3. changes' \in Int /\ unread' \in BOOLEAN BY DEF TypeOK
  <2> QED BY <2>1, <2>2, <2>3 DEF DiskInOrder
<1>2. ASSUME NEW s \in Savers, SaverStep(d, s)
      PROVE  /\ changes' = changes /\ DiskInOrder' /\ (unread \/ durable'.version >= durable.version)
             /\ Running(d)
  <2>1. changes' = changes /\ Running(d)
    BY <1>2 DEF SaverStep, LockSave, List, WriteTemp, SyncTemp, Rename,
       SyncDir, SaveFails,
                Step, inputs
  <2>2. CASE Rename(d, s)
    <3>1. durable' = durable /\ file' = listed[d][s] /\ saving[d][s] = "rename"
      BY <2>2 DEF Rename, Step
    <3>2. /\ unread \/ file.version <= listed[d][s].version
          /\ listed[d][s].version <= changes /\ unread' = unread
      BY <2>1, <2>2, <3>1 DEF SavedIn, RegistryIsAhead, Keeping, Rename, history
    <3> QED BY <2>1, <3>1, <3>2 DEF DiskInOrder
  <2>3. CASE SyncDir(d, s)
    BY <2>1, <2>3 DEF SyncDir, DiskInOrder
  <2>4. CASE ~Rename(d, s) /\ ~SyncDir(d, s)
    <3>1. UNCHANGED <<file, durable, unread>>
      BY <1>2, <2>4 DEF SaverStep, LockSave, List, WriteTemp, SyncTemp,
         SaveFails, disk, history
    <3> QED BY <2>1, <3>1 DEF DiskInOrder
  <2> QED BY <2>1, <2>2, <2>3, <2>4
<1> QED BY <1>1, <1>2

(* Every step preserves the invariant while one daemon runs at most, and   *)
(* what is durable only gets newer, unless a daemon began without the file.*)
LEMMA SavesStep ==
    ASSUME SavesInv, OneDaemon, [Next]_vars
    PROVE  SavesInv' /\ (unread \/ durable'.version >= durable.version)
<1>1. TypeOK' /\ Safe' /\ IdleUnlessRunning' /\ OneSaver'
  BY TypeStep, SafeStep, IdleStep, OneSaverStep DEF SavesInv
<1>2. ASSUME NEW d \in Daemons, DaemonStep(d) \/ \E s \in Savers : SaverStep(d, s)
      PROVE  /\ DiskInOrder' /\ (unread \/ durable'.version >= durable.version)
             /\ \A e \in Daemons : SavedIn(e)'
  <2>1. /\ changes' >= changes /\ DiskInOrder' /\ (unread \/ durable'.version >= durable.version)
        /\ (UNCHANGED <<file, durable>> /\ (unread => unread')) \/ Running(d)
    BY <1>1, <1>2, DiskStep
  <2>2. SavedIn(d)'
    BY <1>2, LoadSaved, RequestSaved, StopSaved, SaverSaved DEF DaemonStep
  <2>3. ASSUME NEW e \in Daemons, e # d PROVE SavedIn(e)'
    <3>1. SameIn(e) BY <1>2, <2>3, OthersSame DEF SavesInv
    <3>2. Running(d) => ~Running(e) BY <2>3 DEF OneDaemon
    <3> QED BY <1>1, <2>1, <3>1, <3>2, OthersKeep
  <2> QED BY <2>1, <2>2, <2>3
<1>3. CASE PowerLoss BY <1>1, <1>3, PowerLossSaved DEF SavesInv
<1>4. CASE UNCHANGED vars
  <2>1. \A d \in Daemons : SameIn(d) BY <1>4 DEF vars, SameIn
  <2>2. UNCHANGED <<file, durable, changes, unread>> BY <1>4 DEF vars
  <2>3. changes' >= changes /\ (unread \/ durable'.version >= durable.version)
    BY <2>2, Versions DEF SavesInv
  <2>4. \A d \in Daemons : SavedIn(d)' BY <1>1, <2>1, <2>2, <2>3, OthersKeep
  <2> QED BY <1>1, <2>2, <2>3, <2>4 DEF SavesInv, DiskInOrder
<1> QED BY <1>1, <1>2, <1>3, <1>4 DEF Next, SavesInv

(* It holds when nothing has started.                                      *)
LEMMA SavesInit == Init => SavesInv
<1> SUFFICES ASSUME Init PROVE SavesInv OBVIOUS
<1>1. TypeOK BY TypeInit
<1>2. /\ \A d \in Daemons : /\ phase[d] = "down" /\ mem[d] = 0 /\ ~owed[d]
                            /\ saveQueue[d] = 0 /\ ~final[d] /\ ~Running(d)
                            /\ \A s \in Savers : saving[d][s] = "idle"
      /\ file.version = 0 /\ durable.version = 0 /\ changes = 0 /\ ~unread
  BY DEF Init, Running, Empty
<1>3. Safe BY DEF Init, Safe, Empty
<1>4. IdleUnlessRunning /\ OneSaver /\ DiskInOrder
  BY <1>2 DEF IdleUnlessRunning, OneSaver, HoldsSaveMu, DiskInOrder
<1>5. ASSUME NEW d \in Daemons PROVE SavedIn(d)
  <2>1. RegistryIsAhead(d) BY <1>2 DEF RegistryIsAhead
  <2>2. LastIsOnItsWay(d) BY <1>2 DEF LastIsOnItsWay
  <2>3. StopIsOnItsWay(d) BY <1>2 DEF StopIsOnItsWay
  <2> QED BY <2>1, <2>2, <2>3 DEF SavedIn
<1> QED BY <1>1, <1>3, <1>4, <1>5 DEF SavesInv

(* The invariant, as a temporal fact.                                      *)
LEMMA SavesInvariant == Spec /\ []OneDaemon => []SavesInv
<1>1. SavesInv /\ OneDaemon /\ [Next]_vars => SavesInv' BY SavesStep
<1> QED BY SavesInit, <1>1, PTL DEF Spec

(* Coalescing save requests into one token forgets no change, with any     *)
(* interleaving of changes, saves, failures and restarts; a start that     *)
(* could not read the file is made good by the first save that succeeds    *)
(* (QuietIsSaved; requestSave, stateManager.run).                          *)
THEOREM PersistenceQuietIsSaved == Spec /\ []OneDaemon => []QuietIsSaved
<1>1. SavesInv => QuietIsSaved
  BY DEF SavesInv, SavedIn, LastIsOnItsWay, ToBeListed, QuietIsSaved, Quiet,
     Running
<1> QED BY SavesInvariant, <1>1, PTL

(* A graceful stop leaves every change made before it on the disk, unless  *)
(* the save failed, and later restarts and losses of power do not undo it, *)
(* unless a restart cannot read the file (StopSaves; stateManager.run on   *)
(* ctx.Done).                                                              *)
THEOREM PersistenceStopSaves == Spec /\ []OneDaemon => []StopSaves
<1>1. SavesInv => StopSaves
  <2> SUFFICES ASSUME SavesInv, NEW d \in Daemons, phase[d] = "exited", ~failed[d]
               PROVE  file.version >= cancelled[d]
    BY DEF StopSaves
  <2>1. durable.version >= cancelled[d] /\ (unread => cancelled[d] = 0)
    BY DEF SavesInv, SavedIn, StopIsOnItsWay
  <2>2. 0 <= file.version BY DEF SavesInv, TypeOK, Contents
  <2> QED BY <2>1, <2>2, Versions DEF SavesInv, DiskInOrder
<1> QED BY SavesInvariant, <1>1, PTL

(* What is safe on the disk is never replaced by something older, but by   *)
(* the first save after a start that could not read it (NeverBackwards;    *)
(* saveMu covers the listing and the rename).                              *)
THEOREM PersistenceNeverBackwards == Spec /\ []OneDaemon => NeverBackwards
<1>1. SavesInv /\ OneDaemon /\ [Next]_vars => [unread \/ durable'.version >= durable.version]_vars
  BY SavesStep
<1> QED BY SavesInvariant, <1>1, PTL DEF Spec, NeverBackwards

(* On a directory that one daemon alone uses, started, stopped, killed and *)
(* started again any number of times, the hypothesis holds by itself       *)
(* (QuietIsSaved, StopSaves, NeverBackwards; stateManager).                *)
THEOREM PersistenceAlone ==
    ASSUME NEW d, Daemons = {d}
    PROVE  Spec => [](QuietIsSaved /\ StopSaves) /\ NeverBackwards
<1>1. OneDaemon BY DEF OneDaemon
<1>2. []OneDaemon BY <1>1, PTL
<1> QED
  BY <1>2, PersistenceQuietIsSaved, PersistenceStopSaves,
     PersistenceNeverBackwards, PTL

-----------------------------------------------------------------------------
(* The broadcast.                                                          *)

ControllerTypes ==
    /\ owners \subseteq Owners
    /\ running \in BOOLEAN
    /\ current \in {"none", "starting", "broadcasting", "failed", "gone"}
    /\ ending \in 0..MaxEnding
    /\ orphaned \in BOOLEAN

Flags == RunningIsLive /\ OwnersAreServed

(* StartOwned keeps the controller's types and its two promises.           *)
LEMMA StartKeeps ==
    ASSUME NEW owner \in Owners, ControllerTypes, Flags, StartOwned(owner)
    PROVE  ControllerTypes' /\ Flags'
<1>1. CASE running
  BY <1>1 DEF StartOwned, ControllerTypes, Flags, RunningIsLive,
              OwnersAreServed, Owners
<1>2. CASE ~running
  <2>1. ending' \in 0..MaxEnding
    BY <1>2, BroadcastAssumption
       DEF StartOwned, ControllerTypes, Overwrite, OneMoreEnding
  <2>2. orphaned' \in BOOLEAN
    BY <1>2, Zenon DEF StartOwned, ControllerTypes, Overwrite
  <2>3. owners' \subseteq Owners /\ running' = TRUE /\ current' = "starting"
    BY <1>2 DEF StartOwned, ControllerTypes, Owners
  <2> QED
    BY <2>1, <2>2, <2>3 DEF ControllerTypes, Flags, RunningIsLive,
                            OwnersAreServed
<1> QED
  BY <1>1, <1>2 DEF ControllerTypes

(* StopOwned cancels the loop only when it leaves no owner.                *)
LEMMA StopKeeps ==
    ASSUME NEW owner \in Owners, ControllerTypes, Flags, StopOwned(owner)
    PROVE  ControllerTypes' /\ Flags'
<1>1. owners' \subseteq Owners
  BY DEF StopOwned, ControllerTypes
<1>2. CASE owner \notin owners \/ owners' # {} \/ ~running \/ current = "none"
  <2>1. UNCHANGED <<running, current, ending, orphaned>>
    BY <1>2 DEF StopOwned
  <2>2. owners' \subseteq owners
    BY DEF StopOwned
  <2> QED
    BY <1>1, <2>1, <2>2 DEF ControllerTypes, Flags, RunningIsLive,
                            OwnersAreServed
<1>3. CASE ~(owner \notin owners \/ owners' # {} \/ ~running \/ current = "none")
  <2>1. /\ current' = "none" /\ running' = FALSE /\ owners' = {}
        /\ ending' = OneMoreEnding /\ orphaned' = orphaned
    BY <1>3 DEF StopOwned
  <2>2. ending' \in 0..MaxEnding
    BY <2>1, BroadcastAssumption DEF ControllerTypes, OneMoreEnding
  <2> QED
    BY <1>1, <2>1, <2>2 DEF ControllerTypes, Flags, RunningIsLive,
                            OwnersAreServed
<1> QED
  BY <1>2, <1>3

BroadcastInv == BroadcastTypeOK /\ Flags

LEMMA PlacesTypes ==
    /\ <<"idle">> \in Places /\ <<"look">> \in Places /\ <<"start">> \in Places
    /\ \A d \in Devices : <<"conn", d>> \in Places /\ <<"seen", d>> \in Places
BY DEF Places

LEMMA BroadcastStarts == BroadcastInit => BroadcastInv
<1> SUFFICES ASSUME BroadcastInit PROVE BroadcastInv
  OBVIOUS
<1>1. ending \in 0..MaxEnding /\ unsent \in 0..QueueCap /\ events \in 0..QueueCap
  <2>1. ending = 0 /\ unsent = 0 /\ events = 0
    BY Zenon DEF BroadcastInit
  <2> QED
    BY <2>1, BroadcastAssumption
<1>2. at \in [Syncers -> Places]
  BY PlacesTypes DEF BroadcastInit
<1>3. /\ todo \in [Syncers -> SUBSET Devices]
      /\ online \in [Devices -> BOOLEAN]
      /\ wanted \in [Syncers -> BOOLEAN]
      /\ expires \in [Syncers -> BOOLEAN]
  BY DEF BroadcastInit
<1>4. Flags
  BY DEF BroadcastInit, Flags, RunningIsLive, OwnersAreServed
<1> QED
  BY <1>1, <1>2, <1>3, <1>4 DEF BroadcastInit, BroadcastInv, BroadcastTypeOK

LEMMA OwnersTypes == "pairing" \in Owners /\ "reconnect" \in Owners
BY DEF Owners

LEMMA SyncerTypes == "watcher" \in Syncers /\ "sighting" \in Syncers
BY DEF Syncers

(* What the rest of the daemon does leaves the controller alone.           *)
RestTypes ==
    /\ paired \in [Devices -> BOOLEAN]
    /\ online \in [Devices -> BOOLEAN]
    /\ heard \in [Devices -> {"never", "recently", "long ago"}]
    /\ unsent \in 0..QueueCap
    /\ events \in 0..QueueCap
    /\ timer \in BOOLEAN
    /\ at \in [Syncers -> Places]
    /\ todo \in [Syncers -> SUBSET Devices]
    /\ wanted \in [Syncers -> BOOLEAN]
    /\ expires \in [Syncers -> BOOLEAN]

LEMMA TypesSplit == BroadcastTypeOK <=> ControllerTypes /\ RestTypes
BY DEF BroadcastTypeOK, ControllerTypes, RestTypes

(* The controller's part of the invariant.                                 *)
LEMMA ControllerStep ==
    ASSUME BroadcastInv, [BroadcastNext]_broadcastVars
    PROVE  ControllerTypes' /\ Flags'
<1> USE TypesSplit DEF BroadcastInv
<1>0. CASE UNCHANGED controller
  BY <1>0 DEF controller, ControllerTypes, Flags, RunningIsLive,
              OwnersAreServed
<1>1. CASE Listen
  BY <1>1 DEF Listen, ControllerTypes, Flags, RunningIsLive, OwnersAreServed
<1>2. CASE ReportFailed
  BY <1>2 DEF ReportFailed, ControllerTypes, Flags, RunningIsLive,
              OwnersAreServed
<1>3. CASE ReportEnded
  <2>1. ending' \in 0..MaxEnding
    BY <1>3, BroadcastAssumption DEF ReportEnded, ControllerTypes
  <2> QED
    BY <1>3, <2>1 DEF ReportEnded, ControllerTypes, Flags, RunningIsLive,
                      OwnersAreServed
<1>4. CASE BroadcastStart
  BY <1>4, StartKeeps, OwnersTypes DEF BroadcastStart
<1>5. CASE BroadcastStop
  BY <1>5, StopKeeps, OwnersTypes DEF BroadcastStop
<1>6. ASSUME NEW s \in Syncers, Want(s) PROVE ControllerTypes' /\ Flags'
  BY <1>6, StartKeeps, OwnersTypes DEF Want
<1>7. ASSUME NEW s \in Syncers, Withdraw(s) PROVE ControllerTypes' /\ Flags'
  <2>1. CASE wanted[s]
    BY <1>7, <1>0, <2>1 DEF Withdraw
  <2>2. CASE ~wanted[s]
    BY <1>7, <2>2, StopKeeps, OwnersTypes DEF Withdraw
  <2> QED
    BY <2>1, <2>2
<1>8. ASSUME NEW s \in Syncers, SyncStep(s) PROVE ControllerTypes' /\ Flags'
  <2>1. ASSUME NEW d \in Devices,
               Look(s, d) \/ LookConnected(s, d) \/ LookSeen(s, d)
        PROVE  UNCHANGED controller
    BY <2>1 DEF Look, LookConnected, LookSeen
  <2> QED
    BY <1>0, <1>6, <1>7, <1>8, <2>1 DEF SyncStep
<1>9. ASSUME NEW d \in Devices,
             \/ Connect(d) \/ Lose(d) \/ ChangeTrust(d) \/ Silence(d)
             \/ Sight(d)
      PROVE  UNCHANGED controller
  BY <1>9 DEF Connect, Lose, ChangeTrust, Silence, Sight, Begin
<1>10. CASE Publish \/ Wake \/ Expire
  BY <1>0, <1>10 DEF Publish, Wake, Expire, Begin
<1>11. CASE UNCHANGED broadcastVars
  BY <1>0, <1>11 DEF broadcastVars, controller
<1> QED
  BY <1>0, <1>1, <1>2, <1>3, <1>4, <1>5, <1>8, <1>9, <1>10, <1>11, SyncerTypes
     DEF BroadcastNext, LoopStep, WatcherStep

(* The rest of the types.                                                  *)
LEMMA RestStep ==
    ASSUME BroadcastInv, [BroadcastNext]_broadcastVars
    PROVE  RestTypes'
<1> USE TypesSplit DEF BroadcastInv
<1> DEFINE DeviceVars == <<devices, bus, timer, at, locals>>
<1>0. CASE UNCHANGED DeviceVars
  BY <1>0 DEF devices, bus, locals, RestTypes
<1>1. CASE LoopStep \/ BroadcastStart \/ BroadcastStop
  BY <1>0, <1>1 DEF LoopStep, Listen, ReportFailed, ReportEnded,
                    BroadcastStart, BroadcastStop
<1>2. ASSUME NEW d \in Devices, Connect(d) PROVE RestTypes'
  <2>1. unsent \in 0..QueueCap /\ unsent < QueueCap /\ unsent' = unsent + 1
    BY <1>2, Zenon DEF Connect, RestTypes
  <2>2. unsent' \in 0..QueueCap
    BY <2>1, BroadcastAssumption
  <2>3. /\ online' \in [Devices -> BOOLEAN]
        /\ heard' \in [Devices -> {"never", "recently", "long ago"}]
    BY <1>2 DEF Connect, RestTypes
  <2> QED
    BY <1>2, <2>2, <2>3, Zenon DEF Connect, RestTypes, locals
<1>3. ASSUME NEW d \in Devices, Lose(d) PROVE RestTypes'
  <2>1. unsent \in 0..QueueCap /\ unsent < QueueCap /\ unsent' = unsent + 1
    BY <1>3, Zenon DEF Lose, RestTypes
  <2>2. unsent' \in 0..QueueCap
    BY <2>1, BroadcastAssumption
  <2>3. /\ online' \in [Devices -> BOOLEAN]
        /\ heard' \in [Devices -> {"never", "recently", "long ago"}]
    BY <1>3 DEF Lose, RestTypes
  <2> QED
    BY <1>3, <2>2, <2>3, Zenon DEF Lose, RestTypes, locals
<1>4. ASSUME NEW d \in Devices, ChangeTrust(d) PROVE RestTypes'
  <2>1. paired' \in [Devices -> BOOLEAN]
    BY <1>4, Zenon DEF ChangeTrust, RestTypes
  <2> QED
    BY <1>4, <2>1, Zenon DEF ChangeTrust, RestTypes, locals, bus
<1>5. ASSUME NEW d \in Devices, Silence(d) PROVE RestTypes'
  <2>1. heard' \in [Devices -> {"never", "recently", "long ago"}]
    BY <1>5 DEF Silence, RestTypes
  <2> QED
    BY <1>5, <2>1, Zenon DEF Silence, RestTypes, locals, bus
<1>6. CASE Publish
  <2>1. /\ unsent \in 0..QueueCap /\ unsent > 0 /\ unsent' = unsent - 1
        /\ events \in 0..QueueCap
        /\ events' = IF events < QueueCap THEN events + 1 ELSE events
    BY <1>6, Zenon DEF Publish, RestTypes
  <2>2. unsent' \in 0..QueueCap /\ events' \in 0..QueueCap
    BY <2>1, BroadcastAssumption
  <2> QED
    BY <1>6, <2>2, Zenon DEF Publish, RestTypes, locals, devices
<1>7. ASSUME NEW s \in Syncers, Begin(s)
      PROVE  /\ at' \in [Syncers -> Places]
             /\ todo' \in [Syncers -> SUBSET Devices]
             /\ UNCHANGED <<paired, online, unsent, wanted, expires>>
  BY <1>7, PlacesTypes, Zenon DEF Begin, RestTypes
<1>8. CASE Wake
  <2>1. events' \in 0..QueueCap
    <3>1. events \in 0..QueueCap /\ events > 0 /\ events' = events - 1
      BY <1>8 DEF Wake, RestTypes
    <3> QED
      BY <3>1, BroadcastAssumption
  <2> QED
    BY <1>7, <1>8, <2>1, SyncerTypes DEF Wake, RestTypes
<1>9. CASE Expire
  BY <1>7, <1>9, SyncerTypes DEF Expire, RestTypes
<1>10. ASSUME NEW d \in Devices, Sight(d) PROVE RestTypes'
  BY <1>7, <1>10, SyncerTypes DEF Sight, RestTypes
<1>11. ASSUME NEW s \in Syncers, NEW d \in Devices, Look(s, d)
       PROVE  RestTypes'
  <2>1. at' \in [Syncers -> Places]
    BY <1>11, PlacesTypes, Zenon DEF Look, Goto, RestTypes
  <2>2. todo' \in [Syncers -> SUBSET Devices]
    BY <1>11 DEF Look, RestTypes
  <2> QED
    BY <1>11, <2>1, <2>2, Zenon DEF Look, RestTypes, devices, bus
<1>12. ASSUME NEW s \in Syncers, NEW d \in Devices, LookConnected(s, d)
       PROVE  RestTypes'
  <2>1. at' \in [Syncers -> Places]
    BY <1>12, PlacesTypes, Zenon DEF LookConnected, Goto, RestTypes
  <2>2. todo' \in [Syncers -> SUBSET Devices]
    BY <1>12 DEF LookConnected, RestTypes
  <2> QED
    BY <1>12, <2>1, <2>2, Zenon DEF LookConnected, RestTypes, devices, bus
<1>13. ASSUME NEW s \in Syncers, NEW d \in Devices, LookSeen(s, d)
       PROVE  RestTypes'
  BY <1>13 DEF LookSeen, Goto, RestTypes, Places, devices, bus
<1>14. ASSUME NEW s \in Syncers, Want(s) PROVE RestTypes'
  BY <1>14 DEF Want, Goto, RestTypes, Places, devices, bus, locals
<1>15. ASSUME NEW s \in Syncers, Withdraw(s) PROVE RestTypes'
  BY <1>15 DEF Withdraw, Finish, Goto, RestTypes, Places, devices, bus
<1>16. ASSUME NEW s \in Syncers, SyncStep(s) PROVE RestTypes'
  BY <1>11, <1>12, <1>13, <1>14, <1>15, <1>16 DEF SyncStep
<1>17. CASE UNCHANGED broadcastVars
  BY <1>0, <1>17 DEF broadcastVars, devices, bus, locals
<1> QED
  BY <1>1, <1>2, <1>3, <1>4, <1>5, <1>6, <1>8, <1>9, <1>10, <1>16, <1>17,
     SyncerTypes
     DEF BroadcastNext, WatcherStep

LEMMA BroadcastInvariant == BroadcastSpec => []BroadcastInv
<1>1. BroadcastInv /\ [BroadcastNext]_broadcastVars => BroadcastInv'
  BY ControllerStep, RestStep, TypesSplit DEF BroadcastInv, BroadcastTypeOK, ControllerTypes,
     RestTypes
<1> QED
  BY BroadcastStarts, <1>1, PTL DEF BroadcastSpec

(* Every variable keeps its type.                                          *)
THEOREM BroadcastTypes == BroadcastSpec => []BroadcastTypeOK
<1>1. BroadcastInv => BroadcastTypeOK
  BY DEF BroadcastInv
<1> QED
  BY BroadcastInvariant, <1>1, PTL

(* Whatever owners come and go and however late earlier loops report their *)
(* end, the loop an owner relies on is not cancelled (StartOwned,          *)
(* StopOwned).                                                             *)
THEOREM OwnersAlwaysServed == BroadcastSpec => []OwnersAreServed
<1>1. BroadcastInv => OwnersAreServed
  BY DEF BroadcastInv, Flags
<1> QED
  BY BroadcastInvariant, <1>1, PTL

(* IsRunning is never true for a loop that is cancelled or has reported    *)
(* its failure.                                                            *)
THEOREM RunningAlwaysLive == BroadcastSpec => []RunningIsLive
<1>1. BroadcastInv => RunningIsLive
  BY DEF BroadcastInv, Flags
<1> QED
  BY BroadcastInvariant, <1>1, PTL
===============================================================================
