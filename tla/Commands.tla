------------------------------ MODULE Commands ------------------------------
(***************************************************************************)
(* The run command plugin (internal/plugins/runcommand).                   *)
(*                                                                         *)
(* The phone starts commands of the desktop and may stop them; each runs   *)
(* in goroutines of its own, which report its output in batches.  One      *)
(* device.  The other direction, asking the phone for its commands, is one *)
(* waiter per device; it shares only the mutex with the executions.        *)
(*                                                                         *)
(* Abstracted: the text of lines (their number counts), the two streams,   *)
(* the buffered channel between the scanners and the loop (a scanned line  *)
(* is in the stream at once), the notification at the end, the tables of   *)
(* commands (which one runs does not matter).                              *)
(***************************************************************************)
EXTENDS Naturals

CONSTANTS
    Execs,          \* executions
    StreamMaxLines, \* streamMaxLines
    MaxLeavers,     \* bound: sessions that ended and whose OnDisconnect has not run
    Askers          \* goroutines of the IPC command that lists the phone's commands

ASSUME CommandsAssumption == StreamMaxLines \in Nat \ {0} /\ MaxLeavers \in Nat

VARIABLES
    phoneHere,  \* the session
    leavers,    \* sessions that have ended and whose OnDisconnect is to come
    execAt,     \* per execution: where its goroutine is
    running,    \* executions with a cancel function in the map
    cancelling, \* executions whose cancel function somebody is about to call
    ended,      \* executions whose context is done
    process,    \* per execution: its process, or an orphan that holds the pipes
    pipes,      \* executions whose read ends are open
    total,      \* lines taken
    unsent,     \* executions with lines that wait for a flush
    overLimit,  \* executions that lost a line to the limit
    truncated,  \* executions whose truncation the phone was told of
    listWaiter, \* whose channel is in pendingLists
    listReply,  \* a list is in that channel
    asker       \* per goroutine: where it is

streams     == <<total, unsent, overLimit, truncated>>
stops       == <<running, cancelling>>
executions  == <<execAt, stops, ended, process, pipes, streams>>
lists       == <<listWaiter, listReply, asker>>
presence    == <<phoneHere, leavers>>
commandVars == <<presence, executions, lists>>

NoAsker == "none"

CommandsInit ==
    /\ phoneHere = TRUE /\ leavers = 0
    /\ execAt = [e \in Execs |-> "none"]
    /\ running = {} /\ cancelling = {} /\ ended = {}
    /\ process = [e \in Execs |-> "none"] /\ pipes = {}
    /\ total = [e \in Execs |-> 0]
    /\ unsent = {} /\ overLimit = {} /\ truncated = {}
    /\ listWaiter = NoAsker /\ listReply = FALSE
    /\ asker = [a \in Askers |-> "idle"]

ExecTo(e, place) == execAt' = [execAt EXCEPT ![e] = place]

-----------------------------------------------------------------------------
(* One execution.                                                          *)

(* Handle takes an id and starts the goroutine.                            *)
Launch(e) ==
    /\ phoneHere /\ execAt[e] = "none"
    /\ ExecTo(e, "launched")
    /\ UNCHANGED <<presence, stops, ended, process, pipes, streams, lists>>

Register(e) ==
    /\ execAt[e] = "launched"
    /\ ExecTo(e, "registered")
    /\ running' = running \union {e}
    /\ UNCHANGED <<presence, cancelling, ended, process, pipes, streams, lists>>

(* The process starts unless the context is done already.                  *)
StartProcess(e) ==
    /\ execAt[e] = "registered"
    /\ \/ /\ e \notin ended
          /\ ExecTo(e, "streaming")
          /\ process' = [process EXCEPT ![e] = "alive"]
          /\ pipes' = pipes \union {e}
       \/ /\ ExecTo(e, "finish")
          /\ UNCHANGED <<process, pipes>>
    /\ UNCHANGED <<presence, stops, ended, streams, lists>>

(* add: a line over the limit is dropped and remembered.                   *)
AddLine(e) ==
    /\ execAt[e] = "streaming" /\ e \in pipes /\ process[e] # "gone"
    /\ IF total[e] >= StreamMaxLines
       THEN /\ overLimit' = overLimit \union {e}
            /\ UNCHANGED <<total, unsent>>
       ELSE /\ total' = [total EXCEPT ![e] = @ + 1]
            /\ unsent' = unsent \union {e}
            /\ UNCHANGED overLimit
    /\ UNCHANGED <<presence, execAt, stops, ended, process, pipes,
                   truncated, lists>>

(* flush: nothing happens when no line waits.                              *)
Flush(e) ==
    /\ e \in unsent
    /\ unsent' = unsent \ {e}
    /\ truncated' = IF e \in overLimit THEN truncated \union {e} ELSE truncated
    /\ UNCHANGED <<total, overLimit>>

FlushOutput(e) ==
    /\ execAt[e] = "streaming" /\ Flush(e)
    /\ UNCHANGED <<presence, execAt, stops, ended, process, pipes, lists>>

(* The process ends, is killed by its context, or leaves a child behind.   *)
ProcessEnds(e) ==
    /\ process[e] = "alive"
    /\ \E left \in {"gone", "orphan"} : process' = [process EXCEPT ![e] = left]
    /\ UNCHANGED <<presence, execAt, stops, ended, pipes, streams, lists>>

ClosePipes_NotOnStop(e) ==
    /\ e \in ended /\ e \in pipes /\ process[e] = "gone"
    /\ pipes' = pipes \ {e}
    /\ UNCHANGED <<presence, execAt, stops, ended, process, streams, lists>>

(* The goroutine that closes the read ends when the context ends.          *)
ClosePipes(e) ==
    /\ e \in ended /\ e \in pipes
    /\ pipes' = pipes \ {e}
    /\ UNCHANGED <<presence, execAt, stops, ended, process, streams, lists>>

(* Both pipes are at their end: the rest is flushed and the process reaped.*)
StreamEnds(e) ==
    /\ execAt[e] = "streaming"
    /\ e \in pipes => process[e] = "gone"
    /\ e \notin unsent
    /\ process[e] # "alive"
    /\ ExecTo(e, "finish")
    /\ UNCHANGED <<presence, stops, ended, process, pipes, streams, lists>>

FinishOutput(e) ==
    /\ execAt[e] = "finish"
    /\ ExecTo(e, "over")
    /\ running' = running \ {e}
    /\ UNCHANGED <<presence, cancelling, ended, process, pipes, streams, lists>>

(* The time limit of the context.                                          *)
TimeOut(e) ==
    /\ execAt[e] \in {"launched", "registered", "streaming"}
    /\ e \notin ended
    /\ ended' = ended \union {e}
    /\ UNCHANGED <<presence, execAt, stops, process, pipes, streams, lists>>

-----------------------------------------------------------------------------
(* The phone stops executions.  Cancel functions are looked up under the   *)
(* lock and called after it.                                               *)

stopRunning(e) ==
    /\ phoneHere /\ e \in running
    /\ cancelling' = cancelling \union {e}
    /\ UNCHANGED <<presence, execAt, running, ended, process, pipes, streams, lists>>

stopAll_Forgets ==
    /\ running' = {}
    /\ UNCHANGED <<execAt, cancelling, ended, process, pipes, streams, lists>>

stopAll ==
    /\ running' = {}
    /\ cancelling' = cancelling \union running
    /\ UNCHANGED <<execAt, ended, process, pipes, streams, lists>>

StopEverything == phoneHere /\ stopAll /\ UNCHANGED presence

(* The goroutine that stops one or all calls the next cancel function;     *)
(* another call of the same function does nothing.                         *)
CallCancel(e) ==
    /\ e \in cancelling
    /\ cancelling' = cancelling \ {e}
    /\ ended' = ended \union {e}
    /\ UNCHANGED <<presence, execAt, running, process, pipes, streams, lists>>

(* The session ends; the plug-in is told of it after the lock of the       *)
(* device is released, possibly when the phone is back.                    *)
PhoneLeaves ==
    /\ phoneHere /\ leavers < MaxLeavers
    /\ phoneHere' = FALSE
    /\ leavers' = leavers + 1
    /\ UNCHANGED <<executions, lists>>

OnDisconnected ==
    /\ leavers > 0
    /\ leavers' = leavers - 1
    /\ stopAll
    /\ UNCHANGED phoneHere

(* OnConnect pushes the list of commands.                                  *)
PhoneReturns ==
    /\ ~phoneHere /\ phoneHere' = TRUE
    /\ UNCHANGED <<leavers, executions, lists>>

-----------------------------------------------------------------------------
(* The phone's own commands: RequestList.                                  *)

RequestList(a) ==
    /\ asker[a] = "idle"
    /\ IF listWaiter # NoAsker
       THEN UNCHANGED <<asker, listWaiter, listReply>>
       ELSE /\ listWaiter' = a /\ listReply' = FALSE
            /\ asker' = [asker EXCEPT ![a] = "waiting"]
    /\ UNCHANGED <<presence, executions>>

(* The waiter is removed after an answer, a time-out or a failed Send.     *)
ListReturns(a) ==
    /\ asker[a] = "waiting"
    /\ asker' = [asker EXCEPT ![a] = "idle"]
    /\ listWaiter' = NoAsker /\ listReply' = FALSE
    /\ UNCHANGED <<presence, executions>>

(* handleListReply: an answer nobody waits for, or a second one, is lost.  *)
DeliverCommandList ==
    /\ phoneHere /\ listWaiter # NoAsker /\ ~listReply
    /\ listReply' = TRUE
    /\ UNCHANGED <<presence, executions, listWaiter, asker>>

-----------------------------------------------------------------------------
(* What the goroutines of an execution do by themselves.                   *)
ExecStep(e) ==
    \/ Register(e) \/ StartProcess(e) \/ FlushOutput(e) \/ ClosePipes(e)
    \/ StreamEnds(e) \/ FinishOutput(e)

CommandsNext ==
    \/ \E e \in Execs :
        \/ Launch(e) \/ AddLine(e) \/ ExecStep(e)
        \/ ProcessEnds(e) \/ TimeOut(e) \/ stopRunning(e) \/ CallCancel(e)
    \/ StopEverything \/ PhoneLeaves \/ OnDisconnected \/ PhoneReturns

(* The lists share nothing with the executions.                            *)
ListsNext ==
    \/ \E a \in Askers : RequestList(a) \/ ListReturns(a)
    \/ DeliverCommandList

CommandsSpec == CommandsInit /\ [][CommandsNext \/ ListsNext]_commandVars

-----------------------------------------------------------------------------
(* Properties.                                                             *)

CommandsTypeOK ==
    /\ phoneHere \in BOOLEAN /\ leavers \in 0..MaxLeavers /\ listReply \in BOOLEAN
    /\ execAt \in [Execs -> {"none", "launched", "registered", "streaming",
                             "finish", "over"}]
    /\ running \subseteq Execs /\ cancelling \subseteq Execs /\ ended \subseteq Execs
    /\ process \in [Execs -> {"none", "alive", "orphan", "gone"}]
    /\ pipes \subseteq Execs /\ total \in [Execs -> 0..StreamMaxLines]
    /\ unsent \subseteq Execs /\ overLimit \subseteq Execs
    /\ truncated \subseteq Execs
    /\ listWaiter \in Askers \union {NoAsker}
    /\ asker \in [Askers -> {"idle", "waiting"}]

(* What the phone has been told of and runs without having been cancelled  *)
(* can be stopped: its cancel function is in the map, where the stop       *)
(* button and the end of a session find it, or in the hands of a goroutine *)
(* that has taken it out and is about to call it - also after sessions     *)
(* have ended while other executions were being registered, and when       *)
(* OnDisconnect of one session comes in the next.                          *)
LiveIsStoppable ==
    \A e \in Execs :
        execAt[e] \in {"registered", "streaming"} /\ e \notin ended
            => e \in running \union cancelling

(* Every execution reports its end, also when a child of the command keeps *)
(* the pipes open.                                                         *)
ExecutionsEnd ==
    \A e \in Execs : execAt[e] = "launched" ~> execAt[e] = "over"

=============================================================================
