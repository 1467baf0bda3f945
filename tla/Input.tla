------------------------------- MODULE Input -------------------------------
(***************************************************************************)
(* The phone as an input device: the touchpad (plugins/mousepad), the      *)
(* presenter's pointer (plugins/presenter) and the pen                     *)
(* (plugins/digitizer).  The first two are a handler and a worker that     *)
(* share a position under a lock and a wake channel of one place; the pen  *)
(* is a tablet device that lives as long as a drawing session.  The three  *)
(* share nothing, and each has its own next-state relation.                *)
(*                                                                         *)
(* Abstracted: one axis, moves to one side, in halves of a pixel (the      *)
(* phone sends fractions, the backends take whole pixels); keys and        *)
(* modifiers are one kind of event; pen events are one.                    *)
(***************************************************************************)
EXTENDS Integers, Sequences

CONSTANTS
    MaxInputs, \* how many packets the touchpad sends (bound)
    MoveSizes, \* the moves, in half pixels
    ScreenEnd, \* the presenter's position runs from 0 to ScreenEnd
    Tablets,   \* the tablet devices that may be created (bound)
    PenHands   \* goroutines of the pen at work at one time (bound)

ASSUME InputAssumption ==
    /\ MaxInputs \in Nat /\ MoveSizes \subseteq Nat /\ ScreenEnd \in Nat \ {0}
    /\ "none" \notin Tablets

VARIABLES
    inputs,      \* how many packets have been sent
    moveX,       \* MousepadPlugin.moveX, in half pixels
    padQueue,    \* MousepadPlugin.queue: events, each with the moves received before it
    queueWake,   \* MousepadPlugin.queueWake
    poking,      \* the handler has unlocked and not yet woken the worker
    workerAt,    \* where the worker is
    taken,       \* the event the worker has taken
    moveTimer,   \* the worker's timer: never made, armed, or spent
    justFlushed, \* the last flush is less than minMoveInterval ago
    stream,      \* the xdotool stream or the ydotool socket is open
    buttonHeld,  \* the left button is held down
    movesIn,     \* history: the half pixels received
    movesOut,    \* history: the half pixels handed to the backend
    early        \* history: an event has overtaken a move

padVars ==
    <<inputs, moveX, padQueue, queueWake, poking, workerAt, taken, moveTimer, justFlushed,
      stream, buttonHeld, movesIn, movesOut, early>>

NoEvent == [kind |-> "none", before |-> 0]
Whole(n) == 2 * (n \div 2)

PadInit ==
    /\ inputs = 0 /\ moveX = 0 /\ padQueue = <<>> /\ queueWake = FALSE /\ poking = FALSE
    /\ workerAt = "select" /\ taken = NoEvent /\ moveTimer = "none" /\ justFlushed = FALSE
    /\ stream = FALSE /\ buttonHeld = FALSE
    /\ movesIn = 0 /\ movesOut = 0 /\ early = FALSE

-----------------------------------------------------------------------------
(* The handler: a move is added up, anything else is queued.               *)

Sends == ~poking /\ inputs < MaxInputs /\ inputs' = inputs + 1 /\ poking' = TRUE

PadMove(n) ==
    /\ Sends
    /\ moveX' = moveX + n /\ movesIn' = movesIn + n
    /\ UNCHANGED <<padQueue, queueWake, workerAt, taken, moveTimer, justFlushed,
                   stream, buttonHeld, movesOut, early>>

PadEvent(kind) ==
    /\ Sends
    /\ padQueue' = Append(padQueue, [kind |-> kind, before |-> movesIn])
    /\ UNCHANGED <<moveX, queueWake, workerAt, taken, moveTimer, justFlushed,
                   stream, buttonHeld, movesIn, movesOut, early>>

PadWake_OnlyInSelect ==
    /\ poking
    /\ poking' = FALSE /\ queueWake' = (queueWake \/ workerAt = "select")
    /\ UNCHANGED <<inputs, moveX, padQueue, workerAt, taken, moveTimer, justFlushed,
                   stream, buttonHeld, movesIn, movesOut, early>>

PadWake ==
    /\ poking
    /\ poking' = FALSE /\ queueWake' = TRUE
    /\ UNCHANGED <<inputs, moveX, padQueue, workerAt, taken, moveTimer, justFlushed,
                   stream, buttonHeld, movesIn, movesOut, early>>

-----------------------------------------------------------------------------
(* The worker.                                                             *)

WorkerWakes ==
    /\ workerAt = "select" /\ queueWake
    /\ queueWake' = FALSE /\ workerAt' = "look"
    /\ UNCHANGED <<inputs, moveX, padQueue, poking, taken, moveTimer, justFlushed,
                   stream, buttonHeld, movesIn, movesOut, early>>

TimerFires ==
    /\ workerAt = "select" /\ moveTimer = "armed"
    /\ moveTimer' = "spent" /\ workerAt' = "flushTimed"
    /\ UNCHANGED <<inputs, moveX, padQueue, queueWake, poking, taken, justFlushed,
                   stream, buttonHeld, movesIn, movesOut, early>>

(* A timer that has been made is stopped and never made again.             *)
StopTimer == moveTimer' = IF moveTimer = "none" THEN "none" ELSE "spent"

AfterTaking_EventFirst == "event"

(* What comes before the event: the moves that are pending.                *)
AfterTaking == IF Whole(moveX) # 0 THEN "flushFirst" ELSE "event"

TakePadEvent ==
    /\ workerAt = "look" /\ padQueue # <<>>
    /\ taken' = Head(padQueue) /\ padQueue' = Tail(padQueue)
    /\ StopTimer
    /\ workerAt' = AfterTaking
    /\ UNCHANGED <<inputs, moveX, queueWake, poking, justFlushed,
                   stream, buttonHeld, movesIn, movesOut, early>>

(* No event: nothing to move, a move that is due, or one that must wait,   *)
(* for which a timer is armed if there has never been one.                 *)
LookAtMoves ==
    /\ workerAt = "look" /\ padQueue = <<>>
    /\ IF Whole(moveX) = 0 THEN workerAt' = "select" /\ UNCHANGED moveTimer
       ELSE IF justFlushed
       THEN workerAt' = "select" /\ moveTimer' = (IF moveTimer = "none"
                                                       THEN "armed" ELSE moveTimer)
       ELSE workerAt' = "flush" /\ StopTimer
    /\ UNCHANGED <<inputs, moveX, padQueue, queueWake, poking, taken, justFlushed,
                   stream, buttonHeld, movesIn, movesOut, early>>

(* The backend: uinput needs no stream; with xdotool or ydotool the stream *)
(* is opened on demand and dropped on an error, and a command takes over.  *)
UseBackend == stream' \in BOOLEAN

HandleMove(n) == movesOut' = movesOut + n

(* flushMove: what has been added up by now, the fraction stays.           *)
FlushMove ==
    /\ workerAt \in {"flushFirst", "flush", "flushTimed"}
    /\ moveX' = moveX - Whole(moveX) /\ HandleMove(Whole(moveX))
    /\ IF Whole(moveX) # 0 THEN justFlushed' = TRUE /\ UseBackend
       ELSE UNCHANGED <<justFlushed, stream>>
    /\ workerAt' = CASE workerAt = "flushFirst" -> "event"
                     [] workerAt = "flush" -> "look"
                     [] OTHER -> "select"
    /\ UNCHANGED <<inputs, padQueue, queueWake, poking, taken, moveTimer,
                   buttonHeld, movesIn, early>>

(* handleEvent, and handleMove for a scroll.  A button that is held stays  *)
(* so until its release arrives: no other code lets go of it.              *)
HandleEvent ==
    /\ workerAt = "event"
    /\ buttonHeld' = CASE taken.kind = "hold" -> TRUE
                 [] taken.kind = "release" -> FALSE
                 [] OTHER -> buttonHeld
    /\ UseBackend
    /\ early' = (early \/ taken.before > movesOut + 1)
    /\ taken' = NoEvent /\ workerAt' = "look"
    /\ UNCHANGED <<inputs, moveX, padQueue, queueWake, poking, moveTimer, justFlushed,
                   movesIn, movesOut>>

(* minMoveInterval passes.                                                 *)
IntervalPasses ==
    /\ justFlushed
    /\ justFlushed' = FALSE
    /\ UNCHANGED <<inputs, moveX, padQueue, queueWake, poking, workerAt, taken, moveTimer,
                   stream, buttonHeld, movesIn, movesOut, early>>

PadNext ==
    \/ \E n \in MoveSizes : PadMove(n)
    \/ \E k \in {"click", "hold", "release"} : PadEvent(k)
    \/ PadWake \/ WorkerWakes \/ TimerFires \/ TakePadEvent \/ LookAtMoves
    \/ FlushMove \/ HandleEvent \/ IntervalPasses

PadSpec == PadInit /\ [][PadNext]_padVars

-----------------------------------------------------------------------------
(* The presenter.                                                          *)

VARIABLES
    xPos,     \* PresenterPlugin.xPos
    moveCh,   \* PresenterPlugin.moveCh
    pointing, \* the handler has unlocked and not yet woken the worker
    moveTo,   \* the position the worker has read, -1 when it waits
    cursor,   \* where the cursor has last been put
    presented \* how many packets the presenter has sent

presenterVars == <<xPos, moveCh, pointing, moveTo, cursor, presented>>

PresenterInit ==
    /\ xPos = 1 /\ moveCh = FALSE /\ pointing = FALSE /\ moveTo = -1 /\ cursor = 1
    /\ presented = 0

Clamp(n) == IF n < 0 THEN 0 ELSE IF n > ScreenEnd THEN ScreenEnd ELSE n

(* A move is clamped to the screen; stop puts the pointer back.            *)
PresenterMove(to) ==
    /\ ~pointing /\ presented < MaxInputs
    /\ xPos' = to /\ pointing' = TRUE /\ presented' = presented + 1
    /\ UNCHANGED <<moveCh, moveTo, cursor>>

PresenterWake ==
    /\ pointing
    /\ pointing' = FALSE /\ moveCh' = TRUE
    /\ UNCHANGED <<xPos, moveTo, cursor, presented>>

(* The worker takes the wake-up before it reads.                           *)
PresenterReads ==
    /\ moveTo = -1 /\ moveCh
    /\ moveCh' = FALSE /\ moveTo' = xPos

PresenterWorks ==
    /\ PresenterReads
    /\ UNCHANGED <<xPos, pointing, cursor, presented>>

MoveCursor ==
    /\ moveTo # -1
    /\ cursor' = moveTo /\ moveTo' = -1
    /\ UNCHANGED <<xPos, moveCh, pointing, presented>>

PresenterNext ==
    \/ \E d \in {-1, 1, 2} : PresenterMove(Clamp(xPos + d))
    \/ PresenterMove(1)
    \/ PresenterWake \/ PresenterWorks \/ MoveCursor

PresenterSpec == PresenterInit /\ [][PresenterNext]_presenterVars

-----------------------------------------------------------------------------
(* The pen.                                                                *)

VARIABLES
    penLinked,  \* the phone is connected
    tablet,     \* DigitizerPlugin.sessions of the phone, or "none"
    openTablets, \* the devices that are open
    closedTablets, \* the devices that have been closed
    handAt,     \* per goroutine that runs Handle or OnDisconnect: where it is
    handTablet, \* per goroutine: the device it works on
    starting,   \* those that handle the start of a drawing session
    overlapped, \* history: the handlers of two starts have overlapped
    stray       \* a start has been handled after the last OnDisconnect

penDevices == <<openTablets, closedTablets>>
penWork    == <<handAt, handTablet, starting>>
penFlags   == <<overlapped, stray>>
penVars    == <<penLinked, tablet, penDevices, penWork, penFlags>>

PenInit ==
    /\ penLinked = TRUE /\ tablet = "none"
    /\ openTablets = {} /\ closedTablets = {}
    /\ handAt = [h \in PenHands |-> "idle"]
    /\ handTablet = [h \in PenHands |-> "none"] /\ starting = {}
    /\ overlapped = FALSE /\ stray = FALSE

HandGoes(h, place, t) ==
    /\ handAt' = [handAt EXCEPT ![h] = place]
    /\ handTablet' = [handTablet EXCEPT ![h] = t]

(* OnDisconnect of sessions that have ended, which has not begun.          *)
PenLeavers == {h \in PenHands : handAt[h] = "leave"}

PenConnects ==
    /\ ~penLinked
    /\ penLinked' = TRUE /\ stray' = FALSE
    /\ UNCHANGED <<tablet, penDevices, penWork, overlapped>>

(* The session ends; a goroutine is to call OnDisconnect, possibly when    *)
(* the phone is connected again.                                           *)
PenDisconnects(h) ==
    /\ penLinked /\ handAt[h] = "idle"
    /\ penLinked' = FALSE
    /\ HandGoes(h, "leave", "none")
    /\ UNCHANGED <<tablet, penDevices, starting, penFlags>>

(* OnDisconnect: the device is taken out under the lock and closed after.  *)
TakeTablet(h) ==
    /\ handAt[h] = "leave"
    /\ tablet' = "none"
    /\ HandGoes(h, "close", tablet)
    /\ stray' = (stray \/ (~penLinked /\ PenLeavers = {h} /\ starting # {}))
    /\ UNCHANGED <<penLinked, penDevices, starting, overlapped>>

(* handleSession: the old session is taken out, closed, and for a start a  *)
(* device is created and stored, each without the lock of the one before.  *)
(* A handler may begin while another runs on, since Dispatch waits for a   *)
(* limited time and a new session does not wait for the handlers of the    *)
(* old one; and it may begin when the session of its packet has ended.     *)
SessionPacket_LeavesOld(h, start) ==
    /\ handAt[h] = "idle"
    /\ tablet' = IF start THEN tablet ELSE "none"
    /\ HandGoes(h, "close", IF start THEN "none" ELSE tablet)
    /\ starting' = IF start THEN starting \union {h} ELSE starting
    /\ overlapped' = (overlapped \/ (start /\ starting # {}))
    /\ stray' = (stray \/ (start /\ ~penLinked /\ PenLeavers = {}))
    /\ UNCHANGED <<penLinked, penDevices>>

SessionPacket(h, start) ==
    /\ handAt[h] = "idle"
    /\ tablet' = "none"
    /\ HandGoes(h, "close", tablet)
    /\ starting' = IF start THEN starting \union {h} ELSE starting
    /\ overlapped' = (overlapped \/ (start /\ starting # {}))
    /\ stray' = (stray \/ (start /\ ~penLinked /\ PenLeavers = {}))
    /\ UNCHANGED <<penLinked, penDevices>>

CloseTablet(h) ==
    /\ handAt[h] = "close"
    /\ openTablets' = openTablets \ {handTablet[h]}
    /\ closedTablets' = closedTablets \union ({handTablet[h]} \ {"none"})
    /\ HandGoes(h, IF h \in starting THEN "create" ELSE "idle", "none")
    /\ UNCHANGED <<penLinked, tablet, starting, penFlags>>

CreateTablet(h, t) ==
    /\ handAt[h] = "create" /\ t \notin openTablets \union closedTablets
    /\ openTablets' = openTablets \union {t}
    /\ HandGoes(h, "store", t)
    /\ UNCHANGED <<penLinked, tablet, closedTablets, starting, penFlags>>

CreateFails(h) ==
    /\ handAt[h] = "create"
    /\ HandGoes(h, "idle", "none")
    /\ starting' = starting \ {h}
    /\ UNCHANGED <<penLinked, tablet, penDevices, penFlags>>

StoreTablet(h) ==
    /\ handAt[h] = "store"
    /\ tablet' = handTablet[h]
    /\ HandGoes(h, "idle", "none")
    /\ starting' = starting \ {h}
    /\ UNCHANGED <<penLinked, penDevices, penFlags>>

(* A pen event is for the device of that moment, and is written after the  *)
(* lock is released: on a device that is closed by then it fails.          *)
PenPacket(h) ==
    /\ handAt[h] = "idle" /\ tablet # "none"
    /\ HandGoes(h, "send", tablet)
    /\ UNCHANGED <<penLinked, tablet, penDevices, starting, penFlags>>

SendPen(h) ==
    /\ handAt[h] = "send"
    /\ HandGoes(h, "idle", "none")
    /\ UNCHANGED <<penLinked, tablet, penDevices, starting, penFlags>>

PenNext ==
    \/ PenConnects
    \/ \E h \in PenHands :
        \/ PenDisconnects(h) \/ TakeTablet(h) \/ CloseTablet(h) \/ PenPacket(h) \/ SendPen(h)
        \/ CreateFails(h) \/ StoreTablet(h)
        \/ \E start \in BOOLEAN : SessionPacket(h, start)
        \/ \E t \in Tablets : CreateTablet(h, t)

PenSpec == PenInit /\ [][PenNext]_penVars

-----------------------------------------------------------------------------
(* Properties.                                                             *)

PadTypeOK ==
    /\ inputs \in 0..MaxInputs /\ {moveX, movesIn, movesOut} \subseteq Nat
    /\ {queueWake, poking, justFlushed, stream, buttonHeld, early} \subseteq BOOLEAN
    /\ workerAt \in {"select", "look", "flushFirst", "flush", "flushTimed", "event"}
    /\ moveTimer \in {"none", "armed", "spent"}

PresenterTypeOK ==
    /\ {moveCh, pointing} \subseteq BOOLEAN /\ presented \in 0..MaxInputs
    /\ xPos \in 0..ScreenEnd /\ cursor \in 0..ScreenEnd /\ moveTo \in -1..ScreenEnd

PenTypeOK ==
    /\ {penLinked, overlapped, stray} \subseteq BOOLEAN
    /\ tablet \in Tablets \union {"none"}
    /\ openTablets \subseteq Tablets /\ closedTablets \subseteq Tablets
    /\ handAt \in [PenHands -> {"idle", "leave", "close", "create", "store", "send"}]
    /\ handTablet \in [PenHands -> Tablets \union {"none"}]
    /\ starting \subseteq PenHands

(* Moves are added up in one place and events are queued in another, and   *)
(* the worker reads both again and again while they grow; still no pixel   *)
(* and no fraction of one is lost or counted twice, and a click never      *)
(* comes before a whole pixel of the moves that the phone sent before it.  *)
InputInOrder == moveX + movesOut = movesIn /\ ~early

(* The wake channels hold one wake-up and drop the others; still, when the *)
(* worker waits and the handler is done, an event that is queued or a      *)
(* pointer that has moved has a wake-up that waits for the worker.         *)
NoInputStranded ==
    /\ padQueue # <<>> /\ workerAt = "select" /\ ~poking => queueWake
    /\ xPos # cursor /\ moveTo = -1 /\ ~pointing => moveCh

(* A tablet device of the kernel stays until it is closed: every one that  *)
(* is open is that of the session or in the hands of a goroutine that will *)
(* store or close it - also when creations fail, sessions start over, or   *)
(* OnDisconnect of one session comes in the next; and when the last        *)
(* OnDisconnect is over, none is left.  Two starts whose handlers overlap  *)
(* break the first, a start handled after the last OnDisconnect breaks the *)
(* second, and nothing else does.                                          *)
TabletsAreReachable ==
    /\ ~overlapped =>
        \A t \in openTablets :
            \/ t = tablet
            \/ \E h \in PenHands : handTablet[h] = t /\ handAt[h] \in {"store", "close"}
    /\ ~stray /\ ~penLinked /\ PenLeavers = {} => tablet = "none"

=============================================================================
