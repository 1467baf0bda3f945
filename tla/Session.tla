------------------------------ MODULE Session -------------------------------
(***************************************************************************)
(* The sessions of one device (internal/device): Connect replaces the      *)
(* connection, Disconnect and disconnectConn end it, readLoop and          *)
(* writerLoop serve it, Send queues packets for it.                        *)
(*                                                                         *)
(* Several goroutines run Connect for one device (an accepted connection   *)
(* and a dialled one), and the loops of an old session outlive it: a step  *)
(* here is one section under Device.mu, one channel operation or one       *)
(* socket operation, and any other goroutine may run between two steps.    *)
(*                                                                         *)
(* A connection is named by its number.  The send and done channels that   *)
(* Connect makes are named by the connection they are made for; the loops  *)
(* by the connection whose Connect starts them.  Abstracted: the handshake *)
(* before Connect, the cooldown that refuses a second connection within    *)
(* one second, and what received packets do (dispatch belongs to the       *)
(* plugins); pairing is the flag the packet filter reads, which the peer   *)
(* or the user may change at any time.                                     *)
(***************************************************************************)
EXTENDS Integers, Sequences

CONSTANTS
    MaxConns, \* bound: connections established
    MaxSends, \* bound: packets handed to Send
    QueueCap  \* capacity of sendChan (32 in the code)

ASSUME SessionAssumption ==
    /\ MaxConns \in Nat \ {0}
    /\ MaxSends \in Nat
    /\ QueueCap \in Nat \ {0}

Conns  == 1..MaxConns
NoConn == 0

Packets == {"pair", "data"}
NoPacket == "none"

VARIABLES
    paired,     \* Device.state is Paired
    conn,       \* Device.conn
    chan,       \* which sendChan and done the Device holds
    closeOnce,  \* closeOnce of the current done has been used
    done,       \* the done channels that are closed
    socket,     \* per connection: "new", "open", "broken" or "closed"
    queue,      \* per sendChan: the packets in it
    connecting, \* per connection: how far its Connect has come
    superseded, \* per connection: the one its Connect replaced
    reader,     \* per connection: its readLoop
    writer,     \* per connection: the writerLoop its Connect started
    serves,     \* per writerLoop: the channels it has read from the device
    via,        \* per writerLoop: the connection it is writing to
    sending,    \* the packet of a Send after its snapshot, and its channel
    unpairing,  \* progress of an IPC unpair
    sends       \* packets handed to Send

vars == <<paired, conn, chan, closeOnce, done, socket, queue, connecting,
          superseded, reader, writer, serves, via, sending, unpairing, sends>>

session == <<conn, chan, closeOnce, done>>
writers == <<writer, serves, via>>
loops   == <<reader, writers>>

Idle == [chan |-> NoConn, packet |-> NoPacket]

Init ==
    /\ paired \in BOOLEAN
    /\ conn = NoConn
    /\ chan = NoConn
    /\ closeOnce = FALSE
    /\ done = {}
    /\ socket = [c \in Conns |-> "new"]
    /\ queue = [c \in Conns |-> <<>>]
    /\ connecting = [c \in Conns |-> "new"]
    /\ superseded = [c \in Conns |-> NoConn]
    /\ reader = [c \in Conns |-> "none"]
    /\ writer = [c \in Conns |-> "none"]
    /\ serves = [c \in Conns |-> NoConn]
    /\ via = [c \in Conns |-> NoConn]
    /\ sending = Idle
    /\ unpairing = "idle"
    /\ sends = 0

packetAllowed(packet) == paired \/ packet = "pair"

(* closeOnce.Do(close(done)) on the done the device holds.                 *)
CloseDone ==
    done' = IF closeOnce \/ chan = NoConn THEN done ELSE done \cup {chan}

-----------------------------------------------------------------------------
(* Connect.                                                                *)

Retire_LeavesDone == UNCHANGED done

(* A session that is replaced: its done is closed, its loops will end.     *)
Retire == IF conn = NoConn THEN UNCHANGED done ELSE CloseDone

Renew_KeepsOnce(c)      == conn' = c /\ chan' = c /\ UNCHANGED closeOnce
Renew_ReusesChannels(c) == /\ conn' = c /\ closeOnce' = FALSE
                           /\ chan' = IF chan = NoConn THEN c ELSE chan

(* The new session has channels and a closeOnce of its own.                *)
Renew(c) == conn' = c /\ chan' = c /\ closeOnce' = FALSE

(* The section under the lock.                                             *)
Connect(c) ==
    /\ connecting[c] = "new"
    /\ \A d \in Conns : d < c => connecting[d] # "new"
    /\ connecting' = [connecting EXCEPT ![c] = "installed"]
    /\ superseded' = [superseded EXCEPT ![c] = conn]
    /\ Retire
    /\ Renew(c)
    /\ socket' = [socket EXCEPT ![c] = "open"]
    /\ UNCHANGED <<paired, queue, loops, sending, unpairing, sends>>

CloseSuperseded_Leaks(c) ==
    /\ connecting[c] = "installed"
    /\ connecting' = [connecting EXCEPT ![c] = "closed"]
    /\ UNCHANGED socket
    /\ UNCHANGED <<paired, session, queue, superseded, loops, sending,
                   unpairing, sends>>

CloseSuperseded(c) ==
    /\ connecting[c] = "installed"
    /\ connecting' = [connecting EXCEPT ![c] = "closed"]
    /\ socket' = IF superseded[c] = NoConn THEN socket
                 ELSE [socket EXCEPT ![superseded[c]] = "closed"]
    /\ UNCHANGED <<paired, session, queue, superseded, loops, sending,
                   unpairing, sends>>

(* After device.connected is published and onConnect has notified the      *)
(* plugins, both without the lock.                                         *)
StartLoops(c) ==
    /\ connecting[c] = "closed"
    /\ connecting' = [connecting EXCEPT ![c] = "started"]
    /\ reader' = [reader EXCEPT ![c] = "reading"]
    /\ writer' = [writer EXCEPT ![c] = "starting"]
    /\ UNCHANGED <<paired, session, socket, queue, superseded, serves, via,
                   sending, unpairing, sends>>

-----------------------------------------------------------------------------
(* The end of a session.                                                   *)

EndSession ==
    /\ conn # NoConn
    /\ conn' = NoConn
    /\ socket' = [socket EXCEPT ![conn] = "closed"]
    /\ CloseDone
    /\ closeOnce' = TRUE
    /\ UNCHANGED chan

Disconnect ==
    \/ EndSession
    \/ conn = NoConn /\ UNCHANGED <<session, socket>>

disconnectConn_AnySession(c) == Disconnect

disconnectConn(c) ==
    \/ conn = c /\ EndSession
    \/ conn # c /\ UNCHANGED <<session, socket>>

(* The daemon drops the session: an ephemeral discovery connection closed  *)
(* by the next sighting, pairing mode left, a transport plugin's request.  *)
Drop ==
    /\ conn # NoConn
    /\ Disconnect
    /\ UNCHANGED <<paired, queue, connecting, superseded, loops, sending,
                   unpairing, sends>>

(* The peer goes away, or the network.                                     *)
PeerLost(c) ==
    /\ socket[c] = "open"
    /\ socket' = [socket EXCEPT ![c] = "broken"]
    /\ UNCHANGED <<paired, session, queue, connecting, superseded, loops,
                   sending, unpairing, sends>>

-----------------------------------------------------------------------------
(* readLoop: a read error ends the loop, whose last act is disconnectConn. *)

ReadError(c) ==
    /\ reader[c] = "reading"
    /\ socket[c] # "open"
    /\ reader' = [reader EXCEPT ![c] = "leaving"]
    /\ UNCHANGED <<paired, session, socket, queue, connecting, superseded,
                   writers, sending, unpairing, sends>>

ReaderEnds(c) ==
    /\ reader[c] = "leaving"
    /\ reader' = [reader EXCEPT ![c] = "ended"]
    /\ disconnectConn(c)
    /\ UNCHANGED <<paired, queue, connecting, superseded, writers, sending,
                   unpairing, sends>>

-----------------------------------------------------------------------------
(* writerLoop.                                                             *)

(* It reads sendChan and done from the device once, when it first runs.    *)
WriterStarts(w) ==
    /\ writer[w] = "starting"
    /\ writer' = [writer EXCEPT ![w] = "waiting"]
    /\ serves' = [serves EXCEPT ![w] = chan]
    /\ UNCHANGED <<paired, session, socket, queue, connecting, superseded,
                   reader, via, sending, unpairing, sends>>

WriterTakes(w) ==
    /\ writer[w] = "waiting"
    /\ queue[serves[w]] # <<>>
    /\ queue' = [queue EXCEPT ![serves[w]] = Tail(@)]
    /\ writer' = IF packetAllowed(Head(queue[serves[w]]))
                 THEN [writer EXCEPT ![w] = "resolving"]
                 ELSE writer
    /\ UNCHANGED <<paired, session, socket, connecting, superseded, reader,
                   serves, via, sending, unpairing, sends>>

WriterResolves(w) ==
    /\ writer[w] = "resolving"
    /\ writer' = [writer EXCEPT ![w] =
                     IF conn = NoConn THEN "waiting" ELSE "writing"]
    /\ via' = [via EXCEPT ![w] = conn]
    /\ UNCHANGED <<paired, session, socket, queue, connecting, superseded,
                   reader, serves, sending, unpairing, sends>>

WriterBack(w) ==
    /\ writer[w] = "writing"
    /\ writer' = [writer EXCEPT ![w] = "waiting"]
    /\ via' = [via EXCEPT ![w] = NoConn]
    /\ UNCHANGED <<paired, queue, connecting, superseded, reader, serves,
                   sending, unpairing, sends>>

(* The write succeeds, or fails on a socket that is gone: the loop goes on *)
(* either way.                                                             *)
WriterWrites(w) == WriterBack(w) /\ UNCHANGED <<session, socket>>

(* No room in the socket for writeTimeout: the session is a zombie.        *)
WriteTimeout(w) ==
    /\ WriterBack(w)
    /\ socket[via[w]] # "closed"
    /\ disconnectConn(via[w])

WriterStops(w) ==
    /\ writer[w] = "waiting"
    /\ serves[w] \in done
    /\ writer' = [writer EXCEPT ![w] = "ended"]
    /\ UNCHANGED <<paired, session, socket, queue, connecting, superseded,
                   reader, serves, via, sending, unpairing, sends>>

-----------------------------------------------------------------------------
(* Send: a snapshot under the lock, then a select without it.              *)

Send(packet) ==
    /\ sending = Idle
    /\ sends < MaxSends
    /\ sends' = sends + 1
    /\ sending' = IF conn # NoConn /\ packetAllowed(packet)
                  THEN [chan |-> chan, packet |-> packet]
                  ELSE Idle
    /\ UNCHANGED <<paired, session, socket, queue, connecting, superseded,
                   loops, unpairing>>

Enqueue ==
    /\ sending # Idle
    /\ Len(queue[sending.chan]) < QueueCap
    /\ queue' = [queue EXCEPT ![sending.chan] = Append(@, sending.packet)]
    /\ sending' = Idle
    /\ UNCHANGED <<paired, session, socket, connecting, superseded, loops,
                   unpairing, sends>>

(* done is closed (select takes either ready case), or the queue is full.  *)
Discard ==
    /\ sending # Idle
    /\ sending.chan \in done \/ Len(queue[sending.chan]) = QueueCap
    /\ sending' = Idle
    /\ UNCHANGED <<paired, session, socket, queue, connecting, superseded,
                   loops, unpairing, sends>>

-----------------------------------------------------------------------------
(* Pairing completes; the peer or a timer ends it.                         *)
ChangeTrust ==
    /\ paired' = ~paired
    /\ UNCHANGED <<session, socket, queue, connecting, superseded, loops,
                   sending, unpairing, sends>>

(* IPC unpair: Unpair queues pair=false and drops the trust, then the      *)
(* session is disconnected at once.                                        *)
UnpairSend ==
    /\ unpairing = "idle"
    /\ sending = Idle
    /\ sends < MaxSends
    /\ sends' = sends + 1
    /\ unpairing' = "queued"
    /\ sending' = IF conn # NoConn THEN [chan |-> chan, packet |-> "pair"]
                  ELSE Idle
    /\ UNCHANGED <<paired, session, socket, queue, connecting, superseded,
                   loops>>

UnpairChange ==
    /\ unpairing = "queued"
    /\ sending = Idle
    /\ unpairing' = "changed"
    /\ paired' = FALSE
    /\ UNCHANGED <<session, socket, queue, connecting, superseded, loops,
                   sending, sends>>

UnpairDisconnect ==
    /\ unpairing = "changed"
    /\ unpairing' = "idle"
    /\ Disconnect
    /\ UNCHANGED <<paired, queue, connecting, superseded, loops, sending,
                   sends>>
-----------------------------------------------------------------------------
ConnectStep(c) == CloseSuperseded(c) \/ StartLoops(c)
ReaderStep(c)  == ReadError(c) \/ ReaderEnds(c)
WriterStep(w)  == \/ WriterStarts(w) \/ WriterTakes(w) \/ WriterResolves(w)
                  \/ WriterWrites(w) \/ WriteTimeout(w) \/ WriterStops(w)
SenderStep     == Enqueue \/ Discard
UnpairStep     == UnpairChange \/ UnpairDisconnect

Next ==
    \/ \E c \in Conns : \/ Connect(c) \/ ConnectStep(c)
                        \/ PeerLost(c) \/ ReaderStep(c) \/ WriterStep(c)
    \/ \E packet \in Packets : Send(packet)
    \/ SenderStep \/ ChangeTrust \/ UnpairSend \/ UnpairStep \/ Drop

Spec == Init /\ [][Next]_vars

(* Goroutines keep running.  Nothing is assumed of the peer, the network,  *)
(* the user or the plugins.                                                *)
Fairness ==
    /\ \A c \in Conns :
          /\ WF_vars(ConnectStep(c))
          /\ WF_vars(ReaderStep(c))
          /\ WF_vars(WriterStep(c))
    /\ WF_vars(SenderStep)

FairSpec == Spec /\ Fairness
-----------------------------------------------------------------------------
(* Every variable has the values the code can give it.                     *)
TypeOK ==
    /\ paired \in BOOLEAN
    /\ chan \in Conns \cup {NoConn}
    /\ conn \in {NoConn, chan}
    /\ closeOnce \in BOOLEAN
    /\ done \subseteq Conns
    /\ socket \in [Conns -> {"new", "open", "broken", "closed"}]
    /\ queue \in [Conns -> Seq(Packets)]
    /\ \A c \in Conns : Len(queue[c]) <= QueueCap
    /\ connecting \in [Conns -> {"new", "installed", "closed", "started"}]
    /\ superseded \in [Conns -> Conns \cup {NoConn}]
    /\ reader \in [Conns -> {"none", "reading", "leaving", "ended"}]
    /\ writer \in [Conns -> {"none", "starting", "waiting", "resolving",
                             "writing", "ended"}]
    /\ serves \in [Conns -> Conns \cup {NoConn}]
    /\ via \in [Conns -> Conns \cup {NoConn}]
    /\ \A w \in Conns :
          /\ writer[w] \in {"waiting", "resolving", "writing"}
                => serves[w] # NoConn
          /\ writer[w] = "writing" => via[w] # NoConn
    /\ chan = NoConn => \A c \in Conns : connecting[c] = "new"
                                      /\ writer[c] = "none"
    /\ sending \in [chan : Conns, packet : Packets] \cup {Idle}
    /\ unpairing \in {"idle", "queued", "changed"}
    /\ sends \in 0..MaxSends

(* Whoever retires a session, however many were replaced before: the done  *)
(* channel of the session there is is open, and that of every session that *)
(* is over is closed, so no loop waits on a channel nobody will close      *)
(* (closeOnce and done in Connect, Disconnect and disconnectConn).         *)
DoneMatchesSession ==
    /\ conn # NoConn => conn \notin done
    /\ \A c \in Conns : connecting[c] # "new" /\ c # conn => c \in done

(* An established connection that is no longer the device's is closed, or  *)
(* the Connect that replaced it is about to close it.                      *)
NoLeakedSocket ==
    \A c \in Conns : socket[c] \in {"open", "broken"} =>
        \/ c = conn
        \/ \E d \in Conns : connecting[d] = "installed" /\ superseded[d] = c

(* A session whose Connect has returned has its own readLoop, and its own  *)
(* writerLoop serving the queue Send fills now, although both were started *)
(* outside the lock.                                                       *)
Served ==
    conn # NoConn /\ connecting[conn] = "started" =>
        /\ reader[conn] \in {"reading", "leaving"}
        /\ writer[conn] \notin {"none", "ended"}
        /\ writer[conn] # "starting" => serves[conn] = chan

(* The loops that outlive a replaced session never end the session that    *)
(* replaced it (disconnectConn): a loop ends a session only by its own     *)
(* read error on that connection or its own timed-out write to it.         *)
OnlyOwnLoopsEnd ==
    [][conn # NoConn /\ conn' = NoConn /\ loops' # loops =>
          \/ reader[conn] = "leaving" /\ reader'[conn] = "ended"
          \/ \E w \in Conns : via[w] = conn /\ via'[w] # conn]_vars

(* A loop that still serves a session that is over.                        *)
Retired(c) == \/ reader[c] \in {"reading", "leaving"} /\ conn # c
              \/ writer[c] # "ended" /\ serves[c] \notin {NoConn, conn}

(* Every loop of a session that is over ends: no goroutine is leaked by    *)
(* replacing, dropping or losing connections.                              *)
RetiredLoopsEnd ==
    \A c \in Conns : Retired(c) ~> ~Retired(c)

(* The write queue prevents concurrent writes to one connection            *)
(* (writerLoop is called the sole socket writer).                          *)
SoleWriter ==
    \A v, w \in Conns :
        writer[v] = "writing" /\ writer[w] = "writing" /\ v # w
            => via[v] # via[w]
=============================================================================
