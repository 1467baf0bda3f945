---------------------------- MODULE SessionProofs ----------------------------
(* Proofs about a device's session and about the loop that finds a lost    *)
(* one again (modules Session and Reconnect), for any number of            *)
(* connections, packets and goroutines that end sessions.                  *)
EXTENDS Session, Reconnect, TLAPS

(* What holds of the device's fields under its lock.                       *)
LockInv ==
    /\ conn # NoConn => conn \notin done /\ ~closeOnce
    /\ chan # NoConn => connecting[chan] # "new"
    /\ \A c \in Conns : c \in done => connecting[c] # "new"
    /\ \A c \in Conns : connecting[c] # "new" /\ c # conn => c \in done

(* The inductive invariant.                                                *)
IInv == LockInv /\ NoLeakedSocket /\ Served

-----------------------------------------------------------------------------
LEMMA NoConnIsNone == NoConn \notin Conns
BY SessionAssumption DEF Conns, NoConn

(* What a session's end leaves of the fields it changes.                   *)
SessionTyped ==
    /\ chan \in Conns \cup {NoConn}
    /\ conn \in {NoConn, chan}
    /\ closeOnce \in BOOLEAN
    /\ done \subseteq Conns
    /\ socket \in [Conns -> {"new", "open", "broken", "closed"}]

LEMMA EndTyped ==
    ASSUME TypeOK, EndSession \/ UNCHANGED <<session, socket>>
    PROVE  SessionTyped' /\ UNCHANGED chan
<1> USE DEF TypeOK, SessionTyped
<1>1. CASE EndSession
  BY <1>1 DEF EndSession, CloseDone
<1>2. CASE UNCHANGED <<session, socket>>
  BY <1>2 DEF session
<1> QED
  BY <1>1, <1>2

LEMMA TypeInductive == TypeOK /\ [Next]_vars => TypeOK'
<1> SUFFICES ASSUME TypeOK, [Next]_vars PROVE TypeOK'
  OBVIOUS
<1> USE SessionAssumption, NoConnIsNone DEF TypeOK, session, loops, writers
<1>1. ASSUME NEW c \in Conns, Connect(c)
      PROVE  TypeOK'
  <2>1. /\ conn' = c /\ chan' = c /\ closeOnce' = FALSE
        /\ done' \subseteq Conns
    BY <1>1 DEF Connect, Retire, Renew, CloseDone
  <2>2. /\ socket' \in [Conns -> {"new", "open", "broken", "closed"}]
        /\ connecting' \in [Conns -> {"new", "installed", "closed", "started"}]
        /\ superseded' \in [Conns -> Conns \cup {NoConn}]
        /\ UNCHANGED <<paired, queue, loops, sending, unpairing, sends>>
    BY <1>1 DEF Connect
  <2> QED
    BY <2>1, <2>2
<1>2. ASSUME NEW c \in Conns, CloseSuperseded(c)
      PROVE  TypeOK'
  BY <1>2 DEF CloseSuperseded
<1>3. ASSUME NEW c \in Conns, StartLoops(c)
      PROVE  TypeOK'
  BY <1>3 DEF StartLoops
<1>4. ASSUME NEW c \in Conns, PeerLost(c)
      PROVE  TypeOK'
  BY <1>4 DEF PeerLost
<1>5. ASSUME NEW c \in Conns, ReadError(c)
      PROVE  TypeOK'
  BY <1>5 DEF ReadError
<1>6. ASSUME NEW c \in Conns, ReaderEnds(c)
      PROVE  TypeOK'
  <2>1. SessionTyped' /\ UNCHANGED chan
    BY <1>6, EndTyped DEF ReaderEnds, disconnectConn
  <2> QED
    BY <1>6, <2>1 DEF ReaderEnds, SessionTyped
<1>7. ASSUME NEW w \in Conns, WriterStarts(w)
      PROVE  TypeOK'
  BY <1>7 DEF WriterStarts
<1>8. ASSUME NEW w \in Conns, WriterTakes(w)
      PROVE  TypeOK'
  BY <1>8 DEF WriterTakes
<1>9. ASSUME NEW w \in Conns, WriterResolves(w)
      PROVE  TypeOK'
  BY <1>9 DEF WriterResolves
<1>10. ASSUME NEW w \in Conns, WriterWrites(w)
       PROVE  TypeOK'
  BY <1>10 DEF WriterWrites, WriterBack
<1>11. ASSUME NEW w \in Conns, WriteTimeout(w)
       PROVE  TypeOK'
  <2>1. SessionTyped' /\ UNCHANGED chan
    BY <1>11, EndTyped DEF WriteTimeout, disconnectConn
  <2> QED
    BY <1>11, <2>1 DEF WriteTimeout, WriterBack, SessionTyped
<1>12. ASSUME NEW w \in Conns, WriterStops(w)
       PROVE  TypeOK'
  BY <1>12 DEF WriterStops
<1>13. ASSUME NEW packet \in Packets, Send(packet)
       PROVE  TypeOK'
  BY <1>13 DEF Send, Idle
<1>14. CASE Enqueue
  BY <1>14 DEF Enqueue, Idle
<1>15. CASE Discard
  BY <1>15 DEF Discard, Idle
<1>16. CASE ChangeTrust
  BY <1>16 DEF ChangeTrust
<1>17. CASE UnpairSend
  BY <1>17 DEF UnpairSend, Idle, Packets
<1>18. CASE UnpairChange
  BY <1>18 DEF UnpairChange
<1>19. CASE UnpairDisconnect
  <2>1. SessionTyped' /\ UNCHANGED chan
    BY <1>19, EndTyped DEF UnpairDisconnect, Disconnect, session
  <2> QED
    BY <1>19, <2>1 DEF UnpairDisconnect, SessionTyped
<1>20. CASE Drop
  <2>1. SessionTyped' /\ UNCHANGED chan
    BY <1>20, EndTyped DEF Drop, Disconnect, session
  <2> QED
    BY <1>20, <2>1 DEF Drop, SessionTyped
<1>21. CASE UNCHANGED vars
  BY <1>21 DEF vars
<1> QED
  BY <1>1, <1>2, <1>3, <1>4, <1>5, <1>6, <1>7, <1>8, <1>9, <1>10, <1>11,
     <1>12, <1>13, <1>14, <1>15, <1>16, <1>17, <1>18, <1>19, <1>20, <1>21
  DEF Next, ConnectStep, ReaderStep, WriterStep, SenderStep, UnpairStep

-----------------------------------------------------------------------------
(* A session that ends takes its socket and its done channel with it.      *)
LEMMA EndKeepsIInv ==
    ASSUME TypeOK, IInv, EndSession, UNCHANGED <<connecting, superseded>>
    PROVE  IInv'
<1> USE NoConnIsNone DEF TypeOK, IInv
<1>1. conn = chan /\ ~closeOnce /\ conn \in Conns /\ chan # NoConn
  BY DEF LockInv, EndSession
<1>2. conn' = NoConn /\ chan' = chan /\ done' = done \cup {conn}
  BY <1>1 DEF EndSession, CloseDone
<1>3. LockInv'
  BY <1>1, <1>2 DEF LockInv
<1>4. NoLeakedSocket'
  BY <1>1, <1>2 DEF EndSession, NoLeakedSocket
<1>5. Served'
  BY <1>2 DEF Served
<1> QED
  BY <1>3, <1>4, <1>5

(* A step of a loop that ends no session matters only to Served.           *)
LEMMA LoopKeepsIInv ==
    ASSUME TypeOK, IInv, Served',
           UNCHANGED <<session, connecting, superseded>>,
           \A c \in Conns : socket'[c] \in {"open", "broken"}
                               => socket[c] \in {"open", "broken"}
    PROVE  IInv'
BY DEF IInv, LockInv, NoLeakedSocket, session

LEMMA ConnectKeepsIInv ==
    ASSUME TypeOK, IInv, NEW c \in Conns, Connect(c)
    PROVE  IInv'
<1> USE NoConnIsNone DEF TypeOK, IInv
<1>1. /\ conn' = c /\ chan' = c /\ ~closeOnce'
      /\ connecting' = [connecting EXCEPT ![c] = "installed"]
      /\ superseded' = [superseded EXCEPT ![c] = conn]
      /\ socket' = [socket EXCEPT ![c] = "open"]
  BY DEF Connect, Renew
<1>2. connecting[c] = "new" /\ c \notin done /\ c # chan
  BY DEF Connect, LockInv
<1>3. done' = IF conn = NoConn THEN done ELSE done \cup {conn}
  BY DEF Connect, Retire, CloseDone, LockInv
<1>4. LockInv'
  <2>1. c \notin done' /\ conn' \notin done'
    BY <1>1, <1>2, <1>3
  <2>2. ASSUME NEW d \in Conns, d \in done'
        PROVE  connecting'[d] # "new"
    BY <1>1, <1>3, <2>2 DEF LockInv
  <2>3. ASSUME NEW d \in Conns, connecting'[d] # "new", d # conn'
        PROVE  d \in done'
    BY <1>1, <1>3, <2>3 DEF LockInv
  <2>4. connecting'[c] # "new"
    BY <1>1
  <2> QED
    BY <1>1, <2>1, <2>2, <2>3, <2>4 DEF LockInv
<1>5. NoLeakedSocket'
  <2> SUFFICES ASSUME NEW d \in Conns, socket'[d] \in {"open", "broken"},
                      d # conn'
               PROVE  \E e \in Conns : connecting'[e] = "installed"
                                       /\ superseded'[e] = d
    BY DEF NoLeakedSocket
  <2>1. socket[d] \in {"open", "broken"}
    BY <1>1
  <2>2. CASE d = conn
    BY <1>1, <2>2
  <2>3. CASE d # conn
    <3>1. PICK e \in Conns : connecting[e] = "installed" /\ superseded[e] = d
      BY <2>1, <2>3 DEF NoLeakedSocket
    <3>2. e # c
      BY <1>2, <3>1
    <3> QED
      BY <1>1, <3>1, <3>2
  <2> QED
    BY <2>2, <2>3
<1>6. Served'
  BY <1>1 DEF Served
<1> QED
  BY <1>4, <1>5, <1>6

LEMMA CloseSupersededKeepsIInv ==
    ASSUME TypeOK, IInv, NEW c \in Conns, CloseSuperseded(c)
    PROVE  IInv'
<1> USE NoConnIsNone DEF TypeOK, IInv
<1>1. /\ UNCHANGED <<conn, chan, closeOnce, done, superseded, reader, writer,
                     serves>>
      /\ connecting[c] = "installed"
      /\ connecting' = [connecting EXCEPT ![c] = "closed"]
  BY DEF CloseSuperseded, session, loops, writers
<1>2. LockInv'
  BY <1>1 DEF LockInv
<1>3. NoLeakedSocket'
  <2> SUFFICES ASSUME NEW d \in Conns, socket'[d] \in {"open", "broken"},
                      d # conn
               PROVE  \E e \in Conns : connecting'[e] = "installed"
                                       /\ superseded'[e] = d
    BY <1>1 DEF NoLeakedSocket
  <2>1. socket[d] \in {"open", "broken"} /\ superseded[c] # d
    BY DEF CloseSuperseded
  <2>2. PICK e \in Conns : connecting[e] = "installed" /\ superseded[e] = d
    BY <2>1 DEF NoLeakedSocket
  <2> QED
    BY <1>1, <2>1, <2>2
<1>4. Served'
  BY <1>1 DEF Served
<1> QED
  BY <1>2, <1>3, <1>4

LEMMA StartLoopsKeepsIInv ==
    ASSUME TypeOK, IInv, NEW c \in Conns, StartLoops(c)
    PROVE  IInv'
<1> USE NoConnIsNone DEF TypeOK, IInv
<1>1. /\ UNCHANGED <<conn, chan, closeOnce, done, superseded, socket, serves>>
      /\ connecting[c] = "closed"
      /\ connecting' = [connecting EXCEPT ![c] = "started"]
      /\ reader' = [reader EXCEPT ![c] = "reading"]
      /\ writer' = [writer EXCEPT ![c] = "starting"]
  BY DEF StartLoops, session
<1>2. LockInv'
  BY <1>1 DEF LockInv
<1>3. NoLeakedSocket'
  BY <1>1 DEF NoLeakedSocket
<1>4. Served'
  BY <1>1 DEF Served
<1> QED
  BY <1>2, <1>3, <1>4

(* Every step of the writerLoop that ends no session.                      *)
LEMMA WriterKeepsIInv ==
    ASSUME TypeOK, IInv, NEW w \in Conns,
           \/ WriterStarts(w) \/ WriterTakes(w) \/ WriterResolves(w)
           \/ WriterBack(w) /\ UNCHANGED <<session, socket>>
           \/ WriterStops(w)
    PROVE  IInv'
<1> USE NoConnIsNone DEF TypeOK
<1>1. UNCHANGED <<session, connecting, superseded, socket, reader>>
  BY DEF WriterStarts, WriterTakes, WriterResolves, WriterBack, WriterStops
<1>2. Served'
  <2> SUFFICES ASSUME conn # NoConn, connecting[conn] = "started"
               PROVE  /\ writer'[conn] \notin {"none", "ended"}
                      /\ writer'[conn] # "starting" => serves'[conn] = chan
    BY <1>1 DEF Served, IInv, session
  <2>1. /\ writer[conn] \notin {"none", "ended"}
        /\ writer[conn] # "starting" => serves[conn] = chan
        /\ conn \notin done
        /\ conn \in Conns /\ conn = chan
    BY DEF Served, IInv, LockInv
  <2>2. CASE WriterStarts(w)
    BY <2>1, <2>2 DEF WriterStarts
  <2>3. CASE WriterTakes(w)
    BY <2>1, <2>3 DEF WriterTakes
  <2>4. CASE WriterResolves(w)
    BY <2>1, <2>4 DEF WriterResolves
  <2>5. CASE WriterBack(w)
    BY <2>1, <2>5 DEF WriterBack
  <2>6. CASE WriterStops(w)
    BY <2>1, <2>6 DEF WriterStops
  <2> QED
    BY <2>2, <2>3, <2>4, <2>5, <2>6
<1> QED
  BY <1>1, <1>2, LoopKeepsIInv

LEMMA IInvInductive == TypeOK /\ IInv /\ [Next]_vars => IInv'
<1> SUFFICES ASSUME TypeOK, IInv, [Next]_vars PROVE IInv'
  OBVIOUS
<1> USE DEF loops, writers
<1>1. ASSUME NEW c \in Conns, Connect(c)
      PROVE  IInv'
  BY <1>1, ConnectKeepsIInv
<1>2. ASSUME NEW c \in Conns, ConnectStep(c)
      PROVE  IInv'
  BY <1>2, CloseSupersededKeepsIInv, StartLoopsKeepsIInv DEF ConnectStep
<1>3. ASSUME NEW c \in Conns, PeerLost(c)
      PROVE  IInv'
  BY <1>3, LoopKeepsIInv DEF PeerLost, TypeOK, Served, IInv, session
<1>4. ASSUME NEW c \in Conns, ReadError(c)
      PROVE  IInv'
  <2>1. Served'
    BY <1>4 DEF ReadError, TypeOK, Served, IInv, session
  <2> QED
    BY <1>4, <2>1, LoopKeepsIInv DEF ReadError
<1>5. ASSUME NEW c \in Conns, ReaderEnds(c)
      PROVE  IInv'
  <2>1. CASE EndSession
    BY <1>5, <2>1, EndKeepsIInv DEF ReaderEnds
  <2>2. CASE conn # c /\ UNCHANGED <<session, socket>>
    <3>1. Served'
      BY <1>5, <2>2 DEF ReaderEnds, TypeOK, Served, IInv, session
    <3> QED
      BY <1>5, <2>2, <3>1, LoopKeepsIInv DEF ReaderEnds
  <2> QED
    BY <1>5, <2>1, <2>2 DEF ReaderEnds, disconnectConn
<1>6. ASSUME NEW w \in Conns, WriterStep(w)
      PROVE  IInv'
  <2>1. CASE EndSession /\ WriterBack(w)
    BY <2>1, EndKeepsIInv DEF WriterBack
  <2> QED
    BY <1>6, <2>1, WriterKeepsIInv
    DEF WriterStep, WriterWrites, WriteTimeout, disconnectConn
<1>7. CASE UnpairDisconnect \/ Drop
  <2>1. CASE EndSession
    BY <1>7, <2>1, EndKeepsIInv DEF UnpairDisconnect, Drop
  <2>2. CASE UNCHANGED <<session, socket>>
    <3>1. Served'
      BY <1>7, <2>2
      DEF UnpairDisconnect, Drop, TypeOK, Served, IInv, session
    <3> QED
      BY <1>7, <2>2, <3>1, LoopKeepsIInv DEF UnpairDisconnect, Drop
  <2> QED
    BY <1>7, <2>1, <2>2 DEF UnpairDisconnect, Drop, Disconnect
<1>8. CASE \/ \E packet \in Packets : Send(packet)
           \/ SenderStep \/ ChangeTrust \/ UnpairSend \/ UnpairChange
           \/ UNCHANGED vars
  <2>1. UNCHANGED <<session, socket, connecting, superseded, loops>>
    BY <1>8 DEF Send, SenderStep, Enqueue, Discard, ChangeTrust, UnpairSend,
                UnpairChange, vars, session
  <2>2. Served'
    BY <2>1 DEF Served, IInv, session
  <2> QED
    BY <2>1, <2>2, LoopKeepsIInv
<1> QED
  BY <1>1, <1>2, <1>3, <1>4, <1>5, <1>6, <1>7, <1>8
  DEF Next, ReaderStep, UnpairStep

-----------------------------------------------------------------------------
(* The session's fields, sockets, queues and loops only ever have the      *)
(* values the code can give them (Connect, Disconnect, Send and the two    *)
(* loops, in any interleaving).                                            *)
THEOREM TypeCorrect == Spec => []TypeOK
<1>1. Init => TypeOK
  <2> SUFFICES ASSUME Init PROVE TypeOK
    OBVIOUS
  <2>1. /\ queue \in [Conns -> Seq(Packets)]
        /\ \A c \in Conns : Len(queue[c]) <= QueueCap
    BY SessionAssumption DEF Init
  <2>2. sends \in 0..MaxSends
    BY SessionAssumption DEF Init
  <2> QED
    BY <2>1, <2>2, NoConnIsNone DEF Init, TypeOK
<1> QED
  BY <1>1, TypeInductive, PTL DEF Spec

THEOREM InvariantHolds == Spec => []IInv
<1>1. Init => IInv
  BY NoConnIsNone DEF Init, IInv, LockInv, NoLeakedSocket, Served
<1> QED
  BY <1>1, TypeCorrect, IInvInductive, PTL DEF Spec

(* However many connections replace each other, the done channel of the    *)
(* current session is open and that of every other one is closed           *)
(* (closeOnce and done in Connect, Disconnect and disconnectConn).         *)
THEOREM DoneAlwaysMatches == Spec => []DoneMatchesSession
<1>1. IInv => DoneMatchesSession
  BY DEF IInv, LockInv, DoneMatchesSession
<1> QED
  BY <1>1, InvariantHolds, PTL

(* No connection that was replaced or dropped stays open (Connect closes   *)
(* the one it superseded, Disconnect and disconnectConn the current one).  *)
THEOREM SocketsNeverLeak == Spec => []NoLeakedSocket
<1>1. IInv => NoLeakedSocket
  BY DEF IInv
<1> QED
  BY <1>1, InvariantHolds, PTL

(* A session whose Connect has returned has both its loops, and its        *)
(* writerLoop serves the channel Send uses (Connect starts them outside    *)
(* the lock).                                                              *)
THEOREM SessionsAreServed == Spec => []Served
<1>1. IInv => Served
  BY DEF IInv
<1> QED
  BY <1>1, InvariantHolds, PTL

LEMMA OnlyOwnStep ==
    ASSUME TypeOK, Next, conn # NoConn, conn' = NoConn, loops' # loops
    PROVE  \/ reader[conn] = "leaving" /\ reader'[conn] = "ended"
           \/ \E w \in Conns : via[w] = conn /\ via'[w] # conn
<1> USE NoConnIsNone
<1>1. ASSUME NEW c \in Conns, Connect(c)
      PROVE  FALSE
  BY <1>1 DEF Connect
<1>2. ASSUME NEW c \in Conns, ConnectStep(c) \/ PeerLost(c) \/ ReadError(c)
      PROVE  FALSE
  BY <1>2 DEF ConnectStep, CloseSuperseded, StartLoops, PeerLost, ReadError,
              session
<1>3. ASSUME NEW c \in Conns, ReaderEnds(c)
      PROVE  reader[conn] = "leaving" /\ reader'[conn] = "ended"
  BY <1>3 DEF ReaderEnds, disconnectConn, session, TypeOK
<1>4. ASSUME NEW w \in Conns, WriterStep(w)
      PROVE  via[w] = conn /\ via'[w] # conn
  BY <1>4
  DEF WriterStep, WriterStarts, WriterTakes, WriterResolves, WriterWrites,
      WriteTimeout, WriterStops, WriterBack, disconnectConn, session, TypeOK
<1>5. CASE \/ \E packet \in Packets : Send(packet)
           \/ SenderStep \/ ChangeTrust \/ UnpairSend \/ UnpairStep \/ Drop
  BY <1>5 DEF Send, SenderStep, Enqueue, Discard, ChangeTrust, UnpairSend,
              UnpairStep, UnpairChange, UnpairDisconnect, Drop, session
<1> QED
  BY <1>1, <1>2, <1>3, <1>4, <1>5 DEF Next, ReaderStep

(* A loop ends the device's session only for what happened on that very    *)
(* connection (the comparison of disconnectConn): a loop of a replaced     *)
(* session never ends the session that replaced it.                        *)
THEOREM OldLoopsNeverEndNewSessions == Spec => OnlyOwnLoopsEnd
<1>1. TypeOK /\ [Next]_vars
      => [conn # NoConn /\ conn' = NoConn /\ loops' # loops =>
            \/ reader[conn] = "leaving" /\ reader'[conn] = "ended"
            \/ \E w \in Conns : via[w] = conn /\ via'[w] # conn]_vars
  BY OnlyOwnStep
<1> QED
  BY <1>1, TypeCorrect, PTL DEF Spec, OnlyOwnLoopsEnd

-----------------------------------------------------------------------------
(* Every step keeps every variable in its type.                            *)
LEMMA ReconnectTypesStep ==
    ReconnectTypeOK /\ [ReconnectNext]_reconnectVars => ReconnectTypeOK'
<1> SUFFICES ASSUME ReconnectTypeOK, [ReconnectNext]_reconnectVars PROVE ReconnectTypeOK'
  OBVIOUS
<1> USE ReconnectAssumption DEF ReconnectTypeOK, device, progress
<1>1. CASE Inbound
  BY <1>1 DEF Inbound, Establish
<1>2. CASE RecordAddress
  BY <1>2 DEF RecordAddress
<1>3. CASE Silence
  BY <1>3 DEF Silence
<1>4. CASE StartPairing
  BY <1>4 DEF StartPairing
<1>5. CASE CompletePairing
  BY <1>5 DEF CompletePairing
<1>6. CASE Unpair
  BY <1>6 DEF Unpair, PokeReconnect
<1>7. ASSUME NEW e \in Enders, Lose(e)
      PROVE  ReconnectTypeOK'
  BY <1>7 DEF Lose
<1>8. ASSUME NEW e \in Enders, OnDisconnect(e)
      PROVE  ReconnectTypeOK'
  BY <1>8 DEF OnDisconnect
<1>9. ASSUME TryReconnect
      PROVE  /\ reconnecting' \in BOOLEAN
             /\ loop' \in [Loops -> LoopPlaces]
             /\ UNCHANGED <<triggered, dialled>>
  BY <1>9 DEF TryReconnect, Spare, LoopPlaces
<1>10. ASSUME NEW e \in Enders, ClaimReconnect(e)
       PROVE  ReconnectTypeOK'
  <2>1. ender' \in [Enders -> {"idle", "check", "claim"}]
    BY <1>10 DEF ClaimReconnect
  <2>2. UNCHANGED <<state, connected, recording, known, stale, wake, sighting>>
    BY <1>10 DEF ClaimReconnect
  <2>3. TryReconnect
    BY <1>10 DEF ClaimReconnect
  <2> QED
    BY <1>9, <2>1, <2>2, <2>3
<1>11. CASE Sight
  BY <1>11 DEF Sight
<1>12. CASE SightPoke
  BY <1>12 DEF SightPoke, PokeReconnect
<1>13. CASE SightConnected
  BY <1>13 DEF SightConnected
<1>14. CASE SightClaim
  <2>1. UNCHANGED <<state, connected, recording, known, stale, wake, ender>>
    BY <1>14 DEF SightClaim
  <2>2. TryReconnect /\ sighting' = "idle"
    BY <1>14 DEF SightClaim
  <2> QED
    BY <1>9, <2>1, <2>2
<1>15. ASSUME NEW l \in Loops, LoopStep(l) \/ Timeout(l)
       PROVE  ReconnectTypeOK'
  <2> USE DEF Go, LoopPlaces
  <2>1. CASE Check(l)
    BY <2>1 DEF Check
  <2>2. CASE Woken(l)
    BY <2>2 DEF Woken
  <2>3. CASE Timeout(l)
    BY <2>3 DEF Timeout
  <2>4. CASE Recheck(l)
    BY <2>4 DEF Recheck
  <2>5. CASE SkipDial(l)
    BY <2>5 DEF SkipDial
  <2>6. CASE StartDial(l)
    BY <2>6 DEF StartDial
  <2>7. CASE DialSucceeds(l)
    BY <2>7 DEF DialSucceeds, Establish
  <2>8. CASE DialFails(l)
    BY <2>8 DEF DialFails
  <2>9. CASE AfterDial(l)
    BY <2>9 DEF AfterDial
  <2>10. CASE ReconnectDone(l)
    BY <2>10 DEF ReconnectDone
  <2> QED
    BY <1>15, <2>1, <2>2, <2>3, <2>4, <2>5, <2>6, <2>7, <2>8, <2>9, <2>10
    DEF LoopStep
<1>16. CASE UNCHANGED reconnectVars
  BY <1>16 DEF reconnectVars
<1> QED
  BY <1>1, <1>2, <1>3, <1>4, <1>5, <1>6, <1>7, <1>8, <1>10, <1>11, <1>12,
     <1>13, <1>14, <1>15, <1>16
  DEF ReconnectNext, EnderStep, SightingStep

(* Whoever wins the mark finds no loop, and the loop it starts is the only *)
(* one there is.                                                           *)
LEMMA TryReconnectKeepsOne ==
    ASSUME ReconnectTypeOK, OneLoop, TryReconnect
    PROVE  OneLoop'
<1>1. CASE UNCHANGED <<reconnecting, progress>>
  BY <1>1 DEF OneLoop, Live, progress
<1>2. CASE /\ ~reconnecting /\ reconnecting' = TRUE
           /\ \E l \in Spare : loop' = [loop EXCEPT ![l] = "state"]
  <2>1. PICK l \in Spare : loop' = [loop EXCEPT ![l] = "state"]
    BY <1>2
  <2>2. \A k \in Loops : loop[k] = "none"
    BY <1>2 DEF OneLoop, Live
  <2>3. l \in Loops /\ loop'[l] = "state"
    BY <2>1 DEF Spare, ReconnectTypeOK
  <2>4. \A k \in Loops : k # l => loop'[k] = "none"
    BY <2>1, <2>2 DEF ReconnectTypeOK
  <2> QED
    BY <1>2, <2>3, <2>4 DEF OneLoop, Live
<1> QED
  BY <1>1, <1>2 DEF TryReconnect, progress

(* A loop that moves on, to anywhere but its end, is still the only one.   *)
LEMMA MoveKeepsOne ==
    ASSUME ReconnectTypeOK, OneLoop, NEW l \in Loops, NEW place \in LoopPlaces \ {"none"},
           loop[l] # "none", Go(l, place), UNCHANGED reconnecting
    PROVE  OneLoop'
BY DEF ReconnectTypeOK, OneLoop, Live, Go

LEMMA OneLoopInductive ==
    ReconnectTypeOK /\ OneLoop /\ [ReconnectNext]_reconnectVars => OneLoop'
<1> SUFFICES ASSUME ReconnectTypeOK, OneLoop, [ReconnectNext]_reconnectVars PROVE OneLoop'
  OBVIOUS
<1>1. UNCHANGED <<reconnecting, progress>> => OneLoop'
  BY DEF OneLoop, Live, progress
<1>2. CASE \/ Inbound \/ RecordAddress \/ Silence
           \/ StartPairing \/ CompletePairing \/ Unpair
           \/ \E e \in Enders : Lose(e) \/ OnDisconnect(e)
           \/ Sight \/ SightPoke \/ SightConnected
           \/ UNCHANGED reconnectVars
  BY <1>1, <1>2
  DEF Inbound, RecordAddress, Silence, StartPairing, CompletePairing, Unpair,
      Lose, OnDisconnect, Sight, SightPoke, SightConnected, reconnectVars, progress
<1>3. CASE SightClaim \/ \E e \in Enders : ClaimReconnect(e)
  BY <1>3, TryReconnectKeepsOne DEF SightClaim, ClaimReconnect
<1>4. ASSUME NEW l \in Loops, LoopStep(l) \/ Timeout(l)
      PROVE  OneLoop'
  <2>1. CASE ReconnectDone(l)
    <3>1. loop[l] = "leaving" /\ l \in Live
      BY <2>1 DEF ReconnectDone, Live
    <3>2. \A k \in Loops : loop'[k] = "none"
      BY <2>1, <3>1 DEF ReconnectDone, Go, OneLoop, Live, ReconnectTypeOK
    <3> QED
      BY <2>1, <3>2 DEF ReconnectDone, OneLoop, Live
  <2>2. CASE ~ReconnectDone(l)
    <3>1. /\ loop[l] # "none"
          /\ UNCHANGED reconnecting
          /\ \E place \in LoopPlaces \ {"none"} : Go(l, place)
      BY <1>4, <2>2
      DEF LoopStep, Check, Woken, Timeout, Recheck, SkipDial, StartDial,
          DialSucceeds, DialFails, AfterDial, LoopPlaces
    <3> QED
      BY <3>1, MoveKeepsOne
  <2> QED
    BY <2>1, <2>2
<1> QED
  BY <1>2, <1>3, <1>4 DEF ReconnectNext, EnderStep, SightingStep

-----------------------------------------------------------------------------
(* The device's reconnect fields, the closures, the sighting and the loops *)
(* only ever have the values the code can give them; in particular a burst *)
(* of PokeReconnect leaves one token.                                      *)
THEOREM ReconnectTypes == ReconnectSpec => []ReconnectTypeOK
<1>1. ReconnectInit => ReconnectTypeOK
  <2> SUFFICES ASSUME ReconnectInit PROVE ReconnectTypeOK
    OBVIOUS
  <2>1. /\ ender \in [Enders -> {"idle", "check", "claim"}]
        /\ loop \in [Loops -> LoopPlaces]
        /\ triggered \in [Loops -> BOOLEAN]
        /\ dialled \in [Loops -> BOOLEAN]
    BY DEF ReconnectInit, LoopPlaces
  <2>2. wake \in 0..1
    BY DEF ReconnectInit
  <2> QED
    BY <2>1, <2>2, Zenon DEF ReconnectInit, ReconnectTypeOK
<1> QED
  BY <1>1, ReconnectTypesStep, PTL DEF ReconnectSpec

(* However session ends and sightings race to restart the dialling, there  *)
(* is at most one reconnect loop for the device, and Device.reconnecting   *)
(* is set exactly while it is there (TryReconnect, ReconnectDone).         *)
THEOREM AtMostOneLoop == ReconnectSpec => []OneLoop
<1>1. ReconnectInit => OneLoop
  BY DEF ReconnectInit, OneLoop, Live
<1> QED
  BY <1>1, ReconnectTypes, OneLoopInductive, PTL DEF ReconnectSpec
=============================================================================
