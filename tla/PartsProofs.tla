----------------------------- MODULE PartsProofs ------------------------------
(***************************************************************************)
(* The parts that MCParts puts side by side.  Each of them behaves as it   *)
(* would alone, so that every theorem about a part is one about the whole; *)
(* and every variable of every part has only the values that the code can  *)
(* give it, for every value of the constants.                              *)
(*                                                                         *)
(* The proofs of the other modules carry the types they need.  Here are    *)
(* those that are left: of what they leave out, and of the parts that have *)
(* no other theorem.                                                       *)
(***************************************************************************)
EXTENDS MCParts, WatchProofs, NetworkProofs, LocalProofs, PluginProofs

-----------------------------------------------------------------------------
(* Requests.                                                               *)

(* What goes up, what may follow the greeting, and the greeting.           *)
Sent  == [id : 1..MaxCalls, cmd : RequestKinds \union {"hello"}]
Later == [id : 2..MaxCalls, cmd : RequestKinds]
Hello == [id |-> 1, cmd |-> "hello"]

(* The types of the messages and of what callers have.                     *)
CallShapes ==
    /\ upstream \in Seq(Sent) /\ downstream \in Seq(Numbered)
    /\ workers \subseteq Later
    /\ calling \subseteq Callers
    /\ asked \in [Callers -> 0..MaxCalls]
    /\ answer \in [Callers -> Numbered \union {NoAnswer}]

(* The types of the rest.                                                  *)
CallPlaces ==
    /\ sessionAt \in {"none", "greeting", "open", "closed"}
    /\ serverAt \in {"none", "first", "loop", "draining", "closed"}
    /\ nextId \in 1..(MaxCalls + 1)
    /\ readOnly \in BOOLEAN /\ lapsed \in BOOLEAN

(* The greeting comes first and once: until it is answered there is        *)
(* nothing else under way and no session, and after it the server reads    *)
(* requests with the numbers that Call gives.                              *)
HelloFirst ==
    /\ serverAt = "none" => sessionAt = "none"
    /\ sessionAt = "none" => serverAt = "none" /\ nextId = 1 /\ upstream = <<>>
    /\ sessionAt = "none" \/ serverAt = "first" => workers = {} /\ downstream = <<>>
    /\ sessionAt # "none" => nextId >= 2
    /\ serverAt = "first" => sessionAt # "open" /\ upstream = <<Hello>>
    /\ serverAt \in {"loop", "draining"} => upstream \in Seq(Later)

CallsInv == CallShapes /\ CallPlaces /\ HelloFirst

(* An answer bears a number of the session.                                *)
LEMMA AnsweredIsNumbered ==
    ASSUME NEW r \in Sent \union Later PROVE Answered(r) \in Numbered
BY DEF Sent, Later, Answered, Numbered

(* Every step keeps the places of session and connection.                  *)
LEMMA CallPlacesStep ==
    ASSUME CallsInv, [RequestsNext]_requestsVars PROVE CallPlaces'
<1> USE RequestsAssumption DEF CallsInv, CallPlaces
<1>1. CASE HandleHello \/ ReadRequest \/ StopReading \/ CloseConnection
  BY <1>1 DEF HandleHello, ReadRequest, StopReading, CloseConnection
<1>2. CASE \E r \in workers : WorkerAnswers(r)
  BY <1>2 DEF WorkerAnswers
<1>3. CASE OpenKeepAlive
  <2>1. nextId = 1 /\ nextId' = nextId + 1
    BY <1>3 DEF OpenKeepAlive, HelloFirst, WriteRequest
  <2> QED
    BY <1>3, <2>1 DEF OpenKeepAlive, Serve
<1>4. CASE Greeted \/ CloseSession
  BY <1>4 DEF Greeted, CloseSession
<1>5. ASSUME NEW c \in Callers, NEW cmd \in RequestKinds, Call(c, cmd)
      PROVE  CallPlaces'
  BY <1>5 DEF Call, WriteRequest
<1>6. ASSUME NEW c \in Callers, ReadResponse(c) \/ CallFails(c) PROVE CallPlaces'
  <2>1. lapsed' \in BOOLEAN
    BY <1>6 DEF ReadResponse, CallFails
  <2> QED
    BY <1>6, <2>1 DEF ReadResponse, CallFails
<1>7. CASE UNCHANGED requestsVars
  BY <1>7 DEF requestsVars
<1> QED
  BY <1>1, <1>2, <1>3, <1>4, <1>5, <1>6, <1>7 DEF RequestsNext

(* Every step keeps the types of the messages.                             *)
LEMMA CallShapesStep ==
    ASSUME CallsInv, [RequestsNext]_requestsVars PROVE CallShapes'
<1> USE DEF CallsInv, CallShapes
<1>1. CASE HandleHello
  <2> DEFINE a == Answered(Head(upstream))
  <2>1. Head(upstream) \in Sent /\ Tail(upstream) \in Seq(Sent)
    BY <1>1 DEF HandleHello
  <2>2. a \in Numbered
    BY <2>1, AnsweredIsNumbered
  <2>3. upstream' = Tail(upstream) /\ downstream' = Append(downstream, a)
    BY <1>1 DEF HandleHello, WriteResponse
  <2> HIDE DEF a
  <2> QED
    BY <1>1, <2>1, <2>2, <2>3 DEF HandleHello
<1>2. CASE ReadRequest
  <2> DEFINE r == Head(upstream)
             a == [id |-> r.id, says |-> "unsupported"]
  <2>1. upstream \in Seq(Later) /\ upstream # <<>> /\ upstream' = Tail(upstream)
    BY <1>2 DEF ReadRequest, HelloFirst
  <2>2. r \in Later
    BY <2>1
  <2>3. Tail(upstream) \in Seq(Sent)
    BY <2>1
  <2>4. a \in Numbered
    BY <2>2 DEF Later, Numbered
  <2>5. \/ downstream' = Append(downstream, a) /\ UNCHANGED workers
        \/ workers' = workers \union {r} /\ UNCHANGED downstream
    BY <1>2 DEF ReadRequest, WriteResponse
  <2> HIDE DEF a, r
  <2>6. UNCHANGED <<calling, asked, answer>>
    BY <1>2 DEF ReadRequest
  <2>7. downstream' \in Seq(Numbered)
    <3>1. downstream \in Seq(Numbered)
      OBVIOUS
    <3>2. CASE downstream' = Append(downstream, a)
      BY <2>4, <3>1, <3>2
    <3> QED
      BY <2>5, <3>1, <3>2
  <2>8. workers' \subseteq Later
    BY <2>2, <2>5
  <2> QED
    BY <2>1, <2>3, <2>6, <2>7, <2>8
<1>3. CASE StopReading \/ CloseConnection
  BY <1>3 DEF StopReading, CloseConnection
<1>4. ASSUME NEW r \in workers, WorkerAnswers(r) PROVE CallShapes'
  <2> DEFINE a == Answered(r)
  <2>1. a \in Numbered
    BY AnsweredIsNumbered
  <2>2. downstream' = Append(downstream, a)
    BY <1>4 DEF WorkerAnswers, WriteResponse
  <2> HIDE DEF a
  <2> QED
    BY <1>4, <2>1, <2>2 DEF WorkerAnswers
<1>5. CASE OpenKeepAlive
  <2>1. nextId = 1 /\ upstream = <<>>
    BY <1>5 DEF OpenKeepAlive, HelloFirst
  <2>2. upstream' = <<Hello>>
    BY <1>5, <2>1 DEF OpenKeepAlive, WriteRequest, Hello
  <2>3. Hello \in Sent
    BY RequestsAssumption DEF Hello, Sent
  <2> HIDE DEF Hello
  <2> QED
    BY <1>5, <2>2, <2>3 DEF OpenKeepAlive
<1>6. CASE Greeted \/ CloseSession
  <2>1. CASE downstream # <<>> /\ downstream' = Tail(downstream)
    BY <1>6, <2>1 DEF Greeted, CloseSession
  <2>2. CASE downstream' = downstream
    BY <1>6, <2>2 DEF Greeted, CloseSession
  <2>3. CASE downstream' = <<>>
    <3>1. downstream' \in Seq(Numbered)
      BY <2>3
    <3> QED
      BY <1>6, <3>1 DEF Greeted, CloseSession
  <2> QED
    BY <1>6, <2>1, <2>2, <2>3 DEF Greeted, CloseSession
<1>7. ASSUME NEW c \in Callers, NEW cmd \in RequestKinds, Call(c, cmd)
      PROVE  CallShapes'
  <2> DEFINE r == [id |-> nextId, cmd |-> cmd]
  <2>1. nextId \in 1..MaxCalls
    BY <1>7, RequestsAssumption DEF Call, CallPlaces
  <2>2. r \in Sent
    BY <2>1 DEF Sent
  <2>3. upstream' = Append(upstream, r)
    BY <1>7 DEF Call, WriteRequest
  <2> HIDE DEF r
  <2>4. upstream' \in Seq(Sent)
    BY <2>2, <2>3
  <2>5. asked' \in [Callers -> 0..MaxCalls]
    BY <1>7, <2>1 DEF Call
  <2> QED
    BY <1>7, <2>4, <2>5 DEF Call
<1>8. ASSUME NEW c \in Callers, ReadResponse(c) \/ CallFails(c) PROVE CallShapes'
  <2>1. CASE ReadResponse(c)
    <3> DEFINE a == Head(downstream)
    <3>1. a \in Numbered /\ Tail(downstream) \in Seq(Numbered)
      BY <2>1 DEF ReadResponse
    <3>2. answer' = [answer EXCEPT ![c] = a] /\ downstream' = Tail(downstream)
      BY <2>1 DEF ReadResponse
    <3> HIDE DEF a
    <3>3. answer' \in [Callers -> Numbered \union {NoAnswer}]
      BY <3>1, <3>2
    <3> QED
      BY <2>1, <3>1, <3>2, <3>3 DEF ReadResponse
  <2>2. CASE CallFails(c)
    BY <2>2 DEF CallFails
  <2> QED
    BY <1>8, <2>1, <2>2
<1>9. CASE UNCHANGED requestsVars
  BY <1>9 DEF requestsVars
<1> QED
  BY <1>1, <1>2, <1>3, <1>4, <1>5, <1>6, <1>7, <1>8, <1>9 DEF RequestsNext

(* Every step keeps the greeting first.                                    *)
LEMMA HelloFirstStep ==
    ASSUME CallsInv, [RequestsNext]_requestsVars PROVE HelloFirst'
<1> USE DEF CallsInv, HelloFirst
<1>1. CASE HandleHello
  <2>1. /\ serverAt = "first" /\ serverAt' = "loop"
        /\ upstream = <<Hello>> /\ upstream' = Tail(upstream)
        /\ UNCHANGED <<sessionAt, nextId>>
    BY <1>1 DEF HandleHello
  <2>2. upstream' = <<>>
    BY <2>1
  <2> QED
    BY <2>1, <2>2
<1>2. CASE ReadRequest
  <2>1. /\ serverAt = "loop" /\ upstream \in Seq(Later)
        /\ upstream # <<>> /\ upstream' = Tail(upstream)
        /\ UNCHANGED <<sessionAt, serverAt, nextId>>
    BY <1>2 DEF ReadRequest
  <2>2. upstream' \in Seq(Later)
    BY <2>1
  <2> QED
    BY <2>1, <2>2
<1>3. CASE StopReading \/ CloseConnection
  BY <1>3 DEF StopReading, CloseConnection
<1>4. ASSUME NEW r \in workers, WorkerAnswers(r) PROVE HelloFirst'
  BY <1>4 DEF WorkerAnswers
<1>5. CASE OpenKeepAlive
  <2>1. /\ nextId = 1 /\ upstream = <<>> /\ workers = {} /\ downstream = <<>>
        /\ sessionAt' = "greeting" /\ serverAt' = "first" /\ nextId' = nextId + 1
        /\ UNCHANGED <<workers, downstream>>
    BY <1>5 DEF OpenKeepAlive, WriteRequest, Serve
  <2>2. upstream' = <<Hello>>
    BY <1>5, <2>1 DEF OpenKeepAlive, WriteRequest, Hello
  <2> QED
    BY <2>1, <2>2
<1>6. CASE Greeted
  <2>1. sessionAt = "greeting" /\ UNCHANGED <<serverAt, upstream, workers, nextId>>
    BY <1>6 DEF Greeted
  <2>2. \/ downstream # <<>> /\ sessionAt' = "open"
        \/ sessionAt' = "closed" /\ UNCHANGED downstream
    BY <1>6 DEF Greeted
  <2> QED
    BY <2>1, <2>2
<1>7. CASE CloseSession
  BY <1>7 DEF CloseSession
<1>8. ASSUME NEW c \in Callers, NEW cmd \in RequestKinds, Call(c, cmd)
      PROVE  HelloFirst'
  <2> DEFINE r == [id |-> nextId, cmd |-> cmd]
  <2>1. /\ sessionAt = "open" /\ serverAt \in {"loop", "draining"}
        /\ nextId \in 2..MaxCalls
        /\ UNCHANGED <<sessionAt, serverAt, workers, downstream>>
    BY <1>8, RequestsAssumption DEF Call, CallPlaces
  <2>2. upstream' = Append(upstream, r) /\ nextId' = nextId + 1
    BY <1>8 DEF Call, WriteRequest
  <2>3. r \in Later
    BY <2>1 DEF Later
  <2> HIDE DEF r
  <2>4. upstream' \in Seq(Later)
    BY <2>1, <2>2, <2>3
  <2> QED
    BY <2>1, <2>2, <2>4
<1>9. ASSUME NEW c \in Callers, ReadResponse(c) \/ CallFails(c) PROVE HelloFirst'
  BY <1>9 DEF ReadResponse, CallFails
<1>10. CASE UNCHANGED requestsVars
  BY <1>10 DEF requestsVars
<1> QED
  BY <1>1, <1>2, <1>3, <1>4, <1>5, <1>6, <1>7, <1>8, <1>9, <1>10 DEF RequestsNext

(* So the types hold of the requests.                                      *)
LEMMA RequestsTypes == RequestsSpec => []RequestsTypeOK
<1>1. RequestsInit => CallsInv
  <2> SUFFICES ASSUME RequestsInit PROVE CallsInv
    OBVIOUS
  <2>1. nextId \in 1..(MaxCalls + 1) /\ asked \in [Callers -> 0..MaxCalls]
    BY RequestsAssumption DEF RequestsInit
  <2>2. upstream = <<>> /\ downstream = <<>> /\ workers = {}
    BY DEF RequestsInit
  <2>3. upstream \in Seq(Sent) /\ downstream \in Seq(Numbered)
    BY <2>2
  <2>4. CallShapes
    BY <2>1, <2>2, <2>3 DEF RequestsInit, CallShapes
  <2>5. CallPlaces
    BY <2>1 DEF RequestsInit, CallPlaces
  <2> QED
    BY <2>2, <2>4, <2>5 DEF RequestsInit, CallsInv, HelloFirst
<1>2. CallsInv => RequestsTypeOK
  <2> SUFFICES ASSUME CallsInv PROVE RequestsTypeOK
    OBVIOUS
  <2> USE DEF CallsInv, CallShapes
  <2>1. \A r \in workers : r.id \in 2..MaxCalls /\ r.cmd \in RequestKinds
    BY DEF Later
  <2>2. \A i \in DOMAIN upstream : upstream[i].id \in 1..MaxCalls
    <3>1. \A i \in DOMAIN upstream : upstream[i] \in Sent
      OBVIOUS
    <3> QED
      BY <3>1 DEF Sent
  <2>3. \A i \in DOMAIN downstream : downstream[i] \in Numbered
    OBVIOUS
  <2> QED
    BY <2>1, <2>2, <2>3 DEF CallPlaces, RequestsTypeOK
<1>3. CallsInv /\ [RequestsNext]_requestsVars => CallsInv'
  BY CallPlacesStep, CallShapesStep, HelloFirstStep DEF CallsInv
<1> QED
  BY <1>1, <1>2, <1>3, PTL DEF RequestsSpec

-----------------------------------------------------------------------------
(* Framing.                                                                *)

(* The types follow from the invariant, and from the length of the input.  *)
LEMMA FramingTypes == FramingSpec => []FramingTypeOK
<1> DEFINE Few == /\ Len(input) <= MaxLines
                  /\ framingAt \in {"collect", "discard", "ended"}
<1>1. FramingInit => Few
  <2> SUFFICES ASSUME FramingInit PROVE Few
    OBVIOUS
  <2>1. PICK n \in 1..MaxLines : input \in [1..n -> 1..MaxLength]
    BY DEF FramingInit
  <2> DEFINE S == 1..MaxLength
  <2>2. n \in Nat /\ n <= MaxLines /\ input \in [1..n -> S]
    BY <2>1, FramingAssumption
  <2> HIDE DEF S
  <2>3. Len(input) = n
    BY <2>2
  <2> QED
    BY <2>2, <2>3 DEF FramingInit
<1>2. Few /\ [FramingNext]_framingVars => Few'
  BY DEF FramingNext, Collect, Discard, FramingEnds, framingVars, AfterOversized
<1>3. FramingInv /\ Few => FramingTypeOK
  <2> SUFFICES ASSUME FramingInv, Few PROVE FramingTypeOK
    OBVIOUS
  <2> USE FramingAssumption
  <2>1. Len(input) \in Nat /\ DOMAIN input = 1..Len(input)
    BY DEF FramingInv
  <2>2. lineNo \in 1..(MaxLines + 1)
    BY <2>1 DEF FramingInv
  <2>3. offset \in 0..MaxLength
    <3>1. CASE AtEnd
      BY <3>1 DEF FramingInv
    <3>2. CASE ~AtEnd
      <4>1. lineNo \in 1..Len(input) /\ offset \in 0..(input[lineNo] - 1)
        BY <2>1, <3>2 DEF FramingInv, AtEnd
      <4> DEFINE S == 1..MaxLength
      <4>2. input \in Seq(S)
        BY DEF FramingInv
      <4> HIDE DEF S
      <4>3. input[lineNo] \in S
        BY <4>1, <4>2
      <4>4. input[lineNo] \in 1..MaxLength
        BY <4>3 DEF S
      <4> QED
        BY <4>1, <4>4
    <3> QED
      BY <3>1, <3>2
  <2>4. \A i \in DOMAIN packets : packets[i].line \in DOMAIN input
    BY FramedMeans DEF FramingInv, Due
  <2>5. \A i \in DOMAIN packets : packets[i].line \in 1..MaxLines
    BY <2>1, <2>4
  <2>6. lineHeld \in 0..LineLimit /\ framingAt \in {"collect", "discard", "ended"}
    BY DEF FramingInv
  <2> QED
    BY <2>2, <2>3, <2>5, <2>6 DEF FramingTypeOK
<1> QED
  BY <1>1, <1>2, <1>3, FramingInvariant, PTL DEF FramingSpec

-----------------------------------------------------------------------------
(* Hooks.                                                                  *)

(* The types follow from the invariant, but for the bound of the events.   *)
LEMMA HooksTypes == HooksSpec => []HooksTypeOK
<1> DEFINE Left == eventsLeft \in 0..MaxHookEvents
<1>1. HooksInit => Left
  BY HooksAssumption DEF HooksInit
<1>2. Left /\ [HooksNext]_hooksVars => Left'
  <2> SUFFICES ASSUME Left, [HooksNext]_hooksVars PROVE Left'
    OBVIOUS
  <2>1. ASSUME NEW d \in HookDevices, PublishEvent(d) PROVE Left'
    BY <2>1, HooksAssumption DEF PublishEvent
  <2>2. CASE TakeEvent \/ HooksStop \/ Tick
    BY <2>2 DEF TakeEvent, HooksStop, Tick
  <2>3. ASSUME NEW w \in HookWorkers, ReadClock(w) \/ CheckDebounce(w) \/ HookEnds(w)
        PROVE  Left'
    BY <2>3 DEF ReadClock, CheckDebounce, HookEnds
  <2>4. CASE UNCHANGED hooksVars
    BY <2>4 DEF hooksVars
  <2> QED
    BY <2>1, <2>2, <2>3, <2>4 DEF HooksNext
<1>3. HooksInv /\ Left => HooksTypeOK
  BY DEF HooksInv, HookTimes, LastIsLast, HooksTypeOK
<1> QED
  BY <1>1, <1>2, <1>3, HooksInvariant, PTL DEF HooksSpec

-----------------------------------------------------------------------------
(* Status.                                                                 *)

(* What is stored and told of a signal is a signal, and what is stored and *)
(* told of a volume or a charge is a level, for so is what a handler is to *)
(* tell.                                                                   *)
StatusShapes ==
    /\ phoneOnline \in BOOLEAN /\ reported \in BOOLEAN /\ late \in BOOLEAN
    /\ sessionNo \in 0..MaxOnline /\ (phoneOnline => sessionNo > 0)
    /\ lastReport \in Signals \union {Unreported}
    /\ toldSignal \in Signals \union {Unreported}
    /\ sinkLevel \in Levels \union {Unreported}
    /\ battery \in Levels \union {Unreported}
    /\ toldLevel \in Levels \union {Unreported}
    /\ toldBattery \in Levels \union {Unreported}
    /\ handling \subseteq Handlers
    /\ leaving \subseteq [no : 1..MaxOnline, at : {"reports", "sinks"}]

(* A handler that goes on is still one.                                    *)
LEMMA HandlersGoOn ==
    ASSUME StatusShapes, NEW handler, NEW next \in SUBSET Handlers, Goes(handler, next)
    PROVE  /\ handling' \subseteq Handlers
           /\ UNCHANGED <<phoneOnline, sessionNo, leaving, late>>
BY DEF StatusShapes, Goes, session

LEMMA HandlerKinds ==
    /\ \A s \in Signals : Begun("tell signal", s) \in Handlers
    /\ \A v \in Levels : /\ Begun("tell level", v) \in Handlers
                        /\ Begun("store", v) \in Handlers
                        /\ Begun("tell charge", v) \in Handlers
<1>1. ASSUME NEW s \in Signals PROVE Begun("tell signal", s) \in Handlers
  BY DEF Begun, Handlers
<1>2. ASSUME NEW v \in Levels, NEW kind \in {"tell level", "store", "tell charge"}
      PROVE  Begun(kind, v) \in Handlers
  BY DEF Begun, Handlers
<1> QED
  BY <1>1, <1>2

(* Every step keeps the types.                                             *)
LEMMA StatusTypesStep ==
    ASSUME StatusShapes, [StatusNext]_statusVars PROVE StatusShapes'
<1> USE StatusAssumption DEF StatusShapes
<1>1. ASSUME NEW packet \in Packets, Handles(packet)
      PROVE  StatusShapes'
  <2>1. handling' \subseteq Handlers
    BY <1>1 DEF Handles, Packets, Handlers
  <2>2. late' \in BOOLEAN
    BY <1>1 DEF Handles
  <2> QED
    BY <1>1, <2>1, <2>2 DEF Handles, session, kept, told
<1>2. ASSUME NEW handler, NEW next \in SUBSET Handlers, Goes(handler, next),
             sinkLevel' \in Levels \union {Unreported},
             battery' \in Levels \union {Unreported},
             lastReport' \in Signals \union {Unreported},
             toldSignal' \in Signals \union {Unreported},
             toldLevel' \in Levels \union {Unreported},
             toldBattery' \in Levels \union {Unreported},
             reported' \in BOOLEAN
      PROVE  StatusShapes'
  <2>1. /\ handling' \subseteq Handlers
        /\ UNCHANGED <<phoneOnline, sessionNo, leaving, late>>
    BY <1>2, HandlersGoOn
  <2> QED
    BY <1>2, <2>1
<1>3. ASSUME NEW s \in Signals, HandleReport(s) \/ PublishSignal(s)
      PROVE  StatusShapes'
  <2>1. {} \in SUBSET Handlers /\ {Begun("tell signal", s)} \in SUBSET Handlers
    BY HandlerKinds
  <2>2. CASE HandleReport(s)
    <3> DEFINE next == IF lastReport = s THEN {} ELSE {Begun("tell signal", s)}
    <3>1. next \in SUBSET Handlers
      BY <2>1
    <3>2. Goes(Begun("report", s), next)
      BY <2>2 DEF HandleReport
    <3>3. /\ lastReport' = s /\ reported' = TRUE
          /\ UNCHANGED <<sinkLevel, battery, toldSignal, toldLevel, toldBattery>>
      BY <2>2 DEF HandleReport, told
    <3> HIDE DEF next
    <3> QED
      BY <1>2, <3>1, <3>2, <3>3
  <2>3. CASE PublishSignal(s)
    BY <1>2, <2>1, <2>3 DEF PublishSignal, kept
  <2> QED
    BY <1>3, <2>2, <2>3
<1>4. ASSUME NEW v \in Levels,
             \/ HandleSinkList(v) \/ LoadSinks(v) \/ StoreSinks(v)
             \/ PublishLevel(v) \/ UpdateBattery(v) \/ PublishBattery(v)
      PROVE  StatusShapes'
  <2>1. /\ {} \in SUBSET Handlers /\ {Begun("tell level", v)} \in SUBSET Handlers
        /\ {Begun("store", v)} \in SUBSET Handlers
        /\ {Begun("tell charge", v)} \in SUBSET Handlers
    BY HandlerKinds
  <2>2. CASE HandleSinkList(v) \/ StoreSinks(v)
    BY <1>2, <2>1, <2>2 DEF HandleSinkList, StoreSinks, told
  <2>3. CASE LoadSinks(v)
    <3>1. CASE sinkLevel = Unreported
      BY <1>2, <2>1, <2>3, <3>1 DEF LoadSinks, told, kept
    <3>2. CASE sinkLevel # Unreported
      BY <1>2, <2>1, <2>3, <3>2 DEF LoadSinks, told, kept
    <3> QED
      BY <3>1, <3>2
  <2>4. CASE UpdateBattery(v)
    BY <1>2, <2>1, <2>4 DEF UpdateBattery, told
  <2>5. CASE PublishLevel(v) \/ PublishBattery(v)
    BY <1>2, <2>1, <2>5 DEF PublishLevel, PublishBattery, kept
  <2> QED
    BY <1>4, <2>2, <2>3, <2>4, <2>5
<1>5. CASE PhoneConnects
  <2>1. sessionNo' \in 0..MaxOnline
    BY <1>5 DEF PhoneConnects
  <2>2. phoneOnline' \in BOOLEAN /\ reported' \in BOOLEAN /\ late' \in BOOLEAN
    BY <1>5 DEF PhoneConnects
  <2> QED
    BY <1>5, <2>1, <2>2 DEF PhoneConnects, kept
<1>6. CASE PhoneDisconnects
  <2>1. phoneOnline => sessionNo \in 1..MaxOnline
    BY DEF StatusShapes
  <2>2. leaving' \subseteq [no : 1..MaxOnline, at : {"reports", "sinks"}]
    BY <1>6, <2>1 DEF PhoneDisconnects
  <2>3. phoneOnline' \in BOOLEAN /\ late' \in BOOLEAN /\ ~phoneOnline'
    BY <1>6 DEF PhoneDisconnects
  <2> QED
    BY <1>6, <2>2, <2>3 DEF PhoneDisconnects, kept, told
<1>7. ASSUME NEW l \in leaving, ForgetReports(l)
      PROVE  StatusShapes'
  <2>1. [l EXCEPT !.at = "sinks"] \in [no : 1..MaxOnline, at : {"reports", "sinks"}]
    OBVIOUS
  <2>2. leaving' \subseteq [no : 1..MaxOnline, at : {"reports", "sinks"}]
    BY <1>7, <2>1 DEF ForgetReports
  <2>3. late' \in BOOLEAN
    BY <1>7 DEF ForgetReports
  <2> QED
    BY <1>7, <2>2, <2>3 DEF ForgetReports, session, told
<1>8. ASSUME NEW l \in leaving, ForgetSinks(l)
      PROVE  StatusShapes'
  BY <1>8 DEF ForgetSinks, session, told
<1>9. CASE UNCHANGED statusVars
  BY <1>9 DEF statusVars
<1> QED
  BY <1>1, <1>3, <1>4, <1>5, <1>6, <1>7, <1>8, <1>9 DEF StatusNext

(* So the types hold of the reports.                                       *)
LEMMA StatusTypes == StatusSpec => []StatusTypeOK
<1>1. StatusInit => StatusShapes
  <2>1. StatusInit =>
            phoneOnline \in BOOLEAN /\ reported \in BOOLEAN /\ late \in BOOLEAN
    BY DEF StatusInit
  <2>2. StatusInit => sessionNo \in 0..MaxOnline
    BY StatusAssumption DEF StatusInit
  <2> QED
    BY <2>1, <2>2 DEF StatusInit, StatusShapes
<1>2. StatusShapes => StatusTypeOK
  BY DEF StatusShapes, StatusTypeOK
<1> QED
  BY <1>1, <1>2, StatusTypesStep, PTL DEF StatusSpec

-----------------------------------------------------------------------------
(* RemoteMedia.                                                            *)

(* The types that its invariant leaves out.                                *)
MediaRest ==
    /\ listAsks \in 0..3 /\ knownPeer \in BOOLEAN
    /\ artAsked \subseteq Songs /\ artCache \subseteq Songs
    /\ trackShown \in [song : Played, art : {"none", "pending", "file"}]

(* Every step keeps them: art is asked for when a state is handled, and    *)
(* a state names a song.                                                   *)
LEMMA MediaRestStep ==
    ASSUME MediaInv, MediaRest, [RemoteMediaNext]_remoteVars PROVE MediaRest'
<1> USE DEF MediaRest, phoneVars, linkVars, artVars, shownVars
<1>1. ASSUME NEW s \in Songs \union {NoSong}, NEW p \in BOOLEAN, PhoneSwitches(s, p)
      PROVE  MediaRest'
  BY <1>1 DEF PhoneSwitches
<1>2. CASE PhoneLinks \/ PhoneDrops \/ ConnectHook \/ DisconnectHook
  <2>1. CASE PhoneLinks
    BY <2>1 DEF PhoneLinks
  <2>2. CASE PhoneDrops
    BY <2>2 DEF PhoneDrops
  <2>3. CASE ConnectHook
    BY <2>3 DEF ConnectHook
  <2>4. CASE DisconnectHook
    <3>1. knownPeer' \in BOOLEAN
      BY <2>4 DEF DisconnectHook
    <3> QED
      BY <2>4, <3>1 DEF DisconnectHook
  <2> QED
    BY <1>2, <2>1, <2>2, <2>3, <2>4
<1>3. CASE RequestPlayerList
  BY <1>3 DEF RequestPlayerList
<1>4. CASE HandlePlayerList
  BY <1>4 DEF HandlePlayerList
<1>5. CASE HandleNowPlaying
  <2>1. Head(toPc).kind = "state" /\ toPc # <<>>
    BY <1>5 DEF HandleNowPlaying
  <2>2. toPc \in Seq(PhonePacket)
    BY DEF MediaInv, MediaShapes
  <2>3. Head(toPc) \in PhonePacket
    <3> DEFINE P == PhonePacket
    <3> HIDE DEF P
    <3>1. toPc \in Seq(P) BY <2>2 DEF P
    <3>2. Head(toPc) \in P BY <2>1, <3>1
    <3> QED BY <3>2 DEF P
  <2>4. Head(toPc).song \in Songs
    BY <2>1, <2>3 DEF PhonePacket
  <2> QED
    BY <1>5, <2>4 DEF HandleNowPlaying, RequestAlbumArt
<1>6. CASE ResolveArt
  BY <1>6 DEF ResolveArt
<1>7. CASE PublishState
  <2>1. /\ Len(mediaHandling) = 2
        /\ trackShown' = [song |-> mediaHandling[1], art |-> mediaHandling[2]]
        /\ UNCHANGED <<phoneVars, linkVars, knownPeer, artVars>>
    BY <1>7 DEF PublishState
  <2>2. /\ mediaHandling[1] \in Played
        /\ mediaHandling[2] \in {"none", "pending", "file"}
    BY <2>1, UpdateMeans DEF MediaInv, MediaShapes
  <2> QED
    BY <2>1, <2>2
<1>8. ASSUME NEW s \in Songs, \/ PhoneSendsArt(s) \/ ThrottleEnds(s)
                             \/ ReceiveAlbumArt(s) \/ StampAlbumArt(s)
      PROVE  MediaRest'
  BY <1>8 DEF PhoneSendsArt, ThrottleEnds, ReceiveAlbumArt, StampAlbumArt, Commit,
     Played
<1>9. CASE AudienceChanges \/ PollRemoteStates \/ UNCHANGED remoteVars
  BY <1>9 DEF AudienceChanges, PollRemoteStates, remoteVars
<1> QED
  BY <1>1, <1>2, <1>3, <1>4, <1>5, <1>6, <1>7, <1>8, <1>9 DEF RemoteMediaNext

(* So the types hold of the remote player.                                 *)
LEMMA RemoteMediaTypes == RemoteMediaSpec => []RemoteMediaTypeOK
<1>1. RemoteMediaInit => MediaRest
  <2>1. Idle \in [song : Played, art : {"none", "pending", "file"}]
    BY DEF Idle, Played
  <2>2. RemoteMediaInit =>
            listAsks \in 0..3 /\ artAsked \subseteq Songs /\ artCache \subseteq Songs
    BY DEF RemoteMediaInit
  <2>3. RemoteMediaInit => knownPeer \in BOOLEAN /\ trackShown = Idle
    BY DEF RemoteMediaInit
  <2> QED
    BY <2>1, <2>2, <2>3 DEF MediaRest
<1>2. MediaInv /\ MediaRest => RemoteMediaTypeOK
  BY DEF MediaInv, MediaShapes, MediaRest, RemoteMediaTypeOK, Played
<1> QED
  BY <1>1, <1>2, MediaRestStep, RemoteMediaInvariant, PTL DEF RemoteMediaSpec

-----------------------------------------------------------------------------
(* Contacts.                                                               *)

(* Every step keeps the types: what lists, answers and index hold are time *)
(* stamps of the phone's book, or their absence.                           *)
LEMMA ContactsTypes ==
    ASSUME ContactsTypeOK, [ContactsNext]_contactsVars
    PROVE  ContactsTypeOK'
<1> USE ContactsAssumption DEF ContactsTypeOK, Stamps, Absent, NoEntry
<1>1. ASSUME NEW u \in Uids, NEW stamp \in Stamps \union {Absent}, EditBook(u, stamp)
      PROVE  ContactsTypeOK'
  BY <1>1 DEF EditBook
<1>2. ASSUME NEW list \in {book, [u \in Uids |-> Absent]}, RequestSync(list)
      PROVE  ContactsTypeOK'
  BY <1>2 DEF RequestSync
<1>3. ASSUME NEW list \in answers, HandleUids(list)
      PROVE  ContactsTypeOK'
  <2>1. list \in [Uids -> Stamps \union {Absent}]
    OBVIOUS
  <2>2. index' \in [Uids -> [stamp : Stamps \union {Absent}, fetched : BOOLEAN]]
    BY <1>3, <2>1 DEF HandleUids
  <2>3. toFetch' \subseteq Uids
    BY <1>3 DEF HandleUids, RequestCards, ToFetch
  <2> QED
    BY <1>3, <2>2, <2>3 DEF HandleUids
<1>4. CASE RequestAgain
  BY <1>4 DEF RequestAgain
<1>5. CASE SendCards
  <2>1. {u \in toFetch : book[u] # Absent} \in SUBSET Uids
    OBVIOUS
  <2>2. cards' \subseteq SUBSET Uids /\ toFetch' = {}
    BY <1>5, <2>1 DEF SendCards
  <2> QED
    BY <1>5, <2>2 DEF SendCards
<1>6. ASSUME NEW sent \in SUBSET Uids, NEW stored \in SUBSET Uids,
             HandleCards(sent, stored)
      PROVE  ContactsTypeOK'
  <2>1. index' \in [Uids -> [stamp : Stamps \union {Absent}, fetched : BOOLEAN]]
    BY <1>6 DEF HandleCards
  <2> QED
    BY <1>6, <2>1 DEF HandleCards
<1>7. CASE ForgetDevice \/ UnpairWipes
  <2>1. index' \in [Uids -> [stamp : Stamps \union {Absent}, fetched : BOOLEAN]]
      <3>1. NoEntry \in [stamp : Stamps \union {Absent}, fetched : BOOLEAN]
      OBVIOUS
    <3>2. index' = [u \in Uids |-> NoEntry]
      BY <1>7 DEF ForgetDevice, UnpairWipes
    <3> HIDE DEF NoEntry, ContactsTypeOK
    <3> QED
      BY <3>1, <3>2
  <2>2. paired' \in BOOLEAN
    BY <1>7 DEF ForgetDevice, UnpairWipes
  <2> QED
    BY <1>7, <2>1, <2>2 DEF ForgetDevice, UnpairWipes
<1>8. CASE UNCHANGED contactsVars
  BY <1>8 DEF contactsVars
<1> QED
  BY <1>1, <1>2, <1>3, <1>4, <1>5, <1>6, <1>7, <1>8 DEF ContactsNext, AnswerHandled

(* A daemon begins with an empty index, and any book at the phone.         *)
LEMMA ContactsStart == ContactsInit => ContactsTypeOK
BY ContactsAssumption DEF ContactsInit, ContactsTypeOK, Stamps, Absent, NoEntry

-----------------------------------------------------------------------------
(* Clipboard.                                                              *)

(* Every step keeps the types.                                             *)
LEMMA ClipboardTypes ==
    ASSUME ClipboardTypeOK, [ClipboardNext]_clipboardVars
    PROVE  ClipboardTypeOK'
<1> USE ClipboardAssumption DEF ClipboardTypeOK, clips, dedup
<1>1. ASSUME NEW c \in Contents, UserCopies(c)
      PROVE  ClipboardTypeOK'
  BY <1>1 DEF UserCopies
<1>2. ASSUME NEW c \in Contents, PhoneCopies(c)
      PROVE  ClipboardTypeOK'
  BY <1>2 DEF PhoneCopies
<1>3. ASSUME NEW c \in Contents, RunCopy(c)
      PROVE  ClipboardTypeOK'
  BY <1>3 DEF RunCopy
<1>4. CASE Reconnect
  BY <1>4 DEF Reconnect
<1>5. CASE HandleClipboard
  BY <1>5 DEF HandleClipboard
<1>6. CASE BeginPush
  BY <1>6 DEF BeginPush
<1>7. CASE FinishPush
  BY <1>7 DEF FinishPush
<1>8. CASE PhoneTakes
  BY <1>8 DEF PhoneTakes
<1>9. CASE UNCHANGED clipboardVars
  BY <1>9 DEF clipboardVars
<1> QED
  BY <1>1, <1>2, <1>3, <1>4, <1>5, <1>6, <1>7, <1>8, <1>9 DEF ClipboardNext

(* Nothing has been copied yet.                                            *)
LEMMA ClipboardStart == ClipboardInit => ClipboardTypeOK
BY ClipboardAssumption DEF ClipboardInit, ClipboardTypeOK

-----------------------------------------------------------------------------
(* Outbox.                                                                 *)

(* Min of a set of numbers is one of them: the order of the naturals is    *)
(* well-founded.                                                           *)
LEMMA LeastNatural ==
    ASSUME NEW S, S \subseteq Nat, S # {}
    PROVE  Min(S) \in S
<1> DEFINE R == OpToRel(<, Nat)
<1>1. IsWellFoundedOn(R, Nat)
  BY NatLessThanWellFounded
<1>2. \A x, y \in Nat : y < x => <<y, x>> \in R
  BY DEF OpToRel
<1> HIDE DEF R
<1>3. \E x \in S : \A y \in S : ~(<<y, x>> \in R)
  BY <1>1, WFMin
<1>4. PICK x \in S : \A y \in S : ~(<<y, x>> \in R)
  BY <1>3
<1>5. \A y \in S : y \in Nat /\ x \in Nat /\ ~(y < x)
  BY <1>2, <1>4, Zenon
<1>6. \A y \in S : x <= y
  BY <1>5
<1> QED
  BY <1>6 DEF Min

(* Every step keeps the types: the port that a sender listens on is the    *)
(* first that is free, and is one of those KDE Connect uses.               *)
LEMMA OutboxTypes ==
    ASSUME OutboxTypeOK, [OutboxNext]_outboxVars
    PROVE  OutboxTypeOK'
<1> USE DEF OutboxTypeOK
<1>1. ASSUME NEW s \in Outgoing, SendFile(s)
      PROVE  OutboxTypeOK'
  <2>1. CASE FreePorts = {}
    BY <1>1, <2>1 DEF SendFile, OutboxTo
  <2>2. CASE FreePorts # {}
    <3>1. Min(FreePorts) \in 0..PortMax
      BY <2>2, LeastNatural DEF FreePorts, Ports
    <3> QED
      BY <1>1, <2>2, <3>1 DEF SendFile, OutboxTo
  <2> QED
    BY <2>1, <2>2
<1>2. ASSUME NEW s \in Outgoing,
             InvitationArrives(s) \/ AcceptConnection(s) \/ WaitEnds(s)
      PROVE  OutboxTypeOK'
  BY <1>2, TransfersAssumption
  DEF InvitationArrives, AcceptConnection, WaitEnds, AcceptTimeout, StreamFile,
      SendEnds, OutboxTo
<1>3. CASE UNCHANGED outboxVars
  BY <1>3 DEF outboxVars
<1> QED
  BY <1>1, <1>2, <1>3 DEF OutboxNext

(* No port is in use.                                                      *)
LEMMA OutboxStart == OutboxInit => OutboxTypeOK
BY TransfersAssumption DEF OutboxInit, OutboxTypeOK

-----------------------------------------------------------------------------
(* Mount.                                                                  *)

(* Every step keeps the types: of a mount, of those who make it and of     *)
(* those who release it.                                                   *)
LEMMA MountTypes ==
    ASSUME MountTypeOK, [MountNext]_mountVars
    PROVE  MountTypeOK'
<1> USE MountAssumption
    DEF MountTypeOK, asks, MounterAt, ReleaserAt, AdoptMount, IsMounted, MountExists,
        Proceed, LeaveMount
<1>1. ASSUME NEW m \in Mounters, RequestCredentials(m) \/ MountStep(m)
      PROVE  MountTypeOK'
  <2>1. CASE RequestCredentials(m)
    <3>1. mounts' \in 0..MaxMounts
      BY <2>1 DEF RequestCredentials
    <3>2. mounter' \in [Mounters -> {"idle", "waiting", "check", "sshfs", "made"}]
      BY <2>1 DEF RequestCredentials
    <3> QED
      BY <2>1, <3>1, <3>2 DEF RequestCredentials
  <2>2. CASE CredentialsReturn(m)
    BY <2>2 DEF CredentialsReturn
  <2>3. CASE ReuseMount(m)
    <3>1. IsMounted \in BOOLEAN
      OBVIOUS
    <3>2. mountTracked' \in BOOLEAN
      BY <2>3, <3>1 DEF ReuseMount
    <3> QED
      BY <2>3, <3>2 DEF ReuseMount
  <2>4. CASE RunSshfs(m)
    BY <2>4 DEF RunSshfs
  <2>5. CASE TrackMount(m)
    BY <2>5 DEF TrackMount
  <2> QED
    BY <1>1, <2>1, <2>2, <2>3, <2>4, <2>5 DEF MountStep
<1>2. ASSUME NEW what \in {"credentials", "error"}, HandleSftp(what)
      PROVE  MountTypeOK'
  BY <1>2 DEF HandleSftp
<1>3. ASSUME NEW u \in Releasers, BeginUnmount(u)
      PROVE  MountTypeOK'
  BY <1>3 DEF BeginUnmount
<1>4. ASSUME NEW u \in Releasers, UnmountStep(u)
      PROVE  MountTypeOK'
  BY <1>4 DEF UnmountStep, ResolveMount, CheckKernel, KillSshfs, ReleaseMount,
     ReleaseFails, FinishUnmount
<1>5. CASE DeviceReturns \/ MountLost \/ RestartDaemon
  BY <1>5 DEF DeviceReturns, MountLost, RestartDaemon
<1>6. CASE UNCHANGED mountVars
  BY <1>6 DEF mountVars
<1> QED
  BY <1>1, <1>2, <1>3, <1>4, <1>5, <1>6 DEF MountNext

(* Nobody mounts yet.                                                      *)
LEMMA MountStart == MountInit => MountTypeOK
<1> SUFFICES ASSUME MountInit PROVE MountTypeOK
  OBVIOUS
<1>1. mounts \in 0..MaxMounts /\ pendingAsk \in Mounters \cup {Nobody}
  BY MountAssumption DEF MountInit
<1>2. /\ online \in BOOLEAN /\ cached \in BOOLEAN
      /\ mountTracked \in BOOLEAN /\ restarted \in BOOLEAN
  BY DEF MountInit
<1> QED
  BY <1>1, <1>2 DEF MountInit, MountTypeOK

-----------------------------------------------------------------------------
(* Commands and lists.                                                     *)

(* Every step keeps the types: the lines of a stream stay within their     *)
(* limit.                                                                  *)
LEMMA CommandsTypes ==
    ASSUME CommandsTypeOK, [CommandsNext \/ ListsNext]_commandVars
    PROVE  CommandsTypeOK'
<1> USE CommandsAssumption DEF CommandsTypeOK, streams, stops, executions, lists,
         presence, ExecTo
<1>1. ASSUME NEW e \in Execs,
             Launch(e) \/ ProcessEnds(e) \/ TimeOut(e) \/ stopRunning(e) \/ CallCancel(e)
      PROVE  CommandsTypeOK'
  BY <1>1 DEF Launch, ProcessEnds, TimeOut, stopRunning, CallCancel
<1>2. ASSUME NEW e \in Execs, AddLine(e)
      PROVE  CommandsTypeOK'
  BY <1>2 DEF AddLine
<1>3. ASSUME NEW e \in Execs, ExecStep(e)
      PROVE  CommandsTypeOK'
  BY <1>3 DEF ExecStep, Register, StartProcess, FlushOutput, Flush, ClosePipes,
     StreamEnds, FinishOutput
<1>4. CASE StopEverything \/ PhoneReturns
  BY <1>4 DEF StopEverything, PhoneReturns, stopAll
<1>5. CASE PhoneLeaves \/ OnDisconnected
  <2>1. leavers' \in 0..MaxLeavers
    BY <1>5 DEF PhoneLeaves, OnDisconnected
  <2>2. phoneHere' \in BOOLEAN
    BY <1>5 DEF PhoneLeaves, OnDisconnected
  <2> QED
    BY <1>5, <2>1, <2>2 DEF PhoneLeaves, OnDisconnected, stopAll
<1>6. CASE ListsNext
  BY <1>6 DEF ListsNext, RequestList, ListReturns, DeliverCommandList
<1>7. CASE UNCHANGED commandVars
  BY <1>7 DEF commandVars
<1> QED
  BY <1>1, <1>2, <1>3, <1>4, <1>5, <1>6, <1>7 DEF CommandsNext

(* Nothing runs, and nobody waits for a list.                              *)
LEMMA CommandsStart == CommandsInit => CommandsTypeOK
<1> SUFFICES ASSUME CommandsInit PROVE CommandsTypeOK
  OBVIOUS
<1>1. /\ total \in [Execs -> 0..StreamMaxLines] /\ execAt \in [Execs -> {"none"}]
      /\ process \in [Execs -> {"none"}] /\ asker \in [Askers -> {"idle"}]
  BY CommandsAssumption DEF CommandsInit
<1>2. leavers \in 0..MaxLeavers
  BY CommandsAssumption DEF CommandsInit
<1>3. phoneHere \in BOOLEAN /\ listReply \in BOOLEAN
  BY DEF CommandsInit
<1> QED
  BY <1>1, <1>2, <1>3 DEF CommandsInit, CommandsTypeOK

-----------------------------------------------------------------------------
(* Desktop.                                                                *)

(* The types, and what a request that is about to set the volume wants is  *)
(* a volume.                                                               *)
SoundShapes ==
    /\ SoundTypeOK
    /\ \A v \in VolumeReqs :
        volumeAt[v] = "volume" => volumeWanted[v].volume \in Volumes

(* Every step of the sound keeps them.                                     *)
LEMMA SoundTypesStep ==
    ASSUME SoundShapes, [SoundNext]_soundVars PROVE SoundShapes'
<1> USE DEF SoundShapes, SoundTypeOK
<1>1. ASSUME NEW r \in RingReqs, RingRequest(r) \/ RingDone(r)
      PROVE  SoundShapes'
  BY <1>1 DEF RingRequest, RingDone, RingTo
<1>2. ASSUME NEW r \in RingReqs, ReadMute(r)
      PROVE  SoundShapes'
  BY <1>2 DEF ReadMute, RingTo, SinkState
<1>3. ASSUME NEW r \in RingReqs, Unmute(r) \/ RestoreMute(r)
      PROVE  SoundShapes'
  BY <1>3 DEF Unmute, RestoreMute, SetMuted, RingTo
<1>4. ASSUME NEW v \in VolumeReqs, NEW vol \in Volumes \union {0},
             NEW m \in {"keep", "yes", "no"}, VolumeRequest(v, vol, m)
      PROVE  SoundShapes'
  BY <1>4 DEF VolumeRequest, VolumeTo
<1>5. ASSUME NEW v \in VolumeReqs, SetVolume(v)
      PROVE  SoundShapes'
  BY <1>5 DEF SetVolume, VolumeTo
<1>6. ASSUME NEW v \in VolumeReqs, MuteAsAsked(v)
      PROVE  SoundShapes'
  BY <1>6 DEF MuteAsAsked, VolumeTo
<1>7. ASSUME NEW v \in VolumeReqs, ReadSinks(v) \/ SendSinks(v)
      PROVE  SoundShapes'
  <2>1. SinkState \in [volume : Volumes \union {0}, muted : BOOLEAN]
    BY DEF SinkState
  <2> DEFINE s == SinkState
  <2> HIDE DEF s
  <2>2. CASE ReadSinks(v)
    <3>1. sinkRead' = [sinkRead EXCEPT ![v] = s]
      BY <2>2 DEF ReadSinks, s
    <3>2. s \in [volume : Volumes \union {0}, muted : BOOLEAN]
      BY <2>1 DEF s
    <3> QED
      BY <2>2, <3>1, <3>2 DEF ReadSinks, VolumeTo
  <2>3. CASE SendSinks(v)
    BY <2>3 DEF SendSinks, VolumeTo
  <2> QED
    BY <1>7, <2>2, <2>3
<1>8. CASE UserMutes
  BY <1>8 DEF UserMutes
<1>9. CASE UNCHANGED soundVars
  BY <1>9 DEF soundVars
<1> QED
  BY <1>1, <1>2, <1>3, <1>4, <1>5, <1>6, <1>7, <1>8, <1>9 DEF SoundNext

(* So the types hold of the sound.                                         *)
LEMMA SoundTypes == SoundSpec => []SoundTypeOK
<1>1. SoundInit => SoundShapes
  <2> SUFFICES ASSUME SoundInit PROVE SoundShapes
    OBVIOUS
  <2>1. NoSink \in [volume : Volumes \union {0}, muted : BOOLEAN]
    BY DEF NoSink
  <2>2. [volume |-> 0, muted |-> "keep"]
            \in [volume : Volumes \union {0}, muted : {"keep", "yes", "no"}]
    OBVIOUS
  <2>3. sinkRead \in [VolumeReqs -> [volume : Volumes \union {0}, muted : BOOLEAN]]
    BY <2>1, Zenon DEF SoundInit
  <2>4. volumeWanted \in
            [VolumeReqs -> [volume : Volumes \union {0}, muted : {"keep", "yes", "no"}]]
    BY <2>2, Zenon DEF SoundInit
  <2>5. {muted, playing, othersMuted, audioFailed} \subseteq BOOLEAN
    BY Zenon DEF SoundInit
  <2> QED
    BY <2>3, <2>4, <2>5 DEF SoundInit, SoundShapes, SoundTypeOK
<1>2. SoundShapes => SoundTypeOK
  BY DEF SoundShapes
<1> QED
  BY <1>1, <1>2, SoundTypesStep, PTL DEF SoundSpec

(* The types hold of the lock.                                             *)
LEMMA LockTypes == LockSpec => []LockTypeOK
<1>1. LockInit => LockTypeOK
  BY DEF LockInit, LockTypeOK
<1>2. LockTypeOK /\ [LockNext]_lockVars => LockTypeOK'
  <2> SUFFICES ASSUME LockTypeOK, [LockNext]_lockVars PROVE LockTypeOK'
    OBVIOUS
  <2> USE DEF LockTypeOK
  <2>1. ASSUME NEW l \in LockReqs, NEW what \in {"lock", "unlock", "state"},
               LockRequest(l, what)
        PROVE  LockTypeOK'
    BY <2>1 DEF LockRequest, LockTo
  <2>2. ASSUME NEW l \in LockReqs, ApplyRequest(l)
        PROVE  LockTypeOK'
    BY <2>2 DEF ApplyRequest, LockTo
  <2>3. ASSUME NEW l \in LockReqs, SendState(l)
        PROVE  LockTypeOK'
    BY <2>3 DEF SendState, LockTo
  <2>4. CASE SessionLocks \/ \E b \in BOOLEAN : UserLocks(b)
    BY <2>4 DEF SessionLocks, UserLocks
  <2>5. CASE UNCHANGED lockVars
    BY <2>5 DEF lockVars
  <2> QED
    BY <2>1, <2>2, <2>3, <2>4, <2>5 DEF LockNext
<1> QED
  BY <1>1, <1>2, PTL DEF LockSpec

-----------------------------------------------------------------------------
(* Input.                                                                  *)

(* Of the touchpad: the types that its invariant leaves out.               *)
PadFlags ==
    /\ inputs \in 0..MaxInputs
    /\ queueWake \in BOOLEAN /\ poking \in BOOLEAN /\ justFlushed \in BOOLEAN
    /\ stream \in BOOLEAN /\ buttonHeld \in BOOLEAN /\ early \in BOOLEAN
    /\ moveTimer \in {"none", "armed", "spent"}

(* Every step of the touchpad keeps them.                                  *)
LEMMA PadFlagsStep == ASSUME PadFlags, [PadNext]_padVars PROVE PadFlags'
<1> USE InputAssumption DEF PadFlags
<1>1. ASSUME Sends PROVE inputs' \in 0..MaxInputs /\ poking' \in BOOLEAN
  <2>1. inputs' \in 0..MaxInputs
    BY <1>1 DEF Sends
  <2> QED
    BY <1>1, <2>1 DEF Sends
<1>2. ASSUME NEW n \in MoveSizes, PadMove(n) PROVE PadFlags'
  BY <1>1, <1>2 DEF PadMove
<1>3. ASSUME NEW k, PadEvent(k) PROVE PadFlags'
  BY <1>1, <1>3 DEF PadEvent
<1>4. CASE PadWake \/ WorkerWakes \/ TimerFires
  BY <1>4 DEF PadWake, WorkerWakes, TimerFires
<1>5. CASE TakePadEvent \/ LookAtMoves
  BY <1>5 DEF TakePadEvent, LookAtMoves, StopTimer
<1>6. CASE FlushMove
  BY <1>6 DEF FlushMove, UseBackend
<1>7. CASE HandleEvent
  <2>1. (early \/ taken.before > movesOut + 1) \in BOOLEAN
    OBVIOUS
  <2>2. early' \in BOOLEAN
    BY <1>7, <2>1, Zenon DEF HandleEvent
  <2>3. buttonHeld' \in BOOLEAN
    BY <1>7 DEF HandleEvent
  <2> QED
    BY <1>7, <2>2, <2>3 DEF HandleEvent, UseBackend
<1>8. CASE IntervalPasses \/ UNCHANGED padVars
  BY <1>8 DEF IntervalPasses, padVars
<1> QED
  BY <1>2, <1>3, <1>4, <1>5, <1>6, <1>7, <1>8 DEF PadNext

(* So the types hold of the touchpad.                                      *)
LEMMA PadTypes == PadSpec => []PadTypeOK
<1>1. PadInit => PadFlags
  <2>1. PadInit => inputs \in 0..MaxInputs
    BY InputAssumption DEF PadInit
  <2> QED
    BY <2>1 DEF PadInit, PadFlags
<1>2. PadInv /\ PadFlags => PadTypeOK
  BY DEF PadInv, PadShapes, PadFlags, PadTypeOK
<1> QED
  BY <1>1, <1>2, PadFlagsStep, PadInvariant, PTL DEF PadSpec

(* Of the presenter: the types that its invariant leaves out.              *)
PresenterRest ==
    /\ moveCh \in BOOLEAN /\ pointing \in BOOLEAN
    /\ presented \in 0..MaxInputs /\ cursor \in 0..ScreenEnd

(* The cursor is put where the worker has read that it is to go, which is  *)
(* on the screen.                                                          *)
LEMMA PresenterTypes == PresenterSpec => []PresenterTypeOK
<1>1. PresenterInit => PresenterRest
  <2>1. PresenterInit => presented \in 0..MaxInputs /\ cursor \in 0..ScreenEnd
    BY InputAssumption DEF PresenterInit
  <2> QED
    BY <2>1 DEF PresenterInit, PresenterRest
<1>2. PointerInv /\ PresenterRest /\ [PresenterNext]_presenterVars => PresenterRest'
  <2> SUFFICES ASSUME PointerInv, PresenterRest, [PresenterNext]_presenterVars
               PROVE  PresenterRest'
    OBVIOUS
  <2> USE InputAssumption DEF PresenterRest
  <2>1. ASSUME NEW to, PresenterMove(to) PROVE PresenterRest'
    <3>1. presented' \in 0..MaxInputs
      BY <2>1 DEF PresenterMove
    <3> QED
      BY <2>1, <3>1 DEF PresenterMove
  <2>2. CASE PresenterWake \/ PresenterWorks
    BY <2>2 DEF PresenterWake, PresenterWorks, PresenterReads
  <2>3. CASE MoveCursor
    <3>1. moveTo \in 0..ScreenEnd
      BY <2>3 DEF MoveCursor, PointerInv, PointerShapes
    <3> QED
      BY <2>3, <3>1 DEF MoveCursor
  <2>4. CASE UNCHANGED presenterVars
    BY <2>4 DEF presenterVars
  <2> QED
    BY <2>1, <2>2, <2>3, <2>4 DEF PresenterNext
<1>3. PointerInv /\ PresenterRest => PresenterTypeOK
  BY DEF PointerInv, PointerShapes, PresenterRest, PresenterTypeOK
<1> QED
  BY <1>1, <1>2, <1>3, PresenterInvariant, PTL DEF PresenterSpec

(* The types hold of the pen.                                              *)
LEMMA PenTypesHold == PenSpec => []PenTypeOK
<1>1. PenInv => PenTypeOK
  BY DEF PenInv
<1> QED
  BY <1>1, PenInvariant, PTL

-----------------------------------------------------------------------------
(* The parts together.                                                     *)

(* Every part begins as it would alone.                                    *)
LEMMA PartsBegin ==
    ASSUME PartsInit
    PROVE  /\ DiscoveryInit /\ HandshakeInit /\ DispatchInit /\ FramingInit
           /\ RequestsInit /\ Init /\ HooksInit /\ StatusInit /\ PopupsInit
           /\ ArmingInit /\ ContactsInit /\ ClipboardInit /\ InboxInit /\ OutboxInit
           /\ MountInit /\ CommandsInit /\ PlayersInit /\ RemoteMediaInit
           /\ SoundInit /\ LockInit /\ PadInit /\ PresenterInit /\ PenInit
BY DEF PartsInit

(* To every part a step of the whole is a step of its own, or none.        *)
LEMMA OneMoves ==
    ASSUME [PartsNext]_parts
    PROVE  /\ [DiscoveryNext]_discoveryVars /\ [HandshakeNext]_handshakeVars
           /\ [DispatchNext]_dispatchVars /\ [FramingNext]_framingVars
           /\ [RequestsNext]_requestsVars /\ [Next]_vars /\ [HooksNext]_hooksVars
           /\ [StatusNext]_statusVars /\ [PopupsNext]_popupVars
           /\ [ArmingNext]_armingVars /\ [ContactsNext]_contactsVars
           /\ [ClipboardNext]_clipboardVars /\ [InboxNext]_inboxVars
           /\ [OutboxNext]_outboxVars /\ [MountNext]_mountVars
           /\ [CommandsNext \/ ListsNext]_commandVars /\ [PlayersNext]_playersVars
           /\ [RemoteMediaNext]_remoteVars /\ [SoundNext]_soundVars
           /\ [LockNext]_lockVars /\ [PadNext]_padVars
           /\ [PresenterNext]_presenterVars /\ [PenNext]_penVars
<1>1. CASE UNCHANGED parts
  BY <1>1 DEF parts
<1>2. CASE PartsNext
  BY <1>2 DEF PartsNext, OthersStay, commandVars
<1> QED
  BY <1>1, <1>2

(* A behaviour of the whole is a behaviour of every part, to its own       *)
(* specification: so what is proved of a part alone is true of the whole.  *)
THEOREM PartsAreThemselves ==
    PartsSpec =>
        /\ DiscoverySpec /\ HandshakeSpec /\ DispatchSpec /\ FramingSpec
        /\ RequestsSpec /\ Spec /\ HooksSpec /\ StatusSpec /\ PopupsSpec
        /\ ArmingSpec /\ ContactsSpec /\ ClipboardSpec /\ InboxSpec /\ OutboxSpec
        /\ MountSpec /\ CommandsSpec /\ PlayersSpec /\ RemoteMediaSpec
        /\ SoundSpec /\ LockSpec /\ PadSpec /\ PresenterSpec /\ PenSpec
BY PartsBegin, OneMoves, PTL
DEF PartsSpec, DiscoverySpec, HandshakeSpec, DispatchSpec, FramingSpec, RequestsSpec,
    Spec, HooksSpec, StatusSpec, PopupsSpec, ArmingSpec, ContactsSpec, ClipboardSpec,
    InboxSpec, OutboxSpec, MountSpec, CommandsSpec, PlayersSpec, RemoteMediaSpec,
    SoundSpec, LockSpec, PadSpec, PresenterSpec, PenSpec

(* The types of a part that has no other theorem, as an invariant.         *)
LEMMA ContactsTyped == ContactsSpec => []ContactsTypeOK
BY ContactsStart, ContactsTypes, PTL DEF ContactsSpec

(* The same of the clipboard.                                              *)
LEMMA ClipboardTyped == ClipboardSpec => []ClipboardTypeOK
BY ClipboardStart, ClipboardTypes, PTL DEF ClipboardSpec

(* The same of the files that are sent.                                    *)
LEMMA OutboxTyped == OutboxSpec => []OutboxTypeOK
BY OutboxStart, OutboxTypes, PTL DEF OutboxSpec

(* The same of mounts.                                                     *)
LEMMA MountTyped == MountSpec => []MountTypeOK
BY MountStart, MountTypes, PTL DEF MountSpec

(* The same of commands and lists.                                         *)
LEMMA CommandsTyped == CommandsSpec => []CommandsTypeOK
BY CommandsStart, CommandsTypes, PTL DEF CommandsSpec

(* The invariants of these parts contain their types.                      *)
LEMMA TypesInside ==
    /\ DiscoveryInv => DiscoveryTypeOK
    /\ HandshakeInv => HandshakeTypeOK
    /\ DispatchInv => DispatchTypeOK
    /\ ResumeInv => TypeOK
    /\ PopupsInv => PopupsTypeOK
    /\ ArmingInv => ArmingTypeOK
    /\ InboxInv => InboxTypeOK
    /\ PlayersInv => PlayersTypeOK
<1>1. PlayersInv => PlayersTypeOK
  <2> SUFFICES ASSUME PlayersInv PROVE PlayersTypeOK
    OBVIOUS
  <2>1. /\ owner \in [PlayerNames -> 0..MaxChanges] /\ plays \subseteq PlayerNames
        /\ watcher \in {"starting", "listed", "watching"} /\ matched \subseteq PlayerNames
        /\ shown \in [Owners -> 0..Cardinality(PlayerNames)]
    BY DEF PlayersInv, BusShapes, WatcherShapes, Owned
  <2>2. /\ media.player \in [Displays -> PlayerNames \union {NoName}]
        /\ media.state \in [Displays -> {"unknown", "playing", "stopped"}]
        /\ media.gen \in 0..MaxPollers /\ media.paused \subseteq Displays
    BY DEF PlayersInv, HasHandle, Media, Named, States
  <2>3. media.handle \in {0, media.gen}
    BY DEF PlayersInv, HasHandle
  <2> QED
    BY <2>1, <2>2, <2>3 DEF PlayersTypeOK
<1> QED
  BY <1>1 DEF DiscoveryInv, HandshakeInv, DispatchInv, ResumeInv, PopupsInv,
     PopupShapes, ArmingInv, InboxInv

(* PartsInvariant: the variables of the part that is the subject have      *)
(* their types, and a command that runs can be stopped (runcommand), art   *)
(* that has come is shown (mpris), a ring is heard (findthisdevice), the   *)
(* runs of a hook keep their distance (hooks), input comes out in order    *)
(* and is not left behind (mousepad, presenter), and answers are told      *)
(* apart (the client's shared session).                                    *)
THEOREM PartsAlwaysHold == PartsSpec => []PartsInvariant
<1>1. PartsSpec => [](/\ DiscoveryTypeOK /\ HandshakeTypeOK /\ DispatchTypeOK
                      /\ FramingTypeOK /\ RequestsTypeOK /\ TypeOK)
  BY PartsAreThemselves, DiscoveryInvariant, HandshakeInvariant, DispatchInvariant,
     FramingTypes, RequestsTypes, ResumeInvariant, TypesInside, PTL
<1>2. PartsSpec => [](/\ HooksTypeOK /\ StatusTypeOK /\ PopupsTypeOK
                      /\ ArmingTypeOK /\ ContactsTypeOK /\ ClipboardTypeOK)
  BY PartsAreThemselves, HooksTypes, StatusTypes, PopupsInvariant, ArmingInvariant,
     ContactsTyped, ClipboardTyped, TypesInside, PTL
<1>3. PartsSpec => [](/\ InboxTypeOK /\ OutboxTypeOK /\ MountTypeOK
                      /\ CommandsTypeOK /\ PlayersTypeOK /\ RemoteMediaTypeOK)
  BY PartsAreThemselves, InboxInvariant, OutboxTyped, MountTyped, CommandsTyped,
     PlayersInvariant, RemoteMediaTypes, TypesInside, PTL
<1>4. PartsSpec => [](/\ SoundTypeOK /\ LockTypeOK /\ PadTypeOK
                      /\ PresenterTypeOK /\ PenTypeOK)
  BY PartsAreThemselves, SoundTypes, LockTypes, PadTypes, PresenterTypes,
     PenTypesHold, PTL
<1>5. PartsSpec => [](/\ LiveIsStoppable /\ ArtIsShown /\ RingIsHeard
                      /\ RunsAreApart)
  BY PartsAreThemselves, LiveAlwaysStoppable, ArtAlwaysShown, RingAlwaysHeard,
     RunsAlwaysApart, PTL
<1>6. PartsSpec => [](InputInOrder /\ NoInputStranded /\ AnswersAreOwn)
  BY PartsAreThemselves, InputAlwaysInOrder, InputNeverStranded, AnswersAlwaysOwn, PTL
<1>7. /\ DiscoveryTypeOK /\ HandshakeTypeOK /\ DispatchTypeOK /\ FramingTypeOK
      /\ RequestsTypeOK /\ TypeOK /\ HooksTypeOK /\ StatusTypeOK /\ PopupsTypeOK
      /\ ArmingTypeOK /\ ContactsTypeOK /\ ClipboardTypeOK /\ InboxTypeOK
      /\ OutboxTypeOK /\ MountTypeOK /\ CommandsTypeOK /\ PlayersTypeOK
      /\ RemoteMediaTypeOK /\ SoundTypeOK /\ LockTypeOK /\ PadTypeOK
      /\ PresenterTypeOK /\ PenTypeOK
      => PartsTypeOK
  BY DEF PartsTypeOK
<1> QED
  BY <1>1, <1>2, <1>3, <1>4, <1>5, <1>6, <1>7, PTL DEF PartsInvariant

(* What is proved of the other parts is true of the whole as well, and so  *)
(* of what the run of the parts explores.                                  *)
THEOREM PartsKeepTheirWord ==
    PartsSpec => [](/\ GapIsExact /\ ResumeMissesNothing /\ ResumedViewIsCurrent
                    /\ EphemeralAtMostOnce /\ LinkIsPinned /\ NoUseAfterRecycle
                    /\ FramedLines /\ SignalIsTold /\ TabletsAreReachable
                    /\ RepostSurvives /\ WatchedIsArmed /\ ReceivedIsKept
                    /\ OnePositionPoller)
BY PartsAreThemselves, GapAlwaysExact, WatchMissesNothing, WatchViewIsCurrent,
   DialledAtMostOnce, LinksAlwaysPinned, PacketsNeverReused, PacketsAreLines,
   SignalAlwaysTold, TabletsAlwaysReachable, RepostAlwaysSurvives, WatchedAlwaysArmed,
   ReceivedAlwaysKept, PollersAlwaysOne, PTL

=============================================================================
