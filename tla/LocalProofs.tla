----------------------------- MODULE LocalProofs ------------------------------
(***************************************************************************)
(* What programs and users of this computer rely on, for every number of   *)
(* callers, executions, workers, sessions, posts and transfers: the        *)
(* answers of a shared session, commands that can be stopped, hooks that   *)
(* keep their distance, messages that are asked for, popups that stay and  *)
(* files that are kept.  The parts share no state; each has its own        *)
(* specification and invariant.                                            *)
(***************************************************************************)
EXTENDS Requests, Commands, Hooks, Arming, Popups, Transfers, TLAPS

-----------------------------------------------------------------------------
(* Requests: every caller gets its own answer.                             *)

(* What goes up, and what comes down.                                      *)
Request  == [id : Nat, cmd : RequestKinds \union {"hello"}]
Response == [id : Nat, says : {"done", "denied", "unsupported", "unknown",
                               "internal", "error"}]

(* The types the proof needs.                                              *)
RequestShapes ==
    /\ upstream \in Seq(Request) /\ workers \subseteq Request
    /\ downstream \in Seq(Response)
    /\ calling \subseteq Callers /\ nextId \in Nat
    /\ asked \in [Callers -> Nat] /\ answer \in [Callers -> Response]

NoneInFlight == upstream = <<>> /\ workers = {} /\ downstream = <<>>

OneInFlight ==
    \/ \E r \in Request : upstream = <<r>> /\ workers = {} /\ downstream = <<>>
    \/ \E r \in Request : upstream = <<>> /\ workers = {r} /\ downstream = <<>>
    \/ \E a \in Response : upstream = <<>> /\ workers = {} /\ downstream = <<a>>

InFlightIsAsked(c) ==
    /\ \A i \in DOMAIN upstream : upstream[i].id = asked[c]
    /\ \A r \in workers : r.id = asked[c]
    /\ \A i \in DOMAIN downstream : downstream[i].id = asked[c]

(* While no call has lapsed the session has at most one message under way, *)
(* on the way up, in the server or on the way down: that of the caller who *)
(* has the mutex, and none when nobody has it.                             *)
InTurn ==
    /\ NoneInFlight \/ OneInFlight
    /\ \A c, d \in calling : c = d
    /\ \A c \in calling : InFlightIsAsked(c)
    /\ sessionAt = "open" \/ calling = {}
    /\ sessionAt = "none" => NoneInFlight
    /\ sessionAt = "open" /\ calling = {} => NoneInFlight

RequestsInv == RequestShapes /\ AnswersAreOwn /\ (~lapsed => InTurn)

(* An answer bears the number of its request.                              *)
LEMMA AnsweredIsResponse ==
    ASSUME NEW r \in Request PROVE Answered(r) \in Response /\ Answered(r).id = r.id
BY DEF Request, Response, Answered

(* What leaves one place for the next leaves nothing behind.               *)
LEMMA HandOver ==
    ASSUME RequestShapes, InTurn
    PROVE  /\ upstream # <<>> => /\ Tail(upstream) = <<>>
                                  /\ workers = {} /\ downstream = <<>>
           /\ downstream # <<>> => /\ Tail(downstream) = <<>>
                                    /\ workers = {} /\ upstream = <<>>
           /\ \A r \in workers : workers = {r} /\ upstream = <<>> /\ downstream = <<>>
<1>1. CASE NoneInFlight BY <1>1 DEF NoneInFlight
<1>2. ASSUME NEW r \in Request, upstream = <<r>>, workers = {}, downstream = <<>>
      PROVE  Tail(upstream) = <<>>
  BY <1>2
<1>3. ASSUME NEW a \in Response, upstream = <<>>, workers = {}, downstream = <<a>>
      PROVE  Tail(downstream) = <<>>
  BY <1>3
<1> QED BY <1>1, <1>2, <1>3 DEF InTurn, OneInFlight

(* Every step of Requests preserves the invariant.                         *)
LEMMA RequestsInductive ==
    ASSUME RequestsInv, [RequestsNext]_requestsVars PROVE RequestsInv'
<1> USE DEF RequestsInv
<1>1. CASE HandleHello
  <2> DEFINE a == Answered(Head(upstream))
  <2>1. Head(upstream) \in Request /\ a \in Response /\ a.id = Head(upstream).id
    BY <1>1, AnsweredIsResponse DEF HandleHello, RequestShapes
  <2> HIDE DEF a
  <2>2. /\ upstream' = Tail(upstream) /\ upstream # <<>>
        /\ downstream' = Append(downstream, a)
        /\ UNCHANGED <<sessionAt, workers, calling, nextId, asked, answer, lapsed>>
    BY <1>1 DEF HandleHello, WriteResponse, a
  <2>3. RequestShapes' /\ AnswersAreOwn'
    BY <2>1, <2>2 DEF RequestShapes, AnswersAreOwn
  <2>4. ASSUME ~lapsed PROVE InTurn'
    <3>1. upstream' = <<>> /\ workers' = {} /\ downstream' = <<a>>
      BY <2>2, <2>4, HandOver
    <3>2. \A c \in calling : a.id = asked[c]
      BY <2>1, <2>2, <2>4 DEF InTurn, InFlightIsAsked, RequestShapes
    <3> QED BY <2>1, <2>2, <2>4, <3>1, <3>2 DEF InTurn, NoneInFlight,
               OneInFlight, InFlightIsAsked
  <2> QED BY <2>2, <2>3, <2>4
<1>2. CASE ReadRequest
  <2> DEFINE r == Head(upstream)
             a == [id |-> r.id, says |-> "unsupported"]
  <2>0. r \in Request
    BY <1>2 DEF ReadRequest, RequestShapes
  <2>1. r \in Request /\ a \in Response /\ a.id = r.id
    BY <2>0 DEF Request, Response
  <2> HIDE DEF r, a
  <2>2. /\ upstream' = Tail(upstream) /\ upstream # <<>>
        /\ \/ downstream' = Append(downstream, a) /\ UNCHANGED workers
           \/ workers' = workers \union {r} /\ UNCHANGED downstream
        /\ UNCHANGED <<sessionAt, calling, nextId, asked, answer, lapsed>>
    BY <1>2 DEF ReadRequest, WriteResponse, r, a
  <2>3. RequestShapes' /\ AnswersAreOwn'
    <3>1. upstream' \in Seq(Request) BY <2>2 DEF RequestShapes
    <3>2. workers' \subseteq Request /\ downstream' \in Seq(Response)
      <4>1. CASE downstream' = Append(downstream, a) /\ UNCHANGED workers
        BY <2>1, <4>1 DEF RequestShapes
      <4>2. CASE workers' = workers \union {r} /\ UNCHANGED downstream
        BY <2>1, <4>2 DEF RequestShapes
      <4> QED BY <2>2, <4>1, <4>2
    <3> QED BY <2>2, <3>1, <3>2 DEF RequestShapes, AnswersAreOwn
  <2>4. ASSUME ~lapsed PROVE InTurn'
    <3>1. upstream' = <<>> /\ \/ workers' = {} /\ downstream' = <<a>>
                              \/ workers' = {r} /\ downstream' = <<>>
      <4>1. upstream' = <<>> /\ workers = {} /\ downstream = <<>>
        BY <2>2, <2>4, HandOver
      <4> QED BY <2>2, <4>1
    <3>2. \A c \in calling : r.id = asked[c]
      BY <2>1, <2>2, <2>4 DEF InTurn, InFlightIsAsked, RequestShapes, r
    <3> QED BY <2>1, <2>2, <2>4, <3>1, <3>2 DEF InTurn, NoneInFlight,
               OneInFlight, InFlightIsAsked
  <2> QED BY <2>2, <2>3, <2>4
<1>3. ASSUME NEW r \in workers, WorkerAnswers(r) PROVE RequestsInv'
  <2> DEFINE a == Answered(r)
  <2>1. r \in Request /\ a \in Response /\ a.id = r.id
    BY <1>3, AnsweredIsResponse DEF RequestShapes
  <2> HIDE DEF a
  <2>2. /\ workers' = workers \ {r} /\ downstream' = Append(downstream, a)
        /\ UNCHANGED <<sessionAt, upstream, calling, nextId, asked, answer, lapsed>>
    BY <1>3 DEF WorkerAnswers, WriteResponse, a
  <2>3. RequestShapes' /\ AnswersAreOwn'
    BY <2>1, <2>2 DEF RequestShapes, AnswersAreOwn
  <2>4. ASSUME ~lapsed PROVE InTurn'
    <3>1. upstream' = <<>> /\ workers' = {} /\ downstream' = <<a>>
      <4>1. workers = {r} /\ upstream = <<>> /\ downstream = <<>>
        BY <1>3, <2>4, HandOver
      <4> QED BY <2>2, <4>1
    <3>2. \A c \in calling : a.id = asked[c]
      BY <2>1, <2>4 DEF InTurn, InFlightIsAsked
    <3>3. sessionAt # "none" /\ ~(sessionAt = "open" /\ calling = {})
      BY <2>4 DEF InTurn, NoneInFlight
    <3> QED BY <2>1, <2>2, <2>4, <3>1, <3>2, <3>3 DEF InTurn, NoneInFlight,
               OneInFlight, InFlightIsAsked
  <2> QED BY <2>2, <2>3, <2>4
<1>4. CASE StopReading \/ CloseConnection \/ UNCHANGED requestsVars
  BY <1>4 DEF StopReading, CloseConnection, requestsVars, RequestShapes,
     AnswersAreOwn,
              InTurn, NoneInFlight, OneInFlight, InFlightIsAsked
<1>5. CASE OpenKeepAlive
  <2> DEFINE r == [id |-> nextId, cmd |-> "hello"]
  <2>1. r \in Request BY DEF Request, RequestShapes
  <2> HIDE DEF r
  <2>2. /\ sessionAt = "none" /\ sessionAt' = "greeting"
        /\ upstream' = Append(upstream, r) /\ nextId' = nextId + 1
        /\ UNCHANGED <<workers, downstream, calling, asked, answer, lapsed>>
    BY <1>5 DEF OpenKeepAlive, WriteRequest, r
  <2>3. RequestShapes' /\ AnswersAreOwn'
    BY <2>1, <2>2 DEF RequestShapes, AnswersAreOwn
  <2>4. ASSUME ~lapsed PROVE InTurn'
    <3>1. upstream' = <<r>> /\ workers' = {} /\ downstream' = <<>> /\ calling = {}
      BY <2>1, <2>2, <2>4 DEF InTurn, NoneInFlight
    <3> QED BY <2>1, <2>2, <3>1 DEF InTurn, NoneInFlight, OneInFlight
  <2> QED BY <2>2, <2>3, <2>4
<1>6. CASE Greeted
  <2>1. RequestShapes' /\ AnswersAreOwn'
    <3>1. downstream' \in Seq(Response)
      <4>1. CASE downstream # <<>> /\ downstream' = Tail(downstream)
        BY <4>1 DEF RequestShapes
      <4>2. CASE UNCHANGED downstream
        BY <4>2 DEF RequestShapes
      <4> QED BY <1>6, <4>1, <4>2 DEF Greeted
    <3> QED BY <1>6, <3>1 DEF Greeted, RequestShapes, AnswersAreOwn
  <2>2. ASSUME ~lapsed PROVE InTurn'
    <3>1. calling = {} /\ calling' = {}
      BY <1>6, <2>2 DEF Greeted, InTurn
    <3>2. CASE downstream # <<>> /\ downstream' = Tail(downstream) /\ sessionAt' = "open"
      <4>1. upstream' = <<>> /\ workers' = {} /\ downstream' = <<>>
        <5>1. workers = {} /\ upstream = <<>> /\ Tail(downstream) = <<>>
          BY <2>2, <3>2, HandOver
        <5> QED BY <1>6, <3>2, <5>1 DEF Greeted
      <4> QED BY <3>1, <3>2, <4>1 DEF InTurn, NoneInFlight
    <3>3. CASE sessionAt' = "closed" /\ UNCHANGED downstream
      BY <1>6, <2>2, <3>1, <3>3 DEF Greeted, InTurn, NoneInFlight, OneInFlight
    <3> QED BY <1>6, <3>2, <3>3 DEF Greeted
  <2> QED BY <1>6, <2>1, <2>2 DEF Greeted
<1>7. CASE CloseSession
  <2>1. RequestShapes' /\ AnswersAreOwn'
    BY <1>7 DEF CloseSession, RequestShapes, AnswersAreOwn
  <2>2. ASSUME ~lapsed PROVE InTurn'
    BY <1>7, <2>2 DEF CloseSession, InTurn, NoneInFlight
  <2> QED BY <1>7, <2>1, <2>2 DEF CloseSession
<1>8. ASSUME NEW c \in Callers, NEW cmd \in RequestKinds, Call(c, cmd)
      PROVE  RequestsInv'
  <2> DEFINE r == [id |-> nextId, cmd |-> cmd]
  <2>1. r \in Request /\ r.id = nextId BY DEF Request, RequestShapes
  <2> HIDE DEF r
  <2>2. /\ sessionAt = "open" /\ calling = {} /\ calling' = {c}
        /\ upstream' = Append(upstream, r) /\ nextId' = nextId + 1
        /\ asked' = [asked EXCEPT ![c] = nextId]
        /\ answer' = [answer EXCEPT ![c] = NoAnswer]
        /\ UNCHANGED <<sessionAt, workers, downstream, lapsed>>
    BY <1>8 DEF Call, WriteRequest, r
  <2>3. RequestShapes' /\ AnswersAreOwn'
    BY <2>1, <2>2 DEF RequestShapes, AnswersAreOwn, NoAnswer, Response
  <2>4. ASSUME ~lapsed PROVE InTurn'
    <3>1. upstream' = <<r>> /\ workers' = {} /\ downstream' = <<>>
      BY <2>1, <2>2, <2>4 DEF InTurn, NoneInFlight
    <3>2. asked'[c] = r.id BY <2>1, <2>2 DEF RequestShapes
    <3> QED BY <2>1, <2>2, <3>1, <3>2 DEF InTurn, NoneInFlight, OneInFlight,
               InFlightIsAsked
  <2> QED BY <2>2, <2>3, <2>4
<1>9. ASSUME NEW c \in Callers, ReadResponse(c) PROVE RequestsInv'
  <2>1. RequestShapes'
    BY <1>9 DEF ReadResponse, RequestShapes
  <2>2. ASSUME ~lapsed PROVE AnswersAreOwn' /\ InTurn'
    <3>1. upstream' = <<>> /\ workers' = {} /\ downstream' = <<>> /\ calling' = {}
      <4>1. workers = {} /\ upstream = <<>> /\ Tail(downstream) = <<>>
        BY <1>9, <2>2, HandOver DEF ReadResponse
      <4>2. calling' = {} BY <1>9, <2>2 DEF ReadResponse, InTurn
      <4> QED BY <1>9, <4>1, <4>2 DEF ReadResponse
    <3>2. Head(downstream).id = asked[c]
      BY <1>9, <2>2 DEF ReadResponse, InTurn, InFlightIsAsked, RequestShapes
    <3>3. /\ answer' = [answer EXCEPT ![c] = Head(downstream)]
          /\ UNCHANGED <<asked, lapsed, sessionAt>>
      BY <1>9 DEF ReadResponse
    <3> QED BY <3>1, <3>2, <3>3 DEF AnswersAreOwn, InTurn, NoneInFlight,
               RequestShapes
  <2>3. lapsed => AnswersAreOwn' BY <1>9 DEF ReadResponse, AnswersAreOwn
  <2> QED BY <1>9, <2>1, <2>2, <2>3 DEF ReadResponse
<1>10. ASSUME NEW c \in Callers, CallFails(c) PROVE RequestsInv'
  BY <1>10 DEF CallFails, RequestShapes, AnswersAreOwn
<1> HIDE DEF RequestsInv
<1> QED BY <1>1, <1>2, <1>3, <1>4, <1>5, <1>6, <1>7, <1>8, <1>9, <1>10 DEF
           RequestsNext

(* The invariant holds of the session and its connection.                  *)
LEMMA RequestsInvariant == RequestsSpec => []RequestsInv
<1>1. RequestsInit => RequestsInv
  BY DEF RequestsInit, RequestsInv, RequestShapes, AnswersAreOwn, InTurn,
     NoneInFlight,
         InFlightIsAsked, NoAnswer, Response
<1> QED
  BY <1>1, RequestsInductive, PTL DEF RequestsSpec

(* AnswersAreOwn: a caller of Session.Call gets the answer to its own      *)
(* request until some call has run into its deadline.                      *)
THEOREM AnswersAlwaysOwn == RequestsSpec => []AnswersAreOwn
<1>1. RequestsInv => AnswersAreOwn BY DEF RequestsInv
<1> QED
  BY <1>1, RequestsInvariant, PTL

-----------------------------------------------------------------------------
(* Commands: what runs can be stopped.                                     *)

(* The types the proof needs.                                              *)
ExecPlaces ==
    execAt \in [Execs -> {"none", "launched", "registered", "streaming", "finish",
                          "over"}]

CommandsInv == ExecPlaces /\ LiveIsStoppable

(* Every step of an execution, of those that stop it and of the sessions   *)
(* preserves it.                                                           *)
LEMMA CommandsInductive ==
    ASSUME CommandsInv, [CommandsNext \/ ListsNext]_commandVars PROVE CommandsInv'
<1> USE DEF CommandsInv, ExecPlaces, LiveIsStoppable
<1>1. ASSUME NEW e \in Execs, Launch(e) \/ Register(e) PROVE CommandsInv'
  BY <1>1 DEF Launch, Register, ExecTo, stops
<1>2. ASSUME NEW e \in Execs, StartProcess(e) \/ StreamEnds(e) PROVE CommandsInv'
  BY <1>2 DEF StartProcess, StreamEnds, ExecTo, stops
<1>3. ASSUME NEW e \in Execs, FinishOutput(e) PROVE CommandsInv'
  BY <1>3 DEF FinishOutput, ExecTo
<1>4. ASSUME NEW e \in Execs, TimeOut(e) \/ stopRunning(e) \/ CallCancel(e)
      PROVE  CommandsInv'
  BY <1>4 DEF TimeOut, stopRunning, CallCancel, stops
<1>5. ASSUME NEW e \in Execs,
             AddLine(e) \/ FlushOutput(e) \/ ProcessEnds(e) \/ ClosePipes(e)
      PROVE  CommandsInv'
  BY <1>5 DEF AddLine, FlushOutput, ProcessEnds, ClosePipes, stops
<1>6. CASE StopEverything \/ OnDisconnected
  BY <1>6 DEF StopEverything, OnDisconnected, stopAll
<1>7. CASE PhoneLeaves \/ PhoneReturns \/ UNCHANGED commandVars
  BY <1>7 DEF PhoneLeaves, PhoneReturns, commandVars, executions, stops
<1>8. CASE ListsNext
  BY <1>8 DEF ListsNext, RequestList, ListReturns, DeliverCommandList, executions,
              stops
<1> HIDE DEF CommandsInv
<1> QED
  BY <1>1, <1>2, <1>3, <1>4, <1>5, <1>6, <1>7, <1>8 DEF CommandsNext, ExecStep

(* The invariant holds of every execution.                                 *)
LEMMA CommandsInvariant == CommandsSpec => []CommandsInv
<1>1. CommandsInit => CommandsInv
  BY DEF CommandsInit, CommandsInv, ExecPlaces, LiveIsStoppable
<1> QED
  BY <1>1, CommandsInductive, PTL DEF CommandsSpec

(* LiveIsStoppable: the cancel function of an execution that runs          *)
(* uncancelled is in the map, where stop and OnDisconnect find it, or with *)
(* a goroutine that took it out and is about to call it.                   *)
THEOREM LiveAlwaysStoppable == CommandsSpec => []LiveIsStoppable
<1>1. CommandsInv => LiveIsStoppable BY DEF CommandsInv
<1> QED
  BY <1>1, CommandsInvariant, PTL

-----------------------------------------------------------------------------
(* Hooks: runs of one hook are apart.                                      *)

(* The types the proof needs.                                              *)
HookTimes ==
    /\ eventsDue \in Seq(HookDevices)
    /\ \A w \in HookWorkers : workerStep[w] # "free" => workerOn[w] \in HookDevices
    /\ workerOn \in [HookWorkers -> HookDevices \union {Free}]
    /\ workerStep \in [HookWorkers -> {"free", "clock", "check", "run"}]
    /\ workerNow \in [HookWorkers -> 0..MaxTime]
    /\ clock \in 0..MaxTime
    /\ startedAt \in [HookDevices -> Seq(0..MaxTime)]

(* Runner.last is the last run there was.                                  *)
LastIsLast ==
    /\ lastRun \in [HookDevices -> 0..Never]
    /\ Debounce > 0 => \A d \in HookDevices :
        startedAt[d] # <<>> => lastRun[d] = startedAt[d][Len(startedAt[d])]

HooksInv == HookTimes /\ LastIsLast /\ RunsAreApart

(* Every step of Hooks preserves the invariant.                            *)
LEMMA HooksInductive ==
    ASSUME HooksInv, [HooksNext]_hooksVars PROVE HooksInv'
<1> USE HooksAssumption DEF HooksInv
<1>1. ASSUME NEW d \in HookDevices, PublishEvent(d) PROVE HooksInv'
  BY <1>1 DEF PublishEvent, HookTimes, LastIsLast, RunsAreApart
<1>2. CASE TakeEvent
  <2>1. /\ eventsDue # <<>> /\ eventsDue' = Tail(eventsDue)
        /\ UNCHANGED <<lastRun, startedAt, clock, workerNow>>
    BY <1>2 DEF TakeEvent
  <2>2. LastIsLast' /\ RunsAreApart'
    BY <2>1 DEF LastIsLast, RunsAreApart
  <2>3. Head(eventsDue) \in HookDevices /\ eventsDue' \in Seq(HookDevices)
    BY <2>1 DEF HookTimes
  <2>4. CASE UNCHANGED <<workerOn, workerStep>>
    BY <2>1, <2>2, <2>3, <2>4 DEF HookTimes
  <2>5. ASSUME NEW w \in HookWorkers,
               workerOn' = [workerOn EXCEPT ![w] = Head(eventsDue)],
               workerStep' = [workerStep EXCEPT ![w] = "clock"]
        PROVE  HooksInv'
    BY <2>1, <2>2, <2>3, <2>5 DEF HookTimes
  <2> QED BY <1>2, <2>4, <2>5 DEF TakeEvent
<1>3. CASE HooksStop \/ UNCHANGED hooksVars
  BY <1>3 DEF HooksStop, hooksVars, HookTimes, LastIsLast, RunsAreApart
<1>4. CASE Tick
  BY <1>4 DEF Tick, HookTimes, LastIsLast, RunsAreApart
<1>5. ASSUME NEW w \in HookWorkers, ReadClock(w) PROVE HooksInv'
  BY <1>5 DEF ReadClock, HookTimes, LastIsLast, RunsAreApart
<1>6. ASSUME NEW w \in HookWorkers, CheckDebounce(w) PROVE HooksInv'
  <2> DEFINE d == workerOn[w]
             t == workerNow[w]
  <2>1. d \in HookDevices /\ t \in 0..MaxTime
    BY <1>6 DEF CheckDebounce, HookTimes
  <2>2. CASE Debounced(w)
    BY <1>6, <2>2 DEF CheckDebounce, Done, HookTimes, LastIsLast, RunsAreApart
  <2>3. CASE ~Debounced(w)
    <3>1. /\ startedAt' = [startedAt EXCEPT ![d] = Append(@, t)]
          /\ workerStep' = [workerStep EXCEPT ![w] = "run"]
          /\ lastRun' = IF Debounce > 0 THEN [lastRun EXCEPT ![d] = t] ELSE lastRun
          /\ UNCHANGED <<workerOn, eventsDue, workerNow, clock>>
      BY <1>6, <2>3 DEF CheckDebounce, Stamp
    <3>2. HookTimes'
      BY <2>1, <3>1 DEF HookTimes
    <3>3. lastRun' \in [HookDevices -> 0..Never]
      BY <2>1, <3>1 DEF LastIsLast, Never
    <3>4. /\ startedAt'[d] = Append(startedAt[d], t)
          /\ startedAt[d] \in Seq(0..MaxTime)
          /\ \A e \in HookDevices \ {d} : startedAt'[e] = startedAt[e]
      BY <2>1, <3>1 DEF HookTimes
    <3>5. LastIsLast'
      BY <2>1, <3>1, <3>3, <3>4 DEF LastIsLast
    <3>6. ASSUME Debounce > 0, NEW e \in HookDevices, NEW i \in 2..Len(startedAt'[e])
          PROVE  startedAt'[e][i] - startedAt'[e][i - 1] >= Debounce
      <4>1. CASE e # d
        BY <3>4, <3>6, <4>1 DEF RunsAreApart
      <4>2. CASE e = d /\ i <= Len(startedAt[d])
        <5>1. i \in 2..Len(startedAt[d]) BY <3>6, <3>4, <4>2
        <5>2. /\ startedAt'[d][i] = startedAt[d][i]
              /\ startedAt'[d][i - 1] = startedAt[d][i - 1]
          BY <2>1, <3>4, <5>1
        <5>3. startedAt[d][i] - startedAt[d][i - 1] >= Debounce
          BY <2>1, <3>6, <5>1 DEF RunsAreApart
        <5> QED BY <4>2, <5>2, <5>3
      <4>3. CASE e = d /\ i = Len(startedAt[d]) + 1
        <5>1. /\ startedAt'[d][i] = t
              /\ startedAt'[d][i - 1] = startedAt[d][Len(startedAt[d])]
          BY <2>1, <3>4, <3>6, <4>3
        <5>2. /\ lastRun[d] = startedAt[d][Len(startedAt[d])]
              /\ lastRun[d] \in 0..MaxTime
          BY <2>1, <3>4, <3>6, <4>3 DEF LastIsLast
        <5>3. t - lastRun[d] >= Debounce
          BY <2>1, <2>3, <3>6, <5>2 DEF Debounced, Never
        <5> QED BY <4>3, <5>1, <5>2, <5>3
      <4> QED BY <2>1, <3>4, <3>6, <4>1, <4>2, <4>3
    <3> QED BY <3>2, <3>5, <3>6 DEF RunsAreApart
  <2> QED BY <2>2, <2>3
<1>7. ASSUME NEW w \in HookWorkers, HookEnds(w) PROVE HooksInv'
  BY <1>7 DEF HookEnds, Done, HookTimes, LastIsLast, RunsAreApart
<1> HIDE DEF HooksInv
<1> QED BY <1>1, <1>2, <1>3, <1>4, <1>5, <1>6, <1>7 DEF HooksNext

(* The invariant holds of the workers.                                     *)
LEMMA HooksInvariant == HooksSpec => []HooksInv
<1>1. HooksInit => HooksInv
  BY HooksAssumption DEF HooksInit, HooksInv, HookTimes, LastIsLast,
     RunsAreApart, Never
<1> QED
  BY <1>1, HooksInductive, PTL DEF HooksSpec

(* RunsAreApart: debounced lets no two runs of a hook for one device come  *)
(* closer than the debounce time.                                          *)
THEOREM RunsAlwaysApart == HooksSpec => []RunsAreApart
<1>1. HooksInv => RunsAreApart BY DEF HooksInv
<1> QED
  BY <1>1, HooksInvariant, PTL

-----------------------------------------------------------------------------
(* Arming: who watches is served.                                          *)

(* Only OnConnect can find the mark of an earlier session, which it        *)
(* removes.  A device without a mark that somebody should be told of is    *)
(* still before a caller of syncArming, who will mark it.                  *)
MarkIsComing ==
    /\ smsTracked \/ "OnConnect" \in callbacks => sessions # 0
    /\ "OnConnect" \notin callbacks => armedAt \in {0, sessions}
    /\ watched /\ smsTracked /\ armedAt = 0 /\ "OnConnect" \notin callbacks
           => \E s \in Syncers : syncAt[s] # "idle"

(* The inductive invariant.                                                *)
ArmingInv == ArmingTypeOK /\ MarkIsComing

(* The types.                                                              *)
LEMMA ArmingTypes ==
    ASSUME ArmingInv, [ArmingNext]_armingVars PROVE ArmingTypeOK'
<1> USE ArmingAssumption DEF ArmingInv, ArmingTypeOK
<1>1. CASE SmsPhoneConnects BY <1>1 DEF SmsPhoneConnects
<1>2. CASE SmsPhoneDisconnects
  <2>1. streaming' \in BOOLEAN BY <1>2 DEF SmsPhoneDisconnects
  <2>2. callbacks' \subseteq {"OnConnect", "OnDisconnect"} /\ smsSession' \in 0..MaxSessions
    BY <1>2 DEF SmsPhoneDisconnects
  <2> QED BY <1>2, <2>1, <2>2 DEF SmsPhoneDisconnects
<1>3. CASE OnConnect \/ OnDisconnect
  <2>0. callbacks' \subseteq callbacks /\ armedAt' = 0 /\ smsTracked' \in BOOLEAN
    BY <1>3 DEF OnConnect, OnDisconnect
  <2>1. callbacks' \subseteq {"OnConnect", "OnDisconnect"} /\ armedAt' \in 0..MaxSessions
    BY <2>0
  <2>2. syncAt' \in [Syncers -> {"idle", "look", "mark"}]
    BY <1>3 DEF OnConnect, OnDisconnect, SyncTo
  <2> QED BY <1>3, <2>1, <2>2 DEF OnConnect, OnDisconnect
<1>4. CASE SubscribersChange BY <1>4 DEF SubscribersChange, SyncTo
<1>5. ASSUME NEW s \in Syncers, SyncLooks(s) PROVE ArmingTypeOK'
  BY <1>5 DEF SyncLooks, SyncTo
<1>6. ASSUME NEW s \in Syncers, SyncMarks(s) PROVE ArmingTypeOK'
  <2>1. syncAt' \in [Syncers -> {"idle", "look", "mark"}]
    BY <1>6 DEF SyncMarks, SyncTo
  <2>2. armedAt' \in 0..MaxSessions /\ arming' \subseteq 1..MaxSessions
    <3>1. smsTracked => sessions \in 1..MaxSessions BY DEF MarkIsComing
    <3>2. \/ smsTracked /\ armedAt' = sessions /\ arming' = arming \union {sessions}
          \/ UNCHANGED <<armedAt, arming>>
      BY <1>6 DEF SyncMarks
    <3> QED BY <3>1, <3>2
  <2> QED BY <1>6, <2>1, <2>2 DEF SyncMarks
<1>7. ASSUME NEW a \in 1..MaxSessions, RequestConversations(a) PROVE ArmingTypeOK'
  <2>1. streaming' \in BOOLEAN BY <1>7 DEF RequestConversations
  <2> QED BY <1>7, <2>1 DEF RequestConversations
<1>8. ASSUME NEW age \in {"old", "new"}, HandleMessages(age) PROVE ArmingTypeOK'
  BY <1>8 DEF HandleMessages
<1>9. CASE UNCHANGED armingVars BY <1>9 DEF armingVars
<1> QED BY <1>1, <1>2, <1>3, <1>4, <1>5, <1>6, <1>7, <1>8, <1>9 DEF ArmingNext

(* Every step of Arming preserves the invariant.                           *)
LEMMA ArmingInductive ==
    ASSUME ArmingInv, [ArmingNext]_armingVars PROVE ArmingInv'
<1> USE DEF MarkIsComing
<1>t. /\ sessions \in Nat /\ syncAt \in [Syncers -> {"idle", "look", "mark"}]
      /\ MarkIsComing
  BY DEF ArmingInv, ArmingTypeOK
<1>1. CASE SmsPhoneConnects
  <2>1. sessions' # 0 /\ "OnConnect" \in callbacks'
    BY <1>t, <1>1 DEF SmsPhoneConnects
  <2> QED BY <2>1, ArmingTypes DEF ArmingInv
<1>2. CASE SmsPhoneDisconnects
  <2>1. /\ "OnConnect" \in callbacks' <=> "OnConnect" \in callbacks
        /\ UNCHANGED <<sessions, smsTracked, armedAt, watched, syncAt>>
    BY <1>2 DEF SmsPhoneDisconnects
  <2> QED BY <1>t, <2>1, ArmingTypes DEF ArmingInv
<1>3. CASE OnConnect
  <2>1. /\ sessions' # 0 /\ armedAt' = 0 BY <1>t, <1>3 DEF OnConnect
  <2>2. "connect" \in Syncers /\ syncAt'["connect"] = "look"
    BY <1>t, <1>3 DEF OnConnect, SyncTo, Syncers
  <2> QED BY <2>1, <2>2, ArmingTypes DEF ArmingInv
<1>4. CASE OnDisconnect
  <2>1. /\ "OnConnect" \in callbacks' <=> "OnConnect" \in callbacks
        /\ ~smsTracked' /\ armedAt' = 0 /\ UNCHANGED sessions
    BY <1>4 DEF OnDisconnect
  <2> QED BY <1>t, <2>1, ArmingTypes DEF ArmingInv
<1>5. CASE SubscribersChange
  <2>1. UNCHANGED <<sessions, callbacks, smsTracked, armedAt>>
    BY <1>5 DEF SubscribersChange
  <2>2. "bus" \in Syncers /\ syncAt'["bus"] = "look"
    BY <1>t, <1>5 DEF SubscribersChange, SyncTo, Syncers
  <2> QED BY <1>t, <2>1, <2>2, ArmingTypes DEF ArmingInv
<1>6. ASSUME NEW s \in Syncers, SyncLooks(s) PROVE ArmingInv'
  <2>1. UNCHANGED <<sessions, callbacks, smsTracked, armedAt, watched>>
    BY <1>6 DEF SyncLooks
  <2>2. watched => syncAt'[s] = "mark" BY <1>t, <1>6 DEF SyncLooks, SyncTo
  <2> QED BY <1>6, <1>t, <2>1, <2>2, ArmingTypes DEF ArmingInv
<1>7. ASSUME NEW s \in Syncers, SyncMarks(s) PROVE ArmingInv'
  <2>1. UNCHANGED <<sessions, callbacks, smsTracked, watched>>
    BY <1>7 DEF SyncMarks
  <2>2. IF smsTracked /\ armedAt = 0 THEN armedAt' = sessions ELSE armedAt' = armedAt
    BY <1>7 DEF SyncMarks
  <2> QED BY <1>t, <2>1, <2>2, ArmingTypes DEF ArmingInv
<1>8. ASSUME UNCHANGED <<sessions, callbacks, smsTracked, armedAt, watched, syncAt>>
      PROVE  ArmingInv'
  BY <1>t, <1>8, ArmingTypes DEF ArmingInv
<1> QED
  BY <1>1, <1>2, <1>3, <1>4, <1>5, <1>6, <1>7, <1>8
  DEF ArmingNext, armingVars, RequestConversations, HandleMessages

(* The invariant holds of those who arm.                                   *)
LEMMA ArmingInvariant == ArmingSpec => []ArmingInv
<1>1. ArmingInit => ArmingInv
  <2>1. ASSUME ArmingInit PROVE ArmingTypeOK
    <3>1. syncAt \in [Syncers -> {"idle", "look", "mark"}] BY <2>1 DEF ArmingInit
    <3>2. smsSession \in 0..MaxSessions /\ sessions \in 0..MaxSessions /\ armedAt \in 0..MaxSessions
      BY <2>1, ArmingAssumption DEF ArmingInit
    <3> QED BY <2>1, <3>1, <3>2 DEF ArmingInit, ArmingTypeOK
  <2>2. ASSUME ArmingInit PROVE MarkIsComing BY <2>2 DEF ArmingInit, MarkIsComing
  <2> QED BY <2>1, <2>2 DEF ArmingInv
<1> QED
  BY <1>1, ArmingInductive, PTL DEF ArmingSpec

(* WatchedIsArmed: whoever watches sms.incoming, the phone has been asked  *)
(* for its messages in this session, in whatever order OnConnect, the hook *)
(* of the bus and the goroutines of syncArming run.                        *)
THEOREM WatchedAlwaysArmed == ArmingSpec => []WatchedIsArmed
<1>1. ArmingInv => WatchedIsArmed
  BY DEF ArmingInv, MarkIsComing, WatchedIsArmed, ArmingQuiet
<1> QED
  BY <1>1, ArmingInvariant, PTL

-----------------------------------------------------------------------------
(* Popups: a re-post keeps its popup.                                      *)

(* The types, of the number of timers too.                                 *)
PopupShapes == PopupsTypeOK /\ timers \in 0..MaxCancels

(* What is to be closed now or later belongs to a post before the one the  *)
(* phone shows.                                                            *)
ClosesAreOld ==
    /\ posted \in {0, posts} /\ notifID <= posts
    /\ \A v \in Posts : over[v] <= posts /\ (shower[v] # "idle" => v <= posts)
    /\ \A t \in Timers : wants[t] <= posts /\ (posted # 0 => wants[t] < posted)
    /\ \A i \in closing : i <= posts /\ (posted # 0 => i < posted)

(* When updates open popups of their own, each post has its own, and it is *)
(* on the screen while the phone shows the post.                           *)
OwnPopups ==
    ~replaces =>
        /\ \A v \in Posts : /\ over[v] \in {0, v}
                            /\ shower[v] \in {"idle", "fetch", "send"} => over[v] = 0
        /\ posted # 0 /\ over[posted] # 0 => popup[posted] = posted

(* The inductive invariant.                                                *)
PopupsInv == PopupShapes /\ ClosesAreOld /\ OwnPopups

(* Stop leaves a timer one.                                                *)
LEMMA StoppedTypes ==
    ASSUME PopupShapes
    PROVE  (IF pendingClose = 0 THEN timer ELSE Stopped(pendingClose))
                \in [Timers -> {"none", "armed", "fired"}]
BY DEF PopupShapes, PopupsTypeOK, Stopped

(* The types.                                                              *)
LEMMA PopupTypes == ASSUME PopupShapes, ClosesAreOld, [PopupsNext]_popupVars PROVE PopupShapes'
<1> USE DEF PopupShapes, PopupsTypeOK, Posts, Timers, ShowerAt
<1>a. MaxPosts \in Nat /\ MaxCancels \in Nat BY PopupsAssumption
<1>1. CASE HandleNotification
  <2>1. posts' \in 0..MaxPosts /\ posted' \in 0..MaxPosts
    BY <1>a, <1>1 DEF HandleNotification
  <2>2. shower' \in [Posts -> {"idle", "fetch", "send", "store", "done"}]
    BY <1>1 DEF HandleNotification
  <2> QED BY <1>1, <2>1, <2>2 DEF HandleNotification
<1>2. ASSUME NEW v \in Posts, BeginShow(v) PROVE PopupShapes'
  <2>1. shower' \in [Posts -> {"idle", "fetch", "send", "store", "done"}]
    BY <1>2 DEF BeginShow
  <2>2. over' \in [Posts -> 0..MaxPosts] /\ pendingClose' \in 0..MaxCancels
    <3>1. \/ over' = [over EXCEPT ![v] = notifID] /\ pendingClose' = 0
          \/ UNCHANGED <<over, pendingClose>>
      BY <1>2 DEF BeginShow
    <3>2. over' \in [Posts -> 0..MaxPosts]
      <4>1. CASE over' = [over EXCEPT ![v] = notifID] BY <4>1
      <4> QED BY <3>1, <4>1
    <3>3. pendingClose' \in 0..MaxCancels BY <1>a, <3>1
    <3> QED BY <3>2, <3>3
  <2>3. timer' \in [Timers -> {"none", "armed", "fired"}]
    BY <1>2, StoppedTypes DEF BeginShow
  <2> QED BY <1>2, <2>1, <2>2, <2>3 DEF BeginShow
<1>3. ASSUME NEW v \in Posts, NotifySend(v) PROVE PopupShapes'
  <2> DEFINE id == IF over[v] = 0 THEN v ELSE over[v]
  <2>1. id \in 0..MaxPosts /\ v \in 0..MaxPosts BY <1>a
  <2>2. \/ popup' = [popup EXCEPT ![id] = v] /\ over' = [over EXCEPT ![v] = id]
        \/ UNCHANGED <<popup, over>>
    BY <1>3 DEF NotifySend
  <2> HIDE DEF id
  <2>3. over' \in [Posts -> 0..MaxPosts] /\ popup' \in [Posts -> 0..MaxPosts]
    BY <2>1, <2>2
  <2>4. shower' \in [Posts -> {"idle", "fetch", "send", "store", "done"}]
    BY <1>3 DEF NotifySend
  <2> QED BY <1>3, <2>3, <2>4 DEF NotifySend
<1>4. ASSUME NEW v \in Posts, StoreNotifID(v) PROVE PopupShapes'
  <2>1. shower' \in [Posts -> {"idle", "fetch", "send", "store", "done"}]
    BY <1>4 DEF StoreNotifID
  <2> QED BY <1>4, <2>1 DEF StoreNotifID
<1>5. CASE CancelWithoutPopup \/ CancelAtOnce \/ Dismiss
  <2>1. closing' \subseteq Posts /\ posted' \in 0..MaxPosts /\ notifID' \in 0..MaxPosts
    <3>1. notifID # 0 => notifID \in Posts BY <1>a
    <3>2. closing' \subseteq closing \union {notifID} /\ (closing' = closing \/ notifID # 0)
      BY <1>5 DEF CancelWithoutPopup, CancelAtOnce, Dismiss
    <3>3. posted' = 0 /\ notifID' \in {notifID, 0}
      BY <1>5 DEF CancelWithoutPopup, CancelAtOnce, Dismiss
    <3> QED BY <1>a, <3>1, <3>2, <3>3
  <2> QED BY <1>5, <2>1 DEF CancelWithoutPopup, CancelAtOnce, Dismiss
<1>6. CASE CancelWithGrace
  <2>1. timers + 1 \in Timers /\ posted' \in 0..MaxPosts
    BY <1>a, <1>6 DEF CancelWithGrace
  <2>2. timer' \in [Timers -> {"none", "armed", "fired"}]
    BY <1>6, StoppedTypes DEF CancelWithGrace
  <2>3. wants' \in [Timers -> 0..MaxPosts] BY <1>6 DEF CancelWithGrace
  <2>4. timers' \in 0..MaxCancels /\ pendingClose' \in 0..MaxCancels
    BY <1>a, <1>6, <2>1 DEF CancelWithGrace
  <2> QED BY <1>6, <2>1, <2>2, <2>3, <2>4 DEF CancelWithGrace
<1>7. ASSUME NEW t \in Timers, GraceEnds(t) PROVE PopupShapes'
  <2>1. timer' \in [Timers -> {"none", "armed", "fired"}] BY <1>7 DEF GraceEnds
  <2> QED BY <1>7, <2>1 DEF GraceEnds
<1>8. ASSUME NEW t \in Timers, CloseDeferred(t) PROVE PopupShapes'
  <2>1. timer' \in [Timers -> {"none", "armed", "fired"}]
    BY <1>8 DEF CloseDeferred
  <2>2. closing' \subseteq Posts /\ notifID' \in 0..MaxPosts /\ pendingClose' \in 0..MaxCancels
    BY <1>a, <1>8 DEF CloseDeferred
  <2> QED BY <1>8, <2>1, <2>2 DEF CloseDeferred
<1>9. ASSUME NEW i \in Posts, CloseNotification(i) PROVE PopupShapes'
  <2>1. popup' \in [Posts -> 0..MaxPosts] BY <1>a, <1>9 DEF CloseNotification
  <2>2. closing' \subseteq Posts BY <1>9 DEF CloseNotification
  <2> QED BY <1>9, <2>1, <2>2 DEF CloseNotification
<1>10. CASE UNCHANGED popupVars BY <1>10 DEF popupVars
<1> QED BY <1>1, <1>2, <1>3, <1>4, <1>5, <1>6, <1>7, <1>8, <1>9, <1>10 DEF
           PopupsNext

(* A popup bears the number of a post there has been.                      *)
LEMMA ClosesStayOld ==
    ASSUME PopupShapes, ClosesAreOld, [PopupsNext]_popupVars PROVE ClosesAreOld'
<1> USE DEF Posts, Timers, ShowerAt
<1>i. /\ posts \in Nat /\ posted \in Nat /\ notifID \in Nat
      /\ wants \in [Timers -> Nat] /\ timers \in Nat
      /\ shower \in [Posts -> {"idle", "fetch", "send", "store", "done"}]
      /\ over \in [Posts -> Nat] /\ closing \subseteq Posts /\ ClosesAreOld
  BY PopupsAssumption DEF PopupShapes, PopupsTypeOK
<1> USE DEF ClosesAreOld
<1>1. CASE HandleNotification BY <1>i, <1>1 DEF HandleNotification
<1>2. ASSUME NEW v \in Posts, shower[v] # "idle", NEW place, ShowerAt(v, place),
             UNCHANGED <<posts, posted, wants, closing>>,
             NEW id \in {over[v], v, notifID}, over' = [over EXCEPT ![v] = id],
             notifID' \in {notifID, over[v]}
      PROVE  ClosesAreOld'
  BY <1>i, <1>2
<1>s. ASSUME NEW v \in Posts PROVE over = [over EXCEPT ![v] = over[v]]
  BY <1>i
<1>3. ASSUME NEW v \in Posts, BeginShow(v) PROVE ClosesAreOld'
  <2>1. PICK id \in {over[v], notifID} : over' = [over EXCEPT ![v] = id]
    BY <1>3, <1>s DEF BeginShow
  <2> QED BY <1>2, <1>3, <2>1 DEF BeginShow
<1>4. ASSUME NEW v \in Posts, NotifySend(v) PROVE ClosesAreOld'
  <2>1. PICK id \in {over[v], v} : over' = [over EXCEPT ![v] = id]
    BY <1>4, <1>s DEF NotifySend
  <2>2. PICK place : ShowerAt(v, place) BY <1>4 DEF NotifySend
  <2> QED BY <1>2, <1>4, <2>1, <2>2 DEF NotifySend
<1>5. ASSUME NEW v \in Posts, StoreNotifID(v) PROVE ClosesAreOld'
  <2>1. over' = [over EXCEPT ![v] = over[v]] BY <1>5, <1>s DEF StoreNotifID
  <2> QED BY <1>2, <1>5, <2>1 DEF StoreNotifID
<1>6. CASE CancelWithoutPopup BY <1>i, <1>6 DEF CancelWithoutPopup
<1>7. CASE CancelAtOnce \/ Dismiss
  <2>1. /\ posted' = 0 /\ notifID' = 0 /\ closing' = closing \union {notifID}
        /\ UNCHANGED <<posts, shower, over, wants>>
    BY <1>7 DEF CancelAtOnce, Dismiss
  <2> QED BY <1>i, <2>1
<1>8. CASE CancelWithGrace BY <1>i, <1>8 DEF CancelWithGrace
<1>9. ASSUME NEW t \in Timers, GraceEnds(t) PROVE ClosesAreOld'
  BY <1>i, <1>9 DEF GraceEnds
<1>10. ASSUME NEW t \in Timers, CloseDeferred(t) PROVE ClosesAreOld'
  BY <1>i, <1>10 DEF CloseDeferred
<1>11. ASSUME NEW i \in Posts, CloseNotification(i) PROVE ClosesAreOld'
  BY <1>i, <1>11 DEF CloseNotification
<1>12. CASE UNCHANGED popupVars BY <1>i, <1>12 DEF popupVars
<1> QED
  BY <1>1, <1>3, <1>4, <1>5, <1>6, <1>7, <1>8, <1>9, <1>10, <1>11, <1>12 DEF
     PopupsNext

(* A popup that is open is opened or closed by its own post alone.         *)
LEMMA PopupsStayOwn == ASSUME PopupsInv, [PopupsNext]_popupVars PROVE OwnPopups'
<1> USE DEF Posts, ShowerAt
<1>i. /\ posts \in Nat /\ posted \in Nat /\ posted <= posts /\ posts <= MaxPosts
      /\ MaxPosts \in Nat
      /\ shower \in [Posts -> {"idle", "fetch", "send", "store", "done"}]
      /\ over \in [Posts -> Nat] /\ popup \in [Posts -> Nat] /\ closing \subseteq Posts
      /\ \A v \in Posts : shower[v] # "idle" => v <= posts
      /\ \A i \in closing : posted # 0 => i < posted
  BY PopupsAssumption DEF PopupsInv, PopupShapes, PopupsTypeOK, ClosesAreOld
<1>0. replaces' = replaces
  BY DEF PopupsNext, popupVars, HandleNotification, BeginShow, NotifySend,
     StoreNotifID,
         CancelWithoutPopup, CancelAtOnce, CancelWithGrace, GraceEnds, CloseDeferred,
         Dismiss, CloseNotification
<1>s. SUFFICES ASSUME ~replaces PROVE OwnPopups' BY <1>0 DEF OwnPopups
<1>o. /\ \A v \in Posts : /\ over[v] \in {0, v}
                          /\ shower[v] \in {"idle", "fetch", "send"} => over[v] = 0
      /\ posted # 0 /\ over[posted] # 0 => popup[posted] = posted
  BY <1>s DEF PopupsInv, OwnPopups
<1>1. CASE HandleNotification
  <2>1. /\ posts + 1 \in Posts /\ posted' = posts + 1 /\ UNCHANGED <<over, popup>>
        /\ shower' = [shower EXCEPT ![posts + 1] = "fetch"]
    BY <1>i, <1>1 DEF HandleNotification
  <2>2. shower[posts + 1] = "idle" BY <1>i, <2>1
  <2> QED BY <1>i, <1>o, <2>1, <2>2 DEF OwnPopups
<1>2. ASSUME NEW v \in Posts, BeginShow(v) PROVE OwnPopups'
  <2>1. /\ shower[v] = "fetch" /\ shower' = [shower EXCEPT ![v] = "send"]
        /\ UNCHANGED <<over, popup, posted>>
    BY <1>2, <1>s DEF BeginShow
  <2> QED BY <1>i, <1>o, <2>1 DEF OwnPopups
<1>3. ASSUME NEW v \in Posts, NotifySend(v) PROVE OwnPopups'
  <2>1. shower[v] = "send" /\ over[v] = 0 /\ posted' = posted
    BY <1>3, <1>o DEF NotifySend
  <2>2. CASE /\ popup' = [popup EXCEPT ![v] = v] /\ over' = [over EXCEPT ![v] = v]
             /\ shower' = [shower EXCEPT ![v] = "store"]
    BY <1>i, <1>o, <2>1, <2>2 DEF OwnPopups
  <2>3. CASE shower' = [shower EXCEPT ![v] = "done"] /\ UNCHANGED <<popup, over>>
    BY <1>i, <1>o, <2>1, <2>3 DEF OwnPopups
  <2> QED BY <1>3, <2>1, <2>2, <2>3 DEF NotifySend
<1>4. ASSUME NEW v \in Posts, StoreNotifID(v) PROVE OwnPopups'
  BY <1>i, <1>o, <1>4 DEF StoreNotifID, OwnPopups
<1>5. CASE CancelWithoutPopup \/ CancelAtOnce \/ CancelWithGrace \/ Dismiss
  <2>1. posted' = 0 /\ UNCHANGED <<over, shower>>
    BY <1>5 DEF CancelWithoutPopup, CancelAtOnce, CancelWithGrace, Dismiss
  <2> QED BY <1>o, <2>1 DEF OwnPopups
<1>6. ASSUME NEW i \in Posts, CloseNotification(i) PROVE OwnPopups'
  <2>1. posted # 0 => i # posted BY <1>i, <1>6 DEF CloseNotification
  <2>2. popup' = [popup EXCEPT ![i] = 0] /\ UNCHANGED <<over, shower, posted>>
    BY <1>6 DEF CloseNotification
  <2>3. posted # 0 => posted \in Posts BY <1>i
  <2> QED BY <1>i, <1>o, <2>1, <2>2, <2>3 DEF OwnPopups
<1>7. ASSUME UNCHANGED <<over, shower, posted, popup>> PROVE OwnPopups'
  BY <1>o, <1>7 DEF OwnPopups
<1> QED
  BY <1>1, <1>2, <1>3, <1>4, <1>5, <1>6, <1>7
  DEF PopupsNext, popupVars, GraceEnds, CloseDeferred

(* The invariant holds of the popups.                                      *)
LEMMA PopupsInvariant == PopupsSpec => []PopupsInv
<1>1. PopupsInit => PopupsInv
  <2>1. ASSUME PopupsInit PROVE PopupShapes
    BY <2>1, PopupsAssumption DEF PopupsInit, PopupShapes, PopupsTypeOK, Posts
  <2>2. ASSUME PopupsInit PROVE ClosesAreOld /\ OwnPopups
    BY <2>2, PopupsAssumption DEF PopupsInit, ClosesAreOld, OwnPopups, Posts
  <2> QED BY <2>1, <2>2 DEF PopupsInv
<1>2. PopupsInv /\ [PopupsNext]_popupVars => PopupsInv'
  BY PopupTypes, ClosesStayOld, PopupsStayOwn DEF PopupsInv
<1> QED
  BY <1>1, <1>2, PTL DEF PopupsSpec

(* RepostSurvives: the popup of a re-post is not closed by a close that    *)
(* was deferred before it, though its timer's callback may run long after  *)
(* it has fired: the callback that Handle arms compares the popup it was   *)
(* armed for with the one there is.                                        *)
THEOREM RepostAlwaysSurvives == PopupsSpec => []RepostSurvives
<1>1. PopupsInv => RepostSurvives BY DEF PopupsInv, OwnPopups, RepostSurvives
<1> QED
  BY <1>1, PopupsInvariant, PTL

-----------------------------------------------------------------------------
(* Transfers: a received file is kept.                                     *)

(* Transfers that have a name: it is taken by an empty file until the      *)
(* received one replaces it.                                               *)
Holding(t) == inboxAt[t] \in {"dialling", "receiving", "received", "kept"}

(* Two transfers do not hold one name.                                     *)
NamesAreHeld ==
    ~overwrite =>
        /\ \A t \in Incoming : Holding(t) =>
              folder[dest[t]] = IF inboxAt[t] = "kept" THEN t ELSE "empty"
        /\ \A t, u \in Incoming : Holding(t) /\ Holding(u) /\ dest[t] = dest[u] => t = u

(* Without an error the copy of a file of known size was of that size.     *)
CameWhole ==
    \A t \in sized : inboxAt[t] \in {"received", "kept"} => arrived[t] = "all"

(* The inductive invariant.                                                *)
InboxInv == InboxTypeOK /\ NamesAreHeld /\ CameWhole

(* The types.                                                              *)
LEMMA InboxTypes == ASSUME InboxTypeOK, [InboxNext]_inboxVars PROVE InboxTypeOK'
<1> USE DEF InboxTypeOK, InboxTo
<1>1. ASSUME NEW t \in Incoming, HandleShare(t) PROVE InboxTypeOK'
  <2>1. PICK n \in Candidates : /\ folder' = [folder EXCEPT ![n] = "empty"]
                                /\ dest' = [dest EXCEPT ![t] = IF overwrite THEN 0 ELSE n]
    BY <1>1 DEF HandleShare, EnsureUnique
  <2>2. 0 \in Candidates BY TransfersAssumption DEF Candidates
  <2>3. folder' \in [Candidates -> {"absent", "empty"} \union Incoming]
    BY <2>1
  <2>4. dest' \in [Incoming -> Candidates] BY <2>1, <2>2
  <2>5. inboxAt' \in [Incoming -> {"idle", "dialling", "receiving", "received",
                                   "kept", "moved", "failed"}]
    BY <1>1 DEF HandleShare
  <2> QED BY <1>1, <2>3, <2>4, <2>5 DEF HandleShare
<1>2. ASSUME NEW t \in Incoming, DialSidechannel(t) PROVE InboxTypeOK'
  BY <1>2 DEF DialSidechannel
<1>3. ASSUME NEW t \in Incoming, ReceivePayload(t) PROVE InboxTypeOK'
  <2>1. arrived' \in [Incoming -> {"nothing", "less", "all", "more"}]
    BY <1>3 DEF ReceivePayload
  <2>2. inboxAt' \in [Incoming -> {"idle", "dialling", "receiving", "received",
                                   "kept", "moved", "failed"}]
    BY <1>3 DEF ReceivePayload
  <2> QED BY <1>3, <2>1, <2>2 DEF ReceivePayload
<1>4. ASSUME NEW t \in Incoming, ReplaceDestination(t) PROVE InboxTypeOK'
  BY <1>4 DEF ReplaceDestination
<1>5. ASSUME NEW n \in Candidates, UserMoves(n) PROVE InboxTypeOK'
  BY <1>5 DEF UserMoves
<1>6. CASE UNCHANGED inboxVars BY <1>6 DEF inboxVars
<1> QED BY <1>1, <1>2, <1>3, <1>4, <1>5, <1>6 DEF InboxNext

(* Only a transfer without a name takes one, and one that nobody has.      *)
LEMMA NamesStayHeld ==
    ASSUME InboxTypeOK, NamesAreHeld, [InboxNext]_inboxVars PROVE NamesAreHeld'
<1> USE DEF InboxTypeOK, InboxTo, Holding
<1>0. overwrite' = overwrite
  BY DEF InboxNext, inboxVars, HandleShare, DialSidechannel, ReceivePayload,
         ReplaceDestination, UserMoves
<1>s. SUFFICES ASSUME ~overwrite PROVE NamesAreHeld' BY <1>0 DEF NamesAreHeld
<1>h. /\ \A t \in Incoming : Holding(t) =>
            folder[dest[t]] = IF inboxAt[t] = "kept" THEN t ELSE "empty"
      /\ \A t, u \in Incoming : Holding(t) /\ Holding(u) /\ dest[t] = dest[u] => t = u
  BY <1>s DEF NamesAreHeld
<1>1. ASSUME NEW t \in Incoming, HandleShare(t) PROVE NamesAreHeld'
  <2>1. PICK n \in Candidates : /\ folder[n] = "absent"
                                /\ folder' = [folder EXCEPT ![n] = "empty"]
                                /\ dest' = [dest EXCEPT ![t] = n]
    BY <1>1, <1>s DEF HandleShare, EnsureUnique
  <2>2. inboxAt[t] = "idle" /\ inboxAt' = [inboxAt EXCEPT ![t] = "dialling"]
    BY <1>1 DEF HandleShare
  <2>3. ASSUME NEW u \in Incoming, Holding(u) PROVE dest[u] # n /\ u # t
    BY <1>h, <2>1, <2>2, <2>3, TransfersAssumption
  <2>4. dest'[t] = n /\ folder'[n] = "empty" /\ inboxAt'[t] = "dialling"
    BY <2>1, <2>2
  <2>5. ASSUME NEW u \in Incoming, u # t
        PROVE  /\ inboxAt'[u] = inboxAt[u] /\ dest'[u] = dest[u] /\ dest[u] \in Candidates
               /\ dest[u] # n => folder'[dest[u]] = folder[dest[u]]
    BY <2>1, <2>2, <2>5
  <2> QED BY <1>h, <2>3, <2>4, <2>5 DEF NamesAreHeld
<1>2. ASSUME NEW t \in Incoming, DialSidechannel(t) \/ ReceivePayload(t) PROVE NamesAreHeld'
  <2>1. /\ inboxAt[t] \in {"dialling", "receiving"} /\ UNCHANGED <<folder, dest>>
        /\ \/ inboxAt' = [inboxAt EXCEPT ![t] = "receiving"]
           \/ inboxAt' = [inboxAt EXCEPT ![t] = "received"]
           \/ inboxAt' = [inboxAt EXCEPT ![t] = "failed"]
    BY <1>2 DEF DialSidechannel, ReceivePayload
  <2> QED BY <1>h, <2>1 DEF NamesAreHeld
<1>3. ASSUME NEW t \in Incoming, ReplaceDestination(t) PROVE NamesAreHeld'
  <2>1. /\ inboxAt[t] = "received" /\ inboxAt' = [inboxAt EXCEPT ![t] = "kept"]
        /\ folder' = [folder EXCEPT ![dest[t]] = t] /\ dest' = dest /\ dest[t] \in Candidates
    BY <1>3 DEF ReplaceDestination
  <2>2. ASSUME NEW u \in Incoming, Holding(u), u # t PROVE dest[u] # dest[t]
    BY <1>h, <2>1, <2>2
  <2> QED BY <1>h, <2>1, <2>2 DEF NamesAreHeld
<1>4. ASSUME NEW n \in Candidates, UserMoves(n) PROVE NamesAreHeld'
  <2> DEFINE t == folder[n]
  <2>1. /\ t \in Incoming /\ inboxAt[t] = "kept" /\ dest' = dest
        /\ inboxAt' = [inboxAt EXCEPT ![t] = "moved"]
        /\ folder' = [folder EXCEPT ![n] = "absent"]
    BY <1>4 DEF UserMoves
  <2>2. ASSUME NEW u \in Incoming, Holding(u), u # t PROVE dest[u] # n
    <3>1. folder[dest[u]] \in {u, "empty"} BY <1>h, <2>2
    <3> QED BY <2>1, <2>2, <3>1, TransfersAssumption
  <2> HIDE DEF t
  <2> QED BY <1>h, <2>1, <2>2 DEF NamesAreHeld
<1>5. CASE UNCHANGED inboxVars BY <1>h, <1>5 DEF inboxVars, NamesAreHeld
<1> QED BY <1>1, <1>2, <1>3, <1>4, <1>5 DEF InboxNext

(* ReceivePayload looks at the amount before it goes on.                   *)
LEMMA CameWholeStep ==
    ASSUME InboxTypeOK, CameWhole, [InboxNext]_inboxVars PROVE CameWhole'
<1> USE DEF InboxTypeOK, InboxTo, CameWhole
<1>1. ASSUME NEW t \in Incoming, HandleShare(t) PROVE CameWhole'
  BY <1>1 DEF HandleShare
<1>2. ASSUME NEW t \in Incoming, DialSidechannel(t) PROVE CameWhole'
  BY <1>2 DEF DialSidechannel
<1>3. ASSUME NEW t \in Incoming, ReceivePayload(t) PROVE CameWhole'
  BY <1>3 DEF ReceivePayload, ReceivedWell
<1>4. ASSUME NEW t \in Incoming, ReplaceDestination(t) PROVE CameWhole'
  BY <1>4 DEF ReplaceDestination
<1>5. ASSUME NEW n \in Candidates, UserMoves(n) PROVE CameWhole'
  BY <1>5 DEF UserMoves
<1>6. CASE UNCHANGED inboxVars BY <1>6 DEF inboxVars
<1> QED BY <1>1, <1>2, <1>3, <1>4, <1>5, <1>6 DEF InboxNext

(* The invariant holds of every transfer.                                  *)
LEMMA InboxInvariant == InboxSpec => []InboxInv
<1>1. InboxInit => InboxInv
  BY TransfersAssumption
  DEF InboxInit, InboxInv, InboxTypeOK, NamesAreHeld, CameWhole, Holding, Candidates
<1>2. InboxInv /\ [InboxNext]_inboxVars => InboxInv'
  BY InboxTypes, NamesStayHeld, CameWholeStep DEF InboxInv
<1> QED
  BY <1>1, <1>2, PTL DEF InboxSpec

(* ReceivedIsKept: of files that come at the same time under one name each *)
(* has its own, because fsutil.EnsureUnique takes the name it returns, and *)
(* a file whose size was declared is kept only whole.                      *)
THEOREM ReceivedAlwaysKept == InboxSpec => []ReceivedIsKept
<1>1. InboxInv => ReceivedIsKept
  BY DEF InboxInv, InboxTypeOK, NamesAreHeld, CameWhole, Holding, ReceivedIsKept
<1> QED
  BY <1>1, InboxInvariant, PTL

=============================================================================
