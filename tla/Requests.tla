------------------------------ MODULE Requests ------------------------------
(***************************************************************************)
(* Requests over the local socket: a connection of the IPC server          *)
(* (internal/ipc, server.go and handler.go) and the persistent session of  *)
(* the client library (pkg/client, persistent.go) that several goroutines  *)
(* of one program share.                                                   *)
(*                                                                         *)
(* The server reads line by line and gives every request a goroutine of    *)
(* its own, so that answers may be written in another order than that of   *)
(* the requests; they bear the number of their request.  The session sends *)
(* one request at a time, takes the next line for its answer and does not  *)
(* look at the number.                                                     *)
(*                                                                         *)
(* Abstracted: what the commands do and how long they take; the contents   *)
(* of requests and answers, but for the number and the verdict.  watch is  *)
(* in Watch; here it is a request that a session is refused.               *)
(***************************************************************************)
EXTENDS Naturals, Sequences, FiniteSets

CONSTANTS
    Callers, \* goroutines that share the session
    MaxCalls \* bound: requests of the session, hello included

ASSUME RequestsAssumption == MaxCalls \in Nat \ {0}

(* What is known of a command: it is registered and reads only, it changes *)
(* something, it panics, it is a watch, or nobody knows it.                *)
RequestKinds == {"reads", "changes", "panics", "watch", "unregistered"}

VARIABLES
    readOnly,   \* the connection is to the read-only socket
    sessionAt,  \* the session: "none", "greeting", "open", "closed"
    serverAt,   \* the connection in the server: "none", "first", "loop", "draining", "closed"
    upstream,   \* requests on their way to the server
    workers,    \* requests that a goroutine of the server handles
    downstream, \* answers on their way to the client
    calling,    \* callers in Call, between the mutex and the answer
    nextId,     \* Session.next
    asked,      \* per caller: the number of its last request, 0 before
    answer,     \* per caller: the answer to its last call, or NoAnswer
    lapsed      \* history: a call has run into its deadline

requestsVars ==
    <<readOnly, sessionAt, serverAt, upstream, workers, downstream, calling,
      nextId, asked, answer, lapsed>>

NoAnswer == [id |-> 0, says |-> "error"]
Numbered == [id : 0..MaxCalls, says : {"done", "denied", "unsupported", "unknown", "internal"}]

RequestsInit ==
    /\ readOnly \in BOOLEAN
    /\ sessionAt = "none" /\ serverAt = "none"
    /\ upstream = <<>> /\ workers = {} /\ downstream = <<>>
    /\ calling = {} /\ nextId = 1
    /\ asked = [c \in Callers |-> 0]
    /\ answer = [c \in Callers |-> NoAnswer]
    /\ lapsed = FALSE

-----------------------------------------------------------------------------
(* The server.                                                             *)

(* readOnlyCommand.                                                        *)
ReadOnlyCommand(cmd) == cmd \in {"hello", "reads"}

(* The answer of write and of HandleRequest; a panic is caught.            *)
Answered(r) ==
    [id |-> r.id,
     says |-> CASE readOnly /\ ~ReadOnlyCommand(r.cmd) -> "denied"
                [] r.cmd = "panics"                    -> "internal"
                [] r.cmd = "unregistered"              -> "unknown"
                [] OTHER                               -> "done"]

(* writeResponseID: one line at a time.                                    *)
WriteResponse(a) == downstream' = Append(downstream, a)

(* serve: every connection gets a goroutine that reads its requests.       *)
Serve == serverAt = "none" /\ serverAt' = "first"

(* The first request, hello with keepAlive, is answered in the loop's own  *)
(* goroutine.                                                              *)
HandleHello ==
    /\ serverAt = "first" /\ upstream # <<>>
    /\ upstream' = Tail(upstream)
    /\ WriteResponse(Answered(Head(upstream)))
    /\ serverAt' = "loop"
    /\ UNCHANGED <<readOnly, sessionAt, workers, calling, nextId, asked,
                   answer, lapsed>>

(* The next request: a watch is refused there and then, any other gets a   *)
(* goroutine.                                                              *)
ReadRequest ==
    /\ serverAt = "loop" /\ upstream # <<>>
    /\ LET r == Head(upstream) IN
        IF r.cmd = "watch"
        THEN WriteResponse([id |-> r.id, says |-> "unsupported"]) /\ UNCHANGED workers
        ELSE workers' = workers \union {r} /\ UNCHANGED downstream
    /\ upstream' = Tail(upstream)
    /\ UNCHANGED <<readOnly, sessionAt, serverAt, calling, nextId, asked,
                   answer, lapsed>>

WorkerAnswers(r) ==
    /\ r \in workers
    /\ workers' = workers \ {r}
    /\ WriteResponse(Answered(r))
    /\ UNCHANGED <<readOnly, sessionAt, serverAt, upstream, calling, nextId,
                   asked, answer, lapsed>>

(* The read fails: the client has gone, or the deadline that was set when  *)
(* the loop began is over, whatever was read meanwhile.                    *)
StopReading ==
    /\ serverAt \in {"first", "loop"}
    /\ serverAt' = IF serverAt = "first" THEN "closed" ELSE "draining"
    /\ UNCHANGED <<readOnly, sessionAt, upstream, workers, downstream, calling,
                   nextId, asked, answer, lapsed>>

(* The connection is closed when its goroutines are done.                  *)
CloseConnection ==
    /\ serverAt = "draining" /\ workers = {}
    /\ serverAt' = "closed"
    /\ UNCHANGED <<readOnly, sessionAt, upstream, workers, downstream, calling,
                   nextId, asked, answer, lapsed>>

-----------------------------------------------------------------------------
(* The session.                                                            *)

(* writeRequest.                                                           *)
WriteRequest(cmd) ==
    /\ upstream' = Append(upstream, [id |-> nextId, cmd |-> cmd])
    /\ nextId' = nextId + 1

(* OpenKeepAlive dials and says hello ...                                  *)
OpenKeepAlive ==
    /\ sessionAt = "none"
    /\ sessionAt' = "greeting" /\ Serve
    /\ WriteRequest("hello")
    /\ UNCHANGED <<readOnly, workers, downstream, calling, asked, answer, lapsed>>

(* ... and there is no session when the answer does not come in time.      *)
Greeted ==
    /\ sessionAt = "greeting"
    /\ \/ downstream # <<>> /\ downstream' = Tail(downstream) /\ sessionAt' = "open"
       \/ sessionAt' = "closed" /\ UNCHANGED downstream
    /\ UNCHANGED <<readOnly, serverAt, upstream, workers, calling, nextId, asked,
                   answer, lapsed>>

(* Call: the mutex is held from the request to the answer.  A connection   *)
(* that is closed takes no request.                                        *)
Call_Unlocked(c, cmd) ==
    /\ sessionAt = "open" /\ serverAt # "closed" /\ nextId <= MaxCalls
    /\ calling' = calling \union {c}
    /\ asked' = [asked EXCEPT ![c] = nextId]
    /\ answer' = [answer EXCEPT ![c] = NoAnswer]
    /\ WriteRequest(cmd)
    /\ UNCHANGED <<readOnly, sessionAt, serverAt, workers, downstream, lapsed>>

Call(c, cmd) ==
    /\ sessionAt = "open" /\ serverAt # "closed" /\ nextId <= MaxCalls
    /\ calling = {} /\ calling' = {c}
    /\ asked' = [asked EXCEPT ![c] = nextId]
    /\ answer' = [answer EXCEPT ![c] = NoAnswer]
    /\ WriteRequest(cmd)
    /\ UNCHANGED <<readOnly, sessionAt, serverAt, workers, downstream, lapsed>>

(* readResponse: the next line, whatever its number.                       *)
ReadResponse(c) ==
    /\ c \in calling /\ downstream # <<>>
    /\ answer' = [answer EXCEPT ![c] = Head(downstream)]
    /\ downstream' = Tail(downstream)
    /\ calling' = calling \ {c}
    /\ UNCHANGED <<readOnly, sessionAt, serverAt, upstream, workers, nextId,
                   asked, lapsed>>

(* The deadline of the call is over, or the connection is: an error, and   *)
(* the session may be used on.                                             *)
CallFails(c) ==
    /\ c \in calling
    /\ lapsed' = TRUE
    /\ calling' = calling \ {c}
    /\ UNCHANGED <<readOnly, sessionAt, serverAt, upstream, workers, downstream,
                   nextId, asked, answer>>

(* Close.                                                                  *)
CloseSession ==
    /\ sessionAt = "open" /\ calling = {}
    /\ sessionAt' = "closed" /\ downstream' = <<>>
    /\ UNCHANGED <<readOnly, serverAt, upstream, workers, calling, nextId, asked,
                   answer, lapsed>>

RequestsNext ==
    \/ HandleHello \/ ReadRequest \/ StopReading \/ CloseConnection
    \/ \E r \in workers : WorkerAnswers(r)
    \/ OpenKeepAlive \/ Greeted \/ CloseSession
    \/ \E c \in Callers :
        \/ \E cmd \in RequestKinds : Call(c, cmd)
        \/ ReadResponse(c) \/ CallFails(c)

RequestsSpec == RequestsInit /\ [][RequestsNext]_requestsVars

-----------------------------------------------------------------------------
(* Properties.                                                             *)

RequestsTypeOK ==
    /\ readOnly \in BOOLEAN /\ lapsed \in BOOLEAN
    /\ sessionAt \in {"none", "greeting", "open", "closed"}
    /\ serverAt \in {"none", "first", "loop", "draining", "closed"}
    /\ \A r \in workers : r.id \in 2..MaxCalls /\ r.cmd \in RequestKinds
    /\ \A i \in DOMAIN upstream : upstream[i].id \in 1..MaxCalls
    /\ \A i \in DOMAIN downstream : downstream[i] \in Numbered
    /\ calling \subseteq Callers
    /\ nextId \in 1..(MaxCalls + 1)
    /\ asked \in [Callers -> 0..MaxCalls]
    /\ answer \in [Callers -> Numbered \union {NoAnswer}]

(* The goroutines that share a session get the answers to their own        *)
(* requests, although the server handles requests out of order - as long   *)
(* as no call has run into its deadline.  After one has, its late answer   *)
(* is taken for that of the next call, and so on for every later one.      *)
AnswersAreOwn ==
    \A c \in Callers : answer[c] # NoAnswer => answer[c].id = asked[c] \/ lapsed

=============================================================================
