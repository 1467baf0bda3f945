------------------------------ MODULE Transfers ------------------------------
(***************************************************************************)
(* Files to and from the phone (internal/plugins/share, with               *)
(* internal/transport and internal/fsutil).                                *)
(*                                                                         *)
(* A file travels beside the session, over a TLS connection of its own.    *)
(* Inbox: every shared file is received by a goroutine into a temporary    *)
(* file that replaces its destination at the end.  Outbox: every file sent *)
(* has a listener on a port of the range until the phone has come for it.  *)
(* The two share nothing.                                                  *)
(*                                                                         *)
(* Abstracted: contents (a file is the transfer it came from), progress    *)
(* events, permissions and times, the names of files: all transfers ask    *)
(* for one name, and the n-th candidate of fsutil is the number n.         *)
(***************************************************************************)
EXTENDS Integers, FiniteSetsExt

CONSTANTS
    Incoming, \* transfers from the phone
    Outgoing, \* transfers to the phone
    LastName, \* bound: the candidates 0..LastName (10000 in the code)
    PortMax   \* ports 1..PortMax

ASSUME TransfersAssumption ==
    /\ LastName \in Nat /\ PortMax \in Nat
    /\ "absent" \notin Incoming /\ "empty" \notin Incoming

VARIABLES
    overwrite, \* the configuration
    folder,    \* the download directory: per name what is there
    inboxAt,   \* per transfer: where its goroutine is
    dest,      \* its destination
    sized,     \* transfers whose packet declared a size
    arrived    \* what came through: nothing, too little, all, too much

inboxVars == <<overwrite, folder, inboxAt, dest, sized, arrived>>

VARIABLES
    outboxAt, \* per transfer: where its goroutine is
    port,     \* the port it listens on, 0 when it does not
    invited   \* its packet: none, queued, or seen by the phone

outboxVars == <<outboxAt, port, invited>>

-----------------------------------------------------------------------------
(* Inbox.                                                                  *)

Candidates == 0..LastName

InboxInit ==
    /\ overwrite \in BOOLEAN
    /\ folder \in [Candidates -> {"absent"}]
    /\ inboxAt = [t \in Incoming |-> "idle"]
    /\ dest = [t \in Incoming |-> 0]
    /\ sized \in SUBSET Incoming
    /\ arrived = [t \in Incoming |-> "nothing"]

InboxTo(t, place) == inboxAt' = [inboxAt EXCEPT ![t] = place]

EnsureUnique_LooksOnly(n) ==
    /\ folder[n] = "absent"
    /\ \A m \in 0..(n - 1) : folder[m] # "absent"
    /\ UNCHANGED folder

(* The first name that nobody has, which is taken by an empty file.        *)
EnsureUnique(n) ==
    /\ folder[n] = "absent"
    /\ \A m \in 0..(n - 1) : folder[m] # "absent"
    /\ folder' = [folder EXCEPT ![n] = "empty"]

(* Handle: the name is made unique also when it will not be used.          *)
HandleShare(t) ==
    /\ inboxAt[t] = "idle"
    /\ \E n \in Candidates :
        /\ EnsureUnique(n)
        /\ dest' = [dest EXCEPT ![t] = IF overwrite THEN 0 ELSE n]
    /\ InboxTo(t, "dialling")
    /\ UNCHANGED <<overwrite, sized, arrived>>

(* No room, no connection, or the wrong certificate.                       *)
DialSidechannel(t) ==
    /\ inboxAt[t] = "dialling"
    /\ InboxTo(t, "receiving") \/ InboxTo(t, "failed")
    /\ UNCHANGED <<overwrite, folder, dest, sized, arrived>>

(* The copy into the temporary file ends: at the end of the stream, one    *)
(* byte past the limit, or with an error.  Without a declared size the end *)
(* of the stream is the end of the file.                                   *)
ReceivedWell(t, amount) == amount = "all" \/ (amount = "less" /\ t \notin sized)

ReceivePayload(t) ==
    /\ inboxAt[t] = "receiving"
    /\ \E amount \in {"less", "all", "more"} :
        /\ arrived' = [arrived EXCEPT ![t] = amount]
        /\ \/ ReceivedWell(t, amount) /\ InboxTo(t, "received")
           \/ InboxTo(t, "failed")
    /\ UNCHANGED <<overwrite, folder, dest, sized>>

(* Rename.  The temporary file is removed wherever the function returns.   *)
ReplaceDestination(t) ==
    /\ inboxAt[t] = "received"
    /\ folder' = [folder EXCEPT ![dest[t]] = t]
    /\ InboxTo(t, "kept")
    /\ UNCHANGED <<overwrite, dest, sized, arrived>>

(* The user takes a file away.                                             *)
UserMoves(n) ==
    /\ folder[n] \in Incoming /\ inboxAt[folder[n]] = "kept"
    /\ InboxTo(folder[n], "moved")
    /\ folder' = [folder EXCEPT ![n] = "absent"]
    /\ UNCHANGED <<overwrite, dest, sized, arrived>>

InboxNext ==
    \/ \E t \in Incoming :
        \/ HandleShare(t) \/ DialSidechannel(t) \/ ReceivePayload(t)
        \/ ReplaceDestination(t)
    \/ \E n \in Candidates : UserMoves(n)

InboxSpec == InboxInit /\ [][InboxNext]_inboxVars

-----------------------------------------------------------------------------
(* Outbox.                                                                 *)

Ports == 1..PortMax

OutboxInit ==
    /\ outboxAt = [s \in Outgoing |-> "idle"]
    /\ port = [s \in Outgoing |-> 0]
    /\ invited = [s \in Outgoing |-> "none"]

OutboxTo(s, place) == outboxAt' = [outboxAt EXCEPT ![s] = place]

FreePorts == {p \in Ports : \A s \in Outgoing : port[s] # p}

(* AcceptAndSend returns, with or without an error: its listener closes.   *)
SendEnds(s) ==
    /\ OutboxTo(s, "over")
    /\ port' = [port EXCEPT ![s] = 0]

(* SendFile: the first free port is listened on, the transfer goes on in   *)
(* the background and the packet is queued, or dropped by a full queue.    *)
(* Without a port the command fails.                                       *)
SendFile(s) ==
    /\ outboxAt[s] = "idle"
    /\ IF FreePorts = {}
       THEN OutboxTo(s, "over") /\ UNCHANGED <<port, invited>>
       ELSE /\ OutboxTo(s, "accepting")
            /\ port' = [port EXCEPT ![s] = Min(FreePorts)]
            /\ \E fate \in {"queued", "lost"} :
                invited' = [invited EXCEPT ![s] = fate]

InvitationArrives(s) ==
    /\ invited[s] = "queued"
    /\ \E fate \in {"seen", "lost"} : invited' = [invited EXCEPT ![s] = fate]
    /\ UNCHANGED <<outboxAt, port>>

(* The phone connects, and passes the checks; or it does not, or somebody  *)
(* else connects: one connection is all that is accepted.                  *)
AcceptConnection(s) ==
    /\ outboxAt[s] = "accepting"
    /\ \/ invited[s] = "seen" /\ OutboxTo(s, "streaming") /\ UNCHANGED port
       \/ SendEnds(s)
    /\ UNCHANGED invited

(* Nobody connects: the context closes the listener.                       *)
AcceptTimeout(s) ==
    /\ outboxAt[s] = "accepting"
    /\ SendEnds(s)
    /\ UNCHANGED invited

(* The file is sent, or the connection has been idle for too long.         *)
StreamFile(s) ==
    /\ outboxAt[s] = "streaming"
    /\ SendEnds(s)
    /\ UNCHANGED invited

(* Each wait of a send has its limit.                                      *)
WaitEnds(s) == AcceptTimeout(s) \/ StreamFile(s)

OutboxNext ==
    \E s \in Outgoing :
        \/ SendFile(s) \/ InvitationArrives(s) \/ AcceptConnection(s)
        \/ WaitEnds(s)

OutboxSpec == OutboxInit /\ [][OutboxNext]_outboxVars

-----------------------------------------------------------------------------
(* Properties.                                                             *)

InboxTypeOK ==
    /\ overwrite \in BOOLEAN
    /\ folder \in [Candidates -> {"absent", "empty"} \union Incoming]
    /\ inboxAt \in [Incoming -> {"idle", "dialling", "receiving", "received",
                                 "kept", "moved", "failed"}]
    /\ dest \in [Incoming -> Candidates] /\ sized \subseteq Incoming
    /\ arrived \in [Incoming -> {"nothing", "less", "all", "more"}]

OutboxTypeOK ==
    /\ outboxAt \in [Outgoing -> {"idle", "accepting", "streaming", "over"}]
    /\ port \in [Outgoing -> 0..PortMax]
    /\ invited \in [Outgoing -> {"none", "queued", "lost", "seen"}]

(* A file that was received whole is where it was announced to be until    *)
(* the user takes it: no transfer of the same name that ran at the same    *)
(* time has replaced it, and it is not the beginning of a file.            *)
ReceivedIsKept ==
    \A t \in Incoming : inboxAt[t] = "kept" =>
        /\ ~overwrite => folder[dest[t]] = t
        /\ t \in sized => arrived[t] = "all"

=============================================================================
