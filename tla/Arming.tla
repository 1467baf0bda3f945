------------------------------- MODULE Arming -------------------------------
(***************************************************************************)
(* The SMS plugin (internal/plugins/sms): the phone sends nothing until it *)
(* is asked for its conversations, and from then on everything.  It is     *)
(* asked ("armed") only while somebody watches sms.incoming, once per      *)
(* session, because the answer is a burst of old messages.                 *)
(*                                                                         *)
(* One device, one watcher.  syncArming runs in the goroutine of the       *)
(* connect callback and in that of the bus, which calls it when its        *)
(* subscribers change; it asks in a goroutine of its own.  The callbacks   *)
(* of two sessions that follow each other may change places.               *)
(*                                                                         *)
(* Abstracted: the texts, the limit of a batch, which messages are the     *)
(* user's own, attachments, and the commands that only queue a packet.     *)
(***************************************************************************)
EXTENDS Naturals

CONSTANT
    MaxSessions \* bound: sessions of the device

ASSUME ArmingAssumption == MaxSessions \in Nat

Syncers == {"connect", "bus"}

VARIABLES
    smsSession, \* the current session, 0 when there is none
    sessions,   \* how many there have been
    callbacks,  \* OnConnect and OnDisconnect that have not run yet
    smsTracked, \* devices has the device
    armedAt,    \* it is marked as armed, with the session it was marked in
    watched,    \* sms.incoming has a subscriber
    syncAt,     \* per caller of syncArming: where it is
    arming,     \* goroutines that are about to ask the phone
    streaming,  \* the phone sends every message
    alerts      \* a desktop notification for a message: of old or new ones

armingVars ==
    <<smsSession, sessions, callbacks, smsTracked, armedAt, watched, syncAt, arming,
      streaming, alerts>>

ArmingInit ==
    /\ smsSession = 0 /\ sessions = 0 /\ callbacks = {}
    /\ smsTracked = FALSE /\ armedAt = 0
    /\ watched = FALSE
    /\ syncAt = [s \in Syncers |-> "idle"]
    /\ arming = {} /\ streaming = FALSE /\ alerts = {}

-----------------------------------------------------------------------------
(* Sessions.  The phone keeps streaming over sessions; its app may restart *)
(* between them.                                                           *)
SmsPhoneConnects ==
    /\ smsSession = 0 /\ sessions < MaxSessions
    /\ sessions' = sessions + 1 /\ smsSession' = sessions + 1
    /\ callbacks' = callbacks \union {"OnConnect"}
    /\ UNCHANGED <<smsTracked, armedAt, watched, syncAt, arming, streaming, alerts>>

SmsPhoneDisconnects ==
    /\ smsSession # 0
    /\ "OnConnect" \notin callbacks /\ syncAt["connect"] = "idle"
    /\ smsSession' = 0
    /\ callbacks' = callbacks \union {"OnDisconnect"}
    /\ streaming' \in {streaming, FALSE}
    /\ UNCHANGED <<sessions, smsTracked, armedAt, watched, syncAt, arming, alerts>>

SyncTo(s, place) == syncAt' = [syncAt EXCEPT ![s] = place]

OnConnect_LeavesItToTheBus ==
    /\ "OnConnect" \in callbacks /\ syncAt["connect"] = "idle"
    /\ callbacks' = callbacks \ {"OnConnect"}
    /\ smsTracked' = TRUE /\ armedAt' = 0
    /\ UNCHANGED <<smsSession, sessions, watched, syncAt, arming, streaming,
                   alerts>>

(* The device is tracked and its mark removed, then syncArming.            *)
OnConnect ==
    /\ "OnConnect" \in callbacks /\ syncAt["connect"] = "idle"
    /\ callbacks' = callbacks \ {"OnConnect"}
    /\ smsTracked' = TRUE /\ armedAt' = 0
    /\ SyncTo("connect", "look")
    /\ UNCHANGED <<smsSession, sessions, watched, arming, streaming, alerts>>

OnDisconnect ==
    /\ "OnDisconnect" \in callbacks
    /\ callbacks' = callbacks \ {"OnDisconnect"}
    /\ smsTracked' = FALSE /\ armedAt' = 0
    /\ UNCHANGED <<smsSession, sessions, watched, syncAt, arming, streaming,
                   alerts>>

-----------------------------------------------------------------------------
(* The watcher.  Subscribe and Unsubscribe return after the hook has run.  *)
SubscribersChange ==
    /\ syncAt["bus"] = "idle"
    /\ watched' = ~watched
    /\ SyncTo("bus", "look")
    /\ UNCHANGED <<smsSession, sessions, callbacks, smsTracked, armedAt, arming,
                   streaming, alerts>>

(* syncArming: are there subscribers?                                      *)
SyncLooks(s) ==
    /\ syncAt[s] = "look"
    /\ SyncTo(s, IF watched THEN "mark" ELSE "idle")
    /\ UNCHANGED <<smsSession, sessions, callbacks, smsTracked, armedAt, watched,
                   arming, streaming, alerts>>

(* Then, under the mutex: a device that is not marked is marked, and a     *)
(* goroutine asks it.                                                      *)
SyncMarks(s) ==
    /\ syncAt[s] = "mark"
    /\ SyncTo(s, "idle")
    /\ IF smsTracked /\ armedAt = 0
       THEN /\ armedAt' = sessions
            /\ arming' = arming \union {sessions}
       ELSE UNCHANGED <<armedAt, arming>>
    /\ UNCHANGED <<smsSession, sessions, callbacks, smsTracked, watched, streaming,
                   alerts>>

(* The request is not sent to a device that is gone or cannot do it, and   *)
(* may be lost.                                                            *)
RequestConversations(a) ==
    /\ a \in arming
    /\ arming' = arming \ {a}
    /\ streaming' \in IF smsSession # 0 THEN {streaming, TRUE} ELSE {streaming}
    /\ UNCHANGED <<smsSession, sessions, callbacks, smsTracked, armedAt, watched,
                   syncAt, alerts>>

(* handleMessages: a message that is older than the mark is part of the    *)
(* burst.  Every message is published; a notification needs the mark and   *)
(* a watcher.                                                              *)
HandleMessages(age) ==
    /\ smsSession # 0 /\ streaming
    /\ alerts' = IF armedAt # 0 /\ watched /\ age = "new"
                 THEN {age} ELSE {}
    /\ UNCHANGED <<smsSession, sessions, callbacks, smsTracked, armedAt, watched,
                   syncAt, arming, streaming>>

ArmingNext ==
    \/ SmsPhoneConnects \/ SmsPhoneDisconnects \/ OnConnect \/ OnDisconnect
    \/ SubscribersChange
    \/ \E s \in Syncers : SyncLooks(s) \/ SyncMarks(s)
    \/ \E a \in 1..MaxSessions : RequestConversations(a)
    \/ \E age \in {"old", "new"} : HandleMessages(age)

ArmingSpec == ArmingInit /\ [][ArmingNext]_armingVars

-----------------------------------------------------------------------------
(* Properties.                                                             *)

ArmingTypeOK ==
    /\ smsSession \in 0..MaxSessions /\ sessions \in 0..MaxSessions
    /\ callbacks \subseteq {"OnConnect", "OnDisconnect"}
    /\ smsTracked \in BOOLEAN /\ watched \in BOOLEAN /\ streaming \in BOOLEAN
    /\ armedAt \in 0..MaxSessions /\ arming \subseteq 1..MaxSessions
    /\ syncAt \in [Syncers -> {"idle", "look", "mark"}]
    /\ alerts \subseteq {"new"}

ArmingQuiet == callbacks = {} /\ \A s \in Syncers : syncAt[s] = "idle"

(* When somebody watches and all callers are done, a device the plugin     *)
(* knows of has been marked, in this session: neither a subscriber that    *)
(* comes while the device connects nor one that was there before is        *)
(* missed.                                                                 *)
WatchedIsArmed == ArmingQuiet /\ watched /\ smsTracked => armedAt = sessions

=============================================================================
