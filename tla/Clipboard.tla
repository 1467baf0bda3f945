------------------------------ MODULE Clipboard ------------------------------
(***************************************************************************)
(* The clipboard plugin (internal/plugins/clipboard): one desktop and one  *)
(* phone keep a clipboard in common.                                       *)
(*                                                                         *)
(* The handler records what the phone sent and leaves the copying to a     *)
(* goroutine, a program that may fail or be slow; two copies may change    *)
(* places.  A push reads the clipboard with another program, then compares *)
(* and sends.  Time counts what the two users copied.                      *)
(*                                                                         *)
(* Abstracted: the programs and how they are found (without one a copy is  *)
(* lost), the direction policy (both on), trailing newlines, files (their  *)
(* transfer is Transfers' and touches none of this state).                 *)
(***************************************************************************)
EXTENDS Naturals

CONSTANTS
    Contents, \* what can be copied
    MaxCopies \* bound: how often the users copy something

ASSUME ClipboardAssumption == MaxCopies \in Nat

NoClip == "nothing"

VARIABLES
    clipTime,        \* the number of copies so far
    desk, phone,     \* the two clipboards
    phoneAt,         \* when the phone's was copied
    lastContent,     \* what the phone sent last
    lastPushed,      \* what was pushed last
    localChangedAt,  \* when the desktop's is thought to have changed
    lastTimestamp,   \* of the last clipboard packet that had one
    toDesk, toPhone, \* the packet on its way
    copying,         \* contents that goroutines are about to copy
    pushing          \* what a push has read

clips == <<desk, phone, phoneAt>>
dedup == <<lastContent, lastPushed, localChangedAt, lastTimestamp>>

clipboardVars ==
    <<clipTime, clips, dedup, toDesk, toPhone, copying, pushing>>

ClipboardInit ==
    /\ clipTime = 1
    /\ desk = NoClip /\ phone = NoClip /\ phoneAt = 0
    /\ lastContent = NoClip /\ lastPushed = NoClip
    /\ localChangedAt = 0 /\ lastTimestamp = 0
    /\ toDesk = {} /\ toPhone = {} /\ copying = {} /\ pushing = NoClip

-----------------------------------------------------------------------------
UserCopies(c) ==
    /\ clipTime <= MaxCopies
    /\ clipTime' = clipTime + 1 /\ desk' = c
    /\ UNCHANGED <<phone, phoneAt, dedup, toDesk, toPhone, copying, pushing>>

(* The phone sends what is copied on it, with its time or without.         *)
PhoneCopies(c) ==
    /\ clipTime <= MaxCopies /\ toDesk = {}
    /\ clipTime' = clipTime + 1
    /\ phone' = c /\ phoneAt' = clipTime
    /\ \E time \in {0, clipTime} :
        toDesk' = {[type |-> "clipboard", content |-> c, time |-> time]}
    /\ UNCHANGED <<desk, dedup, toPhone, copying, pushing>>

(* A new session: the phone sends what it has with its time, and so does   *)
(* the desktop; OnConnect records it without comparing.                    *)
Reconnect ==
    /\ toDesk = {} /\ toPhone = {} /\ desk # NoClip
    /\ toDesk' = IF phone = NoClip THEN {}
                 ELSE {[type |-> "connect", content |-> phone, time |-> phoneAt]}
    /\ toPhone' = {[content |-> desk, time |-> localChangedAt]}
    /\ lastPushed' = desk
    /\ UNCHANGED <<clipTime, clips, lastContent, localChangedAt, lastTimestamp,
                   copying, pushing>>

(* Handle.                                                                 *)
IsStale(packet) ==
    \/ packet.content = lastContent
    \/ packet.type = "connect"
        /\ (packet.time = 0 \/ packet.time < localChangedAt)
    \/ packet.type = "clipboard"
        /\ packet.time > 0 /\ packet.time < lastTimestamp

HandleClipboard ==
    \E packet \in toDesk :
        /\ toDesk' = {}
        /\ IF IsStale(packet)
           THEN UNCHANGED <<dedup, copying>>
           ELSE /\ lastContent' = packet.content
                /\ copying' = copying \union {packet.content}
                /\ IF packet.type = "connect"
                   THEN /\ localChangedAt' = packet.time
                        /\ UNCHANGED lastTimestamp
                   ELSE /\ localChangedAt' = clipTime
                        /\ lastTimestamp' = IF packet.time > 0 THEN packet.time
                                            ELSE lastTimestamp
                /\ UNCHANGED lastPushed
        /\ UNCHANGED <<clipTime, clips, toPhone, pushing>>

(* runCopy: done, or the program was missing, failed or hung.              *)
RunCopy(c) ==
    /\ c \in copying
    /\ copying' = copying \ {c}
    /\ desk' \in {desk, c}
    /\ UNCHANGED <<clipTime, phone, phoneAt, dedup, toDesk, toPhone, pushing>>

(* Push: the clipboard is read; an empty one is not pushed.                *)
BeginPush ==
    /\ pushing = NoClip /\ desk # NoClip
    /\ pushing' = desk
    /\ UNCHANGED <<clipTime, clips, dedup, toDesk, toPhone, copying>>

(* Then it is compared with both sides' last, and sent, or dropped by a    *)
(* full queue.                                                             *)
FinishPush ==
    /\ pushing # NoClip /\ toPhone = {}
    /\ pushing' = NoClip
    /\ IF pushing \in {lastContent, lastPushed}
       THEN UNCHANGED <<lastPushed, localChangedAt, toPhone>>
       ELSE /\ lastPushed' = pushing
            /\ localChangedAt' = clipTime
            /\ toPhone' \in {{}, {[content |-> pushing, time |-> clipTime]}}
    /\ UNCHANGED <<clipTime, clips, lastContent, lastTimestamp, toDesk, copying>>

(* The phone takes what it is sent, and ignores a connect packet that is   *)
(* not newer than its own.                                                 *)
PhoneTakes ==
    \E packet \in toPhone :
        /\ toPhone' = {}
        /\ IF packet.time >= phoneAt
           THEN phone' = packet.content /\ phoneAt' = packet.time
           ELSE UNCHANGED <<phone, phoneAt>>
        /\ UNCHANGED <<clipTime, desk, dedup, toDesk, copying, pushing>>

ClipboardNext ==
    \/ \E c \in Contents : UserCopies(c) \/ PhoneCopies(c) \/ RunCopy(c)
    \/ Reconnect \/ HandleClipboard \/ BeginPush \/ FinishPush \/ PhoneTakes

ClipboardSpec == ClipboardInit /\ [][ClipboardNext]_clipboardVars

-----------------------------------------------------------------------------
(* Properties.                                                             *)

ClipboardTypeOK ==
    LET Times == 0..(MaxCopies + 1)
        Clips == Contents \union {NoClip}
    IN  /\ clipTime \in Times /\ phoneAt \in Times
        /\ localChangedAt \in Times /\ lastTimestamp \in Times
        /\ desk \in Clips /\ phone \in Clips /\ pushing \in Clips
        /\ lastContent \in Clips /\ lastPushed \in Clips
        /\ copying \subseteq Contents
        /\ toDesk \subseteq [type : {"clipboard", "connect"},
                             content : Contents, time : Times]
        /\ toPhone \subseteq [content : Contents, time : Times]

=============================================================================
