------------------------------ MODULE MCParts ------------------------------
(***************************************************************************)
(* The parts that share no state with each other, one at a time: the       *)
(* initial state picks the subject of the behaviour, the steps are its     *)
(* steps, and all other parts stay as they begin, with one choice of their *)
(* initial state.  The states of a run are thus the sum of the states of   *)
(* the parts, not their product, and nothing is lost: a step of one part   *)
(* neither reads nor changes the variables of another.                     *)
(***************************************************************************)
EXTENDS Watch, Discovery, Handshake, Dispatch, Framing, Requests, Hooks, Status,
        Popups, Arming, Contacts, Clipboard, Transfers, Mount, Commands, Players,
        RemoteMedia, Desktop, Input

CONSTANT
    Subjects \* the parts that are checked

VARIABLE
    subject \* the part that takes steps

parts ==
    <<subject, discoveryVars, handshakeVars, dispatchVars, framingVars, requestsVars,
      vars, hooksVars, statusVars, popupVars, armingVars, contactsVars,
      clipboardVars, inboxVars, outboxVars, mountVars, commandVars,
      playersVars, remoteVars, soundVars, lockVars, padVars, presenterVars,
      penVars>>

FirstName   == CHOOSE n \in PlayerNames : TRUE
LeastVolume == CHOOSE v \in Volumes : \A w \in Volumes : v <= w

(* What a part that is not the subject begins with, where it has a choice. *)
Pinned(part, single) == subject = part \/ single

PartsInit ==
    /\ subject \in Subjects
    /\ DiscoveryInit
    /\ HandshakeInit /\ Pinned("handshake", registered = NoObj)
    /\ DispatchInit /\ Pinned("dispatch", trusts = {} /\ enabled = {})
    /\ FramingInit /\ Pinned("framing", input = <<1>> /\ ~cut)
    /\ RequestsInit /\ Pinned("requests", ~readOnly)
    /\ Init
    /\ HooksInit
    /\ StatusInit
    /\ PopupsInit /\ Pinned("popups", grace /\ replaces)
    /\ ArmingInit
    /\ ContactsInit /\ Pinned("contacts", \A u \in Uids : book[u] = Absent)
    /\ ClipboardInit
    /\ InboxInit /\ Pinned("inbox", sized = {} /\ ~overwrite)
    /\ OutboxInit
    /\ MountInit
    /\ CommandsInit
    /\ PlayersInit /\ Pinned("players", listFirst = FirstName)
    /\ RemoteMediaInit /\ Pinned("remotemedia", phoneSong = NoSong)
    /\ SoundInit /\ Pinned("sound", volume = LeastVolume /\ ~muted)
    /\ LockInit /\ Pinned("lock", ~allowUnlock /\ ~lockWanted)
    /\ PadInit
    /\ PresenterInit
    /\ PenInit

(* All parts but one stay as they are.                                     *)
OthersStay(part) ==
    /\ subject = part /\ UNCHANGED subject
    /\ part # "discovery" => UNCHANGED discoveryVars
    /\ part # "handshake" => UNCHANGED handshakeVars
    /\ part # "dispatch" => UNCHANGED dispatchVars
    /\ part # "framing" => UNCHANGED framingVars
    /\ part # "requests" => UNCHANGED requestsVars
    /\ part # "watch" => UNCHANGED vars
    /\ part # "hooks" => UNCHANGED hooksVars
    /\ part # "status" => UNCHANGED statusVars
    /\ part # "popups" => UNCHANGED popupVars
    /\ part # "arming" => UNCHANGED armingVars
    /\ part # "contacts" => UNCHANGED contactsVars
    /\ part # "clipboard" => UNCHANGED clipboardVars
    /\ part # "inbox" => UNCHANGED inboxVars
    /\ part # "outbox" => UNCHANGED outboxVars
    /\ part # "mount" => UNCHANGED mountVars
    /\ part # "commands" => UNCHANGED <<presence, executions>>
    /\ part # "lists" => UNCHANGED lists
    /\ part # "players" => UNCHANGED playersVars
    /\ part # "remotemedia" => UNCHANGED remoteVars
    /\ part # "sound" => UNCHANGED soundVars
    /\ part # "lock" => UNCHANGED lockVars
    /\ part # "touchpad" => UNCHANGED padVars
    /\ part # "presenter" => UNCHANGED presenterVars
    /\ part # "pen" => UNCHANGED penVars

PartsNext ==
    \/ OthersStay("discovery") /\ DiscoveryNext
    \/ OthersStay("handshake") /\ HandshakeNext
    \/ OthersStay("dispatch") /\ DispatchNext
    \/ OthersStay("framing") /\ FramingNext
    \/ OthersStay("requests") /\ RequestsNext
    \/ OthersStay("watch") /\ Next
    \/ OthersStay("hooks") /\ HooksNext
    \/ OthersStay("status") /\ StatusNext
    \/ OthersStay("popups") /\ PopupsNext
    \/ OthersStay("arming") /\ ArmingNext
    \/ OthersStay("contacts") /\ ContactsNext
    \/ OthersStay("clipboard") /\ ClipboardNext
    \/ OthersStay("inbox") /\ InboxNext
    \/ OthersStay("outbox") /\ OutboxNext
    \/ OthersStay("mount") /\ MountNext
    \/ OthersStay("commands") /\ CommandsNext
    \/ OthersStay("lists") /\ ListsNext
    \/ OthersStay("players") /\ PlayersNext
    \/ OthersStay("remotemedia") /\ RemoteMediaNext
    \/ OthersStay("sound") /\ SoundNext
    \/ OthersStay("lock") /\ LockNext
    \/ OthersStay("touchpad") /\ PadNext
    \/ OthersStay("presenter") /\ PresenterNext
    \/ OthersStay("pen") /\ PenNext

(***************************************************************************)
(* Fairness is that of the subject: all other parts stand still.           *)
(***************************************************************************)

(* Goroutines run on; the user goes on asking to unmount; and a release    *)
(* that is tried for ever succeeds in the end.                             *)
MountFairness ==
    /\ \A m \in Mounters : WF_mountVars(subject = "mount" /\ MountStep(m))
    /\ \A u \in Releasers : WF_mountVars(subject = "mount" /\ UnmountStep(u))
    /\ SF_mountVars(subject = "mount" /\ ReleaseMount("ipc"))
    /\ WF_mountVars(subject = "mount" /\ BeginUnmount("ipc"))

(* Goroutines run on, the time limit passes, a killed process ends.        *)
CommandsFairness ==
    \A e \in Execs :
        /\ WF_commandVars(subject = "commands" /\ ExecStep(e))
        /\ WF_commandVars(subject = "commands" /\ TimeOut(e))
        /\ WF_commandVars(subject = "commands" /\ ProcessEnds(e))

(* Rounds are started again and again, and some are answered with the      *)
(* whole book; the answers are handled.                                    *)
ContactsFairness ==
    /\ SF_contactsVars(subject = "contacts" /\ RequestSync(book))
    /\ WF_contactsVars(subject = "contacts" /\ AnswerHandled)
    /\ WF_contactsVars(subject = "contacts" /\ SendCards)

(* The watcher runs, it can register in the end, lists are not refused for *)
(* ever, and - an assumption on the phones - the players are asked for     *)
(* again and again.                                                        *)
PlayersFairness ==
    /\ WF_playersVars(subject = "players" /\ WatcherStep)
    /\ SF_playersVars(subject = "players" /\ BeginWatching)
    /\ WF_playersVars(subject = "players" /\ RequestReconcile)
    /\ SF_playersVars(subject = "players" /\ ReconcilePlayers)

PartsSpec == PartsInit /\ [][PartsNext]_parts

FairPartsSpec ==
    /\ PartsSpec
    /\ MountFairness /\ CommandsFairness /\ ContactsFairness /\ PlayersFairness

-----------------------------------------------------------------------------
(* Every variable of the subject has the values the code can give it.      *)
PartsTypeOK ==
    /\ subject = "discovery" => DiscoveryTypeOK
    /\ subject = "handshake" => HandshakeTypeOK
    /\ subject = "dispatch" => DispatchTypeOK
    /\ subject = "framing" => FramingTypeOK
    /\ subject = "requests" => RequestsTypeOK
    /\ subject = "watch" => TypeOK
    /\ subject = "hooks" => HooksTypeOK
    /\ subject = "status" => StatusTypeOK
    /\ subject = "popups" => PopupsTypeOK
    /\ subject = "arming" => ArmingTypeOK
    /\ subject = "contacts" => ContactsTypeOK
    /\ subject = "clipboard" => ClipboardTypeOK
    /\ subject = "inbox" => InboxTypeOK
    /\ subject = "outbox" => OutboxTypeOK
    /\ subject = "mount" => MountTypeOK
    /\ subject \in {"commands", "lists"} => CommandsTypeOK
    /\ subject = "players" => PlayersTypeOK
    /\ subject = "remotemedia" => RemoteMediaTypeOK
    /\ subject = "sound" => SoundTypeOK
    /\ subject = "lock" => LockTypeOK
    /\ subject = "touchpad" => PadTypeOK
    /\ subject = "presenter" => PresenterTypeOK
    /\ subject = "pen" => PenTypeOK

(* The types, and what the smaller parts promise: a command the phone sees *)
(* running can be stopped (Commands), art that has come is shown           *)
(* (RemoteMedia), a ring is heard (Desktop), runs of a hook keep their     *)
(* distance (Hooks), input comes out in the order it came in and no        *)
(* wake-up is lost (Input), and the calls of a shared client session get   *)
(* their own answers (Requests).                                           *)
PartsInvariant ==
    /\ PartsTypeOK
    /\ LiveIsStoppable /\ ArtIsShown /\ RingIsHeard /\ RunsAreApart
    /\ InputInOrder /\ NoInputStranded /\ AnswersAreOwn
=============================================================================
