------------------------------ MODULE Desktop ------------------------------
(***************************************************************************)
(* What a phone may ask of the desktop: to ring                            *)
(* (plugins/findthisdevice), to set the volume or to mute                  *)
(* (plugins/systemvolume), both through internal/desktop/audio, and to     *)
(* lock the session (plugins/lockdevice).  Every request is a goroutine    *)
(* that runs commands one after the other, and nothing orders the          *)
(* goroutines but the flag `playing`.                                      *)
(*                                                                         *)
(* Abstracted: the choice between wpctl and pactl, parsing; the players    *)
(* that are tried in turn; contents of pings and sink lists, but for       *)
(* volume and mute.  The user at the desktop may change anything.          *)
(***************************************************************************)
EXTENDS Naturals, FiniteSets

CONSTANTS
    RingReqs,   \* ring requests (bound)
    VolumeReqs, \* volume requests (bound)
    Volumes,    \* volumes
    LockReqs    \* lock requests (bound)

NoSink == [volume |-> 0, muted |-> FALSE]

VARIABLES
    volume,       \* the volume of the default sink
    muted,        \* whether it is muted
    playing,      \* FindThisDevicePlugin.playing
    ringAt,       \* per ring request: where its goroutine is
    wasMuted,     \* per ring request: what unmuteAudio has read
    volumeAt,     \* per volume request: where its goroutine is
    volumeWanted, \* per volume request: its volume (0: none) and mute ("keep": none)
    sinkRead,     \* per volume request: what getSinks has read
    sinkTold,     \* what the phone was last told of the sink
    othersMuted,  \* history: somebody else has changed the mute state
    audioFailed   \* history: a command has failed

soundVars ==
    <<volume, muted, playing, ringAt, wasMuted, volumeAt, volumeWanted, sinkRead,
      sinkTold, othersMuted, audioFailed>>

SoundInit ==
    /\ volume \in Volumes /\ muted \in BOOLEAN
    /\ playing = FALSE
    /\ ringAt = [r \in RingReqs |-> "none"]
    /\ wasMuted = [r \in RingReqs |-> FALSE]
    /\ volumeAt = [v \in VolumeReqs |-> "none"]
    /\ volumeWanted = [v \in VolumeReqs |-> [volume |-> 0, muted |-> "keep"]]
    /\ sinkRead = [v \in VolumeReqs |-> NoSink] /\ sinkTold = NoSink
    /\ othersMuted = FALSE /\ audioFailed = FALSE

RingTo(r, place) == ringAt' = [ringAt EXCEPT ![r] = place]
VolumeTo(v, place) == volumeAt' = [volumeAt EXCEPT ![v] = place]

(* Read, by wpctl or pactl.                                                *)
SinkState == [volume |-> volume, muted |-> muted]

(* A command of the backend: it may fail, and then changes nothing.        *)
SetMuted(m) ==
    \/ muted' = m /\ UNCHANGED audioFailed
    \/ audioFailed' = TRUE /\ UNCHANGED muted

-----------------------------------------------------------------------------
(* The ring.                                                               *)

AnotherRings_Unchecked == FALSE

(* The compare-and-swap of playing.                                        *)
AnotherRings == playing

RingRequest(r) ==
    /\ ringAt[r] = "none"
    /\ IF AnotherRings
       THEN RingTo(r, "ignored") /\ UNCHANGED playing
       ELSE RingTo(r, "started") /\ playing' = TRUE
    /\ UNCHANGED <<volume, muted, wasMuted, volumeAt, volumeWanted, sinkRead, sinkTold,
                   othersMuted, audioFailed>>

(* playAlarm finds no sound file, or it reads the sink; what cannot be     *)
(* read is left as it is.                                                  *)
ReadMute(r) ==
    /\ ringAt[r] = "started"
    /\ \/ RingTo(r, "over") /\ UNCHANGED <<wasMuted, audioFailed>>
       \/ RingTo(r, "read") /\ wasMuted' = [wasMuted EXCEPT ![r] = SinkState.muted]
          /\ UNCHANGED audioFailed
       \/ RingTo(r, "sounding") /\ audioFailed' = TRUE /\ UNCHANGED wasMuted
    /\ UNCHANGED <<volume, muted, playing, volumeAt, volumeWanted, sinkRead,
                   sinkTold, othersMuted>>

Unmute(r) ==
    /\ ringAt[r] = "read"
    /\ IF wasMuted[r] THEN SetMuted(FALSE) ELSE UNCHANGED <<muted, audioFailed>>
    /\ RingTo(r, "sounding")
    /\ UNCHANGED <<volume, playing, wasMuted, volumeAt, volumeWanted, sinkRead,
                   sinkTold, othersMuted>>

(* The players are done: the deferred restore.                             *)
RestoreMute(r) ==
    /\ ringAt[r] = "sounding"
    /\ IF wasMuted[r] THEN SetMuted(TRUE) ELSE UNCHANGED <<muted, audioFailed>>
    /\ RingTo(r, "over")
    /\ UNCHANGED <<volume, playing, wasMuted, volumeAt, volumeWanted, sinkRead,
                   sinkTold, othersMuted>>

RingDone(r) ==
    /\ ringAt[r] = "over"
    /\ RingTo(r, "told") /\ playing' = FALSE
    /\ UNCHANGED <<volume, muted, wasMuted, volumeAt, volumeWanted, sinkRead, sinkTold,
                   othersMuted, audioFailed>>

-----------------------------------------------------------------------------
(* The volume.                                                             *)

(* A request for the list, for a volume, for mute, or for both.            *)
VolumeRequest(v, vol, m) ==
    /\ volumeAt[v] = "none"
    /\ volumeWanted' = [volumeWanted EXCEPT ![v] = [volume |-> vol, muted |-> m]]
    /\ VolumeTo(v, IF vol # 0 THEN "volume" ELSE IF m # "keep" THEN "mute" ELSE "read")
    /\ UNCHANGED <<volume, muted, playing, ringAt, wasMuted, sinkRead, sinkTold,
                   othersMuted, audioFailed>>

(* Set and SetVolume: the volume first; an error ends the request.         *)
SetVolume(v) ==
    /\ volumeAt[v] = "volume"
    /\ \/ /\ volume' = volumeWanted[v].volume
          /\ VolumeTo(v, IF volumeWanted[v].muted # "keep" THEN "mute" ELSE "read")
          /\ UNCHANGED audioFailed
       \/ VolumeTo(v, "done") /\ audioFailed' = TRUE /\ UNCHANGED volume
    /\ UNCHANGED <<muted, playing, ringAt, wasMuted, volumeWanted, sinkRead,
                   sinkTold, othersMuted>>

MuteAsAsked(v) ==
    /\ volumeAt[v] = "mute"
    /\ \/ muted' = (volumeWanted[v].muted = "yes") /\ VolumeTo(v, "read")
          /\ UNCHANGED audioFailed
       \/ audioFailed' = TRUE /\ VolumeTo(v, "done") /\ UNCHANGED muted
    /\ othersMuted' = TRUE
    /\ UNCHANGED <<volume, playing, ringAt, wasMuted, volumeWanted, sinkRead, sinkTold>>

(* getSinks, and then the event and the answer: in between the sink may    *)
(* change, and another goroutine may answer first.                         *)
ReadSinks(v) ==
    /\ volumeAt[v] = "read"
    /\ sinkRead' = [sinkRead EXCEPT ![v] = SinkState]
    /\ VolumeTo(v, "send")
    /\ UNCHANGED <<volume, muted, playing, ringAt, wasMuted, volumeWanted, sinkTold,
                   othersMuted, audioFailed>>

SendSinks(v) ==
    /\ volumeAt[v] = "send"
    /\ sinkTold' = sinkRead[v]
    /\ VolumeTo(v, "done")
    /\ UNCHANGED <<volume, muted, playing, ringAt, wasMuted, volumeWanted, sinkRead,
                   othersMuted, audioFailed>>

(* The user turns the knob.                                                *)
UserMutes ==
    /\ muted' = ~muted /\ othersMuted' = TRUE
    /\ UNCHANGED <<volume, playing, ringAt, wasMuted, volumeAt, volumeWanted, sinkRead,
                   sinkTold, audioFailed>>

SoundNext ==
    \/ \E r \in RingReqs :
        RingRequest(r) \/ ReadMute(r) \/ Unmute(r) \/ RestoreMute(r) \/ RingDone(r)
    \/ \E v \in VolumeReqs :
        \/ \E vol \in Volumes \union {0}, m \in {"keep", "yes", "no"} : VolumeRequest(v, vol, m)
        \/ SetVolume(v) \/ MuteAsAsked(v) \/ ReadSinks(v) \/ SendSinks(v)
    \/ UserMutes

SoundSpec == SoundInit /\ [][SoundNext]_soundVars

-----------------------------------------------------------------------------
(* The lock.  loginctl returns before the session is locked: the hint that *)
(* getLocked reads follows when the screen locker has done its part.       *)

VARIABLES
    allowUnlock, \* LockDeviceConfig.AllowRemoteUnlock
    lockWanted,  \* what the session was last asked to be
    lockedHint,  \* LockedHint of the session
    lockAt,      \* per lock request: where its goroutine is
    lockTold     \* what the phone was last told

lockVars == <<allowUnlock, lockWanted, lockedHint, lockAt, lockTold>>

LockInit ==
    /\ allowUnlock \in BOOLEAN
    /\ lockWanted \in BOOLEAN /\ lockedHint = lockWanted /\ lockTold = lockWanted
    /\ lockAt = [l \in LockReqs |-> "none"]

LockTo(l, place) == lockAt' = [lockAt EXCEPT ![l] = place]

(* Handle: unlocking is refused unless the configuration allows it.        *)
LockRequest(l, what) ==
    /\ lockAt[l] = "none"
    /\ LockTo(l, IF what = "unlock" /\ ~allowUnlock THEN "refused" ELSE what)
    /\ UNCHANGED <<allowUnlock, lockWanted, lockedHint, lockTold>>

(* applyRequest: the state is sent although the command has failed.        *)
ApplyRequest(l) ==
    /\ lockAt[l] \in {"lock", "unlock"}
    /\ lockWanted' = (lockAt[l] = "lock") \/ UNCHANGED lockWanted
    /\ LockTo(l, "state")
    /\ UNCHANGED <<allowUnlock, lockedHint, lockTold>>

(* sendState and getLocked; an error counts as not locked.                 *)
SendState(l) ==
    /\ lockAt[l] = "state"
    /\ lockTold' \in {lockedHint, FALSE}
    /\ LockTo(l, "done")
    /\ UNCHANGED <<allowUnlock, lockWanted, lockedHint>>

SessionLocks ==
    /\ lockedHint' = lockWanted
    /\ UNCHANGED <<allowUnlock, lockWanted, lockAt, lockTold>>

UserLocks(b) ==
    /\ lockWanted' = b /\ lockedHint' = b
    /\ UNCHANGED <<allowUnlock, lockAt, lockTold>>

LockNext ==
    \/ \E l \in LockReqs :
        \/ \E what \in {"lock", "unlock", "state"} : LockRequest(l, what)
        \/ ApplyRequest(l) \/ SendState(l)
    \/ SessionLocks
    \/ \E b \in BOOLEAN : UserLocks(b)

LockSpec == LockInit /\ [][LockNext]_lockVars

-----------------------------------------------------------------------------
(* Properties.                                                             *)

SoundTypeOK ==
    /\ volume \in Volumes /\ {muted, playing, othersMuted, audioFailed} \subseteq BOOLEAN
    /\ ringAt \in [RingReqs -> {"none", "ignored", "started", "read",
                             "sounding", "over", "told"}]
    /\ wasMuted \in [RingReqs -> BOOLEAN]
    /\ volumeAt \in [VolumeReqs -> {"none", "volume", "mute", "read", "send", "done"}]
    /\ volumeWanted \in
        [VolumeReqs -> [volume : Volumes \union {0}, muted : {"keep", "yes", "no"}]]
    /\ sinkRead \in [VolumeReqs -> [volume : Volumes \union {0}, muted : BOOLEAN]]

LockTypeOK ==
    /\ {allowUnlock, lockWanted, lockedHint, lockTold} \subseteq BOOLEAN
    /\ lockAt \in [LockReqs -> {"none", "refused", "lock", "unlock", "state", "done"}]

(* A ring that sounds is heard, whatever the mute state it found, as long  *)
(* as the commands work and nobody else mutes: no other ring gives the     *)
(* mute state back while it sounds.  When no ring is under way, the mute   *)
(* state is what the first ring found.                                     *)
RingIsHeard ==
    ~othersMuted /\ ~audioFailed =>
        /\ \A r \in RingReqs : ringAt[r] = "sounding" => ~muted
        /\ \A r \in RingReqs : ringAt[r] = "told" /\ ~playing => (wasMuted[r] => muted)

=============================================================================
