----------------------------- MODULE RemoteMedia -----------------------------
(***************************************************************************)
(* The remote half of the MPRIS plugin (internal/plugins/mpris): what the  *)
(* phone plays, as the daemon remembers it and as its watchers see it, and *)
(* the album art that is fetched over a side channel and published when it *)
(* has come.                                                               *)
(*                                                                         *)
(* One phone with one player.  Its packets are handled one by one, with    *)
(* the state under p.mu and the publication after it; every download is a  *)
(* goroutine that commits the art, looks at the state and publishes.  The  *)
(* poller of the state follows the audience of mpris.update; the callbacks *)
(* of two sessions may change places.                                      *)
(*                                                                         *)
(* Abstracted: of a state the song, whether it plays and its art; time, as *)
(* a throttle that ends at some point; positions and volumes; the image    *)
(* work of the cache, which succeeds or fails.                             *)
(***************************************************************************)
EXTENDS Naturals, Sequences

CONSTANTS
    Songs,       \* what the phone may play, each with an art URI of its own
    MaxSwitches, \* bound: changes of what the phone plays
    MaxLinks     \* bound: sessions

ASSUME RemoteMediaAssumption == MaxSwitches \in Nat /\ MaxLinks \in Nat

NoSong == "no song"
Idle   == [song |-> NoSong, art |-> "none"]

VARIABLES
    phoneSong,     \* what the phone plays, or has paused
    phonePlays,    \* whether it plays
    switches,      \* changes so far
    phoneLink,     \* the phone has a session
    links,         \* sessions so far
    mediaHooks,    \* OnConnect and OnDisconnect that have not run yet
    listAsks,      \* requests of the player list a connect goroutine has left
    toPc,          \* packets of the phone
    knownPeer,     \* devices has the phone
    remote,        \* remoteStates: the song and whether it plays
    artAsked,      \* songs whose art has been asked for lately
    artWanted,     \* requests on their way to the phone
    artCache,      \* songs whose art is on the disk
    artLoading,    \* downloads: songs
    stamping,      \* what downloads are about to publish: songs
    mediaHandling, \* what the handler is about to publish: the song, and its art
    trackShown,    \* what the last mpris.update said
    audience,      \* mpris.update has a subscriber: runRemoteStatePoller runs
    artCrossed     \* history: art has come between its lookup and the publication

phoneVars == <<phoneSong, phonePlays, switches>>
linkVars  == <<phoneLink, links, mediaHooks, listAsks>>
artVars   == <<artAsked, artWanted, artCache, artLoading, stamping>>
shownVars == <<trackShown, audience, artCrossed>>

remoteVars ==
    <<phoneVars, linkVars, toPc, knownPeer, remote, artVars, mediaHandling, shownVars>>

(* The phone may have been playing before there was a session.             *)
RemoteMediaInit ==
    /\ phoneSong \in Songs \union {NoSong} /\ phonePlays = (phoneSong # NoSong)
    /\ switches = 0
    /\ phoneLink = FALSE /\ links = 0 /\ mediaHooks = {} /\ listAsks = 0
    /\ toPc = <<>> /\ knownPeer = FALSE
    /\ remote = [song |-> NoSong, plays |-> FALSE]
    /\ artAsked = {} /\ artWanted = {} /\ artCache = {} /\ artLoading = {}
    /\ stamping = {}
    /\ mediaHandling = <<>> /\ trackShown = Idle
    /\ audience = FALSE /\ artCrossed = FALSE

SendToPc(packet) == toPc' = Append(toPc, packet)
StateOf(s, p) == [kind |-> "state", song |-> s, plays |-> p]
Listing(s)    == [kind |-> "list", song |-> s]

-----------------------------------------------------------------------------
(* The phone.  It tells every change; a request is answered with what it   *)
(* plays then.                                                             *)
PhoneSwitches(s, p) ==
    /\ switches < MaxSwitches /\ <<s, p>> # <<phoneSong, phonePlays>>
    /\ s = NoSong => ~p
    /\ switches' = switches + 1
    /\ phoneSong' = s /\ phonePlays' = p
    /\ IF phoneLink
       THEN SendToPc(IF s = NoSong THEN Listing(NoSong) ELSE StateOf(s, p))
       ELSE UNCHANGED toPc
    /\ UNCHANGED <<linkVars, knownPeer, remote, artVars, mediaHandling, shownVars>>

PhoneLinks ==
    /\ ~phoneLink /\ links < MaxLinks /\ toPc = <<>>
    /\ links' = links + 1 /\ phoneLink' = TRUE
    /\ mediaHooks' = mediaHooks \union {"connect"}
    /\ UNCHANGED <<phoneVars, listAsks, toPc, knownPeer, remote, artVars, mediaHandling,
                   shownVars>>

(* A packet that has been read is handled all the same.                    *)
PhoneDrops ==
    /\ phoneLink /\ "connect" \notin mediaHooks
    /\ phoneLink' = FALSE /\ artWanted' = {}
    /\ toPc' \in {<<>>, IF toPc = <<>> THEN <<>> ELSE <<Head(toPc)>>}
    /\ mediaHooks' = mediaHooks \union {"disconnect"}
    /\ UNCHANGED <<phoneVars, links, listAsks, knownPeer, remote, artAsked,
                   artCache, artLoading, stamping, mediaHandling, shownVars>>

(* OnConnect leaves a goroutine that asks for the players three times.     *)
ConnectHook ==
    /\ "connect" \in mediaHooks
    /\ mediaHooks' = mediaHooks \ {"connect"}
    /\ listAsks' = 3
    /\ UNCHANGED <<phoneVars, phoneLink, links, toPc, knownPeer, remote, artVars,
                   mediaHandling, shownVars>>

RequestPlayerList ==
    /\ listAsks > 0 /\ toPc = <<>>
    /\ IF phoneLink THEN listAsks' = listAsks - 1 /\ SendToPc(Listing(phoneSong))
                    ELSE listAsks' = 0 /\ UNCHANGED toPc
    /\ UNCHANGED <<phoneVars, phoneLink, links, mediaHooks, knownPeer, remote,
                   artVars, mediaHandling, shownVars>>

DisconnectHook ==
    /\ "disconnect" \in mediaHooks
    /\ mediaHooks' = mediaHooks \ {"disconnect"}
    /\ knownPeer' = FALSE
    /\ remote' = [song |-> NoSong, plays |-> FALSE]
    /\ UNCHANGED <<phoneVars, phoneLink, links, listAsks, toPc, artVars, mediaHandling,
                   shownVars>>

-----------------------------------------------------------------------------
(* Handle.  A player that is no longer listed is forgotten, and an empty   *)
(* update tells the watchers; a player that is listed is asked for its     *)
(* state.                                                                  *)
HandlePlayerList ==
    /\ mediaHandling = <<>> /\ toPc # <<>> /\ Head(toPc).kind = "list"
    /\ knownPeer' = TRUE
    /\ LET gone == remote.song # NoSong /\ Head(toPc).song = NoSong
       IN  /\ remote' = IF gone THEN [song |-> NoSong, plays |-> FALSE] ELSE remote
           /\ mediaHandling' = IF gone THEN <<NoSong>> ELSE <<>>
    /\ toPc' = IF Head(toPc).song # NoSong /\ phoneSong # NoSong
               THEN Append(Tail(toPc), StateOf(phoneSong, phonePlays)) ELSE Tail(toPc)
    /\ UNCHANGED <<phoneVars, linkVars, artVars, shownVars>>

(* requestAlbumArt: not again within ten seconds.                          *)
RequestAlbumArt(s) ==
    IF s \in artAsked THEN UNCHANGED <<artAsked, artWanted>>
    ELSE /\ artAsked' = artAsked \union {s}
         /\ artWanted' = IF phoneLink THEN artWanted \union {s} ELSE artWanted

(* shouldPublishRemoteState: only what differs from the last known state   *)
(* is published.                                                           *)
HandleNowPlaying ==
    /\ mediaHandling = <<>> /\ toPc # <<>> /\ Head(toPc).kind = "state"
    /\ knownPeer' = TRUE
    /\ toPc' = Tail(toPc)
    /\ LET new == [song |-> Head(toPc).song, plays |-> Head(toPc).plays]
       IN  /\ remote' = new
           /\ mediaHandling' = IF new # remote THEN <<new.song>> ELSE <<>>
           /\ IF new.song \in artCache
              THEN UNCHANGED <<artAsked, artWanted>>
              ELSE RequestAlbumArt(new.song)
    /\ UNCHANGED <<phoneVars, linkVars, artCache, artLoading, stamping, shownVars>>

(* ArtCache.Resolve: what has been committed is found, also on the disk.   *)
Resolved(s) == IF s \in artCache THEN "file" ELSE "pending"

(* Art that is not there yet is published as pending.  The cache is looked *)
(* up before the event is published, without a lock in between.            *)
ResolveArt ==
    /\ Len(mediaHandling) = 1
    /\ mediaHandling' =
        <<mediaHandling[1],
          IF mediaHandling[1] = NoSong THEN "none" ELSE Resolved(mediaHandling[1])>>
    /\ UNCHANGED <<phoneVars, linkVars, toPc, knownPeer, remote, artVars, shownVars>>

PublishState ==
    /\ Len(mediaHandling) = 2
    /\ trackShown' = [song |-> mediaHandling[1], art |-> mediaHandling[2]]
    /\ mediaHandling' = <<>>
    /\ UNCHANGED <<phoneVars, linkVars, toPc, knownPeer, remote, artVars, audience,
                   artCrossed>>

-----------------------------------------------------------------------------
(* Album art.  The phone answers a request with a side channel, or not at  *)
(* all; requests for one URI are throttled.                                *)
PhoneSendsArt(s) ==
    /\ s \in artWanted
    /\ artWanted' = artWanted \ {s}
    /\ artLoading' \in {artLoading, artLoading \union {s}}
    /\ UNCHANGED <<phoneVars, linkVars, toPc, knownPeer, remote, artAsked, artCache,
                   stamping, mediaHandling, shownVars>>

ThrottleEnds(s) ==
    /\ s \in artAsked
    /\ artAsked' = artAsked \ {s}
    /\ UNCHANGED <<phoneVars, linkVars, toPc, knownPeer, remote, artWanted,
                   artCache, artLoading, stamping, mediaHandling, shownVars>>

StampWanted_Never(s) == FALSE

(* Whether the current track wants this art.                               *)
StampWanted(s) == remote.song = s

(* ArtCache.Commit: the image is checked and stored, then it can be found. *)
Commit(s) == artCache' = artCache \union {s}

(* receiveAlbumArt: a transfer or an image that fails leaves nothing.      *)
ReceiveAlbumArt(s) ==
    /\ s \in artLoading
    /\ artLoading' = artLoading \ {s}
    /\ \/ UNCHANGED <<artCache, stamping, artCrossed>>
       \/ /\ Commit(s)
          /\ stamping' = IF StampWanted(s) THEN stamping \union {s} ELSE stamping
          /\ artCrossed' = (artCrossed \/ mediaHandling = <<s, "pending">>)
    /\ UNCHANGED <<phoneVars, linkVars, toPc, knownPeer, remote, artAsked, artWanted,
                   mediaHandling, trackShown, audience>>

(* stampAlbumArt publishes after it has released the mutex.                *)
StampAlbumArt(s) ==
    /\ s \in stamping
    /\ stamping' = stamping \ {s}
    /\ trackShown' = [song |-> s, art |-> "file"]
    /\ UNCHANGED <<phoneVars, linkVars, toPc, knownPeer, remote, artAsked, artWanted,
                   artCache, artLoading, mediaHandling, audience, artCrossed>>

-----------------------------------------------------------------------------
(* The audience of mpris.update, and the poller that follows it.           *)
(* syncRemotePoller runs in the goroutine that changes the audience.       *)
AudienceChanges ==
    /\ audience' = ~audience
    /\ UNCHANGED <<phoneVars, linkVars, toPc, knownPeer, remote, artVars, mediaHandling,
                   trackShown, artCrossed>>

PollRemoteStates ==
    /\ audience
    /\ knownPeer /\ phoneLink /\ remote.song # NoSong /\ remote.plays
    /\ phoneSong # NoSong /\ toPc = <<>>
    /\ SendToPc(StateOf(phoneSong, phonePlays))
    /\ UNCHANGED <<phoneVars, linkVars, knownPeer, remote, artVars,
                   mediaHandling, shownVars>>

RemoteMediaNext ==
    \/ \E s \in Songs \union {NoSong}, p \in BOOLEAN : PhoneSwitches(s, p)
    \/ PhoneLinks \/ PhoneDrops \/ ConnectHook \/ RequestPlayerList
    \/ DisconnectHook
    \/ HandlePlayerList \/ HandleNowPlaying \/ ResolveArt \/ PublishState
    \/ \E s \in Songs :
        PhoneSendsArt(s) \/ ThrottleEnds(s) \/ ReceiveAlbumArt(s) \/ StampAlbumArt(s)
    \/ AudienceChanges \/ PollRemoteStates

RemoteMediaSpec == RemoteMediaInit /\ [][RemoteMediaNext]_remoteVars

-----------------------------------------------------------------------------
(* Properties.                                                             *)

RemoteMediaTypeOK ==
    /\ phoneSong \in Songs \union {NoSong} /\ remote.song \in Songs \union {NoSong}
    /\ remote.plays \in BOOLEAN
    /\ listAsks \in 0..3 /\ knownPeer \in BOOLEAN
    /\ artAsked \subseteq Songs /\ artCache \subseteq Songs
    /\ trackShown.song \in Songs \union {NoSong}
    /\ trackShown.art \in {"none", "pending", "file"}

(* A track that is shown as waiting for its art gets it: when the handler  *)
(* and the downloads are done, art that has come for the current track is  *)
(* shown, also when it came between the check of the cache and the update  *)
(* of the track.  Art that comes between the lookup and the publication    *)
(* breaks this, and so does nothing else.                                  *)
ArtIsShown ==
    ~artCrossed /\ mediaHandling = <<>> /\ stamping = {}
        /\ trackShown = [song |-> remote.song, art |-> "pending"]
            => remote.song \notin artCache

=============================================================================
