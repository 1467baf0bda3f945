----------------------------- MODULE PluginProofs -----------------------------
(***************************************************************************)
(* What the plug-ins promise to a phone and to the desktop, for every      *)
(* number of songs, inputs, tablets and changes: a signal report reaches   *)
(* the clients, art that has come is shown, a ring is heard, input comes   *)
(* out in order and is not left behind, every tablet can be closed, and    *)
(* one poller at most samples the players.  The parts share no state; each *)
(* has its own specification and invariant.                                *)
(***************************************************************************)
EXTENDS Status, RemoteMedia, Desktop, Input, Players, FiniteSetTheorems, TLAPS

-----------------------------------------------------------------------------
(* Status: a signal report reaches the clients.                            *)

(* Unless handlers overlap, outlive their session or the next one begins   *)
(* before OnDisconnect: there is one handler at most, and none of a phone  *)
(* that has gone, of which nothing is stored once the plug-in is told; of  *)
(* a phone that is there, the report that is stored has been told or is    *)
(* about to be.                                                            *)
StoredIsTold ==
    ~late =>
        /\ \A h, k \in handling : h = k
        /\ phoneOnline => leaving = {}
        /\ ~phoneOnline => handling = {}
        /\ ~phoneOnline /\ (\A l \in leaving : l.at # "reports") => lastReport = Unreported
        /\ \A h \in handling : h.to = "tell signal" => h.what = lastReport
        /\ phoneOnline /\ (\A h \in handling : h.to # "tell signal")
              => toldSignal = lastReport

StatusInv == late \in BOOLEAN /\ StoredIsTold

LEMMA HandlerFields ==
    \A kind, v : Begun(kind, v).to = kind /\ Begun(kind, v).what = v
BY DEF Begun

(* A handler that does not tell of the signal may take its next step, or   *)
(* return.                                                                 *)
LEMMA OthersGoOn ==
    ASSUME StatusInv, NEW h, h.to # "tell signal", NEW next,
           \A n \in next : n.to # "tell signal", \A n, m \in next : n = m,
           Goes(h, next), UNCHANGED <<lastReport, toldSignal>>
    PROVE  StatusInv'
<1>1. /\ h \in handling /\ handling' = (handling \ {h}) \union next
      /\ UNCHANGED <<late, phoneOnline, leaving, lastReport, toldSignal>>
  BY DEF Goes, session
<1>2. SUFFICES ASSUME ~late PROVE StoredIsTold'
  BY <1>1 DEF StatusInv, StoredIsTold
<1>3. phoneOnline /\ leaving = {} /\ \A k \in handling : k = h
  BY <1>1, <1>2 DEF StatusInv, StoredIsTold
<1>4. handling' = next /\ toldSignal = lastReport
  BY <1>1, <1>2, <1>3 DEF StatusInv, StoredIsTold
<1> QED
  BY <1>1, <1>3, <1>4 DEF StatusInv, StoredIsTold

(* shouldPublish stores a report that it does not suppress before it is    *)
(* told.                                                                   *)
LEMMA ReportsGoOn ==
    ASSUME StatusInv, NEW s, HandleReport(s)
    PROVE  StatusInv'
<1> DEFINE h == Begun("report", s)
           t == Begun("tell signal", s)
<1>1. h.to # "tell signal" /\ t.to = "tell signal" /\ t.what = s
  <2>1. h.to = "report"
    BY HandlerFields
  <2>2. t.to = "tell signal" /\ t.what = s
    BY HandlerFields
  <2> HIDE DEF h, t
  <2> QED
    BY <2>1, <2>2
<1>2. /\ Goes(h, IF lastReport = s THEN {} ELSE {t})
      /\ lastReport' = s /\ toldSignal' = toldSignal
  BY DEF HandleReport, told
<1> HIDE DEF h, t
<1>3. /\ h \in handling
      /\ handling' = (handling \ {h}) \union (IF lastReport = s THEN {} ELSE {t})
      /\ UNCHANGED <<late, phoneOnline, leaving>>
  BY <1>2 DEF Goes, session
<1>4. SUFFICES ASSUME ~late PROVE StoredIsTold'
  BY <1>3 DEF StatusInv, StoredIsTold
<1>5. phoneOnline /\ leaving = {} /\ \A k \in handling : k = h
  BY <1>3, <1>4 DEF StatusInv, StoredIsTold
<1>6. toldSignal = lastReport
  BY <1>1, <1>4, <1>5 DEF StatusInv, StoredIsTold
<1>7. handling' = IF lastReport = s THEN {} ELSE {t}
  BY <1>3, <1>5
<1> QED
  BY <1>1, <1>2, <1>3, <1>5, <1>6, <1>7 DEF StoredIsTold

LEMMA SignalsGoOn ==
    ASSUME StatusInv, NEW s, PublishSignal(s)
    PROVE  StatusInv'
<1> DEFINE t == Begun("tell signal", s)
<1>1. t.to = "tell signal" /\ t.what = s
  BY HandlerFields
<1>2. Goes(t, {}) /\ toldSignal' = s /\ lastReport' = lastReport
  BY DEF PublishSignal, kept
<1> HIDE DEF t
<1>3. /\ t \in handling /\ handling' = handling \ {t}
      /\ UNCHANGED <<late, phoneOnline, leaving>>
  BY <1>2 DEF Goes, session
<1>4. SUFFICES ASSUME ~late PROVE StoredIsTold'
  BY <1>3 DEF StatusInv, StoredIsTold
<1>5. phoneOnline /\ leaving = {} /\ s = lastReport /\ \A k \in handling : k = t
  BY <1>1, <1>3, <1>4 DEF StatusInv, StoredIsTold
<1> QED
  BY <1>2, <1>3, <1>5 DEF StoredIsTold

(* Every step of Status preserves the invariant.                           *)
LEMMA StatusInductive ==
    ASSUME StatusInv, [StatusNext]_statusVars PROVE StatusInv'
<1> USE DEF StatusInv, StoredIsTold
<1>1. ASSUME NEW packet \in Packets, Handles(packet)
      PROVE  StatusInv'
  <2>1. UNCHANGED <<phoneOnline, leaving, lastReport, toldSignal>>
    BY <1>1 DEF Handles, session, kept, told
  <2>2. ~late' => ~late /\ handling = {}
    BY <1>1 DEF Handles
  <2>3. phoneOnline /\ handling' = handling \union {packet} /\ late' \in BOOLEAN
    BY <1>1 DEF Handles
  <2>4. packet.to # "tell signal"
    BY DEF Packets
  <2> QED
    BY <2>1, <2>2, <2>3, <2>4
<1>2. ASSUME NEW s \in Signals, HandleReport(s) \/ PublishSignal(s)
      PROVE  StatusInv'
  BY <1>2, ReportsGoOn, SignalsGoOn
<1>3. ASSUME NEW kind \in {"list", "update", "store", "tell level", "charge", "tell charge"},
             NEW v, NEW next,
             \/ next = {}
             \/ \E to \in {"store", "tell level", "tell charge"} : next = {Begun(to, v)},
             Goes(Begun(kind, v), next), UNCHANGED <<lastReport, toldSignal>>
      PROVE  StatusInv'
  <2>1. Begun(kind, v).to # "tell signal"
    BY HandlerFields
  <2>2. (\A n \in next : n.to # "tell signal") /\ (\A n, m \in next : n = m)
    BY <1>3, HandlerFields
  <2> HIDE DEF StatusInv
  <2> QED
    BY <1>3, <2>1, <2>2, OthersGoOn
<1>4. ASSUME NEW v \in Levels, HandleSinkList(v) \/ StoreSinks(v) \/ UpdateBattery(v)
      PROVE  StatusInv'
  BY <1>3, <1>4 DEF HandleSinkList, StoreSinks, UpdateBattery, told
<1>5. ASSUME NEW v \in Levels,
             LoadSinks(v) \/ PublishLevel(v) \/ PublishBattery(v)
      PROVE  StatusInv'
  <2>1. CASE LoadSinks(v)
    <3>1. CASE sinkLevel = Unreported
      BY <1>3, <2>1, <3>1 DEF LoadSinks, told, kept
    <3>2. CASE sinkLevel # Unreported
      BY <1>3, <2>1, <3>2 DEF LoadSinks, told, kept
    <3> QED
      BY <3>1, <3>2
  <2>2. CASE PublishLevel(v) \/ PublishBattery(v)
    BY <1>3, <2>2 DEF PublishLevel, PublishBattery, kept
  <2> QED
    BY <1>5, <2>1, <2>2
<1>6. CASE PhoneConnects
  <2>1. ~late' => ~late /\ leaving = {}
    BY <1>6 DEF PhoneConnects
  <2>2. /\ ~phoneOnline /\ phoneOnline' /\ toldSignal' = Unreported /\ late' \in BOOLEAN
        /\ UNCHANGED <<lastReport, handling, leaving>>
    BY <1>6 DEF PhoneConnects, kept
  <2> QED
    BY <2>1, <2>2
<1>7. CASE PhoneDisconnects
  <2>1. ~late' => ~late /\ handling = {}
    BY <1>7 DEF PhoneDisconnects
  <2>2. ~phoneOnline' /\ late' \in BOOLEAN /\ handling' = handling
    BY <1>7 DEF PhoneDisconnects
  <2>3. \E l \in leaving' : l.at = "reports"
    <3>1. [no |-> sessionNo, at |-> "reports"] \in leaving'
      BY <1>7 DEF PhoneDisconnects
    <3> QED
      BY <3>1
  <2> QED
    BY <2>1, <2>2, <2>3
<1>8. ASSUME NEW l \in leaving, ForgetReports(l)
      PROVE  StatusInv'
  <2>1. ~late' => ~phoneOnline /\ handling = {}
    BY <1>8 DEF ForgetReports, Quiet
  <2>2. /\ lastReport' = Unreported /\ late' \in BOOLEAN
        /\ UNCHANGED <<phoneOnline, handling>>
    BY <1>8 DEF ForgetReports, session
  <2> QED
    BY <2>1, <2>2
<1>9. ASSUME NEW l \in leaving, ForgetSinks(l)
      PROVE  StatusInv'
  <2>1. /\ leaving' = leaving \ {l} /\ l.at # "reports"
        /\ UNCHANGED <<phoneOnline, lastReport, handling, toldSignal, late>>
    BY <1>9 DEF ForgetSinks, session, told
  <2> QED
    BY <2>1
<1>10. CASE UNCHANGED statusVars
  BY <1>10 DEF statusVars
<1> QED
  BY <1>1, <1>2, <1>3, <1>4, <1>5, <1>6, <1>7, <1>8, <1>9, <1>10 DEF StatusNext

(* The invariant holds of the reports.                                     *)
LEMMA StatusInvariant == StatusSpec => []StatusInv
<1>1. StatusInit => StatusInv
  BY DEF StatusInit, StatusInv, StoredIsTold
<1> QED
  BY <1>1, StatusInductive, PTL DEF StatusSpec

(* A report that repeats the last one is not told again (shouldPublish),   *)
(* and still the clients of the session know what is stored, for the       *)
(* stored report is forgotten after the session (OnDisconnect) - if no     *)
(* handler overlaps another or the end of its session, and no session      *)
(* begins before OnDisconnect of the one before.                           *)
THEOREM SignalAlwaysTold == StatusSpec => []SignalIsTold
<1>1. StatusInv => SignalIsTold
  BY DEF StatusInv, StoredIsTold, SignalIsTold
<1> QED
  BY <1>1, StatusInvariant, PTL

-----------------------------------------------------------------------------
(* RemoteMedia: a track that is shown as waiting for its art gets it.      *)

(* What the phone sends: states of its player, and lists of its players.   *)
Played == Songs \union {NoSong}
PhonePacket ==
    [kind : {"state"}, song : Songs, plays : BOOLEAN]
        \union [kind : {"list"}, song : Played]

(* What the handler is about to publish: a track, then also its art.       *)
Updates ==
    {<<>>} \union {<<s>> : s \in Played}
        \union {<<s, a>> : s \in Played, a \in {"none", "pending", "file"}}

(* The types the proof needs.                                              *)
MediaShapes ==
    /\ phoneSong \in Played /\ phonePlays \in BOOLEAN
    /\ toPc \in Seq(PhonePacket)
    /\ remote \in [song : Played, plays : BOOLEAN]
    /\ mediaHandling \in Updates

(* Unless art has come between its lookup and the publication: a track     *)
(* that is about to be shown as waiting has no art yet; and when nothing   *)
(* is about to be shown, art that is there for the track that is shown as  *)
(* waiting, and is the current one, is about to be stamped.  Nothing waits *)
(* for the art of no song.                                                 *)
PendingIsMissing ==
    ~artCrossed =>
        /\ \A s \in Played :
            mediaHandling = <<s, "pending">> => s # NoSong /\ s \notin artCache
        /\ trackShown.art = "pending" => trackShown.song # NoSong
        /\ mediaHandling = <<>> /\ trackShown.art = "pending"
                /\ trackShown.song = remote.song /\ remote.song \in artCache
            => remote.song \in stamping

MediaInv == MediaShapes /\ PendingIsMissing

(* What is handled is a packet, and the rest are packets.                  *)
LEMMA PacketHandled ==
    ASSUME MediaShapes, toPc # <<>>
    PROVE  /\ Head(toPc) \in PhonePacket /\ Tail(toPc) \in Seq(PhonePacket)
           /\ Head(toPc).kind = "state" =>
                Head(toPc).song \in Songs /\ Head(toPc).plays \in BOOLEAN
           /\ Head(toPc).song \in Played
<1> DEFINE P == PhonePacket
<1>1. toPc \in Seq(P)
  BY DEF MediaShapes
<1> HIDE DEF P
<1>2. Head(toPc) \in P /\ Tail(toPc) \in Seq(P)
  BY <1>1
<1> QED
  BY <1>2 DEF P, PhonePacket, Played

(* Any packet the phone sends keeps the queue one of packets.              *)
LEMMA PacketSent ==
    ASSUME NEW q \in Seq(PhonePacket), NEW s \in Played, NEW p \in BOOLEAN
    PROVE  /\ Append(q, Listing(s)) \in Seq(PhonePacket)
           /\ s # NoSong => Append(q, StateOf(s, p)) \in Seq(PhonePacket)
<1>1. Listing(s) \in PhonePacket
  BY DEF Listing, PhonePacket
<1>2. s # NoSong => StateOf(s, p) \in PhonePacket
  BY DEF StateOf, PhonePacket, Played
<1> DEFINE P == PhonePacket
<1> HIDE DEF P
<1> QED
  BY <1>1, <1>2

(* What the handler has, by the length.                                     *)
LEMMA UpdateMeans ==
    ASSUME MediaShapes
    PROVE  /\ Len(mediaHandling) = 1 => \E s \in Played : mediaHandling = <<s>>
           /\ Len(mediaHandling) = 2 =>
                \E s \in Played, a \in {"none", "pending", "file"} : mediaHandling = <<s, a>>
<1>1. \/ mediaHandling = <<>>
      \/ \E s \in Played : mediaHandling = <<s>>
      \/ \E s \in Played, a \in {"none", "pending", "file"} : mediaHandling = <<s, a>>
  BY DEF MediaShapes, Updates
<1> QED
  BY <1>1

(* Every step of RemoteMedia keeps the types.                              *)
LEMMA MediaTypes ==
    ASSUME MediaShapes, [RemoteMediaNext]_remoteVars PROVE MediaShapes'
<1> USE DEF remoteVars, phoneVars, linkVars, artVars, shownVars
<1>1. phoneSong' \in Played /\ phonePlays' \in BOOLEAN
  BY DEF RemoteMediaNext, MediaShapes, Played, PhoneSwitches, PhoneLinks,
     PhoneDrops,
      ConnectHook, RequestPlayerList, DisconnectHook, HandlePlayerList, HandleNowPlaying,
      ResolveArt, PublishState, PhoneSendsArt, ThrottleEnds, ReceiveAlbumArt,
      StampAlbumArt, AudienceChanges, PollRemoteStates
<1>2. UNCHANGED remote \/ remote' = [song |-> NoSong, plays |-> FALSE] \/ HandleNowPlaying
  BY DEF RemoteMediaNext, PhoneSwitches, PhoneLinks, PhoneDrops,
      ConnectHook, RequestPlayerList, DisconnectHook, HandlePlayerList,
      ResolveArt, PublishState, PhoneSendsArt, ThrottleEnds, ReceiveAlbumArt,
      StampAlbumArt, AudienceChanges, PollRemoteStates
<1>3. remote' \in [song : Played, plays : BOOLEAN]
  <2>1. CASE HandleNowPlaying
    <3>1. Head(toPc).song \in Played /\ Head(toPc).plays \in BOOLEAN
      BY <2>1, PacketHandled DEF HandleNowPlaying
    <3>2. remote' = [song |-> Head(toPc).song, plays |-> Head(toPc).plays]
      BY <2>1 DEF HandleNowPlaying
    <3> QED
      BY <3>1, <3>2
  <2>2. CASE remote' = [song |-> NoSong, plays |-> FALSE]
    <3>1. NoSong \in Played
      BY DEF Played
    <3> QED
      BY <2>2, <3>1
  <2>3. CASE UNCHANGED remote
    BY <2>3 DEF MediaShapes
  <2> QED
    BY <1>2, <2>1, <2>2, <2>3
<1>4. UNCHANGED mediaHandling \/ mediaHandling' = <<>> \/ mediaHandling' = <<NoSong>>
        \/ HandleNowPlaying \/ ResolveArt
  BY DEF RemoteMediaNext, PhoneSwitches, PhoneLinks, PhoneDrops,
      ConnectHook, RequestPlayerList, DisconnectHook, HandlePlayerList,
      PublishState, PhoneSendsArt, ThrottleEnds, ReceiveAlbumArt,
      StampAlbumArt, AudienceChanges, PollRemoteStates
<1>5. CASE HandleNowPlaying
  <2>1. Head(toPc).song \in Played
    BY <1>5, PacketHandled DEF HandleNowPlaying
  <2>2. mediaHandling' \in {<<>>, <<Head(toPc).song>>}
    BY <1>5 DEF HandleNowPlaying
  <2>3. mediaHandling' \in Updates
    BY <2>1, <2>2 DEF Updates
  <2> QED
    BY <1>1, <1>3, <1>5, <2>3, PacketHandled DEF HandleNowPlaying, MediaShapes
<1>6. CASE ~HandleNowPlaying
  <2>1. mediaHandling' \in Updates
    <3>1. CASE ResolveArt
      <4>1. PICK s \in Played : mediaHandling = <<s>>
        BY <3>1, UpdateMeans DEF ResolveArt
      <4>2. mediaHandling' = <<s, IF s = NoSong THEN "none" ELSE Resolved(s)>>
        BY <3>1, <4>1 DEF ResolveArt
      <4> QED
        BY <4>2 DEF Updates, Resolved
    <3> QED
      BY <1>4, <1>6, <3>1 DEF MediaShapes, Updates, Played
  <2>2. toPc' \in Seq(PhonePacket)
    <3>1. \/ UNCHANGED toPc \/ toPc' = <<>>
          \/ toPc # <<>> /\ toPc' = <<Head(toPc)>>
          \/ \E s \in Played : toPc' = Append(toPc, Listing(s))
          \/ \E s \in Played, p \in BOOLEAN :
                s # NoSong /\ toPc' = Append(toPc, StateOf(s, p))
          \/ HandlePlayerList
      BY <1>6 DEF RemoteMediaNext, MediaShapes, Played, PhoneSwitches,
         PhoneLinks, PhoneDrops,
          ConnectHook, RequestPlayerList, DisconnectHook, SendToPc,
          ResolveArt, PublishState, PhoneSendsArt, ThrottleEnds, ReceiveAlbumArt,
          StampAlbumArt, AudienceChanges, PollRemoteStates
    <3>2. CASE HandlePlayerList
      BY <3>2, PacketHandled, PacketSent DEF HandlePlayerList, MediaShapes
    <3>3. CASE toPc # <<>> /\ toPc' = <<Head(toPc)>>
      <4> DEFINE P == PhonePacket
      <4>1. Head(toPc) \in P
        BY <3>3, PacketHandled
      <4> HIDE DEF P
      <4>2. <<Head(toPc)>> \in Seq(P)
        BY <4>1
      <4> QED
        BY <3>3, <4>2 DEF P
    <3>4. CASE toPc' = <<>>
      BY <3>4
    <3> QED
      BY <3>1, <3>2, <3>3, <3>4, PacketSent DEF MediaShapes
  <2> QED
    BY <1>1, <1>3, <2>1, <2>2 DEF MediaShapes
<1> QED
  BY <1>5, <1>6

(* Every step of RemoteMedia keeps art from being missed.                  *)
LEMMA PendingStaysMissing ==
    ASSUME MediaInv, [RemoteMediaNext]_remoteVars PROVE PendingIsMissing'
<1> USE DEF MediaInv, remoteVars, phoneVars, linkVars, artVars, shownVars
<1> SUFFICES ASSUME ~artCrossed' PROVE PendingIsMissing'
  BY DEF PendingIsMissing
<1>0. /\ PendingIsMissing
      /\ UNCHANGED <<remote, artCache, artCrossed, mediaHandling, trackShown, stamping>>
            => PendingIsMissing'
  BY DEF PendingIsMissing
<1>1. CASE \/ \E s \in Songs \union {NoSong}, p \in BOOLEAN : PhoneSwitches(s, p)
           \/ PhoneLinks \/ PhoneDrops \/ ConnectHook \/ RequestPlayerList
           \/ AudienceChanges \/ PollRemoteStates \/ UNCHANGED remoteVars
           \/ \E s \in Songs : PhoneSendsArt(s) \/ ThrottleEnds(s)
  BY <1>0, <1>1 DEF PhoneSwitches, PhoneLinks, PhoneDrops, ConnectHook,
     RequestPlayerList,
      AudienceChanges, PollRemoteStates, PhoneSendsArt, ThrottleEnds
<1>2. CASE DisconnectHook
  BY <1>2 DEF DisconnectHook, PendingIsMissing
<1>3. CASE HandlePlayerList
  BY <1>3 DEF HandlePlayerList, PendingIsMissing
<1>4. CASE HandleNowPlaying
  BY <1>4, PacketHandled DEF HandleNowPlaying, PendingIsMissing
<1>5. CASE ResolveArt
  <2>1. PICK s \in Played : mediaHandling = <<s>>
    BY <1>5, UpdateMeans DEF ResolveArt
  <2>2. mediaHandling' = <<s, IF s = NoSong THEN "none" ELSE Resolved(s)>>
    BY <1>5, <2>1 DEF ResolveArt
  <2>3. UNCHANGED <<remote, artCache, artCrossed, trackShown, stamping>>
    BY <1>5 DEF ResolveArt
  <2> QED
    BY <2>2, <2>3 DEF Resolved, PendingIsMissing
<1>6. CASE PublishState
  <2>1. PICK s \in Played, a \in {"none", "pending", "file"} : mediaHandling = <<s, a>>
    BY <1>6, UpdateMeans DEF PublishState
  <2>2. /\ trackShown' = [song |-> s, art |-> a] /\ mediaHandling' = <<>>
        /\ UNCHANGED <<remote, artCache, artCrossed, stamping>>
    BY <1>6, <2>1 DEF PublishState
  <2> QED
    BY <2>1, <2>2 DEF PendingIsMissing
<1>7. ASSUME NEW s \in Songs, ReceiveAlbumArt(s)
      PROVE  PendingIsMissing'
  <2>1. /\ UNCHANGED <<remote, mediaHandling, trackShown>>
        /\ \/ UNCHANGED <<artCache, artCrossed, stamping>>
           \/ /\ artCache' = artCache \union {s} /\ mediaHandling # <<s, "pending">>
              /\ ~artCrossed
              /\ stamping' = IF remote.song = s THEN stamping \union {s} ELSE stamping
    BY <1>7 DEF ReceiveAlbumArt, Commit, StampWanted
  <2> QED
    BY <1>0, <2>1 DEF PendingIsMissing
<1>8. ASSUME NEW s \in Songs, StampAlbumArt(s)
      PROVE  PendingIsMissing'
  BY <1>8 DEF StampAlbumArt, PendingIsMissing
<1> QED
  BY <1>1, <1>2, <1>3, <1>4, <1>5, <1>6, <1>7, <1>8 DEF RemoteMediaNext

(* The invariant holds of the remote player.                               *)
LEMMA RemoteMediaInvariant == RemoteMediaSpec => []MediaInv
<1>1. RemoteMediaInit => MediaInv
  <2> SUFFICES ASSUME RemoteMediaInit PROVE MediaInv
    OBVIOUS
  <2>1. remote \in [song : Played, plays : BOOLEAN]
    BY DEF RemoteMediaInit, Played
  <2>2. phoneSong \in Played /\ phonePlays \in BOOLEAN /\ mediaHandling \in Updates
    BY DEF RemoteMediaInit, Played, Updates
  <2>3. toPc \in Seq(PhonePacket)
    <3> DEFINE P == PhonePacket
    <3> HIDE DEF P
    <3>1. toPc \in Seq(P)
      BY DEF RemoteMediaInit
    <3> QED
      BY <3>1 DEF P
  <2>4. PendingIsMissing
    BY DEF RemoteMediaInit, PendingIsMissing, Idle
  <2> QED
    BY <2>1, <2>2, <2>3, <2>4 DEF MediaInv, MediaShapes
<1>2. MediaInv /\ [RemoteMediaNext]_remoteVars => MediaInv'
  BY MediaTypes, PendingStaysMissing DEF MediaInv
<1> QED
  BY <1>1, <1>2, PTL DEF RemoteMediaSpec

(* Art that has come is shown: whether the handler finds it in the cache   *)
(* (ResolveArt) or the download stamps the track (stampAlbumArt), no       *)
(* current track stays "pending" although its image is on the disk.        *)
THEOREM ArtAlwaysShown == RemoteMediaSpec => []ArtIsShown
<1>1. MediaInv => ArtIsShown
  BY DEF MediaInv, MediaShapes, PendingIsMissing, ArtIsShown
<1> QED
  BY <1>1, RemoteMediaInvariant, PTL

-----------------------------------------------------------------------------
(* Desktop: a ring that sounds is heard.                                   *)

(* A ring is under way from the time it has set `playing` until it resets  *)
(* it.                                                                     *)
UnderWay(r) == ringAt[r] \in {"started", "read", "sounding", "over"}

(* The types the proof needs.                                              *)
RingShapes ==
    /\ muted \in BOOLEAN
    /\ ringAt \in [RingReqs -> {"none", "ignored", "started", "read",
                             "sounding", "over", "told"}]
    /\ wasMuted \in [RingReqs -> BOOLEAN]

(* The flag lets one ring in at a time, and what a ring has not read it    *)
(* does not restore.                                                       *)
RingsInTurn ==
    /\ \A r, q \in RingReqs : UnderWay(r) /\ UnderWay(q) => r = q
    /\ playing <=> \E r \in RingReqs : UnderWay(r)
    /\ \A r \in RingReqs : ringAt[r] \in {"none", "ignored", "started"} => ~wasMuted[r]

(* As long as commands work and nobody else mutes: what a ring has found   *)
(* is what it finds again when it is over, and what an earlier ring has    *)
(* left muted is muted still, or is to be restored by the ring that        *)
(* sounds.                                                                 *)
MuteIsKept ==
    ~othersMuted /\ ~audioFailed =>
        /\ \A r \in RingReqs :
            /\ ringAt[r] = "read" => wasMuted[r] = muted
            /\ ringAt[r] = "sounding" => ~muted
            /\ ringAt[r] = "over" /\ wasMuted[r] => muted
        /\ \A r \in RingReqs : ringAt[r] = "told" /\ wasMuted[r] =>
            muted \/ \E q \in RingReqs : ringAt[q] = "sounding" /\ wasMuted[q]

AlarmInv == RingShapes /\ RingsInTurn /\ MuteIsKept

(* Every step of the sound preserves the invariant.                        *)
LEMMA RingInductive ==
    ASSUME AlarmInv, [SoundNext]_soundVars PROVE AlarmInv'
<1> USE DEF AlarmInv, RingShapes, RingsInTurn, MuteIsKept, UnderWay, RingTo
<1>0. ASSUME UNCHANGED <<ringAt, wasMuted, playing>>, muted' \in BOOLEAN,
             othersMuted' \/ (UNCHANGED <<muted, othersMuted>> /\ (audioFailed => audioFailed'))
      PROVE  AlarmInv'
  BY <1>0
<1>1. ASSUME NEW r \in RingReqs, RingRequest(r)
      PROVE  AlarmInv'
  BY <1>1 DEF RingRequest, AnotherRings
<1>2. ASSUME NEW r \in RingReqs, ReadMute(r)
      PROVE  AlarmInv'
  BY <1>2 DEF ReadMute, SinkState
<1>3. ASSUME NEW r \in RingReqs, Unmute(r)
      PROVE  AlarmInv'
  BY <1>3 DEF Unmute, SetMuted
<1>4. ASSUME NEW r \in RingReqs, RestoreMute(r)
      PROVE  AlarmInv'
  BY <1>4 DEF RestoreMute, SetMuted
<1>5. ASSUME NEW r \in RingReqs, RingDone(r)
      PROVE  AlarmInv'
  BY <1>5 DEF RingDone
<1>6. ASSUME NEW v \in VolumeReqs, SetVolume(v) \/ ReadSinks(v) \/ SendSinks(v)
             \/ \E vol \in Volumes \union {0}, m \in {"keep", "yes", "no"} :
                    VolumeRequest(v, vol, m)
      PROVE  AlarmInv'
  <2>1. UNCHANGED <<ringAt, wasMuted, playing, muted, othersMuted>>
    BY <1>6 DEF SetVolume, ReadSinks, SendSinks, VolumeRequest
  <2>2. audioFailed => audioFailed'
    BY <1>6 DEF SetVolume, ReadSinks, SendSinks, VolumeRequest
  <2> QED
    BY <1>0, <2>1, <2>2
<1>7. ASSUME NEW v \in VolumeReqs, MuteAsAsked(v)
      PROVE  AlarmInv'
  <2>1. muted' \in BOOLEAN
    BY <1>7 DEF MuteAsAsked
  <2> QED
    BY <1>0, <1>7, <2>1 DEF MuteAsAsked
<1>8. CASE UserMutes
  BY <1>0, <1>8 DEF UserMutes
<1>9. CASE UNCHANGED soundVars
  BY <1>0, <1>9 DEF soundVars
<1> QED
  BY <1>1, <1>2, <1>3, <1>4, <1>5, <1>6, <1>7, <1>8, <1>9 DEF SoundNext

(* The invariant holds of the rings.                                       *)
LEMMA SoundInvariant == SoundSpec => []AlarmInv
<1>1. SoundInit => AlarmInv
  BY DEF SoundInit, AlarmInv, RingShapes, RingsInTurn, MuteIsKept, UnderWay
<1> QED
  BY <1>1, RingInductive, PTL DEF SoundSpec

(* Any number of ring requests and volume requests may come; the flag      *)
(* `playing` keeps rings apart (RingRequest), so that none restores the    *)
(* mute state while another sounds, and the last to end leaves it as the   *)
(* first has found it.                                                     *)
THEOREM RingAlwaysHeard == SoundSpec => []RingIsHeard
<1>1. AlarmInv => RingIsHeard
  BY DEF AlarmInv, RingShapes, RingsInTurn, MuteIsKept, UnderWay, RingIsHeard
<1> QED
  BY <1>1, SoundInvariant, PTL

-----------------------------------------------------------------------------
(* Input: the touchpad.                                                    *)

(* An event, with the moves that were received before it.                  *)
PadEvents == [kind : {"none", "click", "hold", "release"}, before : Nat]

(* The types the proof needs.                                              *)
PadShapes ==
    /\ moveX \in Nat /\ movesIn \in Nat /\ movesOut \in Nat
    /\ padQueue \in Seq(PadEvents) /\ taken \in PadEvents
    /\ workerAt \in {"select", "look", "flushFirst", "flush", "flushTimed", "event"}

(* What is received is out or pending; an event that is queued or taken    *)
(* comes after moves that have been received; and when it is its turn, at  *)
(* most half a pixel of them is not out yet.                               *)
MovesAddUp ==
    /\ moveX + movesOut = movesIn /\ ~early
    /\ \A i \in DOMAIN padQueue : padQueue[i].before <= movesIn
    /\ workerAt = "flushFirst" => taken.before <= movesIn
    /\ workerAt = "event" => taken.before <= movesOut + 1

(* While the worker waits, or flushes because its timer has fired, what is *)
(* queued has its wake-up.                                                 *)
QueueIsAnnounced ==
    padQueue # <<>> /\ workerAt \in {"select", "flushTimed"} /\ ~poking => queueWake

PadInv == PadShapes /\ MovesAddUp /\ QueueIsAnnounced

(* Of a position at most the fraction stays.                               *)
LEMMA WholeIsDue ==
    ASSUME NEW n \in Nat
    PROVE  Whole(n) \in Nat /\ Whole(n) <= n /\ n <= Whole(n) + 1
BY DEF Whole

(* What is queued are events.                                              *)
LEMMA QueuedAreEvents ==
    ASSUME PadShapes
    PROVE  \A i \in DOMAIN padQueue : padQueue[i].before \in Nat
<1> DEFINE E == PadEvents
<1>1. padQueue \in Seq(E)
  BY DEF PadShapes
<1> HIDE DEF E
<1>2. \A i \in DOMAIN padQueue : padQueue[i] \in E
  BY <1>1
<1> QED
  BY <1>2 DEF E, PadEvents

(* What is taken from the queue, and what stays.                           *)
LEMMA EventTaken ==
    ASSUME PadShapes, MovesAddUp, padQueue # <<>>
    PROVE  /\ Head(padQueue) \in PadEvents /\ Head(padQueue).before <= movesIn
           /\ Tail(padQueue) \in Seq(PadEvents)
           /\ \A i \in DOMAIN Tail(padQueue) : Tail(padQueue)[i].before <= movesIn
<1> DEFINE E == PadEvents
<1>1. padQueue \in Seq(E) /\ \A i \in DOMAIN padQueue : padQueue[i].before <= movesIn
  BY DEF PadShapes, MovesAddUp
<1> HIDE DEF E
<1>2. Head(padQueue) \in E /\ Tail(padQueue) \in Seq(E)
  BY <1>1
<1>3. 1 \in DOMAIN padQueue /\ Head(padQueue) = padQueue[1]
  BY <1>1
<1>4. \A i \in DOMAIN Tail(padQueue) :
        i + 1 \in DOMAIN padQueue /\ Tail(padQueue)[i] = padQueue[i + 1]
  BY <1>1
<1> QED
  BY <1>1, <1>2, <1>3, <1>4 DEF E

(* Every step of the touchpad preserves the invariant.                     *)
LEMMA PadInductive ==
    ASSUME PadInv, [PadNext]_padVars PROVE PadInv'
<1> USE DEF PadInv
<1>1. ASSUME NEW n \in MoveSizes, PadMove(n)
      PROVE  PadInv'
  <2>1. n \in Nat
    BY InputAssumption
  <2>2. /\ moveX' = moveX + n /\ movesIn' = movesIn + n /\ poking' = TRUE
        /\ UNCHANGED <<padQueue, workerAt, taken, movesOut, early>>
    BY <1>1 DEF PadMove, Sends
  <2>3. PadShapes'
    BY <2>1, <2>2 DEF PadShapes
  <2>4. moveX' + movesOut' = movesIn' /\ movesIn <= movesIn'
    BY <2>1, <2>2 DEF PadShapes, MovesAddUp
  <2>5. \A b \in Nat : b <= movesIn => b <= movesIn'
    BY <2>3, <2>4 DEF PadShapes
  <2>6. \A i \in DOMAIN padQueue : padQueue[i].before \in Nat
    BY QueuedAreEvents
  <2>7. taken.before \in Nat
    BY DEF PadShapes, PadEvents
  <2>8. MovesAddUp'
    BY <2>2, <2>4, <2>5, <2>6, <2>7 DEF MovesAddUp
  <2> QED
    BY <2>2, <2>3, <2>8 DEF QueueIsAnnounced
<1>2. ASSUME NEW k \in {"click", "hold", "release"}, PadEvent(k)
      PROVE  PadInv'
  <2> DEFINE e == [kind |-> k, before |-> movesIn]
             E == PadEvents
  <2>1. e \in E /\ e.before = movesIn /\ padQueue \in Seq(E)
    BY DEF PadEvents, PadShapes
  <2>2. padQueue' = Append(padQueue, e)
    BY <1>2 DEF PadEvent
  <2>3. /\ UNCHANGED <<moveX, workerAt, taken, movesIn, movesOut, early>>
        /\ poking' = TRUE
    BY <1>2 DEF PadEvent, Sends
  <2> HIDE DEF e, E
  <2>4. padQueue' \in Seq(E)
    BY <2>1, <2>2
  <2>5. \A i \in DOMAIN padQueue' :
            \/ padQueue'[i] = e
            \/ i \in DOMAIN padQueue /\ padQueue'[i] = padQueue[i]
    BY <2>1, <2>2
  <2>6. PadShapes'
    BY <2>3, <2>4 DEF PadShapes, E
  <2>7. MovesAddUp'
    BY <2>1, <2>3, <2>5 DEF MovesAddUp, PadShapes
  <2> QED
    BY <2>3, <2>6, <2>7 DEF QueueIsAnnounced
<1>3. CASE PadWake
  BY <1>3 DEF PadWake, PadShapes, MovesAddUp, QueueIsAnnounced
<1>4. CASE WorkerWakes \/ TimerFires
  BY <1>4 DEF WorkerWakes, TimerFires, PadShapes, MovesAddUp, QueueIsAnnounced
<1>5. CASE TakePadEvent
  <2>1. /\ taken' = Head(padQueue) /\ padQueue' = Tail(padQueue) /\ padQueue # <<>>
        /\ workerAt' = AfterTaking
        /\ UNCHANGED <<moveX, movesIn, movesOut, early>>
    BY <1>5 DEF TakePadEvent
  <2>2. PadShapes'
    BY <2>1, EventTaken DEF PadShapes, AfterTaking
  <2>3. workerAt' = "flushFirst" \/ (workerAt' = "event" /\ Whole(moveX) = 0)
    BY <2>1 DEF AfterTaking
  <2>4. moveX \in Nat /\ movesOut \in Nat /\ movesIn \in Nat /\ moveX + movesOut = movesIn
    BY DEF PadShapes, MovesAddUp
  <2>5. taken'.before \in Nat
    BY <2>2 DEF PadShapes, PadEvents
  <2>6. workerAt' = "event" => movesIn <= movesOut + 1
    BY <2>3, <2>4, WholeIsDue
  <2>7. MovesAddUp'
    BY <2>1, <2>3, <2>4, <2>5, <2>6, EventTaken DEF MovesAddUp
  <2> QED
    BY <2>2, <2>3, <2>7 DEF QueueIsAnnounced
<1>6. CASE LookAtMoves
  BY <1>6 DEF LookAtMoves, StopTimer, PadShapes, MovesAddUp, QueueIsAnnounced
<1>7. CASE FlushMove
  <2> DEFINE w == Whole(moveX)
  <2>1. moveX \in Nat /\ movesOut \in Nat /\ movesIn \in Nat /\ moveX + movesOut = movesIn
    BY DEF PadShapes, MovesAddUp
  <2>2. w \in Nat /\ w <= moveX /\ moveX <= w + 1
    BY <2>1, WholeIsDue
  <2>3. /\ moveX' = moveX - w /\ movesOut' = movesOut + w
        /\ UNCHANGED <<padQueue, queueWake, poking, taken, movesIn, early>>
    BY <1>7 DEF FlushMove, HandleMove
  <2>4. \/ workerAt = "flushFirst" /\ workerAt' = "event"
        \/ workerAt = "flush" /\ workerAt' = "look"
        \/ workerAt = "flushTimed" /\ workerAt' = "select"
    BY <1>7 DEF FlushMove
  <2> HIDE DEF w
  <2>5. PadShapes'
    BY <2>1, <2>2, <2>3, <2>4 DEF PadShapes
  <2>6. taken.before \in Nat
    BY DEF PadShapes, PadEvents
  <2>7. workerAt' = "event" => taken'.before <= movesOut' + 1
    BY <2>1, <2>2, <2>3, <2>4, <2>6 DEF MovesAddUp
  <2>8. moveX' + movesOut' = movesIn'
    BY <2>1, <2>2, <2>3
  <2>9. MovesAddUp'
    BY <2>3, <2>4, <2>7, <2>8 DEF MovesAddUp
  <2> QED
    BY <2>3, <2>4, <2>5, <2>9 DEF QueueIsAnnounced
<1>8. CASE HandleEvent
  <2>1. /\ workerAt = "event" /\ workerAt' = "look" /\ taken' = NoEvent
        /\ UNCHANGED <<moveX, padQueue, movesIn, movesOut>>
    BY <1>8 DEF HandleEvent
  <2>2. taken.before \in Nat /\ movesOut \in Nat /\ taken.before <= movesOut + 1
    BY <2>1 DEF PadShapes, MovesAddUp, PadEvents
  <2>3. ~(taken.before > movesOut + 1)
    BY <2>2
  <2>4. ~early'
    BY <1>8, <2>3, Zenon DEF HandleEvent, MovesAddUp
  <2>5. PadShapes'
    BY <2>1 DEF PadShapes, NoEvent, PadEvents
  <2> QED
    BY <2>1, <2>4, <2>5 DEF MovesAddUp, QueueIsAnnounced
<1>9. CASE IntervalPasses \/ UNCHANGED padVars
  BY <1>9 DEF IntervalPasses, padVars, PadShapes, MovesAddUp, QueueIsAnnounced
<1> QED
  BY <1>1, <1>2, <1>3, <1>4, <1>5, <1>6, <1>7, <1>8, <1>9 DEF PadNext

(* The touchpad begins with an empty queue and nothing pending.            *)
LEMMA PadStarts == ASSUME PadInit PROVE PadInv
<1>1. padQueue = <<>> /\ taken \in PadEvents
  BY DEF PadInit, NoEvent, PadEvents
<1>2. padQueue \in Seq(PadEvents)
  BY <1>1
<1> QED
  BY <1>1, <1>2 DEF PadInit, PadInv, PadShapes, MovesAddUp, QueueIsAnnounced

(* The invariant holds of the touchpad.                                    *)
LEMMA PadInvariant == PadSpec => []PadInv
BY PadStarts, PadInductive, PTL DEF PadSpec

(* Moves are added up by the handler and flushed by the worker, events go  *)
(* through a queue beside them; no half pixel is lost or counted twice,    *)
(* and an event never overtakes a whole pixel (flushMove before            *)
(* handleEvent).                                                           *)
THEOREM InputAlwaysInOrder == PadSpec => []InputInOrder
<1>1. PadInv => InputInOrder
  BY DEF PadInv, MovesAddUp, InputInOrder
<1> QED
  BY <1>1, PadInvariant, PTL

-----------------------------------------------------------------------------
(* Input: the presenter's pointer.                                         *)

(* Where the pointer is to go, and where the worker takes it.              *)
PointerShapes == xPos \in 0..ScreenEnd /\ moveTo \in -1..ScreenEnd

(* When the handler is done, a pointer that is not where the worker has    *)
(* put it, or takes it, has its wake-up.                                   *)
MoveIsAnnounced ==
    ~pointing /\ xPos # (IF moveTo = -1 THEN cursor ELSE moveTo) => moveCh

PointerInv == PointerShapes /\ MoveIsAnnounced

(* Every step of the presenter preserves the invariant.                    *)
LEMMA PointerInductive ==
    ASSUME PointerInv, [PresenterNext]_presenterVars PROVE PointerInv'
<1> USE InputAssumption DEF PointerInv, PointerShapes, MoveIsAnnounced
<1>1. ASSUME NEW to \in 0..ScreenEnd, PresenterMove(to)
      PROVE  PointerInv'
  BY <1>1 DEF PresenterMove
<1>2. \A d \in {-1, 1, 2} : Clamp(xPos + d) \in 0..ScreenEnd
  BY DEF Clamp
<1>3. 1 \in 0..ScreenEnd
  OBVIOUS
<1>4. CASE PresenterWake
  BY <1>4 DEF PresenterWake
<1>5. CASE PresenterWorks
  BY <1>5 DEF PresenterWorks, PresenterReads
<1>6. CASE MoveCursor
  BY <1>6 DEF MoveCursor
<1>7. CASE UNCHANGED presenterVars
  BY <1>7 DEF presenterVars
<1> QED
  BY <1>1, <1>2, <1>3, <1>4, <1>5, <1>6, <1>7 DEF PresenterNext

(* The invariant holds of the presenter.                                   *)
LEMMA PresenterInvariant == PresenterSpec => []PointerInv
<1>1. PresenterInit => PointerInv
  BY InputAssumption DEF PresenterInit, PointerInv, PointerShapes, MoveIsAnnounced
<1> QED
  BY <1>1, PointerInductive, PTL DEF PresenterSpec

(* The wake channels of the touchpad and of the presenter hold one token   *)
(* and drop the others; still no event that is queued and no pointer that  *)
(* has moved is left behind while its worker waits.                        *)
THEOREM InputNeverStranded == PadSpec /\ PresenterSpec => []NoInputStranded
<1>1. PadInv /\ PointerInv => NoInputStranded
  BY DEF PadInv, QueueIsAnnounced, PointerInv, MoveIsAnnounced, NoInputStranded
<1> QED
  BY <1>1, PadInvariant, PresenterInvariant, PTL

-----------------------------------------------------------------------------
(* Input: the pen.                                                         *)

(* A start is handled by a goroutine on its way from the old device to the *)
(* new one, and nobody else makes or stores one.                           *)
StartsAreHandled ==
    /\ \A h \in starting : handAt[h] \in {"close", "create", "store"}
    /\ \A h \in PenHands : handAt[h] \in {"create", "store"} => h \in starting

(* Unless two have overlapped there is one, and no session until it stores *)
(* its own.                                                                *)
OneStart ==
    ~overlapped => (\A g, h \in starting : g = h) /\ (starting # {} => tablet = "none")

(* After the last OnDisconnect no start is being handled.                  *)
NoLateStart ==
    ~stray /\ ~penLinked /\ PenLeavers = {} => tablet = "none" /\ starting = {}

(* The first part of the property.                                         *)
OpenIsHeld ==
    ~overlapped =>
        \A t \in openTablets :
            \/ t = tablet
            \/ \E h \in PenHands : handTablet[h] = t /\ handAt[h] \in {"store", "close"}

PenInv == PenTypeOK /\ StartsAreHandled /\ OneStart /\ NoLateStart /\ OpenIsHeld

(* The steps of a goroutine other than the first of OnDisconnect.          *)
HandWorks(h) ==
    \/ CloseTablet(h) \/ PenPacket(h) \/ SendPen(h) \/ CreateFails(h) \/ StoreTablet(h)
    \/ \E start \in BOOLEAN : SessionPacket(h, start)
    \/ \E t \in Tablets : CreateTablet(h, t)

(* Every step of the pen keeps the types.                                  *)
LEMMA PenTypes == ASSUME PenTypeOK, [PenNext]_penVars PROVE PenTypeOK'
<1> USE DEF PenTypeOK, penDevices, penWork, penFlags, HandGoes
<1>1. CASE PenConnects \/ UNCHANGED penVars
  BY <1>1 DEF PenConnects, penVars
<1>2. ASSUME NEW h \in PenHands,
             PenDisconnects(h) \/ TakeTablet(h) \/ PenPacket(h) \/ SendPen(h)
      PROVE  PenTypeOK'
  BY <1>2 DEF PenDisconnects, TakeTablet, PenPacket, SendPen
<1>3. ASSUME NEW h \in PenHands, CreateFails(h) \/ StoreTablet(h)
      PROVE  PenTypeOK'
  BY <1>3 DEF CreateFails, StoreTablet
<1>4. ASSUME NEW h \in PenHands, CloseTablet(h) PROVE PenTypeOK'
  BY <1>4 DEF CloseTablet
<1>5. ASSUME NEW h \in PenHands, NEW start \in BOOLEAN, SessionPacket(h, start)
      PROVE  PenTypeOK'
  BY <1>5 DEF SessionPacket
<1>6. ASSUME NEW h \in PenHands, NEW t \in Tablets, CreateTablet(h, t)
      PROVE  PenTypeOK'
  BY <1>6 DEF CreateTablet
<1> QED
  BY <1>1, <1>2, <1>3, <1>4, <1>5, <1>6 DEF PenNext

(* Only the end of a session and the first step of OnDisconnect change     *)
(* who is about to call it, and only connecting and the end of a session   *)
(* whether the phone is here.                                              *)
LEMMA LeaversStay ==
    ASSUME PenTypeOK, NEW h \in PenHands, HandWorks(h)
    PROVE  PenLeavers' = PenLeavers /\ penLinked' = penLinked
BY DEF PenTypeOK, PenLeavers, HandWorks, HandGoes, CloseTablet, PenPacket, SendPen,
       CreateFails, StoreTablet, SessionPacket, CreateTablet

(* Every step of the pen preserves the invariant.                          *)
LEMMA PenInductive == ASSUME PenInv, [PenNext]_penVars PROVE PenInv'
<1>0. PenTypeOK /\ PenTypeOK'
  BY PenTypes DEF PenInv
<1>1. CASE PenConnects \/ UNCHANGED penVars
  BY <1>0, <1>1 DEF PenConnects, penVars, penDevices, penWork, penFlags, PenInv,
     StartsAreHandled, OneStart, NoLateStart, OpenIsHeld, PenLeavers
<1>2. ASSUME NEW h \in PenHands, PenDisconnects(h) PROVE PenInv'
  <2> USE <1>0, <1>2 DEF PenInv, PenTypeOK, PenDisconnects, HandGoes, penDevices, penFlags
  <2>1. StartsAreHandled'
    BY DEF StartsAreHandled
  <2>2. OneStart'
    BY DEF OneStart
  <2>3. NoLateStart'
    <3>1. h \in PenLeavers'
      BY DEF PenLeavers
    <3> QED
      BY <3>1 DEF NoLateStart
  <2>4. OpenIsHeld'
    BY DEF OpenIsHeld
  <2> QED
    BY <2>1, <2>2, <2>3, <2>4
<1>3. ASSUME NEW h \in PenHands, TakeTablet(h) PROVE PenInv'
  <2> USE <1>0, <1>3 DEF PenInv, PenTypeOK, TakeTablet, HandGoes, penDevices
  <2>1. StartsAreHandled'
    BY DEF StartsAreHandled
  <2>2. OneStart'
    BY DEF OneStart
  <2>3. NoLateStart'
    <3>1. h \in PenLeavers /\ PenLeavers \subseteq PenLeavers' \union {h}
      BY DEF PenLeavers
    <3>2. PenLeavers' = {} => PenLeavers = {h}
      BY ONLY <3>1
    <3>3. tablet' = "none" /\ starting' = starting /\ penLinked' = penLinked
      OBVIOUS
    <3>4. stray' = (stray \/ (~penLinked /\ PenLeavers = {h} /\ starting # {}))
      OBVIOUS
    <3> QED
      BY ONLY <3>2, <3>3, <3>4 DEF NoLateStart
  <2>4. OpenIsHeld'
    BY DEF OpenIsHeld
  <2> QED
    BY <2>1, <2>2, <2>3, <2>4
<1>4. ASSUME NEW h \in PenHands, HandWorks(h) PROVE PenInv'
  <2>1. PenLeavers' = PenLeavers /\ penLinked' = penLinked
    BY <1>0, <1>4, LeaversStay
  <2>2. ASSUME PenPacket(h) \/ SendPen(h) PROVE PenInv'
    BY <1>0, <2>1, <2>2 DEF PenInv, PenTypeOK, PenPacket, SendPen, HandGoes, penDevices,
       penFlags, StartsAreHandled, OneStart, NoLateStart, OpenIsHeld
  <2>3. ASSUME CloseTablet(h) PROVE PenInv'
    BY <1>0, <2>1, <2>3 DEF PenInv, PenTypeOK, CloseTablet, HandGoes, penFlags,
       StartsAreHandled, OneStart, NoLateStart, OpenIsHeld
  <2>4. ASSUME CreateFails(h) PROVE PenInv'
    BY <1>0, <2>1, <2>4 DEF PenInv, PenTypeOK, CreateFails, HandGoes, penDevices, penFlags,
       StartsAreHandled, OneStart, NoLateStart, OpenIsHeld
  <2>5. ASSUME StoreTablet(h) PROVE PenInv'
    <3> USE <1>0, <2>1, <2>5 DEF PenInv, PenTypeOK, StoreTablet, HandGoes, penDevices,
        penFlags
    <3>1. h \in starting
      BY DEF StartsAreHandled
    <3>2. StartsAreHandled' /\ OneStart'
      BY <3>1 DEF StartsAreHandled, OneStart
    <3>3. NoLateStart'
      BY <3>1 DEF NoLateStart
    <3>4. OpenIsHeld'
      BY <3>1, InputAssumption DEF OpenIsHeld, OneStart
    <3> QED
      BY <3>2, <3>3, <3>4
  <2>6. ASSUME NEW start \in BOOLEAN, SessionPacket(h, start) PROVE PenInv'
    <3> USE <1>0, <2>1, <2>6 DEF PenInv, PenTypeOK, SessionPacket, HandGoes, penDevices
    <3>1. StartsAreHandled'
      BY DEF StartsAreHandled
    <3>2. OneStart'
      BY DEF OneStart
    <3>3. NoLateStart'
      BY DEF NoLateStart
    <3>4. OpenIsHeld'
      BY DEF OpenIsHeld
    <3> QED
      BY <3>1, <3>2, <3>3, <3>4
  <2>7. ASSUME NEW t \in Tablets, CreateTablet(h, t) PROVE PenInv'
    <3> USE <1>0, <2>1, <2>7 DEF PenInv, PenTypeOK, CreateTablet, HandGoes, penFlags
    <3>1. StartsAreHandled' /\ OneStart' /\ NoLateStart'
      BY DEF StartsAreHandled, OneStart, NoLateStart
    <3>2. OpenIsHeld'
      BY DEF OpenIsHeld
    <3> QED
      BY <3>1, <3>2
  <2> QED
    BY <1>4, <2>2, <2>3, <2>4, <2>5, <2>6, <2>7 DEF HandWorks
<1> QED
  BY <1>1, <1>2, <1>3, <1>4 DEF PenNext, HandWorks

(* The invariant holds of the pen.                                         *)
LEMMA PenInvariant == PenSpec => []PenInv
<1>1. PenInit => PenInv
  BY DEF PenInit, PenInv, PenTypeOK, StartsAreHandled, OneStart, NoLateStart, OpenIsHeld
<1> QED
  BY <1>1, PenInductive, PTL DEF PenSpec

(* TabletsAreReachable: a tablet device of the kernel that is open can be  *)
(* closed, since the session has it or a goroutine that will store or      *)
(* close it, until two starts overlap; and none is left when the last      *)
(* OnDisconnect is over, unless a start is handled after it.               *)
THEOREM TabletsAlwaysReachable == PenSpec => []TabletsAreReachable
<1>1. PenInv => TabletsAreReachable
  BY DEF PenInv, OpenIsHeld, NoLateStart, TabletsAreReachable
<1> QED
  BY <1>1, PenInvariant, PTL

-----------------------------------------------------------------------------
(* Players: one poller.                                                    *)

(* Names, and what is known of their players.                              *)
Named == PlayerNames \union {NoName}
States == {"unknown", "playing", "stopped"}

(* What p.mu protects.                                                     *)
Media ==
    [player : [Displays -> Named], state : [Displays -> States],
     handle : 0..MaxPollers, gen : 0..MaxPollers,
     poller : [Pollers -> {"none", "waiting", "read", "ending"}],
     cancelled : SUBSET Pollers, paused : SUBSET Displays]

(* The handle is that of the poller armed last, or gone; and a poller that *)
(* samples and is not cancelled has the handle.                            *)
HasHandle(m) ==
    /\ m \in Media
    /\ m.handle \in {0, m.gen}
    /\ \A g \in Pollers :
        m.poller[g] \in {"waiting", "read"} /\ g \notin m.cancelled => g = m.handle

(* Display names and players change, and the pollers do not notice.        *)
LEMMA PlayersChange ==
    ASSUME NEW m, HasHandle(m),
           NEW f \in [Displays -> Named], NEW s \in [Displays -> States]
    PROVE  HasHandle([m EXCEPT !.player = f, !.state = s])
BY DEF HasHandle, Media

(* Arming and stopping move the handle.                                    *)
LEMMA ArmedHasHandle == ASSUME NEW m, HasHandle(m) PROVE HasHandle(ArmPoller(m))
<1>1. CASE m.handle # 0 \/ SparePollers(m) = {}
  BY <1>1 DEF ArmPoller
<1>2. CASE m.handle = 0 /\ SparePollers(m) # {}
  <2>1. PICK g \in SparePollers(m) :
            ArmPoller(m) = [m EXCEPT !.gen = g, !.handle = g, !.poller[g] = "waiting"]
    BY <1>2 DEF ArmPoller
  <2>2. g \in Pollers /\ g \in 0..MaxPollers
    BY <2>1, PlayersAssumption DEF SparePollers, Pollers
  <2>3. \A h \in Pollers : m.poller[h] \in {"waiting", "read"} => h \in m.cancelled
    BY <1>2 DEF HasHandle, Pollers
  <2> DEFINE n == [m EXCEPT !.gen = g, !.handle = g, !.poller[g] = "waiting"]
  <2>4. /\ n.gen = g /\ n.handle = g /\ n.cancelled = m.cancelled
        /\ \A h \in Pollers : n.poller[h] = IF h = g THEN "waiting" ELSE m.poller[h]
    BY <2>2 DEF HasHandle, Media
  <2>5. n \in Media
    BY <2>2 DEF HasHandle, Media
  <2> HIDE DEF n
  <2>6. HasHandle(n)
    BY <2>3, <2>4, <2>5 DEF HasHandle
  <2> QED
    BY <2>1, <2>6 DEF n
<1> QED
  BY <1>1, <1>2

(* A poller that is stopped is cancelled when it loses the handle.         *)
LEMMA StoppedHasHandle == ASSUME NEW m, HasHandle(m) PROVE HasHandle(StopPoller(m))
<1>1. {m.handle} \ {0} \subseteq Pollers
  BY PlayersAssumption DEF HasHandle, Media, Pollers
<1>2. m.cancelled \union ({m.handle} \ {0}) \in SUBSET Pollers
  BY <1>1 DEF HasHandle, Media
<1> DEFINE n == StopPoller(m)
<1>3. /\ n.handle = 0 /\ n.poller = m.poller
      /\ n.cancelled = m.cancelled \union ({m.handle} \ {0})
  BY DEF HasHandle, Media, StopPoller
<1>4. n \in Media
  <2> DEFINE c == m.cancelled \union ({m.handle} \ {0})
  <2>1. n = [m EXCEPT !.handle = 0, !.cancelled = c]
    BY DEF HasHandle, Media, StopPoller
  <2>2. c \in SUBSET Pollers /\ 0 \in 0..MaxPollers /\ m \in Media
    BY <1>2, PlayersAssumption DEF HasHandle
  <2> HIDE DEF c, n
  <2> QED
    BY <2>1, <2>2 DEF Media
<1>5. \A g \in Pollers : g # 0
  BY DEF Pollers
<1> HIDE DEF n
<1>6. \A g \in Pollers : g \notin n.cancelled => g \notin m.cancelled /\ g # m.handle
  BY <1>3, <1>5
<1>7. HasHandle(n)
  BY <1>3, <1>4, <1>6 DEF HasHandle
<1> QED
  BY <1>7 DEF n

(* syncPlayingPollerLocked arms or stops.                                  *)
LEMMA SyncedHasHandle == ASSUME NEW m, HasHandle(m) PROVE HasHandle(SyncPoller(m))
BY ArmedHasHandle, StoppedHasHandle DEF SyncPoller

(* The players of a set change, and the poller is synchronised.            *)
LEMMA ChangedHasHandle ==
    ASSUME NEW m, HasHandle(m),
           NEW f \in [Displays -> Named], NEW s \in [Displays -> States]
    PROVE  HasHandle(SyncPoller([m EXCEPT !.player = f, !.state = s]))
<1> DEFINE n == [m EXCEPT !.player = f, !.state = s]
<1>1. HasHandle(n)
  BY PlayersChange
<1> HIDE DEF n
<1>2. HasHandle(SyncPoller(n))
  BY <1>1, SyncedHasHandle
<1> QED
  BY <1>2 DEF n

(* What is stored are statuses.                                            *)
LEMMA StatusIsState == ASSUME NEW n PROVE Status(n) \in States
BY DEF Status, States

(* storeLocalState.                                                        *)
LEMMA StoreHasHandle ==
    ASSUME NEW m, HasHandle(m), NEW d, NEW s \in States
    PROVE  HasHandle(StoreState(m, d, s))
<1> DEFINE f == m.player
           t == [m.state EXCEPT ![d] = s]
<1>1. f \in [Displays -> Named] /\ t \in [Displays -> States]
  BY DEF HasHandle, Media
<1>2. [m EXCEPT !.state[d] = s] = [m EXCEPT !.player = f, !.state = t]
  BY DEF HasHandle, Media
<1> HIDE DEF f, t
<1> QED
  BY <1>1, <1>2, ChangedHasHandle DEF StoreState

(* addPlayer.                                                              *)
LEMMA AddHasHandle ==
    ASSUME NEW m, HasHandle(m), NEW d, NEW n \in PlayerNames
    PROVE  HasHandle(AddPlayer(m, d, n))
<1> DEFINE f == [m.player EXCEPT ![d] = n]
           p == [m EXCEPT !.player[d] = n]
<1>1. f \in [Displays -> Named] /\ m.state \in [Displays -> States]
  BY DEF HasHandle, Media, Named
<1>2. p = [m EXCEPT !.player = f, !.state = m.state]
  BY DEF HasHandle, Media
<1>3. AddPlayer(m, d, n) = IF owner[n] = 0 THEN p ELSE StoreState(p, d, Status(n))
  BY DEF AddPlayer
<1> HIDE DEF f, p
<1>4. HasHandle(p)
  BY <1>1, <1>2, PlayersChange
<1>5. HasHandle(StoreState(p, d, Status(n)))
  BY <1>4, StatusIsState, StoreHasHandle
<1> QED
  BY <1>3, <1>4, <1>5

(* removePlayer.                                                           *)
LEMMA RemoveHasHandle ==
    ASSUME NEW m, HasHandle(m), NEW d
    PROVE  HasHandle(RemovePlayer(m, d))
<1> DEFINE f == [m.player EXCEPT ![d] = NoName]
           t == [m.state EXCEPT ![d] = "unknown"]
<1>1. f \in [Displays -> Named] /\ t \in [Displays -> States]
  BY DEF HasHandle, Media, Named, States
<1>2. [m EXCEPT !.player[d] = NoName, !.state[d] = "unknown"]
      = [m EXCEPT !.player = f, !.state = t]
  BY DEF HasHandle, Media
<1> HIDE DEF f, t
<1> QED
  BY <1>1, <1>2, ChangedHasHandle DEF RemovePlayer

(* The same for several display names.                                     *)
LEMMA ReplacedType ==
    ASSUME NEW T, NEW old \in [Displays -> T], NEW set,
           NEW new, \A d \in set : d \in Displays => new[d] \in T
    PROVE  Replaced(old, set, new) \in [Displays -> T]
BY DEF Replaced

(* Several states are stored.                                              *)
LEMMA StoresHaveHandle ==
    ASSUME NEW m, HasHandle(m), NEW set, NEW status,
           \A d \in set : d \in Displays => status[d] \in States
    PROVE  HasHandle(StoreStates(m, set, status))
<1> DEFINE f == m.player
           t == Replaced(m.state, set, status)
<1>1. f \in [Displays -> Named] /\ m.state \in [Displays -> States]
  BY DEF HasHandle, Media
<1>2. t \in [Displays -> States]
  BY <1>1, ReplacedType
<1>3. [m EXCEPT !.state = Replaced(@, set, status)] = [m EXCEPT !.player = f, !.state = t]
  BY DEF HasHandle, Media
<1> HIDE DEF f, t
<1> QED
  BY <1>1, <1>2, <1>3, ChangedHasHandle DEF StoreStates

(* Several players are added.                                              *)
LEMMA AddsHaveHandle ==
    ASSUME NEW m, HasHandle(m), NEW set, NEW name,
           \A d \in set : d \in Displays => name[d] \in PlayerNames
    PROVE  HasHandle(AddPlayers(m, set, name))
<1> DEFINE f == Replaced(m.player, set, name)
           u == [d \in set |-> Status(name[d])]
           t == Replaced(m.state, set, u)
<1>1. m.player \in [Displays -> Named] /\ m.state \in [Displays -> States]
  BY DEF HasHandle, Media
<1>2. f \in [Displays -> Named]
  BY <1>1, ReplacedType DEF Named
<1>3. \A d \in set : u[d] \in States
  BY StatusIsState
<1> HIDE DEF u
<1>4. t \in [Displays -> States]
  BY <1>1, <1>3, ReplacedType
<1> HIDE DEF f, t
<1>5. HasHandle(SyncPoller([m EXCEPT !.player = f, !.state = t]))
  BY <1>2, <1>4, ChangedHasHandle
<1> USE DEF f, t, u
<1>6. [m EXCEPT !.player = Replaced(@, set, name),
                !.state = Replaced(@, set, [d \in set |-> Status(name[d])])]
        = [m EXCEPT !.player = f, !.state = t]
  OBVIOUS
<1> QED
  BY <1>5, <1>6 DEF AddPlayers

(* Several players are removed.                                            *)
LEMMA RemovesHaveHandle ==
    ASSUME NEW m, HasHandle(m), NEW set
    PROVE  HasHandle(RemovePlayers(m, set))
<1> DEFINE k == IF Cardinality(set) = 1 THEN m ELSE ArmPoller(m)
           v == [d \in set |-> NoName]
           w == [d \in set |-> "unknown"]
           f == Replaced(k.player, set, v)
           t == Replaced(k.state, set, w)
<1>1. HasHandle(k)
  BY ArmedHasHandle
<1>2. RemovePlayers(m, set) =
        IF set = {} THEN m ELSE SyncPoller([k EXCEPT !.player = f, !.state = t])
  BY DEF RemovePlayers
<1>3. (\A d \in set : v[d] \in Named) /\ \A d \in set : w[d] \in States
  BY DEF Named, States
<1> HIDE DEF k, v, w
<1>4. k.player \in [Displays -> Named] /\ k.state \in [Displays -> States]
  BY <1>1 DEF HasHandle, Media
<1>5. f \in [Displays -> Named] /\ t \in [Displays -> States]
  BY <1>3, <1>4, ReplacedType
<1> HIDE DEF f, t
<1>6. HasHandle(SyncPoller([k EXCEPT !.player = f, !.state = t]))
  BY <1>1, <1>5, ChangedHasHandle
<1> QED
  BY <1>2, <1>6

(* refreshTrackedStates stores states.                                     *)
LEMMA RefreshHasHandle ==
    ASSUME NEW m, HasHandle(m)
    PROVE  HasHandle(RefreshTrackedStates(m))
<1> DEFINE differs == {d \in Displays : /\ m.player[d] \in Owned
                                        /\ m.state[d] # Status(m.player[d])}
           status == [d \in differs |-> Status(m.player[d])]
<1>1. \A d \in differs : status[d] \in States
  BY StatusIsState
<1>2. RefreshTrackedStates(m) = StoreStates(m, differs, status)
  BY DEF RefreshTrackedStates
<1> HIDE DEF differs, status
<1> QED
  BY <1>1, <1>2, StoresHaveHandle

(* The players of a list are added, each under a name of its own.          *)
LEMMA ListedHasHandle ==
    ASSUME NEW m, HasHandle(m), NEW new \in SUBSET PlayerNames
    PROVE  HasHandle(AddListed(m, new))
<1> DEFINE set == {Listed[n] : n \in new}
           name == [d \in set |-> CHOOSE n \in new : Listed[n] = d]
<1>1. \A d \in set : name[d] \in PlayerNames
  OBVIOUS
<1>2. AddListed(m, new) = AddPlayers(m, set, name)
  BY DEF AddListed
<1> HIDE DEF set, name
<1> QED
  BY <1>1, <1>2, AddsHaveHandle

(* What the bus tells the watcher.                                         *)
Signal ==
    [kind : {"owner"}, name : PlayerNames, from : 0..MaxChanges, to : 0..MaxChanges]
        \union [kind : {"props"}, from : Owners, status : {"playing", "stopped"}]
        \union [kind : {"seeked"}, from : Owners]

(* The desktop, as the proof needs it.                                     *)
BusShapes ==
    /\ changes \in 0..MaxChanges /\ listFirst \in PlayerNames
    /\ owner \in [PlayerNames -> 0..MaxChanges] /\ plays \subseteq Owned
    /\ signals \in Seq(Signal)

WatcherShapes ==
    /\ watcher \in {"starting", "listed", "watching"} /\ matched \subseteq PlayerNames
    /\ shown \in [Owners -> 0..Cardinality(PlayerNames)]

PlayersInv == BusShapes /\ WatcherShapes /\ HasHandle(media)

(* A signal that is received is a signal.                                  *)
LEMMA SignalReceived ==
    ASSUME BusShapes, signals # <<>>
    PROVE  /\ Head(signals) \in Signal /\ Tail(signals) \in Seq(Signal)
           /\ Head(signals).kind = "owner" => Head(signals).name \in PlayerNames
           /\ Head(signals).kind = "props" => Head(signals).status \in States
<1> DEFINE S == Signal
<1>1. signals \in Seq(S)
  BY DEF BusShapes
<1> HIDE DEF S
<1>2. Head(signals) \in S /\ Tail(signals) \in Seq(S)
  BY <1>1
<1> QED
  BY <1>2 DEF S, Signal, States

(* What players of a set that have owners tell are signals.                *)
LEMMA SignalsTold ==
    ASSUME BusShapes, NEW set \in SUBSET Owned, NEW status \in {"playing", "stopped"},
           TellStatus(set, status)
    PROVE  signals' \in Seq(Signal)
<1> DEFINE S == Signal
<1>1. PICK order \in Orders(set) :
        signals' = signals \o [i \in DOMAIN order |->
                    [kind |-> "props", from |-> owner[order[i]], status |-> status]]
  BY DEF TellStatus
<1>2. IsFiniteSet(set) /\ Cardinality(set) \in Nat
  BY PlayersAssumption, FS_Subset, FS_CardinalityType DEF Owned
<1>3. order \in [1..Cardinality(set) -> set]
  BY DEF Orders
<1> DEFINE c == Cardinality(set)
           news == [i \in 1..c |-> [kind |-> "props", from |-> owner[order[i]], status |-> status]]
<1>4. \A n \in set : owner[n] \in Owners
  BY PlayersAssumption DEF BusShapes, Owned, Owners
<1>5. \A i \in 1..c :
        [kind |-> "props", from |-> owner[order[i]], status |-> status] \in S
  BY <1>3, <1>4 DEF Signal
<1>6. signals \in Seq(S) /\ signals' = signals \o news
  BY <1>1, <1>3 DEF BusShapes
<1> HIDE DEF S, c
<1>7. news \in [1..c -> S]
  BY <1>5
<1>8. c \in Nat
  BY <1>2 DEF c
<1> HIDE DEF news
<1>9. news \in Seq(S)
  BY <1>7, <1>8
<1>10. signals' \in Seq(S)
  BY <1>6, <1>9
<1> QED
  BY <1>10 DEF S

(* A signal that is told, or not.                                          *)
LEMMA SignalEmitted ==
    ASSUME BusShapes, NEW heard, NEW sig \in Signal, Emit(heard, sig)
    PROVE  signals' \in Seq(Signal)
<1> DEFINE S == Signal
<1>1. signals \in Seq(S) /\ sig \in S
  BY DEF BusShapes
<1>2. signals' = signals \/ signals' = Append(signals, sig)
  BY DEF Emit
<1> HIDE DEF S
<1>3. signals' \in Seq(S)
  BY <1>1, <1>2
<1> QED
  BY <1>3 DEF S

(* The desktop keeps its shape.                                            *)
LEMMA BusKeepsShape == ASSUME PlayersInv, [PlayersNext]_playersVars PROVE BusShapes'
<1> USE PlayersAssumption DEF PlayersInv
<1>1. ASSUME NEW n \in PlayerNames, PlayerOpens(n)
      PROVE  BusShapes'
  <2>1. /\ changes' = changes + 1 /\ changes < MaxChanges
        /\ owner' = [owner EXCEPT ![n] = changes + 1]
        /\ UNCHANGED <<plays, listFirst>>
        /\ OwnerSignal(n, 0, changes + 1)
    BY <1>1 DEF PlayerOpens, ByUser
  <2>2. [kind |-> "owner", name |-> n, from |-> 0, to |-> changes + 1] \in Signal
    BY <2>1 DEF Signal, BusShapes
  <2>3. signals' \in Seq(Signal)
    BY <2>1, <2>2, SignalEmitted DEF OwnerSignal
  <2> QED
    BY <2>1, <2>3 DEF BusShapes, Owned
<1>2. ASSUME NEW n \in PlayerNames, PlayerCloses(n)
      PROVE  BusShapes'
  <2>1. /\ changes' = changes + 1 /\ changes < MaxChanges
        /\ owner' = [owner EXCEPT ![n] = 0] /\ plays' = plays \ {n}
        /\ UNCHANGED listFirst
        /\ OwnerSignal(n, owner[n], 0)
    BY <1>2 DEF PlayerCloses, ByUser
  <2>2. [kind |-> "owner", name |-> n, from |-> owner[n], to |-> 0] \in Signal
    BY DEF Signal, BusShapes
  <2>3. signals' \in Seq(Signal)
    BY <2>1, <2>2, SignalEmitted DEF OwnerSignal
  <2> QED
    BY <2>1, <2>3 DEF BusShapes, Owned
<1>3. ASSUME NEW n \in PlayerNames, PlayOrPause(n) \/ UserSeeks(n)
      PROVE  BusShapes'
  <2>1. owner[n] \in Owners
    BY <1>3 DEF PlayOrPause, UserSeeks, BusShapes, Owners
  <2>2. /\ [kind |-> "seeked", from |-> owner[n]] \in Signal
        /\ \A s \in {"playing", "stopped"} :
            [kind |-> "props", from |-> owner[n], status |-> s] \in Signal
    BY <2>1 DEF Signal
  <2>3. signals' \in Seq(Signal)
    BY <1>3, <2>2, SignalEmitted DEF PlayOrPause, UserSeeks
  <2>4. changes' = changes + 1 /\ changes < MaxChanges /\ UNCHANGED <<owner, listFirst>>
    BY <1>3 DEF PlayOrPause, UserSeeks, ByUser
  <2>5. plays' \subseteq Owned /\ Owned' = Owned
    BY <1>3, <2>4 DEF PlayOrPause, UserSeeks, BusShapes, Owned
  <2> QED
    BY <2>3, <2>4, <2>5 DEF BusShapes
<1>4. CASE Ring
  <2>1. plays' \subseteq plays
    BY <1>4 DEF Ring
  <2>2. (plays \ plays') \intersect matched \in SUBSET Owned
    BY DEF BusShapes
  <2>3. signals' \in Seq(Signal)
    BY <1>4, <2>2, SignalsTold DEF Ring
  <2>4. changes' = changes + 1 /\ changes < MaxChanges /\ UNCHANGED <<owner, listFirst>>
    BY <1>4 DEF Ring, ByUser
  <2> QED
    BY <2>1, <2>3, <2>4 DEF BusShapes, Owned
<1>5. CASE CallEnds
  <2>1. plays' \subseteq Owned /\ UNCHANGED <<owner, listFirst, changes>>
    BY <1>5 DEF CallEnds, BusShapes
  <2>2. (plays' \ plays) \intersect matched \in SUBSET Owned
    BY <2>1
  <2>3. signals' \in Seq(Signal)
    BY <1>5, <2>2, SignalsTold DEF CallEnds
  <2> QED
    BY <2>1, <2>3 DEF BusShapes, Owned
<1>6. CASE \/ WatcherStep \/ BeginWatching \/ WatcherFails
           \/ RequestReconcile \/ ReconcileFails \/ ReconcilePlayers
           \/ \E g \in Pollers :
                PollRead(g) \/ PollStore(g) \/ PollCancelled(g) \/ FinishPoller(g)
           \/ UNCHANGED playersVars
  <2>1. UNCHANGED <<owner, plays, listFirst, changes>>
    BY <1>6 DEF WatcherStep, ListInitially, HandleNameOwnerChanged, HandleSeeked,
        HandlePropertiesChanged, BeginWatching, WatcherFails, RequestReconcile,
        ReconcileFails, ReconcilePlayers, PollRead, PollStore, PollCancelled,
        FinishPoller, playersVars
  <2>2. \/ UNCHANGED signals \/ signals' = <<>>
        \/ signals # <<>> /\ signals' = Tail(signals)
    BY <1>6 DEF WatcherStep, ListInitially, HandleNameOwnerChanged, HandleSeeked,
        HandlePropertiesChanged, BeginWatching, WatcherFails, RequestReconcile,
        ReconcileFails, ReconcilePlayers, PollRead, PollStore, PollCancelled,
        FinishPoller, playersVars, Receive
  <2>3. signals' \in Seq(Signal)
    <3>1. CASE signals' = <<>>
      BY <3>1
    <3> QED
      BY <2>2, <3>1, SignalReceived DEF BusShapes
  <2> QED
    BY <2>1, <2>3 DEF BusShapes, Owned
<1> QED
  BY <1>1, <1>2, <1>3, <1>4, <1>5, <1>6 DEF PlayersNext

(* A player that is listed has one of the display names.                   *)
LEMMA ListedIsDisplay ==
    ASSUME BusShapes, NEW n \in Owned
    PROVE  Listed[n] \in Displays
<1>1. CASE Cardinality(PlayerNames) = 1
  <2>1. PICK m : PlayerNames = {m}
    BY <1>1, PlayersAssumption, FS_Singleton
  <2>2. n = listFirst
    BY <2>1 DEF BusShapes, Owned
  <2> QED
    BY <1>1, <2>2 DEF Listed, Displays
<1>2. CASE Cardinality(PlayerNames) = 2
  BY <1>2 DEF Listed, Displays
<1> QED
  BY <1>1, <1>2, PlayersAssumption

(* What the watcher shows of players that are listed.                      *)
LEMMA ListedIsShown ==
    ASSUME BusShapes, WatcherShapes, NEW new \in SUBSET Owned
    PROVE  ShowListed(new) \in [Owners -> 0..Cardinality(PlayerNames)]
<1> DEFINE listing == Listed
           at(o) == CHOOSE n \in new : owner[n] = o
<1>1. \A n \in new : listing[n] \in 0..Cardinality(PlayerNames)
  BY ListedIsDisplay DEF Displays
<1>2. \A o \in Owners : (\E n \in new : owner[n] = o) => at(o) \in new
  OBVIOUS
<1>3. ShowListed(new) =
        [o \in Owners |-> IF \E n \in new : owner[n] = o THEN listing[at(o)] ELSE shown[o]]
  BY DEF ShowListed
<1> HIDE DEF listing, at
<1> QED
  BY <1>1, <1>2, <1>3 DEF WatcherShapes

(* The watcher keeps its shape.                                            *)
LEMMA WatcherKeepsShape ==
    ASSUME PlayersInv, [PlayersNext]_playersVars
    PROVE  WatcherShapes'
<1> USE DEF PlayersInv
<1>0. \A k \in 0..2 : k <= Cardinality(PlayerNames) => k \in 0..Cardinality(PlayerNames)
  BY PlayersAssumption
<1>1. CASE ListInitially
  <2>1. Owned \in SUBSET Owned /\ Owned \subseteq PlayerNames
    BY DEF Owned
  <2>2. shown' \in [Owners -> 0..Cardinality(PlayerNames)]
    BY <1>1, <2>1, ListedIsShown DEF ListInitially
  <2> QED
    BY <1>1, <2>1, <2>2 DEF ListInitially, WatcherShapes
<1>2. CASE WatcherFails
  BY <1>0, <1>2, PlayersAssumption DEF WatcherFails, WatcherShapes
<1>3. CASE HandleNameOwnerChanged
  <2>1. signals # <<>> /\ Head(signals).kind = "owner"
    BY <1>3 DEF HandleNameOwnerChanged, Receive
  <2>2. matched' \subseteq PlayerNames /\ UNCHANGED watcher
    BY <1>3, <2>1, SignalReceived DEF HandleNameOwnerChanged, WatcherShapes
  <2>3. {0, 1} \subseteq 0..Cardinality(PlayerNames)
    BY PlayersAssumption
  <2>4. shown' \in [Owners -> 0..Cardinality(PlayerNames)]
    BY <1>3, <2>3 DEF HandleNameOwnerChanged, WatcherShapes
  <2> QED
    BY <2>2, <2>4 DEF WatcherShapes
<1>4. CASE ReconcilePlayers
  <2> DEFINE new == Owned \ TrackedNames(media)
  <2>1. new \in SUBSET Owned /\ new \subseteq PlayerNames
    BY DEF Owned
  <2>2. ShowListed(new) \in [Owners -> 0..Cardinality(PlayerNames)]
    BY <2>1, ListedIsShown
  <2>3. 0 \in 0..Cardinality(PlayerNames)
    BY PlayersAssumption
  <2>4. /\ matched' = matched \union new /\ UNCHANGED watcher
        /\ \E drop : shown' = [o \in Owners |->
                IF ShowListed(new)[o] \in drop THEN 0 ELSE ShowListed(new)[o]]
    BY <1>4 DEF ReconcilePlayers
  <2> HIDE DEF new
  <2> QED
    BY <2>1, <2>2, <2>3, <2>4 DEF WatcherShapes
<1>5. CASE BeginWatching
  BY <1>5 DEF BeginWatching, WatcherShapes
<1>6. CASE \/ \E n \in PlayerNames :
                PlayerOpens(n) \/ PlayerCloses(n) \/ PlayOrPause(n) \/ UserSeeks(n)
           \/ HandleSeeked \/ HandlePropertiesChanged \/ RequestReconcile \/ ReconcileFails
           \/ \E g \in Pollers :
                PollRead(g) \/ PollStore(g) \/ PollCancelled(g) \/ FinishPoller(g)
           \/ Ring \/ CallEnds \/ UNCHANGED playersVars
  BY <1>6 DEF PlayerOpens, PlayerCloses, PlayOrPause, UserSeeks, HandleSeeked,
      HandlePropertiesChanged, RequestReconcile, ReconcileFails, PollRead, PollStore,
      PollCancelled, FinishPoller, Ring, CallEnds, playersVars, WatcherShapes
<1> QED
  BY <1>1, <1>2, <1>3, <1>4, <1>5, <1>6 DEF PlayersNext, WatcherStep

(* A poller goes from one place to the next, without the handle.           *)
LEMMA PollerMoves ==
    ASSUME NEW m, HasHandle(m), NEW g \in Pollers, m.poller[g] # "none",
           NEW place \in {"waiting", "read", "ending"},
           place # "ending" => m.poller[g] \in {"waiting", "read"}
    PROVE  HasHandle([m EXCEPT !.poller[g] = place])
<1> DEFINE n == [m EXCEPT !.poller[g] = place]
<1>1. n \in Media
  BY DEF HasHandle, Media
<1>2. /\ n.handle = m.handle /\ n.gen = m.gen /\ n.cancelled = m.cancelled
      /\ \A h \in Pollers : n.poller[h] = IF h = g THEN place ELSE m.poller[h]
  BY DEF HasHandle, Media
<1> HIDE DEF n
<1>3. HasHandle(n)
  BY <1>1, <1>2 DEF HasHandle
<1> QED
  BY <1>3 DEF n

(* Storing what it has read does not move the poller that has read it.     *)
LEMMA StoreKeepsReader ==
    ASSUME NEW m, HasHandle(m), NEW set, NEW status, NEW g \in Pollers,
           m.poller[g] = "read"
    PROVE  StoreStates(m, set, status).poller[g] = "read"
<1> DEFINE n == [m EXCEPT !.state = Replaced(@, set, status)]
<1>1. StoreStates(m, set, status) = IF set = {} THEN m ELSE SyncPoller(n)
  BY DEF StoreStates
<1>2. /\ n.poller = m.poller
      /\ n.poller \in [Pollers -> {"none", "waiting", "read", "ending"}]
  BY DEF HasHandle, Media
<1>3. /\ n.handle \in 0..MaxPollers /\ n.cancelled \in SUBSET Pollers
      /\ DOMAIN n = {"player", "state", "handle", "gen", "poller", "cancelled", "paused"}
  BY DEF HasHandle, Media
<1> HIDE DEF n
<1>4. StopPoller(n).poller = n.poller
  BY <1>3 DEF StopPoller
<1>5. ArmPoller(n).poller[g] = "read"
  <2>1. CASE n.handle # 0 \/ SparePollers(n) = {}
    BY <1>2, <2>1 DEF ArmPoller
  <2>2. CASE n.handle = 0 /\ SparePollers(n) # {}
    <3>1. PICK h \in SparePollers(n) :
            ArmPoller(n) = [n EXCEPT !.gen = h, !.handle = h, !.poller[h] = "waiting"]
      BY <2>2 DEF ArmPoller
    <3>2. h # g
      BY <1>2, <3>1 DEF SparePollers
    <3> QED
      BY <1>2, <1>3, <3>1, <3>2
  <2> QED
    BY <2>1, <2>2
<1> QED
  BY <1>1, <1>2, <1>4, <1>5 DEF SyncPoller

(* Whatever the watcher, the pollers and the phones do, the poller that    *)
(* samples has the handle.                                                 *)
LEMMA MediaHasHandle ==
    ASSUME PlayersInv, [PlayersNext]_playersVars
    PROVE  HasHandle(media')
<1> USE DEF PlayersInv
<1>1. CASE ListInitially
  <2>1. Owned \in SUBSET PlayerNames
    BY DEF Owned
  <2> QED
    BY <1>1, <2>1, ListedHasHandle DEF ListInitially
<1>2. CASE HandleNameOwnerChanged
  <2> DEFINE sig == Head(signals)
             gone == IF sig.from = 0 THEN 0 ELSE shown[sig.from]
             left == IF gone = 0 THEN media ELSE RemovePlayer(media, gone)
  <2>1. signals # <<>> /\ sig.kind = "owner"
    BY <1>2 DEF HandleNameOwnerChanged, Receive
  <2>2. sig.name \in PlayerNames
    BY <2>1, SignalReceived
  <2>3. media' = left \/ media' = AddPlayer(left, 1, sig.name)
    BY <1>2 DEF HandleNameOwnerChanged
  <2>4. HasHandle(left)
    BY RemoveHasHandle
  <2> HIDE DEF left, sig
  <2>5. HasHandle(AddPlayer(left, 1, sig.name))
    BY <2>2, <2>4, AddHasHandle
  <2> QED
    BY <2>3, <2>4, <2>5
<1>3. CASE HandlePropertiesChanged
  <2> DEFINE sig == Head(signals)
             d == shown[sig.from]
  <2>1. signals # <<>> /\ sig.kind = "props"
    BY <1>3 DEF HandlePropertiesChanged, Receive
  <2>2. sig.status \in States
    BY <2>1, SignalReceived
  <2>3. media' = media \/ media' = StoreState(media, d, sig.status)
    BY <1>3 DEF HandlePropertiesChanged
  <2> HIDE DEF d, sig
  <2>4. HasHandle(StoreState(media, d, sig.status))
    BY <2>2, StoreHasHandle
  <2> QED
    BY <2>3, <2>4
<1>4. CASE ReconcilePlayers
  <2> DEFINE new == Owned \ TrackedNames(media)
             added == AddListed(media, new)
  <2>1. \E drop : media' = RefreshTrackedStates(RemovePlayers(added, drop))
    BY <1>4 DEF ReconcilePlayers
  <2>2. new \in SUBSET PlayerNames
    BY DEF Owned
  <2> HIDE DEF new
  <2>3. HasHandle(added)
    BY <2>2, ListedHasHandle
  <2> HIDE DEF added
  <2>4. PICK drop : media' = RefreshTrackedStates(RemovePlayers(added, drop))
    BY <2>1
  <2>5. HasHandle(RemovePlayers(added, drop))
    BY <2>3, RemovesHaveHandle
  <2> DEFINE left == RemovePlayers(added, drop)
  <2> HIDE DEF left
  <2>6. HasHandle(RefreshTrackedStates(left))
    BY <2>5, RefreshHasHandle DEF left
  <2> QED
    BY <2>4, <2>6 DEF left
<1>5. ASSUME NEW g \in Pollers, PollRead(g)
      PROVE  HasHandle(media')
  BY <1>5, PollerMoves DEF PollRead
<1>6. ASSUME NEW g \in Pollers, PollStore(g)
      PROVE  HasHandle(media')
  <2>1. PICK set, status :
            /\ \A d \in set : status[d] \in States
            /\ \E place \in {"waiting", "ending"} :
                media' = [StoreStates(media, set, status) EXCEPT !.poller[g] = place]
    <3> DEFINE seen == sampled[g].seen
               differs == {d \in Displays : /\ seen[d] \in {"playing", "stopped"}
                                            /\ seen[d] # media.state[d]}
    <3>1. \A d \in differs : seen[d] \in States
      BY DEF States
    <3>2. \E place \in {"waiting", "ending"} :
            media' = [StoreStates(media, differs, seen) EXCEPT !.poller[g] = place]
      BY <1>6 DEF PollStore
    <3> QED
      BY <3>1, <3>2
  <2>2. PICK place \in {"waiting", "ending"} :
            media' = [StoreStates(media, set, status) EXCEPT !.poller[g] = place]
    BY <2>1
  <2> DEFINE stored == StoreStates(media, set, status)
  <2>3. HasHandle(stored)
    BY <2>1, StoresHaveHandle
  <2>4. stored.poller[g] = "read"
    BY <1>6, StoreKeepsReader DEF PollStore
  <2> HIDE DEF stored
  <2>5. HasHandle([stored EXCEPT !.poller[g] = place])
    BY <2>3, <2>4, PollerMoves
  <2> QED
    BY <2>2, <2>5 DEF stored
<1>7. ASSUME NEW g \in Pollers, PollCancelled(g)
      PROVE  HasHandle(media')
  BY <1>7, PollerMoves DEF PollCancelled
<1>8. ASSUME NEW g \in Pollers, FinishPoller(g)
      PROVE  HasHandle(media')
  <2>1. media.poller[g] = "ending" /\ media \in Media /\ HasHandle(media)
    BY <1>8 DEF FinishPoller, HasHandle
  <2>2. media' = [media EXCEPT !.poller[g] = "none",
                               !.handle = IF media.gen = g THEN 0 ELSE media.handle,
                               !.cancelled = media.cancelled \ {g}]
    BY <1>8 DEF FinishPoller
  <2>3. media' \in Media
    <3>1. (IF media.gen = g THEN 0 ELSE media.handle) \in 0..MaxPollers
      BY <2>1, PlayersAssumption DEF Media
    <3>2. media.cancelled \ {g} \in SUBSET Pollers
      BY <2>1 DEF Media
    <3> QED
      BY <2>1, <2>2, <3>1, <3>2 DEF Media
  <2>4. /\ media'.handle = IF media.gen = g THEN 0 ELSE media.handle
        /\ media'.gen = media.gen
        /\ media'.cancelled = media.cancelled \ {g}
        /\ \A h \in Pollers : media'.poller[h] = IF h = g THEN "none" ELSE media.poller[h]
    BY <2>1, <2>2 DEF Media
  <2>5. 0 \notin Pollers
    BY DEF Pollers
  <2> QED
    BY <2>1, <2>3, <2>4, <2>5 DEF HasHandle
<1>9. ASSUME NEW set \in SUBSET Displays, media' = [media EXCEPT !.paused = set]
      PROVE  HasHandle(media')
  BY <1>9 DEF HasHandle, Media
<1>10. CASE Ring \/ CallEnds
  BY <1>9, <1>10 DEF Ring, CallEnds
<1>11. CASE \/ \E n \in PlayerNames :
                PlayerOpens(n) \/ PlayerCloses(n) \/ PlayOrPause(n) \/ UserSeeks(n)
            \/ HandleSeeked \/ BeginWatching \/ WatcherFails
            \/ RequestReconcile \/ ReconcileFails \/ UNCHANGED playersVars
  BY <1>11 DEF PlayerOpens, PlayerCloses, PlayOrPause, UserSeeks, HandleSeeked,
      BeginWatching, WatcherFails, RequestReconcile, ReconcileFails, playersVars
<1> QED
  BY <1>1, <1>2, <1>3, <1>4, <1>5, <1>6, <1>7, <1>8, <1>10, <1>11
  DEF PlayersNext, WatcherStep

(* Before the watcher starts there is no poller.                           *)
LEMMA PlayersStart == ASSUME PlayersInit PROVE PlayersInv
<1>1. HasHandle(media)
  BY PlayersAssumption DEF PlayersInit, MediaInit, HasHandle, Media, Named, States
<1>2. WatcherShapes
  BY PlayersAssumption DEF PlayersInit, WatcherShapes
<1>3. signals \in Seq(Signal)
  <2>1. signals = <<>>
    BY DEF PlayersInit
  <2> QED
    BY <2>1
<1>4. BusShapes
  BY <1>3, PlayersAssumption DEF PlayersInit, BusShapes
<1> QED
  BY <1>1, <1>2, <1>4 DEF PlayersInv

(* The invariant holds of the watcher.                                     *)
LEMMA PlayersInvariant == PlayersSpec => []PlayersInv
<1>1. PlayersInv /\ [PlayersNext]_playersVars => PlayersInv'
  BY BusKeepsShape, WatcherKeepsShape, MediaHasHandle DEF PlayersInv,
     HasHandle, Media
<1> QED
  BY <1>1, PlayersStart, PTL DEF PlayersSpec

(* However players come, go, stop and start between a poller's read and    *)
(* its store, at most one poller samples them: one that has lost the       *)
(* handle is cancelled, and finishPlayingPoller leaves the handle of       *)
(* another alone (the generation of armPlayingPollerLocked).               *)
THEOREM PollersAlwaysOne == PlayersSpec => []OnePositionPoller
<1>1. PlayersInv => OnePositionPoller
  <2> SUFFICES ASSUME PlayersInv PROVE OnePositionPoller
    OBVIOUS
  <2> DEFINE sampling == {g \in Pollers : /\ media.poller[g] \in {"waiting", "read"}
                                          /\ g \notin media.cancelled}
  <2>1. sampling \subseteq {media.handle}
    BY DEF PlayersInv, HasHandle
  <2>2. Cardinality(sampling) <= Cardinality({media.handle})
    BY <2>1, FS_Subset, FS_Singleton
  <2>3. Cardinality({media.handle}) = 1
    BY FS_Singleton
  <2> QED
    BY <2>2, <2>3 DEF OnePositionPoller
<1> QED
  BY <1>1, PlayersInvariant, PTL
===============================================================================
