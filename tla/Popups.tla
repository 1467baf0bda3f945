------------------------------- MODULE Popups -------------------------------
(***************************************************************************)
(* The notification plugin (internal/plugins/notification): a notification *)
(* of the phone becomes a popup of the desktop, an update of it replaces   *)
(* the popup, and its cancellation closes it, at once or after a grace in  *)
(* which a new post takes the popup over.                                  *)
(*                                                                         *)
(* One notification of one phone.  Its packets are handled in order, but   *)
(* every popup is shown by a goroutine of its own, which may first fetch   *)
(* an icon, and every close by another; the callback of the grace timer    *)
(* runs whenever it has fired.  The maps notifIDs and pendingCloses are    *)
(* only locked operation by operation.                                     *)
(*                                                                         *)
(* Abstracted: texts, filters, icons, and packets that show nothing        *)
(* (silent ones, and what cannot be cleared); a popup the user closes.     *)
(***************************************************************************)
EXTENDS Naturals, FiniteSets

CONSTANTS
    MaxPosts,  \* bound: posts of the notification
    MaxCancels \* bound: cancellations with a grace

ASSUME PopupsAssumption == MaxPosts \in Nat /\ MaxCancels \in Nat

Posts  == 1..MaxPosts   \* a popup has the number of the post that opened it
Timers == 1..MaxCancels

VARIABLES
    grace,        \* CancelGraceMS > 0
    replaces,     \* ReplaceNotifications
    posts,        \* posts so far
    posted,       \* the phone shows the notification: its latest post, or 0
    shower,       \* per post: where the goroutine that shows it is
    over,         \* per post: the popup it replaces, 0 for none
    notifID,      \* notifIDs has this popup for the notification, or 0
    popup,        \* the desktop: what a popup shows, 0 when it is closed
    timer,        \* per grace timer: none, armed, or fired
    wants,        \* per grace timer: the popup it is to close
    pendingClose, \* pendingCloses has this timer for the notification, or 0
    timers,       \* grace timers so far
    closing       \* popups a goroutine is about to close

popupVars ==
    <<grace, replaces, posts, posted, shower, over, notifID, popup, timer, wants,
      pendingClose, timers, closing>>

PopupsInit ==
    /\ grace \in BOOLEAN /\ replaces \in BOOLEAN
    /\ posts = 0 /\ posted = 0
    /\ shower = [v \in Posts |-> "idle"] /\ over = [v \in Posts |-> 0]
    /\ notifID = 0
    /\ popup = [i \in Posts |-> 0]
    /\ timer = [t \in Timers |-> "none"] /\ wants = [t \in Timers |-> 0]
    /\ pendingClose = 0 /\ timers = 0
    /\ closing = {}

ShowerAt(v, place) == shower' = [shower EXCEPT ![v] = place]

(* time.Timer.Stop: a timer that has fired still runs its callback.        *)
Stopped(t) == [timer EXCEPT ![t] = IF @ = "armed" THEN "none" ELSE @]

-----------------------------------------------------------------------------
(* Handle, for a post.                                                     *)
HandleNotification ==
    /\ posts < MaxPosts
    /\ posts' = posts + 1 /\ posted' = posts + 1
    /\ ShowerAt(posts + 1, "fetch")
    /\ UNCHANGED <<grace, replaces, over, notifID, popup, timer, wants,
                   pendingClose, timers, closing>>

(* sendDesktopNotification after the icon: a deferred close is dropped and *)
(* the popup on the screen is to be replaced.                              *)
BeginShow(v) ==
    /\ shower[v] = "fetch"
    /\ ShowerAt(v, "send")
    /\ IF replaces
       THEN /\ over' = [over EXCEPT ![v] = notifID]
            /\ pendingClose' = 0
            /\ timer' = IF pendingClose = 0 THEN timer ELSE Stopped(pendingClose)
       ELSE UNCHANGED <<over, pendingClose, timer>>
    /\ UNCHANGED <<grace, replaces, posts, posted, notifID, popup, wants, timers,
                   closing>>

(* notify-send prints the number of the popup: the one it has replaced, or *)
(* a new one.                                                              *)
NotifySend(v) ==
    /\ shower[v] = "send"
    /\ LET id == IF over[v] = 0 THEN v ELSE over[v]
       IN  \/ /\ popup' = [popup EXCEPT ![id] = v]
              /\ over' = [over EXCEPT ![v] = id]
              /\ ShowerAt(v, "store")
           \/ ShowerAt(v, "done") /\ UNCHANGED <<popup, over>>
    /\ UNCHANGED <<grace, replaces, posts, posted, notifID, timer, wants,
                   pendingClose, timers, closing>>

StoreNotifID(v) ==
    /\ shower[v] = "store"
    /\ ShowerAt(v, "done")
    /\ notifID' = over[v]
    /\ UNCHANGED <<grace, replaces, posts, posted, over, popup, timer, wants,
                   pendingClose, timers, closing>>

-----------------------------------------------------------------------------
(* Handle, for a cancellation of a notification that has a popup; without  *)
(* one it does nothing but publish.                                        *)
CancelWithoutPopup ==
    /\ posted # 0 /\ notifID = 0
    /\ posted' = 0
    /\ UNCHANGED <<grace, replaces, posts, shower, over, notifID, popup, timer,
                   wants, pendingClose, timers, closing>>

CancelAtOnce ==
    /\ posted # 0 /\ notifID # 0 /\ ~grace
    /\ posted' = 0
    /\ notifID' = 0
    /\ closing' = closing \union {notifID}
    /\ UNCHANGED <<grace, replaces, posts, shower, over, popup, timer, wants,
                   pendingClose, timers>>

(* The timer of an earlier cancellation is stopped.                        *)
CancelWithGrace ==
    /\ posted # 0 /\ notifID # 0 /\ grace /\ timers < MaxCancels
    /\ posted' = 0
    /\ timers' = timers + 1 /\ pendingClose' = timers + 1
    /\ timer' = [IF pendingClose = 0 THEN timer ELSE Stopped(pendingClose)
                 EXCEPT ![timers + 1] = "armed"]
    /\ wants' = [wants EXCEPT ![timers + 1] = notifID]
    /\ UNCHANGED <<grace, replaces, posts, shower, over, notifID, popup, closing>>

GraceEnds(t) ==
    /\ timer[t] = "armed"
    /\ timer' = [timer EXCEPT ![t] = "fired"]
    /\ UNCHANGED <<grace, replaces, posts, posted, shower, over, notifID, popup,
                   wants, pendingClose, timers, closing>>

CloseDeferred_Unchecked(t) ==
    /\ timer[t] = "fired"
    /\ timer' = [timer EXCEPT ![t] = "none"]
    /\ notifID' = 0
    /\ closing' = IF notifID # 0 THEN closing \union {notifID} ELSE closing
    /\ pendingClose' = 0
    /\ UNCHANGED <<grace, replaces, posts, posted, shower, over, popup, wants,
                   timers>>

(* Its callback forgets the popup and closes it if it is still the one     *)
(* that was cancelled; then it removes the timer of the notification,      *)
(* whichever it is.                                                        *)
CloseDeferred(t) ==
    /\ timer[t] = "fired"
    /\ timer' = [timer EXCEPT ![t] = "none"]
    /\ notifID' = 0
    /\ closing' = IF notifID # 0 /\ notifID = wants[t]
                  THEN closing \union {notifID} ELSE closing
    /\ pendingClose' = 0
    /\ UNCHANGED <<grace, replaces, posts, posted, shower, over, popup, wants,
                   timers>>

(* The dismiss command asks the phone, whose cancellation then finds no    *)
(* popup, and closes the one that is known.                                *)
Dismiss ==
    /\ posted # 0 /\ notifID # 0
    /\ posted' = 0
    /\ notifID' = 0
    /\ closing' = closing \union {notifID}
    /\ UNCHANGED <<grace, replaces, posts, shower, over, popup, timer, wants,
                   pendingClose, timers>>

CloseNotification(i) ==
    /\ i \in closing
    /\ closing' = closing \ {i}
    /\ popup' = [popup EXCEPT ![i] = 0]
    /\ UNCHANGED <<grace, replaces, posts, posted, shower, over, notifID, timer,
                   wants, pendingClose, timers>>

PopupsNext ==
    \/ HandleNotification
    \/ \E v \in Posts : BeginShow(v) \/ NotifySend(v) \/ StoreNotifID(v)
    \/ CancelWithoutPopup \/ CancelAtOnce \/ CancelWithGrace
    \/ \E t \in Timers : GraceEnds(t) \/ CloseDeferred(t)
    \/ Dismiss
    \/ \E i \in Posts : CloseNotification(i)

PopupsSpec == PopupsInit /\ [][PopupsNext]_popupVars

-----------------------------------------------------------------------------
(* Properties.                                                             *)

PopupsTypeOK ==
    /\ posts \in 0..MaxPosts /\ posted \in 0..MaxPosts
    /\ shower \in [Posts -> {"idle", "fetch", "send", "store", "done"}]
    /\ over \in [Posts -> 0..MaxPosts] /\ popup \in [Posts -> 0..MaxPosts]
    /\ notifID \in 0..MaxPosts /\ closing \subseteq Posts
    /\ timer \in [Timers -> {"none", "armed", "fired"}]
    /\ wants \in [Timers -> 0..MaxPosts] /\ pendingClose \in 0..MaxCancels

PopupsQuiet ==
    /\ closing = {} /\ \A v \in Posts : shower[v] \in {"idle", "done"}
    /\ \A t \in Timers : timer[t] = "none"

(* handle.go, on the deferred close: "only close the popup we scheduled -  *)
(* if a re-post replaced it, leave the new one".  When updates open popups *)
(* of their own, the popup of a re-post that was shown outlives every      *)
(* close that was deferred before it.                                      *)
RepostSurvives ==
    PopupsQuiet /\ ~replaces /\ posted # 0 /\ over[posted] # 0
        => popup[posted] = posted

=============================================================================
