-------------------------------- MODULE Roster --------------------------------
(***************************************************************************)
(* The friends: gloox's RosterManager, the cache and the two locks of       *)
(* CUserInfoManager, and the list of friends mainDlg shows.                 *)
(*                                                                          *)
(* The network thread runs the listener's callbacks.  It tells the          *)
(* registered handlers about what happened while it holds m_csListener: by  *)
(* PostMessage, by changing the UI's list itself, or by SendMessage, and    *)
(* then it waits until the UI thread pumps.  The UI thread takes the locks  *)
(* for the moment of a call: to read or change the cache, and to register   *)
(* and unregister the dialogs that want to be told.  What the UI thread     *)
(* does under a lock is one step, so only the network thread is ever seen   *)
(* with one.  The model begins in RosterManager::handleIqID, when the main  *)
(* window exists and is registered, and lasts one connection.               *)
(***************************************************************************)
EXTENDS Naturals, Sequences

CONSTANTS Friend,     \* accounts
          Dialog,     \* dialogs that register as handlers
          MaxPosted   \* bound: messages posted to the main window

ASSUME PostedBound == MaxPosted \in Nat

VARIABLES
  gloox,      \* RosterManager::m_roster
  rosters,    \* m_mapAccount2Rosters
  handlers,   \* the dialogs in m_listHandlers
  net,        \* where the network thread is
  subject,    \* <<a>>: the account the network thread deals with
  held,       \* the locks the network thread holds
  stuck,      \* m_csListener can never be entered again
  filled,     \* handleRoster has run
  posted,     \* WM_ROSTER_ARRIVED and WM_FRIEND_REMOVED in the UI's queue
  ui,         \* where the UI thread is
  target,     \* <<a>> or <<d>>: what the UI thread deals with
  listed,     \* how often an account is in m_listAllFriends
  kicked      \* history: accounts whose removal was announced

serverVars == <<gloox, filled>>
uiVars     == <<ui, target, listed>>
netVars    == <<net, subject, held>>
vars       == <<serverVars, rosters, handlers, netVars, stuck, posted, uiVars, kicked>>

Lock == {"rosters", "listener"}   \* m_csRosters, m_csListener

\* "added", "removing": m_csListener is to be entered.  "unlocked": it was left
\* after the first handler.  "forget": UpdateCacheAfterFriendRemoved.  "send":
\* in SendMessage to the UI thread, also to disable and enable its window
\* around a box.  "box": in the loop of a box of its own.
NetState == {"idle", "added", "removing", "unlocked", "forget", "send",
             "disable", "box", "enable"}
\* "fill": WM_ROSTER_ARRIVED has cleared the list.  "erase", "unlist": in
\* OnDeleteFriend.  "open", "close": at a dialog's call of AddEventHandler or
\* RemoveEventHandler.
UiState  == {"loop", "fill", "erase", "unlist", "open", "close"}
Posted   == {<<"arrived">>} \cup {<<"removed", a>> : a \in Friend}

TypeOK ==
  /\ gloox \subseteq Friend /\ rosters \subseteq Friend
  /\ handlers \subseteq Dialog
  /\ net \in NetState /\ ui \in UiState
  /\ subject \in {<<>>} \cup {<<a>> : a \in Friend}
  /\ target \in {<<>>} \cup {<<x>> : x \in Friend \cup Dialog}
  /\ held \subseteq Lock
  /\ stuck \in BOOLEAN /\ filled \in BOOLEAN
  /\ posted \in Seq(Posted)
  /\ listed \in [Friend -> Nat]
  /\ kicked \subseteq Friend

\* The server's answer is in gloox's roster; CreateServices has just run.
Init ==
  /\ gloox \in SUBSET Friend
  /\ rosters = {} /\ handlers = {} /\ kicked = {}
  /\ net = "idle" /\ subject = <<>> /\ held = {}
  /\ stuck = FALSE /\ filled = FALSE
  /\ posted = <<>>
  /\ ui = "loop" /\ target = <<>>
  /\ listed = [a \in Friend |-> 0]

-----------------------------------------------------------------------------
(* The network thread: the roster *)

NetIdle == net = "idle" /\ filled

Post(m) == posted' = Append(posted, m)

\* handleRoster, all under m_csRosters.  An empty roster changes nothing.
handleRoster ==
  /\ ~filled
  /\ filled' = TRUE
  /\ rosters' = IF gloox = {} THEN rosters ELSE gloox
  /\ Post(<<"arrived">>)
  /\ UNCHANGED <<gloox, handlers, netVars, stuck, uiVars, kicked>>

\* A push of the server with an account gloox does not have: it enters gloox's
\* roster, handleItemAdded enters m_csRosters and adds it to the cache.
handleItemAdded(a) ==
  /\ NetIdle
  /\ a \notin gloox
  /\ gloox' = gloox \cup {a}
  /\ \/ /\ a \notin rosters
        /\ rosters' = rosters \cup {a}
        /\ net' = "added" /\ subject' = <<a>> /\ held' = {"rosters"}
     \/ a \in rosters /\ UNCHANGED <<rosters, netVars>>
  /\ UNCHANGED <<filled, handlers, stuck, posted, uiVars, kicked>>

\* OnAddFriendSucc, on the network thread: mainDlg puts the account into the
\* list without looking for it there.  Then both locks are left.
OnAddFriendSucc ==
  /\ net = "added" /\ ~stuck
  /\ listed' = [listed EXCEPT ![subject[1]] = @ + 1]
  /\ net' = "idle" /\ subject' = <<>> /\ held' = {}
  /\ UNCHANGED <<serverVars, rosters, handlers, stuck, posted, ui, target, kicked>>

\* A push that removes an account: handleItemRemoved up to m_csListener.
handleItemRemoved(a) ==
  /\ NetIdle
  /\ a \in gloox
  /\ subject' = <<a>>
  /\ \/ a \in rosters /\ net' = "removing" /\ held' = {"rosters"}
     \/ a \notin rosters /\ net' = "forget" /\ UNCHANGED held
  /\ UNCHANGED <<serverVars, rosters, handlers, stuck, posted, uiVars, kicked>>

\* CMsgCenterModuleImpl, registered first, is told under m_csListener; the
\* lock is left inside the loop, and mainDlg and the others are told without.
OnFriendRemoved ==
  /\ net = "removing" /\ ~stuck
  /\ Len(posted) < MaxPosted
  /\ Post(<<"removed", subject[1]>>)
  /\ kicked' = kicked \cup {subject[1]}
  /\ net' = "unlocked"
  /\ UNCHANGED <<serverVars, rosters, handlers, subject, held, stuck, uiVars>>

\* The lock is left again for every further handler.  Windows leaves open what
\* that does: the next EnterCriticalSection works, or waits forever.
LeaveAgain ==
  /\ net = "unlocked"
  /\ stuck' \in BOOLEAN
  /\ net' = "forget" /\ held' = {}
  /\ UNCHANGED <<serverVars, rosters, handlers, subject, posted, uiVars, kicked>>

\* Mutant: the cache keeps the account.
ForgetOnlyGloox ==
  /\ net = "forget"
  /\ gloox' = gloox \ {subject[1]}
  /\ net' = "idle" /\ subject' = <<>>
  /\ UNCHANGED <<filled, rosters, handlers, held, stuck, posted, uiVars, kicked>>

\* UpdateCacheAfterFriendRemoved; then mergePush erases the item.
Forget ==
  /\ net = "forget"
  /\ rosters' = rosters \ {subject[1]}
  /\ gloox' = gloox \ {subject[1]}
  /\ net' = "idle" /\ subject' = <<>>
  /\ UNCHANGED <<filled, handlers, held, stuck, posted, uiVars, kicked>>

-----------------------------------------------------------------------------
(* The network thread: what waits for the UI thread *)

\* Mutant: the lock under which the remark was looked up is kept.
VCardKeepsRosters ==
  /\ NetIdle /\ ~stuck
  /\ held' = Lock
  /\ net' = "send"
  /\ UNCHANGED <<serverVars, rosters, handlers, subject, stuck, posted, uiVars, kicked>>

\* handleVCard of a friend or of the user himself: OnVCardReturned and
\* OnMySelfCardInfo of mainDlg send WM_NEW_VCARD_ARRIVED.
handleVCard ==
  /\ NetIdle /\ ~stuck
  /\ held' = {"listener"}
  /\ net' = "send"
  /\ UNCHANGED <<serverVars, rosters, handlers, subject, stuck, posted, uiVars, kicked>>

\* handleSubscriptionRequest, handleItemSubscribed: the message center sends
\* WM_NEWMSG_RECEIVED.
handleSubscription ==
  /\ NetIdle /\ ~stuck
  /\ held' = {"listener"}
  /\ net' = "send"
  /\ UNCHANGED <<serverVars, rosters, handlers, subject, stuck, posted, uiVars, kicked>>

\* handleVCardResult with CFrameUserInfo among the handlers: a modal box, which
\* disables the main window first.
handleVCardResult ==
  /\ NetIdle /\ ~stuck
  /\ handlers # {}
  /\ held' = {"listener"}
  /\ net' = "disable"
  /\ UNCHANGED <<serverVars, rosters, handlers, subject, stuck, posted, uiVars, kicked>>

\* The user closes this box; the main window is to be enabled.
CloseBox ==
  /\ net = "box"
  /\ net' = "enable"
  /\ UNCHANGED <<serverVars, rosters, handlers, subject, held, stuck, posted, uiVars, kicked>>

-----------------------------------------------------------------------------
(* The UI thread *)

Pumping == ui = "loop"

\* The cache can be read and changed.
CacheFree == "rosters" \notin held

ListenerFree == "listener" \notin held /\ ~stuck

\* A sent message is handled.  OnResponseNewVCard asks the cache for the
\* state of the account; OnMySelfCardInfo follows the box of a success.
HandleSent ==
  /\ Pumping
  /\ \/ net = "send" /\ CacheFree /\ net' = "idle" /\ held' = {}
     \/ net = "disable" /\ net' = "box" /\ UNCHANGED held
     \/ net = "enable" /\ net' = "send" /\ UNCHANGED held
     \/ net = "enable" /\ net' = "idle" /\ held' = {}
  /\ UNCHANGED <<serverVars, rosters, handlers, subject, stuck, posted, uiVars, kicked>>

\* WM_ROSTER_ARRIVED up to CacheFriendList.
RosterArrived ==
  /\ Pumping /\ posted # <<>> /\ Head(posted) = <<"arrived">>
  /\ posted' = Tail(posted)
  /\ listed' = [a \in Friend |-> 0]
  /\ ui' = "fill"
  /\ UNCHANGED <<serverVars, rosters, handlers, netVars, stuck, target, kicked>>

\* CacheFriendList: GetAllRosters, and an entry for each account.
CacheFriendList ==
  /\ ui = "fill" /\ CacheFree
  /\ listed' = [a \in Friend |-> IF a \in rosters THEN listed[a] + 1 ELSE listed[a]]
  /\ ui' = "loop"
  /\ UNCHANGED <<serverVars, rosters, handlers, netVars, stuck, posted, target, kicked>>

\* Mutant: the entry is taken out without a look whether there is one.
UnlistAlways(a) == listed' = [listed EXCEPT ![a] = @ - 1]

\* Mutant: the loop is not left after the first entry.
UnlistAll(a) == listed' = [listed EXCEPT ![a] = 0]

\* UpdateCacheAndUiAfterFriendDeleted takes out the first entry, if any.
Unlist(a) == listed' = [listed EXCEPT ![a] = IF @ = 0 THEN 0 ELSE @ - 1]

\* WM_FRIEND_REMOVED
FriendRemoved ==
  /\ Pumping /\ posted # <<>> /\ Head(posted)[1] = "removed"
  /\ posted' = Tail(posted)
  /\ Unlist(Head(posted)[2])
  /\ UNCHANGED <<serverVars, rosters, handlers, netVars, stuck, ui, target, kicked>>

\* OnDeleteFriend, after its box, up to RosterManager::remove: the server may
\* push the removal at once.
OnDeleteFriend(a) ==
  /\ Pumping /\ listed[a] > 0
  /\ ui' = "erase" /\ target' = <<a>>
  /\ UNCHANGED <<serverVars, rosters, handlers, netVars, stuck, posted, listed, kicked>>

\* The rest of RemoveUser: UpdateCacheAfterFriendRemoved.
EraseFriend ==
  /\ ui = "erase" /\ CacheFree
  /\ rosters' = rosters \ {target[1]}
  /\ ui' = "unlist"
  /\ UNCHANGED <<serverVars, handlers, netVars, stuck, posted, target, listed, kicked>>

UnlistFriend ==
  /\ ui = "unlist"
  /\ Unlist(target[1])
  /\ ui' = "loop" /\ target' = <<>>
  /\ UNCHANGED <<serverVars, rosters, handlers, netVars, stuck, posted, kicked>>

\* The user opens or closes a dialog: its constructor calls AddEventHandler,
\* its destructor RemoveEventHandler.  A disabled main window opens nothing.
Click(d) ==
  /\ Pumping
  /\ \/ d \notin handlers /\ net \notin {"box", "enable"} /\ ui' = "open"
     \/ d \in handlers /\ ui' = "close"
  /\ target' = <<d>>
  /\ UNCHANGED <<serverVars, rosters, handlers, netVars, stuck, posted, listed, kicked>>

AddEventHandler ==
  /\ ui = "open" /\ ListenerFree
  /\ handlers' = handlers \cup {target[1]}
  /\ ui' = "loop" /\ target' = <<>>
  /\ UNCHANGED <<serverVars, rosters, netVars, stuck, posted, listed, kicked>>

RemoveEventHandler ==
  /\ ui = "close" /\ ListenerFree
  /\ handlers' = handlers \ {target[1]}
  /\ ui' = "loop" /\ target' = <<>>
  /\ UNCHANGED <<serverVars, rosters, netVars, stuck, posted, listed, kicked>>

-----------------------------------------------------------------------------
Server ==
  \/ handleRoster
  \/ \E a \in Friend : handleItemAdded(a) \/ handleItemRemoved(a)
  \/ handleVCard \/ handleSubscription \/ handleVCardResult

NetworkThread == OnAddFriendSucc \/ OnFriendRemoved \/ LeaveAgain \/ Forget

UiThread ==
  \/ HandleSent \/ RosterArrived \/ CacheFriendList \/ FriendRemoved
  \/ EraseFriend \/ UnlistFriend \/ AddEventHandler \/ RemoveEventHandler

User ==
  \/ \E a \in Friend : OnDeleteFriend(a)
  \/ \E d \in Dialog : Click(d)
  \/ CloseBox

Next == Server \/ NetworkThread \/ UiThread \/ User

Spec == Init /\ [][Next]_vars

\* Both threads run while they can; a sent message is handled before a posted
\* one, and the user closes the box in front of him.
FairSpec == /\ Spec
            /\ WF_vars(handleRoster) /\ WF_vars(NetworkThread)
            /\ WF_vars(HandleSent) /\ WF_vars(UiThread) /\ WF_vars(CloseBox)

-----------------------------------------------------------------------------
(* Properties *)

\* Whenever the network thread waits for the UI thread, it has given back
\* m_csRosters, which the UI thread takes to handle what was sent
\* (UserManager.cpp:595-601, mainDlg.cpp:1867).
CacheFreeInSend == net \in {"send", "disable", "box", "enable"} => CacheFree

\* Whom the program takes for a friend (IsMyFriend) is on the server's roster,
\* whoever removes him and whenever: no path leaves him in the cache.
CacheWithinRoster == rosters \subseteq gloox

\* Nothing is under way.
Quiet == filled /\ net = "idle" /\ ui = "loop" /\ posted = <<>>

\* A friend is missing in the list only after his removal was announced once:
\* neither the other removals nor the arrival of the roster lose him.
KeptFriendsAreListed ==
  Quiet => \A a \in rosters \ kicked : listed[a] > 0

\* Whatever the network thread sends gets handled, unless the UI thread comes to
\* a dialog's call for m_csListener: nothing else can keep the two apart.
SendReturns == (net = "send") ~> (net # "send" \/ ui \in {"open", "close"})

-----------------------------------------------------------------------------
(* What the comments of the code say and the code does not do. *)

\* "The VCard has come back, so update the avatar" (mainDlg.cpp:4807): with
\* dialogs that register themselves too.
VCardIsShown == (net = "send") ~> (net # "send")

\* "Adding the friend succeeded: update the list of friends" (mainDlg.cpp:5200).
AddedIsListed == Quiet => \A a \in rosters : listed[a] > 0

=============================================================================
