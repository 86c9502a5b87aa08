# Formal models of MM, the Windows instant messenger

MM (`src/mm-win`) is a Windows client for a business messenger: XMPP through
gloox, windows through DuiLib, files through Aliyun OSS, calls through a phone
SDK, history in SQLite. This directory holds TLA+ modules for the parts where
its threads, modal boxes and callbacks meet, TLC runs that check them on small
instances, and proofs checked by TLAPS for all instances.

## 1. The system

Three kinds of threads make the program.

- The **UI thread** runs one message loop. Every modal box runs a loop of its
  own inside the handler that opened it, so handlers nest, and what a handler
  read before a box may be stale after it.
- The **network thread** runs `Client::connect` (Login.cpp:66) and every
  callback of gloox. It talks to the UI thread by `PostMessage` (it goes on), by
  `SendMessage` (it waits until the UI thread pumps), or by changing the UI's
  data itself. A reconnection starts a new one.
- The **workers**: one for uploads, one for downloads (FileControl.cpp), and
  the threads of the phone SDK.

### Inventory

| Component | State | Operations | Meets | Hard about it |
|---|---|---|---|---|
| Login and session: `loginDlg`, `CController`, `CLogin`, `mainDlg::ReConnect` | a named kernel event per account, `m_bLogining`, `m_hEvent`, reconnect timer, boxes, the Client and the managers made for it | log in, web verification, connect, lose, reconnect, answer a conflict, quit | other instances through the event; everything else through the managers made at each connection; gloox, which reports the end of a connection on the thread that meets it | a failure can precede the end of the login that caused it; one end may be reported twice; the network thread is still in the Client after its report; boxes run loops in which the timer and failures arrive |
| Tray icon: `CTrayMgr`, `CTrayTaskModuleImpl` | stack of flashing items, timer, icon | flash, stop, timer tick, click | message center, calls | items found by account only; the timer reads the top of the stack |
| Message center and chats: `CMsgCenterModuleImpl`, `mainDlg` | unread list, open chat, bubbles, rows of requests, boxes | receive, announce, insert, select, clear, answer | network thread, tray, database | no lock on the list; pointers held across boxes; copy-then-clear |
| File transfer: `CFileControl`, `mainDlg` | two queues, two workers, rows, `m_mapTaskFiles` | choose, send, cancel, offer, accept, reject, finish, fail | chats, OSS | the worker peeks and pops later; controls shared by name; the open chat changes meanwhile |
| Friends: `CUserInfoManager`, gloox's `RosterManager`, `mainDlg`'s list | roster, cache, three locks, handlers, list | roster arrives, added, removed, vCard, subscription, register, unregister, delete | both threads, dialogs | `SendMessage` under a lock; one lock left too often; list changed by both threads |
| Calls: `CVideoDlg`, SDK callbacks | call status, window shown or not, posted events, boxes | dial, ring, answer, refuse, hang up on three threads, fail | tray, SDK threads | events without a call id, dropped when the window is hidden; a box closed under another returns "answer" |
| Updater: `MMUpgrade` | version, files, ini file | publish, query, download, copy, write version | disk, OSS | results ignored, a stop between steps |
| Group chat: `CGroupChatLogic`, `CGroupChatPage` | rows, cache and count of each room, queue, view, bubbles | receive on line and saved up, show, announce, choose a room | network thread, tray, database | a message comes by cache and by queue; the count is cleared as a whole and read at another time than it is set |
| Rooms: `CMUCRoomManager`, `CMUCRoomProcessor` | rooms, members, invitations, locks | create, join, leave, invite | gloox | test and insertion under different locks; handlers called under a lock |
| Chat sessions | map of gloox sessions | create, route | gloox, message center | one callback thread |
| Local database, projects, organizations, web pages, helpers | rows, pages | one request, one answer | all | little beyond I/O |
| DuiLib, gloox, jsoncpp, SQLite | vendored | | | taken as they are |

What makes each correct: one use of an account per PC, and a session one can
use; an icon that flashes exactly while there is something to see; messages
shown once and in order and lost only where the code has to lose them; files
uploaded once, in order, each at its row; a cache that holds no former friend,
a list that shows the friends there are, and threads that get out of each
other's way; a call window that is shown exactly while there is a call, and a
button that ends it; a version number that is true of the files; group messages
in order, none of them left out or unannounced.

## 2. Modules

| Module | Models | Its state in the code |
|---|---|---|
| `Session` | several instances of the program, their login, loss and reconnection | loginDlg.cpp 516-725, Controller.cpp 125-308, Login.cpp, mainDlg.cpp 7260-7413, gloox's clientbase.cpp 427-450 and 1551-1555, connectiontcpbase.cpp 121-175, connectiontcpclient.cpp 124-165 |
| `TrayStack` | `CTrayMgr` and the flash functions | TrayMgr.cpp 200-330, TrayTaskModuleImpl.cpp |
| `Inbox` (extends `TrayStack`) | messages from the network thread to the screen, and the boxes that answer requests | MsgCenterModuleImpl.cpp, the message handlers of mainDlg.cpp, IMDB.cpp |
| `Mailbox` | what the message center promises about friends' messages: what arrives waits, reading shows all of the friend that waits, in order, and only the newest can be lost | abstract |
| `FileTransfer` | the rows, queues and workers | FileControl.cpp, mainDlg.cpp 742-991, 2485-2632, 5641-5678, 6074-6135 |
| `TransferFifo` | what the upload queue promises: each file asked for ends once, in order | abstract |
| `Roster` | the friends: roster, cache, locks, list, handlers | UserManager.cpp, gloox's rostermanager.cpp, mainDlg.cpp |
| `Call` | the call window, the SDK's events, the boxes over each other | videoDlg.cpp, UCSNetServiceCallBackInterface.cpp 49-118, CallFrame.cpp 317-345, UIBase.cpp 285-309 |
| `Updater` | publishing a version, and the program that installs it | MMUpgrade/uWindow.cpp, oss_interface.cpp 156-213, loginDlg.cpp 276-312 |
| `GroupChat` | group messages from the network thread to view, bubble and flash | GroupChatLogic.cpp 85-147, GroupChatPage.cpp 477-559 and 892-1041, mainDlg.cpp 3124-3420, 3810-3948, 4271-4328 |
| `SessionProofs`, `TrayStackProofs`, `InboxProofs`, `FileTransferProofs`, `RosterProofs`, `CallProofs`, `UpdaterProofs`, `GroupChatProofs` | theorems | |
| `MCSession`, `MCTrayStack`, `MCInbox`, `MCFileTransfer`, `MCRoster`, `MCCall`, `MCGroupChat` | the modules TLC is started on, with symmetry sets where they are sound; the configurations give the constants. `Updater` needs none | |

Composition: `Inbox` is `TrayStack` plus the list and the boxes: it calls the
tray's operations and so inherits its state. Its list, threads and main window
implement `Mailbox` under the mapping `waiting <- Waiting`, where a message no
longer waits once it was shown, however late it leaves the list. `FileTransfer`
implements
`TransferFifo` under the mapping `pending <- Pending`, where the front of the
queue no longer counts once the worker has dealt with it. `Call` and `GroupChat`
stop where the tray begins: an incoming call and each room are items of their
own on its stack, which `TrayStack` has for any number of accounts.

Conventions. A handler that runs to its end on one thread without a wait is one
step; it is cut where it waits (`SendMessage`, a box's loop), where it gives up
a lock, and where another thread may come between a read and the write that
relies on it. The position reached is a value of `ui`, `net`, `up`, `down` or a
record in `boxes`. Messages are numbers in the order of arrival, files are
records of direction, name and account, accounts are model values. History
variables (`answers`, `finished`, `messages`, `kicked`, `mishap`, `abandoned`,
`mixed`, `unheard`, and `shown` in `Inbox`) are never read by an action. Operators that carry "Mutant" in their comment are wrong
versions of the one below them; no specification uses them. A property under
the heading "What a comment of the code says" is one that the code does not have.

### How actions correspond to the code

*Session.* `BtnLogin` is `loginDlg::OnBtnLogin` up to the web request:
`CreateEvent` (whose handle overwrites the one in `m_hEvent`: one that was still
open is `leaked`), the box "already logged in" if the event existed
(`AlreadyLoggedIn`, `CloseEvent`), `InitLogin` otherwise; `EnterKey` and
`ReconnectTimer` are its two other callers. `VerifyTimeout`, `VerifyRejected`,
`VerifyAccepted` are the outcomes of `InitLogin`; `LoginStarted` is the
assignment to `m_bLogining` after it, which the network thread can precede.
`OnConnect` is `CreateServices`. `OnDisconnect` and `PostLoginFailed` are the two
halves of `OnConnectFail`, which runs inside gloox: after the post the network
thread is still in the Client (`net = "leaving"`), until `init()`, `recv` and
`connect` have returned (`ThreadEnds`). The end of a connection is found by the
network thread (`EndFound`) or by a send of the UI thread (`SendFails`), which
reports it there and closes the socket, unless the network thread is in `recv`;
then the socket stays open (`"broken"`) and either thread reports the same end
once more. So does a stream that is closed when the closing tag cannot be sent
(`"closing"`, `"again"`). Nothing waits for the thread before
`CController::InitLogin` deletes the Client: when it does, the instance is
`"corrupt"` and may do anything to its handles (`Corrupt`), which is all that
other instances see of it. `LoginSuccess` is `ReConnect`, `LoginFailed` and
`AnswerConflict` are the handler of `WM_LOGIN_FAILED`, whose conflict box stands
in `conflict` as the number of boxes below it, and `LoginFailedNoMainWin` is the
crash it ends in before there is a main window. `mishap` records which
connections ended early (before `LoginStarted`) and which were reported twice.

*TrayStack and Inbox.* `Flash`, `StopFlash` and `OnFlashTimer` are the tray's.
`Receive...` are the network thread's insertion, which then waits in
`SendMessage`; `Deliver...` are the UI thread's handlers of it, one for each
branch of `mainDlg::OnRecvNewMsg`; `SelectChat`, `TrayChat` and `Clear` are the
reading of a chat, with the gap between the copy of the list and its clearing;
`SelectSys`, `TraySys`, `ClickRow` and `Return` open, nest and close the boxes of
`OnDbClickSysMessage` and of an incoming call.

*FileTransfer.* `ChooseFiles`, `ClickSend`, `ClickCancel`, `Offer`,
`ClickAccept` and `ClickReject` are the UI's; `UploadFront`, `UploadFails`,
`UploadSucceeds`, `AddFileMsg` and `UploadPop` are one turn of
`uploadThreadFunc`, the `Download...` actions one of `downloadThreadFunc`.
`RemoveRow` is the end of `OnProcess`; `NoBar` is the missing progress bar it
would crash on.

*Roster.* `handleRoster`, `handleItemAdded` with `OnAddFriendSucc`,
`handleItemRemoved` with `OnFriendRemoved`, `LeaveAgain` and `Forget`,
`handleVCard`, `handleSubscription` and `handleVCardResult` are the network
thread's; `HandleSent`, `RosterArrived` with `CacheFriendList`, `FriendRemoved`,
`OnDeleteFriend` with `EraseFriend` and `UnlistFriend`, and `Click` with
`AddEventHandler` and `RemoveEventHandler` are the UI thread's. A lock that the
UI thread takes and gives back inside one call is a guard of that step, because
only the network thread keeps one while it waits. `LeaveAgain` leaves a critical
section its thread does not own, which Windows does not define: the model
allows that the lock works afterwards and that it never does.

*Call.* `onAlerting`, `onAnswer`, `onDialFailed`, `onHangUp` and `onIncomingCall`
are the SDK's callbacks, which post an event if `m_bIsActive` is set at that
moment (the incoming call always); whether the window is shown is a variable of
its own. `Handle...Event` are the cases of `HandleCustomMessage`, `LauchCall` and
`ActiveVoiceDlg` the two halves of a dial; `NoService` is the report that takes a
dial's place when the service is not there or does not come in five seconds,
`ShowAgain` a dial while `m_bIsActive` is set. `HangUp` and `HideAfterHangUp` are
those of the button, with the SDK's events between them. A box is a record in
`boxes`; its action `...Returns` is the code after `ShowModal`. `CloseBelow`
closes a box that is not the topmost: the loop that finds its `WM_CLOSE` belongs
to the topmost box, so its `ShowModal` returns 0 when the boxes above it have
gone (UIBase.cpp:285), and 0 is `CALL_ANSER` and `MSGID_OK`: a call that was
refused is answered (`AnswerCall` of a box that is gone), and "No" hangs up.
`OnUserStateUpdated`, `OfflineHangUp`, `OfflineHide` and `OfflineInactive` are the
network thread's; the last two are `ShowWindow` and `m_bIsActive = false` of
`ActiveVoiceDlg(false)`, and a window the UI thread shows between them hears no
event. The SDK itself is external: its calls go through the states that
`LineState` lists, and a hang-up does not end a call that does not ring yet,
which is what the code says of it (videoDlg.cpp:254, 280).

*Updater.* `DoUpload` publishes (the results of its uploads are ignored too),
`DoUpdate` starts, `downloadObjectByUrl` and `CopyFile` are one turn of each loop
with its outcomes, `AfterDownload` the test of the last result, `WriteIni` the end.
`Close` is the user's close of the window, which ends the process with a file
begun or copied in part. A download starts its file anew.

*GroupChat.* `OnReceveGroupMessage` is the network thread's, under
`m_csGCData`; `HandleGroupMsg` is the posted message's handler,
`CGroupChatPage::OnMessage` with `UpdateGroupLastMessage` (`Announce`);
`ProcessOfflineGroupMsg` is the way of a message that was saved up, sent and
waited for. `SelectRoom` and `ClearSigns` are `OnRecentChatListSelected` before
and after the view is filled, `OnDbClickGroupMsg` is the tray's double click.

## 3. Runs

Passing runs, with their bounds. Each checks a module's safety and liveness
together, under the fairness of section 4 (`tray` has no liveness to check).

| Run | Instance | Shows |
|---|---|---|
| `session` | 2 instances, the ends of one's connections reported up to twice, 2 nested boxes; 185,276 states | `OneLoginPerPC`, `SendsThroughLiveClient`, `OnlineIsUsable`, `IdleTriesAgain`, `DeletesOnlyEndedSession`, `NoLoginBehindConflict`; `FailureIsHandled`: a failure that is posted is handled, with boxes open too |
| `tray` | 3 accounts, 4 items, symmetric; 3,202 states | `FlashesWhileStacked`, `IconIsRestored` |
| `inbox` | 1 friend and the system account, 3 messages in 2 seconds, 1 box; 848,018 states | `ShownInOrderOnce`, `UnreadHasBubble`, `HeldMessagesLive`, `LosesAtMostTheOneInFlight`, `ShownOnceOrLost` (the refinement); `FlashesUntilRead`: who has a number on his item flashes until he is read, but for what the end of his call takes; `AnnouncedInTheEnd`: the network thread gets out of `SendMessage` |
| `transfer` | 1 name in 2 chats, 3 rows, 2 sends, 2 acceptances; 191,656 states | `RowsMatchTasks`, `UploadHoldsItsRow`, `UploadsOnceInOrder` (the refinement); `UploadEnds` |
| `roster` | 2 friends, 1 dialog, 3 posted messages; 183,052 states | `CacheWithinRoster`, `KeptFriendsAreListed`; `SendReturns`: only a dialog's call for the lock can keep the two threads apart |
| `call` | 2 calls, 2 posted events, 2 boxes, symmetric; 3,560,336 states | `HangUpWorks`, `LiveCallIsShown`, `ShownCallIsLive` |
| `updater` | 2 files, 2 versions after the installed one; 534,226 states | `UpToDateIsInstalled` |
| `groupchat` | 2 rooms, 3 messages and a receipt, symmetric; 278,282 states | `ShownInOrder`, `UnseenIsAnnounced` |

Each module's type invariant is checked with its main run. One invariant is
proved and no run's own: `CacheFreeInSend` (`Roster`).

What the properties except. Where the code goes wrong in a way its properties
would forbid, they name the case instead of leaving it out of the model:
`mishap` (`Session`: the connection that ended before `m_bLogining` was set, the
end that was reported twice), the end of a call in `FlashesUntilRead` (`Inbox`),
`abandoned`, `mixed` and `unheard` (`Call`), `missed` (`Updater`), `hushed`
(`GroupChat`). They say that nothing else does it. The hazards in PROJECT.json
say of each such case whether a disagreement below shows it or no property
forbids it; the deletion of a Client that its thread is still leaving
(Controller.cpp:133) is one that none forbids.

Why these bounds are enough to show the interesting cases. Two instances are
what exclusion needs; one whose ends may be reported twice (`Doubled`) and one
whose ends are not let each meet the other; one failed send in the queue
(`MaxPosted`) and the network thread's own report are the two failures that can
wait together; two nested boxes let a box be under another. Three messages let
one be shown, one wait and one arrive between the copy and the clear; two seconds let two share a second or not. One
file name in two chats has an upload and a download row in each, which is what
shared control names need; a second send of a file comes while the first is
still in the queue. A friend can be removed and added any number of times in
`Roster`, only the messages waiting in the UI's queue are bounded, and three let
the arrival of the roster and two removals wait together. Two calls are what it
takes for an event of one to meet the other; two boxes let one be closed under
another; two posted events let the end of a call and the next call wait
together. Two files let one fail and the other not, and two versions leave
files of the first in the program when the second is installed. Two rooms are
the chosen one and another; three messages let one be shown, one be posted and
one come between the reading of a count and its clearing.

The bounds are `Doubled`, `MaxBoxes`, `MaxStack`, `MaxMsgs`, `MaxTime`, `MaxModal`,
`MaxRows`, `MaxSent`, `MaxAccepted`, `MaxPosted` and `MaxVersion`; each is a guard
of the action that would exceed it. `GroupChat` needs none: a message comes
once. All runs are checked for deadlock (the system can always go on) except
those of `FileTransfer` and `Roster`, because a crash or the deadlock reported
below stops them, and because their histories are bounded.

Symmetry is used in `tray`, `call`, `groupchat` and `hungupagain`, which check
safety alone.

### Disagreements with the code's own comments

Each of these runs checks one sentence a comment states, and TLC finds a
behaviour of the code that breaks it. PROJECT.json quotes the line.

| Run | What happens |
|---|---|
| `vcardisshown` | **deadlock**: the network thread sends a vCard under `m_csListener`, the UI thread is in a dialog's constructor and waits for that lock |
| `answeredonce` | a request is answered twice, by its row and by a box |
| `hungupagain` | a call hung up before it rings rings on: the second hang-up hangs on an event that is dropped, because the first one hid the window |
| `reconnectsautomatically` | a connection that ends before `OnBtnLogin` has set `m_bLogining` for it is never made again: the flag stays set, so the timer is not set or its ticks do nothing |

Four more are stated in the modules, at their ends, and are violated as well; no
run stands for them: `DeletesOnlyRead` (`Inbox`: what arrives between the copy and the clear is deleted unread; `LosesAtMostTheOneInFlight`
says how much), `FileGoesToItsChat` (`FileTransfer`: a finished upload is
announced in the chat that is open then), `AddedIsListed` (`Roster`: a friend
removed and added again is taken out of the list by the late message) and
`NotSelectedIsAnnounced` (`GroupChat`: an offline message in a room that is not
chosen gets neither bubble nor flash, because it is counted after its
announcement, mainDlg.cpp:3923 and 4296).

Steps of the models that a reader may also want to look at, because the code
does them although its comments suggest otherwise; no run is about them:
`VerifyRejected` opens a box on a reconnection too (against Controller.cpp:155);
a second report of one end sets the timer behind the conflict box;
`DeliverToOpenChat` inserts into the view open then (against mainDlg.cpp:4137);
`Finish` marks all messages of a second; the end of a call stops the
flash of a message of the caller's; `ClickAccept` hides the buttons of the row made
last and not its own, and tells the friend before the download; `CacheFriendList`
lists a friend twice who came after `handleRoster`, and `Unlist` takes one entry;
`LauchCall` goes on when `Ucs_dial` has returned NULL, and `LauchNetCall` dials
while another call is shown; `CutCopy` leaves a torn program that `System.ini` of
the old version describes; the updater says that it is done when copies have
failed; `ProcessOfflineGroupMsg` shows all rows of a room again, and `Inserted`
shows a receipt in whatever room is open (against GroupChatPage.cpp:944).

## 4. Fairness

Safety needs none, and `TrayStack`, `Call`, `Updater` and `GroupChat`, about which
only safety is claimed, have none. `Session` has two: `FairSpec` assumes that the
UI thread goes on after the web request, which has a time limit, and takes the
messages posted to it; boxes may stay open, because their loops do both. For
`ReconnectsAutomatically`, which is violated, `RestlessSpec` assumes besides that
the network thread runs, the timer ticks and the user closes the boxes in front
of him, so that none of these is what keeps the program from reconnecting.
Nothing is assumed of the server. `Inbox`: the UI thread runs its loop; nothing is
assumed of the user, who may leave all boxes open, because a box's own loop
handles sent messages. `FileTransfer`: the upload thread runs and a transfer
ends in success or failure (the OSS calls have timeouts), and the UI thread
handles what is sent to it. `Roster`: both threads run while they are not
blocked; the message sent is handled on its own account, because Windows hands
out sent messages before posted ones; the user closes a box. Everything is weak
fairness: no action needs to be enabled again and again to be taken.

## 5. Proofs

All theorems hold for every value of the constants under the named assumptions
of the modules (`BoxBound`, `DoubledBound`, `PostBound`, `StackBound`, `Accounts`, `Bounds`,
`NullRow`, `PostedBound`, `CallBounds`, `UpdaterConstants`,
`GroupChatConstants`: bounds are naturals, a null value is not a value, an update
has a file, a receipt is not a text).

| Module | Theorems | Argument |
|---|---|---|
| `SessionProofs` | `TypeCorrect`, `Invariance`, `OneLogin`, `LiveClient`, `Usable`, `IdleRetries`, `OnlyEndedSessions`, `NoLoginBehind` | `m_hEvent` is overwritten by each attempt, so a close may hit another handle than it means. The invariant counts the closes still owed, one for each box and each failure: with one owed some handle is open, with two one has leaked. While a session is up none is owed and `m_hEvent` is open, hence the event exists and no other instance gets past it. A second report of one end is a close no handle answers for, so this part (`LockInv`, `ConflictInv`) is about instances without one (`Clean`). The flag (`FlagInv`): `m_bLogining` is set without a session only if that one ended early. The window (`WindowInv`): it takes commands or the timer is on, unless the conflict box is open. |
| `TrayStackProofs` | `TrayTypes`, `Invariance`, `FlashesRight`, `LogoIsBack` | The stack is empty exactly when the timer is off, and while it runs the saved icon is the program's own. |
| `InboxProofs` | `SafeAlways`, `InboxTypes`, `InboxFlashes`, `NoDanglingBox`, `LosesOne`, `OrderlyAlways`, `InOrderOnce`, `NumberShows`, `KeepsFlashing`, `Implements` | What is deleted comes from a friend, what a box is about from the system account: the invariant ties the sort of a message to its sender and the kind of a tray item to its account. What is about to be cleared has been shown, except for the one that is being announced. A second invariant, `Orderly`, gives order and numbers: a message that waits came after all that was shown of its sender, or is on the screen and about to be cleared (`Ordered`); a number is there for what waits and is never more than it (`Numbered`); what is being announced is the newest (`SendingIsNewest`). With it every step is one of `Mailbox` or none. That a friend keeps flashing (`ReminderStep`) goes step by step: a stop takes an item of its own account only, and whose messages are being read has no number. |
| `FileTransferProofs` | `Invariance`, `TypeCorrect`, `RowIsHeld`, `RowsAgree`, `Implements` | A file that waits has a row without buttons and nothing shows them again, so it waits once; then a step of the worker is a step of the FIFO or none. |
| `RosterProofs` | `Invariance`, `RosterTypes`, `SendsWithoutCache`, `NoFormerFriends`, `FriendsAreListed` | Where the network thread is tells the locks it holds. A friend is missing in the list only while the roster's arrival is first in the queue, while the list is being filled, or while he is being inserted; whom the user deletes has left the cache before his entry is taken, and if he has come back he has a second one (`HasSpare`). |
| `CallProofs` | `TypeCorrect`, `Invariance`, `ButtonWorks`, `CallHasWindow`, `WindowHasCall` | A posted end and the box that reports it are of a call that is over (`Ends`, `Failed`), so hiding the window for them hides it for no call under way but those put down in `mixed`. Status END and a window that is shown or active exclude each other except between the hang-up and the hiding, and an active window is shown except between the network thread's two statements (`ActiveIsShown`). `LiveHasWindow` and `WindowHasLive` state the two properties without `Quiet`: with an end still posted, one the SDK has yet to report (`Unreported`), a report open or a thread on its way to hide the window, that is what will put window and call together again. |
| `UpdaterProofs` | `TypeCorrect`, `Invariance`, `UpToDate` | Up to where the download is, a file is whole unless its own download failed, because a download starts the file anew; up to where the copying is, a file has the version of the update or is in `missed`; and `System.ini` is never ahead of a file that is not. |
| `GroupChatProofs` | `Invariance`, `TypeCorrect`, `Announced`, `OrderAlways`, `ChosenRoomInOrder` | All rows are in the cache, so choosing a room shows all of them; what is posted is counted or was counted away (`CountedWhileComing`); what is in the chosen room has been seen or still comes. `Order` has the order: what is posted is in the order of the rows (`PostedInOrder`), so the messages before the one that is handled are posted no more and hence in the view; cache and view have an element of a room only after all earlier ones (`Follows`), which showing the rows again keeps. |

Each proof has one step per action and the three facts `Init => IInv`,
`IInv /\ [Next]_vars => IInv'`, `IInv => Inv`, joined by PTL. No module with a
theorem reaches a RECURSIVE operator.

Every safety property of a passing run is a theorem, the two refinements and the
action properties included. Only model-checked: the liveness properties
(`FailureIsHandled`, `AnnouncedInTheEnd`, `UploadEnds`, `SendReturns`), because
fairness and ENABLED are out of the prover's reach, and the properties the code
does not have.

Two definitions have the form the proofs need. What a proof has to know of a part
of a sequence, or of a set of messages in order, cannot come from `SelectSeq` or a
fold (that takes induction over the data), so `Show` (`Inbox`), `InOrder`
(`Mailbox`) and `Receipts` (`GroupChat`) take the element of each rank: the lemma
`Ranks` says that every number below the size of a set is the rank of one of its
members. And order is stated
for pairs of positions (`ShownInOrderOnce`, `Follows`) instead of as an equality
of sequences.

## 6. What is not modelled

- Switching to another account inside one process, registration of accounts.
- Data races as such: an unlocked change of a list or map by two threads is one
  step. The models show what the order of whole changes does; a torn vector or
  map is not shown.
- In `Inbox` the network thread holds no lock while it waits. `Roster` has that
  lock and shows the deadlock, so `AnnouncedInTheEnd` says: apart from it.
- Presence, remarks, the cache of vCards and strangers' vCards; pages that
  register as handlers and never unregister (FrameEmployee.cpp:13).
- The end of the program with transfers under way.
- In `Call`: sound and video devices, the timer of the call, callbacks through a
  landline, the login to the phone service, events that only change a text; and
  `m_pIncomeDlg`, which is left dangling after the box (videoDlg.cpp:736).
- In `Updater`: two updaters at a time, and a list of files that changes from
  version to version. The client's own check for updates is commented out
  (main.cpp:73).
- In `GroupChat`: the removal of items of the recent chats, the messages loaded
  from the database at the start, sending, files of groups.
- Rooms: creating, joining and leaving them, invitations and members
  (MUCRoomMgr.cpp). `CheckIfAlreadyExist` and the insertion are two critical
  sections, and the members' map is read under the rooms' lock: the first module
  of the plan.
- Sending, history pages, layout, formatting, SQL, HTTP.
- Dead code: `UIUpdateFiles`, `AudioCallFrame`, `voiceDlg`,
  `SingleChatModuleImpl`, the check for updates in `main.cpp` (commented out).

## 7. Plan

Done, in this order: Session; TrayStack and Inbox; FileTransfer with its
abstract FIFO; Roster; Call; Updater; GroupChat; the proofs of all eight. Next,
by importance:

1. **`Rooms`** (`CMUCRoomManager`): joins from both threads between the test and
   the insertion, leaves, invitations, handlers called under `m_csRooms`; a room
   has one `UniqueMUCRoom`, and the members shown are the room's.
2. **`Presence`** on top of `Roster`: `WM_UPDATE_PRESENCE_STATUS`, the vCard
   cache, strangers' cards, `handleVCard`'s return without leaving the lock.
3. **`Reconnected`**: `Session` with `Roster`: which manager the main window is
   registered at after a reconnection (mainDlg.cpp:7272).
4. **`MsgSessions`**: the map of chat sessions, and its composition with `Inbox`:
   which session a message is routed to.
5. `Call` with `TrayStack`, and an abstract specification of one call as both
   sides promise it, for those calls that no event of another one meets.
6. An abstract specification of a room as one member sees it, with messages that
   are shown again, for `GroupChat` to implement.
