-------------------------------- MODULE Inbox --------------------------------
(***************************************************************************)
(* From the network thread to the user's eyes: CMsgCenterModuleImpl keeps   *)
(* the list of unread messages, mainDlg shows them, counts them in bubbles  *)
(* and makes the tray icon flash.                                           *)
(*                                                                          *)
(* Two threads share the list and no lock protects it.  The network thread  *)
(* (gloox's receive loop) allocates a message, appends it to the list and   *)
(* blocks in SendMessage(WM_NEWMSG_RECEIVED) until the UI thread handled    *)
(* it.  The UI thread handles sent messages whenever it pumps: in its main  *)
(* loop and inside each modal box.  The boxes have no owner window, so the  *)
(* main window keeps working under them and boxes nest.  The flash timer,   *)
(* which only toggles the icon, is left to TrayStack.                       *)
(*                                                                          *)
(* A message is its position in "log".  New messages go to the back of the  *)
(* unread list, so the list is the set "unread" in the order of the log.    *)
(***************************************************************************)
EXTENDS TrayStack, FiniteSets

CONSTANTS Sys,        \* SYS_NOTIFY_ACCOUNT, the sender of system messages
          Nobody,     \* no item of the list of recent chats is selected
          MaxMsgs,    \* bound: messages received
          MaxTime,    \* bound: seconds
          MaxModal    \* bound: modal boxes on top of each other

ASSUME Accounts == Sys \in Id /\ Nobody \notin Id
ASSUME Bounds   == MaxMsgs \in Nat /\ MaxTime \in Nat /\ MaxModal \in Nat

Friend == Id \ {Sys}
Msg == 1..MaxMsgs

\* "chat" is a CTextMsg; "request" an AddFriend or AddOrgFriend, which wants an
\* answer; "notice" an AcceptAddFriend or OrgRequest, which has no buttons.
Message == [from : Id, sort : {"chat", "request", "notice"}, time : 0..MaxTime]

\* A modal box: of OnDbClickSysMessage about a message, or of HandleIncomming
\* about an account.
Frame == [sort : {"request"}, msg : Msg] \cup [sort : {"call"}, id : Friend]

VARIABLES
  now,        \* time(0), in seconds
  log,        \* the messages received so far
  sending,    \* the message whose SendMessage blocks the network thread, or 0
  unread,     \* m_listUnReadMsgs
  freed,      \* messages deleted
  friends,    \* m_listAllFriends: the roster items that have arrived
  listed,     \* m_lstFriends and m_pRecentList: accounts with an item
  sel,        \* m_pRecentList->GetCurSel
  normal,     \* the main window is shown normally
  bubble,     \* the number on the item of an account
  shown,      \* what AddOppositeMsgItem showed: the message and the open chat
  reading,    \* <<a>> between GetUnReadTextMsgs and ClearUnReadTextMsgs of a
  boxes,      \* the modal boxes, the innermost last
  rows,       \* requests of CListSysMsg whose buttons are visible
  answers,    \* the requests answered, Yes or No, in this order
  processed   \* messages marked in SYS_MSG of the database

vars == <<now, log, sending, unread, freed, friends, listed, sel, normal, bubble,
          shown, reading, boxes, rows, answers, processed, trayVars>>

listVars == <<unread, freed>>
viewVars == <<listed, sel, bubble, shown, reading>>
sysVars  == <<boxes, rows, answers, processed>>
envVars  == <<now, log, friends, normal>>

TypeOK ==
  /\ TrayTypeOK
  /\ now \in 0..MaxTime
  /\ log \in Seq(Message) /\ Len(log) <= MaxMsgs
  /\ sending \in 0..Len(log)
  /\ unread \subseteq 1..Len(log) /\ freed \subseteq 1..Len(log)
  /\ friends \subseteq Friend
  /\ listed \subseteq Id
  /\ sel \in listed \cup {Nobody}
  /\ normal \in BOOLEAN
  /\ bubble \in [Id -> 0..MaxMsgs]
  /\ shown \in Seq([msg : Msg, chat : Id \cup {Nobody}])
  /\ reading \in {<<>>} \cup {<<a>> : a \in Friend}
  /\ boxes \in Seq(Frame)
  /\ rows \subseteq 1..Len(log)
  /\ answers \in Seq(Msg)
  /\ processed \subseteq 1..Len(log)

\* The recent chats come from the database, the roster from the server.
Init ==
  /\ TrayInit
  /\ now = 0
  /\ log = <<>>
  /\ sending = 0
  /\ unread = {} /\ freed = {}
  /\ friends = {}
  /\ listed \in SUBSET Friend
  /\ sel = Nobody
  /\ normal = TRUE
  /\ bubble = [a \in Id |-> 0]
  /\ shown = <<>>
  /\ reading = <<>>
  /\ boxes = <<>>
  /\ rows = {}
  /\ answers = <<>>
  /\ processed = {}

\* Mutant: the loops of the modal boxes do not handle sent messages.
PumpsOnlyMainLoop == reading = <<>> /\ boxes = <<>>

\* The UI thread is in a message loop, the main one or that of a box.
Pumping == reading = <<>>

\* GetUnReadTextMsgs
UnreadOf(a) == {m \in unread : log[m].from = a}

\* GetUnreadMsgCount
Count(a) == Cardinality(UnreadOf(a))

\* GetLatestUnReadMsg(SYS_NOTIFY_ACCOUNT)
Latest == CHOOSE m \in UnreadOf(Sys) : \A n \in UnreadOf(Sys) : n <= m

\* Mutant: what the comment "delete pTmp" would do.
RemoveLatestDeletes(m) ==
  /\ unread' = unread \ {m}
  /\ freed' = freed \cup {m}

\* RemoveLatestUnReadMsg: the first message of the same second leaves the list,
\* without being deleted.
RemoveLatest(m) ==
  LET same == {n \in UnreadOf(Sys) : log[n].time = log[m].time}
  IN /\ unread' = {n \in unread : n \in same => \E k \in same : k < n}
     /\ UNCHANGED freed

\* UpdateSysMsgStatus: every row of that second.
SameSecond(m) == {n \in DOMAIN log : log[n].from = Sys /\ log[n].time = log[m].time}

\* Mutant: the loop ends one message early.
ShowAllButLast(ms, chat) ==
  shown' = shown \o [i \in 1..(Cardinality(ms) - 1) |->
                       [msg |-> CHOOSE m \in ms : Cardinality({n \in ms : n < m}) = i - 1,
                        chat |-> chat]]

\* The loop of InsertUnReadMsg: it adds to the chat that is open.
Show(ms, chat) ==
  shown' = shown \o [i \in 1..Cardinality(ms) |->
                       [msg |-> CHOOSE m \in ms : Cardinality({n \in ms : n < m}) = i - 1,
                        chat |-> chat]]

-----------------------------------------------------------------------------
(* The network thread *)

\* OnChatMsgReceived, OnRecvAddFriendReq, OnRecvAcceptAddFriendReq,
\* OnRecvOrgReq.  The push_back races with the UI thread when that one is
\* between reading and clearing the list: the new node may be hooked to one
\* that is being erased, and then the list loses it.
Receive(a, sort) ==
  /\ sending = 0
  /\ Len(log) < MaxMsgs
  /\ log' = Append(log, [from |-> a, sort |-> sort, time |-> now])
  /\ sending' = Len(log')
  /\ \/ unread' = unread \cup {Len(log')}
     \/ reading # <<>> /\ unread' = unread
  /\ UNCHANGED <<now, friends, normal, viewVars, freed, sysVars, trayVars>>

ReceiveAny == \/ \E a \in Friend : Receive(a, "chat")
              \/ \E sort \in {"request", "notice"} : Receive(Sys, sort)

\* A roster item reaches m_listAllFriends: on the network thread by
\* OnAddFriendSucc, on the UI thread by CacheFriendList.
RosterItem(a) ==
  /\ sending = 0 \/ Pumping
  /\ friends' = friends \cup {a}
  /\ UNCHANGED <<now, log, normal, sending, listVars, viewVars, sysVars, trayVars>>

-----------------------------------------------------------------------------
(* WM_NEWMSG_RECEIVED: OnMessage, OnReceiveMessage *)

\* The end of OnReceiveMessage for a message that was not shown, or was shown
\* in a window nobody sees: number on the item, if there is one, and flash.
Remind(a, kind, unreadNow) ==
  /\ bubble' = IF a \in listed'
               THEN [bubble EXCEPT ![a] = Cardinality({m \in unreadNow : log[m].from = a})]
               ELSE bubble
  /\ Flash(kind, a)

\* Mutant: the messages are shown and stay in the list.
DeliverKeeps ==
  LET a == log[sending].from
  IN /\ Pumping /\ sending # 0 /\ log[sending].sort = "chat"
     /\ sel = a
     /\ Show(UnreadOf(a), sel)
     /\ UNCHANGED <<listVars, listed, sel, reading>>
     /\ \/ normal /\ UNCHANGED <<bubble, trayVars>>
        \/ ~normal /\ Remind(a, "chat", unread)
     /\ sending' = 0
     /\ UNCHANGED <<envVars, sysVars>>

\* ProcessChatMsg, the sender's item is selected: show and delete all of them.
DeliverToOpenChat ==
  LET a == log[sending].from
  IN /\ Pumping /\ sending # 0 /\ log[sending].sort = "chat"
     /\ sel = a
     /\ Show(UnreadOf(a), sel)
     /\ unread' = unread \ UnreadOf(a)
     /\ freed' = freed \cup UnreadOf(a)
     /\ UNCHANGED <<listed, sel, reading>>
     /\ \/ normal /\ UNCHANGED <<bubble, trayVars>>
        \/ ~normal /\ Remind(a, "chat", unread')
     /\ sending' = 0
     /\ UNCHANGED <<envVars, sysVars>>

\* ProcessChatMsg, another item is selected.  A sender without an item gets
\* one, but one with an empty account if the roster does not know him.
DeliverToOtherChat ==
  LET a == log[sending].from
  IN /\ Pumping /\ sending # 0 /\ log[sending].sort = "chat"
     /\ sel # a
     /\ listed' = listed \cup ({a} \cap friends)
     /\ Remind(a, "chat", unread)
     /\ sending' = 0
     /\ UNCHANGED <<envVars, listVars, sel, shown, reading, sysVars>>

\* ProcessSysMsg never counts as processed: row, number and flash.
DeliverSys ==
  /\ Pumping /\ sending # 0 /\ log[sending].sort # "chat"
  /\ listed' = listed \cup {Sys}
  /\ rows' = IF log[sending].sort = "request" THEN rows \cup {sending} ELSE rows
  /\ Remind(Sys, "sys", unread)
  /\ sending' = 0
  /\ UNCHANGED <<envVars, listVars, sel, shown, reading, boxes, answers, processed>>

Deliver == DeliverToOpenChat \/ DeliverToOtherChat \/ DeliverSys

-----------------------------------------------------------------------------
(* The user: the list of recent chats, the window *)

\* Mutant: the number is cleared and the messages are not read.
SelectChatUnread(a) ==
  /\ Pumping /\ a \in listed \cap Friend /\ sel # a
  /\ sel' = a
  /\ bubble' = [bubble EXCEPT ![a] = 0]
  /\ IF bubble[a] > 0 THEN StopFlash(a) ELSE UNCHANGED trayVars
  /\ UNCHANGED <<envVars, sending, listVars, listed, shown, reading, sysVars>>

\* OnItemSelect of a friend: with a number on the item, read his messages.
SelectChat(a) ==
  /\ Pumping /\ a \in listed \cap Friend /\ sel # a
  /\ sel' = a
  /\ bubble' = [bubble EXCEPT ![a] = 0]
  /\ \/ /\ bubble[a] > 0
        /\ Show(UnreadOf(a), a)
        /\ reading' = <<a>>
     \/ bubble[a] = 0 /\ UNCHANGED <<shown, reading>>
  /\ UNCHANGED <<envVars, sending, listVars, listed, sysVars, trayVars>>

\* Mutant: the list is cleared of every message, whoever sent it.
ClearAll ==
  /\ reading # <<>>
  /\ unread' = {}
  /\ freed' = freed \cup unread
  /\ reading' = <<>>
  /\ StopFlash(reading[1])
  /\ UNCHANGED <<envVars, sending, listed, sel, bubble, shown, sysVars>>

\* The rest of that: ClearUnReadTextMsgs and StopFlash.
Clear ==
  /\ reading # <<>>
  /\ unread' = unread \ UnreadOf(reading[1])
  /\ freed' = freed \cup UnreadOf(reading[1])
  /\ reading' = <<>>
  /\ StopFlash(reading[1])
  /\ UNCHANGED <<envVars, sending, listed, sel, bubble, shown, sysVars>>

\* OnItemSelect of the system messages: no number, no flash, but the messages
\* stay in the list (ClearUnReadSysMsgs is commented out).
SelectSys ==
  /\ Pumping /\ Sys \in listed /\ sel # Sys
  /\ sel' = Sys
  /\ bubble' = [bubble EXCEPT ![Sys] = IF Count(Sys) > 0 THEN 0 ELSE @]
  /\ StopFlash(Sys)
  /\ UNCHANGED <<envVars, sending, listVars, listed, shown, reading, sysVars>>

\* The minimise button, and back from the task bar.
Minimise ==
  /\ Pumping
  /\ normal' = ~normal
  /\ UNCHANGED <<now, log, friends, sending, listVars, viewVars, sysVars, trayVars>>

\* Only which messages share a second matters: no second without a message.
Tick ==
  /\ now < MaxTime
  /\ \E m \in DOMAIN log : log[m].time = now
  /\ now' = now + 1
  /\ UNCHANGED <<log, friends, normal, sending, listVars, viewVars, sysVars, trayVars>>

-----------------------------------------------------------------------------
(* The user: a double click on the flashing icon *)

\* Mutant: the item is selected without a look whether there is one.
TrayChatSelects ==
  /\ Pumping /\ flashing /\ Top.kind = "chat"
  /\ bubble' = [bubble EXCEPT ![Top.id] = 0]
  /\ sel' = Top.id
  /\ Show(UnreadOf(Top.id), sel')
  /\ reading' = <<Top.id>>
  /\ UNCHANGED <<envVars, sending, listVars, listed, sysVars, trayVars>>

\* OnDbClickChatMsg: select the item if there is one, and read the messages
\* in any case.  The flash is stopped when the observers have returned.
TrayChat ==
  LET a == Top.id
  IN /\ Pumping /\ flashing /\ Top.kind = "chat"
     /\ \/ /\ a \in listed
           /\ bubble' = [bubble EXCEPT ![a] = 0]
           /\ sel' = a
        \/ a \notin listed /\ UNCHANGED <<bubble, sel>>
     /\ Show(UnreadOf(a), sel')
     /\ reading' = <<a>>
     /\ UNCHANGED <<envVars, sending, listVars, listed, sysVars, trayVars>>

\* Removal of a system message that was dealt with, after its box or its row.
Finish(m) ==
  /\ RemoveLatest(m)
  /\ processed' = processed \cup SameSecond(m)

\* OnDbClickSysMessage up to its box.  The flash is stopped first.
TraySys ==
  /\ Pumping /\ flashing /\ Top.kind = "sys"
  /\ StopFlash(Sys)
  /\ sel' = Sys
  /\ bubble' = [bubble EXCEPT ![Sys] = IF Count(Sys) = 0 THEN @
                                       ELSE IF sel = Sys THEN Count(Sys) - 1 ELSE 0]
  /\ \/ /\ UnreadOf(Sys) # {} /\ log[Latest].sort = "request"
        /\ Len(boxes) < MaxModal
        /\ boxes' = Append(boxes, [sort |-> "request", msg |-> Latest])
        /\ UNCHANGED <<listVars, rows, answers, processed>>
     \/ /\ UnreadOf(Sys) # {} /\ log[Latest].sort = "notice"
        /\ Finish(Latest)
        /\ UNCHANGED <<boxes, rows, answers>>
     \/ /\ UnreadOf(Sys) = {}
        /\ UNCHANGED <<listVars, sysVars>>
  /\ UNCHANGED <<envVars, sending, listed, shown, reading>>

\* OnDbClickCallIncomeMessage only centres the call's dialog.
TrayCall == /\ Pumping /\ flashing /\ Top.kind = "call"
            /\ StopTop
            /\ UNCHANGED <<envVars, sending, listVars, viewVars, sysVars>>

-----------------------------------------------------------------------------
(* The user: boxes and rows *)

\* HandleIncomming up to its dialog.
IncomingCall(a) ==
  /\ Pumping /\ Len(boxes) < MaxModal /\ Len(flashStack) < MaxStack
  /\ Flash("call", a)
  /\ boxes' = Append(boxes, [sort |-> "call", id |-> a])
  /\ UNCHANGED <<envVars, sending, listVars, viewVars, rows, answers, processed>>

\* The innermost box returns: to OnDbClickSysMessage, which sends the answer,
\* or to HandleIncomming.
Return ==
  /\ Pumping /\ boxes # <<>>
  /\ boxes' = Front(boxes)
  /\ \/ /\ Last(boxes).sort = "request"
        /\ answers' = Append(answers, Last(boxes).msg)
        /\ Finish(Last(boxes).msg)
        /\ rows' = rows \ {Last(boxes).msg}
        /\ UNCHANGED trayVars
     \/ /\ Last(boxes).sort = "call"
        /\ StopFlash(Last(boxes).id)
        /\ UNCHANGED <<listVars, rows, answers, processed>>
  /\ UNCHANGED <<envVars, sending, viewVars>>

\* OnBnClickAddFriendReq: the button of one row, but the latest message.
ClickRow(r) ==
  /\ Pumping /\ sel = Sys /\ r \in rows
  /\ rows' = rows \ {r}
  /\ \/ /\ UnreadOf(Sys) # {}
        /\ answers' = IF log[Latest].sort = "request"
                      THEN Append(answers, Latest) ELSE answers
        /\ Finish(Latest)
        /\ StopFlash(Sys)
     \/ UnreadOf(Sys) = {} /\ UNCHANGED <<listVars, answers, processed, trayVars>>
  /\ UNCHANGED <<envVars, sending, viewVars, boxes>>

User ==
  \/ \E a \in Friend : RosterItem(a) \/ SelectChat(a) \/ IncomingCall(a)
  \/ SelectSys \/ Minimise \/ TrayChat \/ TraySys \/ TrayCall
  \/ Return \/ \E r \in rows : ClickRow(r)

Next == ReceiveAny \/ Deliver \/ Clear \/ User \/ Tick

Spec == Init /\ [][Next]_vars

\* The UI thread keeps running its loop.  Nothing is assumed of the user, who
\* may leave every box unanswered.
FairSpec == Spec /\ WF_vars(Deliver) /\ WF_vars(Clear)

-----------------------------------------------------------------------------
(* Properties *)

\* The messages of a friend are shown in the order they were received and none
\* twice, whichever of the three ways brings them on the screen: the open chat
\* (mainDlg.cpp:4153), the item (3387) or the tray (4358).
ShownInOrderOnce ==
  \A i, j \in DOMAIN shown :
    (i < j /\ log[shown[i].msg].from = log[shown[j].msg].from)
      => shown[i].msg < shown[j].msg

\* Arrivals, showings and losses are those of a mailbox: whatever a friend
\* sends is shown once, with all of his that waits and in order, or it was lost
\* before anything else came (MsgCenterModuleImpl.cpp:109-123, mainDlg.cpp:3387).
Waiting == {m \in unread : log[m].from # Sys /\ \A i \in DOMAIN shown : shown[i].msg # m}

Promise == INSTANCE Mailbox WITH
             Other <- {Sys}, waiting <- Waiting,
             senders <- [m \in DOMAIN log |-> log[m].from],
             shown <- [i \in DOMAIN shown |-> shown[i].msg]
ShownOnceOrLost == Promise!Spec

\* A message of a friend that waits in the list shows on his item as a number,
\* or the UI thread is just reading it: selecting the item reads only when there
\* is a number (mainDlg.cpp:3380), so one without could stay unread for ever.
\* And a number never promises more messages than wait.
UnreadHasBubble ==
  /\ \A m \in unread :
       (m # sending /\ log[m].from \in listed \cap Friend)
         => bubble[log[m].from] > 0 \/ reading = <<log[m].from>>
  /\ \A a \in Friend : bubble[a] <= Count(a)

\* Who has a number on his item makes the icon flash until his messages are
\* read ("what is not processed flashes as a reminder", mainDlg.cpp:4106),
\* whatever boxes, clicks and other accounts do to the stack meanwhile.  The one
\* exception: items are told apart by account alone
\* (TrayTaskModuleImpl.cpp:394), so the end of a call takes the oldest item of
\* the caller, and his message may have none of its own.
CallEnds(a) ==
  \/ Return /\ Last(boxes) = [sort |-> "call", id |-> a]
  \/ TrayCall /\ Top.id = a

FlashesUntilRead ==
  [][\A a \in Friend :
       bubble'[a] > 0 => \/ IsFlashing(a)'
                         \/ bubble[a] > 0 /\ (CallEnds(a) \/ ~IsFlashing(a))]_vars

\* The message a box is about and those in the list are not deleted, although
\* OnDbClickSysMessage holds the bare pointer across a modal loop in which
\* other boxes and rows deal with messages (mainDlg.cpp:4484-4512).
HeldMessagesLive ==
  /\ unread \cap freed = {}
  /\ \A i \in DOMAIN boxes : boxes[i].sort = "request" => boxes[i].msg \notin freed

\* A message is deleted unseen only if it is the one the network thread has
\* just put in the list and waits to announce (MsgCenterModuleImpl.cpp:109-123).
LosesAtMostTheOneInFlight ==
  [][(freed' \ freed) \ {shown'[i].msg : i \in DOMAIN shown'} \subseteq {sending}]_vars

\* The network thread gets out of SendMessage (MsgCenterModuleImpl.cpp:123),
\* even if the user leaves all the boxes on the screen unanswered.
AnnouncedInTheEnd == (sending # 0) ~> (sending = 0)

-----------------------------------------------------------------------------
(* What the comments of the code say and the code does not do *)

\* mainDlg.cpp:3378: if there are unread messages, read them and stop the
\* flash; so what is deleted has been read.
DeletesOnlyRead == freed \subseteq {shown[i].msg : i \in DOMAIN shown}

\* mainDlg.cpp:4517: the buttons in the list follow the answer given in the
\* box, so that a request is answered once.
AnsweredOnce ==
  \A i, j \in DOMAIN answers : answers[i] = answers[j] => i = j
=============================================================================
