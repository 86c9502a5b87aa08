------------------------------ MODULE GroupChat ------------------------------
(***************************************************************************)
(* Group messages: CGroupChatLogic, CGroupChatPage and the part of mainDlg  *)
(* that announces them.                                                     *)
(*                                                                          *)
(* The network thread saves a message, appends it to its room's cache,      *)
(* counts it as unread and posts it to the UI thread, the last three under  *)
(* m_csGCData.  The UI thread shows it if its room is the chosen one, and   *)
(* counts as not unread what is unread there; otherwise it gives the room a *)
(* bubble and makes the tray flash, if the count is not 0.  Choosing a room *)
(* shows its cache.  A message that was sent while the user was offline     *)
(* comes another way: the network thread sends it to the UI thread and      *)
(* waits; the UI thread caches and shows all rows of the room again.        *)
(*                                                                          *)
(* Every room is its own item of the tray's stack: TrayStack has that part. *)
(* The items of the recent chats are not removed here.                      *)
(***************************************************************************)
EXTENDS Naturals, Sequences, FiniteSets, SequencesExt

CONSTANTS Room,
          Text,      \* messages, of one's own, too: the server sends them back
          Receipt,   \* messages that say who downloaded a file
          None

Msg == Text \cup Receipt

ASSUME GroupChatConstants == None \notin Room /\ Text \cap Receipt = {}

VARIABLES
  rows,      \* the saved messages of each room
  cache,     \* m_mapRoom2ChatList
  unread,    \* m_mapRoom2Unreadcount
  posted,    \* WM_GROUPMSG_RECEIVED in the message window's queue
  cur,       \* the room of m_CurItem, the item selected in the recent chats
  choosing,  \* the UI thread is between RefreshGroupChatList and the bubble
  view,      \* listgroupchat
  listed,    \* rooms with an item in the recent chats
  bubble,    \* the number at the item
  flash,     \* rooms the tray flashes for
  seen,      \* history: messages that were in the view with their room chosen
  hushed     \* history: messages not announced when they came (see Announce)

data   == <<rows, cache>>
signs  == <<bubble, flash>>
hist   == <<seen, hushed>>
vars   == <<data, unread, posted, cur, choosing, view, listed, signs, hist>>

TypeOK ==
  /\ rows \in [Room -> Seq(Msg)] /\ cache \in [Room -> Seq(Msg)]
  /\ unread \in [Room -> Nat] /\ bubble \in [Room -> Nat]
  /\ posted \in Seq(Room \X Msg)
  /\ cur \in Room \cup {None} /\ choosing \in BOOLEAN
  /\ view \in Seq(Msg)
  /\ listed \subseteq Room /\ flash \subseteq Room
  /\ seen \subseteq Msg /\ hushed \subseteq Msg

\* The rooms of the recent chats are listed at the start, without messages.
Init ==
  /\ rows = [r \in Room |-> <<>>] /\ cache = rows
  /\ unread = [r \in Room |-> 0] /\ bubble = unread
  /\ posted = <<>>
  /\ cur = None /\ choosing = FALSE /\ view = <<>>
  /\ listed \in SUBSET Room /\ flash = {}
  /\ seen = {} /\ hushed = {}

Of(r)  == ToSet(rows[r])
New    == Msg \ UNION {Of(r) : r \in Room}
Coming(r) == {m \in Msg : <<r, m>> \in ToSet(posted)}

-----------------------------------------------------------------------------
(* The network thread *)

\* Mutant: the message is posted and not cached.
ReceiveDoesNotCache(r, m) ==
  /\ m \in New
  /\ rows' = [rows EXCEPT ![r] = Append(@, m)]
  /\ unread' = [unread EXCEPT ![r] = @ + 1]
  /\ posted' = Append(posted, <<r, m>>)
  /\ UNCHANGED <<cache, cur, choosing, view, listed, signs, hist>>

OnReceveGroupMessage(r, m) ==
  /\ m \in New
  /\ rows' = [rows EXCEPT ![r] = Append(@, m)]
  /\ cache' = [cache EXCEPT ![r] = Append(@, m)]
  /\ unread' = [unread EXCEPT ![r] = @ + 1]
  /\ posted' = Append(posted, <<r, m>>)
  /\ UNCHANGED <<cur, choosing, view, listed, signs, hist>>

-----------------------------------------------------------------------------
(* The UI thread *)

\* The receipts among some messages, in their order.
Receipts(s) ==
  LET at == {j \in DOMAIN s : s[j] \in Receipt}
  IN  [i \in 1..Cardinality(at) |->
         s[CHOOSE j \in at : Cardinality({k \in at : k < j}) = i - 1]]

\* CGroupChatPage::OnMessage: a receipt is shown in whatever room is chosen.
Inserted(r, s) == IF cur = r THEN s ELSE Receipts(s)

Shown(r, s) == /\ view' = view \o Inserted(r, s)
               /\ seen' = seen \cup (IF cur = r THEN ToSet(s) ELSE {})

SetSigns(r, n) == /\ bubble' = [bubble EXCEPT ![r] = n]
                  /\ flash' = flash \cup {r}

\* Mutant: the item that was made for the message gets no signs.
AnnounceListed(r) ==
  /\ listed' = listed \cup {r}
  /\ \/ cur # r /\ unread[r] > 0 /\ r \in listed /\ SetSigns(r, unread[r])
     \/ cur # r /\ (unread[r] = 0 \/ r \notin listed) /\ UNCHANGED signs
     \/ cur = r /\ UNCHANGED signs

\* UpdateGroupLastMessage.  What still comes is counted, too: to clear the
\* count of the chosen room takes the announcement from it.
Announce(r) ==
  /\ listed' = listed \cup {r}
  /\ \/ cur # r /\ unread[r] > 0 /\ SetSigns(r, unread[r])
     \/ cur # r /\ unread[r] = 0 /\ UNCHANGED signs
     \/ cur = r /\ UNCHANGED signs

\* Mutant: the count is taken down by one instead of cleared.
HandleCountsDown ==
  /\ posted # <<>> /\ ~choosing
  /\ LET r == Head(posted)[1]
         m == Head(posted)[2]
     IN /\ Shown(r, <<m>>)
        /\ Announce(r)
        /\ unread' = IF cur = r THEN [unread EXCEPT ![r] = @ - 1] ELSE unread
        /\ hushed' = hushed \cup (IF cur = r THEN Coming(r) ELSE {})
  /\ posted' = Tail(posted)
  /\ UNCHANGED <<data, cur, choosing>>

HandleGroupMsg ==
  /\ posted # <<>> /\ ~choosing
  /\ LET r == Head(posted)[1]
         m == Head(posted)[2]
     IN /\ Shown(r, <<m>>)
        /\ Announce(r)
        /\ unread' = IF cur = r THEN [unread EXCEPT ![r] = 0] ELSE unread
        /\ hushed' = hushed \cup (IF cur = r THEN Coming(r) ELSE {})
  /\ posted' = Tail(posted)
  /\ UNCHANGED <<data, cur, choosing>>

\* OnGroupChatMsgReceived and ProcessOfflineGroupMsg: the message is counted
\* after its announcement.
ProcessOfflineGroupMsg(r, m) ==
  /\ m \in New /\ ~choosing
  /\ LET all == Append(rows[r], m)
     IN /\ rows' = [rows EXCEPT ![r] = all]
        /\ cache' = [cache EXCEPT ![r] = @ \o all]
        /\ Shown(r, all)
  /\ Announce(r)
  /\ unread' = [unread EXCEPT ![r] = IF cur = r THEN 1 ELSE @ + 1]
  /\ hushed' = hushed \cup (IF cur = r THEN Coming(r) ELSE {m})
  /\ UNCHANGED <<posted, cur, choosing>>

\* OnRecentChatListSelected up to RefreshGroupChatList.
Choose(r) ==
  /\ ~choosing /\ r \in listed /\ r # cur
  /\ cur' = r
  /\ view' = cache[r]
  /\ seen' = seen \cup ToSet(cache[r])

SelectRoom(r) ==
  /\ Choose(r)
  /\ choosing' = TRUE
  /\ UNCHANGED <<data, unread, posted, listed, signs, hushed>>

\* The rest of it: the signs go, and the count, if there is a bubble.
ClearSigns ==
  /\ choosing /\ choosing' = FALSE
  /\ \/ /\ bubble[cur] > 0
        /\ bubble' = [bubble EXCEPT ![cur] = 0]
        /\ flash' = flash \ {cur}
        /\ unread' = [unread EXCEPT ![cur] = 0]
        /\ hushed' = hushed \cup Coming(cur)
     \/ bubble[cur] = 0 /\ UNCHANGED <<signs, unread, hushed>>
  /\ UNCHANGED <<data, posted, cur, view, listed, seen>>

\* Another chat, of two: the page keeps its view.
SelectChat ==
  /\ ~choosing /\ cur # None
  /\ cur' = None
  /\ UNCHANGED <<data, unread, posted, choosing, view, listed, signs, hist>>

\* A double click on the flashing icon takes the bubble away, chooses the room
\* unless it is chosen, and stops the flash: the count stays.
OnDbClickGroupMsg(r) ==
  /\ ~choosing /\ r \in flash
  /\ bubble' = [bubble EXCEPT ![r] = 0]
  /\ flash' = flash \ {r}
  /\ \/ Choose(r)
     \/ r = cur /\ UNCHANGED <<cur, view, seen>>
  /\ UNCHANGED <<data, unread, posted, choosing, listed, hushed>>

Next ==
  \/ \E r \in Room, m \in Msg :
       OnReceveGroupMessage(r, m) \/ ProcessOfflineGroupMsg(r, m)
  \/ \E r \in Room : SelectRoom(r) \/ OnDbClickGroupMsg(r)
  \/ HandleGroupMsg \/ ClearSigns \/ SelectChat

Spec == Init /\ [][Next]_vars

-----------------------------------------------------------------------------
(* Properties *)

\* Wherever s has an element of t, it has all the earlier ones of t before it.
Follows(s, t) ==
  \A i \in DOMAIN s : \A p, q \in DOMAIN t :
    (s[i] = t[q] /\ p < q) => \E j \in 1..(i - 1) : s[j] = t[p]

\* In the room the user looks at, a message is shown below all that came to the
\* room before it, and none is left out but those that are still posted,
\* however choosing a room and the two ways of a message fall together.  What
\* does happen is that a message is shown again.
ShownInOrder ==
  cur # None =>
    /\ Follows(view, rows[cur])
    /\ Of(cur) \subseteq ToSet(view) \cup Coming(cur)
    /\ ToSet(view) \subseteq Of(cur) \cup Receipt

\* A room has a bubble and the tray flashes for it as long as it has a message
\* the user has not seen.  Two kinds of messages may be missed: the offline
\* ones, which are counted too late (mainDlg.cpp:4296), and those on their way
\* when the count of the chosen room was cleared (mainDlg.cpp:3940, 3409).
UnseenIsAnnounced ==
  \A r \in Room \ {cur} :
    \/ Of(r) \subseteq seen \cup hushed \cup Coming(r)
    \/ r \in flash /\ bubble[r] > 0

-----------------------------------------------------------------------------
(* What a comment of the code says and the code does not do. *)

\* "If it is not selected, show the bubble, and flash" (mainDlg.cpp:3923).
NotSelectedIsAnnounced ==
  \A r \in Room \ {cur} : Of(r) \subseteq seen \cup Coming(r) \/ r \in flash
=============================================================================
