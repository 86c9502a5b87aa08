----------------------------- MODULE InboxProofs -----------------------------
(***************************************************************************)
(* Proofs about Inbox, for any accounts, messages and bounds.               *)
(*                                                                          *)
(* A box keeps a pointer to a message that others may take from the list    *)
(* meanwhile.  It stays valid because what is deleted comes from a friend   *)
(* and what a box is about comes from the system account: the invariant     *)
(* ties the sort of a message to its sender, the kind of a flash item to    *)
(* its account, and the account being read to what was shown of it.  The    *)
(* invariant of TrayStack is part of it: Inbox only calls its operations.   *)
(*                                                                          *)
(* A second invariant, Orderly, says that what waits in the list came after *)
(* what was shown of its sender, and has its number.  With both, every step *)
(* is a step of Mailbox or none.                                            *)
(***************************************************************************)
EXTENDS Inbox, TrayStackProofs, FiniteSetTheorems

\* The messages that were shown.
Seen == {shown[i].msg : i \in DOMAIN shown}

\* Only friends send chat messages.
SortsOfSenders == \A m \in DOMAIN log : log[m].sort = "chat" <=> log[m].from # Sys

\* What flashes can be double-clicked: a chat item is a friend's, and the
\* system messages have an item in the list by then.
ItemsOfSenders ==
  \A i \in DOMAIN flashStack :
    /\ flashStack[i].kind = "chat" => flashStack[i].id \in Friend
    /\ flashStack[i].kind = "sys" => Sys \in listed

FreedFromFriends == \A m \in freed : log[m].from # Sys

BoxesOfSys ==
  \A i \in DOMAIN boxes : boxes[i].sort = "request" =>
     /\ boxes[i].msg \in 1..Len(log)
     /\ log[boxes[i].msg].from = Sys

\* What the UI thread is about to delete has been shown, but for the message
\* that has arrived meanwhile.
ReadWasShown ==
  reading # <<>> => \A m \in UnreadOf(reading[1]) : m = sending \/ m \in Seen

Safe == /\ IInv
        /\ TypeOK
        /\ SortsOfSenders
        /\ ItemsOfSenders
        /\ unread \cap freed = {}
        /\ FreedFromFriends
        /\ BoxesOfSys
        /\ ReadWasShown

-----------------------------------------------------------------------------
(* Counting: the messages of a set, in order.                              *)

\* Every number below the size of a set of messages is the rank of one of them.
LEMMA Ranks ==
  ASSUME NEW n \in Nat, NEW ms \in SUBSET (1..n)
  PROVE  /\ IsFiniteSet(ms) /\ Cardinality(ms) \in 0..n
         /\ \A i \in 1..Cardinality(ms) :
              \E m \in ms : Cardinality({k \in ms : k < m}) = i - 1
         /\ \A m \in ms : Cardinality({k \in ms : k < m}) \in 0..(Cardinality(ms) - 1)
         /\ \A m, l \in ms :
              Cardinality({k \in ms : k < m}) = Cardinality({k \in ms : k < l}) => m = l
         /\ \A m, l \in ms :
              m < l => Cardinality({k \in ms : k < m}) < Cardinality({k \in ms : k < l})
<1> DEFINE c == Cardinality(ms)
           below(m) == {k \in ms : k < m}
           r == [m \in ms |-> Cardinality(below(m))]
<1>1. IsFiniteSet(ms) /\ c \in Nat /\ c <= n
  <2>1. IsFiniteSet(1..n) /\ Cardinality(1..n) = n
    BY FS_Interval
  <2> QED BY <2>1, FS_Subset, FS_CardinalityType
<1>2. ASSUME NEW m \in ms
      PROVE  IsFiniteSet(below(m)) /\ Cardinality(below(m)) \in 0..(c - 1)
  <2>1. m \in Nat
    OBVIOUS
  <2>2. below(m) \in SUBSET (ms \ {m})
    BY <2>1
  <2>3. IsFiniteSet(ms \ {m}) /\ Cardinality(ms \ {m}) = c - 1
    BY <1>1, FS_RemoveElement
  <2> HIDE DEF below
  <2>4. /\ IsFiniteSet(below(m)) /\ Cardinality(below(m)) <= c - 1
        /\ Cardinality(below(m)) \in Nat
    BY <2>2, <2>3, FS_Subset, FS_CardinalityType
  <2> QED BY <1>1, <2>4
<1>3. ASSUME NEW m \in ms, NEW l \in ms, m < l
      PROVE  Cardinality(below(m)) < Cardinality(below(l))
  <2>1. m \in Nat /\ l \in Nat /\ ms \subseteq Nat
    OBVIOUS
  <2>0. \A x, y, z \in Nat : (x < y /\ y < z => x < z) /\ ~(x < x)
    OBVIOUS
  <2>2. below(m) \cup {m} \in SUBSET below(l) /\ m \notin below(m)
    <3>1. \A k \in ms : k < m => k < l
      BY <2>0, <2>1, <1>3
    <3>2. m \in below(l) /\ m \notin below(m)
      BY <2>0, <2>1, <1>3
    <3> QED BY <3>1, <3>2
  <2> HIDE DEF below
  <2>3. Cardinality(below(m) \cup {m}) = Cardinality(below(m)) + 1
    BY <1>2, <2>2, FS_AddElement
  <2>4. Cardinality(below(m)) + 1 <= Cardinality(below(l))
    BY <1>2, <2>2, <2>3, FS_Subset
  <2> QED BY <1>2, <2>4
<1>4. ASSUME NEW m \in ms, NEW l \in ms, Cardinality(below(m)) = Cardinality(below(l))
      PROVE  m = l
  <2>1. m \in Nat /\ l \in Nat
    OBVIOUS
  <2>2. \A x, y \in Nat : x = y \/ x < y \/ y < x
    OBVIOUS
  <2>3. \A x, y \in Nat : x < y => x # y
    OBVIOUS
  <2> HIDE DEF below
  <2>4. Cardinality(below(m)) \in Nat /\ Cardinality(below(l)) \in Nat
    BY <1>2
  <2> QED BY <1>3, <1>4, <2>1, <2>2, <2>3, <2>4
<1>5. r \in Injection(ms, 0..(c - 1))
  <2> HIDE DEF below, c
  <2>1. r \in [ms -> 0..(c - 1)]
    BY <1>2
  <2>2. \A m, l \in ms : r[m] = r[l] => m = l
    BY <1>4
  <2> QED BY <2>1, <2>2 DEF Injection, IsInjective
<1>6. IsFiniteSet(0..(c - 1)) /\ Cardinality(0..(c - 1)) = c
  <2>1. c - 1 \in Int /\ (IF 0 > c - 1 THEN 0 ELSE (c - 1) - 0 + 1) = c
    BY <1>1
  <2> HIDE DEF c
  <2> QED BY <2>1, FS_Interval
<1>7. r \in Surjection(ms, 0..(c - 1))
  <2> HIDE DEF r, c
  <2> QED BY <1>5, <1>6, FS_Injection DEF c
<1>8. ASSUME NEW i \in 1..c PROVE \E m \in ms : Cardinality(below(m)) = i - 1
  <2> HIDE DEF below, c
  <2>1. i - 1 \in 0..(c - 1)
    BY <1>1
  <2> QED BY <1>7, <2>1 DEF Surjection
<1>9. c \in 0..n
  BY <1>1
<1> QED BY <1>1, <1>2, <1>3, <1>4, <1>8, <1>9

\* The latest message of the system account is one of its messages.
LEMMA LatestIsUnread ==
  ASSUME TypeOK, UnreadOf(Sys) # {}
  PROVE  Latest \in UnreadOf(Sys)
<1> DEFINE ms == UnreadOf(Sys)
           c == Cardinality(ms)
           below(m) == {k \in ms : k < m}
<1>1. ms \in SUBSET (1..Len(log)) /\ Len(log) \in Nat
  BY LenProperties DEF TypeOK, UnreadOf
<1> HIDE DEF ms
<1>2. IsFiniteSet(ms) /\ c \in Nat \ {0}
  BY <1>1, Ranks, FS_EmptySet DEF ms
<1>3. PICK m \in ms : Cardinality(below(m)) = c - 1
  <2>1. c \in 1..c
    BY <1>2
  <2> HIDE DEF c
  <2> QED BY <1>1, <2>1, Ranks DEF c
<1>4. below(m) \in SUBSET (ms \ {m})
  BY <1>1
<1>5. IsFiniteSet(ms \ {m}) /\ Cardinality(ms \ {m}) = c - 1
  BY <1>2, FS_RemoveElement
<1>6. below(m) = ms \ {m}
  <2> HIDE DEF below, c
  <2> QED BY <1>3, <1>4, <1>5, FS_Subset
<1>7. \A n \in ms : n <= m
  BY <1>1, <1>6
<1> QED BY <1>7 DEF Latest, ms

Shown == [msg : Msg, chat : Id \cup {Nobody}]

\* Show shows exactly the messages it is given, after the others and in order.
LEMMA ShowShows ==
  ASSUME TypeOK, NEW ms \in SUBSET (1..Len(log)), NEW chat \in Id \cup {Nobody},
         Show(ms, chat)
  PROVE  /\ shown' \in Seq(Shown)
         /\ Seen' = Seen \cup ms
         /\ Len(shown') = Len(shown) + Cardinality(ms) /\ Cardinality(ms) \in Nat
         /\ \A i \in DOMAIN shown : i \in DOMAIN shown' /\ shown'[i] = shown[i]
         /\ \A i \in DOMAIN shown' \ DOMAIN shown :
              /\ i - Len(shown) \in 1..Cardinality(ms)
              /\ shown'[i].msg \in ms
              /\ shown'[i].msg = CHOOSE m \in ms : Cardinality({n \in ms : n < m})
                                                  = (i - Len(shown)) - 1
         /\ \A i, j \in DOMAIN shown' \ DOMAIN shown :
              i < j => shown'[i].msg < shown'[j].msg
<1> DEFINE c == Cardinality(ms)
           rank(m) == Cardinality({n \in ms : n < m})
           pick(i) == CHOOSE m \in ms : rank(m) = i - 1
           new == [i \in 1..c |-> [msg |-> pick(i), chat |-> chat]]
<1>1. Len(log) \in Nat /\ ms \subseteq Msg /\ shown \in Seq(Shown)
  BY LenProperties, Bounds DEF TypeOK, Msg, Shown
<1>2. /\ c \in Nat
      /\ \A i \in 1..c : \E m \in ms : rank(m) = i - 1
      /\ \A m \in ms : rank(m) \in 0..(c - 1)
      /\ \A m, l \in ms : rank(m) = rank(l) => m = l
      /\ \A m, l \in ms : m < l => rank(m) < rank(l)
  <2>1. Cardinality(ms) \in 0..Len(log) => Cardinality(ms) \in Nat
    BY <1>1
  <2>2. c \in Nat
    BY <1>1, <2>1, Ranks
  <2>3. \A i \in 1..c : \E m \in ms : rank(m) = i - 1
    BY <1>1, Ranks
  <2>4. \A m \in ms : rank(m) \in 0..(c - 1)
    BY <1>1, Ranks
  <2>5. \A m, l \in ms : rank(m) = rank(l) => m = l
    BY <1>1, Ranks
  <2>6. \A m, l \in ms : m < l => rank(m) < rank(l)
    BY <1>1, Ranks
  <2> QED BY <2>2, <2>3, <2>4, <2>5, <2>6
<1>3. shown' = shown \o new
  BY DEF Show
<1> HIDE DEF c, rank
<1>4. \A i \in 1..c : pick(i) \in ms /\ rank(pick(i)) = i - 1
  BY <1>2
<1> HIDE DEF pick
<1>5. new \in Seq(Shown) /\ Len(new) = c
      /\ \A i \in 1..c : new[i] = [msg |-> pick(i), chat |-> chat]
  <2>1. new \in [1..c -> Shown]
    BY <1>1, <1>4 DEF Shown
  <2> QED BY <1>2, <2>1
<1> HIDE DEF new
<1>6. \A m \in ms : \E i \in 1..c : pick(i) = m
  <2> SUFFICES ASSUME NEW m \in ms PROVE \E i \in 1..c : pick(i) = m
    OBVIOUS
  <2>1. rank(m) + 1 \in 1..c /\ (rank(m) + 1) - 1 = rank(m)
    BY <1>2
  <2>2. pick(rank(m) + 1) \in ms /\ rank(pick(rank(m) + 1)) = rank(m)
    BY <1>4, <2>1
  <2>3. pick(rank(m) + 1) = m
    BY <1>2, <2>2
  <2> QED BY <2>1, <2>3
<1> DEFINE s == Len(shown)
<1>7. s \in Nat /\ DOMAIN shown = 1..s
  BY <1>1, LenProperties
<1>8. /\ shown' \in Seq(Shown) /\ DOMAIN shown' = 1..(s + c)
      /\ \A i \in 1..(s + c) : shown'[i] = IF i <= s THEN shown[i] ELSE new[i - s]
  BY <1>1, <1>3, <1>5, ConcatProperties, LenProperties
<1> HIDE DEF s
<1>9. Seen' \subseteq Seen \cup ms
  <2> SUFFICES ASSUME NEW i \in 1..(s + c) PROVE shown'[i].msg \in Seen \cup ms
    BY <1>8 DEF Seen
  <2>1. CASE i <= s
    BY <1>7, <1>8, <2>1 DEF Seen
  <2>2. CASE ~(i <= s)
    <3>1. i - s \in 1..c
      BY <1>2, <1>7, <2>2
    <3> QED BY <1>4, <1>5, <1>8, <2>2, <3>1
  <2> QED BY <2>1, <2>2
<1>10. Seen \subseteq Seen'
  <2> SUFFICES ASSUME NEW i \in 1..s PROVE \E j \in 1..(s + c) : shown'[j].msg = shown[i].msg
    BY <1>7, <1>8 DEF Seen
  <2>1. i \in 1..(s + c) /\ i <= s
    BY <1>2, <1>7
  <2> QED BY <1>8, <2>1
<1>11. ms \subseteq Seen'
  <2> SUFFICES ASSUME NEW m \in ms PROVE \E j \in 1..(s + c) : shown'[j].msg = m
    BY <1>8 DEF Seen
  <2>1. PICK i \in 1..c : pick(i) = m
    BY <1>6
  <2>2. s + i \in 1..(s + c) /\ ~(s + i <= s) /\ (s + i) - s = i
    BY <1>2, <1>7
  <2> QED BY <1>5, <1>8, <2>1, <2>2
<1>12. ASSUME NEW i \in DOMAIN shown' \ DOMAIN shown
       PROVE  i - s \in 1..c /\ ~(i <= s) /\ shown'[i].msg = pick(i - s)
              /\ pick(i - s) \in ms /\ rank(pick(i - s)) = (i - s) - 1
  <2>1. i \in 1..(s + c) /\ i \notin 1..s
    BY <1>7, <1>8
  <2>2. i - s \in 1..c /\ ~(i <= s)
    BY <1>2, <1>7, <2>1
  <2> QED BY <1>4, <1>5, <1>8, <2>1, <2>2
<1>13. ASSUME NEW i \in DOMAIN shown' \ DOMAIN shown,
              NEW j \in DOMAIN shown' \ DOMAIN shown, i < j
       PROVE  shown'[i].msg < shown'[j].msg
  <2> DEFINE m == pick(i - s)
             l == pick(j - s)
  <2>1. m \in ms /\ l \in ms /\ rank(m) = (i - s) - 1 /\ rank(l) = (j - s) - 1
    BY <1>12
  <2>2. i \in Nat /\ j \in Nat
    BY <1>2, <1>7, <1>8
  <2> HIDE DEF m, l
  <2>3. rank(m) < rank(l) /\ rank(m) \in Nat /\ rank(l) \in Nat
    BY <1>2, <1>7, <1>13, <2>1, <2>2
  <2>4. m # l /\ ~(l < m)
    BY <1>2, <2>1, <2>3
  <2>5. m \in Nat /\ l \in Nat
    BY <1>1, <2>1
  <2> QED BY <1>12, <2>4, <2>5 DEF m, l
<1>14. Len(shown') = s + c
  BY <1>2, <1>7, <1>8, LenProperties
<1>15. \A i \in 1..s : i \in 1..(s + c) /\ i <= s
  BY <1>2, <1>7
<1>16. \A i \in DOMAIN shown : i \in DOMAIN shown' /\ shown'[i] = shown[i]
  BY <1>7, <1>8, <1>15
<1> QED BY <1>2, <1>8, <1>9, <1>10, <1>11, <1>12, <1>13, <1>14, <1>16 DEF c, rank, pick, s

-----------------------------------------------------------------------------
(* What the operations leave of the tray, the counts and the lists.        *)

LEMMA TrayIsTyped == IInv => TrayTypeOK
BY DEF IInv

\* A number on an item counts messages that were received.
LEMMA CountIsBounded ==
  ASSUME TypeOK, NEW ms \in SUBSET (1..Len(log)), NEW a
  PROVE  Cardinality({m \in ms : log[m].from = a}) \in 0..MaxMsgs
<1>1. Len(log) \in Nat /\ Len(log) <= MaxMsgs /\ MaxMsgs \in Nat
  BY LenProperties, Bounds DEF TypeOK
<1>2. {m \in ms : log[m].from = a} \in SUBSET (1..Len(log))
  OBVIOUS
<1>3. Cardinality({m \in ms : log[m].from = a}) \in 0..Len(log)
  BY <1>1, <1>2, Ranks
<1> QED BY <1>1, <1>3

LEMMA FlashItems ==
  ASSUME IInv, NEW kind \in Kind, NEW id \in Id, Flash(kind, id)
  PROVE  \A i \in DOMAIN flashStack' :
           \/ flashStack'[i] = [kind |-> kind, id |-> id]
           \/ \E j \in DOMAIN flashStack : flashStack'[i] = flashStack[j]
<1> DEFINE item == [kind |-> kind, id |-> id]
<1>1. flashStack \in Seq(Item) /\ item \in Item
  BY DEF IInv, TrayTypeOK, Item
<1> HIDE DEF item
<1>2. CASE flashStack' = Append(flashStack, item)
  <2>1. /\ Len(flashStack) \in Nat /\ DOMAIN flashStack = 1..Len(flashStack)
        /\ DOMAIN flashStack' = 1..(Len(flashStack) + 1)
        /\ flashStack'[Len(flashStack) + 1] = item
        /\ \A i \in 1..Len(flashStack) : flashStack'[i] = flashStack[i]
    BY <1>1, <1>2, AppendProperties, LenProperties
  <2>2. \A n \in Nat : \A i \in 1..(n + 1) : i = n + 1 \/ i \in 1..n
    OBVIOUS
  <2> QED BY <2>1, <2>2 DEF item
<1>3. CASE flashStack' = flashStack
  BY <1>3
<1> QED BY <1>2, <1>3 DEF Flash, Push, trayVars, item

LEMMA StopItems ==
  ASSUME IInv, NEW id, StopFlash(id)
  PROVE  \A i \in DOMAIN flashStack' :
           \E j \in DOMAIN flashStack : flashStack'[i] = flashStack[j]
<1>1. flashStack \in Seq(Item)
  BY DEF IInv, TrayTypeOK
<1>2. ASSUME NEW k \in DOMAIN flashStack, StopAt(k)
      PROVE  \A i \in DOMAIN flashStack' :
               \E j \in DOMAIN flashStack : flashStack'[i] = flashStack[j]
  <2>1. k \in 1..Len(flashStack) /\ Len(flashStack) \in Nat
        /\ DOMAIN flashStack = 1..Len(flashStack)
    BY <1>1, LenProperties
  <2>2. /\ flashStack' \in Seq(Item)
        /\ Len(flashStack') = Len(flashStack) - 1
        /\ \A j \in 1..(Len(flashStack) - 1) :
             flashStack'[j] = IF j < k THEN flashStack[j] ELSE flashStack[j + 1]
    BY <1>1, <1>2, <2>1, RemoveAtFacts DEF StopAt
  <2>3. DOMAIN flashStack' = 1..(Len(flashStack) - 1)
    BY <2>2, LenProperties
  <2>4. \A n \in Nat : \A i \in 1..(n - 1) : i \in 1..n /\ i + 1 \in 1..n
    OBVIOUS
  <2> QED BY <2>1, <2>2, <2>3, <2>4
<1>3. CASE \E k \in OldestOf(id) : StopAt(k)
  BY <1>2, <1>3 DEF OldestOf, IndicesOf
<1>4. CASE UNCHANGED trayVars
  BY <1>4 DEF trayVars
<1> QED BY <1>3, <1>4 DEF StopFlash

\* The three ways an action of Inbox treats the tray.
LEMMA TrayFlashes ==
  ASSUME Safe, NEW kind \in Kind, NEW id \in Id, Flash(kind, id),
         listed \subseteq listed',
         kind = "chat" => id \in Friend, kind = "sys" => Sys \in listed'
  PROVE  IInv' /\ ItemsOfSenders'
<1>1. IInv'
  BY FlashStep DEF Safe
<1>2. ItemsOfSenders'
  BY FlashItems DEF Safe, ItemsOfSenders
<1> QED BY <1>1, <1>2

LEMMA TrayStops ==
  ASSUME Safe, NEW id \in Id, StopFlash(id), listed \subseteq listed'
  PROVE  IInv' /\ ItemsOfSenders'
<1>1. IInv'
  BY StopStep DEF Safe
<1>2. ItemsOfSenders'
  BY StopItems DEF Safe, ItemsOfSenders
<1> QED BY <1>1, <1>2

LEMMA TrayRests ==
  ASSUME Safe, UNCHANGED trayVars, listed \subseteq listed'
  PROVE  IInv' /\ ItemsOfSenders'
<1>1. IInv'
  BY IdleStep DEF Safe
<1>2. ItemsOfSenders'
  BY DEF Safe, ItemsOfSenders, trayVars
<1> QED BY <1>1, <1>2

\* The item on top of a flashing tray.
LEMMA TopIsItem ==
  ASSUME Safe, flashing
  PROVE  /\ Top.id \in Id
         /\ Top.kind = "chat" => Top.id \in Friend
         /\ Top.kind = "sys" => Sys \in listed
<1>1. flashStack \in Seq(Item) /\ flashStack # <<>>
  BY DEF Safe, IInv, TrayTypeOK, FlashesWhileStacked
<1>2. Len(flashStack) \in 1..Len(flashStack) /\ DOMAIN flashStack = 1..Len(flashStack)
  BY <1>1, EmptySeq, LenProperties
<1>3. Top \in Item
  BY <1>1, <1>2 DEF Top
<1> QED BY <1>2, <1>3 DEF Safe, ItemsOfSenders, Top, Item

\* The part about deleted messages survives if messages leave the list, and
\* those deleted are a friend's and leave it too.
LEMMA ListsShrink ==
  ASSUME Safe, log' = log, unread' \subseteq unread,
         NEW ms \in SUBSET unread, \A m \in ms : log[m].from # Sys,
         freed' = freed \cup ms, unread' \cap ms = {}
  PROVE  /\ unread' \subseteq 1..Len(log') /\ freed' \subseteq 1..Len(log')
         /\ SortsOfSenders' /\ (unread \cap freed = {})' /\ FreedFromFriends'
<1>1. unread \subseteq 1..Len(log) /\ freed \subseteq 1..Len(log)
  BY DEF Safe, TypeOK
<1> QED BY <1>1 DEF Safe, SortsOfSenders, FreedFromFriends

LEMMA ListsRest ==
  ASSUME Safe, log' = log, UNCHANGED listVars
  PROVE  /\ unread' \subseteq 1..Len(log') /\ freed' \subseteq 1..Len(log')
         /\ SortsOfSenders' /\ (unread \cap freed = {})' /\ FreedFromFriends'
BY DEF Safe, TypeOK, listVars, SortsOfSenders, FreedFromFriends

\* A message dealt with leaves the list, and nothing is deleted.
LEMMA FinishKeeps ==
  ASSUME Safe, NEW m, Finish(m), log' = log
  PROVE  /\ unread' \subseteq 1..Len(log') /\ freed' \subseteq 1..Len(log')
         /\ SortsOfSenders' /\ (unread \cap freed = {})' /\ FreedFromFriends'
         /\ processed' \subseteq 1..Len(log') /\ UNCHANGED freed
<1>1. unread' \subseteq unread /\ freed' = freed
  BY DEF Finish, RemoveLatest
<1>2. DOMAIN log = 1..Len(log)
  BY LenProperties DEF Safe, TypeOK
<1>3. processed' \subseteq 1..Len(log')
  BY <1>2 DEF Finish, SameSecond, Safe, TypeOK
<1> QED BY <1>1, <1>3, ListsShrink

LEMMA BoxesRest ==
  ASSUME Safe, log' = log, UNCHANGED boxes
  PROVE  BoxesOfSys'
BY DEF Safe, BoxesOfSys

\* While nothing is being read there is nothing to show for it.
LEMMA NotReading == ASSUME reading' = <<>> PROVE ReadWasShown'
BY DEF ReadWasShown

\* The latest message is a box's or a row's business.
LEMMA LatestOfSys ==
  ASSUME Safe, UnreadOf(Sys) # {}
  PROVE  Latest \in Msg /\ Latest \in 1..Len(log) /\ log[Latest].from = Sys
<1>1. Latest \in unread /\ log[Latest].from = Sys
  BY LatestIsUnread DEF Safe, UnreadOf
<1>2. Len(log) \in Nat /\ Len(log) <= MaxMsgs
  BY LenProperties DEF Safe, TypeOK
<1> QED BY <1>1, <1>2, Bounds DEF Safe, TypeOK, Msg

-----------------------------------------------------------------------------
(* Every action keeps the invariant.                                       *)

LEMMA SafeInit == Init => Safe
<1> SUFFICES ASSUME Init PROVE Safe
  OBVIOUS
<1>1. /\ <<>> \in Seq(Message) /\ <<>> \in Seq(Shown) /\ <<>> \in Seq(Frame)
      /\ <<>> \in Seq(Msg) /\ <<>> \in Seq(Item)
      /\ Len(<<>>) = 0 /\ DOMAIN <<>> = {}
  BY EmptySeq
<1>2. IInv
  BY Initially DEF Init
<1>3. 0 \in 0..MaxTime /\ 0 \in 0..MaxMsgs /\ 0 <= MaxMsgs /\ 0 \in 0..0
  BY Bounds
<1>4. Friend \subseteq Id
  BY DEF Friend
<1>5. TypeOK
  BY <1>1, <1>2, <1>3, <1>4 DEF Init, TypeOK, IInv, Shown
<1>6. ItemsOfSenders /\ SortsOfSenders /\ FreedFromFriends /\ BoxesOfSys
  BY <1>1 DEF Init, TrayInit, ItemsOfSenders, SortsOfSenders, FreedFromFriends,
              BoxesOfSys
<1>7. ReadWasShown /\ unread \cap freed = {}
  BY DEF Init, ReadWasShown
<1> QED BY <1>2, <1>5, <1>6, <1>7 DEF Safe

\* A new message changes nothing about the others.
LEMMA ReceiveStep ==
  ASSUME Safe, NEW a \in Id, NEW sort \in {"chat", "request", "notice"},
         sort = "chat" <=> a # Sys, Receive(a, sort)
  PROVE  Safe'
<1> DEFINE n == Len(log)
           new == [from |-> a, sort |-> sort, time |-> now]
<1> USE DEF Receive
<1>1. log \in Seq(Message) /\ n \in Nat /\ DOMAIN log = 1..n /\ n < MaxMsgs
  BY LenProperties DEF Safe, TypeOK
<1>2. new \in Message
  BY DEF Safe, TypeOK, Message
<1>3. /\ log' \in Seq(Message) /\ Len(log') = n + 1 /\ DOMAIN log' = 1..(n + 1)
      /\ log'[n + 1] = new /\ \A m \in 1..n : log'[m] = log[m]
  BY <1>1, <1>2, AppendProperties, LenProperties
<1>4. new.from = a /\ new.sort = sort
  OBVIOUS
<1>5. sending = 0 /\ sending' = n + 1
      /\ unread' \subseteq unread \cup {n + 1}
      /\ UNCHANGED <<now, friends, normal, viewVars, freed, sysVars, trayVars>>
  BY <1>3
<1> HIDE DEF n, new, Receive
<1>6. /\ \A m \in 1..(n + 1) : m = n + 1 \/ m \in 1..n
      /\ 1..n \subseteq 1..(n + 1) /\ n + 1 \notin 1..n /\ n + 1 \in 1..(n + 1)
      /\ n + 1 \in 0..(n + 1) /\ n + 1 <= MaxMsgs /\ 0 \notin 1..n
  BY <1>1, Bounds
<1>7. IInv' /\ ItemsOfSenders'
  BY <1>5, TrayRests DEF viewVars
<1>8. unread \subseteq 1..n /\ freed \subseteq 1..n /\ rows \subseteq 1..n
      /\ processed \subseteq 1..n
  BY DEF Safe, TypeOK, n
<1>9. TypeOK'
  <2>1. TrayTypeOK'
    BY <1>7 DEF IInv
  <2>2. unread' \subseteq 1..(n + 1) /\ freed' \subseteq 1..(n + 1)
        /\ rows' \subseteq 1..(n + 1) /\ processed' \subseteq 1..(n + 1)
    BY <1>5, <1>6, <1>8 DEF sysVars
  <2> QED BY <1>3, <1>5, <1>6, <2>1, <2>2 DEF Safe, TypeOK, viewVars, sysVars
<1>10. SortsOfSenders'
  BY <1>1, <1>3, <1>4, <1>6 DEF Safe, SortsOfSenders
<1>11. (unread \cap freed = {})' /\ FreedFromFriends'
  BY <1>3, <1>5, <1>6, <1>8 DEF Safe, FreedFromFriends
<1>12. BoxesOfSys'
  BY <1>3, <1>5, <1>6 DEF Safe, BoxesOfSys, sysVars, n
<1>13. ReadWasShown'
  <2> SUFFICES ASSUME reading' # <<>>, NEW m \in UnreadOf(reading[1])'
               PROVE  m = sending' \/ m \in Seen'
    BY DEF ReadWasShown
  <2>1. reading' = reading /\ Seen' = Seen /\ m \in unread' /\ log'[m].from = reading[1]
    BY <1>5 DEF viewVars, Seen, UnreadOf
  <2>2. CASE m \in unread
    BY <1>3, <1>5, <1>6, <1>8, <2>1, <2>2 DEF Safe, ReadWasShown, UnreadOf
  <2> QED BY <1>5, <2>1, <2>2
<1> QED BY <1>7, <1>9, <1>10, <1>11, <1>12, <1>13 DEF Safe

\* The number on an item and the flash.
LEMMA RemindFacts ==
  ASSUME Safe, NEW a \in Id, NEW kind \in {"chat", "sys"}, NEW ms \in SUBSET (1..Len(log)),
         Remind(a, kind, ms), listed \subseteq listed', log' = log,
         kind = "chat" => a # Sys, kind = "sys" => Sys \in listed'
  PROVE  /\ IInv' /\ ItemsOfSenders'
         /\ bubble' \in [Id -> 0..MaxMsgs]
<1>1. IInv' /\ ItemsOfSenders'
  <2>1. kind \in Kind /\ (kind = "chat" => a \in Friend)
    BY DEF Kind, Friend
  <2> QED BY <2>1, TrayFlashes DEF Remind
<1>2. bubble \in [Id -> 0..MaxMsgs]
  BY DEF Safe, TypeOK
<1>3. Cardinality({m \in ms : log[m].from = a}) \in 0..MaxMsgs
  BY CountIsBounded DEF Safe
<1>4. bubble' \in [Id -> 0..MaxMsgs]
  BY <1>2, <1>3 DEF Remind
<1> QED BY <1>1, <1>4

\* The sender of the message that is being delivered.
LEMMA SendingFacts ==
  ASSUME Safe, sending # 0
  PROVE  /\ sending \in 1..Len(log) /\ log[sending].from \in Id
         /\ log[sending].sort = "chat" => log[sending].from \in Friend
         /\ 0 \in 0..Len(log)
<1>1. Len(log) \in Nat /\ DOMAIN log = 1..Len(log) /\ log \in Seq(Message)
  BY LenProperties DEF Safe, TypeOK
<1>2. sending \in 1..Len(log) /\ 0 \in 0..Len(log)
  BY <1>1 DEF Safe, TypeOK
<1>3. log[sending] \in Message
  BY <1>1, <1>2
<1> QED BY <1>1, <1>2, <1>3 DEF Message, Friend, Safe, SortsOfSenders

LEMMA DeliverToOpenChatStep == Safe /\ DeliverToOpenChat => Safe'
<1> SUFFICES ASSUME Safe, DeliverToOpenChat PROVE Safe'
  OBVIOUS
<1> DEFINE a == log[sending].from
           ms == UnreadOf(a)
<1>1. /\ reading = <<>> /\ sending # 0 /\ log[sending].sort = "chat" /\ sel = a
      /\ Show(ms, sel)
      /\ unread' = unread \ ms /\ freed' = freed \cup ms
      /\ UNCHANGED <<listed, sel, reading>>
      /\ UNCHANGED <<bubble, trayVars>> \/ Remind(a, "chat", unread')
      /\ sending' = 0
      /\ UNCHANGED <<envVars, sysVars>>
  BY DEF DeliverToOpenChat, Pumping
<1>2. a \in Friend /\ a \in Id /\ 0 \in 0..Len(log)
  BY <1>1, SendingFacts
<1>3. ms \in SUBSET unread /\ \A m \in ms : log[m].from = a
  BY DEF UnreadOf
<1> HIDE DEF ms, a
<1>4. unread \subseteq 1..Len(log) /\ log' = log
  BY <1>1 DEF Safe, TypeOK, envVars
<1>5. shown' \in Seq(Shown)
  BY <1>1, <1>2, <1>3, <1>4, ShowShows DEF Safe
<1>6. /\ unread' \subseteq 1..Len(log') /\ freed' \subseteq 1..Len(log')
      /\ SortsOfSenders' /\ (unread \cap freed = {})' /\ FreedFromFriends'
  <2>1. \A m \in ms : log[m].from # Sys
    BY <1>2, <1>3 DEF Friend
  <2>2. unread' \subseteq unread /\ unread' \cap ms = {}
    BY <1>1
  <2> QED BY <1>1, <1>3, <1>4, <2>1, <2>2, ListsShrink
<1>7. IInv' /\ ItemsOfSenders' /\ bubble' \in [Id -> 0..MaxMsgs]
  <2>1. CASE UNCHANGED <<bubble, trayVars>>
    BY <1>1, <2>1, TrayRests DEF Safe, TypeOK
  <2>2. CASE Remind(a, "chat", unread')
    <3>1. unread' \in SUBSET (1..Len(log)) /\ a # Sys
      BY <1>2, <1>4, <1>6 DEF Friend
    <3> QED BY <1>1, <1>2, <1>4, <2>2, <3>1, RemindFacts
  <2> QED BY <1>1, <2>1, <2>2
<1>8. TypeOK'
  <2>1. TrayTypeOK'
    BY <1>7 DEF IInv
  <2> QED BY <1>1, <1>2, <1>4, <1>5, <1>6, <1>7, <2>1
        DEF Safe, TypeOK, envVars, sysVars, Shown
<1>9. BoxesOfSys' /\ ReadWasShown'
  BY <1>1, <1>4, BoxesRest, NotReading DEF sysVars
<1> QED BY <1>6, <1>7, <1>8, <1>9 DEF Safe

LEMMA DeliverElsewhereStep == Safe /\ (DeliverToOtherChat \/ DeliverSys) => Safe'
<1> SUFFICES ASSUME Safe, DeliverToOtherChat \/ DeliverSys PROVE Safe'
  OBVIOUS
<1> DEFINE a == log[sending].from
<1>1. /\ reading = <<>> /\ sending # 0 /\ sending' = 0
      /\ UNCHANGED <<envVars, listVars, sel, shown, reading>>
      /\ UNCHANGED <<boxes, answers, processed>>
  BY DEF DeliverToOtherChat, DeliverSys, Pumping, sysVars
<1>2. /\ sending \in 1..Len(log) /\ a \in Id /\ 0 \in 0..Len(log)
      /\ log[sending].sort = "chat" => a \in Friend
  BY <1>1, SendingFacts
<1> HIDE DEF a
<1>3. unread \in SUBSET (1..Len(log)) /\ log' = log
  BY <1>1 DEF Safe, TypeOK, envVars
<1>4. /\ IInv' /\ ItemsOfSenders' /\ bubble' \in [Id -> 0..MaxMsgs]
      /\ listed \subseteq listed' /\ listed' \subseteq Id
      /\ rows' \subseteq 1..Len(log)
  <2>1. CASE DeliverToOtherChat
    <3>1. Remind(a, "chat", unread) /\ a # Sys
          /\ listed \subseteq listed' /\ listed' \subseteq Id /\ rows' = rows
      BY <1>2, <2>1 DEF DeliverToOtherChat, a, Friend, Safe, TypeOK, sysVars
    <3> QED BY <1>2, <1>3, <3>1, RemindFacts DEF Safe, TypeOK
  <2>2. CASE DeliverSys
    <3>1. Remind(Sys, "sys", unread) /\ Sys \in listed'
          /\ listed \subseteq listed' /\ listed' \subseteq Id
          /\ rows' \subseteq rows \cup {sending}
      BY <2>2, Accounts DEF DeliverSys, Safe, TypeOK
    <3> QED BY <1>2, <1>3, <3>1, Accounts, RemindFacts DEF Safe, TypeOK
  <2> QED BY <2>1, <2>2
<1>5. /\ unread' \subseteq 1..Len(log') /\ freed' \subseteq 1..Len(log')
      /\ SortsOfSenders' /\ (unread \cap freed = {})' /\ FreedFromFriends'
  BY <1>1, <1>3, ListsRest
<1>6. TypeOK'
  <2>1. TrayTypeOK'
    BY <1>4 DEF IInv
  <2> QED BY <1>1, <1>2, <1>3, <1>4, <1>5, <2>1 DEF Safe, TypeOK, envVars
<1>7. BoxesOfSys' /\ ReadWasShown'
  BY <1>1, <1>3, BoxesRest, NotReading
<1> QED BY <1>4, <1>5, <1>6, <1>7 DEF Safe

\* Reading the messages of an account: they are shown before they are deleted.
LEMMA ReadFacts ==
  ASSUME Safe, NEW a \in Friend, NEW chat \in Id \cup {Nobody},
         Show(UnreadOf(a), chat), reading' = <<a>>, UNCHANGED <<log, unread>>
  PROVE  shown' \in Seq(Shown) /\ ReadWasShown'
<1> DEFINE ms == UnreadOf(a)
<1>1. ms \in SUBSET (1..Len(log)) /\ TypeOK
  BY DEF Safe, TypeOK, UnreadOf
<1>2. ms' = ms /\ UnreadOf(reading[1])' = ms
  BY DEF UnreadOf
<1> HIDE DEF ms
<1>3. shown' \in Seq(Shown) /\ Seen' = Seen \cup ms
  BY <1>1, ShowShows DEF ms
<1> QED BY <1>2, <1>3 DEF ReadWasShown

LEMMA SelectChatStep == ASSUME Safe, NEW a \in Friend, SelectChat(a) PROVE Safe'
<1>1. /\ reading = <<>> /\ a \in listed
      /\ sel' = a /\ bubble' = [bubble EXCEPT ![a] = 0]
      /\ UNCHANGED <<envVars, sending, listVars, listed, sysVars, trayVars>>
  BY DEF SelectChat, Pumping
<1>2. log' = log /\ unread' = unread /\ a \in Id
  BY <1>1 DEF envVars, listVars, Friend
<1>3. shown' \in Seq(Shown) /\ ReadWasShown' /\ reading' \in {<<>>, <<a>>}
  <2>1. CASE Show(UnreadOf(a), a) /\ reading' = <<a>>
    BY <1>2, <2>1, ReadFacts
  <2>2. CASE UNCHANGED <<shown, reading>>
    BY <1>1, <2>2, NotReading DEF Safe, TypeOK, Shown
  <2> QED BY <2>1, <2>2 DEF SelectChat
<1>4. IInv' /\ ItemsOfSenders'
  BY <1>1, TrayRests
<1>5. /\ unread' \subseteq 1..Len(log') /\ freed' \subseteq 1..Len(log')
      /\ SortsOfSenders' /\ (unread \cap freed = {})' /\ FreedFromFriends'
  BY <1>1, <1>2, ListsRest
<1>6. TypeOK'
  <2>1. TrayTypeOK' /\ 0 \in 0..MaxMsgs
    BY <1>4, Bounds DEF IInv
  <2> QED BY <1>1, <1>2, <1>3, <1>5, <2>1 DEF Safe, TypeOK, envVars, sysVars, Shown
<1>7. BoxesOfSys'
  BY <1>1, <1>2, BoxesRest DEF sysVars
<1> QED BY <1>3, <1>4, <1>5, <1>6, <1>7 DEF Safe

LEMMA TrayChatStep == Safe /\ TrayChat => Safe'
<1> SUFFICES ASSUME Safe, TrayChat PROVE Safe'
  OBVIOUS
<1> DEFINE a == Top.id
<1>1. /\ reading = <<>> /\ flashing /\ Top.kind = "chat"
      /\ \/ a \in listed /\ bubble' = [bubble EXCEPT ![a] = 0] /\ sel' = a
         \/ UNCHANGED <<bubble, sel>>
      /\ Show(UnreadOf(a), sel') /\ reading' = <<a>>
      /\ UNCHANGED <<envVars, sending, listVars, listed, sysVars, trayVars>>
  BY DEF TrayChat, Pumping
<1>2. a \in Friend /\ a \in Id
  BY <1>1, TopIsItem
<1> HIDE DEF a
<1>3. log' = log /\ unread' = unread
  BY <1>1 DEF envVars, listVars
<1>4. sel' \in listed \cup {Nobody} /\ listed \subseteq Id /\ 0 \in 0..MaxMsgs
      /\ bubble' \in [Id -> 0..MaxMsgs]
  BY <1>1, Bounds DEF Safe, TypeOK
<1>5. shown' \in Seq(Shown) /\ ReadWasShown'
  <2>1. sel' \in Id \cup {Nobody}
    BY <1>4
  <2> QED BY <1>1, <1>2, <1>3, <2>1, ReadFacts
<1>6. IInv' /\ ItemsOfSenders'
  BY <1>1, TrayRests
<1>7. /\ unread' \subseteq 1..Len(log') /\ freed' \subseteq 1..Len(log')
      /\ SortsOfSenders' /\ (unread \cap freed = {})' /\ FreedFromFriends'
  BY <1>1, <1>3, ListsRest
<1>8. TypeOK'
  <2>1. TrayTypeOK'
    BY <1>6 DEF IInv
  <2> QED BY <1>1, <1>2, <1>3, <1>4, <1>5, <1>7, <2>1
        DEF Safe, TypeOK, envVars, sysVars, Shown
<1>9. BoxesOfSys'
  BY <1>1, <1>3, BoxesRest DEF sysVars
<1> QED BY <1>5, <1>6, <1>7, <1>8, <1>9 DEF Safe

LEMMA ClearStep == Safe /\ Clear => Safe'
<1> SUFFICES ASSUME Safe, Clear PROVE Safe'
  OBVIOUS
<1> DEFINE a == reading[1]
           ms == UnreadOf(a)
<1>1. /\ reading # <<>> /\ reading' = <<>>
      /\ unread' = unread \ ms /\ freed' = freed \cup ms /\ StopFlash(a)
      /\ UNCHANGED <<envVars, sending, listed, sel, bubble, shown, sysVars>>
  BY DEF Clear
<1>2. a \in Friend /\ a \in Id
  BY <1>1 DEF Safe, TypeOK, Friend
<1>3. ms \in SUBSET unread /\ \A m \in ms : log[m].from # Sys
  BY <1>2 DEF UnreadOf, Friend
<1> HIDE DEF a, ms
<1>4. log' = log
  BY <1>1 DEF envVars
<1>5. /\ unread' \subseteq 1..Len(log') /\ freed' \subseteq 1..Len(log')
      /\ SortsOfSenders' /\ (unread \cap freed = {})' /\ FreedFromFriends'
  <2>1. unread' \subseteq unread /\ unread' \cap ms = {}
    BY <1>1
  <2> QED BY <1>1, <1>3, <1>4, <2>1, ListsShrink
<1>6. IInv' /\ ItemsOfSenders'
  BY <1>1, <1>2, TrayStops
<1>7. TypeOK'
  <2>1. TrayTypeOK'
    BY <1>6 DEF IInv
  <2> QED BY <1>1, <1>4, <1>5, <2>1 DEF Safe, TypeOK, envVars, sysVars
<1>8. BoxesOfSys' /\ ReadWasShown'
  BY <1>1, <1>4, BoxesRest, NotReading DEF sysVars
<1> QED BY <1>5, <1>6, <1>7, <1>8 DEF Safe

LEMMA SelectSysStep == Safe /\ SelectSys => Safe'
<1> SUFFICES ASSUME Safe, SelectSys PROVE Safe'
  OBVIOUS
<1>1. /\ reading = <<>> /\ Sys \in listed /\ sel' = Sys /\ StopFlash(Sys)
      /\ bubble' = [bubble EXCEPT ![Sys] = IF Count(Sys) > 0 THEN 0 ELSE @]
      /\ UNCHANGED <<envVars, sending, listVars, listed, shown, reading, sysVars>>
  BY DEF SelectSys, Pumping
<1>2. log' = log /\ 0 \in 0..MaxMsgs
  BY <1>1, Bounds DEF envVars
<1>3. bubble' \in [Id -> 0..MaxMsgs]
  BY <1>1, <1>2, Accounts DEF Safe, TypeOK
<1>4. IInv' /\ ItemsOfSenders'
  BY <1>1, Accounts, TrayStops
<1>5. /\ unread' \subseteq 1..Len(log') /\ freed' \subseteq 1..Len(log')
      /\ SortsOfSenders' /\ (unread \cap freed = {})' /\ FreedFromFriends'
  BY <1>1, <1>2, ListsRest
<1>6. TypeOK'
  <2>1. TrayTypeOK'
    BY <1>4 DEF IInv
  <2> QED BY <1>1, <1>2, <1>3, <1>5, <2>1 DEF Safe, TypeOK, envVars, sysVars
<1>7. BoxesOfSys' /\ ReadWasShown'
  BY <1>1, <1>2, BoxesRest, NotReading DEF sysVars
<1> QED BY <1>4, <1>5, <1>6, <1>7 DEF Safe

\* The roster, the window and the clock.
LEMMA SurroundingsStep ==
  ASSUME Safe, Minimise \/ Tick \/ \E a \in Friend : RosterItem(a)
  PROVE  Safe'
<1>1. /\ now' \in 0..MaxTime /\ log' = log /\ friends' \subseteq Friend
      /\ normal' \in BOOLEAN
      /\ UNCHANGED <<sending, listVars, viewVars, sysVars, trayVars>>
  <2>1. CASE Minimise \/ \E a \in Friend : RosterItem(a)
    BY <2>1 DEF Minimise, RosterItem, Safe, TypeOK
  <2>2. CASE Tick
    <3>1. now \in 0..MaxTime /\ now < MaxTime /\ now' = now + 1
      BY <2>2 DEF Tick, Safe, TypeOK
    <3>2. now' \in 0..MaxTime
      BY <3>1, Bounds
    <3> QED BY <2>2, <3>2 DEF Tick, Safe, TypeOK
  <2> QED BY <2>1, <2>2
<1>2. IInv' /\ ItemsOfSenders'
  BY <1>1, TrayRests DEF viewVars
<1>3. /\ unread' \subseteq 1..Len(log') /\ freed' \subseteq 1..Len(log')
      /\ SortsOfSenders' /\ (unread \cap freed = {})' /\ FreedFromFriends'
  BY <1>1, ListsRest
<1>4. TypeOK'
  <2>1. TrayTypeOK'
    BY <1>2 DEF IInv
  <2> QED BY <1>1, <1>3, <2>1 DEF Safe, TypeOK, viewVars, sysVars
<1>5. BoxesOfSys'
  BY <1>1, BoxesRest DEF sysVars
<1>6. ReadWasShown'
  BY <1>1 DEF Safe, ReadWasShown, UnreadOf, Seen, viewVars, listVars
<1> QED BY <1>2, <1>3, <1>4, <1>5, <1>6 DEF Safe

\* What the actions that deal with system messages have in common: a message
\* may be dealt with, nothing is deleted, and the boxes stay about messages of
\* the system account.
LEMMA SysStep ==
  ASSUME Safe, log' = log, UNCHANGED <<envVars, sending, listed, shown>>,
         reading = <<>>, reading' = <<>>,
         UNCHANGED <<listVars, processed>> \/ \E m : Finish(m),
         IInv', ItemsOfSenders', BoxesOfSys',
         sel' \in listed \cup {Nobody}, bubble' \in [Id -> 0..MaxMsgs],
         boxes' \in Seq(Frame), rows' \subseteq 1..Len(log), answers' \in Seq(Msg)
  PROVE  Safe'
<1>1. /\ unread' \subseteq 1..Len(log') /\ freed' \subseteq 1..Len(log')
      /\ SortsOfSenders' /\ (unread \cap freed = {})' /\ FreedFromFriends'
      /\ processed' \subseteq 1..Len(log')
  <2>1. CASE UNCHANGED <<listVars, processed>>
    BY <2>1, ListsRest DEF Safe, TypeOK
  <2>2. CASE \E m : Finish(m)
    BY <2>2, FinishKeeps
  <2> QED BY <2>1, <2>2
<1>2. TypeOK'
  <2>1. TrayTypeOK'
    BY DEF IInv
  <2> QED BY <1>1, <2>1 DEF Safe, TypeOK, envVars
<1>3. ReadWasShown'
  BY NotReading
<1> QED BY <1>1, <1>2, <1>3 DEF Safe

\* A box more, or the innermost one less.
LEMMA BoxOpens ==
  ASSUME Safe, log' = log, NEW box \in Frame, boxes' = Append(boxes, box),
         box.sort = "request" => box.msg \in 1..Len(log) /\ log[box.msg].from = Sys
  PROVE  boxes' \in Seq(Frame) /\ BoxesOfSys'
<1> DEFINE n == Len(boxes)
<1>1. boxes \in Seq(Frame) /\ n \in Nat /\ DOMAIN boxes = 1..n
  BY LenProperties DEF Safe, TypeOK
<1>2. /\ boxes' \in Seq(Frame) /\ DOMAIN boxes' = 1..(n + 1)
      /\ boxes'[n + 1] = box /\ \A i \in 1..n : boxes'[i] = boxes[i]
  BY <1>1, AppendProperties, LenProperties
<1>3. \A i \in 1..(n + 1) : i = n + 1 \/ i \in 1..n
  BY <1>1
<1> HIDE DEF n
<1>4. BoxesOfSys'
  BY <1>1, <1>2, <1>3 DEF Safe, BoxesOfSys
<1> QED BY <1>2, <1>4

LEMMA BoxCloses ==
  ASSUME Safe, log' = log, boxes # <<>>, boxes' = Front(boxes)
  PROVE  boxes' \in Seq(Frame) /\ BoxesOfSys'
<1> DEFINE n == Len(boxes)
<1>1. boxes \in Seq(Frame) /\ n \in Nat \ {0} /\ DOMAIN boxes = 1..n
  BY LenProperties, EmptySeq DEF Safe, TypeOK
<1>2. \A i \in 1..(n - 1) : boxes[i] \in Frame /\ i \in 1..n /\ 1 + i - 1 = i
  BY <1>1
<1>3. 1 \in Int /\ n - 1 \in Int /\ (n - 1) - 1 + 1 = n - 1
      /\ (IF 1 <= n - 1 THEN (n - 1) - 1 + 1 ELSE 0) = n - 1
  BY <1>1
<1>4. /\ boxes' \in Seq(Frame) /\ Len(boxes') = n - 1
      /\ \A i \in 1..(n - 1) : boxes'[i] = boxes[i]
  <2>1. boxes' = SubSeq(boxes, 1, n - 1)
    BY DEF Front
  <2> HIDE DEF n
  <2> QED BY <1>2, <1>3, <2>1, SubSeqProperties
<1>5. DOMAIN boxes' = 1..(n - 1)
  BY <1>4, LenProperties
<1> HIDE DEF n
<1>6. BoxesOfSys'
  BY <1>1, <1>2, <1>4, <1>5 DEF Safe, BoxesOfSys
<1> QED BY <1>4, <1>6

LEMMA BoxesWait ==
  ASSUME Safe, log' = log, UNCHANGED boxes
  PROVE  boxes' \in Seq(Frame) /\ BoxesOfSys'
BY BoxesRest DEF Safe, TypeOK

LEMMA TraySysStep == Safe /\ TraySys => Safe'
<1> SUFFICES ASSUME Safe, TraySys PROVE Safe'
  OBVIOUS
<1>1. /\ reading = <<>> /\ flashing /\ Top.kind = "sys" /\ StopFlash(Sys) /\ sel' = Sys
      /\ bubble' = [bubble EXCEPT ![Sys] = IF Count(Sys) = 0 THEN @
                                           ELSE IF sel = Sys THEN Count(Sys) - 1 ELSE 0]
      /\ UNCHANGED <<envVars, sending, listed, shown, reading>>
  BY DEF TraySys, Pumping
<1>2. log' = log
  BY <1>1 DEF envVars
<1>3. Sys \in listed
  BY <1>1, TopIsItem
<1>4. IInv' /\ ItemsOfSenders'
  BY <1>1, Accounts, TrayStops
<1>5. bubble' \in [Id -> 0..MaxMsgs]
  <2>1. unread \in SUBSET (1..Len(log))
    BY DEF Safe, TypeOK
  <2>2. Count(Sys) \in 0..MaxMsgs
    BY <2>1, CountIsBounded DEF Count, UnreadOf, Safe
  <2>3. 0 \in 0..MaxMsgs /\ (Count(Sys) # 0 => Count(Sys) - 1 \in 0..MaxMsgs)
    BY <2>2, Bounds
  <2> QED BY <1>1, <2>3, Accounts DEF Safe, TypeOK
<1>6. CASE /\ UnreadOf(Sys) # {}
           /\ boxes' = Append(boxes, [sort |-> "request", msg |-> Latest])
           /\ UNCHANGED <<listVars, rows, answers, processed>>
  <2>1. Latest \in Msg /\ Latest \in 1..Len(log) /\ log[Latest].from = Sys
    BY <1>6, LatestOfSys
  <2> HIDE DEF Latest
  <2>2. [sort |-> "request", msg |-> Latest] \in Frame
    BY <2>1 DEF Frame
  <2>3. boxes' \in Seq(Frame) /\ BoxesOfSys'
    BY <1>2, <1>6, <2>1, <2>2, BoxOpens
  <2> QED BY <1>1, <1>2, <1>3, <1>4, <1>5, <1>6, <2>3, SysStep DEF Safe, TypeOK
<1>7. CASE UnreadOf(Sys) # {} /\ Finish(Latest) /\ UNCHANGED <<boxes, rows, answers>>
  BY <1>1, <1>2, <1>3, <1>4, <1>5, <1>7, BoxesWait, SysStep DEF Safe, TypeOK
<1>8. CASE UNCHANGED <<listVars, sysVars>>
  BY <1>1, <1>2, <1>3, <1>4, <1>5, <1>8, BoxesWait, SysStep
     DEF Safe, TypeOK, sysVars
<1> QED BY <1>6, <1>7, <1>8 DEF TraySys

LEMMA CallStep ==
  ASSUME Safe, TrayCall \/ \E a \in Friend : IncomingCall(a)
  PROVE  Safe'
<1>1. CASE TrayCall
  <2>1. /\ reading = <<>> /\ flashing /\ StopFlash(Top.id)
        /\ UNCHANGED <<envVars, sending, listVars, viewVars, sysVars>>
    BY <1>1 DEF TrayCall, StopTop, Pumping
  <2>2. log' = log /\ Top.id \in Id
    BY <2>1, TopIsItem DEF envVars
  <2>3. IInv' /\ ItemsOfSenders'
    BY <2>1, <2>2, TrayStops DEF viewVars
  <2> QED BY <2>1, <2>2, <2>3, BoxesWait, SysStep
        DEF Safe, TypeOK, viewVars, sysVars
<1>2. ASSUME NEW a \in Friend, IncomingCall(a) PROVE Safe'
  <2>1. /\ reading = <<>> /\ Flash("call", a)
        /\ boxes' = Append(boxes, [sort |-> "call", id |-> a])
        /\ UNCHANGED <<envVars, sending, listVars, viewVars, rows, answers, processed>>
    BY <1>2 DEF IncomingCall, Pumping
  <2>2. log' = log /\ a \in Id
    BY <2>1 DEF envVars, Friend
  <2>3. IInv' /\ ItemsOfSenders'
    BY <2>1, <2>2, TrayFlashes DEF viewVars, Kind
  <2>4. [sort |-> "call", id |-> a] \in Frame
    BY DEF Frame
  <2>5. boxes' \in Seq(Frame) /\ BoxesOfSys'
    BY <2>1, <2>2, <2>4, BoxOpens
  <2> QED BY <2>1, <2>2, <2>3, <2>5, SysStep DEF Safe, TypeOK, viewVars
<1> QED BY <1>1, <1>2

LEMMA ReturnStep == Safe /\ Return => Safe'
<1> SUFFICES ASSUME Safe, Return PROVE Safe'
  OBVIOUS
<1>1. /\ reading = <<>> /\ boxes # <<>> /\ boxes' = Front(boxes)
      /\ UNCHANGED <<envVars, sending, viewVars>>
  BY DEF Return, Pumping
<1>2. log' = log
  BY <1>1 DEF envVars
<1>3. boxes' \in Seq(Frame) /\ BoxesOfSys'
  BY <1>1, <1>2, BoxCloses
<1>4. Last(boxes) \in Frame
  <2>1. boxes \in Seq(Frame) /\ Len(boxes) \in 1..Len(boxes)
    BY <1>1, EmptySeq DEF Safe, TypeOK
  <2> QED BY <2>1 DEF Last
<1>5. CASE /\ Last(boxes).sort = "request"
           /\ answers' = Append(answers, Last(boxes).msg)
           /\ Finish(Last(boxes).msg)
           /\ rows' = rows \ {Last(boxes).msg}
           /\ UNCHANGED trayVars
  <2>1. Last(boxes).msg \in Msg
    BY <1>4, <1>5 DEF Frame
  <2>2. answers' \in Seq(Msg)
    BY <1>5, <2>1, AppendProperties DEF Safe, TypeOK
  <2>3. IInv' /\ ItemsOfSenders'
    BY <1>1, <1>5, TrayRests DEF viewVars
  <2> QED BY <1>1, <1>2, <1>3, <1>5, <2>2, <2>3, SysStep DEF Safe, TypeOK, viewVars
<1>6. CASE /\ Last(boxes).sort = "call"
           /\ StopFlash(Last(boxes).id)
           /\ UNCHANGED <<listVars, rows, answers, processed>>
  <2>1. Last(boxes).id \in Id
    BY <1>4, <1>6 DEF Frame, Friend
  <2>2. IInv' /\ ItemsOfSenders'
    BY <1>1, <1>6, <2>1, TrayStops DEF viewVars
  <2> QED BY <1>1, <1>2, <1>3, <1>6, <2>2, SysStep DEF Safe, TypeOK, viewVars
<1> QED BY <1>5, <1>6 DEF Return

LEMMA ClickRowStep == ASSUME Safe, NEW r \in rows, ClickRow(r) PROVE Safe'
<1>1. /\ reading = <<>> /\ rows' = rows \ {r}
      /\ UNCHANGED <<envVars, sending, viewVars, boxes>>
  BY DEF ClickRow, Pumping
<1>2. log' = log
  BY <1>1 DEF envVars
<1>3. boxes' \in Seq(Frame) /\ BoxesOfSys'
  BY <1>1, <1>2, BoxesWait
<1>4. CASE /\ UnreadOf(Sys) # {}
           /\ answers' = IF log[Latest].sort = "request"
                         THEN Append(answers, Latest) ELSE answers
           /\ Finish(Latest)
           /\ StopFlash(Sys)
  <2>1. Latest \in Msg
    BY <1>4, LatestOfSys
  <2> HIDE DEF Latest
  <2>2. answers \in Seq(Msg) /\ Append(answers, Latest) \in Seq(Msg)
    BY <2>1, AppendProperties DEF Safe, TypeOK
  <2>3. answers' \in Seq(Msg)
    BY <1>4, <2>2
  <2>4. IInv' /\ ItemsOfSenders'
    BY <1>1, <1>4, Accounts, TrayStops DEF viewVars
  <2> QED BY <1>1, <1>2, <1>3, <1>4, <2>3, <2>4, SysStep DEF Safe, TypeOK, viewVars
<1>5. CASE UNCHANGED <<listVars, answers, processed, trayVars>>
  <2>1. IInv' /\ ItemsOfSenders'
    BY <1>1, <1>5, TrayRests DEF viewVars
  <2> QED BY <1>1, <1>2, <1>3, <1>5, <2>1, SysStep DEF Safe, TypeOK, viewVars
<1> QED BY <1>4, <1>5 DEF ClickRow

LEMMA UnchangedStep == Safe /\ UNCHANGED vars => Safe'
<1> SUFFICES ASSUME Safe, UNCHANGED vars PROVE Safe'
  OBVIOUS
<1>1. IInv' /\ ItemsOfSenders'
  BY TrayRests DEF vars
<1>2. TypeOK'
  <2>1. TrayTypeOK'
    BY <1>1 DEF IInv
  <2> QED BY <2>1 DEF Safe, TypeOK, vars
<1> QED BY <1>1, <1>2 DEF Safe, vars, SortsOfSenders, FreedFromFriends, BoxesOfSys,
                         ReadWasShown, UnreadOf, Seen

LEMMA SafeStep == Safe /\ [Next]_vars => Safe'
<1> SUFFICES ASSUME Safe, [Next]_vars PROVE Safe'
  OBVIOUS
<1>1. CASE ReceiveAny
  BY <1>1, Accounts, ReceiveStep DEF ReceiveAny, Friend
<1>2. CASE Deliver
  BY <1>2, DeliverToOpenChatStep, DeliverElsewhereStep DEF Deliver
<1>3. CASE Clear
  BY <1>3, ClearStep
<1>4. CASE User
  BY <1>4, SelectChatStep, SelectSysStep, SurroundingsStep, TrayChatStep,
     TraySysStep, CallStep, ReturnStep, ClickRowStep DEF User
<1>5. CASE Tick
  BY <1>5, SurroundingsStep
<1>6. CASE UNCHANGED vars
  BY <1>6, UnchangedStep
<1> QED BY <1>1, <1>2, <1>3, <1>4, <1>5, <1>6 DEF Next

-----------------------------------------------------------------------------
\* The invariant holds in every behaviour of the inbox.
THEOREM SafeAlways == Spec => []Safe
BY SafeInit, SafeStep, PTL DEF Spec

\* Every variable has its type, in any run of any length.
THEOREM InboxTypes == Spec => []TypeOK
BY SafeAlways, PTL DEF Safe

\* The tray keeps its promise in the hands of its client: the timer never
\* looks at an empty stack (TrayMgr.cpp:297).
THEOREM InboxFlashes == Spec => []FlashesWhileStacked
BY SafeAlways, PTL DEF Safe, IInv

\* A box never holds a deleted message, nor does the list
\* (mainDlg.cpp:4484-4512).
THEOREM NoDanglingBox == Spec => []HeldMessagesLive
<1>1. Safe => HeldMessagesLive
  BY DEF Safe, FreedFromFriends, BoxesOfSys, HeldMessagesLive
<1> QED BY <1>1, SafeAlways, PTL

\* Deleting a message unseen takes the one race between push_back and
\* SendMessage (MsgCenterModuleImpl.cpp:109-123).
THEOREM LosesOne == Spec => LosesAtMostTheOneInFlight
<1> DEFINE Lost == (freed' \ freed) \ {shown'[i].msg : i \in DOMAIN shown'}
<1>1. ASSUME Safe, [Next]_vars PROVE [Lost \subseteq {sending}]_vars
  <2>1. CASE freed' = freed
    BY <2>1
  <2>2. CASE Clear
    <3>1. /\ freed' = freed \cup UnreadOf(reading[1]) /\ reading # <<>>
          /\ shown' = shown
      BY <2>2 DEF Clear
    <3> QED BY <1>1, <3>1 DEF Safe, ReadWasShown, Seen
  <2>3. CASE DeliverToOpenChat
    <3> DEFINE ms == UnreadOf(log[sending].from)
    <3>1. sending # 0 /\ Show(ms, sel) /\ freed' = freed \cup ms
      BY <2>3 DEF DeliverToOpenChat
    <3>2. ms \in SUBSET (1..Len(log)) /\ sel \in Id \cup {Nobody}
      BY <1>1 DEF Safe, TypeOK, UnreadOf
    <3> HIDE DEF ms
    <3>3. Seen' = Seen \cup ms
      BY <1>1, <3>1, <3>2, ShowShows DEF Safe
    <3> QED BY <3>1, <3>3 DEF Seen
  <2>4. freed' = freed \/ Clear \/ DeliverToOpenChat
    BY <1>1 DEF Next, ReceiveAny, Receive, Deliver, DeliverToOtherChat, DeliverSys,
                User, RosterItem, SelectChat, SelectSys, Minimise, TrayChat, TraySys,
                TrayCall, IncomingCall, Return, ClickRow, Tick, Finish, RemoveLatest,
                listVars, vars
  <2> QED BY <2>1, <2>2, <2>3, <2>4
<1> QED BY <1>1, SafeAlways, PTL DEF Spec, LosesAtMostTheOneInFlight


-----------------------------------------------------------------------------
(* Order and numbers.  What was shown of a friend came before whatever waits *)
(* of him, so the next reading goes on where the last one ended; an item has *)
(* a number exactly when the reading that a click starts is wanted.          *)

ShownOfFriends ==
  \A i \in DOMAIN shown :
    /\ shown[i].msg \in 1..Len(log)
    /\ log[shown[i].msg].from \in Friend

ShownFirst ==
  \A i \in DOMAIN shown : \A m \in unread :
    log[m].from = log[shown[i].msg].from
      => shown[i].msg < m \/ reading = <<log[m].from>>

\* The open chat, the one being read and those without an item have no number.
NumbersAreWanted ==
  \A a \in Friend : (a \notin listed \/ sel = a \/ reading = <<a>>) => bubble[a] = 0

SendingIsNewest == sending # 0 => sending = Len(log)

Ordered == ShownOfFriends /\ ShownInOrderOnce /\ ShownFirst

Numbered == UnreadHasBubble /\ NumbersAreWanted

Orderly == Ordered /\ Numbered /\ SendingIsNewest

\* A step that leaves alone what concerns friends.
Quiet ==
  /\ UNCHANGED <<log, shown, reading>>
  /\ \A a \in Friend :
       /\ UnreadOf(a)' = UnreadOf(a)
       /\ bubble'[a] = bubble[a]
       /\ a \in listed' <=> a \in listed
       /\ sel' = a => sel = a
  /\ sending' = sending \/ (sending' = 0 /\ (sending # 0 => log[sending].from = Sys))

\* A message that waits in the list has a sender.
LEMMA UnreadFacts ==
  ASSUME Safe
  PROVE  /\ Len(log) \in Nat /\ DOMAIN log = 1..Len(log)
         /\ unread \subseteq 1..Len(log)
         /\ \A m \in 1..Len(log) : log[m].from \in Id
         /\ \A a : UnreadOf(a) \in SUBSET (1..Len(log))
<1>1. log \in Seq(Message) /\ unread \subseteq 1..Len(log)
  BY DEF Safe, TypeOK
<1>2. Len(log) \in Nat /\ DOMAIN log = 1..Len(log)
  BY <1>1, LenProperties
<1>3. \A m \in 1..Len(log) : log[m] \in Message
  BY <1>1
<1> QED BY <1>1, <1>2, <1>3 DEF Message, UnreadOf

LEMMA QuietStep ==
  ASSUME Safe, Orderly, Quiet
  PROVE  Orderly'
<1>1. \A m \in unread' : log[m].from \in Friend => m \in unread
  BY DEF Quiet, UnreadOf
<1>2. ShownOfFriends' /\ ShownInOrderOnce'
  BY DEF Orderly, Ordered, Quiet, ShownOfFriends, ShownInOrderOnce
<1>3. ShownFirst'
  BY <1>1 DEF Orderly, Ordered, Quiet, ShownOfFriends, ShownFirst
<1>4. NumbersAreWanted'
  BY DEF Orderly, Numbered, Quiet, NumbersAreWanted
<1>5. UnreadHasBubble'
  <2>1. ASSUME NEW m \in unread', m # sending', log[m].from \in listed' \cap Friend
        PROVE  bubble'[log[m].from] > 0 \/ reading' = <<log[m].from>>
    <3>1. m \in unread /\ log[m].from \in listed
      BY <1>1, <2>1 DEF Quiet
    <3>2. m # sending
      <4>1. m \in 1..Len(log) /\ 0 \notin 1..Len(log) /\ log[m].from # Sys
        BY <2>1, <3>1, UnreadFacts DEF Friend
      <4> QED BY <2>1, <4>1 DEF Quiet
    <3> QED BY <2>1, <3>1, <3>2 DEF Orderly, Numbered, UnreadHasBubble, Quiet
  <2>2. \A a \in Friend : bubble'[a] <= Count(a)'
    BY DEF Orderly, Numbered, UnreadHasBubble, Quiet, Count
  <2>3. log' = log
    BY DEF Quiet
  <2> QED BY <2>1, <2>2, <2>3 DEF UnreadHasBubble
<1>6. SendingIsNewest'
  BY DEF Orderly, SendingIsNewest, Quiet
<1> QED BY <1>2, <1>3, <1>4, <1>5, <1>6 DEF Orderly, Ordered, Numbered

\* A reading shows what waits, after all that was shown of the same friend.
LEMMA ShowKeepsOrder ==
  ASSUME Safe, Ordered, NEW a \in Friend, NEW chat \in Id \cup {Nobody},
         Show(UnreadOf(a), chat), reading = <<>>, log' = log,
         \/ unread' = unread /\ reading' = <<a>>
         \/ unread' = unread \ UnreadOf(a) /\ reading' = <<>>
  PROVE  Ordered'
<1> DEFINE ms == UnreadOf(a)
           new == DOMAIN shown' \ DOMAIN shown
<1>1. ms \in SUBSET (1..Len(log)) /\ TypeOK /\ Len(log) \in Nat
  BY UnreadFacts DEF Safe
<1>2. \A m \in ms : m \in unread /\ log[m].from = a /\ m \in Nat
  BY <1>1 DEF UnreadOf
<1> HIDE DEF ms
<1>3. /\ shown \in Seq(Shown) /\ shown' \in Seq(Shown)
      /\ \A i \in DOMAIN shown : i \in DOMAIN shown' /\ shown'[i] = shown[i]
      /\ \A i \in new : shown'[i].msg \in ms
      /\ \A i, j \in new : i < j => shown'[i].msg < shown'[j].msg
  BY <1>1, ShowShows DEF ms, Safe, TypeOK, Shown
<1>4. /\ DOMAIN shown \subseteq Nat /\ DOMAIN shown' \subseteq Nat
      /\ \A i \in DOMAIN shown, j \in new : i < j
  <2>1. /\ Len(shown) \in Nat /\ DOMAIN shown = 1..Len(shown)
        /\ Len(shown') \in Nat /\ DOMAIN shown' = 1..Len(shown')
    BY <1>3, LenProperties
  <2> QED BY <2>1
<1> HIDE DEF new
<1>5. \A i \in DOMAIN shown' : i \in DOMAIN shown \/ i \in new
  BY DEF new
<1>6. ShownOfFriends'
  BY <1>1, <1>2, <1>3, <1>5 DEF Ordered, ShownOfFriends
<1>7. ShownInOrderOnce'
  <2> SUFFICES ASSUME NEW i \in DOMAIN shown', NEW j \in DOMAIN shown', i < j,
                      log[shown'[i].msg].from = log[shown'[j].msg].from
               PROVE  shown'[i].msg < shown'[j].msg
    BY DEF ShownInOrderOnce
  <2>1. CASE i \in DOMAIN shown /\ j \in DOMAIN shown
    BY <1>3, <2>1 DEF Ordered, ShownInOrderOnce
  <2>2. CASE i \in DOMAIN shown /\ j \in new
    <3>1. shown'[j].msg \in unread
      BY <1>2, <1>3, <2>2
    <3> QED BY <1>3, <2>2, <3>1 DEF Ordered, ShownFirst
  <2>3. CASE i \in new /\ j \in new
    BY <1>3, <2>3
  <2>4. ~(i \in new /\ j \in DOMAIN shown)
    <3> SUFFICES ASSUME i \in new, j \in DOMAIN shown PROVE FALSE
      OBVIOUS
    <3>1. j < i /\ i \in Nat /\ j \in Nat
      BY <1>4
    <3> QED BY <3>1
  <2> QED BY <1>5, <2>1, <2>2, <2>3, <2>4
<1>8. ShownFirst'
  <2> SUFFICES ASSUME NEW i \in DOMAIN shown', NEW m \in unread',
                      log[m].from = log[shown'[i].msg].from
               PROVE  shown'[i].msg < m \/ reading' = <<log[m].from>>
    BY DEF ShownFirst
  <2>1. m \in unread /\ (log[m].from = a => reading' = <<a>>)
    BY DEF UnreadOf
  <2>2. CASE i \in DOMAIN shown
    BY <1>3, <2>1, <2>2 DEF Ordered, ShownFirst
  <2>3. CASE i \in new
    BY <1>2, <1>3, <2>1, <2>3
  <2> QED BY <1>5, <2>2, <2>3
<1> QED BY <1>6, <1>7, <1>8 DEF Ordered

\* The counts of a friend's messages.
LEMMA CountFacts ==
  ASSUME Safe, NEW a
  PROVE  /\ IsFiniteSet(UnreadOf(a)) /\ Count(a) \in Nat
         /\ UnreadOf(a) # {} => Count(a) > 0
         /\ \A ms \in SUBSET UnreadOf(a) : Cardinality(ms) <= Count(a)
<1>1. IsFiniteSet(UnreadOf(a)) /\ Count(a) \in Nat
  <2>1. Count(a) \in 0..Len(log) => Count(a) \in Nat
    BY UnreadFacts
  <2> QED BY <2>1, UnreadFacts, Ranks DEF Count
<1>2. UnreadOf(a) # {} => Count(a) # 0
  BY <1>1, FS_EmptySet DEF Count
<1>3. \A ms \in SUBSET UnreadOf(a) : Cardinality(ms) <= Count(a)
  BY <1>1, FS_Subset DEF Count
<1> QED BY <1>1, <1>2, <1>3

LEMMA ReceiveOrderly ==
  ASSUME Safe, Safe', Orderly, NEW a \in Id, NEW sort, Receive(a, sort)
  PROVE  Orderly'
<1> DEFINE n == Len(log)
<1>1. /\ sending = 0 /\ sending' = Len(log') /\ Len(log') = n + 1
      /\ \A m \in 1..n : log'[m] = log[m]
      /\ log'[n + 1].from = a
      /\ unread' = unread \cup {n + 1} \/ unread' = unread
      /\ UNCHANGED viewVars
  <2>1. log \in Seq(Message) /\ log' \in Seq(Message)
    BY DEF Safe, TypeOK
  <2>2. n \in Nat /\ Len(log') = n + 1 /\ \A m \in 1..n : log'[m] = log[m]
    BY <2>1, LenProperties DEF Receive
  <2>3. log'[n + 1] = [from |-> a, sort |-> sort, time |-> now]
    BY <2>1, <2>2 DEF Receive
  <2> QED BY <2>2, <2>3 DEF Receive
<1>2. n \in Nat /\ unread \subseteq 1..n /\ \A m \in 1..n : m < n + 1 /\ m \in 1..(n + 1)
  BY UnreadFacts
<1> HIDE DEF n
<1>3. \A i \in DOMAIN shown : shown[i].msg \in 1..n /\ log[shown[i].msg].from \in Friend
  BY DEF Orderly, Ordered, ShownOfFriends, n
<1>4. ShownOfFriends' /\ ShownInOrderOnce'
  BY <1>1, <1>2, <1>3
     DEF Orderly, Ordered, ShownOfFriends, ShownInOrderOnce, viewVars
<1>5. ShownFirst'
  <2> SUFFICES ASSUME NEW i \in DOMAIN shown, NEW m \in unread',
                      log'[m].from = log'[shown[i].msg].from
               PROVE  shown[i].msg < m \/ reading = <<log'[m].from>>
    BY <1>1 DEF ShownFirst, viewVars
  <2>1. CASE m = n + 1
    BY <1>2, <1>3, <2>1
  <2>2. CASE m \in unread
    BY <1>1, <1>2, <1>3, <2>2 DEF Orderly, Ordered, ShownFirst
  <2> QED BY <1>1, <2>1, <2>2
<1>6. UnreadHasBubble'
  <2>1. ASSUME NEW m \in unread', m # sending', log'[m].from \in listed \cap Friend
        PROVE  bubble[log'[m].from] > 0 \/ reading = <<log'[m].from>>
    <3>1. m \in unread /\ m # sending
      BY <1>1, <1>2, <2>1
    <3> QED BY <1>1, <1>2, <2>1, <3>1 DEF Orderly, Numbered, UnreadHasBubble
  <2>2. ASSUME NEW b \in Friend PROVE bubble[b] <= Count(b)'
    <3>1. UnreadOf(b) \in SUBSET UnreadOf(b)'
      BY <1>1, <1>2 DEF UnreadOf
    <3>2. Count(b) <= Count(b)' /\ Count(b) \in Nat /\ Count(b)' \in Nat
      <4>1. IsFiniteSet(UnreadOf(b)') /\ Count(b)' \in Nat
        <5>1. Len(log') \in Nat /\ UnreadOf(b)' \in SUBSET (1..Len(log'))
          <6>1. Len(log') \in Nat /\ unread' \subseteq 1..Len(log')
            BY <1>1, <1>2 DEF Safe, TypeOK
          <6> QED BY <6>1 DEF UnreadOf
        <5>2. Cardinality(UnreadOf(b)') \in 0..Len(log') => Count(b)' \in Nat
          BY <5>1 DEF Count
        <5> QED BY <5>1, <5>2, Ranks DEF Count
      <4>2. Cardinality(UnreadOf(b)) <= Cardinality(UnreadOf(b)')
        BY <3>1, <4>1, FS_Subset
      <4> QED BY <4>1, <4>2, CountFacts DEF Count
    <3>3. bubble[b] <= Count(b) /\ bubble[b] \in 0..MaxMsgs
      BY DEF Orderly, Numbered, UnreadHasBubble, Safe, TypeOK, Friend
    <3> QED BY <3>2, <3>3, Bounds
  <2> QED BY <1>1, <2>1, <2>2 DEF UnreadHasBubble, viewVars
<1>7. NumbersAreWanted' /\ SendingIsNewest'
  BY <1>1 DEF Orderly, Numbered, NumbersAreWanted, SendingIsNewest, viewVars
<1> QED BY <1>4, <1>5, <1>6, <1>7 DEF Orderly, Ordered, Numbered

\* Nothing is shown; messages of one account may leave the list.
LEMMA ClearKeepsOrder ==
  ASSUME Safe, Ordered, UNCHANGED <<log, shown>>,
         \/ unread' = unread /\ reading' = reading
         \/ unread' = unread \ UnreadOf(reading[1]) /\ reading' = <<>>
            /\ reading # <<>>
  PROVE  Ordered'
<1>1. ShownOfFriends' /\ ShownInOrderOnce'
  BY DEF Ordered, ShownOfFriends, ShownInOrderOnce
<1>2. ShownFirst'
  <2> SUFFICES ASSUME NEW i \in DOMAIN shown, NEW m \in unread',
                      log[m].from = log[shown[i].msg].from
               PROVE  shown[i].msg < m \/ reading' = <<log[m].from>>
    BY DEF ShownFirst
  <2>1. m \in unread /\ (shown[i].msg < m \/ reading = <<log[m].from>>)
    BY DEF Ordered, ShownFirst
  <2>2. CASE unread' = unread \ UnreadOf(reading[1])
    <3>1. m \notin UnreadOf(reading[1])
      BY <2>2
    <3>2. reading # <<log[m].from>>
      <4> SUFFICES ASSUME reading = <<log[m].from>> PROVE FALSE
        OBVIOUS
      <4>1. reading[1] = log[m].from
        OBVIOUS
      <4> QED BY <2>1, <3>1, <4>1 DEF UnreadOf
    <3> QED BY <2>1, <3>2
  <2> QED BY <2>1, <2>2
<1> QED BY <1>1, <1>2 DEF Ordered

LEMMA ClearOrderly == Safe /\ Orderly /\ Clear => Orderly'
<1> SUFFICES ASSUME Safe, Orderly, Clear PROVE Orderly'
  OBVIOUS
<1>1. PICK r \in Friend : reading = <<r>> /\ reading[1] = r
  BY DEF Clear, Safe, TypeOK
<1>2. /\ reading # <<>> /\ reading' = <<>>
      /\ unread' = unread \ UnreadOf(reading[1]) /\ unread' = unread \ UnreadOf(r)
      /\ UNCHANGED <<log, sending, listed, sel, bubble, shown>>
  BY <1>1 DEF Clear, envVars
<1>3. Ordered'
  BY <1>2, ClearKeepsOrder DEF Orderly
<1>4. UnreadHasBubble'
  <2>1. ASSUME NEW m \in unread', m # sending', log[m].from \in listed \cap Friend
        PROVE  bubble[log[m].from] > 0
    <3>1. m \in unread /\ log[m].from # r
      BY <1>2, <2>1 DEF UnreadOf
    <3>2. reading # <<log[m].from>>
      BY <1>1, <3>1
    <3> QED BY <1>2, <2>1, <3>1, <3>2 DEF Orderly, Numbered, UnreadHasBubble
  <2>2. ASSUME NEW a \in Friend PROVE bubble[a] <= Count(a)'
    <3>1. CASE a = r
      <4>1. bubble[r] = 0
        BY <1>1 DEF Orderly, Numbered, NumbersAreWanted
      <4>2. UnreadOf(r)' = {} /\ Cardinality({}) = 0
        BY <1>2, FS_EmptySet DEF UnreadOf
      <4> QED BY <3>1, <4>1, <4>2 DEF Count
    <3>2. CASE a # r
      <4>1. UnreadOf(a)' = UnreadOf(a)
        BY <1>2, <3>2 DEF UnreadOf
      <4> QED BY <4>1 DEF Orderly, Numbered, UnreadHasBubble, Count
    <3> QED BY <3>1, <3>2
  <2> QED BY <1>2, <2>1, <2>2 DEF UnreadHasBubble
<1>5. NumbersAreWanted' /\ SendingIsNewest'
  <2>1. \A a : reading' # <<a>>
    BY <1>2
  <2> QED BY <1>2, <2>1
        DEF Orderly, Numbered, NumbersAreWanted, SendingIsNewest
<1> QED BY <1>3, <1>4, <1>5 DEF Orderly, Numbered

\* Reading takes the number away, and what is read has none until it is cleared.
LEMMA ReadOrderly ==
  ASSUME Safe, Orderly, NEW a \in Friend, NEW chat \in Id \cup {Nobody}, reading = <<>>,
         Show(UnreadOf(a), chat), reading' = <<a>>,
         UNCHANGED <<log, unread, sending, listed>>, bubble'[a] = 0,
         \A b \in Friend \ {a} : bubble'[b] = bubble[b] /\ (sel' = b => sel = b)
  PROVE  Orderly'
<1>1. Ordered'
  BY ShowKeepsOrder DEF Orderly
<1>2. UnreadHasBubble'
  <2>1. ASSUME NEW m \in unread, m # sending, log[m].from \in listed \cap Friend
        PROVE  bubble'[log[m].from] > 0 \/ reading' = <<log[m].from>>
    <3>1. bubble[log[m].from] > 0
      <4>1. reading # <<log[m].from>>
        OBVIOUS
      <4> QED BY <2>1, <4>1 DEF Orderly, Numbered, UnreadHasBubble
    <3> QED BY <2>1, <3>1
  <2>2. ASSUME NEW b \in Friend PROVE bubble'[b] <= Count(b)'
    <3>1. Count(b)' = Count(b) /\ Count(b) \in Nat
      BY CountFacts DEF Count, UnreadOf
    <3> QED BY <3>1 DEF Orderly, Numbered, UnreadHasBubble
  <2> QED BY <2>1, <2>2 DEF UnreadHasBubble
<1>3. NumbersAreWanted'
  <2> SUFFICES ASSUME NEW b \in Friend \ {a}, b \notin listed \/ sel' = b \/ reading' = <<b>>
               PROVE  bubble[b] = 0
    BY DEF NumbersAreWanted
  <2>1. reading' # <<b>>
    <3> SUFFICES ASSUME <<a>> = <<b>> PROVE FALSE
      OBVIOUS
    <3> QED OBVIOUS
  <2> QED BY <2>1 DEF Orderly, Numbered, NumbersAreWanted
<1>4. SendingIsNewest'
  BY DEF Orderly, SendingIsNewest
<1> QED BY <1>1, <1>2, <1>3, <1>4 DEF Orderly, Numbered

LEMMA SelectChatOrderly ==
  ASSUME Safe, Orderly, NEW a \in Friend, SelectChat(a)
  PROVE  Orderly'
<1>1. /\ reading = <<>> /\ sel' = a /\ bubble' = [bubble EXCEPT ![a] = 0]
      /\ UNCHANGED <<log, sending, unread, listed>>
  BY DEF SelectChat, Pumping, envVars, listVars
<1>2. a \in Id /\ bubble \in [Id -> 0..MaxMsgs] /\ Friend \subseteq Id
  BY DEF Friend, Safe, TypeOK
<1>3. bubble'[a] = 0 /\ \A b \in Friend \ {a} : bubble'[b] = bubble[b] /\ sel' # b
  BY <1>1, <1>2
<1>4. CASE Show(UnreadOf(a), a) /\ reading' = <<a>>
  BY <1>1, <1>2, <1>3, <1>4, ReadOrderly
<1>5. CASE bubble[a] = 0 /\ UNCHANGED <<shown, reading>>
  <2>1. \A b \in Friend : bubble'[b] = bubble[b]
    BY <1>3, <1>5
  <2>2. Ordered'
    BY <1>1, <1>5, ClearKeepsOrder DEF Orderly
  <2>3. UnreadHasBubble'
    BY <1>1, <1>5, <2>1 DEF Orderly, Numbered, UnreadHasBubble, Count, UnreadOf
  <2>4. NumbersAreWanted'
    BY <1>1, <1>3, <1>5, <2>1 DEF Orderly, Numbered, NumbersAreWanted
  <2>5. SendingIsNewest'
    BY <1>1 DEF Orderly, SendingIsNewest
  <2> QED BY <2>2, <2>3, <2>4, <2>5 DEF Orderly, Numbered
<1> QED BY <1>4, <1>5 DEF SelectChat

LEMMA TrayChatFacts ==
  ASSUME Safe, Orderly, TrayChat
  PROVE  /\ reading = <<>> /\ Top.id \in Friend
         /\ sel' \in Id \cup {Nobody}
         /\ Show(UnreadOf(Top.id), sel') /\ reading' = <<Top.id>>
         /\ bubble'[Top.id] = 0
         /\ \A b \in Friend \ {Top.id} : bubble'[b] = bubble[b] /\ (sel' = b => sel = b)
         /\ UNCHANGED <<log, unread, sending, listed, freed>>
<1> DEFINE a == Top.id
<1>1. /\ reading = <<>> /\ flashing /\ Top.kind = "chat"
      /\ \/ a \in listed /\ bubble' = [bubble EXCEPT ![a] = 0] /\ sel' = a
         \/ a \notin listed /\ UNCHANGED <<bubble, sel>>
      /\ Show(UnreadOf(a), sel') /\ reading' = <<a>>
      /\ UNCHANGED <<log, unread, sending, listed, freed>>
  BY DEF TrayChat, Pumping, envVars, listVars
<1>2. a \in Friend /\ Friend \subseteq Id
  BY <1>1, TopIsItem DEF Friend
<1> HIDE DEF a
<1>3. bubble \in [Id -> 0..MaxMsgs] /\ sel \in Id \cup {Nobody}
  BY DEF Safe, TypeOK
<1>4. bubble'[a] = 0
  BY <1>1, <1>2, <1>3 DEF Orderly, Numbered, NumbersAreWanted
<1>5. \A b \in Friend \ {a} : bubble'[b] = bubble[b] /\ (sel' = b => sel = b)
  BY <1>1, <1>2, <1>3
<1>6. sel' \in Id \cup {Nobody}
  BY <1>1, <1>2, <1>3
<1> QED BY <1>1, <1>2, <1>4, <1>5, <1>6 DEF a

\* The message being delivered, and what the other branch of ProcessChatMsg
\* leaves of the number of its sender.
LEMMA DeliverToOpenOrderly == Safe /\ Orderly /\ DeliverToOpenChat => Orderly'
<1> SUFFICES ASSUME Safe, Orderly, DeliverToOpenChat PROVE Orderly'
  OBVIOUS
<1> DEFINE a == log[sending].from
<1>1. /\ reading = <<>> /\ sending # 0 /\ log[sending].sort = "chat" /\ sel = a
      /\ Show(UnreadOf(a), sel)
      /\ unread' = unread \ UnreadOf(a)
      /\ bubble' = bubble \/ Remind(a, "chat", unread')
      /\ sending' = 0
      /\ UNCHANGED <<log, listed, sel, reading>>
  BY DEF DeliverToOpenChat, Pumping, envVars
<1>2. a \in Friend /\ Friend \subseteq Id
  BY <1>1, SendingFacts DEF Friend
<1>3. \A m \in unread : m # 0 /\ (log[m].from # a => m # sending)
  BY UnreadFacts
<1> HIDE DEF a
<1>4. Ordered'
  BY <1>1, <1>2, ShowKeepsOrder DEF Orderly
<1>5. \A m \in unread' : m \in unread /\ log[m].from # a
  BY <1>1 DEF UnreadOf
<1>6. bubble[a] = 0 /\ bubble \in [Id -> 0..MaxMsgs]
  BY <1>1, <1>2 DEF Orderly, Numbered, NumbersAreWanted, Safe, TypeOK
<1>7. bubble' = bubble
  <2>1. CASE Remind(a, "chat", unread')
    <3>1. Cardinality({m \in unread' : log[m].from = a}) = 0
      BY <1>5, FS_EmptySet
    <3> QED BY <1>2, <1>6, <2>1, <3>1 DEF Remind
  <2> QED BY <1>1, <2>1
<1>8. UnreadHasBubble'
  <2>1. ASSUME NEW m \in unread', log[m].from \in listed \cap Friend
        PROVE  bubble[log[m].from] > 0
    <3>1. m \in unread /\ m # sending /\ reading # <<log[m].from>>
      BY <1>1, <1>3, <1>5
    <3> QED BY <2>1, <3>1 DEF Orderly, Numbered, UnreadHasBubble
  <2>2. ASSUME NEW b \in Friend PROVE bubble[b] <= Count(b)'
    <3>1. CASE b = a
      <4>1. UnreadOf(b)' = {} /\ Cardinality({}) = 0
        BY <1>1, <1>5, <3>1, FS_EmptySet DEF UnreadOf
      <4>2. bubble[b] = 0
        BY <1>6, <3>1
      <4> QED BY <4>1, <4>2 DEF Count
    <3>2. CASE b # a
      <4>1. UnreadOf(b)' = UnreadOf(b)
        BY <1>1, <3>2 DEF UnreadOf
      <4> QED BY <4>1 DEF Orderly, Numbered, UnreadHasBubble, Count
    <3> QED BY <3>1, <3>2
  <2> QED BY <1>1, <1>7, <2>1, <2>2 DEF UnreadHasBubble
<1>9. NumbersAreWanted' /\ SendingIsNewest'
  BY <1>1, <1>7 DEF Orderly, Numbered, NumbersAreWanted, SendingIsNewest
<1> QED BY <1>4, <1>8, <1>9 DEF Orderly, Numbered

LEMMA DeliverToOtherOrderly == Safe /\ Orderly /\ DeliverToOtherChat => Orderly'
<1> SUFFICES ASSUME Safe, Orderly, DeliverToOtherChat PROVE Orderly'
  OBVIOUS
<1> DEFINE a == log[sending].from
<1>1. /\ reading = <<>> /\ sending # 0 /\ log[sending].sort = "chat" /\ sel # a
      /\ listed' = listed \cup ({a} \cap friends)
      /\ bubble' = IF a \in listed'
                   THEN [bubble EXCEPT ![a] = Count(a)] ELSE bubble
      /\ sending' = 0
      /\ UNCHANGED <<log, unread, sel, shown, reading>>
  BY DEF DeliverToOtherChat, Pumping, Remind, Count, UnreadOf, envVars, listVars
<1>2. a \in Friend /\ Friend \subseteq Id
  BY <1>1, SendingFacts DEF Friend
<1>3. \A m \in unread : m # 0 /\ (log[m].from # a => m # sending)
  BY UnreadFacts
<1> HIDE DEF a
<1>4. Ordered'
  BY <1>1, ClearKeepsOrder DEF Orderly
<1>5. bubble \in [Id -> 0..MaxMsgs] /\ \A b : Count(b)' = Count(b) /\ Count(b) \in Nat
  BY <1>1, CountFacts DEF Safe, TypeOK, Count, UnreadOf
<1>6. /\ \A b \in Friend \ {a} : bubble'[b] = bubble[b] /\ (b \in listed' <=> b \in listed)
      /\ a \in listed' => bubble'[a] = Count(a)
      /\ a \notin listed' => bubble'[a] = bubble[a] /\ a \notin listed
  BY <1>1, <1>2, <1>5
<1>7. UnreadHasBubble'
  <2>1. ASSUME NEW m \in unread, log[m].from \in listed' \cap Friend
        PROVE  bubble'[log[m].from] > 0
    <3>1. CASE log[m].from = a
      <4>1. m \in UnreadOf(a)
        BY <3>1 DEF UnreadOf
      <4> QED BY <1>6, <2>1, <3>1, <4>1, CountFacts
    <3>2. CASE log[m].from # a
      <4>1. m # sending /\ reading # <<log[m].from>> /\ log[m].from \in listed
        BY <1>1, <1>3, <1>6, <2>1, <3>2
      <4> QED BY <1>6, <2>1, <3>2, <4>1 DEF Orderly, Numbered, UnreadHasBubble
    <3> QED BY <3>1, <3>2
  <2>2. ASSUME NEW b \in Friend PROVE bubble'[b] <= Count(b)'
    BY <1>5, <1>6 DEF Orderly, Numbered, UnreadHasBubble
  <2> QED BY <1>1, <2>1, <2>2 DEF UnreadHasBubble
<1>8. NumbersAreWanted' /\ SendingIsNewest'
  <2>1. \A b : reading' # <<b>>
    BY <1>1
  <2> QED BY <1>1, <1>6, <2>1
        DEF Orderly, Numbered, NumbersAreWanted, SendingIsNewest
<1> QED BY <1>4, <1>7, <1>8 DEF Orderly, Numbered

\* What is dealt with is the system account's.
LEMMA FinishIsQuiet ==
  ASSUME log' = log, NEW m, Finish(m), NEW a \in Friend
  PROVE  UnreadOf(a)' = UnreadOf(a)
<1>1. PICK same \in SUBSET UnreadOf(Sys) :
        unread' = {n \in unread : n \in same => \E k \in same : k < n}
  BY DEF Finish, RemoveLatest
<1>2. \A n \in same : log[n].from = Sys
  BY DEF UnreadOf
<1> QED BY <1>1, <1>2 DEF UnreadOf, Friend

LEMMA QuietActions ==
  ASSUME Safe,
         \/ SelectSys \/ TraySys \/ TrayCall \/ Return \/ DeliverSys
         \/ Minimise \/ Tick \/ UNCHANGED vars
         \/ \E a \in Friend : RosterItem(a) \/ IncomingCall(a)
         \/ \E r \in rows : ClickRow(r)
  PROVE  Quiet
<1>1. bubble \in [Id -> 0..MaxMsgs] /\ Friend \subseteq Id /\ Sys \notin Friend
  BY DEF Safe, TypeOK, Friend
<1>2. CASE \/ TrayCall \/ Minimise \/ Tick \/ UNCHANGED vars
           \/ \E a \in Friend : RosterItem(a) \/ IncomingCall(a)
  <2>1. UNCHANGED <<log, shown, reading, unread, bubble, listed, sel, sending>>
    BY <1>2 DEF TrayCall, Minimise, Tick, RosterItem, IncomingCall, vars,
                envVars, listVars, viewVars
  <2> QED BY <2>1 DEF Quiet, UnreadOf
<1>3. CASE SelectSys
  <2>1. /\ UNCHANGED <<log, shown, reading, unread, listed, sending>> /\ sel' = Sys
        /\ bubble' = [bubble EXCEPT ![Sys] = IF Count(Sys) > 0 THEN 0 ELSE @]
    BY <1>3 DEF SelectSys, envVars, listVars
  <2>2. \A a \in Friend : bubble'[a] = bubble[a] /\ sel' # a
    BY <1>1, <2>1
  <2> QED BY <2>1, <2>2 DEF Quiet, UnreadOf
<1>4. CASE TraySys
  <2>1. /\ UNCHANGED <<log, shown, reading, listed, sending>> /\ sel' = Sys
        /\ bubble' = [bubble EXCEPT ![Sys] = IF Count(Sys) = 0 THEN @
                                             ELSE IF sel = Sys THEN Count(Sys) - 1 ELSE 0]
        /\ unread' = unread \/ \E m : Finish(m)
    BY <1>4 DEF TraySys, envVars, listVars
  <2>2. \A a \in Friend : bubble'[a] = bubble[a] /\ sel' # a
    BY <1>1, <2>1
  <2>3. \A a \in Friend : UnreadOf(a)' = UnreadOf(a)
    <3>1. CASE unread' = unread
      BY <2>1, <3>1 DEF UnreadOf
    <3>2. CASE \E m : Finish(m)
      BY <2>1, <3>2, FinishIsQuiet
    <3> QED BY <2>1, <3>1, <3>2
  <2> QED BY <2>1, <2>2, <2>3 DEF Quiet
<1>5. CASE Return \/ \E r \in rows : ClickRow(r)
  <2>1. /\ UNCHANGED <<log, shown, reading, listed, sending, bubble, sel>>
        /\ unread' = unread \/ \E m : Finish(m)
    BY <1>5 DEF Return, ClickRow, envVars, listVars, viewVars
  <2>2. \A a \in Friend : UnreadOf(a)' = UnreadOf(a)
    <3>1. CASE unread' = unread
      BY <2>1, <3>1 DEF UnreadOf
    <3>2. CASE \E m : Finish(m)
      BY <2>1, <3>2, FinishIsQuiet
    <3> QED BY <2>1, <3>1, <3>2
  <2> QED BY <2>1, <2>2 DEF Quiet
<1>6. CASE DeliverSys
  <2>1. /\ UNCHANGED <<log, shown, reading, unread, sel>> /\ sending' = 0
        /\ sending # 0 /\ log[sending].sort # "chat"
        /\ listed' = listed \cup {Sys}
        /\ Remind(Sys, "sys", unread)
    BY <1>6 DEF DeliverSys, envVars, listVars
  <2>2. log[sending].from = Sys
    BY <2>1, SendingFacts DEF Safe, SortsOfSenders, TypeOK
  <2>3. \A a \in Friend : bubble'[a] = bubble[a] /\ (a \in listed' <=> a \in listed)
    BY <1>1, <2>1 DEF Remind
  <2> QED BY <2>1, <2>2, <2>3 DEF Quiet, UnreadOf
<1> QED BY <1>2, <1>3, <1>4, <1>5, <1>6

LEMMA OrderlyInit == Init => Orderly
<1> SUFFICES ASSUME Init PROVE Orderly
  OBVIOUS
<1>1. DOMAIN shown = {} /\ unread = {} /\ bubble = [a \in Id |-> 0] /\ sending = 0
  BY DEF Init
<1>2. \A a \in Friend : bubble[a] = 0 /\ Count(a) = 0
  <2>1. \A a : UnreadOf(a) = {}
    BY <1>1 DEF UnreadOf
  <2> QED BY <1>1, <2>1, FS_EmptySet DEF Count, Friend
<1> QED BY <1>1, <1>2 DEF Orderly, Ordered, Numbered, ShownOfFriends, ShownInOrderOnce,
      ShownFirst, UnreadHasBubble, NumbersAreWanted, SendingIsNewest

LEMMA OrderlyStep == Safe /\ Safe' /\ Orderly /\ [Next]_vars => Orderly'
<1> SUFFICES ASSUME Safe, Safe', Orderly, [Next]_vars PROVE Orderly'
  OBVIOUS
<1>1. CASE ReceiveAny
  BY <1>1, Accounts, ReceiveOrderly DEF ReceiveAny, Friend
<1>2. CASE DeliverToOpenChat \/ DeliverToOtherChat
  BY <1>2, DeliverToOpenOrderly, DeliverToOtherOrderly
<1>3. CASE Clear
  BY <1>3, ClearOrderly
<1>4. CASE TrayChat
  BY <1>4, TrayChatFacts, ReadOrderly
<1>5. CASE \E a \in Friend : SelectChat(a)
  BY <1>5, SelectChatOrderly
<1>6. CASE Quiet
  BY <1>6, QuietStep
<1> QED BY <1>1, <1>2, <1>3, <1>4, <1>5, <1>6, QuietActions DEF Next, Deliver, User

\* The list, the numbers and what is on the screen agree, in any run.
THEOREM OrderlyAlways == Spec => []Orderly
BY SafeAlways, OrderlyInit, OrderlyStep, PTL DEF Spec

\* A friend's messages are on the screen in the order received and none twice,
\* whichever of the three ways brings them there (mainDlg.cpp:4153, 3387, 4358).
THEOREM InOrderOnce == Spec => []ShownInOrderOnce
BY OrderlyAlways, PTL DEF Orderly, Ordered

\* A waiting message has its number on the item, and no number is more than
\* what waits (mainDlg.cpp:3380).
THEOREM NumberShows == Spec => []UnreadHasBubble
BY OrderlyAlways, PTL DEF Orderly, Numbered

-----------------------------------------------------------------------------
(* The mailbox.  The list, the threads and the window implement what Mailbox *)
(* says of the messages of friends.                                          *)

Senders == [m \in DOMAIN log |-> log[m].from]

ShownMsgs == [i \in DOMAIN shown |-> shown[i].msg]

mailVars == <<Senders, Waiting, ShownMsgs>>

LEMMA SendersFacts ==
  ASSUME NEW s \in Seq(Message)
  PROVE  /\ [m \in DOMAIN s |-> s[m].from] \in Seq(Id)
         /\ Len([m \in DOMAIN s |-> s[m].from]) = Len(s)
         /\ DOMAIN s = 1..Len(s) /\ Len(s) \in Nat
<1>1. DOMAIN s = 1..Len(s) /\ Len(s) \in Nat /\ \A m \in DOMAIN s : s[m] \in Message
  BY LenProperties
<1>2. [m \in DOMAIN s |-> s[m].from] \in [1..Len(s) -> Id]
  BY <1>1 DEF Message
<1> QED BY <1>1, <1>2

LEMMA ShownFacts ==
  ASSUME NEW s \in Seq(Shown)
  PROVE  /\ [i \in DOMAIN s |-> s[i].msg] \in Seq(Msg)
         /\ Len([i \in DOMAIN s |-> s[i].msg]) = Len(s)
         /\ DOMAIN s = 1..Len(s) /\ Len(s) \in Nat
<1>1. DOMAIN s = 1..Len(s) /\ Len(s) \in Nat /\ \A i \in DOMAIN s : s[i] \in Shown
  BY LenProperties
<1>2. [i \in DOMAIN s |-> s[i].msg] \in [1..Len(s) -> Msg]
  BY <1>1 DEF Shown
<1> QED BY <1>1, <1>2

\* What waits in the list and was not shown waits in the mailbox.
LEMMA WaitingFacts ==
  ASSUME Safe
  PROVE  Waiting = {m \in unread : log[m].from \in Friend /\ m \notin Seen}
BY UnreadFacts DEF Waiting, Seen, Friend

LEMMA MailInit == Init => Promise!Init
<1> SUFFICES ASSUME Init PROVE Senders = <<>> /\ Waiting = {} /\ ShownMsgs = <<>>
  BY DEF Promise!Init, Senders, ShownMsgs
<1>1. log = <<>> /\ shown = <<>> /\ unread = {}
  BY DEF Init
<1> QED BY <1>1 DEF Senders, Waiting, ShownMsgs

\* A step that leaves alone what concerns friends is not seen by the mailbox.
LEMMA QuietMail == ASSUME Safe, Safe', Quiet PROVE UNCHANGED mailVars
<1>1. UNCHANGED <<log, shown>> /\ Seen' = Seen
  BY DEF Quiet, Seen
<1>2. Waiting' \subseteq Waiting /\ Waiting \subseteq Waiting'
  <2>1. \A a \in Friend : UnreadOf(a)' = UnreadOf(a)
    BY DEF Quiet
  <2>2. \A m : log[m].from \in Friend => (m \in unread' <=> m \in unread)
    BY <1>1, <2>1 DEF UnreadOf
  <2>3. \A m \in unread : log[m].from # Sys => log[m].from \in Friend
    BY UnreadFacts DEF Friend
  <2>4. \A m \in unread' : log[m].from # Sys => log[m].from \in Friend
    <3>1. unread' \subseteq 1..Len(log)
      BY <1>1 DEF Safe, TypeOK
    <3> QED BY <3>1, UnreadFacts DEF Friend
  <2> QED BY <1>1, <2>2, <2>3, <2>4 DEF Waiting
<1> QED BY <1>1, <1>2 DEF mailVars, Senders, ShownMsgs

\* A message comes; the race may lose it.
LEMMA ReceiveIsArrive ==
  ASSUME Safe, Safe', Orderly, NEW a \in Id, NEW sort, Receive(a, sort)
  PROVE  Promise!Arrive(a)
<1> DEFINE n == Len(log)
           new == [from |-> a, sort |-> sort, time |-> now]
<1>1. /\ log \in Seq(Message) /\ log' \in Seq(Message) /\ log' = Append(log, new)
      /\ unread' = unread \cup {Len(log')} \/ unread' = unread
      /\ shown' = shown
  BY DEF Receive, viewVars, Safe, TypeOK
<1>2. /\ n \in Nat /\ Len(log') = n + 1 /\ log'[n + 1].from = a
      /\ \A m \in 1..n : log'[m] = log[m]
  BY <1>1, LenProperties
<1>3. Senders' = Append(Senders, a) /\ Len(Senders') = n + 1
  <2>1. /\ Senders \in Seq(Id) /\ Len(Senders) = n /\ DOMAIN log = 1..n
        /\ Senders' \in Seq(Id) /\ Len(Senders') = n + 1 /\ DOMAIN log' = 1..(n + 1)
    BY <1>1, <1>2, SendersFacts DEF Senders
  <2> DEFINE t == Append(Senders, a)
  <2>2. /\ t \in Seq(Id) /\ Len(t) = n + 1 /\ t[n + 1] = a
        /\ \A m \in 1..n : t[m] = Senders[m]
    BY <2>1, AppendProperties
  <2> HIDE DEF t
  <2>3. \A m \in 1..(n + 1) : Senders'[m] = t[m]
    <3> SUFFICES ASSUME NEW m \in 1..(n + 1) PROVE Senders'[m] = t[m]
      OBVIOUS
    <3>1. CASE m = n + 1
      BY <1>2, <2>1, <2>2, <3>1 DEF Senders
    <3>2. CASE m \in 1..n
      BY <1>2, <2>1, <2>2, <3>2 DEF Senders
    <3> QED BY <1>2, <3>1, <3>2
  <2>4. Senders' = t
    BY <2>1, <2>2, <2>3, SeqEqual
  <2> QED BY <2>1, <2>4 DEF t
<1>4. unread \subseteq 1..n /\ n + 1 \notin 1..n /\ Seen \subseteq 1..n
  BY <1>2, UnreadFacts DEF Orderly, Ordered, ShownOfFriends, Seen
<1>5. \A m \in unread : (m \in Waiting' <=> m \in Waiting /\ m \in unread')
  BY <1>1, <1>2, <1>4 DEF Waiting
<1>6. n + 1 \in Waiting' <=> (n + 1 \in unread' /\ a # Sys)
  BY <1>1, <1>2, <1>4 DEF Waiting, Seen
<1>7. Waiting \subseteq unread /\ Waiting' \subseteq unread'
  BY DEF Waiting
<1> HIDE DEF n
<1>8. \/ a \in Friend /\ Waiting' = Waiting \cup {n + 1}
      \/ Waiting' = Waiting
  <2>1. CASE a # Sys /\ unread' = unread \cup {n + 1}
    BY <1>5, <1>6, <1>7, <2>1 DEF Friend
  <2>2. CASE a = Sys \/ unread' = unread
    BY <1>1, <1>2, <1>4, <1>5, <1>6, <1>7, <2>2
  <2> QED BY <1>1, <1>2, <2>1, <2>2
<1> QED BY <1>1, <1>3, <1>8 DEF Promise!Arrive, Senders

\* While nothing is read, what is in the list of a friend was not shown.
LEMMA WaitsUnshown ==
  ASSUME Safe, Orderly, NEW a \in Friend, reading = <<>>
  PROVE  Promise!Of(a) = UnreadOf(a) /\ UnreadOf(a) \cap Seen = {}
<1>1. \A m \in UnreadOf(a) : m \in unread /\ log[m].from = a /\ m \in Nat
                             /\ m \in DOMAIN log
  BY UnreadFacts DEF UnreadOf
<1>2. ASSUME NEW i \in DOMAIN shown, shown[i].msg \in UnreadOf(a) PROVE FALSE
  <2>1. shown[i].msg < shown[i].msg
    BY <1>1, <1>2 DEF Orderly, Ordered, ShownFirst
  <2> QED BY <1>1, <1>2, <2>1
<1>3. UnreadOf(a) \cap Seen = {}
  BY <1>2 DEF Seen
<1>4. Waiting = {m \in unread : log[m].from \in Friend /\ m \notin Seen}
  BY WaitingFacts
<1>5. {m \in Waiting : Senders[m] = a} = UnreadOf(a)
  <2>1. \A m \in Waiting : m \in unread /\ Senders[m] = log[m].from
    BY <1>4, UnreadFacts DEF Senders
  <2>2. \A m \in UnreadOf(a) : m \in Waiting /\ Senders[m] = a
    BY <1>1, <1>3, <1>4 DEF Senders
  <2> QED BY <2>1, <2>2 DEF UnreadOf
<1> QED BY <1>3, <1>5 DEF Promise!Of, Senders

\* The messages of a set, the oldest first.
LEMMA InOrderFacts ==
  ASSUME NEW n \in Nat, n <= MaxMsgs, NEW ms \in SUBSET (1..n)
  PROVE  /\ Promise!InOrder(ms) \in Seq(Msg)
         /\ Len(Promise!InOrder(ms)) = Cardinality(ms)
         /\ \A i \in 1..Cardinality(ms) :
              Promise!InOrder(ms)[i] = CHOOSE m \in ms : Cardinality({k \in ms : k < m}) = i - 1
<1> DEFINE c == Cardinality(ms)
           rank(m) == Cardinality({k \in ms : k < m})
           pick(i) == CHOOSE m \in ms : rank(m) = i - 1
           new == [i \in 1..c |-> pick(i)]
<1>1. Promise!InOrder(ms) = new
  BY Zenon DEF Promise!InOrder, Promise!Cardinality, Cardinality
<1>2. ms \subseteq Msg
  BY Bounds DEF Msg
<1>3. c \in Nat /\ \A i \in 1..c : \E m \in ms : rank(m) = i - 1
  <2>1. c \in 0..n => c \in Nat
    OBVIOUS
  <2>2. c \in 0..n /\ \A i \in 1..c : \E m \in ms : rank(m) = i - 1
    BY Ranks
  <2> QED BY <2>1, <2>2
<1> HIDE DEF c, rank
<1>4. \A i \in 1..c : pick(i) \in ms
  BY <1>3
<1>5. \A i \in 1..c : new[i] = pick(i)
  OBVIOUS
<1> HIDE DEF pick
<1>6. new \in [1..c -> Msg]
  BY <1>2, <1>4
<1>7. new \in Seq(Msg) /\ Len(new) = c
  BY <1>3, <1>6
<1> QED BY <1>1, <1>5, <1>7 DEF c, pick, rank

\* What the code shows is what the mailbox reads: all that waits, in order.
LEMMA ShowIsRead ==
  ASSUME Safe, Orderly, NEW a \in Friend, NEW chat \in Id \cup {Nobody},
         Show(UnreadOf(a), chat), reading = <<>>, log' = log,
         unread' = unread \/ unread' = unread \ UnreadOf(a)
  PROVE  Promise!Read(a)
<1> DEFINE ms == UnreadOf(a)
           s == Len(shown)
           c == Cardinality(ms)
           new == Promise!InOrder(ms)
<1>1. ms \in SUBSET (1..Len(log)) /\ TypeOK /\ Len(log) \in Nat /\ shown \in Seq(Shown)
      /\ ms \subseteq Msg
  <2>1. Len(log) <= MaxMsgs /\ shown \in Seq(Shown)
    BY DEF Safe, TypeOK, Shown
  <2> QED BY <2>1, UnreadFacts, Bounds DEF Safe, Msg
<1> HIDE DEF ms
<1>2. /\ shown' \in Seq(Shown) /\ Seen' = Seen \cup ms
      /\ Len(shown') = s + c /\ c \in Nat
      /\ \A i \in DOMAIN shown : shown'[i] = shown[i]
      /\ \A i \in DOMAIN shown' \ DOMAIN shown :
           /\ i - s \in 1..c
           /\ shown'[i].msg \in ms
           /\ shown'[i].msg = CHOOSE m \in ms : Cardinality({n \in ms : n < m}) = (i - s) - 1
  BY <1>1, ShowShows DEF ms
<1>3. /\ DOMAIN shown = 1..s /\ s \in Nat /\ DOMAIN shown' = 1..(s + c)
      /\ ShownMsgs \in Seq(Msg) /\ Len(ShownMsgs) = s
      /\ ShownMsgs' \in Seq(Msg) /\ Len(ShownMsgs') = s + c
  BY <1>1, <1>2, ShownFacts DEF ShownMsgs
<1>4. new \in Seq(Msg) /\ Len(new) = c
      /\ \A i \in 1..c : new[i] = CHOOSE m \in ms : Cardinality({n \in ms : n < m}) = i - 1
  <2>1. Len(log) <= MaxMsgs
    BY DEF Safe, TypeOK
  <2> QED BY <1>1, <2>1, InOrderFacts
<1> HIDE DEF new, s, c
<1>5. ShownMsgs' = ShownMsgs \o new
  <2> DEFINE t == ShownMsgs \o new
  <2>1. /\ t \in Seq(Msg) /\ Len(t) = s + c
        /\ \A i \in 1..(s + c) : t[i] = IF i <= s THEN ShownMsgs[i] ELSE new[i - s]
    BY <1>3, <1>4, ConcatProperties
  <2> HIDE DEF t
  <2>2. ASSUME NEW i \in 1..(s + c) PROVE ShownMsgs'[i] = t[i]
    <3>0. ShownMsgs'[i] = shown'[i].msg
      BY <1>3 DEF ShownMsgs
    <3>1. CASE i <= s
      <4>1. i \in DOMAIN shown
        BY <1>2, <1>3, <3>1
      <4> QED BY <1>2, <2>1, <3>0, <3>1, <4>1 DEF ShownMsgs
    <3>2. CASE ~(i <= s)
      <4>1. i \in DOMAIN shown' \ DOMAIN shown
        BY <1>2, <1>3, <3>2
      <4> QED BY <1>2, <1>4, <2>1, <3>0, <3>2, <4>1
    <3> QED BY <3>1, <3>2
  <2>3. ShownMsgs' = t
    BY <1>3, <2>1, <2>2, SeqEqual
  <2> QED BY <2>3 DEF t
<1>6. Promise!Of(a) = ms /\ ms \cap Seen = {}
  BY WaitsUnshown DEF ms
<1>7. Waiting' = Waiting \ ms
  <2>1. /\ Waiting = {m \in unread : log[m].from # Sys /\ m \notin Seen}
        /\ Waiting' = {m \in unread' : log[m].from # Sys /\ m \notin Seen'}
    BY DEF Waiting, Seen
  <2> QED BY <1>2, <2>1 DEF ms
<1>8. Senders' = Senders
  BY DEF Senders
<1> QED BY <1>5, <1>6, <1>7, <1>8 DEF Promise!Read, ShownMsgs, Senders, new

\* What is deleted without having been shown is the newest message.
LEMMA ClearIsLose ==
  ASSUME Safe, Orderly, Clear
  PROVE  Promise!Lose \/ UNCHANGED mailVars
<1> DEFINE ms == UnreadOf(reading[1])
<1>1. reading # <<>> /\ unread' = unread \ ms /\ UNCHANGED <<log, shown>>
  BY DEF Clear, envVars
<1>2. \A m \in ms : m = sending \/ m \in Seen
  BY <1>1 DEF Safe, ReadWasShown
<1> HIDE DEF ms
<1>3. UNCHANGED <<Senders, ShownMsgs>>
  BY <1>1 DEF Senders, ShownMsgs
<1>4. /\ Waiting = {m \in unread : log[m].from # Sys /\ m \notin Seen}
      /\ Waiting' = {m \in unread' : log[m].from # Sys /\ m \notin Seen}
  BY <1>1 DEF Waiting, Seen
<1>5. CASE sending \in ms
  <2>1. Waiting' = Waiting \ {sending}
    BY <1>1, <1>2, <1>4, <1>5
  <2>2. sending = Len(Senders)
    <3>1. sending # 0
      BY <1>5, UnreadFacts DEF ms
    <3>2. Len(Senders) = Len(log)
      BY SendersFacts DEF Safe, TypeOK, Senders
    <3> QED BY <3>1, <3>2 DEF Orderly, SendingIsNewest
  <2> QED BY <1>3, <2>1, <2>2 DEF Promise!Lose, Senders, ShownMsgs
<1>6. CASE sending \notin ms
  <2>1. Waiting' = Waiting
    BY <1>1, <1>2, <1>4, <1>6
  <2> QED BY <1>3, <2>1 DEF mailVars
<1> QED BY <1>5, <1>6

LEMMA MailStep ==
  ASSUME Safe, Safe', Orderly, [Next]_vars
  PROVE  Promise!Next \/ UNCHANGED mailVars
<1>1. CASE ReceiveAny
  <2>1. \E a \in Id : Promise!Arrive(a)
    BY <1>1, Accounts, ReceiveIsArrive DEF ReceiveAny, Friend
  <2> QED BY <2>1 DEF Promise!Next, Friend
<1>2. CASE DeliverToOpenChat
  <2>1. PICK a \in Friend : a = log[sending].from
    BY <1>2, SendingFacts DEF DeliverToOpenChat
  <2>2. /\ reading = <<>> /\ log' = log /\ sel \in Id \cup {Nobody}
        /\ Show(UnreadOf(a), sel) /\ unread' = unread \ UnreadOf(a)
    BY <1>2, <2>1 DEF DeliverToOpenChat, Pumping, envVars, Safe, TypeOK
  <2>3. Promise!Read(a)
    BY <2>2, ShowIsRead
  <2> QED BY <2>3 DEF Promise!Next
<1>3. CASE DeliverToOtherChat
  <2>1. UNCHANGED <<log, unread, shown>>
    BY <1>3 DEF DeliverToOtherChat, envVars, listVars
  <2> QED BY <2>1 DEF mailVars, Senders, Waiting, ShownMsgs
<1>4. CASE Clear
  BY <1>4, ClearIsLose DEF Promise!Next
<1>5. CASE TrayChat
  <2>1. PICK a \in Friend : a = Top.id
    BY <1>5, TrayChatFacts
  <2>2. /\ reading = <<>> /\ log' = log /\ sel' \in Id \cup {Nobody}
        /\ Show(UnreadOf(a), sel') /\ unread' = unread
    BY <1>5, <2>1, TrayChatFacts
  <2>3. Promise!Read(a)
    BY <2>2, ShowIsRead
  <2> QED BY <2>3 DEF Promise!Next
<1>6. ASSUME NEW a \in Friend, SelectChat(a)
      PROVE  Promise!Next \/ UNCHANGED mailVars
  <2>1. /\ reading = <<>> /\ UNCHANGED <<log, unread>>
        /\ Show(UnreadOf(a), a) \/ UNCHANGED shown
    BY <1>6 DEF SelectChat, Pumping, envVars, listVars
  <2>2. CASE Show(UnreadOf(a), a)
    <3>1. Promise!Read(a)
      BY <2>1, <2>2, ShowIsRead DEF Friend
    <3> QED BY <3>1 DEF Promise!Next
  <2>3. CASE UNCHANGED shown
    BY <2>1, <2>3 DEF mailVars, Senders, Waiting, ShownMsgs
  <2> QED BY <2>1, <2>2, <2>3
<1>7. CASE Quiet
  BY <1>7, QuietMail
<1> QED BY <1>1, <1>2, <1>3, <1>4, <1>5, <1>6, <1>7, QuietActions
     DEF Next, Deliver, User

\* The message center and the main window are the mailbox they promise: what a
\* friend sends is shown once, in order and with all of his that waits, or was
\* lost when it was the newest (MsgCenterModuleImpl.cpp:109-123, mainDlg.cpp:3387).
THEOREM Implements == Spec => ShownOnceOrLost
<1>1. Safe /\ Safe' /\ Orderly /\ [Next]_vars
        => [Promise!Next]_<<Senders, Waiting, ShownMsgs>>
  BY MailStep DEF mailVars
<1> QED BY <1>1, MailInit, SafeAlways, OrderlyAlways, PTL
        DEF Spec, ShownOnceOrLost, Promise!Spec, Senders, ShownMsgs

-----------------------------------------------------------------------------
(* The reminder.                                                           *)

\* A stop takes an item of its own account only.
LEMMA StopKeepsOthers ==
  ASSUME IInv, NEW id, NEW a, a # id, StopFlash(id), IsFlashing(a)
  PROVE  IsFlashing(a)'
<1>1. CASE UNCHANGED trayVars
  BY <1>1 DEF trayVars, IsFlashing, IndicesOf
<1>2. ASSUME NEW k \in DOMAIN flashStack, flashStack[k].id = id, StopAt(k)
      PROVE  IsFlashing(a)'
  <2>1. flashStack \in Seq(Item) /\ DOMAIN flashStack = 1..Len(flashStack)
        /\ Len(flashStack) \in Nat
    BY LenProperties DEF IInv, TrayTypeOK
  <2>2. PICK i \in DOMAIN flashStack : flashStack[i].id = a
    BY DEF IsFlashing, IndicesOf
  <2>3. /\ flashStack' \in Seq(Item) /\ Len(flashStack') = Len(flashStack) - 1
        /\ \A j \in 1..(Len(flashStack) - 1) :
             flashStack'[j] = IF j < k THEN flashStack[j] ELSE flashStack[j + 1]
    BY <1>2, <2>1, RemoveAtFacts DEF StopAt
  <2>4. DOMAIN flashStack' = 1..(Len(flashStack) - 1)
    BY <2>3, LenProperties
  <2>5. i # k
    BY <1>2, <2>2
  <2> DEFINE j == IF i < k THEN i ELSE i - 1
  <2>6. /\ j \in 1..(Len(flashStack) - 1)
        /\ (IF j < k THEN j ELSE j + 1) = i
    BY <1>2, <2>1, <2>5
  <2>7. flashStack'[j] = flashStack[i]
    BY <2>3, <2>6
  <2> HIDE DEF j
  <2>8. j \in DOMAIN flashStack' /\ flashStack'[j].id = a
    BY <2>2, <2>4, <2>6, <2>7
  <2> QED BY <2>8 DEF IsFlashing, IndicesOf
<1> QED BY <1>1, <1>2 DEF StopFlash, OldestOf, IndicesOf

\* After a flash the account has an item, and so has who had one before.
LEMMA FlashKeepsAll ==
  ASSUME IInv, NEW kind \in Kind, NEW id \in Id, Flash(kind, id)
  PROVE  IsFlashing(id)' /\ \A a : IsFlashing(a) => IsFlashing(a)'
<1> DEFINE item == [kind |-> kind, id |-> id]
<1>1. flashStack \in Seq(Item) /\ item \in Item /\ item.id = id
  BY DEF IInv, TrayTypeOK, Item
<1>2. CASE Push(item)
  <2> HIDE DEF item
  <2>1. /\ Len(flashStack) \in Nat /\ DOMAIN flashStack = 1..Len(flashStack)
        /\ DOMAIN flashStack' = 1..(Len(flashStack) + 1)
        /\ flashStack'[Len(flashStack) + 1] = item
        /\ \A i \in 1..Len(flashStack) : flashStack'[i] = flashStack[i]
    BY <1>1, <1>2, AppendProperties, LenProperties DEF Push
  <2>2. Len(flashStack) + 1 \in DOMAIN flashStack'
        /\ \A i \in DOMAIN flashStack : i \in DOMAIN flashStack'
    BY <2>1
  <2> QED BY <1>1, <2>1, <2>2 DEF IsFlashing, IndicesOf
<1>3. CASE IsFlashing(id) /\ UNCHANGED trayVars
  BY <1>3 DEF trayVars, IsFlashing, IndicesOf
<1> QED BY <1>2, <1>3 DEF Flash

\* A reminder changes the number of one account and makes it flash.
LEMMA RemindKeeps ==
  ASSUME Safe, NEW kind \in Kind, NEW b \in Id, NEW ms, Remind(b, kind, ms),
         NEW a \in Friend, bubble'[a] > 0
  PROVE  IsFlashing(a)' \/ (bubble[a] > 0 /\ ~IsFlashing(a))
<1>1. Flash(kind, b) /\ IInv
  BY DEF Remind, Safe
<1>2. IsFlashing(b)' /\ (IsFlashing(a) => IsFlashing(a)')
  BY <1>1, FlashKeepsAll
<1>3. CASE a = b
  BY <1>2, <1>3
<1>4. CASE a # b
  <2>1. bubble'[a] = bubble[a]
    BY <1>4 DEF Remind, Safe, TypeOK, Friend
  <2>2. bubble[a] > 0
    BY <2>1
  <2> QED BY <1>2, <2>2
<1> QED BY <1>3, <1>4

LEMMA ReminderStep ==
  ASSUME Safe, Orderly, [Next]_vars, NEW a \in Friend, bubble'[a] > 0
  PROVE  \/ IsFlashing(a)'
         \/ bubble[a] > 0 /\ (CallEnds(a) \/ ~IsFlashing(a))
<1>1. IInv /\ bubble \in [Id -> 0..MaxMsgs] /\ a \in Id /\ a # Sys
  BY DEF Safe, TypeOK, Friend
<1>2. ASSUME bubble'[a] = bubble[a], IsFlashing(a) => IsFlashing(a)'
      PROVE  IsFlashing(a)' \/ (bubble[a] > 0 /\ ~IsFlashing(a))
  <2>1. bubble[a] > 0
    BY <1>2
  <2> QED BY <1>2, <2>1
<1>3. ASSUME UNCHANGED trayVars PROVE IsFlashing(a)' = IsFlashing(a)
  BY <1>3 DEF trayVars, IsFlashing, IndicesOf
<1>4. ASSUME NEW b, b # a, StopFlash(b) PROVE IsFlashing(a) => IsFlashing(a)'
  BY <1>1, <1>4, StopKeepsOthers
<1>5. CASE ReceiveAny \/ Minimise \/ Tick \/ UNCHANGED vars \/ \E b \in Friend : RosterItem(b)
  <2>1. UNCHANGED <<bubble, trayVars>>
    BY <1>5 DEF ReceiveAny, Receive, Minimise, Tick, RosterItem, vars, viewVars
  <2> QED BY <1>2, <1>3, <2>1
<1>6. CASE Deliver
  <2>1. sending # 0 => sending \in 1..Len(log) /\ log[sending].from \in Id
    BY SendingFacts
  <2>2. CASE DeliverToOpenChat
    <3>1. CASE UNCHANGED <<bubble, trayVars>>
      BY <1>2, <1>3, <3>1
    <3>2. CASE Remind(log[sending].from, "chat", unread')
      BY <2>1, <2>2, <3>2, RemindKeeps DEF DeliverToOpenChat, Kind
    <3> QED BY <2>2, <3>1, <3>2 DEF DeliverToOpenChat
  <2>3. CASE DeliverToOtherChat
    BY <2>1, <2>3, RemindKeeps DEF DeliverToOtherChat, Kind
  <2>4. CASE DeliverSys
    BY <2>4, Accounts, RemindKeeps DEF DeliverSys, Kind
  <2> QED BY <1>6, <2>2, <2>3, <2>4 DEF Deliver
<1>7. CASE Clear
  <2>1. reading # <<>> /\ StopFlash(reading[1]) /\ bubble' = bubble
    BY <1>7 DEF Clear
  <2>2. reading # <<a>>
    BY <2>1 DEF Orderly, Numbered, NumbersAreWanted
  <2>3. reading[1] # a
    BY <2>1, <2>2 DEF Safe, TypeOK
  <2> QED BY <1>2, <1>4, <2>1, <2>3
<1>8. CASE \E b \in Friend : SelectChat(b)
  <2>1. PICK b \in Friend : SelectChat(b)
    BY <1>8
  <2>2. bubble' = [bubble EXCEPT ![b] = 0] /\ UNCHANGED trayVars
    BY <2>1 DEF SelectChat
  <2>3. bubble'[a] = bubble[a]
    BY <1>1, <2>2
  <2> QED BY <1>2, <1>3, <2>2, <2>3
<1>9. CASE SelectSys \/ TraySys
  <2>1. StopFlash(Sys) /\ bubble'[a] = bubble[a]
    BY <1>1, <1>9 DEF SelectSys, TraySys
  <2> QED BY <1>1, <1>2, <1>4, <2>1
<1>10. CASE TrayChat
  <2>1. UNCHANGED trayVars /\ bubble'[a] = bubble[a]
    BY <1>1, <1>10 DEF TrayChat
  <2> QED BY <1>2, <1>3, <2>1
<1>11. CASE TrayCall
  <2>1. StopFlash(Top.id) /\ bubble' = bubble
    BY <1>11 DEF TrayCall, StopTop, viewVars
  <2> QED BY <1>2, <1>4, <1>11, <2>1 DEF CallEnds
<1>12. CASE Return
  <2>1. bubble' = bubble
    BY <1>12 DEF Return, viewVars
  <2>2. CASE UNCHANGED trayVars
    BY <1>2, <1>3, <2>1, <2>2
  <2>3. CASE Last(boxes).sort = "call" /\ StopFlash(Last(boxes).id)
    <3>1. Last(boxes) \in Frame
      <4>1. boxes \in Seq(Frame) /\ boxes # <<>>
        BY <1>12 DEF Return, Safe, TypeOK
      <4>2. Len(boxes) \in 1..Len(boxes) /\ boxes \in [1..Len(boxes) -> Frame]
        BY <4>1, EmptySeq, LenProperties
      <4> QED BY <4>2 DEF Last
    <3>2. Last(boxes).id = a => Last(boxes) = [sort |-> "call", id |-> a]
      BY <2>3, <3>1 DEF Frame
    <3> QED BY <1>2, <1>4, <1>12, <2>1, <2>3, <3>2 DEF CallEnds
  <2> QED BY <1>12, <2>2, <2>3 DEF Return
<1>13. CASE \E b \in Friend : IncomingCall(b)
  <2>1. PICK b \in Friend : IncomingCall(b)
    BY <1>13
  <2>2. Flash("call", b) /\ bubble' = bubble /\ b \in Id
    BY <2>1 DEF IncomingCall, viewVars, Friend
  <2>3. IsFlashing(a) => IsFlashing(a)'
    BY <1>1, <2>2, FlashKeepsAll DEF Kind
  <2> QED BY <1>2, <2>2, <2>3
<1>14. CASE \E r \in rows : ClickRow(r)
  <2>1. bubble' = bubble /\ (StopFlash(Sys) \/ UNCHANGED trayVars)
    BY <1>14 DEF ClickRow, viewVars
  <2> QED BY <1>1, <1>2, <1>3, <1>4, <2>1
<1> QED BY <1>5, <1>6, <1>7, <1>8, <1>9, <1>10, <1>11, <1>12, <1>13, <1>14
        DEF Next, User

\* A number never stands without the flash before its messages are read, but
\* for what the end of the sender's call does (TrayTaskModuleImpl.cpp:394).
THEOREM KeepsFlashing == Spec => FlashesUntilRead
<1>1. Safe /\ Orderly /\ [Next]_vars =>
        [\A a \in Friend :
           bubble'[a] > 0 => \/ IsFlashing(a)'
                             \/ bubble[a] > 0 /\ (CallEnds(a) \/ ~IsFlashing(a))]_vars
  BY ReminderStep
<1> QED BY <1>1, SafeAlways, OrderlyAlways, PTL DEF Spec, FlashesUntilRead

=============================================================================
