--------------------------- MODULE GroupChatProofs ---------------------------
(***************************************************************************)
(* Which group messages the user may miss and in which order they are       *)
(* shown, for any number of rooms and messages: UnseenIsAnnounced and       *)
(* ShownInOrder.                                                            *)
(*                                                                          *)
(* The first invariant says why an announcement finds a count               *)
(* (CountedWhileComing) and why a room can be left without signs: all of    *)
(* its messages were in the view or still come (ChosenIsSeen), because      *)
(* choosing a room shows its whole cache, and the cache has every saved     *)
(* message (CacheIsComplete).                                               *)
(*                                                                          *)
(* The second, Order, says why the view is in order: what is posted is in   *)
(* the order of the rows (PostedInOrder), so the messages before the one    *)
(* that is handled are not posted any more, hence in the view; and showing  *)
(* all rows again repeats messages and moves none before an earlier one.    *)
(***************************************************************************)
EXTENDS GroupChat, TLAPS, SequenceTheorems, FiniteSetTheorems

Types ==
  /\ rows \in [Room -> Seq(Msg)] /\ cache \in [Room -> Seq(Msg)]
  /\ unread \in [Room -> Nat] /\ bubble \in [Room -> Nat]
  /\ posted \in Seq(Room \X Msg)
  /\ cur \in Room \cup {None}
  /\ choosing => cur \in Room

CacheIsComplete == \A r \in Room : Of(r) \subseteq ToSet(cache[r])

CountedWhileComing ==
  \A r \in Room : unread[r] > 0 \/ Coming(r) \subseteq hushed

ChosenIsSeen == cur \in Room => Of(cur) \subseteq seen \cup Coming(cur)

IInv == /\ Types
        /\ CacheIsComplete
        /\ CountedWhileComing
        /\ ChosenIsSeen
        /\ UnseenIsAnnounced

-----------------------------------------------------------------------------
(* Sequences as sets *)

LEMMA SetOfAppend ==
  ASSUME NEW S, NEW s \in Seq(S), NEW e \in S
  PROVE  Append(s, e) \in Seq(S) /\ ToSet(Append(s, e)) = ToSet(s) \cup {e}
<1>1. Append(s, e) \in Seq(S) /\ Len(Append(s, e)) = Len(s) + 1
  OBVIOUS
<1>2. \A j \in 1 .. Len(s) : Append(s, e)[j] = s[j]
  OBVIOUS
<1>3. Append(s, e)[Len(s) + 1] = e
  OBVIOUS
<1>4. DOMAIN s = 1 .. Len(s) /\ DOMAIN Append(s, e) = 1 .. (Len(s) + 1)
  BY <1>1
<1>5. 1 .. (Len(s) + 1) = (1 .. Len(s)) \cup {Len(s) + 1}
  OBVIOUS
<1> HIDE DEF ToSet
<1>6. ToSet(Append(s, e)) \subseteq ToSet(s) \cup {e}
  BY <1>2, <1>3, <1>4, <1>5 DEF ToSet
<1>7. ToSet(s) \cup {e} \subseteq ToSet(Append(s, e))
  BY <1>2, <1>3, <1>4, <1>5 DEF ToSet
<1> QED
  BY <1>1, <1>6, <1>7

LEMMA SetOfConcat ==
  ASSUME NEW S, NEW s \in Seq(S), NEW t \in Seq(S)
  PROVE  s \o t \in Seq(S) /\ ToSet(s \o t) = ToSet(s) \cup ToSet(t)
<1>1. s \o t \in Seq(S) /\ Len(s \o t) = Len(s) + Len(t)
  OBVIOUS
<1>2. \A j \in 1 .. Len(s) + Len(t) : (s \o t)[j] = IF j <= Len(s) THEN s[j] ELSE t[j - Len(s)]
  BY ConcatProperties
<1>3. /\ DOMAIN s = 1 .. Len(s) /\ DOMAIN t = 1 .. Len(t)
      /\ DOMAIN (s \o t) = 1 .. (Len(s) + Len(t))
      /\ Len(s) \in Nat /\ Len(t) \in Nat
  BY <1>1, LenProperties
<1>4. ToSet(s) \subseteq ToSet(s \o t)
  BY <1>2, <1>3 DEF ToSet
<1>5. ToSet(t) \subseteq ToSet(s \o t)
  <2> SUFFICES ASSUME NEW j \in 1 .. Len(t) PROVE t[j] \in ToSet(s \o t)
    BY <1>3 DEF ToSet
  <2>1. Len(s) + j \in 1 .. Len(s) + Len(t) /\ (s \o t)[Len(s) + j] = t[j]
    BY <1>2, <1>3
  <2> QED
    BY <2>1, <1>3 DEF ToSet
<1>6. ToSet(s \o t) \subseteq ToSet(s) \cup ToSet(t)
  <2> SUFFICES ASSUME NEW j \in 1 .. Len(s) + Len(t) PROVE (s \o t)[j] \in ToSet(s) \cup ToSet(t)
    BY <1>3 DEF ToSet
  <2>1. CASE j <= Len(s)
    BY <2>1, <1>2, <1>3 DEF ToSet
  <2>2. CASE ~(j <= Len(s))
    <3>1. j - Len(s) \in 1 .. Len(t)
      BY <2>2, <1>3
    <3> QED
      BY <2>2, <3>1, <1>2, <1>3 DEF ToSet
  <2> QED
    BY <2>1, <2>2
<1> QED
  BY <1>1, <1>4, <1>5, <1>6

LEMMA SetOfTail ==
  ASSUME NEW S, NEW s \in Seq(S), s # <<>>
  PROVE  Tail(s) \in Seq(S) /\ Head(s) \in ToSet(s)
           /\ ToSet(s) = {Head(s)} \cup ToSet(Tail(s))
<1>1. Tail(s) \in Seq(S) /\ Len(Tail(s)) = Len(s) - 1 /\ Len(s) > 0
  OBVIOUS
<1>2. \A j \in 1 .. (Len(s) - 1) : Tail(s)[j] = s[j + 1]
  BY <1>1
<1>3. DOMAIN s = 1 .. Len(s) /\ DOMAIN Tail(s) = 1 .. (Len(s) - 1)
  BY <1>1
<1>4. Head(s) = s[1] /\ 1 \in 1 .. Len(s)
  BY <1>1
<1>5. \A j \in 1 .. Len(s) : j = 1 \/ j - 1 \in 1 .. (Len(s) - 1)
  BY <1>1
<1>6. \A j \in 1 .. (Len(s) - 1) : j + 1 \in 1 .. Len(s)
  BY <1>1
<1>7. ToSet(s) \subseteq {Head(s)} \cup ToSet(Tail(s))
  <2> SUFFICES ASSUME NEW j \in 1 .. Len(s), j # 1 PROVE s[j] \in ToSet(Tail(s))
    BY <1>3, <1>4 DEF ToSet
  <2>1. j - 1 \in 1 .. (Len(s) - 1) /\ Tail(s)[j - 1] = s[j]
    BY <1>2, <1>5
  <2> QED
    BY <2>1, <1>3 DEF ToSet
<1>8. {Head(s)} \cup ToSet(Tail(s)) \subseteq ToSet(s)
  BY <1>2, <1>3, <1>4, <1>6 DEF ToSet
<1> QED
  BY <1>1, <1>4, <1>3, <1>7, <1>8 DEF ToSet

-----------------------------------------------------------------------------
LEMMA InitIInv == Init => IInv
<1> SUFFICES ASSUME Init PROVE IInv
  OBVIOUS
<1>1. Types
  BY DEF Init, Types
<1>2. \A r \in Room : Of(r) = {} /\ Coming(r) = {}
  BY DEF Init, Of, Coming, ToSet
<1> QED
  BY <1>1, <1>2 DEF Init, IInv, CacheIsComplete, CountedWhileComing, ChosenIsSeen,
     UnseenIsAnnounced

LEMMA SetOfPosted ==
  ASSUME Types, NEW r \in Room, NEW m \in Msg
  PROVE  ToSet(Append(posted, <<r, m>>)) = ToSet(posted) \cup {<<r, m>>}
<1> DEFINE S == Room \X Msg
           p == <<r, m>>
<1>1. posted \in Seq(S) /\ p \in S
  BY DEF Types
<1> HIDE DEF S, p
<1>2. ToSet(Append(posted, p)) = ToSet(posted) \cup {p}
  BY <1>1, SetOfAppend
<1> QED
  BY <1>2 DEF p

LEMMA ReceiveStep ==
  ASSUME IInv, NEW r \in Room, NEW m \in Msg, OnReceveGroupMessage(r, m)
  PROVE  IInv'
<1> USE DEF OnReceveGroupMessage, IInv
<1>1. Types'
  <2>1. rows' \in [Room -> Seq(Msg)] /\ cache' \in [Room -> Seq(Msg)]
    BY SetOfAppend DEF Types
  <2>2. unread' \in [Room -> Nat]
    BY DEF Types
  <2>3. posted' \in Seq(Room \X Msg)
    BY SetOfAppend DEF Types
  <2> QED
    BY <2>1, <2>2, <2>3 DEF Types, signs
<1>2. /\ Of(r)' = Of(r) \cup {m}
      /\ ToSet(cache'[r]) = ToSet(cache[r]) \cup {m}
      /\ Coming(r)' = Coming(r) \cup {m}
  <2>1. ToSet(Append(rows[r], m)) = ToSet(rows[r]) \cup {m}
    BY SetOfAppend DEF Types
  <2>2. ToSet(Append(cache[r], m)) = ToSet(cache[r]) \cup {m}
    BY SetOfAppend DEF Types
  <2>3. ToSet(Append(posted, <<r, m>>)) = ToSet(posted) \cup {<<r, m>>}
    BY SetOfPosted
  <2>4. rows'[r] = Append(rows[r], m) /\ cache'[r] = Append(cache[r], m)
    BY DEF Types
  <2> QED
    BY <2>1, <2>2, <2>3, <2>4 DEF Of, Coming
<1>3. ASSUME NEW s \in Room, s # r
      PROVE  Of(s)' = Of(s) /\ cache'[s] = cache[s] /\ Coming(s)' = Coming(s)
               /\ unread'[s] = unread[s]
  <2>1. ToSet(Append(posted, <<r, m>>)) = ToSet(posted) \cup {<<r, m>>}
    BY SetOfPosted
  <2> QED
    BY <1>3, <2>1 DEF Of, Coming, Types
<1>4. unread'[r] > 0
  BY DEF Types
<1>5. CacheIsComplete' /\ CountedWhileComing'
  BY <1>2, <1>3, <1>4 DEF CacheIsComplete, CountedWhileComing, hist
<1>6. ChosenIsSeen' /\ UnseenIsAnnounced'
  BY <1>2, <1>3 DEF ChosenIsSeen, UnseenIsAnnounced, hist, signs
<1> QED
  BY <1>1, <1>5, <1>6

LEMMA AnnounceTypes ==
  ASSUME Types, NEW r \in Room, Announce(r)
  PROVE  bubble' \in [Room -> Nat]
BY DEF Types, Announce, SetSigns, signs

\* What an announcement leaves behind: signs, or a count of 0.
LEMMA AnnounceSigns ==
  ASSUME Types, NEW r \in Room, Announce(r)
  PROVE  /\ \A s \in Room : s \in flash /\ bubble[s] > 0 => s \in flash' /\ bubble'[s] > 0
         /\ cur # r /\ unread[r] > 0 => r \in flash' /\ bubble'[r] > 0
<1>1. bubble \in [Room -> Nat] /\ unread[r] \in Nat
  BY DEF Types
<1>2. CASE cur # r /\ unread[r] > 0 /\ SetSigns(r, unread[r])
  BY <1>1, <1>2 DEF SetSigns
<1>3. CASE (cur = r \/ unread[r] = 0) /\ UNCHANGED signs
  BY <1>1, <1>3 DEF signs
<1> QED
  BY <1>2, <1>3 DEF Announce

LEMMA HandleStep == IInv /\ HandleGroupMsg => IInv'
<1> SUFFICES ASSUME IInv, HandleGroupMsg PROVE IInv'
  OBVIOUS
<1> USE DEF IInv
<1>b. posted \in Seq(Room \X Msg) /\ posted # <<>>
  BY DEF HandleGroupMsg, Types
<1>a. Head(posted) \in Room \X Msg
  BY <1>b
<1> PICK r \in Room, m \in Msg : Head(posted) = <<r, m>>
  BY <1>a
<1>1. /\ Head(posted) = <<r, m>>
      /\ Tail(posted) \in Seq(Room \X Msg)
      /\ ToSet(posted) = {<<r, m>>} \cup ToSet(Tail(posted))
  BY <1>b, SetOfTail
<1>2. /\ Announce(r) /\ Shown(r, <<m>>)
      /\ unread' = IF cur = r THEN [unread EXCEPT ![r] = 0] ELSE unread
      /\ hushed' = hushed \cup (IF cur = r THEN Coming(r) ELSE {})
      /\ posted' = Tail(posted)
      /\ UNCHANGED <<rows, cache, cur, choosing>>
  <2>1. Head(posted)[1] = r /\ Head(posted)[2] = m
    BY <1>1
  <2> QED
    BY <2>1 DEF HandleGroupMsg, data
<1>3. \A s \in Room : s # r => Coming(s)' = Coming(s)
  BY <1>1, <1>2 DEF Coming
<1>4. m \in Coming(r) /\ Coming(r) \subseteq Coming(r)' \cup {m}
        /\ \A s \in Room : Coming(s)' \subseteq Coming(s)
  <2>1. ToSet(posted)' = ToSet(Tail(posted))
    BY <1>2
  <2>2. m \in Coming(r)
    BY <1>1 DEF Coming
  <2>3. Coming(r) \subseteq Coming(r)' \cup {m}
    <3> SUFFICES ASSUME NEW n \in Msg, <<r, n>> \in ToSet(posted), n # m
                 PROVE  <<r, n>> \in ToSet(Tail(posted))
      BY <2>1 DEF Coming
    <3>1. <<r, n>> # <<r, m>>
      OBVIOUS
    <3> QED
      BY <1>1, <3>1
  <2>4. \A s \in Room : Coming(s)' \subseteq Coming(s)
    BY <1>1, <2>1 DEF Coming
  <2> QED
    BY <2>2, <2>3, <2>4
<1>5. seen \subseteq seen' /\ (cur = r => m \in seen')
  BY <1>2 DEF Shown, ToSet
<1>6. \A s \in Room : Of(s)' = Of(s)
  BY <1>2 DEF Of
<1>7. Types'
  <2>1. unread' \in [Room -> Nat]
    BY <1>1, <1>2 DEF Types
  <2> QED
    BY <1>1, <1>2, <2>1, AnnounceTypes DEF Types
<1>8. CacheIsComplete'
  BY <1>2, <1>6 DEF CacheIsComplete
<1>9. CountedWhileComing'
  BY <1>1, <1>2, <1>3, <1>4 DEF CountedWhileComing, Types
<1>10. ChosenIsSeen'
  <2> SUFFICES ASSUME cur \in Room PROVE Of(cur)' \subseteq seen' \cup Coming(cur)'
    BY <1>2 DEF ChosenIsSeen
  <2>1. Of(cur)' = Of(cur) /\ Of(cur) \subseteq seen \cup Coming(cur)
    BY <1>2, <1>6 DEF ChosenIsSeen
  <2>2. CASE cur = r
    BY <2>1, <2>2, <1>2, <1>4, <1>5
  <2>3. CASE cur # r
    BY <2>1, <2>3, <1>2, <1>3, <1>5
  <2> QED
    BY <2>2, <2>3
<1>11. UnseenIsAnnounced'
  <2> SUFFICES ASSUME NEW s \in Room, s # cur
               PROVE  \/ Of(s) \subseteq seen' \cup hushed' \cup Coming(s)'
                      \/ s \in flash' /\ bubble'[s] > 0
    BY <1>2, <1>6 DEF UnseenIsAnnounced
  <2>1. CASE s \in flash /\ bubble[s] > 0
    BY <2>1, <1>1, <1>2, AnnounceSigns
  <2>2. CASE Of(s) \subseteq seen \cup hushed \cup Coming(s) /\ s # r
    BY <2>2, <1>2, <1>3, <1>5
  <2>3. CASE Of(s) \subseteq seen \cup hushed \cup Coming(s) /\ s = r
    <3>1. CASE unread[r] > 0
      BY <2>3, <3>1, <1>1, <1>2, AnnounceSigns
    <3>2. CASE ~(unread[r] > 0)
      BY <2>3, <3>2, <1>1, <1>2, <1>4, <1>5 DEF CountedWhileComing
    <3> QED
      BY <3>1, <3>2
  <2> QED
    BY <2>1, <2>2, <2>3 DEF UnseenIsAnnounced
<1> QED
  BY <1>7, <1>8, <1>9, <1>10, <1>11

LEMMA OfflineStep ==
  ASSUME IInv, NEW r \in Room, NEW m \in Msg, ProcessOfflineGroupMsg(r, m)
  PROVE  IInv'
<1> DEFINE all == Append(rows[r], m)
<1> USE DEF IInv
<1>1. /\ rows' = [rows EXCEPT ![r] = all]
      /\ cache' = [cache EXCEPT ![r] = @ \o all]
      /\ Shown(r, all) /\ Announce(r)
      /\ unread' = [unread EXCEPT ![r] = IF cur = r THEN 1 ELSE @ + 1]
      /\ hushed' = hushed \cup (IF cur = r THEN Coming(r) ELSE {m})
      /\ UNCHANGED <<posted, cur, choosing>>
  BY DEF ProcessOfflineGroupMsg
<1>2. all \in Seq(Msg) /\ ToSet(all) = Of(r) \cup {m}
  BY SetOfAppend DEF Types, Of
<1> HIDE DEF all
<1>3. cache[r] \o all \in Seq(Msg) /\ ToSet(cache[r] \o all) = ToSet(cache[r]) \cup ToSet(all)
  BY <1>2, SetOfConcat DEF Types
<1>4. Of(r)' = Of(r) \cup {m} /\ \A s \in Room : s # r => Of(s)' = Of(s)
  BY <1>1, <1>2 DEF Of, Types
<1>5. \A s \in Room : Coming(s)' = Coming(s)
  BY <1>1 DEF Coming
<1>6. seen \subseteq seen' /\ (cur = r => Of(r)' \subseteq seen')
  BY <1>1, <1>2, <1>4 DEF Shown
<1>7. Types'
  BY <1>1, <1>2, <1>3, AnnounceTypes DEF Types
<1>8. CacheIsComplete'
  <2>1. cache'[r] = cache[r] \o all /\ \A s \in Room : s # r => cache'[s] = cache[s]
    BY <1>1 DEF Types
  <2> QED
    BY <2>1, <1>2, <1>3, <1>4 DEF CacheIsComplete
<1>9. CountedWhileComing'
  <2>1. unread'[r] > 0 /\ \A s \in Room : s # r => unread'[s] = unread[s]
    BY <1>1 DEF Types
  <2> QED
    BY <2>1, <1>1, <1>5 DEF CountedWhileComing
<1>10. ChosenIsSeen'
  BY <1>1, <1>4, <1>5, <1>6 DEF ChosenIsSeen
<1>11. UnseenIsAnnounced'
  <2> SUFFICES ASSUME NEW s \in Room, s # cur
               PROVE  \/ Of(s)' \subseteq seen' \cup hushed' \cup Coming(s)'
                      \/ s \in flash' /\ bubble'[s] > 0
    BY <1>1 DEF UnseenIsAnnounced
  <2>1. CASE s \in flash /\ bubble[s] > 0
    BY <2>1, <1>1, AnnounceSigns
  <2>2. CASE Of(s) \subseteq seen \cup hushed \cup Coming(s)
    BY <2>2, <1>1, <1>4, <1>5, <1>6
  <2> QED
    BY <2>1, <2>2 DEF UnseenIsAnnounced
<1> QED
  BY <1>7, <1>8, <1>9, <1>10, <1>11

\* Leaving the chosen room and choosing another.
LEMMA ChooseSigns ==
  ASSUME IInv, NEW r \in Room, Choose(r), UNCHANGED <<rows, posted>>,
         hushed' = hushed,
         \A s \in Room \ {r} : s \in flash /\ bubble[s] > 0 => s \in flash' /\ bubble'[s] > 0
  PROVE  ChosenIsSeen' /\ UnseenIsAnnounced'
<1> USE DEF IInv, Choose
<1>1. cur' = r /\ seen' = seen \cup ToSet(cache[r])
  OBVIOUS
<1>2. \A s \in Room : Of(s)' = Of(s) /\ Coming(s)' = Coming(s)
  BY DEF Of, Coming
<1>3. ChosenIsSeen'
  BY <1>1, <1>2 DEF ChosenIsSeen, CacheIsComplete
<1>4. UnseenIsAnnounced'
  BY <1>1, <1>2 DEF ChosenIsSeen, UnseenIsAnnounced
<1> QED
  BY <1>3, <1>4

LEMMA SelectRoomStep ==
  ASSUME IInv, NEW r \in Room, SelectRoom(r)
  PROVE  IInv'
<1> USE DEF SelectRoom, IInv, data, signs
<1>1. Types'
  BY DEF Types, Choose
<1>2. CacheIsComplete' /\ CountedWhileComing'
  BY DEF CacheIsComplete, CountedWhileComing, Of, Coming
<1>3. ChosenIsSeen' /\ UnseenIsAnnounced'
  BY ChooseSigns
<1> QED
  BY <1>1, <1>2, <1>3

LEMMA ClearStep == IInv /\ ClearSigns => IInv'
<1> SUFFICES ASSUME IInv, ClearSigns PROVE IInv'
  OBVIOUS
<1> USE DEF ClearSigns, IInv, data
<1>1. cur \in Room
  BY DEF Types
<1>2. \A s \in Room : Of(s)' = Of(s) /\ Coming(s)' = Coming(s)
  BY DEF Of, Coming
<1>3. CacheIsComplete' /\ ChosenIsSeen'
  BY <1>2 DEF CacheIsComplete, ChosenIsSeen
<1>4. CASE bubble[cur] = 0 /\ UNCHANGED <<signs, unread, hushed>>
  BY <1>2, <1>3, <1>4 DEF Types, CountedWhileComing, UnseenIsAnnounced, signs
<1>5. CASE /\ bubble' = [bubble EXCEPT ![cur] = 0]
           /\ flash' = flash \ {cur}
           /\ unread' = [unread EXCEPT ![cur] = 0]
           /\ hushed' = hushed \cup Coming(cur)
  <2>1. bubble' \in [Room -> Nat] /\ unread' \in [Room -> Nat]
    BY <1>1, <1>5 DEF Types
  <2>2. \A s \in Room : s # cur => bubble'[s] = bubble[s] /\ unread'[s] = unread[s]
    BY <1>5 DEF Types
  <2>3. Types'
    BY <1>1, <2>1 DEF Types
  <2>4. CountedWhileComing'
    BY <1>2, <1>5, <2>2 DEF CountedWhileComing
  <2>5. UnseenIsAnnounced'
    BY <1>2, <1>5, <2>2 DEF UnseenIsAnnounced
  <2> QED
    BY <1>3, <2>3, <2>4, <2>5
<1> QED
  BY <1>4, <1>5

LEMMA SelectChatStep == IInv /\ SelectChat => IInv'
<1> SUFFICES ASSUME IInv, SelectChat PROVE IInv'
  OBVIOUS
<1> USE DEF SelectChat, IInv, data, signs, hist
<1>1. \A s \in Room : Of(s)' = Of(s) /\ Coming(s)' = Coming(s)
  BY DEF Of, Coming
<1>2. Types' /\ CacheIsComplete' /\ CountedWhileComing'
  BY <1>1 DEF Types, CacheIsComplete, CountedWhileComing
<1>3. ChosenIsSeen' /\ UnseenIsAnnounced'
  BY <1>1, GroupChatConstants DEF ChosenIsSeen, UnseenIsAnnounced
<1> QED
  BY <1>2, <1>3

LEMMA TrayStep ==
  ASSUME IInv, NEW r \in Room, OnDbClickGroupMsg(r)
  PROVE  IInv'
<1> USE DEF OnDbClickGroupMsg, IInv, data
<1>1. \A s \in Room : Of(s)' = Of(s) /\ Coming(s)' = Coming(s)
  BY DEF Of, Coming
<1>2. Types'
  BY DEF Types, Choose
<1>3. CacheIsComplete' /\ CountedWhileComing'
  BY <1>1 DEF CacheIsComplete, CountedWhileComing
<1>4. \A s \in Room \ {r} : s \in flash /\ bubble[s] > 0 => s \in flash' /\ bubble'[s] > 0
  BY DEF Types
<1>5. ChosenIsSeen' /\ UnseenIsAnnounced'
  <2>1. CASE Choose(r)
    BY <2>1, <1>4, ChooseSigns
  <2>2. CASE r = cur /\ UNCHANGED <<cur, view, seen>>
    BY <2>2, <1>1, <1>4 DEF ChosenIsSeen, UnseenIsAnnounced
  <2> QED
    BY <2>1, <2>2
<1> QED
  BY <1>2, <1>3, <1>5

LEMMA NextIInv == IInv /\ [Next]_vars => IInv'
<1>1. CASE Next
  BY <1>1, ReceiveStep, OfflineStep, SelectRoomStep, TrayStep, HandleStep, ClearStep,
     SelectChatStep DEF Next
<1>2. CASE UNCHANGED vars
  BY <1>2 DEF vars, data, signs, hist, IInv, Types, CacheIsComplete, CountedWhileComing,
     ChosenIsSeen, UnseenIsAnnounced, Of, Coming
<1> QED
  BY <1>1, <1>2

\* The inductive invariant of the counts, the caches and the signs.
THEOREM Invariance == Spec => []IInv
  BY InitIInv, NextIInv, PTL DEF Spec

\* A room with a message the user has not seen has a bubble and flashes, but
\* for the messages the code announces too early or counts away
\* (mainDlg.cpp:3940, mainDlg.cpp:4296).
THEOREM Announced == Spec => []UnseenIsAnnounced
<1>1. IInv => UnseenIsAnnounced
  BY DEF IInv
<1> QED
  BY <1>1, Invariance, PTL

-----------------------------------------------------------------------------
(* The order of the messages in the view: ShownInOrder.                     *)

Distinct(t) == \A p, q \in DOMAIN t : t[p] = t[q] => p = q

\* Growing the list that is followed by an element the other does not have.
LEMMA FollowsGrown ==
  ASSUME NEW S, NEW s \in Seq(S), NEW t \in Seq(S), NEW e \in S,
         Follows(s, t), e \notin ToSet(s)
  PROVE  Follows(s, Append(t, e))
<1> DEFINE n == Len(t)
           u == Append(t, e)
<1>1. /\ n \in Nat /\ DOMAIN t = 1..n /\ DOMAIN u = 1..(n + 1) /\ DOMAIN s \subseteq Nat
      /\ u[n + 1] = e /\ \A p \in 1..n : u[p] = t[p]
  BY AppendProperties, LenProperties
<1>2. \A p, q \in 1..(n + 1) : (q \in 1..n /\ p < q => p \in 1..n) /\ (q = n + 1 \/ q \in 1..n)
  BY <1>1
<1> HIDE DEF n, u
<1>3. ASSUME NEW i \in DOMAIN s, NEW p \in DOMAIN u, NEW q \in DOMAIN u, s[i] = u[q], p < q
      PROVE  \E j \in 1..(i - 1) : s[j] = u[p]
  <2>1. q # n + 1
    BY <1>1, <1>3 DEF ToSet
  <2>2. q \in 1..n /\ p \in 1..n
    BY <1>1, <1>2, <1>3, <2>1
  <2>3. \E j \in 1..(i - 1) : s[j] = t[p]
    BY <1>1, <1>3, <2>2 DEF Follows
  <2> QED
    BY <1>1, <2>2, <2>3
<1> QED
  BY <1>3 DEF Follows, u

\* Showing an element after all that came before it.
LEMMA FollowsNext ==
  ASSUME NEW S, NEW s \in Seq(S), NEW t \in Seq(S), NEW x \in S, Follows(s, t),
         \A p, q \in DOMAIN t : t[q] = x /\ p < q => t[p] \in ToSet(s)
  PROVE  Follows(Append(s, x), t)
<1> DEFINE n == Len(s)
           u == Append(s, x)
<1>1. /\ n \in Nat /\ DOMAIN s = 1..n /\ DOMAIN u = 1..(n + 1)
      /\ u[n + 1] = x /\ \A i \in 1..n : u[i] = s[i]
  BY AppendProperties, LenProperties
<1>2. /\ \A i \in 1..(n + 1) : i = n + 1 \/ i \in 1..n
      /\ \A i \in 1..n : \A j \in 1..(i - 1) : j \in 1..n
      /\ (n + 1) - 1 = n
  BY <1>1
<1> HIDE DEF n, u
<1>3. ASSUME NEW i \in DOMAIN u, NEW p \in DOMAIN t, NEW q \in DOMAIN t, u[i] = t[q], p < q
      PROVE  \E j \in 1..(i - 1) : u[j] = t[p]
  <2>1. CASE i = n + 1
    <3>1. t[p] \in ToSet(s)
      BY <1>1, <1>3, <2>1
    <3>2. PICK j \in 1..n : s[j] = t[p]
      BY <1>1, <3>1 DEF ToSet
    <3> QED
      BY <1>1, <1>2, <2>1, <3>2
  <2>2. CASE i \in 1..n
    <3>1. PICK j \in 1..(i - 1) : s[j] = t[p]
      BY <1>1, <1>3, <2>2 DEF Follows
    <3> QED
      BY <1>1, <1>2, <2>2, <3>1
  <2> QED
    BY <1>1, <1>2, <2>1, <2>2
<1> QED
  BY <1>3 DEF Follows, u

\* Showing the whole list again, or what is not of it at all.
LEMMA FollowsConcat ==
  ASSUME NEW S, NEW s \in Seq(S), NEW t \in Seq(S), NEW v \in Seq(S), Follows(s, t),
         (v = t /\ Distinct(t)) \/ ToSet(v) \cap ToSet(t) = {}
  PROVE  Follows(s \o v, t)
<1> DEFINE n == Len(s)
           u == s \o v
<1>1. /\ n \in Nat /\ Len(v) \in Nat /\ DOMAIN s = 1..n /\ DOMAIN v = 1..Len(v)
      /\ DOMAIN u = 1..(n + Len(v)) /\ DOMAIN t \subseteq Nat /\ DOMAIN t = 1..Len(t)
      /\ \A i \in 1..(n + Len(v)) : u[i] = IF i <= n THEN s[i] ELSE v[i - n]
  BY ConcatProperties, LenProperties
<1> HIDE DEF n, u
<1>2. ASSUME NEW i \in DOMAIN u, NEW p \in DOMAIN t, NEW q \in DOMAIN t, u[i] = t[q], p < q
      PROVE  \E j \in 1..(i - 1) : u[j] = t[p]
  <2>1. CASE i <= n
    <3>1. i \in DOMAIN s /\ s[i] = t[q]
      BY <1>1, <1>2, <2>1
    <3>2. PICK j \in 1..(i - 1) : s[j] = t[p]
      BY <1>2, <3>1 DEF Follows
    <3>3. j \in 1..(n + Len(v)) /\ j <= n
      BY <1>1, <2>1, <3>1
    <3> QED
      BY <1>1, <3>2, <3>3
  <2>2. CASE ~(i <= n)
    <3>1. i - n \in DOMAIN v /\ v[i - n] = t[q]
      BY <1>1, <1>2, <2>2
    <3>2. v[i - n] \in ToSet(v) /\ t[q] \in ToSet(t)
      BY <3>1 DEF ToSet
    <3>3. v = t /\ Distinct(t)
      BY <3>1, <3>2
    <3>4. i - n = q
      BY <3>1, <3>3 DEF Distinct
    <3>5. n + p \in 1..(i - 1) /\ n + p \in 1..(n + Len(v)) /\ ~(n + p <= n) /\ (n + p) - n = p
      BY <1>1, <1>2, <3>3, <3>4
    <3> QED
      BY <1>1, <3>3, <3>5
  <2> QED
    BY <1>1, <2>1, <2>2
<1> QED
  BY <1>2 DEF Follows, u

\* Every number below the size of a set of positions is the rank of one of them.
LEMMA Ranks ==
  ASSUME NEW n \in Nat, NEW ms \in SUBSET (1..n)
  PROVE  /\ Cardinality(ms) \in Nat
         /\ \A i \in 1..Cardinality(ms) :
              \E m \in ms : Cardinality({k \in ms : k < m}) = i - 1
<1> DEFINE c == Cardinality(ms)
           below(m) == {k \in ms : k < m}
           r == [m \in ms |-> Cardinality(below(m))]
<1>1. IsFiniteSet(ms) /\ c \in Nat /\ c <= n
  <2>1. IsFiniteSet(1..n) /\ Cardinality(1..n) = n
    BY FS_Interval
  <2> QED BY <2>1, FS_Subset, FS_CardinalityType
<1>2. ASSUME NEW m \in ms
      PROVE  IsFiniteSet(below(m)) /\ Cardinality(below(m)) \in 0..(c - 1)
  <2>1. m \in Nat
    OBVIOUS
  <2>2. below(m) \in SUBSET (ms \ {m})
    BY <2>1
  <2>3. IsFiniteSet(ms \ {m}) /\ Cardinality(ms \ {m}) = c - 1
    BY <1>1, FS_RemoveElement
  <2> HIDE DEF below
  <2>4. /\ IsFiniteSet(below(m)) /\ Cardinality(below(m)) <= c - 1
        /\ Cardinality(below(m)) \in Nat
    BY <2>2, <2>3, FS_Subset, FS_CardinalityType
  <2> QED BY <1>1, <2>4
<1>3. ASSUME NEW m \in ms, NEW l \in ms, m < l
      PROVE  Cardinality(below(m)) < Cardinality(below(l))
  <2>1. m \in Nat /\ l \in Nat /\ ms \subseteq Nat
    OBVIOUS
  <2>0. \A x, y, z \in Nat : (x < y /\ y < z => x < z) /\ ~(x < x)
    OBVIOUS
  <2>2. below(m) \cup {m} \in SUBSET below(l) /\ m \notin below(m)
    <3>1. \A k \in ms : k < m => k < l
      BY <2>0, <2>1, <1>3
    <3>2. m \in below(l) /\ m \notin below(m)
      BY <2>0, <2>1, <1>3
    <3> QED BY <3>1, <3>2
  <2> HIDE DEF below
  <2>3. Cardinality(below(m) \cup {m}) = Cardinality(below(m)) + 1
    BY <1>2, <2>2, FS_AddElement
  <2>4. Cardinality(below(m)) + 1 <= Cardinality(below(l))
    BY <1>2, <2>2, <2>3, FS_Subset
  <2> QED BY <1>2, <2>4
<1>4. ASSUME NEW m \in ms, NEW l \in ms, Cardinality(below(m)) = Cardinality(below(l))
      PROVE  m = l
  <2>1. m \in Nat /\ l \in Nat
    OBVIOUS
  <2>2. \A x, y \in Nat : x = y \/ x < y \/ y < x
    OBVIOUS
  <2>3. \A x, y \in Nat : x < y => x # y
    OBVIOUS
  <2> HIDE DEF below
  <2>4. Cardinality(below(m)) \in Nat /\ Cardinality(below(l)) \in Nat
    BY <1>2
  <2> QED BY <1>3, <1>4, <2>1, <2>2, <2>3, <2>4
<1>5. r \in Injection(ms, 0..(c - 1))
  <2> HIDE DEF below, c
  <2>1. r \in [ms -> 0..(c - 1)]
    BY <1>2
  <2>2. \A m, l \in ms : r[m] = r[l] => m = l
    BY <1>4
  <2> QED BY <2>1, <2>2 DEF Injection, IsInjective
<1>6. IsFiniteSet(0..(c - 1)) /\ Cardinality(0..(c - 1)) = c
  <2>1. c - 1 \in Int /\ (IF 0 > c - 1 THEN 0 ELSE (c - 1) - 0 + 1) = c
    BY <1>1
  <2> HIDE DEF c
  <2> QED BY <2>1, FS_Interval
<1>7. r \in Surjection(ms, 0..(c - 1))
  <2> HIDE DEF r, c
  <2> QED BY <1>5, <1>6, FS_Injection DEF c
<1>8. ASSUME NEW i \in 1..c PROVE \E m \in ms : Cardinality(below(m)) = i - 1
  <2> HIDE DEF below, c
  <2>1. i - 1 \in 0..(c - 1)
    BY <1>1
  <2> QED BY <1>7, <2>1 DEF Surjection
<1> QED
  BY <1>1, <1>8

\* Receipts picks receipts of the sequence.
LEMMA ReceiptsFacts ==
  ASSUME NEW s \in Seq(Msg)
  PROVE  Receipts(s) \in Seq(Msg) /\ ToSet(Receipts(s)) \subseteq ToSet(s) \cap Receipt
<1> DEFINE at == {j \in DOMAIN s : s[j] \in Receipt}
           c == Cardinality(at)
           rank(j) == Cardinality({k \in at : k < j})
           pick(i) == CHOOSE j \in at : rank(j) = i - 1
           t == [i \in 1..c |-> s[pick(i)]]
<1>1. Len(s) \in Nat /\ DOMAIN s = 1..Len(s) /\ \A j \in DOMAIN s : s[j] \in Msg
  BY LenProperties
<1>2. at \in SUBSET (1..Len(s)) /\ \A j \in at : s[j] \in ToSet(s) \cap Receipt \cap Msg
  BY <1>1 DEF ToSet
<1>3. Receipts(s) = t
  BY DEF Receipts
<1> HIDE DEF at
<1>4. c \in Nat /\ \A i \in 1..c : \E j \in at : rank(j) = i - 1
  BY <1>1, <1>2, Ranks
<1> HIDE DEF c, rank
<1>5. \A i \in 1..c : pick(i) \in at
  BY <1>4
<1> HIDE DEF pick
<1>6. t \in [1..c -> Msg] /\ \A i \in 1..c : t[i] \in ToSet(s) \cap Receipt
  BY <1>2, <1>5
<1>7. t \in Seq(Msg) /\ DOMAIN t = 1..c
  BY <1>4, <1>6
<1>8. ToSet(t) \subseteq ToSet(s) \cap Receipt
  BY <1>6, <1>7 DEF ToSet
<1> QED
  BY <1>3, <1>7, <1>8


LEMMA SetOfSeq ==
  ASSUME NEW S, NEW s \in Seq(S)
  PROVE  ToSet(s) \subseteq S
<1>1. DOMAIN s = 1..Len(s) /\ \A j \in 1..Len(s) : s[j] \in S
  BY LenProperties
<1> QED
  BY <1>1 DEF ToSet

\* The view after a message or a room's rows came in.
LEMMA ShownFacts ==
  ASSUME TypeOK, NEW r \in Room, NEW s \in Seq(Msg), Shown(r, s)
  PROVE  /\ view' \in Seq(Msg) /\ seen' \subseteq Msg
         /\ cur = r => view' = view \o s /\ ToSet(view') = ToSet(view) \cup ToSet(s)
         /\ cur # r => \E u \in Seq(Msg) :
              /\ view' = view \o u /\ ToSet(view') = ToSet(view) \cup ToSet(u)
              /\ ToSet(u) \subseteq ToSet(s) \cap Receipt
<1>1. view \in Seq(Msg) /\ seen \subseteq Msg /\ ToSet(s) \subseteq Msg
  BY SetOfSeq DEF TypeOK
<1>2. seen' \subseteq Msg
  BY <1>1 DEF Shown
<1>3. CASE cur = r
  BY <1>1, <1>2, <1>3, SetOfConcat DEF Shown, Inserted
<1>4. CASE cur # r
  <2>1. view' = view \o Receipts(s)
    BY <1>4 DEF Shown, Inserted
  <2> QED
    BY <1>1, <1>2, <1>4, <2>1, SetOfConcat, ReceiptsFacts
<1> QED
  BY <1>3, <1>4

LEMMA AnnounceLists ==
  ASSUME TypeOK, NEW r \in Room, Announce(r)
  PROVE  listed' \subseteq Room /\ flash' \subseteq Room
BY DEF TypeOK, Announce, SetSigns, signs

LEMMA ComingFacts ==
  ASSUME NEW r
  PROVE  Coming(r) \subseteq Msg
BY DEF Coming

LEMMA TypeInit == Init => TypeOK
<1> SUFFICES ASSUME Init PROVE TypeOK
  OBVIOUS
<1>1. Types
  BY InitIInv DEF IInv
<1>2. view \in Seq(Msg)
  BY EmptySeq DEF Init
<1> QED
  BY <1>1, <1>2 DEF Init, Types, TypeOK

LEMMA TypeStep ==
  ASSUME IInv, IInv', TypeOK, [Next]_vars
  PROVE  TypeOK'
<1>1. /\ rows' \in [Room -> Seq(Msg)] /\ cache' \in [Room -> Seq(Msg)]
      /\ unread' \in [Room -> Nat] /\ bubble' \in [Room -> Nat]
      /\ posted' \in Seq(Room \X Msg) /\ cur' \in Room \cup {None}
  BY DEF IInv, Types
<1>2. ASSUME /\ choosing' \in BOOLEAN /\ view' \in Seq(Msg)
             /\ listed' \subseteq Room /\ flash' \subseteq Room
             /\ seen' \subseteq Msg /\ hushed' \subseteq Msg
      PROVE  TypeOK'
  BY <1>1, <1>2 DEF TypeOK
<1>3. ASSUME NEW r \in Room, NEW m \in Msg, OnReceveGroupMessage(r, m) PROVE TypeOK'
  BY <1>2, <1>3 DEF OnReceveGroupMessage, TypeOK, signs, hist
<1>4. ASSUME NEW r \in Room, NEW m \in Msg, ProcessOfflineGroupMsg(r, m) PROVE TypeOK'
  <2>1. Append(rows[r], m) \in Seq(Msg)
    BY SetOfAppend DEF TypeOK
  <2>2. /\ Shown(r, Append(rows[r], m)) /\ Announce(r) /\ choosing' = choosing
        /\ hushed' \subseteq hushed \cup Coming(r) \cup {m}
    BY <1>4 DEF ProcessOfflineGroupMsg
  <2> QED
    BY <1>2, <2>1, <2>2, ShownFacts, AnnounceLists, ComingFacts DEF TypeOK
<1>5. ASSUME HandleGroupMsg PROVE TypeOK'
  <2>1. PICK r \in Room, m \in Msg : Head(posted) = <<r, m>>
    <3>1. posted \in Seq(Room \X Msg) /\ posted # <<>>
      BY <1>5 DEF HandleGroupMsg, TypeOK
    <3>2. Head(posted) \in Room \X Msg
      BY <3>1
    <3> QED
      BY <3>2
  <2>2. Head(posted)[1] = r /\ Head(posted)[2] = m /\ <<m>> \in Seq(Msg)
    BY <2>1
  <2>3. /\ Shown(r, <<m>>) /\ Announce(r) /\ choosing' = choosing
        /\ hushed' \subseteq hushed \cup Coming(r)
    BY <1>5, <2>2 DEF HandleGroupMsg
  <2> QED
    BY <1>2, <2>2, <2>3, ShownFacts, AnnounceLists, ComingFacts DEF TypeOK
<1>6. ASSUME NEW r \in Room, SelectRoom(r) \/ OnDbClickGroupMsg(r) PROVE TypeOK'
  <2>1. cache[r] \in Seq(Msg) /\ ToSet(cache[r]) \subseteq Msg
    BY SetOfSeq DEF TypeOK
  <2>2. view' \in Seq(Msg) /\ seen' \subseteq Msg
    BY <1>6, <2>1 DEF SelectRoom, OnDbClickGroupMsg, Choose, TypeOK
  <2>3. listed' = listed /\ flash' \subseteq flash /\ hushed' = hushed
        /\ choosing' \in BOOLEAN
    BY <1>6 DEF SelectRoom, OnDbClickGroupMsg, signs, TypeOK
  <2> QED
    BY <1>2, <2>2, <2>3 DEF TypeOK
<1>7. ASSUME ClearSigns PROVE TypeOK'
  <2>1. /\ UNCHANGED <<view, listed, seen>> /\ flash' \subseteq flash
        /\ choosing' \in BOOLEAN /\ hushed' \subseteq hushed \cup Coming(cur)
    BY <1>7 DEF ClearSigns, signs
  <2> QED
    BY <1>2, <2>1, ComingFacts DEF TypeOK
<1>8. ASSUME SelectChat \/ UNCHANGED vars PROVE TypeOK'
  BY <1>2, <1>8 DEF SelectChat, vars, signs, hist, TypeOK
<1> QED
  BY <1>3, <1>4, <1>5, <1>6, <1>7, <1>8 DEF Next

\* Every variable has its type, for any rooms and messages and any run.
THEOREM TypeCorrect == Spec => []TypeOK
BY Invariance, TypeInit, TypeStep, PTL DEF Spec


-----------------------------------------------------------------------------
(* The invariant.  A room's rows are its messages, each once; its cache has  *)
(* them all in order; what is posted is saved, and posted in the order of    *)
(* the rows.                                                                 *)

RowsAreApart ==
  \A r \in Room : Distinct(rows[r]) /\ \A s \in Room \ {r} : Of(r) \cap Of(s) = {}

CacheIsRows == \A r \in Room : ToSet(cache[r]) = Of(r) /\ Follows(cache[r], rows[r])

PostedAreSaved == \A r \in Room : Coming(r) \subseteq Of(r)

PostedInOrder ==
  \A r \in Room : \A i, j \in DOMAIN posted : \A p, q \in DOMAIN rows[r] :
    (i < j /\ posted[i] = <<r, rows[r][p]>> /\ posted[j] = <<r, rows[r][q]>>) => p < q

ViewIsSaved == ToSet(view) \subseteq UNION {Of(r) : r \in Room}

Order == /\ RowsAreApart
         /\ CacheIsRows
         /\ PostedAreSaved
         /\ PostedInOrder
         /\ ViewIsSaved
         /\ ShownInOrder

LEMMA OrderInit == Init => Order
<1> SUFFICES ASSUME Init PROVE Order
  OBVIOUS
<1>1. \A r \in Room : rows[r] = <<>> /\ cache[r] = <<>>
  BY DEF Init
<1>2. DOMAIN <<>> = {} /\ ToSet(<<>>) = {}
  BY DEF ToSet
<1>3. posted = <<>> /\ view = <<>> /\ cur = None
  BY DEF Init
<1>4. \A r \in Room : Of(r) = {} /\ Coming(r) = {}
  BY <1>1, <1>2, <1>3 DEF Of, Coming
<1>5. RowsAreApart /\ CacheIsRows
  BY <1>1, <1>2, <1>4 DEF RowsAreApart, CacheIsRows, Distinct, Follows
<1>6. PostedAreSaved /\ PostedInOrder /\ ViewIsSaved /\ ShownInOrder
  BY <1>2, <1>3, <1>4 DEF PostedAreSaved, PostedInOrder, ViewIsSaved, ShownInOrder
<1> QED
  BY <1>5, <1>6 DEF Order

\* A new message at the end of a list.
LEMMA AppendNew ==
  ASSUME NEW S, NEW t \in Seq(S), NEW e \in S, e \notin ToSet(t)
  PROVE  /\ Distinct(t) => Distinct(Append(t, e))
         /\ \A p, q \in DOMAIN Append(t, e) :
              Append(t, e)[q] = e /\ p < q => Append(t, e)[p] \in ToSet(t)
         /\ \A p \in DOMAIN Append(t, e) :
              \/ p \in DOMAIN t /\ Append(t, e)[p] = t[p]
              \/ /\ p = Len(t) + 1 /\ Append(t, e)[p] = e
                 /\ \A q \in DOMAIN t : q < p
<1> DEFINE n == Len(t)
           u == Append(t, e)
<1>1. /\ n \in Nat /\ DOMAIN t = 1..n /\ DOMAIN u = 1..(n + 1)
      /\ u[n + 1] = e /\ \A p \in 1..n : u[p] = t[p]
  BY AppendProperties, LenProperties
<1>2. /\ \A p \in 1..(n + 1) : p = n + 1 \/ p \in 1..n
      /\ \A p \in 1..(n + 1) : p < n + 1 => p \in 1..n
      /\ \A p \in 1..n : p < n + 1
  BY <1>1
<1>3. \A p \in 1..n : t[p] \in ToSet(t) /\ t[p] # e
  BY <1>1 DEF ToSet
<1> HIDE DEF n, u
<1>4. Distinct(t) => Distinct(u)
  BY <1>1, <1>2, <1>3 DEF Distinct
<1>5. \A p, q \in DOMAIN u : u[q] = e /\ p < q => u[p] \in ToSet(t)
  BY <1>1, <1>2, <1>3
<1>6. \A p \in DOMAIN u : \/ p \in DOMAIN t /\ u[p] = t[p]
                          \/ p = n + 1 /\ u[p] = e /\ \A q \in DOMAIN t : q < p
  BY <1>1, <1>2
<1> QED
  BY <1>4, <1>5, <1>6 DEF n, u

\* What a message that is saved changes of the rows.
LEMMA SaveFacts ==
  ASSUME TypeOK, Order, NEW r \in Room, NEW m \in New,
         rows' = [rows EXCEPT ![r] = Append(rows[r], m)]
  PROVE  /\ m \in Msg /\ rows[r] \in Seq(Msg) /\ rows'[r] = Append(rows[r], m)
         /\ rows'[r] \in Seq(Msg)
         /\ Of(r)' = Of(r) \cup {m} /\ \A s \in Room : m \notin Of(s)
         /\ \A s \in Room \ {r} : rows'[s] = rows[s] /\ Of(s)' = Of(s)
         /\ m \notin ToSet(view)
         /\ RowsAreApart'
         /\ Follows(cache[r], rows'[r])
<1>1. m \in Msg /\ rows[r] \in Seq(Msg) /\ cache[r] \in Seq(Msg)
      /\ rows'[r] = Append(rows[r], m) /\ \A s \in Room \ {r} : rows'[s] = rows[s]
  BY DEF TypeOK, New
<1>2. \A s \in Room : m \notin Of(s)
  BY DEF New
<1>3. rows'[r] \in Seq(Msg) /\ Of(r)' = Of(r) \cup {m}
      /\ \A s \in Room \ {r} : Of(s)' = Of(s)
  BY <1>1, SetOfAppend DEF Of
<1>4. m \notin ToSet(view)
  BY <1>2 DEF Order, ViewIsSaved
<1>5. Distinct(rows'[r])
  BY <1>1, <1>2, AppendNew DEF Of, Order, RowsAreApart
<1>6. RowsAreApart'
  BY <1>1, <1>2, <1>3, <1>5 DEF Order, RowsAreApart
<1>7. Follows(cache[r], rows'[r])
  BY <1>1, <1>2, FollowsGrown DEF Order, CacheIsRows
<1> QED
  BY <1>1, <1>2, <1>3, <1>4, <1>6, <1>7

\* The messages posted before are still in the order of the rows.
LEMMA SaveKeepsPosted ==
  ASSUME TypeOK, Order, NEW r \in Room, NEW m \in New,
         rows'[r] = Append(rows[r], m), \A s \in Room \ {r} : rows'[s] = rows[s]
  PROVE  \A s \in Room : \A i \in DOMAIN posted : \A p \in DOMAIN rows'[s] :
           posted[i] = <<s, rows'[s][p]>>
             => p \in DOMAIN rows[s] /\ rows'[s][p] = rows[s][p] /\ (s = r => rows'[r][p] # m)
<1> SUFFICES ASSUME NEW s \in Room, NEW i \in DOMAIN posted, NEW p \in DOMAIN rows'[s],
                    posted[i] = <<s, rows'[s][p]>>
             PROVE  /\ p \in DOMAIN rows[s] /\ rows'[s][p] = rows[s][p]
                    /\ s = r => rows'[r][p] # m
  OBVIOUS
<1>1. CASE s # r
  BY <1>1
<1>2. CASE s = r
  <2>1. posted \in Seq(Room \X Msg) /\ posted[i] \in ToSet(posted)
    BY DEF TypeOK, ToSet
  <2>2. ToSet(posted) \subseteq Room \X Msg
    BY <2>1, SetOfSeq
  <2>3. rows'[s][p] \in Coming(s)
    <3>1. <<s, rows'[s][p]>> \in Room \X Msg
      BY <2>1, <2>2
    <3>2. rows'[s][p] \in Msg
      BY <3>1
    <3> QED
      BY <2>1, <3>2 DEF Coming
  <2>4. rows'[s][p] # m
    <3>1. m \notin Of(s)
      BY DEF New
    <3>2. Coming(s) \subseteq Of(s)
      BY DEF Order, PostedAreSaved
    <3> QED
      BY <2>3, <3>1, <3>2
  <2>5. rows[r] \in Seq(Msg) /\ m \in Msg /\ m \notin ToSet(rows[r])
    BY DEF TypeOK, New, Of
  <2> QED
    BY <1>2, <2>4, <2>5, AppendNew
<1> QED
  BY <1>1, <1>2

LEMMA ReceiveOrder ==
  ASSUME TypeOK, Order, NEW r \in Room, NEW m \in Msg, OnReceveGroupMessage(r, m)
  PROVE  Order'
<1>1. /\ m \in New /\ rows' = [rows EXCEPT ![r] = Append(rows[r], m)]
      /\ cache' = [cache EXCEPT ![r] = Append(cache[r], m)]
      /\ posted' = Append(posted, <<r, m>>)
      /\ UNCHANGED <<cur, view>>
  BY DEF OnReceveGroupMessage
<1>2. /\ rows[r] \in Seq(Msg) /\ rows'[r] = Append(rows[r], m) /\ rows'[r] \in Seq(Msg)
      /\ Of(r)' = Of(r) \cup {m} /\ \A s \in Room : m \notin Of(s)
      /\ \A s \in Room \ {r} : rows'[s] = rows[s] /\ Of(s)' = Of(s)
      /\ m \notin ToSet(view) /\ RowsAreApart' /\ Follows(cache[r], rows'[r])
  BY <1>1, SaveFacts
<1>3. /\ cache \in [Room -> Seq(Msg)] /\ cache[r] \in Seq(Msg)
      /\ cache'[r] = Append(cache[r], m) /\ \A s \in Room \ {r} : cache'[s] = cache[s]
  BY <1>1 DEF TypeOK
<1>4. /\ Coming(r)' = Coming(r) \cup {m}
      /\ \A s \in Room \ {r} : Coming(s)' = Coming(s)
  <2>1. ToSet(posted') = ToSet(posted) \cup {<<r, m>>}
    <3>1. posted \in Seq(Room \X Msg) /\ <<r, m>> \in Room \X Msg
      BY DEF TypeOK
    <3> QED
      BY <1>1, <3>1, SetOfAppend
  <2> QED
    BY <2>1 DEF Coming
<1>5. CacheIsRows'
  <2>1. ToSet(cache[r]) = Of(r)
    BY DEF Order, CacheIsRows
  <2>2. ToSet(cache'[r]) = Of(r)'
    BY <1>2, <1>3, <2>1, SetOfAppend
  <2>3. \A p, q \in DOMAIN rows'[r] : rows'[r][q] = m /\ p < q => rows'[r][p] \in ToSet(cache[r])
    BY <1>2, <2>1, AppendNew DEF Of
  <2>4. Follows(cache'[r], rows'[r])
    <3> DEFINE s == cache[r]
               t == rows'[r]
    <3>1. s \in Seq(Msg) /\ t \in Seq(Msg) /\ Follows(s, t)
          /\ \A p, q \in DOMAIN t : t[q] = m /\ p < q => t[p] \in ToSet(s)
      BY <1>2, <1>3, <2>3
    <3> HIDE DEF s, t
    <3>2. Follows(Append(s, m), t)
      BY <3>1, FollowsNext
    <3> QED
      BY <1>3, <3>2 DEF s, t
  <2> QED
    BY <1>2, <1>3, <2>2, <2>4 DEF Order, CacheIsRows
<1>6. PostedAreSaved'
  BY <1>2, <1>4 DEF Order, PostedAreSaved
<1>10. \A s \in Room : \A i \in DOMAIN posted : \A p \in DOMAIN rows'[s] :
         posted[i] = <<s, rows'[s][p]>>
           => p \in DOMAIN rows[s] /\ rows'[s][p] = rows[s][p] /\ (s = r => rows'[r][p] # m)
  BY <1>1, <1>2, SaveKeepsPosted
<1>7. PostedInOrder'
  <2> SUFFICES ASSUME NEW s \in Room, NEW i \in DOMAIN posted', NEW j \in DOMAIN posted',
                      NEW p \in DOMAIN rows'[s], NEW q \in DOMAIN rows'[s], i < j,
                      posted'[i] = <<s, rows'[s][p]>>, posted'[j] = <<s, rows'[s][q]>>
               PROVE  p < q
    BY DEF PostedInOrder
  <2> DEFINE k == Len(posted)
  <2>1. /\ k \in Nat /\ DOMAIN posted = 1..k /\ DOMAIN posted' = 1..(k + 1)
        /\ posted'[k + 1] = <<r, m>> /\ \A l \in 1..k : posted'[l] = posted[l]
    <3>1. posted \in Seq(Room \X Msg) /\ <<r, m>> \in Room \X Msg
      BY DEF TypeOK
    <3> QED
      BY <1>1, <3>1, AppendProperties, LenProperties
  <2>2. i \in 1..k /\ (j \in 1..k \/ j = k + 1)
    BY <2>1
  <2> HIDE DEF k
  <2>3. p \in DOMAIN rows[s] /\ rows'[s][p] = rows[s][p] /\ (s = r => rows'[r][p] # m)
    <3>1. i \in DOMAIN posted /\ posted[i] = <<s, rows'[s][p]>>
      BY <2>1, <2>2
    <3> QED
      BY <1>10, <3>1
  <2>4. CASE j \in 1..k
    <3>1. q \in DOMAIN rows[s] /\ rows'[s][q] = rows[s][q]
      <4>1. j \in DOMAIN posted /\ posted[j] = <<s, rows'[s][q]>>
        BY <2>1, <2>4
      <4> QED
        BY <1>10, <4>1
    <3> QED
      BY <2>1, <2>2, <2>3, <2>4, <3>1 DEF Order, PostedInOrder
  <2>5. CASE j = k + 1
    <3>1. s = r /\ rows'[r][q] = m
      BY <2>1, <2>5
    <3>2. q \notin DOMAIN rows[r]
      <4>1. q \in DOMAIN rows[r] => rows'[r][q] = rows[r][q] /\ rows[r][q] \in Of(r)
        BY <1>2, AppendProperties, LenProperties DEF Of, ToSet
      <4> QED
        BY <1>2, <3>1, <4>1
    <3>3. q \in DOMAIN Append(rows[r], m) /\ m \notin ToSet(rows[r]) /\ m \in Msg
      BY <1>2, <3>1 DEF Of
    <3>4. \A l \in DOMAIN rows[r] : l < q
      BY <1>2, <3>2, <3>3, AppendNew
    <3> QED
      BY <2>3, <3>1, <3>4
  <2> QED
    BY <2>2, <2>4, <2>5
<1>8. ViewIsSaved'
  <2>1. \A s \in Room : Of(s) \subseteq Of(s)'
    BY <1>2
  <2> QED
    BY <1>1, <2>1 DEF Order, ViewIsSaved
<1>9. ShownInOrder'
  <2> SUFFICES ASSUME cur # None
               PROVE  /\ Follows(view, rows'[cur])
                      /\ Of(cur)' \subseteq ToSet(view) \cup Coming(cur)'
                      /\ ToSet(view) \subseteq Of(cur)' \cup Receipt
    BY <1>1 DEF ShownInOrder
  <2>1. cur \in Room /\ view \in Seq(Msg)
    BY DEF TypeOK
  <2>2. /\ Follows(view, rows[cur]) /\ Of(cur) \subseteq ToSet(view) \cup Coming(cur)
        /\ ToSet(view) \subseteq Of(cur) \cup Receipt
    BY DEF Order, ShownInOrder
  <2>3. CASE cur # r
    <3>1. cur' = cur
      BY <1>1
    <3>2. Of(cur)' = Of(cur) /\ Coming(cur)' = Coming(cur)
      BY <1>2, <1>4, <2>1, <2>3, <3>1
    <3> QED
      BY <1>2, <2>1, <2>2, <2>3, <3>2
  <2>4. CASE cur = r
    <3>1. cur' = r
      BY <1>1, <2>4
    <3>2. Of(cur)' = Of(r) \cup {m} /\ Coming(cur)' = Coming(r) \cup {m}
      BY <1>2, <1>4, <3>1
    <3>3. Follows(view, rows'[r])
      BY <1>2, <2>1, <2>2, <2>4, FollowsGrown
    <3> QED
      BY <2>2, <2>4, <3>2, <3>3
  <2> QED
    BY <2>3, <2>4
<1> QED
  BY <1>2, <1>5, <1>6, <1>7, <1>8, <1>9 DEF Order

\* What the view shows of a message of another room is not of the chosen one.
LEMMA ForeignShown ==
  ASSUME TypeOK, Order, NEW r \in Room, NEW s \in Seq(Msg), Shown(r, s),
         cur \in Room, cur # r, NEW own \in Seq(Msg), ToSet(own) \cap ToSet(s) = {},
         Follows(view, own), ToSet(view) \subseteq ToSet(own) \cup Receipt
  PROVE  /\ Follows(view', own) /\ ToSet(view) \subseteq ToSet(view')
         /\ ToSet(view') \subseteq ToSet(own) \cup Receipt
         /\ ToSet(view') \subseteq ToSet(view) \cup ToSet(s)
<1>1. PICK u \in Seq(Msg) :
        /\ view' = view \o u /\ ToSet(view') = ToSet(view) \cup ToSet(u)
        /\ ToSet(u) \subseteq ToSet(s) \cap Receipt
  BY ShownFacts
<1>2. view \in Seq(Msg) /\ ToSet(u) \cap ToSet(own) = {}
  BY <1>1 DEF TypeOK
<1>3. Follows(view \o u, own)
  BY <1>2, FollowsConcat
<1> QED
  BY <1>1, <1>3

LEMMA ShownOnly ==
  ASSUME TypeOK, NEW r \in Room, NEW s \in Seq(Msg), Shown(r, s)
  PROVE  ToSet(view') \subseteq ToSet(view) \cup ToSet(s)
<1>1. CASE cur = r
  BY <1>1, ShownFacts
<1>2. CASE cur # r
  <2>1. PICK u \in Seq(Msg) : /\ ToSet(view') = ToSet(view) \cup ToSet(u)
                              /\ ToSet(u) \subseteq ToSet(s) \cap Receipt
    BY <1>2, ShownFacts
  <2> QED
    BY <2>1
<1> QED
  BY <1>1, <1>2

LEMMA HandleOrder == TypeOK /\ Order /\ HandleGroupMsg => Order'
<1> SUFFICES ASSUME TypeOK, Order, HandleGroupMsg PROVE Order'
  OBVIOUS
<1>1. posted \in Seq(Room \X Msg) /\ posted # <<>>
  BY DEF HandleGroupMsg, TypeOK
<1>2. PICK r \in Room, m \in Msg : Head(posted) = <<r, m>>
  <2>1. Head(posted) \in Room \X Msg
    BY <1>1
  <2> QED
    BY <2>1
<1>3. /\ Shown(r, <<m>>) /\ posted' = Tail(posted)
      /\ UNCHANGED <<rows, cache, cur>>
  <2>1. Head(posted)[1] = r /\ Head(posted)[2] = m
    BY <1>2
  <2> QED
    BY <2>1 DEF HandleGroupMsg, data
<1> DEFINE k == Len(posted)
<1>4. /\ k \in Nat \ {0} /\ DOMAIN posted = 1..k /\ posted[1] = <<r, m>>
      /\ DOMAIN posted' = 1..(k - 1)
      /\ \A i \in 1..(k - 1) : posted'[i] = posted[i + 1]
  BY <1>1, <1>2, <1>3, LenProperties
<1> HIDE DEF k
<1>5. ToSet(posted) = {<<r, m>>} \cup ToSet(posted')
  BY <1>1, <1>2, <1>3, SetOfTail
<1>6. /\ m \in Coming(r) /\ Coming(r) \subseteq Coming(r)' \cup {m}
      /\ \A s \in Room : Coming(s)' \subseteq Coming(s) /\ (s # r => Coming(s)' = Coming(s))
  <2>1. \A s \in Room, n \in Msg :
          <<s, n>> \in ToSet(posted) <=> (s = r /\ n = m) \/ <<s, n>> \in ToSet(posted')
    BY <1>5
  <2> QED
    BY <2>1 DEF Coming
<1>7. m \in Of(r) /\ \A s \in Room : Of(s)' = Of(s)
  BY <1>3, <1>6 DEF Order, PostedAreSaved, Of
<1>8. RowsAreApart' /\ CacheIsRows'
  BY <1>3, <1>7 DEF Order, RowsAreApart, CacheIsRows
<1>9. PostedAreSaved'
  BY <1>6, <1>7 DEF Order, PostedAreSaved
<1>10. PostedInOrder'
  <2> SUFFICES ASSUME NEW s \in Room, NEW i \in 1..(k - 1), NEW j \in 1..(k - 1),
                      NEW p \in DOMAIN rows[s], NEW q \in DOMAIN rows[s], i < j,
                      posted'[i] = <<s, rows[s][p]>>, posted'[j] = <<s, rows[s][q]>>
               PROVE  p < q
    BY <1>3, <1>4 DEF PostedInOrder
  <2>1. i + 1 \in 1..k /\ j + 1 \in 1..k /\ i + 1 < j + 1
    BY <1>4
  <2>2. posted[i + 1] = <<s, rows[s][p]>> /\ posted[j + 1] = <<s, rows[s][q]>>
    BY <1>4
  <2> QED
    BY <1>4, <2>1, <2>2 DEF Order, PostedInOrder
<1>11. <<m>> \in Seq(Msg) /\ ToSet(<<m>>) = {m}
  BY DEF ToSet
<1>12. ToSet(view') \subseteq ToSet(view) \cup {m}
  BY <1>3, <1>11, ShownOnly
<1>13. ViewIsSaved'
  BY <1>7, <1>12 DEF Order, ViewIsSaved
<1>14. ShownInOrder'
  <2> SUFFICES ASSUME cur # None
               PROVE  /\ Follows(view', rows[cur])
                      /\ Of(cur) \subseteq ToSet(view') \cup Coming(cur)'
                      /\ ToSet(view') \subseteq Of(cur) \cup Receipt
    <3>1. cur' = cur /\ rows' = rows /\ Of(cur)' = Of(cur)
      BY <1>3 DEF Of
    <3> QED
      BY <3>1 DEF ShownInOrder
  <2>1. cur \in Room /\ view \in Seq(Msg) /\ rows[cur] \in Seq(Msg) /\ cur' = cur
    BY <1>3 DEF TypeOK
  <2>2. /\ Follows(view, rows[cur]) /\ Of(cur) \subseteq ToSet(view) \cup Coming(cur)
        /\ ToSet(view) \subseteq Of(cur) \cup Receipt
    BY DEF Order, ShownInOrder
  <2>3. CASE cur = r
    <3>1. view' = view \o <<m>> /\ ToSet(view') = ToSet(view) \cup {m}
      BY <1>3, <1>11, <2>3, ShownFacts
    <3>2. ASSUME NEW p \in DOMAIN rows[r], NEW q \in DOMAIN rows[r], rows[r][q] = m, p < q
          PROVE  rows[r][p] \in ToSet(view)
      <4>1. rows[r][p] \in Of(r) /\ p \in Nat /\ q \in Nat
        BY <2>1, <2>3, LenProperties DEF Of, ToSet
      <4>2. rows[r][p] \notin Coming(r)
        <5> SUFFICES ASSUME rows[r][p] \in Coming(r) PROVE FALSE
          OBVIOUS
        <5>1. PICK j \in 1..k : posted[j] = <<r, rows[r][p]>>
          BY <1>4 DEF Coming, ToSet
        <5>2. CASE j = 1
          <6>1. rows[r][p] = rows[r][q]
            BY <1>4, <3>2, <5>1, <5>2
          <6>2. p = q
            BY <6>1 DEF Order, RowsAreApart, Distinct
          <6> QED
            BY <3>2, <4>1, <6>2
        <5>3. CASE j # 1
          <6>1. 1 \in 1..k /\ 1 < j
            BY <1>4, <5>3
          <6>2. q < p
            BY <1>4, <3>2, <5>1, <6>1 DEF Order, PostedInOrder
          <6> QED
            BY <3>2, <4>1, <6>2
        <5> QED
          BY <5>2, <5>3
      <4> QED
        BY <2>2, <2>3, <4>1, <4>2
    <3>3. Follows(Append(view, m), rows[r])
      <4> DEFINE t == rows[r]
      <4>1. /\ t \in Seq(Msg) /\ Follows(view, t)
            /\ \A p, q \in DOMAIN t : t[q] = m /\ p < q => t[p] \in ToSet(view)
        BY <2>1, <2>2, <2>3, <3>2
      <4> HIDE DEF t
      <4>2. Follows(Append(view, m), t)
        BY <2>1, <4>1, FollowsNext
      <4> QED
        BY <4>2 DEF t
    <3>4. Append(view, m) = view \o <<m>>
      BY <2>1, AppendIsConcat
    <3>5. Coming(cur)' = Coming(r)'
      BY <2>1, <2>3
    <3> QED
      BY <1>6, <1>7, <2>2, <2>3, <3>1, <3>3, <3>4, <3>5
  <2>4. CASE cur # r
    <3>1. m \notin Of(cur)
      BY <1>7, <2>1, <2>4 DEF Order, RowsAreApart
    <3>2. /\ Follows(view', rows[cur]) /\ ToSet(view) \subseteq ToSet(view')
          /\ ToSet(view') \subseteq ToSet(rows[cur]) \cup Receipt
      <4> DEFINE own == rows[cur]
                 s == <<m>>
      <4>1. own \in Seq(Msg) /\ s \in Seq(Msg) /\ Shown(r, s) /\ Follows(view, own)
        BY <1>3, <1>11, <2>1, <2>2
      <4>2. ToSet(own) \cap ToSet(s) = {} /\ ToSet(view) \subseteq ToSet(own) \cup Receipt
        BY <1>11, <2>2, <3>1 DEF Of
      <4> HIDE DEF own, s
      <4>3. /\ Follows(view', own) /\ ToSet(view) \subseteq ToSet(view')
            /\ ToSet(view') \subseteq ToSet(own) \cup Receipt
        BY <2>1, <2>4, <4>1, <4>2, ForeignShown
      <4> QED
        BY <4>3 DEF own
    <3>3. Coming(cur)' = Coming(cur)
      BY <1>6, <2>1, <2>4
    <3> QED
      BY <2>2, <3>2, <3>3 DEF Of
  <2> QED
    BY <2>3, <2>4
<1> QED
  BY <1>8, <1>9, <1>10, <1>13, <1>14 DEF Order

LEMMA OfflineOrder ==
  ASSUME TypeOK, Order, NEW r \in Room, NEW m \in Msg, ProcessOfflineGroupMsg(r, m)
  PROVE  Order'
<1> DEFINE all == Append(rows[r], m)
<1>1. /\ m \in New /\ rows' = [rows EXCEPT ![r] = all]
      /\ cache' = [cache EXCEPT ![r] = cache[r] \o all]
      /\ Shown(r, all) /\ UNCHANGED <<posted, cur>>
  BY DEF ProcessOfflineGroupMsg
<1>2. /\ rows'[r] = all /\ all \in Seq(Msg)
      /\ Of(r)' = Of(r) \cup {m} /\ \A s \in Room : m \notin Of(s)
      /\ \A s \in Room \ {r} : rows'[s] = rows[s] /\ Of(s)' = Of(s)
      /\ m \notin ToSet(view) /\ RowsAreApart' /\ Follows(cache[r], all)
  BY <1>1, SaveFacts
<1>3. /\ cache[r] \in Seq(Msg) /\ cache'[r] = cache[r] \o all
      /\ \A s \in Room \ {r} : cache'[s] = cache[s]
  BY <1>1 DEF TypeOK
<1>4. \A s \in Room : Coming(s)' = Coming(s)
  BY <1>1 DEF Coming
<1>5. ToSet(all) = Of(r)'
  BY <1>2 DEF Of
<1>6. \A s \in Room : \A i \in DOMAIN posted : \A p \in DOMAIN rows'[s] :
        posted[i] = <<s, rows'[s][p]>> => p \in DOMAIN rows[s] /\ rows'[s][p] = rows[s][p]
  <2>1. rows'[r] = Append(rows[r], m)
    BY <1>2
  <2> QED
    BY <1>1, <1>2, <2>1, SaveKeepsPosted
<1>7. Distinct(all)
  BY <1>2 DEF RowsAreApart
<1> HIDE DEF all
<1>8. CacheIsRows'
  <2> DEFINE s == cache[r]
  <2>1. s \in Seq(Msg) /\ Follows(s, all) /\ ToSet(s) = Of(r)
    BY <1>2, <1>3 DEF Order, CacheIsRows
  <2> HIDE DEF s
  <2>2. ToSet(s \o all) = ToSet(s) \cup ToSet(all)
    BY <1>2, <2>1, SetOfConcat
  <2>3. Follows(s \o all, all)
    BY <1>2, <1>7, <2>1, FollowsConcat
  <2>4. cache'[r] = s \o all
    BY <1>3 DEF s
  <2>5. ToSet(cache'[r]) = Of(r)' /\ Follows(cache'[r], rows'[r])
    BY <1>2, <1>5, <2>1, <2>2, <2>3, <2>4
  <2>6. \A q \in Room \ {r} : ToSet(cache'[q]) = Of(q)' /\ Follows(cache'[q], rows'[q])
    BY <1>2, <1>3 DEF Order, CacheIsRows
  <2> QED
    BY <2>5, <2>6 DEF CacheIsRows
<1>9. PostedAreSaved'
  BY <1>2, <1>4 DEF Order, PostedAreSaved
<1>10. PostedInOrder'
  <2> SUFFICES ASSUME NEW s \in Room, NEW i \in DOMAIN posted, NEW j \in DOMAIN posted,
                      NEW p \in DOMAIN rows'[s], NEW q \in DOMAIN rows'[s], i < j,
                      posted[i] = <<s, rows'[s][p]>>, posted[j] = <<s, rows'[s][q]>>
               PROVE  p < q
    BY <1>1 DEF PostedInOrder
  <2>1. /\ p \in DOMAIN rows[s] /\ q \in DOMAIN rows[s]
        /\ posted[i] = <<s, rows[s][p]>> /\ posted[j] = <<s, rows[s][q]>>
    BY <1>6
  <2> QED
    BY <2>1 DEF Order, PostedInOrder
<1>11. ViewIsSaved'
  <2>1. ToSet(view') \subseteq ToSet(view) \cup Of(r)'
    BY <1>1, <1>2, <1>5, ShownOnly
  <2>2. \A s \in Room : Of(s) \subseteq Of(s)'
    BY <1>2
  <2> QED
    BY <2>1, <2>2 DEF Order, ViewIsSaved
<1>12. ShownInOrder'
  <2> SUFFICES ASSUME cur # None
               PROVE  /\ Follows(view', rows'[cur])
                      /\ Of(cur)' \subseteq ToSet(view') \cup Coming(cur)'
                      /\ ToSet(view') \subseteq Of(cur)' \cup Receipt
    BY <1>1 DEF ShownInOrder
  <2>1. cur \in Room /\ view \in Seq(Msg) /\ rows[cur] \in Seq(Msg) /\ cur' = cur
    BY <1>1 DEF TypeOK
  <2>2. /\ Follows(view, rows[cur]) /\ Of(cur) \subseteq ToSet(view) \cup Coming(cur)
        /\ ToSet(view) \subseteq Of(cur) \cup Receipt
    BY DEF Order, ShownInOrder
  <2>3. CASE cur = r
    <3>1. view' = view \o all /\ ToSet(view') = ToSet(view) \cup ToSet(all)
      BY <1>1, <1>2, <2>3, ShownFacts
    <3>2. Follows(view, all)
      <4> DEFINE t == rows[r]
      <4>1. t \in Seq(Msg) /\ m \in Msg /\ Follows(view, t) /\ m \notin ToSet(view)
        BY <1>1, <1>2, <2>1, <2>2, <2>3 DEF New
      <4> HIDE DEF t
      <4>2. Follows(view, Append(t, m))
        BY <2>1, <4>1, FollowsGrown
      <4> QED
        BY <4>2 DEF t, all
    <3>3. Follows(view \o all, all)
      BY <1>2, <1>7, <2>1, <3>2, FollowsConcat
    <3>4. rows'[cur] = all /\ Of(cur)' = ToSet(all)
      BY <1>2, <1>5, <2>1, <2>3
    <3>5. ToSet(view') \subseteq Of(cur)' \cup Receipt
      BY <1>2, <1>5, <2>2, <2>3, <3>1, <3>4
    <3> QED
      BY <3>1, <3>3, <3>4, <3>5
  <2>4. CASE cur # r
    <3> DEFINE own == rows[cur]
    <3>1. ToSet(own) \cap ToSet(all) = {}
      <4>1. Of(cur) \cap Of(r) = {}
        BY <2>1, <2>4 DEF Order, RowsAreApart
      <4> QED
        BY <1>2, <1>5, <2>1, <4>1 DEF Of
    <3>2. own \in Seq(Msg) /\ Follows(view, own) /\ ToSet(view) \subseteq ToSet(own) \cup Receipt
      BY <2>1, <2>2 DEF Of
    <3> HIDE DEF own
    <3>3. /\ Follows(view', own) /\ ToSet(view) \subseteq ToSet(view')
          /\ ToSet(view') \subseteq ToSet(own) \cup Receipt
      BY <1>1, <1>2, <2>1, <2>4, <3>1, <3>2, ForeignShown
    <3>4. rows'[cur] = own /\ Of(cur)' = ToSet(own) /\ Of(cur) = ToSet(own)
          /\ Coming(cur)' = Coming(cur)
      BY <1>2, <1>4, <2>1, <2>4 DEF own, Of
    <3> QED
      BY <2>2, <3>3, <3>4
  <2> QED
    BY <2>3, <2>4
<1> QED
  BY <1>2, <1>8, <1>9, <1>10, <1>11, <1>12 DEF Order

\* A step that leaves the messages alone and chooses a room or none.
LEMMA ChooseOrder ==
  ASSUME TypeOK, Order, UNCHANGED <<rows, cache, posted>>,
         \/ \E r \in Room : Choose(r)
         \/ UNCHANGED <<cur, view>>
         \/ cur' = None /\ view' = view
  PROVE  Order'
<1>1. \A s \in Room : Of(s)' = Of(s) /\ Coming(s)' = Coming(s)
  BY DEF Of, Coming
<1>2. RowsAreApart' /\ CacheIsRows' /\ PostedAreSaved' /\ PostedInOrder'
  BY <1>1 DEF Order, RowsAreApart, CacheIsRows, PostedAreSaved, PostedInOrder
<1>3. ASSUME NEW r \in Room, Choose(r)
      PROVE  ViewIsSaved' /\ ShownInOrder'
  <2>1. cur' = r /\ view' = cache[r] /\ ToSet(cache[r]) = Of(r)
        /\ Follows(cache[r], rows[r])
    BY <1>3 DEF Choose, Order, CacheIsRows
  <2>2. rows'[cur'] = rows[r] /\ Of(cur)' = Of(r)
    BY <1>1, <2>1
  <2> QED
    BY <1>1, <2>1, <2>2 DEF ViewIsSaved, ShownInOrder
<1>4. ASSUME view' = view, cur' = cur \/ cur' = None
      PROVE  ViewIsSaved' /\ ShownInOrder'
  <2>1. ViewIsSaved'
    BY <1>1, <1>4 DEF Order, ViewIsSaved
  <2>2. ASSUME cur' # None PROVE cur' = cur /\ cur \in Room
    BY <1>4, <2>2 DEF TypeOK
  <2>3. ShownInOrder'
    <3> SUFFICES ASSUME cur' # None
                 PROVE  /\ Follows(view', rows'[cur'])
                        /\ Of(cur)' \subseteq ToSet(view') \cup Coming(cur)'
                        /\ ToSet(view') \subseteq Of(cur)' \cup Receipt
      BY DEF ShownInOrder
    <3>1. Of(cur)' = Of(cur) /\ Coming(cur)' = Coming(cur) /\ rows'[cur'] = rows[cur]
          /\ cur # None
      BY <1>1, <2>2
    <3> QED
      BY <1>4, <3>1 DEF Order, ShownInOrder
  <2> QED
    BY <2>1, <2>3
<1> QED
  BY <1>2, <1>3, <1>4 DEF Order

LEMMA OrderStep == TypeOK /\ Order /\ [Next]_vars => Order'
<1> SUFFICES ASSUME TypeOK, Order, [Next]_vars PROVE Order'
  OBVIOUS
<1>1. ASSUME NEW r \in Room, SelectRoom(r) \/ OnDbClickGroupMsg(r) PROVE Order'
  BY <1>1, ChooseOrder DEF SelectRoom, OnDbClickGroupMsg, data
<1>2. ASSUME ClearSigns \/ SelectChat \/ UNCHANGED vars PROVE Order'
  BY <1>2, ChooseOrder DEF ClearSigns, SelectChat, vars, data
<1> QED
  BY <1>1, <1>2, ReceiveOrder, OfflineOrder, HandleOrder DEF Next

\* The rows, the caches, the queue and the view keep the order and the room of
\* every message, whichever of its two ways it comes.
THEOREM OrderAlways == Spec => []Order
BY TypeCorrect, OrderInit, OrderStep, PTL DEF Spec

\* In the chosen room a message is below all that came before it, nothing is
\* left out but what is still posted, and nothing else is there but receipts,
\* however choosing a room (GroupChatPage.cpp:477) and the two ways of a message
\* (GroupChatPage.cpp:933, mainDlg.cpp:4271) fall together.
THEOREM ChosenRoomInOrder == Spec => []ShownInOrder
<1>1. Order => ShownInOrder
  BY DEF Order
<1> QED
  BY <1>1, OrderAlways, PTL

=============================================================================
