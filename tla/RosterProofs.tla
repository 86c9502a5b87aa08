------------------------------ MODULE RosterProofs ------------------------------
(***************************************************************************)
(* Proofs about Roster, for any accounts and dialogs.  A friend may be      *)
(* missing in the list for three reasons: WM_ROSTER_ARRIVED is still at the *)
(* front of the queue, CacheFriendList is about to run, or the network      *)
(* thread is about to insert him.  What may take him out is a message of    *)
(* his removal, and then the removal was announced, or the user, and then   *)
(* the cache has lost him first and whoever adds him again inserts another  *)
(* entry.  The invariant says this; the locks the network thread holds      *)
(* follow from where it is.                                                 *)
(***************************************************************************)
EXTENDS Roster, SequenceTheorems, TLAPS

\* Where the network thread is tells the locks it holds and whom it deals with.
Locks ==
  /\ net \in {"idle", "forget"} => held = {}
  /\ net \in {"added", "removing", "unlocked"} => held = {"rosters"}
  /\ net \in {"send", "disable", "box", "enable"} => held = {"listener"}
  /\ net \in {"added", "removing", "unlocked", "forget"} =>
       \E a \in Friend : subject = <<a>>

\* Where the UI thread is tells what it deals with.
Targets ==
  /\ ui \in {"erase", "unlist"} => \E a \in Friend : target = <<a>>
  /\ ui \in {"open", "close"} => \E d \in Dialog : target = <<d>>

\* What is in the queue has happened.
Announced ==
  /\ \A i \in 1..Len(posted) :
       posted[i][1] = "removed" => posted[i][2] \in kicked
  /\ ~filled => rosters = {} /\ posted = <<>> /\ net = "idle"

\* The entry of an account is still to be made.
ToBeListed(a) ==
  \/ posted # <<>> /\ Head(posted) = <<"arrived">>
  \/ ui = "fill"
  \/ net = "added" /\ subject = <<a>>

\* The account of a deletion under way has an entry to lose, and another one
\* when somebody has added it again.
HasSpare(a) ==
  ui \in {"erase", "unlist"} /\ target = <<a>> =>
    /\ listed[a] >= 1
    /\ ui = "unlist" /\ a \in rosters => ToBeListed(a) \/ listed[a] >= 2

Listing ==
  \A a \in Friend :
    /\ a \in rosters \ kicked => ToBeListed(a) \/ listed[a] > 0
    /\ HasSpare(a)

IInv == TypeOK /\ Locks /\ Targets /\ Announced /\ CacheWithinRoster /\ Listing

-----------------------------------------------------------------------------
\* What a queue of messages is after one came and after one went.
LEMMA Queue ==
  ASSUME NEW s \in Seq(Posted)
  PROVE  /\ \A m \in Posted :
              /\ Append(s, m) \in Seq(Posted) /\ Append(s, m) # <<>>
              /\ Len(Append(s, m)) = Len(s) + 1
              /\ \A i \in 1..Len(Append(s, m)) :
                   \/ i \in 1..Len(s) /\ Append(s, m)[i] = s[i]
                   \/ i = Len(s) + 1 /\ Append(s, m)[i] = m
              /\ Head(Append(s, m)) = IF s = <<>> THEN m ELSE Head(s)
         /\ s # <<>> =>
              /\ Tail(s) \in Seq(Posted) /\ Head(s) \in Posted
              /\ Head(s) = s[1] /\ 1 \in 1..Len(s)
              /\ \A i \in 1..Len(Tail(s)) : i + 1 \in 1..Len(s) /\ Tail(s)[i] = s[i + 1]
<1>1. ASSUME NEW m \in Posted
      PROVE  /\ Append(s, m) \in Seq(Posted) /\ Append(s, m) # <<>>
             /\ Len(Append(s, m)) = Len(s) + 1
             /\ \A i \in 1..Len(Append(s, m)) :
                  \/ i \in 1..Len(s) /\ Append(s, m)[i] = s[i]
                  \/ i = Len(s) + 1 /\ Append(s, m)[i] = m
             /\ Head(Append(s, m)) = IF s = <<>> THEN m ELSE Head(s)
  <2>1. /\ Append(s, m) \in Seq(Posted) /\ Len(Append(s, m)) = Len(s) + 1
        /\ Len(s) \in Nat
        /\ \A i \in 1..Len(s) : Append(s, m)[i] = s[i]
        /\ Append(s, m)[Len(s) + 1] = m
    BY AppendProperties, LenProperties
  <2>2. Head(Append(s, m)) = Append(s, m)[1]
    OBVIOUS
  <2>3. s # <<>> => Head(s) = s[1] /\ 1 \in 1..Len(s)
    BY LenProperties, EmptySeq
  <2>4. s = <<>> => Len(s) = 0
    BY EmptySeq
  <2>5. Append(s, m) # <<>>
    BY <2>1, EmptySeq
  <2>6. ASSUME NEW i \in 1..Len(Append(s, m))
        PROVE  \/ i \in 1..Len(s) /\ Append(s, m)[i] = s[i]
               \/ i = Len(s) + 1 /\ Append(s, m)[i] = m
    <3>1. i \in 1..Len(s) \/ i = Len(s) + 1
      BY <2>1
    <3> QED BY <2>1, <3>1
  <2>7. Head(Append(s, m)) = IF s = <<>> THEN m ELSE Head(s)
    <3>1. CASE s = <<>>
      <4>1. Append(s, m)[1] = m
        BY <2>1, <2>4, <3>1
      <4> QED BY <2>2, <3>1, <4>1
    <3>2. CASE s # <<>>
      BY <2>1, <2>2, <2>3, <3>2
    <3> QED BY <3>1, <3>2
  <2> QED BY <2>1, <2>5, <2>6, <2>7
<1>2. ASSUME s # <<>>
      PROVE  /\ Tail(s) \in Seq(Posted) /\ Head(s) \in Posted
             /\ Head(s) = s[1] /\ 1 \in 1..Len(s)
             /\ \A i \in 1..Len(Tail(s)) : i + 1 \in 1..Len(s) /\ Tail(s)[i] = s[i + 1]
  <2>1. /\ Tail(s) \in Seq(Posted) /\ Head(s) \in Posted /\ Len(Tail(s)) = Len(s) - 1
        /\ \A i \in 1..Len(Tail(s)) : Tail(s)[i] = s[i + 1]
    BY <1>2, HeadTailProperties
  <2>2. Head(s) = s[1] /\ 1 \in 1..Len(s)
    BY <1>2, LenProperties, EmptySeq
  <2>3. Len(s) \in Nat
    BY LenProperties
  <2>4. \A i \in 1..(Len(s) - 1) : i + 1 \in 1..Len(s)
    BY <2>3
  <2> QED BY <2>1, <2>2, <2>4
<1> QED BY <1>1, <1>2

\* A message is one of two kinds.
LEMMA Kinds ==
  /\ <<"arrived">> \in Posted /\ <<"arrived">>[1] # "removed"
  /\ \A a \in Friend : /\ <<"removed", a>> \in Posted
                       /\ <<"removed", a>>[1] = "removed"
                       /\ <<"removed", a>>[2] = a
  /\ \A m \in Posted : m[1] = "removed" => m[2] \in Friend /\ m # <<"arrived">>
BY DEF Posted

-----------------------------------------------------------------------------
\* The first state.
LEMMA Initially == Init => IInv
<1> SUFFICES ASSUME Init PROVE IInv
  OBVIOUS
<1>1. TypeOK
  <2>1. posted \in Seq(Posted)
    BY EmptySeq DEF Init
  <2> QED BY <2>1 DEF Init, TypeOK, NetState, UiState, Lock
<1>2. Locks /\ Targets /\ CacheWithinRoster
  BY DEF Init, Locks, Targets, CacheWithinRoster
<1>3. Announced
  <2>1. Len(posted) = 0
    BY EmptySeq DEF Init
  <2> QED BY <2>1 DEF Init, Announced
<1>4. Listing
  BY DEF Init, Listing, HasSpare
<1> QED BY <1>1, <1>2, <1>3, <1>4 DEF IInv

-----------------------------------------------------------------------------
\* Steps that leave cache, list and queue alone, and in which the network
\* thread neither comes to nor leaves OnAddFriendSucc, keep the list right
\* when the UI thread neither comes to nor leaves a deletion.
LEMMA ListingRests ==
  ASSUME IInv, UNCHANGED <<rosters, kicked, posted, listed>>,
         net = "added" => net' = net, net' = "added" => net = "added",
         net = "added" => subject' = subject,
         ui \notin {"fill", "erase", "unlist"}, ui' \notin {"fill", "erase", "unlist"}
  PROVE  Listing'
BY DEF IInv, Listing, HasSpare, ToBeListed

LEMMA ListingOfNet ==
  ASSUME IInv, UNCHANGED <<rosters, kicked, posted, listed, ui, target>>,
         net # "added", net' # "added"
  PROVE  Listing'
BY DEF IInv, Listing, HasSpare, ToBeListed

\* What waits for the UI thread.
LEMMA SendingStep ==
  IInv /\ (handleVCard \/ handleSubscription \/ handleVCardResult \/ CloseBox \/ HandleSent)
    => IInv'
<1> SUFFICES ASSUME IInv, handleVCard \/ handleSubscription \/ handleVCardResult
                          \/ CloseBox \/ HandleSent
             PROVE IInv'
  OBVIOUS
<1> USE DEF handleVCard, handleSubscription, handleVCardResult, CloseBox, HandleSent,
        NetIdle, uiVars, serverVars
<1>1. TypeOK'
  BY DEF IInv, TypeOK, NetState, Lock
<1>2. Locks' /\ Targets' /\ CacheWithinRoster'
  BY DEF IInv, Locks, Targets, CacheWithinRoster
<1>3. Announced'
  <2>1. filled
    BY DEF IInv, Announced
  <2> QED BY <2>1 DEF IInv, Announced
<1>4. Listing'
  BY ListingOfNet
<1> QED BY <1>1, <1>2, <1>3, <1>4 DEF IInv

\* The dialogs.
LEMMA DialogStep ==
  ASSUME IInv, (\E d \in Dialog : Click(d)) \/ AddEventHandler \/ RemoveEventHandler
  PROVE  IInv'
<1> USE DEF Click, AddEventHandler, RemoveEventHandler, Pumping, netVars, serverVars
<1>1. TypeOK'
  BY DEF IInv, TypeOK, UiState, Targets
<1>2. Locks' /\ Targets' /\ CacheWithinRoster' /\ Announced'
  BY DEF IInv, Locks, Targets, CacheWithinRoster, Announced
<1>3. Listing'
  BY ListingRests
<1> QED BY <1>1, <1>2, <1>3 DEF IInv

\* The roster arrives in the cache.
LEMMA HandleRosterStep == IInv /\ handleRoster => IInv'
<1> SUFFICES ASSUME IInv, handleRoster PROVE IInv'
  OBVIOUS
<1> USE DEF handleRoster, Post, netVars, uiVars
<1>1. posted = <<>> /\ rosters = {} /\ net = "idle" /\ posted \in Seq(Posted)
  BY DEF IInv, Announced, TypeOK
<1>2. /\ posted' \in Seq(Posted) /\ posted' # <<>> /\ Head(posted') = <<"arrived">>
      /\ \A i \in 1..Len(posted') : posted'[i] = <<"arrived">>
  <2>1. 1..Len(posted) = {}
    BY <1>1, EmptySeq
  <2> QED BY <1>1, <2>1, Queue, Kinds
<1>3. TypeOK'
  BY <1>2 DEF IInv, TypeOK
<1>4. Locks' /\ Targets' /\ CacheWithinRoster'
  BY DEF IInv, Locks, Targets, CacheWithinRoster
<1>5. Announced'
  BY <1>2, Kinds DEF Announced
<1>6. Listing'
  BY <1>2 DEF IInv, Listing, HasSpare, ToBeListed
<1> QED BY <1>3, <1>4, <1>5, <1>6 DEF IInv

\* A friend comes.
LEMMA AddedStep ==
  IInv /\ ((\E a \in Friend : handleItemAdded(a)) \/ OnAddFriendSucc) => IInv'
<1>1. ASSUME IInv, NEW a \in Friend, handleItemAdded(a) PROVE IInv'
  <2> USE <1>1 DEF handleItemAdded, NetIdle, uiVars, netVars
  <2>1. TypeOK'
    BY DEF IInv, TypeOK, NetState, Lock
  <2>2. Locks' /\ Targets' /\ CacheWithinRoster' /\ Announced'
    BY DEF IInv, Locks, Targets, CacheWithinRoster, Announced
  <2>3. Listing'
    BY DEF IInv, Listing, HasSpare, ToBeListed
  <2> QED BY <2>1, <2>2, <2>3 DEF IInv
<1>2. ASSUME IInv, OnAddFriendSucc PROVE IInv'
  <2> USE <1>2 DEF OnAddFriendSucc, serverVars
  <2> PICK a \in Friend : subject = <<a>>
    BY DEF IInv, Locks
  <2>0. /\ listed \in [Friend -> Nat] /\ listed' = [listed EXCEPT ![a] = listed[a] + 1]
        /\ filled
    BY DEF IInv, TypeOK, Announced
  <2>1. TypeOK'
    BY <2>0 DEF IInv, TypeOK, NetState, Lock
  <2>2. Locks' /\ Targets' /\ CacheWithinRoster' /\ Announced'
    BY DEF IInv, Locks, Targets, CacheWithinRoster, Announced
  <2>3. Listing'
    <3> SUFFICES ASSUME NEW b \in Friend
                 PROVE  /\ b \in rosters' \ kicked' => ToBeListed(b)' \/ listed'[b] > 0
                        /\ HasSpare(b)'
      BY DEF Listing
    <3>1. /\ listed[b] \in Nat /\ (b \in rosters \ kicked => ToBeListed(b) \/ listed[b] > 0)
          /\ HasSpare(b)
      BY <2>0 DEF IInv, Listing
    <3>2. CASE b = a
      <4>1. listed'[b] = listed[b] + 1
        BY <2>0, <3>2
      <4> QED BY <3>1, <4>1 DEF HasSpare, ToBeListed
    <3>3. CASE b # a
      <4>1. listed'[b] = listed[b]
        BY <2>0, <3>3
      <4>2. subject # <<b>>
        BY <3>3
      <4> QED BY <3>1, <4>1, <4>2 DEF HasSpare, ToBeListed
    <3> QED BY <3>2, <3>3
  <2> QED BY <2>1, <2>2, <2>3 DEF IInv
<1> QED BY <1>1, <1>2

\* A friend goes.
LEMMA RemovedStep ==
  IInv /\ (\/ \E a \in Friend : handleItemRemoved(a)
           \/ OnFriendRemoved \/ LeaveAgain \/ Forget) => IInv'
<1>1. ASSUME IInv, NEW a \in Friend, handleItemRemoved(a) PROVE IInv'
  <2> USE <1>1 DEF handleItemRemoved, NetIdle, uiVars, serverVars
  <2>1. TypeOK'
    BY DEF IInv, TypeOK, NetState, Lock
  <2>2. Locks' /\ Targets' /\ CacheWithinRoster' /\ Announced'
    BY DEF IInv, Locks, Targets, CacheWithinRoster, Announced
  <2>3. Listing'
    BY ListingOfNet
  <2> QED BY <2>1, <2>2, <2>3 DEF IInv
<1>2. ASSUME IInv, OnFriendRemoved PROVE IInv'
  <2> USE <1>2 DEF OnFriendRemoved, Post, serverVars, uiVars
  <2> PICK a \in Friend : subject = <<a>>
    BY DEF IInv, Locks
  <2> DEFINE m == <<"removed", a>>
  <2>0. posted \in Seq(Posted) /\ m \in Posted /\ posted' = Append(posted, m)
        /\ kicked' = kicked \cup {a} /\ filled
    BY Kinds DEF IInv, TypeOK, Announced
  <2>1. /\ posted' \in Seq(Posted) /\ posted' # <<>>
        /\ \A i \in 1..Len(posted') : \/ i \in 1..Len(posted) /\ posted'[i] = posted[i]
                                      \/ posted'[i] = m
        /\ posted # <<>> => Head(posted') = Head(posted)
    BY <2>0, Queue
  <2>2. TypeOK'
    BY <2>0, <2>1 DEF IInv, TypeOK, NetState
  <2>3. Locks' /\ Targets' /\ CacheWithinRoster'
    BY DEF IInv, Locks, Targets, CacheWithinRoster
  <2>4. Announced'
    <3>1. ASSUME NEW i \in 1..Len(posted'), posted'[i][1] = "removed"
          PROVE  posted'[i][2] \in kicked'
      BY <2>0, <2>1, <3>1, Kinds DEF IInv, Announced
    <3> QED BY <2>0, <3>1 DEF Announced
  <2>5. Listing'
    <3>1. \A b \in Friend : ToBeListed(b) => ToBeListed(b)'
      BY <2>1 DEF ToBeListed
    <3> QED BY <2>0, <3>1 DEF IInv, Listing, HasSpare
  <2> QED BY <2>2, <2>3, <2>4, <2>5 DEF IInv
<1>3. ASSUME IInv, LeaveAgain PROVE IInv'
  <2> USE <1>3 DEF LeaveAgain, uiVars, serverVars
  <2>1. TypeOK'
    BY DEF IInv, TypeOK, NetState, Lock
  <2>2. Locks' /\ Targets' /\ CacheWithinRoster' /\ Announced'
    BY DEF IInv, Locks, Targets, CacheWithinRoster, Announced
  <2>3. Listing'
    BY ListingOfNet
  <2> QED BY <2>1, <2>2, <2>3 DEF IInv
<1>4. ASSUME IInv, Forget PROVE IInv'
  <2> USE <1>4 DEF Forget, uiVars
  <2>1. TypeOK'
    BY DEF IInv, TypeOK, NetState
  <2>2. Locks' /\ Targets' /\ CacheWithinRoster' /\ Announced'
    BY DEF IInv, Locks, Targets, CacheWithinRoster, Announced
  <2>3. Listing'
    BY DEF IInv, Listing, HasSpare, ToBeListed
  <2> QED BY <2>1, <2>2, <2>3 DEF IInv
<1> QED BY <1>1, <1>2, <1>3, <1>4

\* The list is filled again.
LEMMA FillStep == IInv /\ (RosterArrived \/ CacheFriendList) => IInv'
<1>1. ASSUME IInv, RosterArrived PROVE IInv'
  <2> USE <1>1 DEF RosterArrived, Pumping, netVars, serverVars
  <2>1. /\ posted' \in Seq(Posted)
        /\ \A i \in 1..Len(posted') : i + 1 \in 1..Len(posted) /\ posted'[i] = posted[i + 1]
        /\ filled
    BY Queue DEF IInv, TypeOK, Announced
  <2>2. TypeOK'
    BY <2>1 DEF IInv, TypeOK, UiState
  <2>3. Locks' /\ Targets' /\ CacheWithinRoster'
    BY DEF IInv, Locks, Targets, CacheWithinRoster
  <2>4. Announced'
    BY <2>1 DEF IInv, Announced
  <2>5. Listing'
    BY DEF Listing, HasSpare, ToBeListed
  <2> QED BY <2>2, <2>3, <2>4, <2>5 DEF IInv
<1>2. ASSUME IInv, CacheFriendList PROVE IInv'
  <2> USE <1>2 DEF CacheFriendList, netVars, serverVars
  <2>0. listed \in [Friend -> Nat]
    BY DEF IInv, TypeOK
  <2>1. TypeOK'
    BY <2>0 DEF IInv, TypeOK, UiState
  <2>2. Locks' /\ Targets' /\ CacheWithinRoster' /\ Announced'
    BY DEF IInv, Locks, Targets, CacheWithinRoster, Announced
  <2>3. \A a \in Friend : a \in rosters => listed'[a] > 0
    BY <2>0
  <2>4. Listing'
    BY <2>3 DEF Listing, HasSpare
  <2> QED BY <2>1, <2>2, <2>4 DEF IInv
<1> QED BY <1>1, <1>2

\* One entry goes, if there is one.
LEMMA OneEntry ==
  ASSUME IInv, NEW a \in Friend, Unlist(a)
  PROVE  /\ listed' \in [Friend -> Nat]
         /\ \A b \in Friend : b # a => listed'[b] = listed[b]
         /\ listed[a] \in Nat
         /\ \A n \in Nat : listed[a] >= n + 1 => listed'[a] >= n
<1>1. listed \in [Friend -> Nat] /\ listed[a] \in Nat
  BY DEF IInv, TypeOK
<1>2. listed'[a] = IF listed[a] = 0 THEN 0 ELSE listed[a] - 1
  BY <1>1 DEF Unlist
<1> QED BY <1>1, <1>2 DEF Unlist

\* The message of a removal.
LEMMA FriendRemovedStep == IInv /\ FriendRemoved => IInv'
<1> SUFFICES ASSUME IInv, FriendRemoved PROVE IInv'
  OBVIOUS
<1> USE DEF FriendRemoved, Pumping, netVars, serverVars
<1> DEFINE a == Head(posted)[2]
<1>1. /\ posted' \in Seq(Posted) /\ Head(posted) \in Posted
      /\ \A i \in 1..Len(posted') : i + 1 \in 1..Len(posted) /\ posted'[i] = posted[i + 1]
      /\ Head(posted) = posted[1] /\ 1 \in 1..Len(posted) /\ filled
  BY Queue DEF IInv, TypeOK, Announced
<1>2. a \in Friend /\ a \in kicked /\ Head(posted) # <<"arrived">>
  BY <1>1, Kinds DEF IInv, Announced
<1>3. /\ listed' \in [Friend -> Nat] /\ \A b \in Friend : b # a => listed'[b] = listed[b]
  BY <1>2, OneEntry
<1>4. TypeOK'
  BY <1>1, <1>3 DEF IInv, TypeOK
<1>5. Locks' /\ Targets' /\ CacheWithinRoster'
  BY DEF IInv, Locks, Targets, CacheWithinRoster
<1>6. Announced'
  BY <1>1 DEF IInv, Announced
<1>7. Listing'
  <2> HIDE DEF a
  <2> QED BY <1>2, <1>3 DEF IInv, Listing, HasSpare, ToBeListed
<1> QED BY <1>4, <1>5, <1>6, <1>7 DEF IInv

\* The user deletes a friend.
LEMMA DeletionStep ==
  IInv /\ ((\E a \in Friend : OnDeleteFriend(a)) \/ EraseFriend \/ UnlistFriend) => IInv'
<1>1. ASSUME IInv, NEW a \in Friend, OnDeleteFriend(a) PROVE IInv'
  <2> USE <1>1 DEF OnDeleteFriend, Pumping, netVars, serverVars
  <2>1. TypeOK'
    BY DEF IInv, TypeOK, UiState
  <2>2. Locks' /\ Targets' /\ CacheWithinRoster' /\ Announced'
    BY DEF IInv, Locks, Targets, CacheWithinRoster, Announced
  <2>3. listed[a] >= 1
    BY DEF IInv, TypeOK
  <2>4. Listing'
    BY <2>3 DEF IInv, Listing, HasSpare, ToBeListed
  <2> QED BY <2>1, <2>2, <2>4 DEF IInv
<1>2. ASSUME IInv, EraseFriend PROVE IInv'
  <2> USE <1>2 DEF EraseFriend, netVars, serverVars
  <2>1. TypeOK'
    BY DEF IInv, TypeOK, UiState
  <2>2. Locks' /\ Targets' /\ CacheWithinRoster' /\ Announced'
    BY DEF IInv, Locks, Targets, CacheWithinRoster, Announced
  <2>3. Listing'
    BY DEF IInv, Listing, HasSpare, ToBeListed
  <2> QED BY <2>1, <2>2, <2>3 DEF IInv
<1>3. ASSUME IInv, UnlistFriend PROVE IInv'
  <2> USE <1>3 DEF UnlistFriend, netVars, serverVars
  <2> PICK a \in Friend : target = <<a>>
    BY DEF IInv, Targets
  <2>0. /\ listed' \in [Friend -> Nat] /\ \A b \in Friend : b # a => listed'[b] = listed[b]
        /\ listed[a] >= 2 => listed'[a] >= 1
    BY OneEntry
  <2>1. TypeOK'
    BY <2>0 DEF IInv, TypeOK, UiState
  <2>2. Locks' /\ Targets' /\ CacheWithinRoster' /\ Announced'
    BY DEF IInv, Locks, Targets, CacheWithinRoster, Announced
  <2>3. Listing'
    BY <2>0 DEF IInv, Listing, HasSpare, ToBeListed
  <2> QED BY <2>1, <2>2, <2>3 DEF IInv
<1> QED BY <1>1, <1>2, <1>3

\* Nothing happens.
LEMMA IdleStep == IInv /\ UNCHANGED vars => IInv'
BY DEF IInv, vars, netVars, uiVars, serverVars, TypeOK, Locks, Targets, Announced,
       CacheWithinRoster, Listing, HasSpare, ToBeListed

LEMMA EveryStep == IInv /\ [Next]_vars => IInv'
BY SendingStep, DialogStep, HandleRosterStep, AddedStep, RemovedStep, FillStep,
   FriendRemovedStep, DeletionStep, IdleStep
   DEF Next, Server, NetworkThread, UiThread, User

-----------------------------------------------------------------------------
\* The invariant, for any accounts and dialogs.
THEOREM Invariance == Spec => []IInv
BY Initially, EveryStep, PTL DEF Spec

\* Every variable keeps its type.
THEOREM RosterTypes == Spec => []TypeOK
<1>1. IInv => TypeOK
  BY DEF IInv
<1> QED BY Invariance, <1>1, PTL

\* The network thread never waits for the UI thread with m_csRosters, which the
\* UI thread may take before it handles what was sent.
THEOREM SendsWithoutCache == Spec => []CacheFreeInSend
<1>1. IInv => CacheFreeInSend
  BY DEF IInv, Locks, CacheFreeInSend, CacheFree
<1> QED BY Invariance, <1>1, PTL

\* The cache holds no account the server's roster does not have.
THEOREM NoFormerFriends == Spec => []CacheWithinRoster
<1>1. IInv => CacheWithinRoster
  BY DEF IInv
<1> QED BY Invariance, <1>1, PTL

\* A friend nobody has removed is in the list whenever nothing is under way.
THEOREM FriendsAreListed == Spec => []KeptFriendsAreListed
<1>1. IInv => KeptFriendsAreListed
  BY DEF IInv, TypeOK, Listing, ToBeListed, KeptFriendsAreListed, Quiet, CacheWithinRoster
<1> QED BY Invariance, <1>1, PTL

=============================================================================
