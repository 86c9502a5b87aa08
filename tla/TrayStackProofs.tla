--------------------------- MODULE TrayStackProofs ---------------------------
(***************************************************************************)
(* Proofs about TrayStack, for any set of accounts and a stack of any       *)
(* length.  The invariants of the module are inductive together: that the   *)
(* icon comes back needs that the timer was started over the logo and that  *)
(* m_hiconBeforeFlash is not written again until the stack is empty.        *)
(***************************************************************************)
EXTENDS TrayStack, SequenceTheorems, TLAPS

\* While the icon flashes the recorded icon is the logo.
RecordedIcon == flashing => iconBeforeFlash = "online"

IInv == /\ TrayTypeOK
        /\ FlashesWhileStacked
        /\ IconIsRestored
        /\ RecordedIcon

-----------------------------------------------------------------------------
\* What is left when item i of a sequence goes.
LEMMA RemoveAtFacts ==
  ASSUME NEW S, NEW s \in Seq(S), NEW i \in 1..Len(s)
  PROVE  /\ RemoveAt(s, i) \in Seq(S)
         /\ Len(RemoveAt(s, i)) = Len(s) - 1
         /\ \A j \in 1..(Len(s) - 1) :
              RemoveAt(s, i)[j] = IF j < i THEN s[j] ELSE s[j + 1]
<1> DEFINE l == SubSeq(s, 1, i - 1)
           r == SubSeq(s, i + 1, Len(s))
<1>1. Len(s) \in Nat /\ i \in Nat /\ 1 <= i /\ i <= Len(s)
  OBVIOUS
<1>2. /\ l \in Seq(S) /\ Len(l) = i - 1
      /\ \A j \in 1..(i - 1) : l[j] = s[j]
  BY <1>1, SubSeqProperties
<1>3. /\ r \in Seq(S) /\ Len(r) = Len(s) - i
      /\ \A j \in 1..(Len(s) - i) : r[j] = s[i + j]
  BY <1>1, SubSeqProperties
<1>4. RemoveAt(s, i) = l \o r
  BY DEF RemoveAt
<1> HIDE DEF l, r
<1>5. RemoveAt(s, i) \in Seq(S) /\ Len(RemoveAt(s, i)) = Len(s) - 1
  <2>1. /\ l \o r \in Seq(S)
        /\ Len(l \o r) = Len(l) + Len(r)
    BY <1>2, <1>3, ConcatProperties
  <2>2. Len(l) + Len(r) = Len(s) - 1
    BY <1>1, <1>2, <1>3
  <2> QED BY <1>4, <2>1, <2>2
<1>6. ASSUME NEW j \in 1..(Len(s) - 1)
      PROVE  RemoveAt(s, i)[j] = IF j < i THEN s[j] ELSE s[j + 1]
  <2>1. CASE j < i
    BY <2>1, <1>1, <1>2, <1>3, <1>4, ConcatProperties
  <2>2. CASE ~(j < i)
    <3>1. j - (i - 1) \in 1..(Len(s) - i) /\ i + (j - (i - 1)) = j + 1
      BY <2>2, <1>1
    <3>2. (l \o r)[j] = r[j - (i - 1)]
      BY <2>2, <1>1, <1>2, <1>3, ConcatProperties
    <3> QED BY <2>2, <3>1, <3>2, <1>3, <1>4
  <2> QED BY <2>1, <2>2
<1> QED BY <1>5, <1>6

\* Init and every action keep the invariant.  An action of the tray either
\* leaves everything, pushes an item, removes one or toggles the icon.
LEMMA PushStep ==
  ASSUME IInv, NEW item \in Item, Push(item)
  PROVE  IInv'
<1> USE DEF IInv, TrayTypeOK, Push
<1>1. /\ flashStack' \in Seq(Item)
      /\ flashStack' # <<>>
      /\ Len(flashStack') = Len(flashStack) + 1
      /\ \A i \in 1..Len(flashStack) : flashStack'[i] = flashStack[i]
      /\ flashStack'[Len(flashStack) + 1] = item
  BY AppendProperties
<1>2. TrayTypeOK'
  BY <1>1
<1>3. FlashesWhileStacked' /\ IconIsRestored' /\ RecordedIcon'
  BY <1>1 DEF FlashesWhileStacked, IconIsRestored, RecordedIcon
<1> QED BY <1>2, <1>3

LEMMA RemoveStep ==
  ASSUME IInv, NEW i \in DOMAIN flashStack, StopAt(i)
  PROVE  IInv'
<1> USE DEF IInv, TrayTypeOK, StopAt
<1>1. i \in 1..Len(flashStack) /\ Len(flashStack) \in Nat
  BY LenProperties
<1>2. /\ flashStack' \in Seq(Item)
      /\ Len(flashStack') = Len(flashStack) - 1
      /\ \A j \in 1..(Len(flashStack) - 1) :
           flashStack'[j] = IF j < i THEN flashStack[j] ELSE flashStack[j + 1]
  BY <1>1, RemoveAtFacts
<1>3. flashStack' = <<>> <=> ~(Len(flashStack) > 1)
  <2>1. flashStack' = <<>> <=> Len(flashStack') = 0
    BY <1>2, EmptySeq
  <2> QED BY <1>1, <1>2, <2>1
<1>4. flashing
  BY <1>1, EmptySeq DEF FlashesWhileStacked
<1>5. TrayTypeOK'
  BY <1>2
<1>6. FlashesWhileStacked' /\ IconIsRestored' /\ RecordedIcon'
  BY <1>3, <1>4 DEF FlashesWhileStacked, IconIsRestored, RecordedIcon
<1> QED BY <1>5, <1>6

LEMMA TimerStep == IInv /\ OnFlashTimer => IInv'
<1> SUFFICES ASSUME IInv, OnFlashTimer PROVE IInv'
  OBVIOUS
<1>1. IconOf(Top.kind) \in Icon
  BY DEF IconOf, Icon
<1>2. TrayTypeOK'
  BY <1>1 DEF IInv, TrayTypeOK, OnFlashTimer, Icon
<1> QED BY <1>2 DEF IInv, OnFlashTimer, FlashesWhileStacked, IconIsRestored,
                   RecordedIcon

LEMMA IdleStep == IInv /\ UNCHANGED trayVars => IInv'
BY DEF IInv, TrayTypeOK, trayVars, FlashesWhileStacked, IconIsRestored,
       RecordedIcon

LEMMA FlashStep ==
  ASSUME IInv, NEW kind \in Kind, NEW id \in Id, Flash(kind, id)
  PROVE  IInv'
<1> DEFINE item == [kind |-> kind, id |-> id]
<1>1. item \in Item /\ item.kind = kind /\ item.id = id
  BY DEF Item
<1>2. CASE Push(item)
  BY <1>1, <1>2, PushStep
<1>3. CASE UNCHANGED trayVars
  BY <1>3, IdleStep
<1> QED BY <1>2, <1>3 DEF Flash

LEMMA StopStep ==
  ASSUME IInv, NEW id, StopFlash(id)
  PROVE  IInv'
<1>1. CASE \E i \in OldestOf(id) : StopAt(i)
  BY <1>1, RemoveStep DEF OldestOf, IndicesOf
<1>2. CASE UNCHANGED trayVars
  BY <1>2, IdleStep
<1> QED BY <1>1, <1>2 DEF StopFlash

LEMMA Initially == TrayInit => IInv
<1> SUFFICES ASSUME TrayInit PROVE IInv
  OBVIOUS
<1>1. <<>> \in Seq(Item) /\ DOMAIN <<>> = {}
  OBVIOUS
<1>2. TrayTypeOK
  BY <1>1 DEF TrayInit, TrayTypeOK, Icon
<1>3. FlashesWhileStacked /\ IconIsRestored /\ RecordedIcon
  BY DEF TrayInit, FlashesWhileStacked, IconIsRestored, RecordedIcon
<1> QED BY <1>2, <1>3 DEF IInv

-----------------------------------------------------------------------------
\* The invariant holds whatever the clients of the tray do.
THEOREM Invariance == TraySpec => []IInv
<1>1. IInv /\ [TrayNext]_trayVars => IInv'
  <2> SUFFICES ASSUME IInv, [TrayNext]_trayVars PROVE IInv'
    OBVIOUS
  <2>1. CASE DoFlash
    BY <2>1, FlashStep DEF DoFlash
  <2>2. CASE DoStop
    BY <2>2, StopStep DEF DoStop
  <2>3. CASE StopTop
    BY <2>3, StopStep DEF StopTop
  <2>4. CASE OnFlashTimer
    BY <2>4, TimerStep
  <2>5. CASE UNCHANGED trayVars
    BY <2>5, IdleStep
  <2> QED BY <2>1, <2>2, <2>3, <2>4, <2>5 DEF TrayNext
<1> QED BY Initially, <1>1, PTL DEF TraySpec

\* The tray's variables keep their types: what is on the stack are items and
\* what is shown is an icon.
THEOREM TrayTypes == TraySpec => []TrayTypeOK
BY Invariance, PTL DEF IInv

\* The timer runs exactly while there is an item for it to show
\* (TrayMgr.cpp:297).
THEOREM FlashesRight == TraySpec => []FlashesWhileStacked
BY Invariance, PTL DEF IInv

\* The logo is back whenever nothing flashes (TrayMgr.cpp:283, 321).
THEOREM LogoIsBack == TraySpec => []IconIsRestored
BY Invariance, PTL DEF IInv
=============================================================================
