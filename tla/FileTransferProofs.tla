-------------------------- MODULE FileTransferProofs --------------------------
(***************************************************************************)
(* Proofs about FileTransfer, for any files, chats and bounds: the queue    *)
(* and the thread of CFileControl implement TransferFifo, and a file that   *)
(* waits holds its row.  That a file is never asked for while it waits is   *)
(* not the queue's doing but that of the buttons: only a row that shows its *)
(* buttons can be sent, a file that waits has a row without buttons, and    *)
(* nothing makes them visible again.  Hence the two invariants are proved   *)
(* together.                                                                *)
(***************************************************************************)
EXTENDS FileTransfer, SequenceTheorems, TLAPS

\* No file waits twice.
WaitsOnce ==
    \A i, j \in 1..Len(Pending) : Pending[i] = Pending[j] => i = j

\* A thread at work has its file at the front of its queue.
FrontInUse ==
    /\ up # "idle" => upq # << >>
    /\ down # "idle" => downq # << >>

IInv == TypeOK /\ RowsMatchTasks /\ UploadHoldsItsRow /\ WaitsOnce /\ FrontInUse

-----------------------------------------------------------------------------
\* The directions keep uploads and downloads apart.
LEMMA Directions ==
  /\ Up \cap Down = {} /\ Up \subseteq Key /\ Down \subseteq Key
  /\ NoRow \notin Key
BY NullRow DEF Up, Down

\* The front of a queue and what is behind it.
LEMMA FrontAndRest ==
  ASSUME NEW S, NEW s \in Seq(S), s # << >>
  PROVE  /\ Head(s) \in S /\ Head(s) = s[1]
         /\ Tail(s) \in Seq(S) /\ Len(Tail(s)) = Len(s) - 1
         /\ Len(s) \in Nat \ {0}
         /\ \A i \in 1..(Len(s) - 1) : Tail(s)[i] = s[i + 1]
<1>1. Head(s) = s[1]
  OBVIOUS
<1> QED BY <1>1, HeadTailProperties, EmptySeq

\* A file put in at the back leaves the front where it is.
LEMMA TailOfAppend ==
  ASSUME NEW S, NEW s \in Seq(S), s # << >>, NEW x \in S
  PROVE  Tail(Append(s, x)) = Append(Tail(s), x)
<1> DEFINE a == Append(s, x)
           l == Tail(a)
           r == Append(Tail(s), x)
<1>1. Len(s) \in Nat \ {0} /\ Tail(s) \in Seq(S) /\ Len(Tail(s)) = Len(s) - 1
      /\ \A i \in 1..(Len(s) - 1) : Tail(s)[i] = s[i + 1]
  BY FrontAndRest
<1>2. /\ a \in Seq(S) /\ Len(a) = Len(s) + 1 /\ a[Len(s) + 1] = x
      /\ \A i \in 1..Len(s) : a[i] = s[i]
  BY AppendProperties
<1>3. /\ r \in Seq(S) /\ Len(r) = Len(s) /\ r[Len(s)] = x
      /\ \A i \in 1..(Len(s) - 1) : r[i] = s[i + 1]
  <2>1. /\ r \in Seq(S) /\ Len(r) = Len(Tail(s)) + 1
        /\ \A i \in 1..Len(Tail(s)) : r[i] = Tail(s)[i]
        /\ r[Len(Tail(s)) + 1] = x
    BY <1>1, AppendProperties
  <2> HIDE DEF r
  <2>2. (Len(s) - 1) + 1 = Len(s)
    BY <1>1
  <2> QED BY <1>1, <2>1, <2>2
<1> HIDE DEF a, r
<1>4. a # << >>
  BY <1>1, <1>2, EmptySeq
<1>5. l \in Seq(S) /\ Len(l) = Len(s) /\ \A i \in 1..Len(s) : l[i] = a[i + 1]
  <2>1. l \in Seq(S) /\ Len(l) = Len(a) - 1
        /\ \A i \in 1..(Len(a) - 1) : l[i] = a[i + 1]
    BY <1>2, <1>4, FrontAndRest
  <2>2. Len(a) - 1 = Len(s)
    BY <1>1, <1>2
  <2> HIDE DEF l
  <2> QED BY <2>1, <2>2
<1> HIDE DEF l
<1>6. ASSUME NEW i \in 1..Len(s) PROVE l[i] = r[i]
  <2>1. CASE i = Len(s)
    BY <1>1, <1>2, <1>3, <1>5, <2>1
  <2>2. CASE i # Len(s)
    <3>0. \A n \in Nat : \A m \in 1..n : m # n => m \in 1..(n - 1) /\ m + 1 \in 1..n
      OBVIOUS
    <3>1. i \in 1..(Len(s) - 1) /\ i + 1 \in 1..Len(s)
      BY <1>1, <2>2, <3>0
    <3> QED BY <1>2, <1>3, <1>5, <3>1
  <2> QED BY <2>1, <2>2
<1>7. l = r
  BY <1>3, <1>5, <1>6, SeqEqual
<1> QED BY <1>7 DEF l, a, r

-----------------------------------------------------------------------------
(* The files that wait, under the three things that can happen to them.    *)

LEMMA PendingIsSeq == ASSUME IInv PROVE Pending \in Seq(Up)
<1>1. upq \in Seq(Up) /\ (up = "pop" => upq # << >>)
  BY DEF IInv, TypeOK, FrontInUse
<1>2. CASE up = "pop"
  BY <1>1, <1>2, FrontAndRest DEF Pending
<1>3. CASE up # "pop"
  BY <1>1, <1>3 DEF Pending
<1> QED BY <1>2, <1>3

\* Nothing happens to them if uploads keep their rows and get no buttons.
LEMMA PendingStays ==
  ASSUME IInv, Pending' = Pending,
         \A k \in Up : k \in rows \ buttons => k \in rows' \ buttons'
  PROVE  UploadHoldsItsRow' /\ WaitsOnce'
<1>1. Pending \in Seq(Up)
  BY PendingIsSeq
<1>2. \A i \in 1..Len(Pending) : Pending[i] \in Up
  BY <1>1
<1> QED BY <1>2 DEF IInv, UploadHoldsItsRow, WaitsOnce

\* The front one goes with its row.
LEMMA PendingFinishes ==
  ASSUME IInv, up # "pop", upq # << >>, Pending' = Tail(upq), RemoveRow(Head(upq))
  PROVE  UploadHoldsItsRow' /\ WaitsOnce'
<1>1. Pending = upq /\ upq \in Seq(Up)
  BY DEF IInv, TypeOK, Pending
<1>2. /\ Head(upq) = upq[1] /\ Len(upq) \in Nat \ {0}
      /\ Len(Tail(upq)) = Len(upq) - 1
      /\ \A i \in 1..(Len(upq) - 1) : Tail(upq)[i] = upq[i + 1]
  BY <1>1, FrontAndRest
<1>3. \A i \in 1..(Len(upq) - 1) : i + 1 \in 1..Len(upq) /\ i + 1 # 1
  BY <1>2
<1>4. 1 \in 1..Len(upq)
  BY <1>2
<1>5. \A i \in 1..(Len(upq) - 1) : Tail(upq)[i] # Head(upq)
  BY <1>1, <1>2, <1>3, <1>4 DEF IInv, WaitsOnce
<1>6. \A i \in 1..(Len(upq) - 1) : Tail(upq)[i] \in rows \ buttons
  BY <1>1, <1>2, <1>3 DEF IInv, UploadHoldsItsRow
<1>7. UploadHoldsItsRow'
  BY <1>2, <1>5, <1>6 DEF UploadHoldsItsRow, RemoveRow
<1>8. WaitsOnce'
  <2> SUFFICES ASSUME NEW i \in 1..(Len(upq) - 1), NEW j \in 1..(Len(upq) - 1),
                      Tail(upq)[i] = Tail(upq)[j]
               PROVE  i = j
    BY <1>2 DEF WaitsOnce
  <2>1. upq[i + 1] = upq[j + 1]
    BY <1>2
  <2>2. i + 1 = j + 1
    BY <1>1, <1>3, <2>1 DEF IInv, WaitsOnce
  <2> QED BY <1>2, <2>2
<1> QED BY <1>7, <1>8

\* One more waits, whose row had its buttons.
LEMMA PendingGrows ==
  ASSUME IInv, NEW k \in Up, k \in buttons, Pending' = Append(Pending, k),
         rows' = rows, buttons' = buttons \ {k}
  PROVE  UploadHoldsItsRow' /\ WaitsOnce'
<1> DEFINE n == Len(Pending)
<1>1. Pending \in Seq(Up) /\ n \in Nat
  BY PendingIsSeq, LenProperties
<1>2. /\ Len(Pending') = n + 1 /\ Pending'[n + 1] = k
      /\ \A i \in 1..n : Pending'[i] = Pending[i]
  BY <1>1, AppendProperties
<1>3. \A i \in 1..n : Pending[i] \in rows \ buttons /\ Pending[i] # k
  BY DEF IInv, UploadHoldsItsRow
<1>4. k \in rows
  BY DEF IInv, TypeOK
<1>5. \A i, j \in 1..n : Pending[i] = Pending[j] => i = j
  BY DEF IInv, WaitsOnce
<1> HIDE DEF n
<1>6. ASSUME NEW i \in 1..(n + 1) PROVE i = n + 1 \/ i \in 1..n
  BY <1>1
<1>7. UploadHoldsItsRow'
  BY <1>2, <1>3, <1>4, <1>6 DEF UploadHoldsItsRow
<1>8. WaitsOnce'
  BY <1>2, <1>3, <1>5, <1>6 DEF WaitsOnce
<1> QED BY <1>7, <1>8

-----------------------------------------------------------------------------
(* Every action keeps the invariant.                                       *)

LEMMA Initially == Init => IInv
<1> SUFFICES ASSUME Init PROVE IInv
  OBVIOUS
<1>1. /\ << >> \in Seq(Up) /\ << >> \in Seq(Down)
      /\ << >> \in Seq([file : Up, ok : BOOLEAN])
      /\ << >> \in Seq([file : Up, to : Chat])
      /\ Len(<< >>) = 0
  BY EmptySeq
<1>2. Pending = << >>
  BY DEF Init, Pending
<1>3. TypeOK
  BY <1>1 DEF Init, TypeOK
<1>4. UploadHoldsItsRow /\ WaitsOnce
  BY <1>1, <1>2 DEF UploadHoldsItsRow, WaitsOnce
<1> QED BY <1>3, <1>4 DEF Init, IInv, RowsMatchTasks, FrontInUse

LEMMA UserStep == IInv /\ User => IInv'
<1> SUFFICES ASSUME IInv, User PROVE IInv'
  OBVIOUS
<1> USE Directions DEF IInv
<1>1. ASSUME NEW a \in Chat, SelectChat(a) PROVE IInv'
  <2>1. TypeOK' /\ RowsMatchTasks' /\ FrontInUse'
    BY <1>1 DEF SelectChat, TypeOK, RowsMatchTasks, FrontInUse,
                rowVars, upVars, dnVars
  <2>2. UploadHoldsItsRow' /\ WaitsOnce'
    BY <1>1, PendingStays DEF SelectChat, Pending, rowVars, upVars
  <2> QED BY <2>1, <2>2
<1>2. ASSUME NEW ns \in SUBSET Name, ChooseFiles(ns) PROVE IInv'
  <2> DEFINE keys == {[dir |-> "upload", name |-> n, peer |-> cur] : n \in ns}
  <2>1. keys \subseteq Key
    BY DEF TypeOK, Key
  <2>2. /\ keys \cap m_mapTaskFiles = {}
        /\ AddRows(keys)
        /\ UNCHANGED <<cur, named, upVars, dnVars, crashed>>
    BY <1>2 DEF ChooseFiles
  <2> HIDE DEF keys
  <2>3. TypeOK'
    BY <2>1, <2>2 DEF AddRows, TypeOK, upVars, dnVars
  <2>4. RowsMatchTasks' /\ FrontInUse'
    BY <2>2 DEF AddRows, RowsMatchTasks, FrontInUse, upVars, dnVars
  <2>5. UploadHoldsItsRow' /\ WaitsOnce'
    BY <2>2, PendingStays DEF AddRows, RowsMatchTasks, Pending, upVars
  <2> QED BY <2>3, <2>4, <2>5
<1>3. ASSUME NEW k \in Up, ClickSend(k) PROVE IInv'
  <2>1. upq' = Append(upq, k) /\ upq' \in Seq(Up) /\ upq' # << >>
    BY <1>3, AppendProperties, EmptySeq DEF ClickSend, TypeOK
  <2>2. TypeOK' /\ RowsMatchTasks' /\ FrontInUse'
    BY <1>3, <2>1 DEF ClickSend, TypeOK, RowsMatchTasks, FrontInUse, dnVars
  <2>3. Pending' = Append(Pending, k)
    BY <1>3, <2>1, TailOfAppend DEF ClickSend, Pending, TypeOK, FrontInUse
  <2>4. UploadHoldsItsRow' /\ WaitsOnce'
    BY <1>3, <2>3, PendingGrows DEF ClickSend
  <2> QED BY <2>2, <2>4
<1>4. ASSUME NEW k \in Up, ClickCancel(k) PROVE IInv'
  <2>1. TypeOK' /\ RowsMatchTasks' /\ FrontInUse'
    BY <1>4 DEF ClickCancel, RemoveRow, TypeOK, RowsMatchTasks, FrontInUse,
                upVars, dnVars
  <2>2. UploadHoldsItsRow' /\ WaitsOnce'
    BY <1>4, PendingStays DEF ClickCancel, RemoveRow, Pending, upVars
  <2> QED BY <2>1, <2>2
<1>5. ASSUME ClickUnnamed PROVE IInv'
  <2>1. TypeOK' /\ RowsMatchTasks' /\ FrontInUse'
    BY <1>5 DEF ClickUnnamed, TypeOK, RowsMatchTasks, FrontInUse,
                rowVars, upVars, dnVars
  <2>2. UploadHoldsItsRow' /\ WaitsOnce'
    BY <1>5, PendingStays DEF ClickUnnamed, Pending, rowVars, upVars
  <2> QED BY <2>1, <2>2
<1>6. ASSUME NEW k \in Down, ClickAccept(k) PROVE IInv'
  <2>1. downq' \in Seq(Down) /\ downq' # << >>
    <3>1. downq \in Seq(Down) /\ downq' = Append(downq, k)
      BY <1>6 DEF ClickAccept, TypeOK
    <3>2. downq' \in Seq(Down) /\ Len(downq') = Len(downq) + 1
      BY <3>1, AppendProperties
    <3> QED BY <3>1, <3>2, EmptySeq, LenProperties
  <2>2. TypeOK' /\ RowsMatchTasks' /\ FrontInUse'
    BY <1>6, <2>1 DEF ClickAccept, TypeOK, RowsMatchTasks, FrontInUse, upVars
  <2>3. UploadHoldsItsRow' /\ WaitsOnce'
    BY <1>6, PendingStays DEF ClickAccept, Pending, upVars
  <2> QED BY <2>2, <2>3
<1>7. ASSUME NEW k \in Down, ClickReject(k) PROVE IInv'
  <2>1. TypeOK' /\ RowsMatchTasks' /\ FrontInUse'
    BY <1>7 DEF ClickReject, TypeOK, RowsMatchTasks, FrontInUse, upVars, dnVars
  <2>2. UploadHoldsItsRow' /\ WaitsOnce'
    BY <1>7, PendingStays DEF ClickReject, Pending, upVars
  <2> QED BY <2>1, <2>2
<1> QED BY <1>1, <1>2, <1>3, <1>4, <1>5, <1>6, <1>7 DEF User

LEMMA OfferStep == ASSUME IInv, NEW k \in Down, Offer(k) PROVE IInv'
<1> USE Directions DEF IInv
<1>1. TypeOK' /\ RowsMatchTasks' /\ FrontInUse'
  BY DEF Offer, AddRows, TypeOK, RowsMatchTasks, FrontInUse, upVars, dnVars
<1>2. UploadHoldsItsRow' /\ WaitsOnce'
  BY PendingStays DEF Offer, AddRows, Pending, upVars
<1> QED BY <1>1, <1>2

\* What the two ways an upload can end have in common.
LEMMA UploadEndStep ==
  ASSUME IInv, up \in {"transfer", "tell"}, NEW ok \in BOOLEAN,
         RemoveRow(Head(upq)),
         finished' = Append(finished, [file |-> Head(upq), ok |-> ok]),
         up' = "pop", UNCHANGED <<cur, upq, dnVars>>,
         messages' \in Seq([file : Up, to : Chat]), crashed' \in BOOLEAN
  PROVE  IInv'
<1> USE Directions DEF IInv
<1>1. upq # << >> /\ Head(upq) \in Up
  BY FrontAndRest DEF TypeOK, FrontInUse
<1>2. finished' \in Seq([file : Up, ok : BOOLEAN])
  BY <1>1, AppendProperties DEF TypeOK
<1>3. TypeOK'
  BY <1>1, <1>2 DEF TypeOK, RemoveRow, dnVars
<1>4. RowsMatchTasks' /\ FrontInUse'
  BY <1>1 DEF RowsMatchTasks, FrontInUse, RemoveRow, dnVars
<1>5. Pending' = Tail(upq)
  BY DEF Pending
<1>6. UploadHoldsItsRow' /\ WaitsOnce'
  BY <1>1, <1>5, PendingFinishes
<1> QED BY <1>3, <1>4, <1>6

LEMMA UploadStep == IInv /\ (AddFileMsg \/ UploadThread) => IInv'
<1> SUFFICES ASSUME IInv, AddFileMsg \/ UploadThread PROVE IInv'
  OBVIOUS
<1> USE Directions DEF IInv
<1>1. CASE UploadFront
  <2>1. TypeOK' /\ RowsMatchTasks' /\ FrontInUse'
    BY <1>1 DEF UploadFront, TypeOK, RowsMatchTasks, FrontInUse, rowVars, dnVars
  <2>2. UploadHoldsItsRow' /\ WaitsOnce'
    BY <1>1, PendingStays DEF UploadFront, Pending, rowVars
  <2> QED BY <2>1, <2>2
<1>2. CASE UploadFails
  <2>1. crashed' \in BOOLEAN
    BY <1>2 DEF UploadFails, NoBar
  <2> QED BY <1>2, <2>1, UploadEndStep DEF UploadFails, TypeOK
<1>3. CASE UploadSucceeds
  <2>1. TypeOK' /\ RowsMatchTasks' /\ FrontInUse'
    BY <1>3 DEF UploadSucceeds, TypeOK, RowsMatchTasks, FrontInUse,
                rowVars, dnVars
  <2>2. UploadHoldsItsRow' /\ WaitsOnce'
    BY <1>3, PendingStays DEF UploadSucceeds, Pending, rowVars
  <2> QED BY <2>1, <2>2
<1>4. CASE AddFileMsg
  <2>1. crashed' \in BOOLEAN
    BY <1>4 DEF AddFileMsg, NoBar
  <2>2. Head(upq) \in Up
    BY <1>4, FrontAndRest DEF AddFileMsg, TypeOK, FrontInUse
  <2>3. messages' \in Seq([file : Up, to : Chat])
    BY <1>4, <2>2, AppendProperties DEF AddFileMsg, TypeOK
  <2> QED BY <1>4, <2>1, <2>3, UploadEndStep DEF AddFileMsg
<1>5. CASE UploadPop
  <2>1. upq' \in Seq(Up) /\ Pending' = Pending
    BY <1>5, FrontAndRest DEF UploadPop, Pending, TypeOK, FrontInUse
  <2>2. TypeOK' /\ RowsMatchTasks' /\ FrontInUse'
    BY <1>5, <2>1 DEF UploadPop, TypeOK, RowsMatchTasks, FrontInUse,
                      rowVars, dnVars
  <2>3. UploadHoldsItsRow' /\ WaitsOnce'
    BY <1>5, <2>1, PendingStays DEF UploadPop, rowVars
  <2> QED BY <2>2, <2>3
<1> QED BY <1>1, <1>2, <1>3, <1>4, <1>5 DEF UploadThread

LEMMA DownloadStep == IInv /\ DownloadThread => IInv'
<1> SUFFICES ASSUME IInv, DownloadThread PROVE IInv'
  OBVIOUS
<1> USE Directions DEF IInv
<1>1. CASE DownloadFront
  <2>1. TypeOK' /\ RowsMatchTasks' /\ FrontInUse'
    BY <1>1 DEF DownloadFront, TypeOK, RowsMatchTasks, FrontInUse,
                rowVars, upVars
  <2>2. UploadHoldsItsRow' /\ WaitsOnce'
    BY <1>1, PendingStays DEF DownloadFront, Pending, rowVars, upVars
  <2> QED BY <2>1, <2>2
<1>2. CASE DownloadPart
  <2>1. TypeOK' /\ RowsMatchTasks' /\ FrontInUse'
    BY <1>2 DEF DownloadPart, TypeOK, RowsMatchTasks, FrontInUse,
                rowVars, upVars, dnVars
  <2>2. UploadHoldsItsRow' /\ WaitsOnce'
    BY <1>2, PendingStays DEF DownloadPart, Pending, rowVars, upVars
  <2> QED BY <2>1, <2>2
<1>3. CASE DownloadEnds
  <2>1. downq # << >> /\ Head(downq) \in Down
    BY <1>3, FrontAndRest DEF DownloadEnds, TypeOK, FrontInUse
  <2>2. crashed' \in BOOLEAN
    BY <1>3, <2>1 DEF DownloadEnds, NoBar, TypeOK
  <2>3. TypeOK'
    BY <1>3, <2>1, <2>2 DEF DownloadEnds, RemoveRow, TypeOK, upVars
  <2>4. RowsMatchTasks' /\ FrontInUse'
    BY <1>3, <2>1 DEF DownloadEnds, RemoveRow, RowsMatchTasks, FrontInUse, upVars
  <2>5. UploadHoldsItsRow' /\ WaitsOnce'
    BY <1>3, <2>1, PendingStays DEF DownloadEnds, RemoveRow, Pending, upVars
  <2> QED BY <2>3, <2>4, <2>5
<1>4. CASE DownloadPop
  <2>1. downq' \in Seq(Down)
    BY <1>4, FrontAndRest DEF DownloadPop, TypeOK, FrontInUse
  <2>2. TypeOK' /\ RowsMatchTasks' /\ FrontInUse'
    BY <1>4, <2>1 DEF DownloadPop, TypeOK, RowsMatchTasks, FrontInUse,
                      rowVars, upVars
  <2>3. UploadHoldsItsRow' /\ WaitsOnce'
    BY <1>4, PendingStays DEF DownloadPop, Pending, rowVars, upVars
  <2> QED BY <2>2, <2>3
<1> QED BY <1>1, <1>2, <1>3, <1>4 DEF DownloadThread

LEMMA IdleStep == IInv /\ UNCHANGED vars => IInv'
BY DEF IInv, TypeOK, RowsMatchTasks, UploadHoldsItsRow, WaitsOnce, FrontInUse,
       Pending, vars, rowVars, upVars, dnVars

LEMMA EveryStep == IInv /\ [Next]_vars => IInv'
BY UserStep, OfferStep, UploadStep, DownloadStep, IdleStep DEF Next

-----------------------------------------------------------------------------
\* The invariant holds whatever the user, the server and the threads do.
THEOREM Invariance == Spec => []IInv
BY Initially, EveryStep, PTL DEF Spec

\* Tasks, queues, rows and threads keep their types: only uploads wait in the
\* one queue and downloads in the other, and only a row has buttons.
THEOREM TypeCorrect == Spec => []TypeOK
BY Invariance, PTL DEF IInv

\* A file that waits holds its row and has no buttons (mainDlg.cpp:2494-2499).
THEOREM RowIsHeld == Spec => []UploadHoldsItsRow
BY Invariance, PTL DEF IInv

\* The rows and m_mapTaskFiles agree (mainDlg.cpp:6102, 6128).
THEOREM RowsAgree == Spec => []RowsMatchTasks
BY Invariance, PTL DEF IInv

-----------------------------------------------------------------------------
(* The queue and its thread implement TransferFifo.                        *)

LEMMA FifoInit == Init => Fifo!Init
BY DEF Init, Fifo!Init, Pending

\* A click on send asks for a file that does not wait.
LEMMA SendIsAsk ==
  ASSUME IInv, NEW k \in Up, ClickSend(k)
  PROVE  Fifo!Ask(k)
<1>1. upq \in Seq(Up) /\ (up = "pop" => upq # << >>)
  BY DEF IInv, TypeOK, FrontInUse
<1>2. Pending' = Append(Pending, k)
  BY <1>1, TailOfAppend DEF ClickSend, Pending
<1>3. ~Fifo!Waits(k)
  BY DEF IInv, ClickSend, UploadHoldsItsRow, Fifo!Waits
<1> QED BY <1>2, <1>3 DEF Fifo!Ask, ClickSend

\* The outcome of an upload is the end of the file at the front; its removal
\* from the queue later is not seen.
LEMMA OutcomeIsFinish ==
  ASSUME IInv, up \in {"transfer", "tell"}, NEW ok \in BOOLEAN,
         finished' = Append(finished, [file |-> Head(upq), ok |-> ok]),
         up' = "pop", upq' = upq
  PROVE  Fifo!Finish(ok)
<1>1. Pending = upq /\ Pending' = Tail(upq) /\ upq # << >>
  BY DEF IInv, Pending, FrontInUse
<1> QED BY <1>1 DEF Fifo!Finish

LEMMA FifoStep ==
  ASSUME IInv, [Next]_vars
  PROVE  [Fifo!Next]_<<Pending, finished>>
<1> DEFINE Same == UNCHANGED <<Pending, finished>>
<1>1. CASE User
  <2>1. ASSUME NEW k \in Up, ClickSend(k) PROVE Fifo!Next
    BY <2>1, SendIsAsk DEF Fifo!Next
  <2>2. ASSUME NEW a \in Chat, SelectChat(a) PROVE Same
    BY <2>2 DEF SelectChat, upVars, Pending
  <2>3. ASSUME NEW ns \in SUBSET Name, ChooseFiles(ns) PROVE Same
    BY <2>3 DEF ChooseFiles, upVars, Pending
  <2>4. ASSUME NEW k \in Up, ClickCancel(k) PROVE Same
    BY <2>4 DEF ClickCancel, upVars, Pending
  <2>5. ASSUME ClickUnnamed PROVE Same
    BY <2>5 DEF ClickUnnamed, upVars, Pending
  <2>6. ASSUME NEW k \in Down, ClickAccept(k) \/ ClickReject(k) PROVE Same
    BY <2>6 DEF ClickAccept, ClickReject, upVars, Pending
  <2> HIDE DEF Same
  <2>7. Fifo!Next \/ Same
    BY <1>1, <2>1, <2>2, <2>3, <2>4, <2>5, <2>6 DEF User
  <2> QED BY <2>7 DEF Same
<1>2. CASE AddFileMsg
  BY <1>2, OutcomeIsFinish DEF AddFileMsg, Fifo!Next
<1>3. CASE UploadFails
  BY <1>3, OutcomeIsFinish DEF UploadFails, Fifo!Next
<1>4. CASE UploadFront \/ UploadSucceeds \/ UploadPop
  BY <1>4 DEF UploadFront, UploadSucceeds, UploadPop, Pending
<1>5. CASE DownloadThread
  BY <1>5 DEF DownloadThread, DownloadFront, DownloadPart, DownloadEnds,
              DownloadPop, upVars, Pending
<1>6. CASE \E k \in Down : Offer(k)
  BY <1>6 DEF Offer, upVars, Pending
<1>7. CASE UNCHANGED vars
  BY <1>7 DEF vars, upVars, Pending
<1> QED BY <1>1, <1>2, <1>3, <1>4, <1>5, <1>6, <1>7 DEF Next, UploadThread

\* Every file sent is dealt with once and in order (FileControl.cpp:63-90).
THEOREM Implements == Spec => UploadsOnceInOrder
BY Invariance, FifoInit, FifoStep, PTL DEF Spec, UploadsOnceInOrder, Fifo!Spec

=============================================================================
