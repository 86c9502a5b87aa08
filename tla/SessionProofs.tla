--------------------------- MODULE SessionProofs ---------------------------
(***************************************************************************)
(* Proofs about Session: its safety properties hold for any number of      *)
(* instances, any of them doubled, any depth of modal boxes and any number *)
(* of failed sends in the queue.                                           *)
(*                                                                         *)
(* The difficulty is that m_hEvent names the handle to close and is        *)
(* overwritten by every OnBtnLogin, so that a box or a late                *)
(* WM_LOGIN_FAILED may close another handle than the one it stands for.    *)
(* The invariant counts the closes that are still to come (Owed).  Each of *)
(* them closes m_hEvent at most, so a handle has leaked as long as two are *)
(* owed, and some handle is open as long as one is.  It holds while no end *)
(* of a connection is reported twice (Clean): a second WM_LOGIN_FAILED is  *)
(* a close that no open handle answers for.                                *)
(***************************************************************************)
EXTENDS Session, SequenceTheorems, TLAPS

\* The end of p's last connection was reported once at most.
Clean(p) == "twice" \notin mishap[p]

\* The closes of m_hEvent still to come: one for each box of OnBtnLogin, one
\* for each WM_LOGIN_FAILED, posted or about to be.
Failures(p) == Len(posted[p]) + (IF net[p] \in {"closing", "failing"} THEN 1
                                                                     ELSE 0)
Owed(p)     == Len(boxes[p]) + Failures(p)

NetUp(p) == net[p] \in {"connecting", "services", "online"}

\* The lock is held through m_hEvent while an attempt or a session is up, and
\* through some handle while a close is owed.
LockInv(p) ==
    Clean(p) =>
        /\ ui[p] = "verify" \/ NetUp(p) => m_hEvent[p] /\ Owed(p) = 0
        /\ Owed(p) >= 1 => m_hEvent[p] \/ leaked[p]
        /\ Owed(p) >= 2 => leaked[p]
        /\ Failures(p) <= 1

\* While the network thread works on a session the UI thread knows it, and it
\* believes it without one only when that one ended early.
FlagInv(p) ==
    /\ ui[p] = "verify" => net[p] = "none"
    /\ ui[p] = "verify" \/ NetUp(p) => posted[p] = << >>
    /\ NetUp(p) /\ ui[p] # "spawned" => m_bLogining[p]
    /\ ~NetUp(p) /\ (m_bLogining[p] \/ ui[p] = "spawned") => "early" \in mishap[p]

\* The window takes commands from WM_LOGIN_SUCCESS to WM_LOGIN_FAILED, and the
\* timer is on from then to the next WM_LOGIN_SUCCESS.
WindowInv(p) ==
    /\ connected[p] => /\ sess[p] = "live" /\ mainWin[p] /\ ui[p] = "loop"
                       /\ ~timer[p]
                       /\ net[p] # "online" => ~m_bLogining[p]
    /\ net[p] = "online" => connected[p]
    /\ mainWin[p] /\ ~connected[p] /\ conflict[p] = -1 => timer[p]

\* A conflict is reported by a session, so that no timer is on, and nothing
\* that could set it follows.
ConflictPending(p) ==
    \/ net[p] \in {"closing", "failing"} /\ streamError[p] = "conflict"
    \/ posted[p] # << >> /\ Head(posted[p]) = "conflict"

ConflictInv(p) ==
    /\ Clean(p) /\ ConflictPending(p) => connected[p]
    /\ Clean(p) /\ conflict[p] # -1 =>
          /\ ~timer[p] /\ mainWin[p] /\ ui[p] = "loop" /\ ~NetUp(p)
          /\ Failures(p) = 0 /\ ~connected[p]

ProcInv(p) == LockInv(p) /\ FlagInv(p) /\ WindowInv(p) /\ ConflictInv(p)

\* The inductive invariant.
IInv == TypeOK /\ (\A p \in Proc : ProcInv(p)) /\ OneLoginPerPC

----------------------------------------------------------------------------
\* What the model's operations on sequences do to the length and the type.
LEMMA SeqFacts ==
    ASSUME NEW S, NEW s \in Seq(S), NEW e \in S
    PROVE  /\ Len(s) \in Nat
           /\ s = << >> <=> Len(s) = 0
           /\ Append(s, e) \in Seq(S) /\ Len(Append(s, e)) = Len(s) + 1
           /\ s # << >> => /\ Tail(s) \in Seq(S) /\ Len(Tail(s)) = Len(s) - 1
                          /\ Front(s) \in Seq(S) /\ Len(Front(s)) = Len(s) - 1
                          /\ Head(s) \in S
<1>1. Append(s, e) \in Seq(S) /\ Len(Append(s, e)) = Len(s) + 1
  BY AppendProperties
<1>2. Len(s) \in Nat /\ (s = << >> <=> Len(s) = 0)
  BY EmptySeq, LenProperties
<1>3. ASSUME s # << >>
      PROVE  Tail(s) \in Seq(S) /\ Len(Tail(s)) = Len(s) - 1 /\ Head(s) \in S
  BY <1>3, HeadTailProperties
<1>4. ASSUME s # << >>
      PROVE  Front(s) \in Seq(S) /\ Len(Front(s)) = Len(s) - 1
  <2>1. \A i \in 1 .. Len(s) - 1 : s[i] \in S
    BY <1>2, ElementOfSeq
  <2>2. Len(s) - 1 \in Int /\ 1 \in Int
    BY <1>2
  <2>3. /\ SubSeq(s, 1, Len(s) - 1) \in Seq(S)
        /\ Len(SubSeq(s, 1, Len(s) - 1))
              = IF 1 <= Len(s) - 1 THEN Len(s) - 1 - 1 + 1 ELSE 0
    BY <2>1, <2>2, SubSeqProperties
  <2>4. \A n, m \in Nat : n # 0 /\ m = (IF 1 <= n - 1 THEN n - 1 - 1 + 1 ELSE 0)
                           => m = n - 1
    OBVIOUS
  <2>5. Len(s) # 0
    BY <1>2, <1>4
  <2>6. Len(SubSeq(s, 1, Len(s) - 1)) \in Nat
    BY <2>3, LenProperties
  <2>7. Len(SubSeq(s, 1, Len(s) - 1)) = Len(s) - 1
    BY <1>2, <2>3, <2>4, <2>5, <2>6
  <2>. QED  BY <2>3, <2>7 DEF Front
<1>. QED  BY <1>1, <1>2, <1>3, <1>4

----------------------------------------------------------------------------
\* Every variable keeps its type (the types of the C++ members).
LEMMA TypeStep == TypeOK /\ [Next]_vars => TypeOK'
<1>1. CASE UNCHANGED vars
  BY <1>1 DEF TypeOK, vars, uiVars, lockVars, netVars
<1>2. ASSUME TypeOK, NEW p \in Proc, Step(p)
      PROVE  TypeOK'
  <2>. USE <1>2 DEF TypeOK, UiState, NetState, BoxKind, Pointer, StreamError,
                    Mishap, uiVars, lockVars, netVars
  <2>0. /\ \A k \in BoxKind : Append(boxes[p], k) \in Seq(BoxKind)
        /\ boxes[p] # << >> => Front(boxes[p]) \in Seq(BoxKind)
        /\ \A e \in StreamError : Append(posted[p], e) \in Seq(StreamError)
        /\ posted[p] # << >> => Tail(posted[p]) \in Seq(StreamError)
        /\ << >> \in Seq(BoxKind) /\ << >> \in Seq(StreamError)
        /\ Len(boxes[p]) \in Nat
    BY SeqFacts, EmptySeq
  <2>r. ASSUME NEW l \in {"off", "on", "corrupt"}, NEW handle \in BOOLEAN,
               Reset(p, l, handle)
        PROVE  TypeOK'
    BY <2>0, <2>r DEF Reset
  <2>1. CASE Launch(p)
    BY <2>0, <2>1 DEF Launch
  <2>2. CASE Quit(p) \/ LoginFailedNoMainWin(p) \/ AnswerConflict(p)
    BY <2>2, <2>r DEF Quit, LoginFailedNoMainWin, AnswerConflict, EndProcess
  <2>3. ASSUME Corrupt(p) PROVE TypeOK'
    BY <2>3, <2>r DEF Corrupt
  <2>b. ASSUME BtnLogin(p)
        PROVE  TypeOK'
    <3>1. CASE AlreadyLoggedIn(p)
      <4>1. boxes' \in [Proc -> Seq(BoxKind)]
        BY <2>0, <3>1 DEF AlreadyLoggedIn
      <4>. QED  BY <3>1, <4>1 DEF AlreadyLoggedIn, CreateEvent
    <3>2. CASE InitLogin(p) /\ ~Corrupt(p)
      <4>1. sess' \in [Proc -> Pointer]
        <5>1. \A x \in Pointer : ClientDeleted(x) \in Pointer
          BY DEF ClientDeleted
        <5>2. sess' = [sess EXCEPT ![p] = ClientDeleted(@)]
          BY <3>2 DEF InitLogin
        <5>. QED  BY <5>1, <5>2
      <4>2. mishap' \in [Proc -> SUBSET Mishap]
        <5>. DEFINE m == IF BoxOpen(p) THEN mishap[p] ELSE {}
        <5>1. m \in SUBSET Mishap /\ mishap' = [mishap EXCEPT ![p] = m]
          BY <3>2 DEF InitLogin
        <5>. HIDE DEF m
        <5>. QED  BY <5>1
      <4>3. m_hEvent' \in [Proc -> BOOLEAN] /\ leaked' \in [Proc -> BOOLEAN]
        BY <3>2 DEF InitLogin, CreateEvent
      <4>4. /\ ui' \in [Proc -> UiState]
            /\ UNCHANGED <<life, boxes, conflict, timer, posted, mainWin,
                           connected, m_bLogining, init_times, net, streamError>>
        BY <3>2 DEF InitLogin
      <4>. QED  BY <4>1, <4>2, <4>3, <4>4
    <3>. QED  BY <2>b, <2>3, <3>1, <3>2 DEF BtnLogin
  <2>4. CASE EnterKey(p) \/ ReconnectTimer(p)
    BY <2>b, <2>4 DEF EnterKey, ReconnectTimer
  <2>5. CASE VerifyTimeout(p)
    <3>1. CASE boxes' = [boxes EXCEPT ![p] = Append(@, "timeout")]
               /\ UNCHANGED lockVars
      <4>1. boxes' \in [Proc -> Seq(BoxKind)]
        BY <2>0, <3>1
      <4>. QED  BY <2>5, <3>1, <4>1 DEF VerifyTimeout
    <3>2. CASE LoginNotStarted(p) /\ UNCHANGED boxes
      <4>1. m_hEvent' \in [Proc -> BOOLEAN] /\ leaked' \in [Proc -> BOOLEAN]
        BY <3>2 DEF LoginNotStarted, CloseEvent
      <4>2. /\ ui' \in [Proc -> UiState] /\ init_times' \in [Proc -> 0..1]
            /\ UNCHANGED <<life, conflict, timer, posted, mainWin, connected,
                           m_bLogining, net, streamError, mishap, sess>>
        BY <2>5 DEF VerifyTimeout
      <4>. QED  BY <3>2, <4>1, <4>2
    <3>. QED  BY <2>5, <3>1, <3>2 DEF VerifyTimeout
  <2>6. CASE VerifyRejected(p)
    <3>1. boxes' \in [Proc -> Seq(BoxKind)]
      BY <2>0, <2>6 DEF VerifyRejected
    <3>. QED  BY <2>6, <3>1 DEF VerifyRejected
  <2>7. CASE VerifyAccepted(p)
    BY <2>7 DEF VerifyAccepted
  <2>8. CASE LoginStarted(p)
    BY <2>8 DEF LoginStarted
  <2>9. CASE DismissBox(p)
    <3>1. m_hEvent' \in [Proc -> BOOLEAN] /\ leaked' \in [Proc -> BOOLEAN]
      BY <2>9 DEF DismissBox, LoginNotStarted, CloseEvent
    <3>2. boxes' \in [Proc -> Seq(BoxKind)]
      BY <2>0, <2>9 DEF DismissBox
    <3>. QED  BY <2>9, <3>1, <3>2 DEF DismissBox
  <2>10. CASE OnConnect(p)
    BY <2>10 DEF OnConnect
  <2>11. CASE \E e \in StreamError : OnDisconnect(p, e)
    <3>. PICK e \in StreamError : OnDisconnect(p, e)
      BY <2>11
    <3>1. mishap' \in [Proc -> SUBSET Mishap]
      <4>. DEFINE m == mishap[p]
                         \cup (IF ui[p] = "spawned" THEN {"early"} ELSE {})
                         \cup (IF net[p] \in {"broken", "again"} THEN {"twice"}
                                                                ELSE {})
      <4>1. m \in SUBSET Mishap /\ mishap' = [mishap EXCEPT ![p] = m]
        BY DEF OnDisconnect, EndFound
      <4>. HIDE DEF m
      <4>. QED  BY <4>1
    <3>2. net' \in [Proc -> NetState] /\ streamError' \in [Proc -> StreamError]
      BY DEF OnDisconnect, EndFound
    <3>. QED  BY <3>1, <3>2 DEF OnDisconnect
  <2>12. CASE PostLoginFailed(p)
    <3>1. posted' \in [Proc -> Seq(StreamError)]
      BY <2>0, <2>12 DEF PostLoginFailed
    <3>. QED  BY <2>12, <3>1 DEF PostLoginFailed, AfterReport
  <2>13. CASE ThreadEnds(p)
    BY <2>13 DEF ThreadEnds
  <2>14. CASE \E e \in StreamError : SendFails(p, e)
    <3>. PICK e \in StreamError : SendFails(p, e)
      BY <2>14
    <3>1. posted' \in [Proc -> Seq(StreamError)]
      BY <2>0 DEF SendFails
    <3>2. mishap' \in [Proc -> SUBSET Mishap]
      <4>. DEFINE m == mishap[p] \cup (IF net[p] = "broken" THEN {"twice"} ELSE {})
      <4>1. m \in SUBSET Mishap /\ mishap' = [mishap EXCEPT ![p] = m]
        BY DEF SendFails
      <4>. HIDE DEF m
      <4>. QED  BY <4>1
    <3>. QED  BY <3>1, <3>2 DEF SendFails
  <2>15. CASE LoginSuccess(p)
    BY <2>15 DEF LoginSuccess, Pumping
  <2>16. CASE LoginFailed(p)
    <3>1. posted' \in [Proc -> Seq(StreamError)]
      BY <2>0, <2>16 DEF LoginFailed
    <3>2. conflict' \in [Proc -> Nat \cup {-1}] /\ timer' \in [Proc -> BOOLEAN]
      BY <2>0, <2>16 DEF LoginFailed
    <3>. QED  BY <2>16, <3>1, <3>2 DEF LoginFailed, CloseEvent
  <2>. QED  BY <2>1, <2>2, <2>3, <2>4, <2>5, <2>6, <2>7, <2>8, <2>9, <2>10,
               <2>11, <2>12, <2>13, <2>14, <2>15, <2>16 DEF Step, CorruptStep
<1>. QED  BY <1>1, <1>2 DEF Next

\* TypeOK holds for every set of instances and whichever of them are doubled.
THEOREM TypeCorrect == Spec => []TypeOK
<1>1. Init => TypeOK
  BY EmptySeq DEF Init, TypeOK, UiState, NetState, BoxKind, Pointer,
                  StreamError, Mishap
<1>. QED  BY <1>1, TypeStep, PTL DEF Spec

----------------------------------------------------------------------------
\* A step of one instance leaves the state of the others alone.
LEMMA Frame ==
    ASSUME TypeOK, NEW p \in Proc, NEW q \in Proc, q # p, Step(p)
    PROVE  /\ life'[q] = life[q] /\ ui'[q] = ui[q] /\ boxes'[q] = boxes[q]
           /\ conflict'[q] = conflict[q] /\ timer'[q] = timer[q]
           /\ posted'[q] = posted[q] /\ mainWin'[q] = mainWin[q]
           /\ connected'[q] = connected[q]
           /\ m_bLogining'[q] = m_bLogining[q] /\ m_hEvent'[q] = m_hEvent[q]
           /\ leaked'[q] = leaked[q] /\ net'[q] = net[q]
           /\ streamError'[q] = streamError[q] /\ sess'[q] = sess[q]
           /\ mishap'[q] = mishap[q]
<1>. USE DEF TypeOK, uiVars, lockVars, netVars
<1>1. CASE Launch(p)
  BY <1>1 DEF Launch
<1>2. ASSUME NEW l, NEW handle, Reset(p, l, handle)
      PROVE  UNCHANGED <<life[q], ui[q], boxes[q], conflict[q], timer[q],
                posted[q], mainWin[q], connected[q], m_bLogining[q],
                m_hEvent[q], leaked[q], net[q], streamError[q], sess[q],
                mishap[q]>>
  BY <1>2 DEF Reset
<1>3. CASE Quit(p) \/ LoginFailedNoMainWin(p) \/ AnswerConflict(p)
  BY <1>2, <1>3 DEF Quit, LoginFailedNoMainWin, AnswerConflict, EndProcess
<1>4. CASE CorruptStep(p) \/ Corrupt(p)
  BY <1>2, <1>4 DEF CorruptStep, Corrupt
<1>5. CASE EnterKey(p) \/ ReconnectTimer(p)
  <2>1. CASE AlreadyLoggedIn(p)
    BY <2>1 DEF AlreadyLoggedIn, CreateEvent
  <2>2. CASE InitLogin(p) /\ ~Corrupt(p)
    BY <2>2 DEF InitLogin, CreateEvent
  <2>. QED  BY <1>4, <1>5, <2>1, <2>2 DEF EnterKey, ReconnectTimer, BtnLogin
<1>6. CASE VerifyTimeout(p)
  BY <1>6 DEF VerifyTimeout, LoginNotStarted, CloseEvent
<1>7. CASE VerifyRejected(p) \/ VerifyAccepted(p)
  BY <1>7 DEF VerifyRejected, VerifyAccepted
<1>8. CASE LoginStarted(p)
  BY <1>8 DEF LoginStarted
<1>9. CASE DismissBox(p)
  BY <1>9 DEF DismissBox, LoginNotStarted, CloseEvent
<1>10. CASE OnConnect(p) \/ ThreadEnds(p)
  BY <1>10 DEF OnConnect, ThreadEnds
<1>11. CASE \E e \in StreamError : OnDisconnect(p, e)
  BY <1>11 DEF OnDisconnect, EndFound
<1>12. CASE PostLoginFailed(p)
  BY <1>12 DEF PostLoginFailed
<1>13. CASE \E e \in StreamError : SendFails(p, e)
  BY <1>13 DEF SendFails
<1>14. CASE LoginSuccess(p)
  BY <1>14 DEF LoginSuccess
<1>15. CASE LoginFailed(p)
  BY <1>15 DEF LoginFailed, CloseEvent
<1>. QED  BY <1>1, <1>3, <1>4, <1>5, <1>6, <1>7, <1>8, <1>9, <1>10, <1>11,
             <1>12, <1>13, <1>14, <1>15 DEF Step

LEMMA OtherInstance ==
    ASSUME TypeOK, NEW p \in Proc, NEW q \in Proc, q # p, Step(p), ProcInv(q)
    PROVE  ProcInv(q)' /\ InUse(q)' = InUse(q) /\ Clean(q)' = Clean(q)
<1>1. Failures(q)' = Failures(q) /\ Owed(q)' = Owed(q) /\ Clean(q)' = Clean(q)
  BY Frame DEF Failures, Owed, Clean
<1>2. LockInv(q)'
  BY Frame, <1>1 DEF ProcInv, LockInv, NetUp
<1>3. FlagInv(q)' /\ InUse(q)' = InUse(q)
  BY Frame DEF ProcInv, FlagInv, NetUp, InUse
<1>4. WindowInv(q)'
  BY Frame DEF ProcInv, WindowInv
<1>5. ConflictInv(q)'
  BY Frame, <1>1 DEF ProcInv, ConflictInv, ConflictPending, NetUp
<1>. QED  BY <1>1, <1>2, <1>3, <1>4, <1>5 DEF ProcInv

----------------------------------------------------------------------------
\* The arithmetic of the closes owed.
LEMMA OwedFacts ==
    ASSUME TypeOK, NEW p \in Proc
    PROVE  /\ Len(boxes[p]) \in Nat /\ (boxes[p] = << >> <=> Len(boxes[p]) = 0)
           /\ Len(posted[p]) \in Nat /\ (posted[p] = << >> <=> Len(posted[p]) = 0)
           /\ Failures(p) \in Nat /\ Owed(p) \in Nat
           /\ Owed(p) = Len(boxes[p]) + Failures(p)
           /\ net[p] \notin {"closing", "failing"} => Failures(p) = Len(posted[p])
           /\ net[p] \in {"closing", "failing"} => Failures(p) = Len(posted[p]) + 1
<1>1. boxes \in [Proc -> Seq(BoxKind)] /\ posted \in [Proc -> Seq(StreamError)]
  BY DEF TypeOK
<1>2. /\ Len(boxes[p]) \in Nat /\ (boxes[p] = << >> <=> Len(boxes[p]) = 0)
      /\ Len(posted[p]) \in Nat /\ (posted[p] = << >> <=> Len(posted[p]) = 0)
  BY <1>1, SeqFacts DEF BoxKind, StreamError
<1>3. CASE net[p] \in {"closing", "failing"}
  <2>1. Failures(p) = Len(posted[p]) + 1
    BY <1>3 DEF Failures
  <2>. QED  BY <1>1, <1>2, <1>3, <2>1 DEF Owed
<1>4. CASE net[p] \notin {"closing", "failing"}
  <2>1. Failures(p) = Len(posted[p]) + 0
    BY <1>4 DEF Failures
  <2>. QED  BY <1>1, <1>2, <1>4, <2>1 DEF Owed
<1>. QED  BY <1>3, <1>4

\* An instance that ends, starts or is corrupt is in no login.
LEMMA ResetInv ==
    ASSUME TypeOK, NEW p \in Proc, NEW l, NEW handle, Reset(p, l, handle)
    PROVE  ProcInv(p)' /\ ~InUse(p)'
<1>1. /\ ui'[p] = "loop" /\ boxes'[p] = << >> /\ conflict'[p] = -1
      /\ posted'[p] = << >> /\ ~mainWin'[p] /\ ~connected'[p]
      /\ ~m_bLogining'[p] /\ net'[p] = "none" /\ mishap'[p] = {}
  BY DEF Reset, TypeOK
<1>2. Len(boxes'[p]) = 0 /\ Len(posted'[p]) = 0
  BY <1>1, EmptySeq
<1>3. Failures(p)' = 0 /\ Owed(p)' = 0
  BY <1>1, <1>2 DEF Failures, Owed
<1>. QED  BY <1>1, <1>3 DEF ProcInv, LockInv, FlagInv, WindowInv, ConflictInv,
                            ConflictPending, NetUp, Clean, InUse

\* OnBtnLogin, from the timer or from the login window.
LEMMA BtnLoginInv ==
    ASSUME TypeOK, NEW p \in Proc, ProcInv(p), Pumping(p), posted[p] = << >>,
           BtnLogin(p), timer[p] \/ ~mainWin[p]
    PROVE  ProcInv(p)'
<1>1. ui[p] = "loop" /\ ~NetUp(p) /\ ~connected[p] /\ ~m_bLogining[p]
  BY DEF BtnLogin, Pumping, ProcInv, FlagInv, WindowInv
<1>2. Clean(p) => conflict[p] = -1
  BY DEF ProcInv, ConflictInv
<1>3. CASE AlreadyLoggedIn(p)
  <2>1. /\ UNCHANGED <<ui, conflict, timer, posted, mainWin, connected,
                       m_bLogining, net, streamError, mishap, sess>>
        /\ boxes' = [boxes EXCEPT ![p] = Append(@, "already")]
        /\ m_hEvent'[p] /\ leaked'[p] = (leaked[p] \/ m_hEvent[p])
    BY <1>3 DEF AlreadyLoggedIn, CreateEvent, netVars, TypeOK
  <2>2. Len(boxes'[p]) = Len(boxes[p]) + 1
    BY <2>1, SeqFacts DEF TypeOK, BoxKind
  <2>3. Failures(p)' = Failures(p) /\ Owed(p)' = Owed(p) + 1
        /\ Failures(p) \in Nat /\ Owed(p) \in Nat
    <3>1. Failures(p)' = Failures(p)
      BY <2>1 DEF Failures
    <3>2. Owed(p)' = Len(boxes'[p]) + Failures(p)'
      BY DEF Owed
    <3>. QED  BY <2>2, <3>1, <3>2, OwedFacts
  <2>4. LockInv(p)'
    <3>1. Owed(p)' >= 2 => Owed(p) >= 1
      BY <2>3
    <3>2. ui'[p] # "verify" /\ ~NetUp(p)'
      BY <1>1, <2>1 DEF NetUp
    <3>3. Clean(p)' = Clean(p)
      BY <2>1 DEF Clean
    <3>. QED  BY <2>1, <2>3, <3>1, <3>2, <3>3 DEF ProcInv, LockInv
  <2>5. FlagInv(p)' /\ WindowInv(p)'
    BY <1>1, <2>1 DEF ProcInv, FlagInv, WindowInv, NetUp
  <2>6. ConflictInv(p)'
    BY <1>1, <2>1, <2>3 DEF ProcInv, ConflictInv, ConflictPending, NetUp, Clean
  <2>. QED  BY <2>4, <2>5, <2>6 DEF ProcInv
<1>4. CASE InitLogin(p) /\ ~Corrupt(p)
  <2>1. /\ UNCHANGED <<boxes, conflict, timer, posted, mainWin, connected,
                       m_bLogining, net, streamError>>
        /\ ui'[p] = "verify" /\ m_hEvent'[p] /\ net[p] = "none"
        /\ mishap'[p] = IF BoxOpen(p) THEN mishap[p] ELSE {}
        /\ ~m_hEvent[p] /\ ~leaked[p]
    BY <1>4 DEF InitLogin, CreateEvent, TypeOK, EventExists
  <2>2. Failures(p) = 0 /\ Failures(p)' = 0
    BY <2>1, OwedFacts DEF Failures
  <2>3. Owed(p) = Len(boxes[p]) /\ Owed(p)' = Len(boxes[p])
        /\ Len(boxes[p]) \in Nat /\ (boxes[p] = << >> <=> Len(boxes[p]) = 0)
    BY <2>1, <2>2, OwedFacts DEF Owed
  <2>4. Clean(p)' => Clean(p) \/ (boxes[p] = << >> /\ conflict[p] = -1)
    BY <2>1 DEF Clean, BoxOpen
  <2>5. Clean(p)' => Owed(p)' = 0
    BY <2>1, <2>3, <2>4 DEF ProcInv, LockInv
  <2>6. LockInv(p)'
    BY <2>1, <2>2, <2>5 DEF LockInv
  <2>7. FlagInv(p)' /\ WindowInv(p)'
    BY <1>1, <2>1 DEF ProcInv, FlagInv, WindowInv, NetUp
  <2>8. ConflictInv(p)'
    BY <1>2, <2>1, <2>4 DEF ConflictInv, ConflictPending
  <2>. QED  BY <2>6, <2>7, <2>8 DEF ProcInv
<1>5. CASE Corrupt(p)
  BY <1>5, ResetInv DEF Corrupt
<1>. QED  BY <1>3, <1>4, <1>5 DEF BtnLogin

\* The network thread reports the end of a connection.
LEMMA OnDisconnectInv ==
    ASSUME TypeOK, NEW p \in Proc, ProcInv(p), NEW e \in StreamError,
           OnDisconnect(p, e)
    PROVE  ProcInv(p)'
<1>1. /\ UNCHANGED <<ui, boxes, conflict, timer, mainWin, connected, posted,
                     m_hEvent, leaked, sess>>
      /\ ~m_bLogining'[p] /\ streamError'[p] = e
      /\ net'[p] \in {"closing", "failing"}
      /\ net[p] \in {"online", "broken", "connecting", "again"}
      /\ net[p] \in {"connecting", "again"} => e = "other"
  BY DEF OnDisconnect, EndFound, TypeOK, uiVars, lockVars
<1>2. /\ ui[p] = "spawned" => "early" \in mishap'[p]
      /\ net[p] \in {"broken", "again"} => "twice" \in mishap'[p]
      /\ "twice" \notin mishap'[p] => "twice" \notin mishap[p]
  BY DEF OnDisconnect, EndFound, TypeOK
<1>3. /\ Clean(p)' => Clean(p) /\ net[p] \in {"online", "connecting"} /\ NetUp(p)
      /\ ~NetUp(p)'
  BY <1>1, <1>2 DEF Clean, NetUp
<1>4. Failures(p)' = Failures(p) + 1 /\ Owed(p)' = Owed(p) + 1
      /\ Failures(p) \in Nat /\ Owed(p) \in Nat /\ Failures(p) <= Owed(p)
  <2>1. Failures(p) = Len(posted[p])
    BY <1>1, OwedFacts
  <2>2. Failures(p)' = Len(posted[p]) + 1
    BY <1>1 DEF Failures
  <2>3. Owed(p)' = Len(boxes[p]) + Failures(p)'
    BY <1>1 DEF Owed
  <2>4. /\ Len(boxes[p]) \in Nat /\ Len(posted[p]) \in Nat
        /\ Failures(p) \in Nat /\ Owed(p) = Len(boxes[p]) + Failures(p)
    BY OwedFacts
  <2>5. Failures(p)' = Failures(p) + 1
    BY <2>1, <2>2
  <2>6. Owed(p)' = Owed(p) + 1
    BY <2>3, <2>4, <2>5
  <2>7. Owed(p) \in Nat /\ Failures(p) <= Owed(p)
    BY <2>4
  <2>. QED  BY <2>4, <2>5, <2>6, <2>7
<1>5. LockInv(p)'
  <2>. SUFFICES ASSUME Clean(p)'
                PROVE  LockInv(p)'
    BY DEF LockInv
  <2>1. m_hEvent[p] /\ Owed(p) = 0 /\ ui[p] # "verify"
    BY <1>3 DEF ProcInv, LockInv, FlagInv, NetUp
  <2>2. Owed(p)' = 1 /\ Failures(p)' <= 1
    BY <1>4, <2>1
  <2>. QED  BY <1>1, <1>3, <2>1, <2>2 DEF LockInv
<1>6. FlagInv(p)' /\ WindowInv(p)'
  BY <1>1, <1>2, <1>3 DEF ProcInv, FlagInv, WindowInv
<1>7. ConflictInv(p)'
  <2>1. Clean(p)' => conflict'[p] = -1
    BY <1>1, <1>3 DEF ProcInv, ConflictInv
  <2>2. Clean(p)' /\ e = "conflict" => connected[p]
    BY <1>1, <1>3 DEF ProcInv, WindowInv
  <2>3. Clean(p)' => posted[p] = << >>
    BY <1>3 DEF ProcInv, FlagInv
  <2>. QED  BY <1>1, <2>1, <2>2, <2>3 DEF ConflictInv, ConflictPending
<1>. QED  BY <1>5, <1>6, <1>7 DEF ProcInv

\* WM_LOGIN_FAILED is posted, by the network thread or by the UI thread itself.
LEMMA PostInv ==
    ASSUME TypeOK, NEW p \in Proc, ProcInv(p), PostLoginFailed(p)
    PROVE  ProcInv(p)'
<1>1. /\ UNCHANGED <<ui, boxes, conflict, timer, mainWin, connected,
                     m_bLogining, m_hEvent, leaked, sess, mishap>>
      /\ posted' = [posted EXCEPT ![p] = Append(@, streamError[p])]
      /\ streamError[p] \in StreamError
      /\ net[p] \in {"closing", "failing"} /\ net'[p] \in {"again", "leaving"}
  BY DEF PostLoginFailed, AfterReport, TypeOK, uiVars, lockVars
<1>2. Len(posted'[p]) = Len(posted[p]) + 1 /\ Len(posted[p]) \in Nat
  BY <1>1, SeqFacts DEF TypeOK, StreamError
<1>3. Failures(p)' = Failures(p) /\ Owed(p)' = Owed(p)
      /\ Failures(p) = Len(posted[p]) + 1
  <2>1. Failures(p)' = Len(posted'[p]) + 0
    BY <1>1 DEF Failures
  <2>2. Failures(p) = Len(posted[p]) + 1
    BY <1>1, OwedFacts
  <2>3. Owed(p)' = Len(boxes[p]) + Failures(p)'
    BY <1>1 DEF Owed
  <2>4. /\ Len(boxes[p]) \in Nat /\ Len(posted[p]) \in Nat
        /\ Failures(p) \in Nat /\ Owed(p) = Len(boxes[p]) + Failures(p)
    BY OwedFacts
  <2>. QED  BY <1>2, <2>1, <2>2, <2>3, <2>4
<1>4. LockInv(p)'
  BY <1>1, <1>3 DEF ProcInv, LockInv, NetUp, Clean
<1>5. FlagInv(p)' /\ WindowInv(p)'
  BY <1>1 DEF ProcInv, FlagInv, WindowInv, NetUp
<1>6. ConflictInv(p)'
  <2>1. Clean(p)' /\ ConflictPending(p)' => ConflictPending(p)
    <3>. SUFFICES ASSUME Clean(p), ConflictPending(p)'
                  PROVE  ConflictPending(p)
      BY <1>1 DEF Clean
    <3>1. Len(posted[p]) = 0
      BY <1>2, <1>3 DEF ProcInv, LockInv
    <3>2. posted[p] = << >>
      BY <3>1, OwedFacts
    <3>3. Head(posted'[p]) = streamError[p]
      <4>1. posted'[p] = Append(<< >>, streamError[p])
        BY <1>1, <3>2 DEF TypeOK
      <4>. QED  BY <4>1
    <3>. QED  BY <1>1, <3>3 DEF ConflictPending
  <2>2. Clean(p) => conflict[p] = -1
    BY <1>2, <1>3 DEF ProcInv, ConflictInv
  <2>. QED  BY <1>1, <2>1, <2>2 DEF ProcInv, ConflictInv, Clean
<1>. QED  BY <1>4, <1>5, <1>6 DEF ProcInv

LEMMA SendFailsInv ==
    ASSUME TypeOK, NEW p \in Proc, ProcInv(p), NEW e \in StreamError,
           SendFails(p, e)
    PROVE  ProcInv(p)'
<1>1. /\ UNCHANGED <<ui, boxes, conflict, timer, mainWin, connected,
                     m_hEvent, leaked, sess, streamError>>
      /\ posted' = [posted EXCEPT ![p] = Append(@, e)]
      /\ ui[p] = "loop" /\ connected[p] /\ ~m_bLogining'[p]
      /\ net[p] \in {"online", "broken"} /\ net'[p] \in {"leaving", "broken"}
  BY DEF SendFails, Pumping, TypeOK, uiVars, lockVars
<1>2. Clean(p)' => Clean(p) /\ net[p] = "online" /\ NetUp(p)
  BY <1>1 DEF SendFails, TypeOK, Clean, NetUp
<1>3. Len(posted'[p]) = Len(posted[p]) + 1 /\ Len(posted[p]) \in Nat
  BY <1>1, SeqFacts DEF TypeOK, StreamError
<1>4. Failures(p)' = Failures(p) + 1 /\ Owed(p)' = Owed(p) + 1
      /\ Failures(p) \in Nat /\ Owed(p) \in Nat /\ Failures(p) <= Owed(p)
  <2>1. Failures(p) = Len(posted[p])
    BY <1>1, OwedFacts
  <2>2. Failures(p)' = Len(posted'[p]) + 0
    BY <1>1 DEF Failures
  <2>3. Owed(p)' = Len(boxes[p]) + Failures(p)'
    BY <1>1 DEF Owed
  <2>4. /\ Len(boxes[p]) \in Nat /\ Len(posted[p]) \in Nat
        /\ Failures(p) \in Nat /\ Owed(p) = Len(boxes[p]) + Failures(p)
    BY OwedFacts
  <2>5. Failures(p)' = Failures(p) + 1
    BY <1>3, <2>1, <2>2
  <2>6. Owed(p)' = Owed(p) + 1
    BY <2>3, <2>4, <2>5
  <2>7. Owed(p) \in Nat /\ Failures(p) <= Owed(p)
    BY <2>4
  <2>. QED  BY <2>4, <2>5, <2>6, <2>7
<1>5. LockInv(p)'
  BY <1>1, <1>2, <1>4 DEF ProcInv, LockInv, NetUp
<1>6. FlagInv(p)' /\ WindowInv(p)'
  BY <1>1 DEF ProcInv, FlagInv, WindowInv, NetUp
<1>7. ConflictInv(p)'
  BY <1>1, <1>2 DEF ProcInv, ConflictInv
<1>. QED  BY <1>5, <1>6, <1>7 DEF ProcInv

\* WM_LOGIN_FAILED in an instance that has its main window.
LEMMA LoginFailedInv ==
    ASSUME TypeOK, NEW p \in Proc, ProcInv(p), LoginFailed(p)
    PROVE  ProcInv(p)'
<1>1. /\ ui[p] = "loop" /\ posted[p] # << >> /\ mainWin[p]
      /\ posted'[p] = Tail(posted[p]) /\ ~connected'[p] /\ ~m_hEvent'[p]
      /\ UNCHANGED <<ui, net, boxes, mainWin, m_bLogining, streamError, mishap,
                     leaked, sess>>
  BY DEF LoginFailed, CloseEvent, Pumping, TypeOK, netVars
<1>2. \/ /\ Head(posted[p]) = "conflict" /\ conflict'[p] = Len(boxes[p])
         /\ timer' = timer
      \/ /\ Head(posted[p]) # "conflict" /\ conflict' = conflict
         /\ timer'[p] = (timer[p] \/ ~m_bLogining[p])
  BY DEF LoginFailed, TypeOK
<1>3. ~NetUp(p) /\ ui[p] # "verify"
  BY <1>1 DEF ProcInv, FlagInv
<1>4. /\ Len(posted[p]) \in Nat /\ Len(posted[p]) >= 1
      /\ Len(posted'[p]) = Len(posted[p]) - 1
      /\ posted'[p] = << >> <=> Len(posted'[p]) = 0
  <2>1. posted[p] \in Seq(StreamError)
    BY DEF TypeOK
  <2>2. Tail(posted[p]) \in Seq(StreamError)
        /\ Len(Tail(posted[p])) = Len(posted[p]) - 1
    BY <1>1, <2>1, SeqFacts DEF StreamError
  <2>3. Tail(posted[p]) = << >> <=> Len(Tail(posted[p])) = 0
    BY <2>2, SeqFacts DEF StreamError
  <2>4. Len(posted[p]) \in Nat /\ Len(posted[p]) # 0
    BY <1>1, OwedFacts
  <2>. QED  BY <1>1, <2>2, <2>3, <2>4
<1>5. Failures(p)' = Failures(p) - 1 /\ Owed(p)' = Owed(p) - 1
      /\ Failures(p) \in Nat /\ Owed(p) \in Nat
  <2>. DEFINE n == IF net[p] \in {"closing", "failing"} THEN 1 ELSE 0
  <2>1. n \in Nat /\ Failures(p) = Len(posted[p]) + n
    BY DEF Failures
  <2>2. Failures(p)' = Len(posted'[p]) + n
    BY <1>1 DEF Failures
  <2>3. Owed(p)' = Len(boxes[p]) + Failures(p)'
    BY <1>1 DEF Owed
  <2>. HIDE DEF n
  <2>4. /\ Len(boxes[p]) \in Nat /\ Len(posted[p]) \in Nat
        /\ Failures(p) \in Nat /\ Owed(p) = Len(boxes[p]) + Failures(p)
    BY OwedFacts
  <2>5. Failures(p)' = Failures(p) - 1
    BY <1>4, <2>1, <2>2
  <2>6. Owed(p)' = Owed(p) - 1
    BY <2>3, <2>4, <2>5
  <2>. QED  BY <2>4, <2>5, <2>6
<1>6. Clean(p) => /\ Failures(p)' = 0 /\ posted'[p] = << >>
                  /\ net[p] \notin {"closing", "failing"}
  <2>. SUFFICES ASSUME Clean(p)
                PROVE  /\ Failures(p)' = 0 /\ posted'[p] = << >>
                       /\ net[p] \notin {"closing", "failing"}
    OBVIOUS
  <2>1. Failures(p) <= 1
    BY DEF ProcInv, LockInv
  <2>2. net[p] \notin {"closing", "failing"} /\ Failures(p) = Len(posted[p])
    BY <1>4, <2>1, OwedFacts
  <2>. QED  BY <1>4, <1>5, <2>1, <2>2
<1>7. Clean(p)' = Clean(p)
  BY <1>1 DEF Clean
<1>8. LockInv(p)'
  BY <1>1, <1>3, <1>5, <1>6, <1>7 DEF ProcInv, LockInv, NetUp
<1>9. FlagInv(p)'
  BY <1>1, <1>3 DEF ProcInv, FlagInv, NetUp
<1>10. WindowInv(p)'
  BY <1>1, <1>2, <1>3, OwedFacts DEF ProcInv, WindowInv, NetUp, TypeOK
<1>11. ConflictInv(p)'
  <2>1. Clean(p) /\ Head(posted[p]) = "conflict" => ~timer[p]
    BY <1>1 DEF ProcInv, ConflictInv, ConflictPending, WindowInv
  <2>2. Clean(p) => conflict[p] = -1
    BY <1>4, <1>5, <1>6 DEF ProcInv, ConflictInv
  <2>. QED  BY <1>1, <1>2, <1>3, <1>6, <1>7, <2>1, <2>2
            DEF ConflictInv, ConflictPending, NetUp
<1>. QED  BY <1>8, <1>9, <1>10, <1>11 DEF ProcInv

\* A step of an instance keeps its part of the invariant.
LEMMA OwnInstance ==
    ASSUME TypeOK, NEW p \in Proc, Step(p), ProcInv(p)
    PROVE  ProcInv(p)'
<1>. USE DEF TypeOK, uiVars, lockVars, netVars, ProcInv, LockInv, FlagInv,
             WindowInv, ConflictInv, ConflictPending, Failures, Owed, NetUp,
             Clean
<1>a. /\ Len(boxes[p]) \in Nat /\ (boxes[p] = << >> <=> Len(boxes[p]) = 0)
      /\ \A k \in BoxKind : Len(Append(boxes[p], k)) = Len(boxes[p]) + 1
      /\ boxes[p] # << >> => Len(Front(boxes[p])) = Len(boxes[p]) - 1
  BY SeqFacts DEF BoxKind
<1>b. Len(posted[p]) \in Nat /\ (posted[p] = << >> <=> Len(posted[p]) = 0)
  BY SeqFacts DEF StreamError
<1>1. CASE Launch(p)
  BY <1>a, <1>b, <1>1 DEF Launch
<1>2. CASE Quit(p) \/ LoginFailedNoMainWin(p) \/ AnswerConflict(p)
  BY <1>2, ResetInv DEF Quit, LoginFailedNoMainWin, AnswerConflict, EndProcess
<1>3. CASE CorruptStep(p)
  BY <1>3, ResetInv DEF CorruptStep, Corrupt
<1>4. CASE EnterKey(p) \/ ReconnectTimer(p)
  BY <1>4, BtnLoginInv DEF EnterKey, ReconnectTimer
<1>5. CASE VerifyTimeout(p)
  BY <1>a, <1>b, <1>5 DEF VerifyTimeout, LoginNotStarted, CloseEvent, BoxKind
<1>6. CASE VerifyRejected(p)
  BY <1>a, <1>b, <1>6 DEF VerifyRejected, BoxKind
<1>7. CASE VerifyAccepted(p)
  BY <1>a, <1>b, <1>7 DEF VerifyAccepted
<1>8. CASE LoginStarted(p)
  BY <1>a, <1>b, <1>8 DEF LoginStarted
<1>9. CASE DismissBox(p)
  BY <1>a, <1>b, <1>9 DEF DismissBox, Pumping, LoginNotStarted, CloseEvent
<1>10. CASE OnConnect(p)
  BY <1>a, <1>b, <1>10 DEF OnConnect
<1>11. CASE \E e \in StreamError : OnDisconnect(p, e)
  BY <1>11, OnDisconnectInv
<1>12. CASE PostLoginFailed(p)
  BY <1>12, PostInv
<1>13. CASE ThreadEnds(p)
  BY <1>a, <1>b, <1>13 DEF ThreadEnds
<1>14. CASE \E e \in StreamError : SendFails(p, e)
  BY <1>14, SendFailsInv
<1>15. CASE LoginSuccess(p)
  BY <1>a, <1>b, <1>15 DEF LoginSuccess, Pumping
<1>16. CASE LoginFailed(p)
  BY <1>16, LoginFailedInv
<1>. QED  BY <1>1, <1>2, <1>3, <1>4, <1>5, <1>6, <1>7, <1>8, <1>9, <1>10,
             <1>11, <1>12, <1>13, <1>14, <1>15, <1>16 DEF Step

\* While one instance is in a login, no step begins one in another.
LEMMA Exclusion ==
    ASSUME IInv, NEW p \in Proc, Step(p), NEW q \in Proc, q # p,
           InUse(q), Clean(q)
    PROVE  ~(InUse(p)' /\ Clean(p)')
<1>t. TypeOK
  BY DEF IInv
<1>1. m_hEvent[q] \/ leaked[q]
  <2>1. CASE net[q] \in {"closing", "failing"}
    <3>1. Failures(q) = Len(posted[q]) + 1 /\ Len(posted[q]) \in Nat
      BY <1>t, <2>1, OwedFacts
    <3>2. Failures(q) >= 1
      BY <3>1
    <3>3. /\ Owed(q) = Len(boxes[q]) + Failures(q)
          /\ Len(boxes[q]) \in Nat /\ Failures(q) \in Nat
      BY <1>t, <2>1, OwedFacts
    <3>4. Owed(q) >= 1
      BY <3>2, <3>3
    <3>. QED  BY <3>4 DEF IInv, ProcInv, LockInv
  <2>2. CASE net[q] \notin {"closing", "failing"}
    BY <2>2 DEF IInv, ProcInv, LockInv, NetUp, InUse
  <2>. QED  BY <2>1, <2>2
<1>2. EventExists
  BY <1>1 DEF EventExists
<1>3. ~(InUse(p) /\ Clean(p))
  BY DEF IInv, OneLoginPerPC, Clean
<1>4. ASSUME NEW l, NEW handle, Reset(p, l, handle)
      PROVE  ~InUse(p)'
  BY <1>4, <1>t, ResetInv
<1>5. ASSUME UNCHANGED mishap, InUse(p)' => InUse(p)
      PROVE  ~(InUse(p)' /\ Clean(p)')
  BY <1>3, <1>5 DEF Clean
<1>. USE DEF InUse, TypeOK, uiVars, lockVars, netVars
<1>6. CASE Launch(p)
  BY <1>5, <1>6 DEF Launch
<1>7. CASE Quit(p) \/ LoginFailedNoMainWin(p) \/ AnswerConflict(p)
  BY <1>4, <1>7 DEF Quit, LoginFailedNoMainWin, AnswerConflict, EndProcess
<1>8. CASE CorruptStep(p)
  BY <1>4, <1>8 DEF CorruptStep, Corrupt
<1>9. CASE EnterKey(p) \/ ReconnectTimer(p)
  <2>1. AlreadyLoggedIn(p)
    BY <1>2, <1>9 DEF EnterKey, ReconnectTimer, BtnLogin, InitLogin
  <2>. QED  BY <1>5, <2>1 DEF AlreadyLoggedIn
<1>10. CASE VerifyTimeout(p) \/ VerifyRejected(p)
  BY <1>5, <1>10, <1>t DEF VerifyTimeout, VerifyRejected
<1>11. CASE VerifyAccepted(p)
  BY <1>5, <1>11, <1>t DEF VerifyAccepted
<1>12. CASE LoginStarted(p)
  BY <1>5, <1>12, <1>t DEF LoginStarted
<1>13. CASE DismissBox(p)
  BY <1>5, <1>13 DEF DismissBox
<1>14. CASE OnConnect(p)
  BY <1>5, <1>14, <1>t DEF OnConnect
<1>15. CASE \E e \in StreamError : OnDisconnect(p, e)
  <2>. PICK e \in StreamError : OnDisconnect(p, e)
    BY <1>15
  <2>1. /\ net[p] \in {"online", "broken", "connecting", "again"}
        /\ net[p] \in {"broken", "again"} => "twice" \in mishap'[p]
        /\ "twice" \notin mishap'[p] => "twice" \notin mishap[p]
    BY <1>t DEF OnDisconnect, EndFound
  <2>. QED  BY <1>3, <2>1 DEF Clean
<1>16. CASE PostLoginFailed(p)
  BY <1>5, <1>16, <1>t DEF PostLoginFailed
<1>17. CASE ThreadEnds(p)
  BY <1>5, <1>17, <1>t DEF ThreadEnds
<1>18. CASE \E e \in StreamError : SendFails(p, e)
  BY <1>18, <1>t DEF SendFails, Pumping
<1>19. CASE LoginSuccess(p)
  BY <1>5, <1>19, <1>t DEF LoginSuccess
<1>20. CASE LoginFailed(p)
  BY <1>5, <1>20 DEF LoginFailed
<1>. QED  BY <1>6, <1>7, <1>8, <1>9, <1>10, <1>11, <1>12, <1>13, <1>14, <1>15,
             <1>16, <1>17, <1>18, <1>19, <1>20 DEF Step

\* The invariant is inductive.
LEMMA Inductive == IInv /\ [Next]_vars => IInv'
<1>1. ASSUME IInv, UNCHANGED vars
      PROVE  IInv'
  BY <1>1 DEF IInv, TypeOK, ProcInv, LockInv, FlagInv, WindowInv, ConflictInv,
              ConflictPending, OneLoginPerPC, InUse, Owed, Failures, NetUp,
              Clean, vars, uiVars, lockVars, netVars
<1>2. ASSUME IInv, NEW p \in Proc, Step(p)
      PROVE  IInv'
  <2>1. TypeOK'
    BY <1>2, TypeStep DEF IInv, Next
  <2>2. ProcInv(p)'
    BY <1>2, OwnInstance DEF IInv
  <2>3. \A q \in Proc : q # p => /\ ProcInv(q)' /\ InUse(q)' = InUse(q)
                                 /\ Clean(q)' = Clean(q)
    BY <1>2, OtherInstance DEF IInv
  <2>4. \A q \in Proc :
            q # p /\ InUse(q) /\ Clean(q) => ~(InUse(p)' /\ Clean(p)')
    BY <1>2, Exclusion
  <2>5. OneLoginPerPC'
    <3>. SUFFICES ASSUME NEW q \in Proc, NEW r \in Proc, q # r,
                         InUse(q)', InUse(r)', Clean(q)', Clean(r)'
                  PROVE  FALSE
      BY DEF OneLoginPerPC, Clean
    <3>1. CASE q # p /\ r # p
      BY <1>2, <2>3, <3>1 DEF IInv, OneLoginPerPC, Clean
    <3>2. CASE q = p \/ r = p
      BY <2>3, <2>4, <3>2
    <3>. QED  BY <3>1, <3>2
  <2>. QED  BY <2>1, <2>2, <2>3, <2>5 DEF IInv
<1>. QED  BY <1>1, <1>2 DEF Next

LEMMA InitInv == Init => IInv
<1>. SUFFICES ASSUME Init PROVE IInv
  OBVIOUS
<1>1. TypeOK
  BY EmptySeq DEF Init, TypeOK, UiState, NetState, BoxKind, Pointer,
                  StreamError, Mishap
<1>2. ASSUME NEW p \in Proc PROVE ProcInv(p) /\ ~InUse(p)
  <2>1. /\ ui[p] = "loop" /\ boxes[p] = << >> /\ conflict[p] = -1
        /\ posted[p] = << >> /\ ~mainWin[p] /\ ~connected[p]
        /\ ~m_bLogining[p] /\ net[p] = "none"
    BY DEF Init
  <2>2. Failures(p) = 0 /\ Owed(p) = 0
    BY <1>1, <2>1, OwedFacts
  <2>. QED  BY <2>1, <2>2 DEF ProcInv, LockInv, FlagInv, WindowInv,
                  ConflictInv, ConflictPending, NetUp, InUse
<1>. QED  BY <1>1, <1>2 DEF IInv, OneLoginPerPC

THEOREM Invariance == Spec => []IInv
  BY InitInv, Inductive, PTL DEF Spec

----------------------------------------------------------------------------
\* At no time do two instances use the account (loginDlg.cpp:545).
THEOREM OneLogin == Spec => []OneLoginPerPC
<1>1. IInv => OneLoginPerPC
  BY DEF IInv
<1>. QED  BY <1>1, Invariance, PTL

\* The main window sends only through managers of a live Client.
THEOREM LiveClient == Spec => []SendsThroughLiveClient
<1>1. IInv => SendsThroughLiveClient
  BY DEF IInv, ProcInv, WindowInv, SendsThroughLiveClient
<1>. QED  BY <1>1, Invariance, PTL

\* A session finds its window open for commands, the timer off and, if no end
\* was reported twice, no box of a login attempt left over.
THEOREM Usable == Spec => []OnlineIsUsable
<1>1. ASSUME IInv PROVE OnlineIsUsable
  <2>. SUFFICES ASSUME NEW p \in Proc, net[p] = "online"
                PROVE  /\ connected[p] /\ ~timer[p]
                       /\ boxes[p] = << >> \/ "twice" \in mishap[p]
    BY DEF OnlineIsUsable
  <2>1. connected[p] /\ ~timer[p]
    BY <1>1 DEF IInv, ProcInv, WindowInv
  <2>2. ASSUME Clean(p) PROVE boxes[p] = << >>
    <3>1. Owed(p) = 0
      BY <1>1, <2>2 DEF IInv, ProcInv, LockInv, NetUp
    <3>2. /\ Len(boxes[p]) \in Nat /\ Failures(p) \in Nat
          /\ Owed(p) = Len(boxes[p]) + Failures(p)
          /\ (boxes[p] = << >> <=> Len(boxes[p]) = 0)
      BY <1>1, OwedFacts DEF IInv
    <3>3. Len(boxes[p]) = 0
      BY <3>1, <3>2
    <3>. QED  BY <3>2, <3>3
  <2>. QED  BY <2>1, <2>2 DEF Clean
<1>. QED  BY <1>1, Invariance, PTL

\* An instance at rest that has lost its connection tries again at the next
\* tick, unless the connection ended early (loginDlg.cpp:520, 648).
THEOREM IdleRetries == Spec => []IdleTriesAgain
<1>1. IInv => IdleTriesAgain
  BY DEF IInv, ProcInv, FlagInv, WindowInv, NetUp, IdleTriesAgain
<1>. QED  BY <1>1, Invariance, PTL

----------------------------------------------------------------------------
\* A step in which InitLogin runs is one of OnBtnLogin, with no message waiting
\* and no event: no close is owed then, so no end is left to be handled.
LEMMA ReloginStep ==
    ASSUME IInv, NEW q \in Proc, Step(q), NEW p \in Proc, Relogin(p)
    PROVE  /\ p = q /\ posted[p] = << >> /\ ~NetUp(p)
           /\ Clean(p) => Owed(p) = 0
           /\ EnterKey(p) \/ ReconnectTimer(p)
<1>t. TypeOK
  BY DEF IInv
<1>1. p = q
  BY <1>t, Frame DEF Relogin
<1>2. BtnLogin(p) /\ Pumping(p) /\ posted[p] = << >> /\ ~EventExists
      /\ (EnterKey(p) \/ ReconnectTimer(p))
  <2>. USE <1>t, <1>1 DEF TypeOK, Relogin, uiVars, lockVars, netVars
  <2>1. ~Launch(p) /\ ~CorruptStep(p)
    BY DEF Launch, CorruptStep, Corrupt, Reset
  <2>2. ~Quit(p) /\ ~LoginFailedNoMainWin(p) /\ ~AnswerConflict(p)
    BY DEF Quit, LoginFailedNoMainWin, AnswerConflict, EndProcess, Reset
  <2>3. ~VerifyTimeout(p) /\ ~VerifyRejected(p) /\ ~VerifyAccepted(p)
    BY DEF VerifyTimeout, VerifyRejected, VerifyAccepted
  <2>4. ~LoginStarted(p) /\ ~DismissBox(p) /\ ~OnConnect(p)
    BY DEF LoginStarted, DismissBox, OnConnect
  <2>5. \A e \in StreamError : ~OnDisconnect(p, e) /\ ~SendFails(p, e)
    BY DEF OnDisconnect, EndFound, SendFails
  <2>6. ~PostLoginFailed(p) /\ ~ThreadEnds(p) /\ ~LoginSuccess(p) /\ ~LoginFailed(p)
    BY DEF PostLoginFailed, ThreadEnds, LoginSuccess, LoginFailed
  <2>7. EnterKey(p) \/ ReconnectTimer(p)
    BY <2>1, <2>2, <2>3, <2>4, <2>5, <2>6 DEF Step
  <2>8. ~AlreadyLoggedIn(p)
    BY DEF AlreadyLoggedIn
  <2>. QED  BY <2>7, <2>8 DEF EnterKey, ReconnectTimer, BtnLogin, InitLogin
<1>3. ~m_bLogining[p] /\ ui[p] = "loop" /\ ~m_hEvent[p] /\ ~leaked[p]
  BY <1>2 DEF BtnLogin, Pumping, EventExists
<1>4. ~NetUp(p)
  BY <1>3 DEF IInv, ProcInv, FlagInv
<1>5. ASSUME Clean(p) PROVE Owed(p) = 0
  <2>1. ~(Owed(p) >= 1) /\ Owed(p) \in Nat
    BY <1>t, <1>3, <1>5, OwedFacts DEF IInv, ProcInv, LockInv
  <2>. QED  BY <2>1
<1>. QED  BY <1>1, <1>2, <1>4, <1>5

\* The Client that InitLogin deletes is that of a session whose end has been
\* reported and handled; only the return of its thread may still be under way.
THEOREM OnlyEndedSessions == Spec => DeletesOnlyEndedSession
<1>1. ASSUME IInv, NEW q \in Proc, Step(q), NEW p \in Proc, Relogin(p)
      PROVE  \/ net[p] \in {"none", "again", "broken", "leaving"}
                /\ posted[p] = << >>
             \/ "twice" \in mishap[p]
  <2>1. posted[p] = << >> /\ ~NetUp(p) /\ (Clean(p) => Owed(p) = 0)
    BY <1>1, ReloginStep
  <2>2. ASSUME Clean(p) PROVE net[p] \notin {"closing", "failing"}
    <3>. SUFFICES ASSUME net[p] \in {"closing", "failing"} PROVE FALSE
      OBVIOUS
    <3>1. Failures(p) = Len(posted[p]) + 1 /\ Len(posted[p]) \in Nat
      BY <1>1, OwedFacts DEF IInv
    <3>2. Failures(p) >= 1
      BY <3>1
    <3>3. /\ Owed(p) = Len(boxes[p]) + Failures(p)
          /\ Len(boxes[p]) \in Nat /\ Failures(p) \in Nat
      BY <1>1, OwedFacts DEF IInv
    <3>4. Owed(p) # 0
      BY <3>2, <3>3
    <3>. QED  BY <2>1, <2>2, <3>4
  <2>3. net[p] \in NetState
    BY <1>1 DEF IInv, TypeOK
  <2>. QED  BY <2>1, <2>2, <2>3 DEF NetUp, NetState, Clean
<1>2. IInv /\ [Next]_vars =>
        [\A p \in Proc : Relogin(p) =>
            \/ /\ net[p] \in {"none", "again", "broken", "leaving"}
               /\ posted[p] = << >>
            \/ "twice" \in mishap[p]]_vars
  BY <1>1 DEF Next
<1>. QED  BY <1>2, Invariance, PTL DEF Spec, DeletesOnlyEndedSession

\* Behind the conflict box neither the timer nor the login window logs in.
THEOREM NoLoginBehind == Spec => NoLoginBehindConflict
<1>1. ASSUME IInv, NEW q \in Proc, Step(q), NEW p \in Proc,
             conflict[p] # -1, Relogin(p)
      PROVE  "twice" \in mishap[p]
  <2>1. EnterKey(p) \/ ReconnectTimer(p)
    BY <1>1, ReloginStep
  <2>2. Clean(p) => ~timer[p] /\ mainWin[p]
    BY <1>1 DEF IInv, ProcInv, ConflictInv
  <2>. QED  BY <2>1, <2>2 DEF EnterKey, ReconnectTimer, Clean
<1>2. IInv /\ [Next]_vars =>
        [\A p \in Proc :
            conflict[p] # -1 /\ Relogin(p) => "twice" \in mishap[p]]_vars
  BY <1>1 DEF Next
<1>. QED  BY <1>2, Invariance, PTL DEF Spec, NoLoginBehindConflict

=============================================================================
