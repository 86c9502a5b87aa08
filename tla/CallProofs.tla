------------------------------ MODULE CallProofs ------------------------------
(***************************************************************************)
(* The call window and the calls, for any number of calls, events and       *)
(* boxes: TypeOK, HangUpWorks, LiveCallIsShown and ShownCallIsLive.         *)
(*                                                                          *)
(* The properties speak of a window at rest.  The invariant says what is    *)
(* still to come before it is: the ends of calls the SDK is to report       *)
(* (Unreported), those that are posted (Ends) or reported by a box          *)
(* (Failed), and the threads between a hang-up and the hiding of the        *)
(* window, between ShowWindow and m_bIsActive.                              *)
(***************************************************************************)
EXTENDS Call, SequenceTheorems, TLAPS

EndOf(e)  == {c \in Call : e = <<"hangup", <<c>>>> \/ e = <<"dialFailed", <<c>>>>}
FailOf(b) == {c \in Call : b.kind = "failed" /\ b.call = <<c>>}

EndsOf(p)   == {c \in Call : \E i \in 1 .. Len(p) : c \in EndOf(p[i])}
FailedOf(s) == {c \in Call : \E i \in 1 .. Len(s) : c \in FailOf(s[i])}

Ends   == EndsOf(posted)
Failed == FailedOf(boxes)
Lost   == abandoned \cup mixed

Unreported == {c \in Call : line[c] = "over" /\ c \notin told}

\* The window goes, once what was begun is done.
Closing == Ends # {} \/ Failed # {} \/ Unreported # {}

EndIsHidden    == (shown \/ active) /\ ui # "hide" => status # "END"
ActiveIsShown  == active => shown \/ net = "inactive"
EndedIsOver    == \A c \in Ends \cup Failed : line[c] = "over"
ToldIsOver     == \A c \in told : line[c] = "over"
HungUpIsOver   == ui = "hide" => Live \subseteq Lost
LiveHasWindow  == shown \/ ui = "launch" \/ Live \subseteq Lost
DialHasLive    == ui = "launch" /\ unheard = {} /\ Live = {} => Closing
WindowHasLive  ==
  shown /\ active /\ unheard = {} /\ Live = {} => Closing \/ net = "inactive"

IInv == /\ TypeOK
        /\ EndIsHidden
        /\ ActiveIsShown
        /\ EndedIsOver
        /\ ToldIsOver
        /\ HungUpIsOver
        /\ LiveHasWindow
        /\ DialHasLive
        /\ WindowHasLive

-----------------------------------------------------------------------------
(* The queue and the boxes *)

LEMMA PostedAppend ==
  ASSUME NEW p \in Seq(Posted), NEW e \in Posted
  PROVE  /\ Append(p, e) \in Seq(Posted)
         /\ EndsOf(Append(p, e)) = EndsOf(p) \cup EndOf(e)
<1> DEFINE q == Append(p, e)
<1>1. q \in Seq(Posted) /\ Len(q) = Len(p) + 1 /\ q[Len(p) + 1] = e
  OBVIOUS
<1>2. \A i \in 1 .. Len(p) : q[i] = p[i]
  OBVIOUS
<1>3. 1 .. (Len(p) + 1) = (1 .. Len(p)) \cup {Len(p) + 1}
  OBVIOUS
<1>4. \A x : EndOf(x) \subseteq Call
  BY DEF EndOf
<1> HIDE DEF q
<1>5. EndsOf(q) \subseteq EndsOf(p) \cup EndOf(e)
  BY <1>1, <1>2, <1>3 DEF EndsOf
<1>6. EndsOf(p) \cup EndOf(e) \subseteq EndsOf(q)
  BY <1>1, <1>2, <1>3, <1>4 DEF EndsOf
<1> QED
  BY <1>1, <1>5, <1>6 DEF q

LEMMA PostedTail ==
  ASSUME NEW p \in Seq(Posted), p # <<>>
  PROVE  /\ Tail(p) \in Seq(Posted) /\ Head(p) \in Posted
         /\ EndsOf(p) = EndOf(Head(p)) \cup EndsOf(Tail(p))
<1> DEFINE q == Tail(p)
<1>1. q \in Seq(Posted) /\ Len(q) = Len(p) - 1 /\ Len(p) > 0
  OBVIOUS
<1>2. \A i \in 1 .. (Len(p) - 1) : q[i] = p[i + 1] /\ i + 1 \in 1 .. Len(p)
  BY <1>1
<1>3. \A i \in 1 .. Len(p) : i = 1 \/ (i - 1 \in 1 .. (Len(p) - 1) /\ q[i - 1] = p[i])
  BY <1>1
<1>4. Head(p) = p[1] /\ 1 \in 1 .. Len(p)
  BY <1>1
<1>5. \A x : EndOf(x) \subseteq Call
  BY DEF EndOf
<1> HIDE DEF q
<1>6. EndsOf(p) \subseteq EndOf(Head(p)) \cup EndsOf(q)
  BY <1>1, <1>3, <1>4 DEF EndsOf
<1>7. EndOf(Head(p)) \cup EndsOf(q) \subseteq EndsOf(p)
  BY <1>1, <1>2, <1>4, <1>5 DEF EndsOf
<1> QED
  BY <1>1, <1>4, <1>6, <1>7 DEF q

LEMMA BoxAppend ==
  ASSUME NEW s \in Seq(Box), NEW b \in Box
  PROVE  /\ Append(s, b) \in Seq(Box)
         /\ FailedOf(Append(s, b)) = FailedOf(s) \cup FailOf(b)
<1> DEFINE q == Append(s, b)
<1>1. q \in Seq(Box) /\ Len(q) = Len(s) + 1 /\ q[Len(s) + 1] = b
  OBVIOUS
<1>2. \A i \in 1 .. Len(s) : q[i] = s[i]
  OBVIOUS
<1>3. 1 .. (Len(s) + 1) = (1 .. Len(s)) \cup {Len(s) + 1}
  OBVIOUS
<1>4. \A x : FailOf(x) \subseteq Call
  BY DEF FailOf
<1> HIDE DEF q
<1>5. FailedOf(q) \subseteq FailedOf(s) \cup FailOf(b)
  BY <1>1, <1>2, <1>3 DEF FailedOf
<1>6. FailedOf(s) \cup FailOf(b) \subseteq FailedOf(q)
  BY <1>1, <1>2, <1>3, <1>4 DEF FailedOf
<1> QED
  BY <1>1, <1>5, <1>6 DEF q

\* The topmost box is taken from the others.
LEMMA BoxFront ==
  ASSUME NEW s \in Seq(Box), s # <<>>
  PROVE  /\ s[Len(s)] \in Box
         /\ SubSeq(s, 1, Len(s) - 1) \in Seq(Box)
         /\ FailedOf(s) = FailedOf(SubSeq(s, 1, Len(s) - 1)) \cup FailOf(s[Len(s)])
<1> DEFINE q == SubSeq(s, 1, Len(s) - 1)
<1>1. Len(s) \in Nat /\ Len(s) > 0
  OBVIOUS
<1>2. /\ q \in Seq(Box) /\ Len(q) = Len(s) - 1
      /\ \A i \in 1 .. (Len(s) - 1) : q[i] = s[i]
  <2> DEFINE n == Len(s) - 1
  <2>1. n \in Nat /\ \A i \in 1 .. n : s[i] \in Box
    BY <1>1
  <2> HIDE DEF n
  <2>2. /\ SubSeq(s, 1, n) \in Seq(Box)
        /\ Len(SubSeq(s, 1, n)) = IF 1 <= n THEN n - 1 + 1 ELSE 0
        /\ \A i \in 1 .. n - 1 + 1 : SubSeq(s, 1, n)[i] = s[1 + i - 1]
    BY <2>1, SubSeqProperties
  <2>3. Len(SubSeq(s, 1, n)) = n /\ \A i \in 1 .. n : SubSeq(s, 1, n)[i] = s[i]
    BY <2>1, <2>2
  <2> QED
    BY <2>2, <2>3 DEF n
<1>3. \A i \in 1 .. (Len(s) - 1) : q[i] = s[i]
  BY <1>2
<1>4. 1 .. Len(s) = (1 .. (Len(s) - 1)) \cup {Len(s)}
  BY <1>1
<1>5. \A x : FailOf(x) \subseteq Call
  BY DEF FailOf
<1> HIDE DEF q
<1>6. FailedOf(s) \subseteq FailedOf(q) \cup FailOf(s[Len(s)])
  BY <1>2, <1>3, <1>4 DEF FailedOf
<1>7. FailedOf(q) \cup FailOf(s[Len(s)]) \subseteq FailedOf(s)
  BY <1>2, <1>3, <1>4, <1>5 DEF FailedOf
<1>8. s[Len(s)] \in Box
  BY <1>1
<1> QED
  BY <1>2, <1>6, <1>7, <1>8 DEF q

LEMMA EndOfEvents ==
  ASSUME NEW c \in Call
  PROVE  /\ EndOf(<<"hangup", <<c>>>>) = {c} /\ EndOf(<<"dialFailed", <<c>>>>) = {c}
         /\ EndOf(<<"alerting", <<c>>>>) = {} /\ EndOf(<<"answer", <<c>>>>) = {}
         /\ EndOf(<<"incoming", <<c>>>>) = {} /\ EndOf(<<"callback", <<>>>>) = {}
BY DEF EndOf

LEMMA EndOfCallBack == EndOf(<<"callback", <<>>>>) = {}
BY DEF EndOf

-----------------------------------------------------------------------------
LEMMA InitIInv == Init => IInv
<1> SUFFICES ASSUME Init PROVE IInv
  OBVIOUS
<1>1. TypeOK
  <2>1. /\ line \in [Call -> LineState] /\ status \in Status /\ ui \in UiState
        /\ net \in NetState
    BY DEF Init, LineState, Status, UiState, NetState
  <2>2. posted \in Seq(Posted) /\ boxes \in Seq(Box)
    BY DEF Init
  <2> QED
    BY <2>1, <2>2 DEF Init, TypeOK
<1>2. Ends = {} /\ Failed = {} /\ Live = {}
  BY DEF Init, Ends, Failed, EndsOf, FailedOf, Live
<1> QED
  BY <1>1, <1>2 DEF Init, IInv, EndIsHidden, ActiveIsShown, EndedIsOver, ToldIsOver,
     HungUpIsOver, LiveHasWindow, DialHasLive, WindowHasLive

-----------------------------------------------------------------------------
(* What the operators of the actions do to Ends and Failed *)

LEMMA Notified ==
  ASSUME TypeOK, NEW e \in Event, NEW c \in Call, Notify(e, c)
  PROVE  /\ posted' \in Seq(Posted)
         /\ active => Ends' = Ends \cup EndOf(<<e, <<c>>>>)
         /\ ~active => Ends' = Ends
         /\ e \notin {"hangup", "dialFailed"} => Ends' = Ends
<1>0. e \notin {"hangup", "dialFailed"} => EndOf(<<e, <<c>>>>) = {}
  BY DEF EndOf
<1>1. posted \in Seq(Posted) /\ <<e, <<c>>>> \in Posted
  BY DEF TypeOK, Posted, Single
<1>2. CASE active /\ posted' = Append(posted, <<e, <<c>>>>)
  <2>1. posted' \in Seq(Posted) /\ Ends' = Ends \cup EndOf(<<e, <<c>>>>)
    BY <1>1, <1>2, PostedAppend DEF Ends
  <2> QED
    BY <1>0, <1>2, <2>1
<1>3. CASE ~active /\ posted' = posted
  BY <1>1, <1>3 DEF Ends
<1> QED
  BY <1>2, <1>3 DEF Notify

LEMMA Taken ==
  ASSUME TypeOK, NEW e \in Event, Take(e)
  PROVE  /\ posted' \in Seq(Posted)
         /\ \E c \in Call : Head(posted) = <<e, <<c>>>> /\ Subject = {c}
                             /\ Ends = EndOf(<<e, <<c>>>>) \cup Ends'
<1>1. posted \in Seq(Posted) /\ posted # <<>>
  BY DEF TypeOK, Take
<1>2. /\ Tail(posted) \in Seq(Posted) /\ Head(posted) \in Posted
      /\ Ends = EndOf(Head(posted)) \cup EndsOf(Tail(posted))
  BY <1>1, PostedTail DEF Ends
<1>3. posted' = Tail(posted) /\ Head(posted)[1] = e
  BY DEF Take
<1>4. PICK c \in Call : Head(posted) = <<e, <<c>>>>
  BY <1>2, <1>3 DEF Posted, Single, Event
<1>5. Head(posted)[2][1] = c
  BY <1>4
<1> QED
  BY <1>2, <1>3, <1>4, <1>5 DEF Ends, Subject

LEMMA TakenCallBack ==
  ASSUME TypeOK, Take("callback")
  PROVE  posted' \in Seq(Posted) /\ Ends' = Ends
<1>1. posted \in Seq(Posted) /\ posted # <<>>
  BY DEF TypeOK, Take
<1>2. /\ Tail(posted) \in Seq(Posted) /\ Head(posted) \in Posted
      /\ Ends = EndOf(Head(posted)) \cup EndsOf(Tail(posted))
  BY <1>1, PostedTail DEF Ends
<1>3. posted' = Tail(posted) /\ Head(posted)[1] = "callback"
  BY DEF Take
<1>4. EndOf(Head(posted)) = {}
  BY <1>3 DEF EndOf
<1> QED
  BY <1>2, <1>3, <1>4 DEF Ends

LEMMA CallBoxOpened ==
  ASSUME TypeOK, NEW k \in CallBox, NEW c \in Call, boxes' = Opened(k, <<c>>)
  PROVE  /\ boxes' \in Seq(Box)
         /\ Failed' = Failed \cup (IF k = "failed" THEN {c} ELSE {})
<1> DEFINE b == [kind |-> k, call |-> <<c>>, gone |-> FALSE]
<1>1. boxes \in Seq(Box) /\ b \in Box
  BY DEF TypeOK, Box, Single
<1>2. FailOf(b) = IF k = "failed" THEN {c} ELSE {}
  BY DEF FailOf
<1>3. boxes' = Append(boxes, b)
  BY DEF Opened, NewBox
<1> HIDE DEF b
<1> QED
  BY <1>1, <1>2, <1>3, BoxAppend DEF Failed

LEMMA PlainBoxOpened ==
  ASSUME TypeOK, NEW k \in PlainBox, boxes' = Opened(k, <<>>)
  PROVE  boxes' \in Seq(Box) /\ Failed' = Failed
<1> DEFINE b == [kind |-> k, call |-> <<>>, gone |-> FALSE]
<1>1. boxes \in Seq(Box) /\ b \in Box
  BY DEF TypeOK, Box
<1>2. FailOf(b) = {}
  BY DEF FailOf, PlainBox
<1>3. boxes' = Append(boxes, b)
  BY DEF Opened, NewBox
<1> HIDE DEF b
<1> QED
  BY <1>1, <1>2, <1>3, BoxAppend DEF Failed

LEMMA BoxReturned ==
  ASSUME TypeOK, NEW k, Returns(k)
  PROVE  /\ boxes' \in Seq(Box) /\ ui = "loop"
         /\ Failed = Failed' \cup FailOf(Top)
         /\ k # "failed" => Failed' = Failed
         /\ k \in CallBox => \E c \in Call : Top.call = <<c>> /\ Top.call[1] = c
<1>1. boxes \in Seq(Box) /\ boxes # <<>> /\ Top.kind = k /\ boxes' = Closed /\ ui = "loop"
  BY DEF TypeOK, Returns, Ended
<1>2. /\ Top \in Box /\ Closed \in Seq(Box)
      /\ Failed = FailedOf(Closed) \cup FailOf(Top)
  BY <1>1, BoxFront DEF Top, Closed, Failed
<1>3. k # "failed" => FailOf(Top) = {}
  BY <1>1 DEF FailOf
<1>4. k \in CallBox => Top.call \in Single
  BY <1>1, <1>2 DEF Box, CallBox, PlainBox
<1>5. k \in CallBox => \E c \in Call : Top.call = <<c>> /\ Top.call[1] = c
  BY <1>4 DEF Single
<1> QED
  BY <1>1, <1>2, <1>3, <1>5 DEF Failed

LEMMA LineSet ==
  ASSUME TypeOK, NEW c \in Call, NEW s \in LineState, line' = Set(c, s)
  PROVE  /\ line' \in [Call -> LineState] /\ line'[c] = s
         /\ \A d \in Call : d # c => line'[d] = line[d]
         /\ s \in {"dialed", "ringing", "answered", "up"} => Live' = Live \cup {c}
         /\ s \notin {"dialed", "ringing", "answered", "up"} => Live' = Live \ {c}
<1>1. line \in [Call -> LineState]
  BY DEF TypeOK
<1>2. /\ line' \in [Call -> LineState] /\ line'[c] = s
      /\ \A d \in Call : d # c => line'[d] = line[d]
  BY <1>1 DEF Set
<1> QED
  BY <1>2 DEF Live

LEMMA LineHungUp ==
  ASSUME TypeOK, Ucs_hangUp
  PROVE  /\ line' \in [Call -> LineState] /\ abandoned' \subseteq Call
         /\ \A c \in Call : line[c] = "over" => line'[c] = "over"
         /\ Live' \subseteq abandoned' /\ Live' \subseteq Live
<1>1. line \in [Call -> LineState]
  BY DEF TypeOK
<1>2. \A c \in Call : line'[c] = IF line[c] \in {"none", "dialed"} THEN line[c] ELSE "over"
  BY DEF Ucs_hangUp, HungUp
<1>3. line' \in [Call -> LineState]
  BY <1>1 DEF Ucs_hangUp, HungUp, LineState
<1>4. Live' \subseteq Dialed /\ Live' \subseteq Live
  BY <1>2 DEF Live, Dialed
<1> QED
  BY <1>2, <1>3, <1>4 DEF Ucs_hangUp, Dialed, TypeOK

\* A call that is hung up is one whose end the SDK has still to report.
LEMMA HungUpReports ==
  ASSUME TypeOK, ToldIsOver, Ucs_hangUp, UNCHANGED <<told, posted, Failed>>
  PROVE  /\ ToldIsOver'
         /\ Live # {} /\ Live' = {} => Closing'
         /\ Closing => Closing'
<1>1. \A c \in Call : line[c] = "over" => line'[c] = "over"
  BY LineHungUp
<1>2. ToldIsOver'
  BY <1>1 DEF ToldIsOver, TypeOK
<1>3. Unreported \subseteq Unreported' /\ Ends' = Ends
  BY <1>1 DEF Unreported, Ends
<1>4. ASSUME Live # {}, Live' = {} PROVE Unreported' # {}
  <2>1. PICK c \in Live : TRUE
    BY <1>4
  <2>2. c \in Call /\ line[c] \in {"dialed", "ringing", "answered", "up"}
    BY DEF Live
  <2>3. line'[c] = IF line[c] \in {"none", "dialed"} THEN line[c] ELSE "over"
    BY <2>2 DEF Ucs_hangUp, HungUp
  <2>4. line'[c] # "dialed"
    BY <1>4, <2>2 DEF Live
  <2>5. line'[c] = "over"
    BY <2>2, <2>3, <2>4
  <2>6. c \notin told
    BY <2>2 DEF ToldIsOver
  <2> QED
    BY <2>2, <2>5, <2>6 DEF Unreported
<1> QED
  BY <1>2, <1>3, <1>4 DEF Closing

-----------------------------------------------------------------------------
(* The SDK *)

LEMMA AlertingStep ==
  ASSUME IInv, NEW c \in Call, onAlerting(c)
  PROVE  IInv'
<1> USE DEF IInv, dlgVars, histVars
<1>1. /\ line' = Set(c, "ringing") /\ Notify("alerting", c) /\ line[c] = "dialed"
      /\ UNCHANGED <<told, status, shown, active, ui, boxes, net, abandoned, mixed, unheard>>
  BY DEF onAlerting
<1>2. posted' \in Seq(Posted) /\ Ends' = Ends
  BY <1>1, Notified DEF Event
<1>3. /\ line' \in [Call -> LineState] /\ line'[c] = "ringing" /\ Live' = Live \cup {c}
      /\ \A d \in Call : d # c => line'[d] = line[d]
  BY <1>1, LineSet DEF LineState
<1>4. TypeOK'
  BY <1>1, <1>2, <1>3 DEF TypeOK
<1>5. c \in Live /\ Failed' = Failed
  BY <1>1 DEF Live, Failed
<1>6. EndedIsOver'
  BY <1>1, <1>2, <1>3, <1>5 DEF EndedIsOver, Ends, EndsOf, Failed, FailedOf
<1>7. ToldIsOver' /\ Unreported \subseteq Unreported'
  BY <1>1, <1>3 DEF ToldIsOver, Unreported, TypeOK
<1> QED
  BY <1>1, <1>2, <1>3, <1>4, <1>5, <1>6, <1>7 DEF EndIsHidden, ActiveIsShown,
     HungUpIsOver, LiveHasWindow, DialHasLive, WindowHasLive, Closing, Lost

LEMMA AnswerStep ==
  ASSUME IInv, NEW c \in Call, onAnswer(c)
  PROVE  IInv'
<1> USE DEF IInv, dlgVars, histVars
<1>1. /\ line' = Set(c, "up") /\ Notify("answer", c) /\ line[c] \in {"ringing", "answered"}
      /\ UNCHANGED <<told, status, shown, active, ui, boxes, net, abandoned, mixed, unheard>>
  BY DEF onAnswer
<1>2. posted' \in Seq(Posted) /\ Ends' = Ends
  BY <1>1, Notified DEF Event
<1>3. /\ line' \in [Call -> LineState] /\ line'[c] = "up" /\ Live' = Live \cup {c}
      /\ \A d \in Call : d # c => line'[d] = line[d]
  BY <1>1, LineSet DEF LineState
<1>4. TypeOK'
  BY <1>1, <1>2, <1>3 DEF TypeOK
<1>5. c \in Live /\ Failed' = Failed
  BY <1>1 DEF Live, Failed
<1>6. EndedIsOver'
  BY <1>1, <1>2, <1>3, <1>5 DEF EndedIsOver, Ends, EndsOf, Failed, FailedOf
<1>7. ToldIsOver' /\ Unreported \subseteq Unreported'
  BY <1>1, <1>3 DEF ToldIsOver, Unreported, TypeOK
<1> QED
  BY <1>1, <1>2, <1>3, <1>4, <1>5, <1>6, <1>7 DEF EndIsHidden, ActiveIsShown,
     HungUpIsOver, LiveHasWindow, DialHasLive, WindowHasLive, Closing, Lost

\* onDialFailed and onHangUp: the line is over, and the end is posted, or the
\* call is one nobody heard of.
LEMMA EndStep ==
  ASSUME IInv, NEW c \in Call, NEW e \in {"hangup", "dialFailed"},
         line' = Set(c, "over"), NotifyEnd(e, c),
         UNCHANGED <<dlgVars, ui, boxes, net, abandoned, mixed>>
  PROVE  IInv'
<1> USE DEF IInv, dlgVars
<1>1. /\ Notify(e, c)
      /\ told' = told \cup {c}
      /\ unheard' = IF active THEN unheard ELSE unheard \cup {c}
  BY DEF NotifyEnd
<1>2. EndOf(<<e, <<c>>>>) = {c} /\ e \in Event
  BY EndOfEvents DEF Event
<1>3. /\ posted' \in Seq(Posted)
      /\ active => Ends' = Ends \cup {c}
      /\ ~active => Ends' = Ends
  BY <1>1, <1>2, Notified
<1>4. /\ line' \in [Call -> LineState] /\ line'[c] = "over" /\ Live' = Live \ {c}
      /\ \A d \in Call : d # c => line'[d] = line[d]
  BY LineSet DEF LineState
<1>5. TypeOK'
  BY <1>1, <1>3, <1>4 DEF TypeOK
<1>6. Failed' = Failed
  BY DEF Failed
<1>7. EndedIsOver'
  BY <1>3, <1>4, <1>6 DEF EndedIsOver, Ends, EndsOf, Failed, FailedOf
<1>8. WindowHasLive' /\ DialHasLive'
  <2>1. CASE active
    BY <1>3, <2>1 DEF WindowHasLive, DialHasLive, Closing
  <2>2. CASE ~active
    BY <1>1, <2>2 DEF WindowHasLive, DialHasLive
  <2> QED
    BY <2>1, <2>2
<1>9. ToldIsOver'
  BY <1>1, <1>4 DEF ToldIsOver, TypeOK
<1> QED
  BY <1>4, <1>5, <1>7, <1>8, <1>9 DEF EndIsHidden, ActiveIsShown, HungUpIsOver, LiveHasWindow,
     Lost

LEMMA IncomingCallStep ==
  ASSUME IInv, NEW c \in Call, onIncomingCall(c)
  PROVE  IInv'
<1> USE DEF IInv, dlgVars, histVars
<1>1. /\ line' = Set(c, "incoming") /\ posted' = Append(posted, <<"incoming", <<c>>>>)
      /\ line[c] = "none"
      /\ UNCHANGED <<told, status, shown, active, ui, boxes, net, abandoned, mixed, unheard>>
  BY DEF onIncomingCall
<1>2. posted \in Seq(Posted) /\ <<"incoming", <<c>>>> \in Posted
  BY DEF TypeOK, Posted, Single, Event
<1>3. posted' \in Seq(Posted) /\ Ends' = Ends
  <2>1. posted' \in Seq(Posted) /\ Ends' = Ends \cup EndOf(<<"incoming", <<c>>>>)
    BY <1>1, <1>2, PostedAppend DEF Ends
  <2> QED
    BY <2>1, EndOfEvents
<1>4. /\ line' \in [Call -> LineState] /\ Live' = Live \ {c}
      /\ \A d \in Call : d # c => line'[d] = line[d]
  BY <1>1, LineSet DEF LineState
<1>5. TypeOK'
  BY <1>1, <1>3, <1>4 DEF TypeOK
<1>6. c \notin Live /\ Failed' = Failed
  BY <1>1 DEF Live, Failed
<1>7. EndedIsOver'
  BY <1>1, <1>3, <1>4, <1>6 DEF EndedIsOver, Ends, EndsOf, Failed, FailedOf
<1>8. line'[c] # "over" /\ line[c] # "over"
  BY <1>1, LineSet DEF LineState
<1>9. ToldIsOver' /\ Unreported \subseteq Unreported'
  BY <1>1, <1>4, <1>8 DEF ToldIsOver, Unreported, TypeOK
<1> QED
  BY <1>1, <1>3, <1>4, <1>5, <1>6, <1>7, <1>9 DEF EndIsHidden, ActiveIsShown,
     HungUpIsOver, LiveHasWindow, DialHasLive, WindowHasLive, Closing, Lost

LEMMA CallBackStep == IInv /\ onCallBack => IInv'
<1> SUFFICES ASSUME IInv, onCallBack PROVE IInv'
  OBVIOUS
<1> USE DEF IInv, sdkVars, dlgVars, histVars
<1>1. /\ posted' = Append(posted, <<"callback", <<>>>>)
      /\ UNCHANGED <<line, told, status, shown, active, ui, boxes, net, abandoned, mixed, unheard>>
  BY DEF onCallBack
<1>2. posted \in Seq(Posted) /\ <<"callback", <<>>>> \in Posted
  BY DEF TypeOK, Posted
<1>3. posted' \in Seq(Posted) /\ Ends' = Ends
  BY <1>1, <1>2, PostedAppend, EndOfCallBack DEF Ends
<1>4. TypeOK' /\ Live' = Live /\ Failed' = Failed
  BY <1>1, <1>3 DEF TypeOK, Live, Failed
<1> QED
  BY <1>1, <1>3, <1>4 DEF EndedIsOver, EndIsHidden, ActiveIsShown, ToldIsOver,
     HungUpIsOver, LiveHasWindow, DialHasLive, WindowHasLive, Closing,
     Unreported, Lost

-----------------------------------------------------------------------------
(* The kinds of steps of the UI thread and of the network thread *)

\* An event becomes a box, a box goes, a thread goes on: the lines stay.
LEMMA QuietStep ==
  ASSUME IInv,
         UNCHANGED <<line, told, shown, active, ui, abandoned, mixed, unheard>>,
         status' \in Status, status' = "END" => status = "END",
         posted' \in Seq(Posted), boxes' \in Seq(Box),
         Ends' \cup Failed' = Ends \cup Failed,
         net' \in NetState, net = "inactive" => net' = "inactive"
  PROVE  IInv'
<1> USE DEF IInv
<1>1. TypeOK'
  BY DEF TypeOK
<1>2. Live' = Live /\ Lost' = Lost /\ Unreported' = Unreported
  BY DEF Live, Lost, Unreported
<1>3. (Ends # {} \/ Failed # {}) => (Ends' # {} \/ Failed' # {})
  OBVIOUS
<1> QED
  BY <1>1, <1>2, <1>3 DEF EndedIsOver, EndIsHidden, ActiveIsShown, ToldIsOver,
     HungUpIsOver, LiveHasWindow, DialHasLive, WindowHasLive, Closing

\* The window is hidden for the calls in s.
LEMMA HideStep ==
  ASSUME IInv, NEW s, Hide(s), UNCHANGED <<line, told, abandoned>>,
         ui' = "loop", status' \in Status, net' \in NetState,
         posted' \in Seq(Posted), Ends' \subseteq Ends,
         boxes' \in Seq(Box), Failed' \subseteq Failed,
         Live \cap s \subseteq Lost
  PROVE  IInv'
<1> USE DEF IInv
<1>1. shown' = FALSE /\ active' = FALSE /\ unheard' = {} /\ mixed' = mixed \cup (Live \ s)
  BY DEF Hide, HideWindow
<1>2. Live' = Live /\ Live \subseteq Call
  BY DEF Live
<1>3. TypeOK'
  BY <1>1, <1>2 DEF TypeOK, UiState
<1>4. Live' \subseteq Lost'
  BY <1>1, <1>2 DEF Lost
<1> QED
  BY <1>1, <1>3, <1>4 DEF EndedIsOver, EndIsHidden, ActiveIsShown, ToldIsOver,
     HungUpIsOver, LiveHasWindow, DialHasLive, WindowHasLive

LEMMA DialStep ==
  ASSUME IInv, NEW c \in Call, LauchCall(c), ui = "loop",
         UNCHANGED <<dlgVars, posted, net, abandoned, mixed>>,
         boxes' \in Seq(Box), Failed' = Failed
  PROVE  IInv'
<1> USE DEF IInv, dlgVars
<1>1. ui' = "launch" /\ line[c] = "none" /\ Ends' = Ends /\ Lost' = Lost
  BY DEF LauchCall, Ends, Lost
<1>2. /\ line' \in [Call -> LineState]
      /\ \A d \in Call : d # c => line'[d] = line[d]
      /\ told' \subseteq Call /\ unheard' \subseteq Call
      /\ Live' # {} \/ unheard' # {}
      /\ ToldIsOver'
  <2>1. CASE line' = Set(c, "dialed") /\ UNCHANGED <<told, unheard>>
    BY <1>1, <2>1, LineSet DEF LineState, TypeOK, ToldIsOver
  <2>2. CASE line' = Set(c, "over") /\ told' = told \cup {c} /\ unheard' = unheard \cup {c}
    BY <1>1, <2>2, LineSet DEF LineState, TypeOK, ToldIsOver
  <2> QED
    BY <2>1, <2>2 DEF LauchCall
<1>3. TypeOK'
  BY <1>1, <1>2 DEF TypeOK, UiState
<1>4. EndedIsOver'
  BY <1>1, <1>2 DEF EndedIsOver, Ends, EndsOf, Failed, FailedOf
<1> QED
  BY <1>1, <1>2, <1>3, <1>4 DEF EndIsHidden, ActiveIsShown, HungUpIsOver, LiveHasWindow,
     DialHasLive, WindowHasLive

LEMMA HangUpStep ==
  ASSUME IInv, HangUp, ui = "loop",
         UNCHANGED <<told, shown, active, posted, net, mixed, unheard>>,
         boxes' \in Seq(Box), Failed' = Failed
  PROVE  IInv'
<1> USE DEF IInv
<1>1. Ucs_hangUp /\ status' = "END" /\ ui' = "hide"
  BY DEF HangUp
<1>2. /\ line' \in [Call -> LineState] /\ abandoned' \subseteq Call
      /\ \A c \in Call : line[c] = "over" => line'[c] = "over"
      /\ Live' \subseteq abandoned'
  BY <1>1, LineHungUp
<1>3. TypeOK'
  BY <1>1, <1>2 DEF TypeOK, UiState, Status
<1>4. EndedIsOver'
  BY <1>2 DEF EndedIsOver, Ends, EndsOf, Failed, FailedOf
<1>5. ToldIsOver' /\ (Live # {} /\ Live' = {} => Closing') /\ (Closing => Closing')
  BY <1>1, HungUpReports
<1>6. WindowHasLive' /\ DialHasLive'
  BY <1>1, <1>5 DEF WindowHasLive, DialHasLive
<1> QED
  BY <1>1, <1>2, <1>3, <1>4, <1>5, <1>6 DEF EndIsHidden, ActiveIsShown, HungUpIsOver,
     LiveHasWindow, Lost

-----------------------------------------------------------------------------
(* The steps of the UI thread and of the network thread *)

\* The report that there is no service, over the boxes in s.
LEMMA NoServiceStep ==
  ASSUME IInv, NEW s \in Seq(Box), NoService(s), FailedOf(s) = Failed,
         UNCHANGED <<dlgVars, posted, net, abandoned, mixed>>
  PROVE  IInv'
<1> DEFINE b == NewBox("note", <<>>)
<1>1. b \in Box /\ FailOf(b) = {} /\ boxes' = Append(s, b)
  BY DEF NoService, NewBox, Box, PlainBox, FailOf
<1> HIDE DEF b
<1>2. boxes' \in Seq(Box) /\ Failed' = Failed
  BY <1>1, BoxAppend DEF Failed
<1> QED
  BY <1>2, QuietStep DEF IInv, NoService, TypeOK, Ends, sdkVars, dlgVars

LEMMA OnLauchNetCallStep ==
  ASSUME IInv, NEW c \in Call, OnLauchNetCall(c)
  PROVE  IInv'
<1> USE DEF IInv, sdkVars, dlgVars
<1>1. UNCHANGED <<status, shown, active, posted, net, abandoned, mixed>> /\ ui = "loop"
  BY DEF OnLauchNetCall, Pumping
<1>2. CASE LauchCall(c) /\ UNCHANGED boxes
  BY <1>1, <1>2, DialStep DEF TypeOK, Failed
<1>3. CASE boxes' = Opened("unknown", <<c>>) /\ UNCHANGED <<line, told, unheard, ui>>
  <2>1. boxes' \in Seq(Box) /\ Failed' = Failed
    BY <1>3, CallBoxOpened DEF CallBox
  <2> QED
    BY <1>1, <1>3, <2>1, QuietStep DEF TypeOK, Ends
<1>4. CASE NoService(boxes)
  BY <1>1, <1>4, NoServiceStep DEF TypeOK, Failed
<1> QED
  BY <1>2, <1>3, <1>4 DEF OnLauchNetCall

LEMMA LauchNetCallStep ==
  ASSUME IInv, NEW c \in Call, LauchNetCall(c)
  PROVE  IInv'
<1>1. CASE LauchCall(c) /\ UNCHANGED boxes
  BY <1>1, DialStep DEF IInv, LauchNetCall, Pumping, TypeOK, Failed
<1>2. CASE NoService(boxes)
  BY <1>2, NoServiceStep DEF IInv, LauchNetCall, TypeOK, Failed
<1> QED
  BY <1>1, <1>2 DEF LauchNetCall

\* Only the window changes, and an active one is hidden only where the network
\* thread is about to clear m_bIsActive.
LEMMA ShowAgainStep == IInv /\ ShowAgain => IInv'
<1> SUFFICES ASSUME IInv, ShowAgain PROVE IInv'
  OBVIOUS
<1> USE DEF IInv
<1>1. /\ active /\ shown' = TRUE /\ ui = "loop"
      /\ UNCHANGED <<line, told, status, active, posted, ui, boxes, net, abandoned, mixed,
                     unheard>>
  BY DEF ShowAgain, Pumping, sdkVars, histVars
<1>2. TypeOK'
  BY <1>1 DEF TypeOK
<1>3. /\ Ends' = Ends /\ Failed' = Failed /\ Live' = Live /\ Lost' = Lost
      /\ Unreported' = Unreported
  BY <1>1 DEF Ends, Failed, Live, Lost, Unreported
<1>4. WindowHasLive'
  <2>1. CASE shown
    BY <1>1, <1>3, <2>1 DEF WindowHasLive, Closing
  <2>2. CASE ~shown
    BY <1>1, <2>2 DEF ActiveIsShown, WindowHasLive
  <2> QED
    BY <2>1, <2>2
<1> QED
  BY <1>1, <1>2, <1>3, <1>4 DEF EndIsHidden, ActiveIsShown, EndedIsOver, ToldIsOver,
     HungUpIsOver, LiveHasWindow, DialHasLive

LEMMA ActiveStep == IInv /\ ActiveVoiceDlg => IInv'
<1> SUFFICES ASSUME IInv, ActiveVoiceDlg PROVE IInv'
  OBVIOUS
<1> USE DEF IInv, ActiveVoiceDlg, sdkVars, histVars
<1>1. TypeOK'
  BY DEF TypeOK, Status, UiState
<1>2. /\ Ends' = Ends /\ Failed' = Failed /\ Live' = Live /\ Lost' = Lost
      /\ Unreported' = Unreported
  BY DEF Ends, Failed, Live, Lost, Unreported
<1> QED
  BY <1>1, <1>2 DEF EndedIsOver, EndIsHidden, ActiveIsShown, ToldIsOver,
     HungUpIsOver, LiveHasWindow, DialHasLive, WindowHasLive, Closing

LEMMA HangupClickStep == IInv /\ OnBtnClickHangup => IInv'
  BY HangUpStep DEF IInv, OnBtnClickHangup, Clickable, Pumping, TypeOK, Failed

LEMMA HideAfterHangUpStep == IInv /\ HideAfterHangUp => IInv'
<1> SUFFICES ASSUME IInv, HideAfterHangUp PROVE IInv'
  OBVIOUS
<1>1. Live \cap Call \subseteq Lost
  BY DEF IInv, HungUpIsOver, HideAfterHangUp
<1> QED
  BY <1>1, HideStep DEF IInv, HideAfterHangUp, TypeOK, Ends, Failed, sdkVars

LEMMA CloseClickStep == IInv /\ OnCloseClick => IInv'
<1> SUFFICES ASSUME IInv, OnCloseClick PROVE IInv'
  OBVIOUS
<1> USE DEF IInv
<1>1. UNCHANGED <<line, told, status, posted, ui, net, abandoned>> /\ ui = "loop"
  BY DEF OnCloseClick, Clickable, Pumping, sdkVars
<1>2. CASE boxes' = Opened("close", <<>>) /\ UNCHANGED <<shown, active, mixed, unheard>>
  <2>1. boxes' \in Seq(Box) /\ Failed' = Failed
    BY <1>2, PlainBoxOpened DEF PlainBox
  <2> QED
    BY <1>1, <1>2, <2>1, QuietStep DEF TypeOK, Ends
<1>3. CASE Hide({c \in Call : line[c] = "over"}) /\ UNCHANGED boxes
  <2>1. Live \cap {c \in Call : line[c] = "over"} = {}
    BY DEF Live
  <2> QED
    BY <1>1, <1>3, <2>1, HideStep DEF TypeOK, Ends, Failed
<1> QED
  BY <1>2, <1>3 DEF OnCloseClick

LEMMA HandleHangupStep == IInv /\ HandleHangupEvent => IInv'
<1> SUFFICES ASSUME IInv, HandleHangupEvent PROVE IInv'
  OBVIOUS
<1> USE DEF IInv
<1>1. /\ Take("hangup") /\ status' = "END" /\ Hide(Subject) /\ ui = "loop"
      /\ UNCHANGED <<line, told, ui, boxes, net, abandoned>>
  BY DEF HandleHangupEvent, Take, Pumping, sdkVars
<1>2. PICK c \in Call : Subject = {c} /\ Ends = EndOf(<<"hangup", <<c>>>>) \cup Ends'
  BY <1>1, Taken DEF Event
<1>3. c \in Ends
  BY <1>2, EndOfEvents
<1>4. Live \cap Subject = {}
  BY <1>2, <1>3 DEF EndedIsOver, Live
<1>5. posted' \in Seq(Posted)
  BY <1>1, Taken DEF Event
<1> QED
  BY <1>1, <1>2, <1>4, <1>5, HideStep DEF TypeOK, Failed, Status

\* Both events that hang up again if the user has hung up: then the window is
\* hidden already.
LEMMA LateEventStep ==
  ASSUME IInv, NEW e \in {"alerting", "answer"}, Take(e), NEW s \in Status, s # "END",
         IF status = "END" THEN Ucs_hangUp /\ UNCHANGED status
         ELSE status' = s /\ UNCHANGED <<line, abandoned>>,
         UNCHANGED <<told, shown, active, ui, boxes, net, mixed, unheard>>
  PROVE  IInv'
<1> USE DEF IInv
<1>1. ui = "loop" /\ e \in Event
  BY DEF Take, Pumping, Event
<1>2. posted' \in Seq(Posted) /\ Ends' = Ends
  <2>1. PICK c \in Call : Ends = EndOf(<<e, <<c>>>>) \cup Ends'
    BY <1>1, Taken
  <2>2. EndOf(<<e, <<c>>>>) = {}
    BY EndOfEvents
  <2> QED
    BY <1>1, <2>1, <2>2, Taken
<1>3. Failed' = Failed
  BY DEF Failed
<1>4. CASE status # "END" /\ status' = s /\ UNCHANGED <<line, abandoned>>
  BY <1>2, <1>3, <1>4, QuietStep DEF TypeOK
<1>5. CASE status = "END" /\ Ucs_hangUp /\ UNCHANGED status
  <2>1. /\ line' \in [Call -> LineState] /\ abandoned' \subseteq Call
        /\ \A c \in Call : line[c] = "over" => line'[c] = "over"
        /\ Live' \subseteq abandoned'
    BY <1>5, LineHungUp
  <2>2. TypeOK'
    BY <1>2, <1>5, <2>1 DEF TypeOK
  <2>3. EndedIsOver'
    BY <1>2, <1>3, <2>1 DEF EndedIsOver, Ends, EndsOf, Failed, FailedOf
  <2>4. ~active /\ ~shown
    BY <1>1, <1>5 DEF EndIsHidden
  <2>5. ToldIsOver'
    BY <2>1 DEF ToldIsOver, TypeOK
  <2> QED
    BY <1>1, <1>5, <2>1, <2>2, <2>3, <2>4, <2>5 DEF EndIsHidden, ActiveIsShown, HungUpIsOver,
       LiveHasWindow, DialHasLive, Lost, WindowHasLive
<1> QED
  BY <1>4, <1>5

LEMMA HandleAlertingStep == IInv /\ HandleAlertingEvent => IInv'
<1> SUFFICES ASSUME IInv, HandleAlertingEvent PROVE IInv'
  OBVIOUS
<1> QED
  BY LateEventStep DEF HandleAlertingEvent, Status

LEMMA HandleAnswerStep == IInv /\ HandleAnswerEvent => IInv'
<1> SUFFICES ASSUME IInv, HandleAnswerEvent PROVE IInv'
  OBVIOUS
<1> QED
  BY LateEventStep DEF HandleAnswerEvent, Status

LEMMA HandleDialFailedStep == IInv /\ HandleDialFailedEvent => IInv'
<1> SUFFICES ASSUME IInv, HandleDialFailedEvent PROVE IInv'
  OBVIOUS
<1> USE DEF IInv
<1>1. /\ Take("dialFailed") /\ status' = "NORMAL" /\ boxes' = Opened("failed", Head(posted)[2])
      /\ UNCHANGED <<line, told, shown, active, ui, net, abandoned, mixed, unheard>>
  BY DEF HandleDialFailedEvent, sdkVars, histVars
<1>2. PICK c \in Call : /\ Head(posted) = <<"dialFailed", <<c>>>>
                        /\ Ends = EndOf(<<"dialFailed", <<c>>>>) \cup Ends'
  BY <1>1, Taken DEF Event
<1>3. Ends = {c} \cup Ends'
  BY <1>2, EndOfEvents
<1>4. boxes' = Opened("failed", <<c>>)
  BY <1>1, <1>2
<1>5. boxes' \in Seq(Box) /\ Failed' = Failed \cup {c}
  BY <1>4, CallBoxOpened DEF CallBox
<1>6. posted' \in Seq(Posted)
  BY <1>1, Taken DEF Event
<1>7. Ends' \cup Failed' = Ends \cup Failed
  BY <1>3, <1>5
<1> QED
  BY <1>1, <1>5, <1>6, <1>7, QuietStep DEF TypeOK, Status

LEMMA HandleCallBackStep == IInv /\ HandleCallBackEvent => IInv'
<1> SUFFICES ASSUME IInv, HandleCallBackEvent PROVE IInv'
  OBVIOUS
<1> USE DEF IInv
<1>1. posted' \in Seq(Posted) /\ Ends' = Ends
  BY TakenCallBack DEF HandleCallBackEvent
<1>2. boxes' \in Seq(Box) /\ Failed' = Failed
  BY PlainBoxOpened DEF HandleCallBackEvent, PlainBox
<1> QED
  BY <1>1, <1>2, QuietStep DEF HandleCallBackEvent, TypeOK, sdkVars, dlgVars, histVars

LEMMA HandleIncommingStep == IInv /\ HandleIncomming => IInv'
<1> SUFFICES ASSUME IInv, HandleIncomming PROVE IInv'
  OBVIOUS
<1> USE DEF IInv
<1>1. PICK c \in Call : /\ Head(posted) = <<"incoming", <<c>>>>
                        /\ Ends = EndOf(<<"incoming", <<c>>>>) \cup Ends'
  BY Taken DEF HandleIncomming, Event
<1>2. EndOf(<<"incoming", <<c>>>>) = {}
  BY EndOfEvents
<1>3. posted' \in Seq(Posted) /\ Ends' = Ends
  BY <1>1, <1>2, Taken DEF HandleIncomming, Event
<1>4. boxes' \in Seq(Box) /\ Failed' = Failed
  <2>1. CASE boxes' = Opened("incoming", <<c>>)
    BY <2>1, CallBoxOpened DEF CallBox
  <2>2. CASE UNCHANGED boxes
    BY <2>2 DEF TypeOK, Failed
  <2> QED
    BY <1>1, <2>1, <2>2 DEF HandleIncomming
<1> QED
  BY <1>3, <1>4, QuietStep DEF HandleIncomming, TypeOK, sdkVars, dlgVars, histVars

LEMMA CloseBelowStep ==
  ASSUME IInv, NEW i \in DOMAIN boxes, CloseBelow(i)
  PROVE  IInv'
<1> USE DEF IInv
<1>1. boxes \in Seq(Box) /\ boxes' = [boxes EXCEPT ![i].gone = TRUE]
  BY DEF TypeOK, CloseBelow
<1>2. boxes[i] \in Box
  BY <1>1
<1>3. [boxes[i] EXCEPT !.gone = TRUE] \in Box
  BY <1>2 DEF Box
<1>4. boxes' \in Seq(Box) /\ Len(boxes') = Len(boxes)
  BY <1>1, <1>3
<1>5. \A j \in 1 .. Len(boxes) :
        boxes'[j].kind = boxes[j].kind /\ boxes'[j].call = boxes[j].call
  BY <1>1, <1>2 DEF Box
<1>6. Failed' = Failed
  BY <1>4, <1>5 DEF Failed, FailedOf, FailOf
<1> QED
  BY <1>4, <1>6, QuietStep DEF CloseBelow, TypeOK, Ends, sdkVars, dlgVars, histVars

LEMMA FailedReturnsStep == IInv /\ FailedReturns => IInv'
<1> SUFFICES ASSUME IInv, FailedReturns PROVE IInv'
  OBVIOUS
<1> USE DEF IInv
<1>1. /\ Returns("failed") /\ Hide({Top.call[1]})
      /\ UNCHANGED <<line, told, status, posted, ui, net, abandoned>>
  BY DEF FailedReturns, sdkVars
<1>2. PICK c \in Call : Top.call = <<c>> /\ Top.call[1] = c
  BY <1>1, BoxReturned DEF CallBox
<1>3. boxes' \in Seq(Box) /\ ui = "loop" /\ Failed = Failed' \cup FailOf(Top)
  BY <1>1, BoxReturned
<1>4. c \in Failed
  BY <1>1, <1>2, <1>3 DEF Returns, Ended, FailOf
<1>5. Live \cap {Top.call[1]} = {}
  BY <1>2, <1>4 DEF EndedIsOver, Live
<1> QED
  BY <1>1, <1>3, <1>5, HideStep DEF TypeOK, Ends

LEMMA UnknownReturnsStep == IInv /\ UnknownReturns => IInv'
<1> SUFFICES ASSUME IInv, UnknownReturns PROVE IInv'
  OBVIOUS
<1> USE DEF IInv, sdkVars, dlgVars
<1>1. UNCHANGED <<status, shown, active, posted, net, abandoned, mixed>>
  BY DEF UnknownReturns
<1>2. ASSUME Returns("unknown") PROVE boxes' \in Seq(Box) /\ ui = "loop" /\ Failed' = Failed
  BY <1>2, BoxReturned
<1>3. CASE Returns("unknown") /\ LauchCall(Top.call[1])
  <2>1. PICK c \in Call : Top.call[1] = c
    BY <1>3, BoxReturned DEF CallBox
  <2> QED
    BY <1>1, <1>2, <1>3, <2>1, DialStep
<1>4. CASE Returns("unknown") /\ UNCHANGED <<line, told, ui, unheard>>
  BY <1>1, <1>2, <1>4, QuietStep DEF TypeOK, Ends
<1>5. CASE Ended("unknown") /\ NoService(Closed)
  <2>1. boxes \in Seq(Box) /\ boxes # <<>> /\ Top.kind = "unknown"
    BY <1>5 DEF TypeOK, Ended
  <2>2. Closed \in Seq(Box) /\ Failed = FailedOf(Closed) \cup FailOf(Top)
    BY <2>1, BoxFront DEF Top, Closed, Failed
  <2>3. FailOf(Top) = {}
    BY <2>1 DEF FailOf
  <2> QED
    BY <1>1, <1>5, <2>2, <2>3, NoServiceStep
<1> QED
  BY <1>3, <1>4, <1>5 DEF UnknownReturns

LEMMA CloseReturnsStep == IInv /\ CloseReturns => IInv'
<1> SUFFICES ASSUME IInv, CloseReturns PROVE IInv'
  OBVIOUS
<1> USE DEF IInv
<1>1. Returns("close") /\ UNCHANGED <<told, shown, active, posted, net, mixed, unheard>>
  BY DEF CloseReturns
<1>2. boxes' \in Seq(Box) /\ ui = "loop" /\ Failed' = Failed
  BY <1>1, BoxReturned
<1>3. CASE UNCHANGED <<line, status, ui, abandoned>>
  BY <1>1, <1>2, <1>3, QuietStep DEF TypeOK, Ends
<1>4. CASE HangUp
  BY <1>1, <1>2, <1>4, HangUpStep
<1>5. CASE status = "END" /\ ui' = "hide" /\ UNCHANGED <<line, status, abandoned>>
  <2>1. ~active /\ ~shown /\ Live \subseteq Lost
    BY <1>2, <1>5 DEF EndIsHidden, LiveHasWindow
  <2>2. /\ Ends' = Ends /\ Live' = Live /\ Lost' = Lost /\ Unreported' = Unreported
    BY <1>1, <1>5 DEF Ends, Live, Lost, Unreported
  <2>3. TypeOK'
    BY <1>1, <1>2, <1>5 DEF TypeOK, UiState
  <2> QED
    BY <1>1, <1>2, <1>5, <2>1, <2>2, <2>3 DEF EndedIsOver, EndIsHidden, ActiveIsShown, ToldIsOver,
       HungUpIsOver, LiveHasWindow, DialHasLive, WindowHasLive
<1> QED
  BY <1>3, <1>4, <1>5 DEF CloseReturns

LEMMA NoteReturnsStep == IInv /\ NoteReturns => IInv'
<1> SUFFICES ASSUME IInv, NoteReturns PROVE IInv'
  OBVIOUS
<1>1. boxes' \in Seq(Box) /\ Failed' = Failed
  BY BoxReturned DEF IInv, NoteReturns
<1> QED
  BY <1>1, QuietStep DEF NoteReturns, IInv, TypeOK, Ends, sdkVars, dlgVars, histVars

LEMMA AnswerCallStep == IInv /\ AnswerCall => IInv'
<1> SUFFICES ASSUME IInv, AnswerCall PROVE IInv'
  OBVIOUS
<1> USE DEF IInv
<1>1. /\ Returns("incoming") /\ status' = "CALLING" /\ shown' = TRUE /\ active' = TRUE
      /\ UNCHANGED <<told, posted, ui, net, abandoned, mixed>>
  BY DEF AnswerCall
<1>2. PICK b \in Call : Top.call[1] = b
  BY <1>1, BoxReturned DEF CallBox
<1>3. boxes' \in Seq(Box) /\ ui = "loop" /\ Failed' = Failed /\ Ends' = Ends
  BY <1>1, BoxReturned DEF Ends
<1>4. /\ line' \in [Call -> LineState] /\ unheard' \subseteq Call
      /\ \A d \in Call : line[d] = "over" => line'[d] = "over"
      /\ Live' # {} \/ unheard' # {}
  <2>1. ASSUME NEW c \in Incoming, line' = Set(c, "answered"), UNCHANGED unheard
        PROVE  /\ line' \in [Call -> LineState] /\ unheard' \subseteq Call
               /\ \A d \in Call : line[d] = "over" => line'[d] = "over"
               /\ Live' # {}
    <3>1. c \in Call /\ line[c] = "incoming"
      BY DEF Incoming
    <3> QED
      BY <2>1, <3>1, LineSet DEF LineState, TypeOK
  <2>2. CASE unheard' = unheard \cup {b} /\ UNCHANGED line
    BY <2>2 DEF TypeOK
  <2> QED
    BY <1>2, <2>1, <2>2 DEF AnswerCall
<1>5. TypeOK'
  BY <1>1, <1>3, <1>4 DEF TypeOK, Status
<1>6. EndedIsOver'
  BY <1>3, <1>4 DEF EndedIsOver, Ends, EndsOf, Failed, FailedOf
<1>7. ToldIsOver'
  BY <1>1, <1>4 DEF ToldIsOver, TypeOK
<1> QED
  BY <1>1, <1>3, <1>4, <1>5, <1>6, <1>7 DEF EndIsHidden, ActiveIsShown, HungUpIsOver,
     LiveHasWindow, DialHasLive, WindowHasLive

LEMMA RejectCallStep == IInv /\ RejectCall => IInv'
<1> SUFFICES ASSUME IInv, RejectCall PROVE IInv'
  OBVIOUS
<1> USE DEF IInv
<1>1. Returns("incoming") /\ UNCHANGED <<told, status, shown, active, posted, ui, net, abandoned, mixed, unheard>>
  BY DEF RejectCall, dlgVars, histVars
<1>2. PICK c \in Call : Top.call[1] = c
  BY <1>1, BoxReturned DEF CallBox
<1>3. boxes' \in Seq(Box) /\ Failed' = Failed /\ Ends' = Ends
  BY <1>1, BoxReturned DEF Ends
<1>4. CASE line[c] = "incoming" /\ line' = Set(c, "over")
  <2>1. /\ line' \in [Call -> LineState] /\ line'[c] = "over" /\ Live' = Live \ {c}
        /\ \A d \in Call : d # c => line'[d] = line[d]
    BY <1>4, LineSet DEF LineState
  <2>2. c \notin Live
    BY <1>4 DEF Live
  <2>3. TypeOK'
    BY <1>1, <1>3, <2>1 DEF TypeOK
  <2>4. EndedIsOver'
    BY <1>3, <2>1 DEF EndedIsOver, Ends, EndsOf, Failed, FailedOf
  <2>5. ToldIsOver' /\ Unreported \subseteq Unreported'
    BY <1>1, <1>4, <2>1 DEF ToldIsOver, Unreported, TypeOK
  <2> QED
    BY <1>1, <1>3, <2>1, <2>2, <2>3, <2>4, <2>5 DEF EndIsHidden, ActiveIsShown,
       HungUpIsOver, LiveHasWindow, DialHasLive, WindowHasLive, Closing, Lost
<1>5. CASE UNCHANGED line
  BY <1>1, <1>3, <1>5, QuietStep DEF TypeOK
<1> QED
  BY <1>2, <1>4, <1>5 DEF RejectCall

LEMMA StateUpdatedStep == IInv /\ (OnUserStateUpdated \/ CloseOffline) => IInv'
<1> SUFFICES ASSUME IInv, OnUserStateUpdated \/ CloseOffline PROVE IInv'
  OBVIOUS
<1>1. /\ UNCHANGED <<sdkVars, dlgVars, posted, ui, boxes, histVars>>
      /\ net \in {"idle", "box"} /\ net' \in NetState
  BY DEF OnUserStateUpdated, CloseOffline, NetState
<1> QED
  BY <1>1, QuietStep DEF IInv, TypeOK, Ends, Failed, sdkVars, dlgVars, histVars

LEMMA OfflineHangUpStep == IInv /\ OfflineHangUp => IInv'
<1> SUFFICES ASSUME IInv, OfflineHangUp PROVE IInv'
  OBVIOUS
<1> USE DEF IInv
<1>1. /\ Ucs_hangUp /\ net = "hangup" /\ net' = "hide"
      /\ UNCHANGED <<told, status, shown, active, posted, ui, boxes, mixed, unheard>>
  BY DEF OfflineHangUp, dlgVars
<1>2. /\ line' \in [Call -> LineState] /\ abandoned' \subseteq Call
      /\ \A c \in Call : line[c] = "over" => line'[c] = "over"
      /\ Live' \subseteq abandoned'
  BY <1>1, LineHungUp
<1>3. TypeOK'
  BY <1>1, <1>2 DEF TypeOK, NetState
<1>4. EndedIsOver'
  BY <1>1, <1>2 DEF EndedIsOver, Ends, EndsOf, Failed, FailedOf
<1>5. ToldIsOver' /\ (Live # {} /\ Live' = {} => Closing') /\ (Closing => Closing')
  BY <1>1, HungUpReports DEF Failed
<1>6. WindowHasLive' /\ DialHasLive'
  BY <1>1, <1>5 DEF WindowHasLive, DialHasLive
<1> QED
  BY <1>1, <1>2, <1>3, <1>4, <1>5, <1>6 DEF EndIsHidden, ActiveIsShown, HungUpIsOver,
     LiveHasWindow, Lost

\* The window is hidden and m_bIsActive still set.
LEMMA OfflineHideStep == IInv /\ OfflineHide => IInv'
<1> SUFFICES ASSUME IInv, OfflineHide PROVE IInv'
  OBVIOUS
<1> USE DEF IInv
<1>1. /\ net' = "inactive" /\ shown' = FALSE
      /\ UNCHANGED <<line, told, status, active, posted, ui, boxes, abandoned>>
  BY DEF OfflineHide, HideWindow, sdkVars, TypeOK
<1>2. /\ Ends' = Ends /\ Failed' = Failed /\ Live' = Live /\ Live \subseteq Call
      /\ Unreported' = Unreported
  BY <1>1 DEF Ends, Failed, Live, Unreported
<1>3. CASE shown /\ Pumping /\ HideWindow({})
  <2>1. unheard' = {} /\ mixed' = mixed \cup Live /\ ui = "loop"
    BY <1>3 DEF HideWindow, Pumping
  <2>2. TypeOK' /\ Live' \subseteq Lost'
    BY <1>1, <1>2, <2>1 DEF TypeOK, NetState, Lost
  <2> QED
    BY <1>1, <1>2, <2>1, <2>2 DEF EndedIsOver, EndIsHidden, ActiveIsShown, ToldIsOver,
       HungUpIsOver, LiveHasWindow, DialHasLive, WindowHasLive
<1>4. CASE ~shown /\ UNCHANGED <<mixed, unheard>>
  <2>1. TypeOK' /\ Lost' = Lost
    BY <1>1, <1>4 DEF TypeOK, NetState, Lost
  <2> QED
    BY <1>1, <1>2, <1>4, <2>1 DEF EndedIsOver, EndIsHidden, ActiveIsShown, ToldIsOver,
       HungUpIsOver, LiveHasWindow, DialHasLive, WindowHasLive,
       Closing
<1> QED
  BY <1>3, <1>4 DEF OfflineHide

LEMMA OfflineInactiveStep == IInv /\ OfflineInactive => IInv'
<1> SUFFICES ASSUME IInv, OfflineInactive PROVE IInv'
  OBVIOUS
<1> USE DEF IInv
<1>1. /\ net' = "idle" /\ active' = FALSE
      /\ UNCHANGED <<line, told, status, shown, posted, ui, boxes, abandoned, mixed, unheard>>
  BY DEF OfflineInactive, sdkVars, histVars
<1>2. TypeOK'
  BY <1>1 DEF TypeOK, NetState
<1>3. /\ Ends' = Ends /\ Failed' = Failed /\ Live' = Live /\ Lost' = Lost
      /\ Unreported' = Unreported
  BY <1>1 DEF Ends, Failed, Live, Lost, Unreported
<1> QED
  BY <1>1, <1>2, <1>3 DEF EndedIsOver, EndIsHidden, ActiveIsShown, ToldIsOver,
     HungUpIsOver, LiveHasWindow, DialHasLive, WindowHasLive, Closing

-----------------------------------------------------------------------------
LEMMA SdkStep == IInv /\ Sdk => IInv'
<1> SUFFICES ASSUME IInv, Sdk PROVE IInv'
  OBVIOUS
<1>1. ASSUME NEW c \in Call, onDialFailed(c) PROVE IInv'
  BY <1>1, EndStep DEF onDialFailed
<1>2. ASSUME NEW c \in Call, onHangUp(c) PROVE IInv'
  BY <1>2, EndStep DEF onHangUp
<1> QED
  BY <1>1, <1>2, AlertingStep, AnswerStep, IncomingCallStep, CallBackStep DEF Sdk

LEMMA NextIInv == IInv /\ [Next]_vars => IInv'
<1> SUFFICES ASSUME IInv, [Next]_vars PROVE IInv'
  OBVIOUS
<1>1. CASE Sdk
  BY <1>1, SdkStep
<1>2. CASE Handlers
  BY <1>2, ActiveStep, HideAfterHangUpStep, HandleHangupStep, HandleAlertingStep,
     HandleAnswerStep, HandleDialFailedStep, HandleCallBackStep, HandleIncommingStep
     DEF Handlers
<1>3. CASE User
  BY <1>3, OnLauchNetCallStep, LauchNetCallStep, HangupClickStep, CloseClickStep,
     ShowAgainStep, StateUpdatedStep, CloseBelowStep DEF User
<1>4. CASE BoxReturns
  BY <1>4, FailedReturnsStep, UnknownReturnsStep, CloseReturnsStep, NoteReturnsStep,
     AnswerCallStep, RejectCallStep DEF BoxReturns
<1>5. CASE NetworkThread
  BY <1>5, StateUpdatedStep, OfflineHangUpStep, OfflineHideStep, OfflineInactiveStep
     DEF NetworkThread
<1>6. CASE UNCHANGED vars
  BY <1>6, QuietStep DEF vars, sdkVars, dlgVars, histVars, IInv, TypeOK, Ends, Failed
<1> QED
  BY <1>1, <1>2, <1>3, <1>4, <1>5, <1>6 DEF Next

\* The inductive invariant of the calls and their window.
THEOREM Invariance == Spec => []IInv
  BY InitIInv, NextIInv, PTL DEF Spec

\* The variables of the call window keep their types.
THEOREM TypeCorrect == Spec => []TypeOK
<1>1. IInv => TypeOK
  BY DEF IInv
<1> QED
  BY <1>1, Invariance, PTL

\* The button of the shown window hangs up (videoDlg.cpp:108).
THEOREM ButtonWorks == Spec => []HangUpWorks
<1>1. IInv => HangUpWorks
  BY DEF IInv, EndIsHidden, HangUpWorks
<1> QED
  BY <1>1, Invariance, PTL

\* At rest, a call under way without a window is one of the two kinds the code
\* lets go (videoDlg.cpp:156, 254).
THEOREM CallHasWindow == Spec => []LiveCallIsShown
<1>1. IInv => LiveCallIsShown
  BY DEF IInv, LiveHasWindow, LiveCallIsShown, Lost, Quiet
<1> QED
  BY <1>1, Invariance, PTL

\* At rest, a window without a call is one whose call ended while the callbacks
\* dropped their events (UCSNetServiceCallBackInterface.cpp:76), or one that
\* hears none (videoDlg.cpp:499, 500).
THEOREM WindowHasCall == Spec => []ShownCallIsLive
<1>1. ASSUME posted = <<>>, boxes = <<>> PROVE Ends = {} /\ Failed = {}
  BY <1>1 DEF Ends, Failed, EndsOf, FailedOf
<1>2. Reported => Unreported = {}
  BY DEF Reported, Unreported
<1>3. IInv => ShownCallIsLive
  BY <1>1, <1>2 DEF IInv, WindowHasLive, ShownCallIsLive, Closing, Quiet
<1> QED
  BY <1>3, Invariance, PTL
=============================================================================
