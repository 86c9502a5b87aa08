--------------------------------- MODULE Call ---------------------------------
(***************************************************************************)
(* Voice and video calls: CVideoDlg, the callbacks of the phone SDK and the *)
(* box of an incoming call.                                                 *)
(*                                                                          *)
(* There is one call window, CVideoDlg, and one call status.  The SDK's     *)
(* threads post an event to the window, without the id of its call, and     *)
(* drop it if m_bIsActive is FALSE at that moment.  The UI thread handles   *)
(* the events in its loop or in the loop of a box: the box of an incoming   *)
(* call, the question whether to hang up, a report.  No box keeps another   *)
(* from being opened over it, or itself from being closed under another;    *)
(* then the loop that sees its WM_CLOSE is not its own, and ShowModal       *)
(* returns 0, which is CALL_ANSER.  The network thread hangs up when the    *)
(* peer goes offline, hides the window and then clears m_bIsActive, while   *)
(* the UI thread may show the window again.  The tray flashes for an        *)
(* incoming call exactly while its box is on the stack; TrayStack has that  *)
(* part.                                                                    *)
(***************************************************************************)
EXTENDS Naturals, Sequences

CONSTANTS Call,        \* the calls of a run, made or received
          MaxPosted,   \* bound: messages in the window's queue
          MaxModal     \* bound: boxes on the UI thread

ASSUME CallBounds == MaxPosted \in Nat /\ MaxModal \in Nat

VARIABLES
  line,       \* the SDK's state of each call
  told,       \* calls whose end the SDK has reported
  status,     \* m_nCallStatus
  shown,      \* the window is shown
  active,     \* m_bIsActive: the callbacks post their events
  posted,     \* WM_UCPAAS_NOTIFY in the window's queue
  ui,         \* where the UI thread is between two of its pumps
  boxes,      \* its modal boxes, the topmost last
  net,        \* the network thread in OnUserStateUpdated
  abandoned,  \* history: calls hung up before they rang
  mixed,      \* history: calls under way when an end of another hid the window
  unheard     \* history: calls that ended without a report since it was hidden

sdkVars  == <<line, told>>
dlgVars  == <<status, shown, active>>
histVars == <<abandoned, mixed, unheard>>
vars     == <<sdkVars, dlgVars, posted, ui, boxes, net, histVars>>

\* "answered": by AnswerCall, until the SDK says that the call is up.
LineState == {"none", "dialed", "ringing", "incoming", "answered", "up", "over"}
Status    == {"NORMAL", "LAUCH_DIAL", "DIALLING", "CALLING", "END"}
Event     == {"alerting", "answer", "dialFailed", "hangup", "incoming"}
\* "launch": after Ucs_dial, before the window is shown.  "hide": after
\* Ucs_hangUp, before it is hidden.
UiState   == {"loop", "launch", "hide"}
\* In OnUserStateUpdated; "inactive": between the two assignments of
\* ActiveVoiceDlg(false).
NetState  == {"idle", "box", "hangup", "hide", "inactive"}
\* "failed": the report of a failed dial.  "unknown": of a friend not found.
\* "close": the question whether to hang up.  "note": a report of no effect.
CallBox   == {"failed", "unknown", "incoming"}
PlainBox  == {"close", "note"}

Single == {<<c>> : c \in Call}
Posted == Event \X Single \cup {<<"callback", <<>>>>}
Box    == [kind : CallBox, call : Single, gone : BOOLEAN]
            \cup [kind : PlainBox, call : {<<>>}, gone : BOOLEAN]

TypeOK ==
  /\ line \in [Call -> LineState] /\ told \subseteq Call
  /\ status \in Status /\ shown \in BOOLEAN /\ active \in BOOLEAN
  /\ posted \in Seq(Posted)
  /\ ui \in UiState
  /\ boxes \in Seq(Box)
  /\ net \in NetState
  /\ abandoned \subseteq Call /\ mixed \subseteq Call /\ unheard \subseteq Call

Init ==
  /\ line = [c \in Call |-> "none"] /\ told = {}
  /\ status = "NORMAL" /\ shown = FALSE /\ active = FALSE
  /\ posted = <<>> /\ ui = "loop" /\ boxes = <<>> /\ net = "idle"
  /\ abandoned = {} /\ mixed = {} /\ unheard = {}

Top == boxes[Len(boxes)]

\* A box closed under another returns as soon as it is the topmost.
Returning == boxes # <<>> /\ Top.gone

Pumping == ui = "loop" /\ ~Returning

Room == Len(boxes) < MaxModal

NewBox(k, c) == [kind |-> k, call |-> c, gone |-> FALSE]
Opened(k, c) == Append(boxes, NewBox(k, c))
Closed       == SubSeq(boxes, 1, Len(boxes) - 1)

-----------------------------------------------------------------------------
(* The SDK *)

Live == {c \in Call : line[c] \in {"dialed", "ringing", "answered", "up"}}

Set(c, s) == [line EXCEPT ![c] = s]

\* Ucs_hangUp without an id: all calls, but not one that does not ring yet.
HungUp ==
  [c \in Call |-> IF line[c] \in {"none", "dialed"} THEN line[c] ELSE "over"]

Dialed == {c \in Call : line[c] = "dialed"}

\* The callbacks of one call's events post them while m_bIsActive.
Notify(e, c) ==
  IF active THEN Len(posted) < MaxPosted /\ posted' = Append(posted, <<e, <<c>>>>)
            ELSE UNCHANGED posted

\* onHangUp and onDialFailed: the end of call c is reported, or dropped.
NotifyEnd(e, c) ==
  /\ Notify(e, c)
  /\ told' = told \cup {c}
  /\ unheard' = IF active THEN unheard ELSE unheard \cup {c}

onAlerting(c) ==
  /\ line[c] = "dialed"
  /\ line' = Set(c, "ringing")
  /\ Notify("alerting", c)
  /\ UNCHANGED <<told, dlgVars, ui, boxes, net, histVars>>

onAnswer(c) ==
  /\ line[c] \in {"ringing", "answered"}
  /\ line' = Set(c, "up")
  /\ Notify("answer", c)
  /\ UNCHANGED <<told, dlgVars, ui, boxes, net, histVars>>

onDialFailed(c) ==
  /\ line[c] \in {"dialed", "ringing"}
  /\ line' = Set(c, "over")
  /\ NotifyEnd("dialFailed", c)
  /\ UNCHANGED <<dlgVars, ui, boxes, net, abandoned, mixed>>

\* The peer hangs up, or the SDK reports what was hung up here.
onHangUp(c) ==
  /\ line[c] \in {"incoming", "answered", "up", "over"} /\ c \notin told
  /\ line' = Set(c, "over")
  /\ NotifyEnd("hangup", c)
  /\ UNCHANGED <<dlgVars, ui, boxes, net, abandoned, mixed>>

\* Always posted, and with its id.
onIncomingCall(c) ==
  /\ line[c] = "none" /\ Len(posted) < MaxPosted
  /\ line' = Set(c, "incoming")
  /\ posted' = Append(posted, <<"incoming", <<c>>>>)
  /\ UNCHANGED <<told, dlgVars, ui, boxes, net, histVars>>

\* The answer to Ucs_callBack (eCallback), always posted.
onCallBack ==
  /\ Len(posted) < MaxPosted
  /\ posted' = Append(posted, <<"callback", <<>>>>)
  /\ UNCHANGED <<sdkVars, dlgVars, ui, boxes, net, histVars>>

-----------------------------------------------------------------------------
(* Dialling *)

\* LauchCall up to Ucs_dial, which may return NULL: nobody looks.
LauchCall(c) ==
  /\ line[c] = "none"
  /\ \/ line' = Set(c, "dialed") /\ UNCHANGED <<told, unheard>>
     \/ line' = Set(c, "over") /\ told' = told \cup {c} /\ unheard' = unheard \cup {c}
  /\ ui' = "launch"

\* The SDK is not connected, or does not connect while LauchCall waits: a
\* report instead of the call.
NoService(below) ==
  /\ Len(below) < MaxModal
  /\ boxes' = Append(below, NewBox("note", <<>>))
  /\ UNCHANGED <<sdkVars, unheard, ui>>

\* OnLauchNetCall.  The friend may be missing in the list: a box says so, and
\* then the call is made all the same.
OnLauchNetCall(c) ==
  /\ Pumping /\ ~active
  /\ \/ LauchCall(c) /\ UNCHANGED boxes
     \/ NoService(boxes)
     \/ /\ line[c] = "none" /\ Room
        /\ boxes' = Opened("unknown", <<c>>)
        /\ UNCHANGED <<sdkVars, unheard, ui>>
  /\ UNCHANGED <<dlgVars, posted, net, abandoned, mixed>>

\* OnLauchNetCall with m_bIsActive: the window is shown, if it was not.
ShowAgain ==
  /\ Pumping /\ active
  /\ shown' = TRUE
  /\ UNCHANGED <<sdkVars, status, active, posted, ui, boxes, net, histVars>>

\* CCallFrame::LauchNetCall does not ask whether a call is shown.
LauchNetCall(c) ==
  /\ Pumping
  /\ \/ LauchCall(c) /\ UNCHANGED boxes
     \/ NoService(boxes)
  /\ UNCHANGED <<dlgVars, posted, net, abandoned, mixed>>

\* Both of them, after LauchCall.
ActiveVoiceDlg ==
  /\ ui = "launch"
  /\ status' = "LAUCH_DIAL" /\ shown' = TRUE /\ active' = TRUE
  /\ ui' = "loop"
  /\ UNCHANGED <<sdkVars, posted, boxes, net, histVars>>

-----------------------------------------------------------------------------
(* The window *)

\* The window goes on account of the end of the calls in s.
HideWindow(s) ==
  /\ shown' = FALSE
  /\ unheard' = {}
  /\ mixed' = mixed \cup (Live \ s)

\* ActiveVoiceDlg(false) on the UI thread.
Hide(s) == HideWindow(s) /\ active' = FALSE

\* Ucs_hangUp("") on the UI thread.
Ucs_hangUp ==
  /\ line' = HungUp
  /\ abandoned' = abandoned \cup Dialed

\* Mutant: the call itself is not hung up.
HidesOnly ==
  /\ status # "END"
  /\ status' = "END" /\ ui' = "hide"
  /\ UNCHANGED <<line, abandoned>>

\* OnBtnClickHangup up to ActiveVoiceDlg(false).
HangUp ==
  /\ status # "END"
  /\ Ucs_hangUp
  /\ status' = "END" /\ ui' = "hide"

\* The window is disabled while the network thread shows its box.
Clickable == Pumping /\ shown /\ net # "box"

OnBtnClickHangup ==
  /\ Clickable
  /\ HangUp
  /\ UNCHANGED <<told, shown, active, posted, boxes, net, mixed, unheard>>

HideAfterHangUp ==
  /\ ui = "hide"
  /\ ui' = "loop"
  /\ Hide(Call)
  /\ UNCHANGED <<sdkVars, status, posted, boxes, net, abandoned>>

\* OnCloseClick asks during a call and hides the window otherwise.
OnCloseClick ==
  /\ Clickable
  /\ IF status \in {"LAUCH_DIAL", "DIALLING", "CALLING"}
       THEN /\ Room /\ boxes' = Opened("close", <<>>)
            /\ UNCHANGED <<shown, active, mixed, unheard>>
       ELSE /\ Hide({c \in Call : line[c] = "over"}) /\ UNCHANGED boxes
  /\ UNCHANGED <<sdkVars, status, posted, ui, net, abandoned>>

-----------------------------------------------------------------------------
(* The events *)

Take(e) ==
  /\ Pumping /\ posted # <<>> /\ Head(posted)[1] = e
  /\ posted' = Tail(posted)

Subject == {Head(posted)[2][1]}

\* Mutant: the window stays.
HangupKeepsWindow ==
  /\ Take("hangup")
  /\ status' = "END"
  /\ UNCHANGED <<sdkVars, shown, active, ui, boxes, net, histVars>>

HandleHangupEvent ==
  /\ Take("hangup")
  /\ status' = "END"
  /\ Hide(Subject)
  /\ UNCHANGED <<sdkVars, ui, boxes, net, abandoned>>

\* After the user's hang-up both hang up once more.
HandleAlertingEvent ==
  /\ Take("alerting")
  /\ IF status = "END" THEN Ucs_hangUp /\ UNCHANGED status
     ELSE status' = "DIALLING" /\ UNCHANGED <<line, abandoned>>
  /\ UNCHANGED <<told, shown, active, ui, boxes, net, mixed, unheard>>

HandleAnswerEvent ==
  /\ Take("answer")
  /\ IF status = "END" THEN Ucs_hangUp /\ UNCHANGED status
     ELSE status' = "CALLING" /\ UNCHANGED <<line, abandoned>>
  /\ UNCHANGED <<told, shown, active, ui, boxes, net, mixed, unheard>>

\* The window is hidden when the report is closed.
HandleDialFailedEvent ==
  /\ Take("dialFailed") /\ Room
  /\ status' = "NORMAL"
  /\ boxes' = Opened("failed", Head(posted)[2])
  /\ UNCHANGED <<sdkVars, shown, active, ui, net, histVars>>

\* Mutant: handled as a failed dial.
CallBackAsDialFailed ==
  /\ Take("callback") /\ Room
  /\ status' = "NORMAL"
  /\ boxes' = Opened("failed", Head(posted)[2])
  /\ UNCHANGED <<sdkVars, shown, active, ui, net, histVars>>

HandleCallBackEvent ==
  /\ Take("callback") /\ Room
  /\ boxes' = Opened("note", <<>>)
  /\ UNCHANGED <<sdkVars, dlgVars, ui, net, histVars>>

\* The caller's number or name may not be found: nothing happens.
HandleIncomming ==
  /\ Take("incoming")
  /\ \/ Room /\ boxes' = Opened("incoming", Head(posted)[2])
     \/ UNCHANGED boxes
  /\ UNCHANGED <<sdkVars, dlgVars, ui, net, histVars>>

-----------------------------------------------------------------------------
(* The boxes *)

\* The user closes a box that is not the topmost: its code is lost.
CloseBelow(i) ==
  /\ Pumping
  /\ i < Len(boxes) /\ ~boxes[i].gone
  /\ boxes' = [boxes EXCEPT ![i].gone = TRUE]
  /\ UNCHANGED <<sdkVars, dlgVars, posted, ui, net, histVars>>

\* The loop of the topmost box k ends: by a click, or because it is gone.
Ended(k) == ui = "loop" /\ boxes # <<>> /\ Top.kind = k

Returns(k) == Ended(k) /\ boxes' = Closed

\* Mutant: the window stays.
FailedKeepsWindow ==
  /\ Returns("failed")
  /\ UNCHANGED <<sdkVars, dlgVars, posted, ui, net, histVars>>

\* The rest of HandleDialFailedEvent.
FailedReturns ==
  /\ Returns("failed")
  /\ Hide({Top.call[1]})
  /\ UNCHANGED <<sdkVars, status, posted, ui, net, abandoned>>

\* The rest of OnLauchNetCall, which looks at nothing again.
UnknownReturns ==
  /\ \/ Returns("unknown") /\ LauchCall(Top.call[1])
     \/ Ended("unknown") /\ NoService(Closed)
     \/ /\ Returns("unknown") /\ line[Top.call[1]] # "none"
        /\ UNCHANGED <<sdkVars, ui, unheard>>
  /\ UNCHANGED <<dlgVars, posted, net, abandoned, mixed>>

\* "No" changes nothing.  "Yes", and 0: OnBtnClickHangup, and the window goes
\* whatever the status is.
CloseReturns ==
  /\ Returns("close")
  /\ \/ ~Top.gone /\ UNCHANGED <<line, status, ui, abandoned>>
     \/ HangUp
     \/ status = "END" /\ ui' = "hide" /\ UNCHANGED <<line, status, abandoned>>
  /\ UNCHANGED <<told, shown, active, posted, net, mixed, unheard>>

NoteReturns ==
  /\ Returns("note")
  /\ UNCHANGED <<sdkVars, dlgVars, posted, ui, net, histVars>>

Incoming == {c \in Call : line[c] = "incoming"}

\* CALL_ANSER, and 0: AnswerCall without an id takes one of the calls that
\* come in, if there still is one.
AnswerCall ==
  /\ Returns("incoming")
  /\ \/ \E c \in Incoming : line' = Set(c, "answered") /\ UNCHANGED unheard
     \/ Incoming = {} /\ unheard' = unheard \cup {Top.call[1]} /\ UNCHANGED line
  /\ status' = "CALLING" /\ shown' = TRUE /\ active' = TRUE
  /\ UNCHANGED <<told, posted, ui, net, abandoned, mixed>>

\* CALL_HANGUP: RejectCall with the id.  CLOSE_COMMING_DLG: nothing.
RejectCall ==
  /\ Returns("incoming") /\ ~Top.gone
  /\ LET c == Top.call[1] IN
     \/ line[c] = "incoming" /\ line' = Set(c, "over")
     \/ UNCHANGED line
  /\ UNCHANGED <<told, dlgVars, posted, ui, net, histVars>>

-----------------------------------------------------------------------------
(* The network thread *)

\* OnUserStateUpdated: the peer is offline, and a box says so.
OnUserStateUpdated ==
  /\ net = "idle" /\ active
  /\ net' = "box"
  /\ UNCHANGED <<sdkVars, dlgVars, posted, ui, boxes, histVars>>

\* The user closes it.
CloseOffline ==
  /\ net = "box"
  /\ net' = "hangup"
  /\ UNCHANGED <<sdkVars, dlgVars, posted, ui, boxes, histVars>>

OfflineHangUp ==
  /\ net = "hangup"
  /\ Ucs_hangUp
  /\ net' = "hide"
  /\ UNCHANGED <<told, dlgVars, posted, ui, boxes, mixed, unheard>>

\* ActiveVoiceDlg(false), first ShowWindow; m_nCallStatus stays.  To hide a
\* window of the UI thread takes that thread's loop; a hidden one stays so.
OfflineHide ==
  /\ net = "hide"
  /\ \/ shown /\ Pumping /\ HideWindow({})
     \/ ~shown /\ UNCHANGED <<shown, mixed, unheard>>
  /\ net' = "inactive"
  /\ UNCHANGED <<sdkVars, status, active, posted, ui, boxes, abandoned>>

\* Then m_bIsActive, whatever the UI thread has shown meanwhile.
OfflineInactive ==
  /\ net = "inactive"
  /\ active' = FALSE
  /\ net' = "idle"
  /\ UNCHANGED <<sdkVars, status, shown, posted, ui, boxes, histVars>>

-----------------------------------------------------------------------------
Sdk ==
  \/ \E c \in Call : \/ onAlerting(c) \/ onAnswer(c) \/ onDialFailed(c)
                     \/ onHangUp(c) \/ onIncomingCall(c)
  \/ onCallBack

Handlers ==
  \/ ActiveVoiceDlg \/ HideAfterHangUp
  \/ HandleHangupEvent \/ HandleAlertingEvent \/ HandleAnswerEvent
  \/ HandleDialFailedEvent \/ HandleCallBackEvent \/ HandleIncomming

User ==
  \/ \E c \in Call : OnLauchNetCall(c) \/ LauchNetCall(c)
  \/ ShowAgain \/ OnBtnClickHangup \/ OnCloseClick \/ CloseOffline
  \/ \E i \in DOMAIN boxes : CloseBelow(i)

BoxReturns ==
  \/ FailedReturns \/ UnknownReturns \/ CloseReturns \/ NoteReturns
  \/ AnswerCall \/ RejectCall

NetworkThread ==
  OnUserStateUpdated \/ OfflineHangUp \/ OfflineHide \/ OfflineInactive

Next == Sdk \/ Handlers \/ User \/ BoxReturns \/ NetworkThread

Spec == Init /\ [][Next]_vars

-----------------------------------------------------------------------------
(* Properties *)

\* Whenever the window is shown its button hangs up: the status in which
\* OnBtnClickHangup does nothing (videoDlg.cpp:108) is left or the window
\* hidden, whatever late events and boxes come in between.
HangUpWorks == shown /\ ui = "loop" => status # "END"

Quiet == posted = <<>> /\ ui = "loop" /\ boxes = <<>> /\ net = "idle"

\* A call under way has its window, but for two kinds of calls: those hung up
\* before they rang, which the SDK does not end (videoDlg.cpp:254), and those
\* whose window was hidden at the end of another call, because the events have
\* no id (videoDlg.cpp:156).
LiveCallIsShown == Quiet /\ ~shown => Live \subseteq abandoned \cup mixed

\* The SDK has said of every call that ended that it ended.
Reported == \A c \in Call : line[c] = "over" => c \in told

\* Once every end is reported, a window without a call is one whose call ended
\* before m_bIsActive, while the callbacks dropped their events
\* (UCSNetServiceCallBackInterface.cpp:76), or one that hears no event: shown
\* while the network thread was between ShowWindow and m_bIsActive
\* (videoDlg.cpp:499, 500).  Any other end hides its window.
ShownCallIsLive ==
  Quiet /\ shown /\ active /\ unheard = {} /\ Reported => Live # {}

-----------------------------------------------------------------------------
(* What a comment of the code says and the code does not do. *)

\* "The caller's hang-up has no effect before the alert: hang up again"
\* (videoDlg.cpp:280).
HungUpAgain == Quiet => \A c \in abandoned : line[c] # "ringing"

=============================================================================
