------------------------------ MODULE Session ------------------------------
(***************************************************************************)
(* Login, loss of the connection and automatic reconnection of the MM      *)
(* client, for several instances of the program on one PC that use the     *)
(* same account (MM/loginDlg.cpp, MM/Controller.cpp, MM/Login.cpp and the  *)
(* reconnection part of MM/mainDlg.cpp).                                   *)
(*                                                                         *)
(* An instance has a UI thread, which runs the window procedure of         *)
(* loginDlg, and at most one network thread, which runs gloox's            *)
(* Client::connect.  The instances meet in one kernel object: the named    *)
(* event that loginDlg::OnBtnLogin creates to forbid a second login of     *)
(* the account on the PC.  The event exists as long as any instance has    *)
(* an open handle to it.                                                   *)
(*                                                                         *)
(* gloox reports the end of a connection from inside the Client, on        *)
(* whichever thread met it, and the network thread goes on in the Client   *)
(* after the report.  Nothing waits for it: CController::InitLogin may     *)
(* delete the Client first.  What the instance does from then on is        *)
(* undefined: here it is "corrupt" and may do anything to its handles.     *)
(***************************************************************************)
EXTENDS Integers, Sequences, SequencesExt

CONSTANTS
    Proc,       \* the instances of the program started on the PC
    Doubled,    \* bound: the instances in which a connection's end may be
                \* reported twice, by one thread or by both
    MaxBoxes,   \* bound: boxes of OnBtnLogin opened on top of one another
    MaxPosted   \* bound: failures the UI thread's own sends have in the queue

ASSUME DoubledBound == Doubled \subseteq Proc
ASSUME BoxBound == MaxBoxes \in Nat
ASSUME PostBound == MaxPosted \in Nat

VARIABLES
    life,           \* the instance runs, does not run, or is corrupt
    ui,             \* where the UI thread is
    boxes,          \* modal boxes open inside OnBtnLogin, the newest last
    conflict,       \* the boxes under the newest conflict box; -1: no such box
    timer,          \* WM_TIMER_RECONNECT is set
    posted,         \* WM_LOGIN_FAILED messages in the UI thread's queue
    mainWin,        \* the main window exists: ~new_login
    connected,      \* mainDlg::connect_to_server_
    m_bLogining,
    m_hEvent,       \* the handle in loginDlg::m_hEvent is open
    leaked,         \* a handle is open that m_hEvent does not name any more
    init_times,     \* earlier calls of InitLogin: 0 or, for any more, 1
    net,            \* where the network thread is
    streamError,    \* what onDisconnect read, while the thread is in it
    sess,           \* the Client under mainDlg::m_pMsgSessionMgr
    mishap          \* history: what befell the instance's connections

uiVars   == <<ui, boxes, conflict, timer, mainWin, connected>>
lockVars == <<m_hEvent, leaked>>
netVars  == <<net, streamError, mishap>>
vars     == <<life, uiVars, posted, m_bLogining, lockVars, init_times,
              netVars, sess>>

StreamError == {"conflict", "other"}
\* "verify": InitLogin waits for the web server's answer.  "spawned": the
\* network thread is started and m_bLogining not yet set.
UiState  == {"loop", "verify", "spawned"}
\* "services": CreateServices has run and OnConnected waits in SendMessage.
\* "broken": a send of the UI thread has failed and been reported, but the
\* thread was in recv and the socket stays open.  "closing", "failing":
\* m_bLogining is reset and WM_LOGIN_FAILED not yet posted; after "closing"
\* comes a second report, in "again".  "leaving": all is reported and the
\* thread is on its way out of the Client.
NetState == {"none", "connecting", "services", "online", "broken", "closing",
             "again", "failing", "leaving"}
BoxKind  == {"already", "timeout", "rejected"}
Pointer  == {"none", "live", "freed"}
\* "early": a connection ended before OnBtnLogin set m_bLogining for it.
\* "twice": the end of a connection was reported more than once.  A login that
\* starts with no box open starts with a clean record.
Mishap   == {"early", "twice"}

TypeOK ==
    /\ life \in [Proc -> {"off", "on", "corrupt"}]
    /\ ui \in [Proc -> UiState]
    /\ boxes \in [Proc -> Seq(BoxKind)]
    /\ conflict \in [Proc -> Nat \cup {-1}]
    /\ timer \in [Proc -> BOOLEAN]
    /\ posted \in [Proc -> Seq(StreamError)]
    /\ mainWin \in [Proc -> BOOLEAN]
    /\ connected \in [Proc -> BOOLEAN]
    /\ m_bLogining \in [Proc -> BOOLEAN]
    /\ m_hEvent \in [Proc -> BOOLEAN]
    /\ leaked \in [Proc -> BOOLEAN]
    /\ init_times \in [Proc -> 0..1]
    /\ net \in [Proc -> NetState]
    /\ streamError \in [Proc -> StreamError]
    /\ sess \in [Proc -> Pointer]
    /\ mishap \in [Proc -> SUBSET Mishap]

Init ==
    /\ life = [p \in Proc |-> "off"]
    /\ ui = [p \in Proc |-> "loop"]
    /\ boxes = [p \in Proc |-> << >>]
    /\ conflict = [p \in Proc |-> -1]
    /\ timer = [p \in Proc |-> FALSE]
    /\ posted = [p \in Proc |-> << >>]
    /\ mainWin = [p \in Proc |-> FALSE]
    /\ connected = [p \in Proc |-> FALSE]
    /\ m_bLogining = [p \in Proc |-> FALSE]
    /\ m_hEvent = [p \in Proc |-> FALSE]
    /\ leaked = [p \in Proc |-> FALSE]
    /\ init_times = [p \in Proc |-> 0]
    /\ net = [p \in Proc |-> "none"]
    /\ streamError = [p \in Proc |-> "other"]
    /\ sess = [p \in Proc |-> "none"]
    /\ mishap = [p \in Proc |-> {}]

----------------------------------------------------------------------------
(* The process.                                                            *)

\* The user, or the ShellExecute of LogOff and of the conflict box, starts
\* an instance; all its state is that of Init.
Launch(p) ==
    /\ life[p] = "off"
    /\ life' = [life EXCEPT ![p] = "on"]
    /\ UNCHANGED <<uiVars, posted, m_bLogining, lockVars, init_times,
                   netVars, sess>>

\* Nothing is left of the instance's state but, perhaps, an open handle.
Reset(p, l, handle) ==
    /\ life' = [life EXCEPT ![p] = l]
    /\ ui' = [ui EXCEPT ![p] = "loop"]
    /\ boxes' = [boxes EXCEPT ![p] = << >>]
    /\ conflict' = [conflict EXCEPT ![p] = -1]
    /\ timer' = [timer EXCEPT ![p] = FALSE]
    /\ posted' = [posted EXCEPT ![p] = << >>]
    /\ mainWin' = [mainWin EXCEPT ![p] = FALSE]
    /\ connected' = [connected EXCEPT ![p] = FALSE]
    /\ m_bLogining' = [m_bLogining EXCEPT ![p] = FALSE]
    /\ m_hEvent' = [m_hEvent EXCEPT ![p] = FALSE]
    /\ leaked' = [leaked EXCEPT ![p] = handle]
    /\ init_times' = [init_times EXCEPT ![p] = 0]
    /\ net' = [net EXCEPT ![p] = "none"]
    /\ streamError' = [streamError EXCEPT ![p] = "other"]
    /\ sess' = [sess EXCEPT ![p] = "none"]
    /\ mishap' = [mishap EXCEPT ![p] = {}]

\* The process ends, in whatever state it is: the kernel closes its handles.
EndProcess(p) == Reset(p, "off", FALSE)

\* The user quits or logs off, the instance is killed or it crashes.
Quit(p) == life[p] # "off" /\ EndProcess(p)

\* A thread works in a Client that is deleted: nothing is known any more of
\* what the instance does, its handles are all the others can see of it.
Corrupt(p) == \E handle \in BOOLEAN : Reset(p, "corrupt", handle)

CorruptStep(p) == life[p] = "corrupt" /\ Corrupt(p)

----------------------------------------------------------------------------
(* The UI thread: OnBtnLogin and CController::InitLogin.                   *)

\* Mutant: the result ERROR_ALREADY_EXISTS is ignored.
EventIgnored == FALSE

EventExists == \E q \in Proc : m_hEvent[q] \/ leaked[q]

CloseEvent(p) ==
    /\ m_hEvent' = [m_hEvent EXCEPT ![p] = FALSE]
    /\ UNCHANGED leaked

\* InitLogin returned false: OnBtnLogin closes the event's handle, unless a
\* login is under way.
LoginNotStarted(p) ==
    \/ ~m_bLogining[p] /\ CloseEvent(p)
    \/ m_bLogining[p] /\ UNCHANGED lockVars

\* A pointer to an object that works on the Client dangles once
\* CController::InitLogin has deleted the Client.
ClientDeleted(ptr) == IF ptr = "live" THEN "freed" ELSE ptr

\* CreateEvent's handle overwrites the one in m_hEvent.  Only m_hEvent is ever
\* passed to CloseHandle: an open handle it does not name stays open.
CreateEvent(p) ==
    /\ m_hEvent' = [m_hEvent EXCEPT ![p] = TRUE]
    /\ leaked' = [leaked EXCEPT ![p] = @ \/ m_hEvent[p]]

\* The event existed before: a modal box says so and the handle is closed
\* only after it.
AlreadyLoggedIn(p) ==
    /\ EventExists
    /\ CreateEvent(p)
    /\ boxes' = [boxes EXCEPT ![p] = Append(@, "already")]
    /\ UNCHANGED <<life, ui, conflict, timer, posted, mainWin, connected,
                   m_bLogining, init_times, netVars, sess>>

BoxOpen(p) == boxes[p] # << >> \/ conflict[p] # -1

\* InitLogin deletes the last Client, whether or not the network thread has
\* left it, and asks the web server.
InitLogin(p) ==
    /\ ~EventExists
    /\ \/ net[p] # "none" /\ Corrupt(p)
       \/ /\ net[p] = "none"
          /\ CreateEvent(p)
          /\ ui' = [ui EXCEPT ![p] = "verify"]
          /\ sess' = [sess EXCEPT ![p] = ClientDeleted(@)]
          /\ mishap' = [mishap EXCEPT ![p] = IF BoxOpen(p) THEN @ ELSE {}]
          /\ UNCHANGED <<life, boxes, conflict, timer, posted, mainWin,
                         connected, m_bLogining, init_times, net,
                         streamError>>

\* OnBtnLogin up to the web server's answer.
BtnLogin(p) ==
    /\ ~m_bLogining[p]
    /\ Len(boxes[p]) < MaxBoxes
    /\ AlreadyLoggedIn(p) \/ InitLogin(p)

\* Mutant: messages are delivered to the window of the newest box only.
PumpsOnlyBox(p) == life[p] = "on" /\ ui[p] = "loop" /\ boxes[p] = << >>

\* GetMessage delivers input and WM_TIMER only when no message is posted;
\* the loop of a modal box (DuiLib ShowModal) delivers them too.
Pumping(p) == life[p] = "on" /\ ui[p] = "loop"

\* The login button or Enter, while the login window is shown.  The box of
\* OnBtnLogin disables that window, the boxes of InitLogin do not.
EnterKey(p) ==
    /\ Pumping(p) /\ posted[p] = << >>
    /\ ~mainWin[p]
    /\ ~Contains(boxes[p], "already")
    /\ BtnLogin(p)

ReconnectTimer(p) ==
    /\ Pumping(p) /\ posted[p] = << >>
    /\ timer[p]
    /\ BtnLogin(p)

\* No answer of the web server.  Only the first InitLogin shows a box.
VerifyTimeout(p) ==
    /\ life[p] = "on" /\ ui[p] = "verify"
    /\ ui' = [ui EXCEPT ![p] = "loop"]
    /\ init_times' = [init_times EXCEPT ![p] = 1]
    /\ \/ /\ init_times[p] = 0
          /\ boxes' = [boxes EXCEPT ![p] = Append(@, "timeout")]
          /\ UNCHANGED lockVars
       \/ /\ init_times[p] = 1
          /\ LoginNotStarted(p)
          /\ UNCHANGED boxes
    /\ UNCHANGED <<life, conflict, timer, posted, mainWin, connected,
                   m_bLogining, netVars, sess>>

\* The web server refuses: wrong password, no such account or another code.
VerifyRejected(p) ==
    /\ life[p] = "on" /\ ui[p] = "verify"
    /\ ui' = [ui EXCEPT ![p] = "loop"]
    /\ init_times' = [init_times EXCEPT ![p] = 1]
    /\ boxes' = [boxes EXCEPT ![p] = Append(@, "rejected")]
    /\ UNCHANGED <<life, conflict, timer, posted, mainWin, connected,
                   m_bLogining, lockVars, netVars, sess>>

\* The web server sends a token: LoginToServer starts the network thread.
VerifyAccepted(p) ==
    /\ life[p] = "on" /\ ui[p] = "verify"
    /\ ui' = [ui EXCEPT ![p] = "spawned"]
    /\ init_times' = [init_times EXCEPT ![p] = 1]
    /\ net' = [net EXCEPT ![p] = "connecting"]
    /\ UNCHANGED <<life, boxes, conflict, timer, posted, mainWin, connected,
                   m_bLogining, lockVars, streamError, mishap, sess>>

\* OnBtnLogin goes on after InitLogin returned true, with the network
\* thread already running.
LoginStarted(p) ==
    /\ life[p] = "on" /\ ui[p] = "spawned"
    /\ m_bLogining' = [m_bLogining EXCEPT ![p] = TRUE]
    /\ ui' = [ui EXCEPT ![p] = "loop"]
    /\ UNCHANGED <<life, boxes, conflict, timer, posted, mainWin, connected,
                   lockVars, init_times, netVars, sess>>

\* The user closes the newest box and the OnBtnLogin that opened it ends.
DismissBox(p) ==
    /\ Pumping(p) /\ boxes[p] # << >> /\ Len(boxes[p]) > conflict[p]
    /\ boxes' = [boxes EXCEPT ![p] = Front(@)]
    /\ \/ Last(boxes[p]) = "already" /\ CloseEvent(p)
       \/ Last(boxes[p]) # "already" /\ LoginNotStarted(p)
    /\ UNCHANGED <<life, ui, conflict, timer, posted, mainWin, connected,
                   m_bLogining, init_times, netVars, sess>>

----------------------------------------------------------------------------
(* The network thread: CLogin's connection listener.                       *)

\* onConnect: CreateServices makes new managers and calls OnConnected, which
\* waits in SendMessage(WM_LOGIN_SUCCESS).
OnConnect(p) ==
    /\ life[p] = "on" /\ net[p] = "connecting"
    /\ net' = [net EXCEPT ![p] = "services"]
    /\ UNCHANGED <<life, uiVars, posted, m_bLogining, lockVars, init_times,
                   streamError, mishap, sess>>

\* The network thread finds the connection ended: gloox calls onDisconnect
\* when recv fails, and when the stream is closed, where a failing send of the
\* closing tag reports first ("closing") and the closing itself then "again".
\* The server closes a stream with "conflict" only once a session is bound to
\* it, and the first report resets the Client's stream error.
EndFound(p, e) ==
    /\ life[p] = "on"
    /\ \/ net[p] \in {"online", "broken"}
       \/ net[p] \in {"connecting", "again"} /\ e = "other"
    /\ \/ net' = [net EXCEPT ![p] = "failing"]
       \/ net[p] # "again" /\ p \in Doubled /\ net' = [net EXCEPT ![p] = "closing"]
    /\ streamError' = [streamError EXCEPT ![p] = e]
    /\ mishap' = [mishap EXCEPT ![p] =
                    @ \cup (IF ui[p] = "spawned" THEN {"early"} ELSE {})
                      \cup (IF net[p] \in {"broken", "again"} THEN {"twice"}
                                                              ELSE {})]

\* Mutant: the network thread closes the event's handle itself.
OnDisconnectCloses(p, e) ==
    /\ EndFound(p, e)
    /\ m_bLogining' = [m_bLogining EXCEPT ![p] = FALSE]
    /\ CloseEvent(p)
    /\ UNCHANGED <<life, uiVars, posted, init_times, sess>>

\* Mutant: the flag of the login that is over is not reset.
OnDisconnectKeepsFlag(p, e) ==
    /\ EndFound(p, e)
    /\ UNCHANGED <<life, uiVars, posted, m_bLogining, lockVars, init_times,
                   sess>>

\* onDisconnect and the first half of OnConnectFail.
OnDisconnect(p, e) ==
    /\ EndFound(p, e)
    /\ m_bLogining' = [m_bLogining EXCEPT ![p] = FALSE]
    /\ UNCHANGED <<life, uiVars, posted, lockVars, init_times, sess>>

\* Where the thread goes on after a report.
AfterReport(p) == IF net[p] = "closing" THEN "again" ELSE "leaving"

\* Mutant: what is posted is the ConnectionError, not the StreamError.
PostsConnectionError(p) ==
    /\ life[p] = "on" /\ net[p] \in {"closing", "failing"}
    /\ posted' = [posted EXCEPT ![p] = Append(@, "ConnStreamError")]
    /\ net' = [net EXCEPT ![p] = AfterReport(p)]
    /\ streamError' = [streamError EXCEPT ![p] = "other"]
    /\ UNCHANGED <<life, uiVars, m_bLogining, lockVars, init_times, mishap,
                   sess>>

\* The second half of OnConnectFail; the thread returns into gloox.
PostLoginFailed(p) ==
    /\ life[p] = "on" /\ net[p] \in {"closing", "failing"}
    /\ posted' = [posted EXCEPT ![p] = Append(@, streamError[p])]
    /\ net' = [net EXCEPT ![p] = AfterReport(p)]
    /\ streamError' = [streamError EXCEPT ![p] = "other"]
    /\ UNCHANGED <<life, uiVars, m_bLogining, lockVars, init_times, mishap,
                   sess>>

\* notifyOnDisconnect has run init() on the Client, recv, receive and connect
\* have returned: the thread function ends.
ThreadEnds(p) ==
    /\ life[p] = "on" /\ net[p] = "leaving"
    /\ net' = [net EXCEPT ![p] = "none"]
    /\ UNCHANGED <<life, uiVars, posted, m_bLogining, lockVars, init_times,
                   streamError, mishap, sess>>

----------------------------------------------------------------------------
(* The UI thread: its own sends and the messages of the network thread.    *)

\* A command of the main window sends and fails: onDisconnect runs on the UI
\* thread.  cleanup() closes the socket, so that the network thread leaves
\* without a report of its own, unless that thread is in recv.
SendFails(p, e) ==
    /\ Pumping(p) /\ connected[p]
    /\ net[p] \in {"online", "broken"}
    /\ Len(posted[p]) < MaxPosted
    /\ m_bLogining' = [m_bLogining EXCEPT ![p] = FALSE]
    /\ posted' = [posted EXCEPT ![p] = Append(@, e)]
    /\ \/ net' = [net EXCEPT ![p] = "leaving"]
       \/ p \in Doubled /\ net' = [net EXCEPT ![p] = "broken"]
    /\ mishap' = [mishap EXCEPT ![p] =
                    @ \cup (IF net[p] = "broken" THEN {"twice"} ELSE {})]
    /\ UNCHANGED <<life, uiVars, lockVars, init_times, streamError, sess>>

\* Mutant: ReconnectTimer is not stopped.
SuccessKeepsTimer(p) ==
    /\ Pumping(p) /\ net[p] = "services"
    /\ mainWin' = [mainWin EXCEPT ![p] = TRUE]
    /\ connected' = [connected EXCEPT ![p] = TRUE]
    /\ sess' = [sess EXCEPT ![p] = "live"]
    /\ net' = [net EXCEPT ![p] = "online"]
    /\ UNCHANGED <<life, ui, boxes, conflict, timer, posted, m_bLogining,
                   lockVars, init_times, streamError, mishap>>

\* Mutant: ReConnect keeps the old session manager, as it does the old user
\* manager.
SuccessKeepsManager(p) ==
    /\ Pumping(p) /\ net[p] = "services"
    /\ timer' = [timer EXCEPT ![p] = FALSE]
    /\ mainWin' = [mainWin EXCEPT ![p] = TRUE]
    /\ connected' = [connected EXCEPT ![p] = TRUE]
    /\ sess' = [sess EXCEPT ![p] = IF mainWin[p] THEN @ ELSE "live"]
    /\ net' = [net EXCEPT ![p] = "online"]
    /\ UNCHANGED <<life, ui, boxes, conflict, posted, m_bLogining, lockVars,
                   init_times, streamError, mishap>>

\* WM_LOGIN_SUCCESS: the first one creates the main window, the others run
\* mainDlg::ReConnect, which takes the new session manager and keeps the old
\* user manager.  The network thread goes on.
LoginSuccess(p) ==
    /\ Pumping(p) /\ net[p] = "services"
    /\ timer' = [timer EXCEPT ![p] = FALSE]
    /\ mainWin' = [mainWin EXCEPT ![p] = TRUE]
    /\ connected' = [connected EXCEPT ![p] = TRUE]
    /\ sess' = [sess EXCEPT ![p] = "live"]
    /\ net' = [net EXCEPT ![p] = "online"]
    /\ UNCHANGED <<life, ui, boxes, conflict, posted, m_bLogining, lockVars,
                   init_times, streamError, mishap>>

\* WM_LOGIN_FAILED before the main window exists: LoseConnection is called
\* on a null mainDlg and the process crashes.
LoginFailedNoMainWin(p) ==
    /\ Pumping(p) /\ posted[p] # << >>
    /\ ~mainWin[p]
    /\ EndProcess(p)

\* Mutant: the timer is set before the stream error is looked at.
TimerBeforeConflict(p) ==
    /\ Pumping(p) /\ posted[p] # << >>
    /\ mainWin[p]
    /\ posted' = [posted EXCEPT ![p] = Tail(@)]
    /\ connected' = [connected EXCEPT ![p] = FALSE]
    /\ CloseEvent(p)
    /\ timer' = [timer EXCEPT ![p] = @ \/ ~m_bLogining[p]]
    /\ \/ /\ Head(posted[p]) = "conflict"
          /\ conflict' = [conflict EXCEPT ![p] = Len(boxes[p])]
       \/ /\ Head(posted[p]) # "conflict"
          /\ UNCHANGED conflict
    /\ UNCHANGED <<life, ui, boxes, mainWin, m_bLogining, init_times, netVars,
                   sess>>

\* WM_LOGIN_FAILED: the connection is lost, the lock given back; a conflict
\* opens the box that ends the program, anything else sets the timer.
LoginFailed(p) ==
    /\ Pumping(p) /\ posted[p] # << >>
    /\ mainWin[p]
    /\ posted' = [posted EXCEPT ![p] = Tail(@)]
    /\ connected' = [connected EXCEPT ![p] = FALSE]
    /\ CloseEvent(p)
    /\ \/ /\ Head(posted[p]) = "conflict"
          /\ conflict' = [conflict EXCEPT ![p] = Len(boxes[p])]
          /\ UNCHANGED timer
       \/ /\ Head(posted[p]) # "conflict"
          /\ timer' = [timer EXCEPT ![p] = @ \/ ~m_bLogining[p]]
          /\ UNCHANGED conflict
    /\ UNCHANGED <<life, ui, boxes, mainWin, m_bLogining, init_times, netVars,
                   sess>>

\* The user answers the conflict box: exit(0), with a relaunch for Yes.
AnswerConflict(p) ==
    /\ Pumping(p) /\ conflict[p] = Len(boxes[p])
    /\ EndProcess(p)

----------------------------------------------------------------------------
Step(p) ==
    \/ Launch(p) \/ Quit(p) \/ CorruptStep(p)
    \/ EnterKey(p) \/ ReconnectTimer(p)
    \/ VerifyTimeout(p) \/ VerifyRejected(p) \/ VerifyAccepted(p)
    \/ LoginStarted(p) \/ DismissBox(p)
    \/ OnConnect(p) \/ \E e \in StreamError : OnDisconnect(p, e)
    \/ PostLoginFailed(p) \/ ThreadEnds(p)
    \/ \E e \in StreamError : SendFails(p, e)
    \/ LoginSuccess(p) \/ LoginFailedNoMainWin(p) \/ LoginFailed(p)
    \/ AnswerConflict(p)

Next == \E p \in Proc : Step(p)

Spec == Init /\ [][Next]_vars

\* The UI thread goes on after InitLogin, which the web server or the time
\* limit ends, and takes the messages posted to it.
Fairness ==
    \A p \in Proc :
        /\ WF_vars(VerifyTimeout(p) \/ VerifyRejected(p) \/ VerifyAccepted(p))
        /\ WF_vars(LoginStarted(p))
        /\ WF_vars(LoginFailedNoMainWin(p) \/ LoginFailed(p))

FairSpec == Spec /\ Fairness

\* Moreover the network thread runs, the timer ticks and the user closes the
\* boxes in front of him.
RestlessSpec ==
    /\ FairSpec
    /\ \A p \in Proc :
          /\ WF_vars(PostLoginFailed(p))
          /\ WF_vars(ThreadEnds(p))
          /\ WF_vars(LoginSuccess(p))
          /\ WF_vars(ReconnectTimer(p))
          /\ WF_vars(DismissBox(p))

----------------------------------------------------------------------------
(* Properties.                                                             *)

\* The instance is verifying, connecting or connected, or a connection's end
\* is found and not yet posted.
InUse(p) ==
    \/ ui[p] = "verify"
    \/ net[p] \in {"connecting", "services", "online", "closing", "failing"}

\* The account is never in use by two instances of the PC at a time, whatever
\* timers, boxes, disconnections and crashes come in between ("forbid several
\* logins of one account on one PC", loginDlg.cpp:545).  An instance whose
\* connection ended with two reports is excepted: the second WM_LOGIN_FAILED
\* may close the handle a box of OnBtnLogin has yet to close.
OneLoginPerPC ==
    \A p, q \in Proc :
        \/ p = q
        \/ ~InUse(p) \/ ~InUse(q)
        \/ "twice" \in mishap[p] \cup mishap[q]

\* While the main window takes the user's commands (connect_to_server_), the
\* session manager it sends through works on a Client that is not deleted
\* (mainDlg.cpp:2027 guards what mainDlg.cpp:7280 refreshes).
SendsThroughLiveClient ==
    \A p \in Proc : connected[p] => sess[p] = "live"

\* While a session is up its window takes commands and the reconnect timer is
\* off: a failure that arrives late never shuts the window of the session that
\* follows it.  Nor is a modal box of a login attempt left over, unless a
\* connection's end was reported twice.
OnlineIsUsable ==
    \A p \in Proc :
        net[p] = "online" =>
            /\ connected[p] /\ ~timer[p]
            /\ boxes[p] = << >> \/ "twice" \in mishap[p]

\* An instance that has lost its connection and has nothing left to do about
\* it (no thread, no message, no box) tries again at the next tick: its timer
\* is on (loginDlg.cpp:648 leaves it off when a login seems to be under way)
\* and OnBtnLogin is not shut by m_bLogining.  The exception is the connection
\* that ended before loginDlg.cpp:564 set m_bLogining for it, see
\* ReconnectsAutomatically.
IdleTriesAgain ==
    \A p \in Proc :
        (mainWin[p] /\ ~connected[p] /\ ui[p] = "loop" /\ boxes[p] = << >>
            /\ conflict[p] = -1 /\ net[p] = "none" /\ posted[p] = << >>)
        => timer[p] /\ (m_bLogining[p] => "early" \in mishap[p])

\* InitLogin runs in a step of p: it waits for the web server or has deleted
\* the Client under its thread.
Relogin(p) ==
    \/ ui[p] # "verify" /\ ui'[p] = "verify"
    \/ life[p] = "on" /\ life'[p] = "corrupt"

\* InitLogin, which deletes the Client of the last login (Controller.cpp:133),
\* never deletes that of a session which is being set up, is up or has found
\* its end: the user or the timer starts it only after the end has been
\* reported, posted and handled.  A second report of the same end, by the
\* other thread, may still be under way.
DeletesOnlyEndedSession ==
    [][\A p \in Proc : Relogin(p) =>
          \/ /\ net[p] \in {"none", "again", "broken", "leaving"}
             /\ posted[p] = << >>
          \/ "twice" \in mishap[p]]_vars

\* Once the box says that the account was taken over elsewhere, the instance
\* does not log in behind it: the box's loop handles messages and timers, but
\* the timer is not set (loginDlg.cpp:634-650).  A second report of the same
\* end sets it after all.
NoLoginBehindConflict ==
    [][\A p \in Proc :
          conflict[p] # -1 /\ Relogin(p) => "twice" \in mishap[p]]_vars

\* Every lost connection that is reported gets handled, also under modal boxes.
FailureIsHandled ==
    \A p \in Proc : (posted[p] # << >>) ~> (posted[p] = << >>)

\* "Automatic reconnection" (loginDlg.cpp:647): after a connection is lost the
\* program logs in again, or it shows the user a box, or it ends.
ReconnectsAutomatically ==
    \A p \in Proc :
        (mainWin[p] /\ net[p] = "none" /\ posted[p] = <<"other">>)
            ~> (ui[p] = "verify" \/ boxes[p] # << >> \/ life[p] # "on")

=============================================================================
