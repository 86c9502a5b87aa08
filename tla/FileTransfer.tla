---------------------------- MODULE FileTransfer ----------------------------
(***************************************************************************)
(* Sending and receiving files in a chat (MM/FileControl.cpp and the file   *)
(* part of MM/mainDlg.cpp).                                                 *)
(*                                                                          *)
(* The UI thread shows one row per file in the file tab of the chat the     *)
(* file belongs to, with the buttons send and cancel, or accept and reject. *)
(* CFileControl has two queues and one worker thread for each.  A worker    *)
(* looks at the front of its queue, transfers that file, and takes it out   *)
(* of the queue only afterwards.  It reports on its own thread, except that *)
(* a finished upload is reported by SendMessage(WM_USER+199).               *)
(*                                                                          *)
(* Windows of the same name share an entry of DuiLib's hash of names: that  *)
(* of the buttons accept and reject is the row made last, and none once     *)
(* this row is gone (UIManager.cpp:1575, 2982).                             *)
(***************************************************************************)
EXTENDS Integers, Sequences, FiniteSets

CONSTANTS
    Name,       \* names of files
    Chat,       \* accounts of friends, each with a chat
    NoRow,      \* NULL
    MaxRows,    \* bound: rows on the screen
    MaxSent,    \* bound: clicks on send
    MaxAccepted \* bound: clicks on accept

\* strKey: the path, the direction and the account.
Key    == [dir : {"upload", "download"}, name : Name, peer : Chat]
Up     == {k \in Key : k.dir = "upload"}
Down   == {k \in Key : k.dir = "download"}

ASSUME NullRow == NoRow \notin Key
ASSUME Bounds  == MaxRows \in Nat /\ MaxSent \in Nat /\ MaxAccepted \in Nat

VARIABLES
    cur,            \* m_CurItem: the chat that is open
    rows,           \* the rows of all file tabs
    buttons,        \* the rows whose own buttons are visible
    named,          \* the row FindControl("button_element_accept") leads to
    m_mapTaskFiles,
    upq, downq,     \* upload_file_info_queue_, download_file_info_queue_
    up, down,       \* where the two workers are
    finished,       \* outcomes of uploads, in order
    messages,       \* file messages sent, in order: the file and the chat
    crashed         \* a null pointer was used

rowVars == <<rows, buttons, named, m_mapTaskFiles>>
upVars  == <<upq, up, finished, messages>>
dnVars  == <<downq, down>>
vars    == <<cur, rowVars, upVars, dnVars, crashed>>

TypeOK ==
    /\ cur \in Chat
    /\ rows \subseteq Key /\ buttons \subseteq rows
    /\ named \in Down \cup {NoRow}
    /\ m_mapTaskFiles \subseteq Key
    /\ upq \in Seq(Up) /\ downq \in Seq(Down)
    /\ up \in {"idle", "transfer", "tell", "pop"}
    /\ down \in {"idle", "transfer", "pop"}
    /\ finished \in Seq([file : Up, ok : BOOLEAN])
    /\ messages \in Seq([file : Up, to : Chat])
    /\ crashed \in BOOLEAN

Init ==
    /\ cur \in Chat
    /\ rows = {} /\ buttons = {} /\ named = NoRow /\ m_mapTaskFiles = {}
    /\ upq = << >> /\ downq = << >>
    /\ up = "idle" /\ down = "idle"
    /\ finished = << >> /\ messages = << >>
    /\ crashed = FALSE

----------------------------------------------------------------------------
(* The rows.                                                               *)

\* refreshFilesProcess, refreshFilesDownloadProcess: new rows with buttons.
AddRows(ks) ==
    /\ rows' = rows \cup ks
    /\ buttons' = buttons \cup ks
    /\ m_mapTaskFiles' = m_mapTaskFiles \cup ks

\* Mutant: the entry of the map stays, as in the lines commented out
\* (mainDlg.cpp:6095).
RemoveRowOnly(k) ==
    /\ rows' = rows \ {k}
    /\ buttons' = buttons \ {k}
    /\ named' = IF named = k THEN NoRow ELSE named
    /\ UNCHANGED m_mapTaskFiles

\* Mutant: the row's buttons outlive it.
RemoveRowNotButtons(k) ==
    /\ rows' = rows \ {k}
    /\ named' = IF named = k THEN NoRow ELSE named
    /\ m_mapTaskFiles' = m_mapTaskFiles \ {k}
    /\ UNCHANGED buttons

\* The row goes, with the entry of the map and, for the row named last, the
\* hash's entry.
RemoveRow(k) ==
    /\ rows' = rows \ {k}
    /\ buttons' = buttons \ {k}
    /\ named' = IF named = k THEN NoRow ELSE named
    /\ m_mapTaskFiles' = m_mapTaskFiles \ {k}

\* OnProcess looks for the row's progress bar, for any progress bar of the
\* window when there is no such row, and uses the result unchecked.
NoBar(k) == k \notin rows /\ rows = {}

----------------------------------------------------------------------------
(* The user.                                                               *)

\* OnItemSelect of another chat, which brings its file tab to the front.
SelectChat(a) ==
    /\ ~crashed
    /\ cur' = a
    /\ UNCHANGED <<rowVars, upVars, dnVars, crashed>>

\* addFilesForSend and refreshFilesProcess: of the files chosen, those before
\* the first one that is empty or listed already.
ChooseFiles(ns) ==
    LET keys == {[dir |-> "upload", name |-> n, peer |-> cur] : n \in ns}
    IN /\ ~crashed
       /\ Cardinality(rows) + Cardinality(ns) <= MaxRows
       /\ ns # {} /\ keys \cap m_mapTaskFiles = {}
       /\ AddRows(keys)
       /\ UNCHANGED <<cur, named, upVars, dnVars, crashed>>

\* Mutant: the buttons stay while the file waits.
SendKeepsButtons(k) ==
    /\ ~crashed /\ Len(finished) + Len(upq) < MaxSent
    /\ k \in buttons \cap Up /\ k.peer = cur
    /\ upq' = Append(upq, k)
    /\ UNCHANGED <<cur, rowVars, up, finished, messages, dnVars, crashed>>

\* button_element_send: uploadFiles.
ClickSend(k) ==
    /\ ~crashed /\ Len(finished) + Len(upq) < MaxSent
    /\ k \in buttons \cap Up /\ k.peer = cur
    /\ buttons' = buttons \ {k}
    /\ upq' = Append(upq, k)
    /\ UNCHANGED <<cur, rows, named, m_mapTaskFiles, up, finished, messages,
                   dnVars, crashed>>

\* button_element_cancel
ClickCancel(k) ==
    /\ ~crashed
    /\ k \in buttons \cap Up /\ k.peer = cur
    /\ RemoveRow(k)
    /\ UNCHANGED <<cur, upVars, dnVars, crashed>>

\* button_element_accept and button_element_reject begin by hiding the buttons
\* FindControl leads to, whichever row they are in.
ClickUnnamed ==
    /\ ~crashed
    /\ \E k \in buttons \cap Down : k.peer = cur
    /\ named = NoRow
    /\ crashed' = TRUE
    /\ UNCHANGED <<cur, rowVars, upVars, dnVars>>

\* button_element_accept: downloadFiles; the friend is told at once, before
\* the download.
ClickAccept(k) ==
    /\ ~crashed /\ Len(downq) < MaxAccepted
    /\ k \in buttons \cap Down /\ k.peer = cur
    /\ named # NoRow
    /\ buttons' = buttons \ {named}
    /\ downq' = Append(downq, k)
    /\ UNCHANGED <<cur, rows, named, m_mapTaskFiles, upVars, down, crashed>>

\* button_element_reject
ClickReject(k) ==
    /\ ~crashed
    /\ k \in buttons \cap Down /\ k.peer = cur
    /\ named # NoRow
    /\ rows' = rows \ {k}
    /\ buttons' = buttons \ {k, named}
    /\ named' = IF named = k THEN NoRow ELSE named
    /\ m_mapTaskFiles' = m_mapTaskFiles \ {k}
    /\ UNCHANGED <<cur, upVars, dnVars, crashed>>

----------------------------------------------------------------------------
(* The server.                                                             *)

\* ProcessSysMsg_FileRequest: a friend offers a file that is not listed yet.
Offer(k) ==
    /\ ~crashed
    /\ k \in Down \ m_mapTaskFiles
    /\ Cardinality(rows) < MaxRows
    /\ AddRows({k})
    /\ named' = k
    /\ UNCHANGED <<cur, upVars, dnVars, crashed>>

----------------------------------------------------------------------------
(* The upload thread.                                                      *)

\* uploadThreadFunc: the front of the queue.
UploadFront ==
    /\ ~crashed /\ up = "idle" /\ upq # << >>
    /\ up' = "transfer"
    /\ UNCHANGED <<cur, rowVars, upq, finished, messages, dnVars, crashed>>

\* uploadPartFromFile has failed at one of its three requests and has called
\* OnProcess(-1), which removes the row.
UploadFails ==
    /\ ~crashed /\ up = "transfer"
    /\ RemoveRow(Head(upq))
    /\ finished' = Append(finished, [file |-> Head(upq), ok |-> FALSE])
    /\ up' = "pop"
    /\ crashed' = NoBar(Head(upq))
    /\ UNCHANGED <<cur, upq, messages, dnVars>>

\* The file is on the server; the thread waits in SendMessage.
UploadSucceeds ==
    /\ ~crashed /\ up = "transfer"
    /\ up' = "tell"
    /\ UNCHANGED <<cur, rowVars, upq, finished, messages, dnVars, crashed>>

\* WM_USER+199 in the UI thread: addFileMsg sends the message to the chat that
\* is open, OnProcess(100) removes the row.
AddFileMsg ==
    /\ ~crashed /\ up = "tell"
    /\ messages' = Append(messages, [file |-> Head(upq), to |-> cur])
    /\ RemoveRow(Head(upq))
    /\ finished' = Append(finished, [file |-> Head(upq), ok |-> TRUE])
    /\ up' = "pop"
    /\ crashed' = NoBar(Head(upq))
    /\ UNCHANGED <<cur, upq, dnVars>>

\* Mutant: the thread takes out what was put in last.
PopBack ==
    /\ ~crashed /\ up = "pop"
    /\ upq' = SubSeq(upq, 1, Len(upq) - 1)
    /\ up' = "idle"
    /\ UNCHANGED <<cur, rowVars, finished, messages, dnVars, crashed>>

\* Mutant: the thread pops only what it uploaded.
PopSuccess ==
    /\ ~crashed /\ up = "pop" /\ finished[Len(finished)].ok
    /\ upq' = Tail(upq)
    /\ up' = "idle"
    /\ UNCHANGED <<cur, rowVars, finished, messages, dnVars, crashed>>

\* uploadThreadFunc: the file is taken out of the queue.
UploadPop ==
    /\ ~crashed /\ up = "pop"
    /\ upq' = Tail(upq)
    /\ up' = "idle"
    /\ UNCHANGED <<cur, rowVars, finished, messages, dnVars, crashed>>

----------------------------------------------------------------------------
(* The download thread.                                                    *)

DownloadFront ==
    /\ ~crashed /\ down = "idle" /\ downq # << >>
    /\ down' = "transfer"
    /\ UNCHANGED <<cur, rowVars, upVars, downq, crashed>>

\* downloadObjectByUrl: OnProcess after each part.
DownloadPart ==
    /\ ~crashed /\ down = "transfer"
    /\ NoBar(Head(downq))
    /\ crashed' = TRUE
    /\ UNCHANGED <<cur, rowVars, upVars, dnVars>>

\* OnProcess(-1), or addDownloadedFileMsg and OnProcess(100): nobody hears of a
\* failure but this row, which goes in either case.
DownloadEnds ==
    /\ ~crashed /\ down = "transfer"
    /\ RemoveRow(Head(downq))
    /\ down' = "pop"
    /\ crashed' = NoBar(Head(downq))
    /\ UNCHANGED <<cur, upVars, downq>>

DownloadPop ==
    /\ ~crashed /\ down = "pop"
    /\ downq' = Tail(downq)
    /\ down' = "idle"
    /\ UNCHANGED <<cur, rowVars, upVars, crashed>>

----------------------------------------------------------------------------
User ==
    \/ \E a \in Chat : SelectChat(a)
    \/ \E ns \in SUBSET Name : ChooseFiles(ns)
    \/ \E k \in Up : ClickSend(k) \/ ClickCancel(k)
    \/ ClickUnnamed
    \/ \E k \in Down : ClickAccept(k) \/ ClickReject(k)

UploadThread == UploadFront \/ UploadFails \/ UploadSucceeds \/ UploadPop
DownloadThread == DownloadFront \/ DownloadPart \/ DownloadEnds \/ DownloadPop

Next ==
    \/ User \/ AddFileMsg \/ UploadThread \/ DownloadThread
    \/ \E k \in Down : Offer(k)

Spec == Init /\ [][Next]_vars

\* The upload thread runs, a transfer ends in success or failure, and the UI
\* thread handles the message sent to it.
FairSpec == Spec /\ WF_vars(UploadThread) /\ WF_vars(AddFileMsg)

----------------------------------------------------------------------------
(* Properties.                                                             *)

\* The uploads that are not dealt with: a file the thread has dealt with stays
\* in the queue until it is popped.
Pending == IF up = "pop" THEN Tail(upq) ELSE upq

\* Each click on send gives one upload and one outcome, in the order of the
\* clicks, although files are sent again, fail, and are listed again while
\* the queue still holds them (FileControl.cpp:78-84).
Fifo == INSTANCE TransferFifo WITH File <- Up, pending <- Pending,
                                   finished <- finished
UploadsOnceInOrder == Fifo!Spec

\* A row is on the screen exactly as long as the map has the file: with a map
\* entry left over the file could never be sent again (mainDlg.cpp:789), with
\* a row left over its button would use the map's end().
RowsMatchTasks == rows = m_mapTaskFiles

\* A file that waits for its upload has its row, so that its progress and its
\* failure are shown at that row, and no buttons, so that it cannot be
\* cancelled or sent a second time meanwhile (mainDlg.cpp:2494-2499).
UploadHoldsItsRow ==
    \A i \in 1..Len(Pending) : Pending[i] \in rows \ buttons

\* A file sent is uploaded or reported as failed, unless the program crashes.
UploadEnds == \A k \in Up : (k \in {Pending[i] : i \in 1..Len(Pending)})
                  ~> (crashed \/ k \notin {Pending[i] : i \in 1..Len(Pending)})

----------------------------------------------------------------------------
(* What the comments of the code say and the code does not do.             *)

\* UIDefine.h:20: stropposite is the account a file is sent to.
FileGoesToItsChat ==
    \A i \in 1..Len(messages) : messages[i].to = messages[i].file.peer

=============================================================================
