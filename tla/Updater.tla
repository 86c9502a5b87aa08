------------------------------- MODULE Updater -------------------------------
(***************************************************************************)
(* MMUpgrade, the program that updates the client, and DoUpload, which      *)
(* publishes a version.                                                     *)
(*                                                                          *)
(* The updater asks the server for its version and list of files, downloads *)
(* every file into a folder of that version and copies them over the        *)
(* program.  Only the result of the last download is looked at, and that of *)
(* no copy.  Its window can be closed at any moment, which ends the process *)
(* wherever its thread is; started again it begins anew, in the same folder *)
(* if the version is the same.  One updater runs at a time here.            *)
(***************************************************************************)
EXTENDS Integers

CONSTANTS Files,       \* the length of the list of files
          MaxVersion   \* bound: versions published

ASSUME UpdaterConstants == Files \in Nat \ {0} /\ MaxVersion \in Nat

File    == 1 .. Files
Version == 0 .. MaxVersion     \* 0: the one the client was installed with

VARIABLES
  published,  \* the version the server tells
  pc,         \* what the updater is doing
  version,    \* pNewVersion->strVersion
  i,          \* the file it is at
  failed,     \* the files of this update whose download failed
  folder,     \* update\<version>\<file>
  installed,  \* the version of each file of the program
  torn,       \* files of the program that are not whole
  ini,        \* the version in System.ini
  missed      \* history: files whose latest copy, or the download before it,
              \* failed or was cut

server  == published
program == <<installed, torn, ini, missed>>
vars    == <<server, pc, version, i, failed, folder, program>>

TypeOK ==
  /\ published \in Version /\ version \in Version /\ ini \in Version
  /\ pc \in {"off", "download", "copy", "write"}
  /\ i \in File
  /\ failed \subseteq File
  /\ folder \in [Version -> [File -> {"none", "part", "whole"}]]
  /\ installed \in [File -> Version]
  /\ torn \subseteq File /\ missed \subseteq File

Init ==
  /\ published = 0 /\ version = 0 /\ ini = 0
  /\ pc = "off" /\ i = 1 /\ failed = {}
  /\ folder = [v \in Version |-> [f \in File |-> "none"]]
  /\ installed = [f \in File |-> 0] /\ torn = {} /\ missed = {}

-----------------------------------------------------------------------------
(* SetVerison at the end of DoUpload. *)
DoUpload ==
  /\ published < MaxVersion
  /\ published' = published + 1
  /\ UNCHANGED <<pc, version, i, failed, folder, program>>

(* A new process has the version and the list and starts its thread. *)
DoUpdate ==
  /\ pc = "off"
  /\ pc' = "download" /\ version' = published /\ i' = 1 /\ failed' = {}
  /\ UNCHANGED <<server, folder, program>>

Fetched(s) == folder' = [folder EXCEPT ![version][i] = s]

\* Mutant: one file too many.
DownloadPastEnd(ok) ==
  IF i <= Files THEN i' = i + 1 /\ UNCHANGED pc
  ELSE i' = 1 /\ pc' = IF ok THEN "copy" ELSE "off"

\* After a file: the next one, or the test of nResult and CopyFiles.
AfterDownload(ok) ==
  IF i < Files THEN i' = i + 1 /\ UNCHANGED pc
  ELSE i' = 1 /\ pc' = IF ok THEN "copy" ELSE "off"

\* downloadObjectByUrl: 200, or another code, with the file begun or not.
downloadObjectByUrl ==
  /\ pc = "download"
  /\ \/ Fetched("whole") /\ AfterDownload(TRUE) /\ UNCHANGED failed
     \/ /\ Fetched("part") \/ UNCHANGED folder
        /\ AfterDownload(FALSE)
        /\ failed' = failed \cup {i}
  /\ UNCHANGED <<server, version, program>>

(* CopyFile of file i. *)
Have == folder[version][i]

CopyOk ==
  /\ Have # "none"
  /\ installed' = [installed EXCEPT ![i] = version]
  /\ torn' = IF Have = "whole" THEN torn \ {i} ELSE torn \cup {i}
  /\ missed' = IF i \notin failed THEN missed \ {i} ELSE missed \cup {i}

\* No source, or the file is in use.
CopyFails == missed' = missed \cup {i} /\ UNCHANGED <<installed, torn>>

\* Mutant: the last file is left out.
CopyAllButLast ==
  /\ pc = "copy"
  /\ CopyOk \/ CopyFails
  /\ IF i + 1 < Files THEN i' = i + 1 /\ UNCHANGED pc ELSE i' = 1 /\ pc' = "write"
  /\ UNCHANGED <<server, version, failed, folder, ini>>

CopyFile ==
  /\ pc = "copy"
  /\ CopyOk \/ CopyFails
  /\ IF i < Files THEN i' = i + 1 /\ UNCHANGED pc ELSE i' = 1 /\ pc' = "write"
  /\ UNCHANGED <<server, version, failed, folder, ini>>

(* The result of WritePrivateProfileString is ignored, too. *)
WriteIni ==
  /\ pc = "write"
  /\ ini' = version \/ UNCHANGED ini
  /\ pc' = "off"
  /\ UNCHANGED <<server, version, i, failed, folder, installed, torn, missed>>

(* The window is closed: the process ends in the middle of what it does. *)
CutCopy == torn' = torn \cup {i} /\ missed' = missed \cup {i}

Close ==
  /\ pc # "off" /\ pc' = "off"
  /\ \/ pc = "download" /\ Fetched("part") /\ UNCHANGED <<torn, missed>>
     \/ pc = "copy" /\ CutCopy /\ UNCHANGED folder
     \/ UNCHANGED <<folder, torn, missed>>
  /\ UNCHANGED <<server, version, i, failed, installed, ini>>

Next ==
  \/ DoUpload \/ DoUpdate \/ downloadObjectByUrl \/ CopyFile \/ WriteIni
  \/ Close

Spec == Init /\ [][Next]_vars

-----------------------------------------------------------------------------
(* Properties *)

(* loginDlg::NeedUpdate *)
NeedUpdate == ini # published

\* What the client needs to know of updates is in System.ini
\* (loginDlg.cpp:276).  When it says that the client is up to date, every file
\* is there in that version, but for those whose own download or copy failed
\* or was cut: no update that was given up half-way, no file left from an
\* earlier one and no other file's failure makes a file old or torn.
UpToDateIsInstalled ==
  ~NeedUpdate => \A f \in File \ missed : f \notin torn /\ installed[f] = published

=============================================================================
