---------------------------- MODULE UpdaterProofs ----------------------------
(***************************************************************************)
(* An up-to-date System.ini means up-to-date files, for every number of     *)
(* files and versions.                                                      *)
(*                                                                          *)
(* The invariant follows the update file by file: up to where the download  *)
(* is, a file whose download did not fail is whole; up to where the copying *)
(* is, a file that is not missed has the new version; and System.ini is     *)
(* never ahead of a file that is not missed.                                *)
(***************************************************************************)
EXTENDS Updater, TLAPS

\* The files that are downloaded, or copied, when the updater is at file i.
Done == CASE pc = "write" -> File
          [] pc \in {"download", "copy"} -> 1 .. (i - 1)
          [] OTHER -> {}

Downloaded == IF pc = "download" THEN Done ELSE IF pc = "off" THEN {} ELSE File

VersionsInOrder == ini <= published /\ version <= published
                     /\ (pc # "off" => ini <= version)
                     /\ \A f \in File : installed[f] <= published

WholeUnlessFailed ==
  \A f \in File : f \in Downloaded /\ f \notin failed => folder[version][f] = "whole"

CopiedUnlessMissed ==
  pc \in {"copy", "write"} =>
    \A f \in File : f \in Done /\ f \notin missed => installed[f] >= version

NeverShort ==
  \A f \in File : f \notin missed => f \notin torn /\ installed[f] >= ini

IInv == /\ TypeOK
        /\ VersionsInOrder
        /\ WholeUnlessFailed
        /\ CopiedUnlessMissed
        /\ NeverShort

LEMMA InitIInv == Init => IInv
  BY UpdaterConstants DEF Init, IInv, TypeOK, VersionsInOrder, WholeUnlessFailed,
     CopiedUnlessMissed, NeverShort, Done, Downloaded, File, Version

LEMMA UploadStep == IInv /\ DoUpload => IInv'
  BY UpdaterConstants DEF DoUpload, IInv, TypeOK, VersionsInOrder, WholeUnlessFailed,
     CopiedUnlessMissed, NeverShort, Done, Downloaded, File, Version, program

LEMMA UpdateStep == IInv /\ DoUpdate => IInv'
  BY UpdaterConstants DEF DoUpdate, IInv, TypeOK, VersionsInOrder, WholeUnlessFailed,
     CopiedUnlessMissed, NeverShort, Done, Downloaded, File, Version, program, server

LEMMA DownloadStep == IInv /\ downloadObjectByUrl => IInv'
<1> SUFFICES ASSUME IInv, downloadObjectByUrl PROVE IInv'
  OBVIOUS
<1> USE UpdaterConstants DEF downloadObjectByUrl, IInv, server, program
<1>1. TypeOK'
  <2>1. folder' \in [Version -> [File -> {"none", "part", "whole"}]]
    <3>1. CASE UNCHANGED folder
      BY <3>1 DEF TypeOK
    <3>2. CASE Fetched("whole")
      BY <3>2 DEF TypeOK, Fetched
    <3>3. CASE Fetched("part")
      BY <3>3 DEF TypeOK, Fetched
    <3> QED
      BY <3>1, <3>2, <3>3
  <2>2. i' \in File /\ pc' \in {"off", "download", "copy", "write"}
    BY DEF TypeOK, AfterDownload, File
  <2>3. failed' \subseteq File
    BY DEF TypeOK
  <2> QED
    BY <2>1, <2>2, <2>3 DEF TypeOK
<1>2. VersionsInOrder'
  BY DEF TypeOK, VersionsInOrder, AfterDownload
<1>3. WholeUnlessFailed'
  BY DEF TypeOK, WholeUnlessFailed, Fetched, AfterDownload, Done, Downloaded, File,
     Version
<1>4. CopiedUnlessMissed'
  BY DEF TypeOK, CopiedUnlessMissed, AfterDownload, Done, File
<1>5. NeverShort'
  BY DEF NeverShort
<1> QED
  BY <1>1, <1>2, <1>3, <1>4, <1>5

LEMMA CopyStep == IInv /\ CopyFile => IInv'
<1> SUFFICES ASSUME IInv, CopyFile PROVE IInv'
  OBVIOUS
<1> USE UpdaterConstants DEF CopyFile, IInv, server, CopyOk, CopyFails
<1>1. TypeOK'
  <2>1. i' \in File /\ pc' \in {"off", "download", "copy", "write"}
    BY DEF TypeOK, File
  <2>2. installed' \in [File -> Version]
    BY DEF TypeOK
  <2>3. torn' \subseteq File /\ missed' \subseteq File
    BY DEF TypeOK
  <2> QED
    BY <2>1, <2>2, <2>3 DEF TypeOK
<1>2. VersionsInOrder'
  BY DEF TypeOK, VersionsInOrder
<1>3. WholeUnlessFailed'
  BY DEF TypeOK, WholeUnlessFailed, Done, Downloaded
<1>4. CopiedUnlessMissed'
  <2> SUFFICES ASSUME NEW f \in File, f \in Done', f \notin missed'
               PROVE  installed'[f] >= version
    BY DEF CopiedUnlessMissed
  <2>1. f \in 1 .. i /\ i \in Int /\ version \in Int
    BY DEF TypeOK, Done, File, Version
  <2>2. CASE f = i
    BY <2>1, <2>2 DEF TypeOK, File
  <2>3. CASE f # i
    <3>1. f \in Done /\ f \notin missed /\ installed'[f] = installed[f]
      BY <2>1, <2>3 DEF TypeOK, Done, File
    <3> QED
      BY <3>1 DEF CopiedUnlessMissed
  <2> QED
    BY <2>2, <2>3
<1>5. NeverShort'
  <2>1. i \in Downloaded
    BY DEF TypeOK, Downloaded
  <2> QED
    BY <2>1 DEF TypeOK, NeverShort, WholeUnlessFailed, VersionsInOrder, Have, File,
       Version
<1> QED
  BY <1>1, <1>2, <1>3, <1>4, <1>5

LEMMA WriteStep == IInv /\ WriteIni => IInv'
  BY UpdaterConstants DEF WriteIni, IInv, TypeOK, VersionsInOrder, WholeUnlessFailed,
     CopiedUnlessMissed, NeverShort, Done, Downloaded, File, Version, server

LEMMA CloseStep == IInv /\ Close => IInv'
<1> SUFFICES ASSUME IInv, Close PROVE IInv'
  OBVIOUS
<1> USE DEF Close, CutCopy, IInv, server
<1>1. TypeOK'
  <2>1. folder' \in [Version -> [File -> {"none", "part", "whole"}]]
    BY DEF TypeOK, Fetched
  <2>2. torn' \subseteq File /\ missed' \subseteq File
    BY DEF TypeOK
  <2> QED
    BY <2>1, <2>2 DEF TypeOK
<1>2. VersionsInOrder'
  BY DEF VersionsInOrder
<1>3. WholeUnlessFailed' /\ CopiedUnlessMissed'
  BY DEF WholeUnlessFailed, CopiedUnlessMissed, Done, Downloaded
<1>4. NeverShort'
  BY DEF TypeOK, NeverShort
<1> QED
  BY <1>1, <1>2, <1>3, <1>4

LEMMA NextIInv == IInv /\ [Next]_vars => IInv'
<1>1. CASE Next
  BY <1>1, UploadStep, UpdateStep, DownloadStep, CopyStep, WriteStep, CloseStep DEF Next
<1>2. CASE UNCHANGED vars
  BY <1>2 DEF vars, server, program, IInv, TypeOK, VersionsInOrder, WholeUnlessFailed,
     CopiedUnlessMissed, NeverShort, Done, Downloaded
<1> QED
  BY <1>1, <1>2

\* The invariant of the update: a file is behind System.ini only if its own
\* download or copy failed or was cut.
THEOREM Invariance == Spec => []IInv
  BY InitIInv, NextIInv, PTL DEF Spec

\* Every variable of the updater keeps its type.
THEOREM TypeCorrect == Spec => []TypeOK
<1>1. IInv => TypeOK
  BY DEF IInv
<1> QED
  BY <1>1, Invariance, PTL

\* When System.ini says that the client is up to date, it is, file by file
\* (uWindow.cpp:274, uWindow.cpp:301).
THEOREM UpToDate == Spec => []UpToDateIsInstalled
<1>1. IInv => UpToDateIsInstalled
  <2> SUFFICES ASSUME IInv, ~NeedUpdate, NEW f \in File \ missed
               PROVE  f \notin torn /\ installed[f] = published
    BY DEF UpToDateIsInstalled
  <2>1. f \notin torn /\ installed[f] >= ini /\ installed[f] <= published
    BY DEF IInv, NeverShort, VersionsInOrder
  <2>2. installed[f] \in Int /\ ini \in Int
    BY UpdaterConstants DEF IInv, TypeOK, Version
  <2> QED
    BY <2>1, <2>2 DEF NeedUpdate
<1> QED
  BY <1>1, Invariance, PTL
=============================================================================
