---------------------------- MODULE TransferFifo ----------------------------
(***************************************************************************)
(* What CFileControl promises to those who hand it files to upload: every   *)
(* file asked for is dealt with once, in the order of the requests, and     *)
(* either it succeeds or it fails.  The queue and its worker thread         *)
(* (FileTransfer) implement this.                                           *)
(***************************************************************************)
EXTENDS Naturals, Sequences

CONSTANT File

VARIABLES
    pending,    \* files asked for, the oldest first
    finished    \* the outcome of every file dealt with, the oldest first

Outcome == [file : File, ok : BOOLEAN]

Init == pending = << >> /\ finished = << >>

Waits(f) == \E i \in 1..Len(pending) : pending[i] = f

\* A file that waits is not asked for again.
Ask(f) ==
    /\ ~Waits(f)
    /\ pending' = Append(pending, f)
    /\ UNCHANGED finished

Finish(ok) ==
    /\ pending # << >>
    /\ finished' = Append(finished, [file |-> Head(pending), ok |-> ok])
    /\ pending' = Tail(pending)

Next == (\E f \in File : Ask(f)) \/ (\E ok \in BOOLEAN : Finish(ok))

Spec == Init /\ [][Next]_<<pending, finished>>

=============================================================================
