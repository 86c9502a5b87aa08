------------------------------- MODULE Mailbox -------------------------------
(***************************************************************************)
(* What the message center promises about the messages of friends: one that *)
(* arrives waits until its friend's messages are read, and reading shows    *)
(* all that wait of him, each once and in the order they came.  A message   *)
(* that is never shown was lost while no other had come after it.  The list *)
(* of unread messages, the two threads and the main window (Inbox)          *)
(* implement this.                                                          *)
(***************************************************************************)
EXTENDS Naturals, Sequences, FiniteSets

CONSTANTS Friend, Other   \* senders: friends, and those with nothing to show

VARIABLES
  senders,   \* the sender of every message that came, the oldest first
  waiting,   \* the messages that wait
  shown      \* the messages shown, the oldest first

Init == senders = <<>> /\ waiting = {} /\ shown = <<>>

Of(a) == {m \in waiting : senders[m] = a}

InOrder(ms) == [i \in 1..Cardinality(ms) |->
                  CHOOSE m \in ms : Cardinality({n \in ms : n < m}) = i - 1]

\* A message of a friend may be lost the moment it comes.
Arrive(a) ==
  /\ senders' = Append(senders, a)
  /\ \/ a \in Friend /\ waiting' = waiting \cup {Len(senders')}
     \/ UNCHANGED waiting
  /\ UNCHANGED shown

Read(a) ==
  /\ shown' = shown \o InOrder(Of(a))
  /\ waiting' = waiting \ Of(a)
  /\ UNCHANGED senders

\* Only the newest message can be lost.
Lose ==
  /\ waiting' = waiting \ {Len(senders)}
  /\ UNCHANGED <<senders, shown>>

Next == (\E a \in Friend \cup Other : Arrive(a)) \/ (\E a \in Friend : Read(a)) \/ Lose

Spec == Init /\ [][Next]_<<senders, waiting, shown>>

=============================================================================
