----------------------------- MODULE TcpRounds -----------------------------
(***************************************************************************)
(* What the TCP server's working cycle promises, without its pointers:     *)
(* the connections are kept in one sequence, newest first; a round visits  *)
(* each of those in the sequence at its start once, in that order; a       *)
(* connection leaves the sequence only in its own visit.                   *)
(***************************************************************************)
EXTENDS Sequences, SequencesExt

CONSTANT Conn   \* the connections that peers make

VARIABLES conns,  \* the connections served, newest first
          todo    \* those of this round still to be visited

rounds == <<conns, todo>>

Init == conns = <<>> /\ todo = <<>>

\* Between rounds a connection is accepted, in front.
Accept(c) ==
  /\ todo = <<>>
  /\ ~Contains(conns, c)
  /\ conns' = <<c>> \o conns
  /\ UNCHANGED todo

StartRound ==
  /\ todo = <<>>
  /\ todo' = conns
  /\ UNCHANGED conns

\* The first connection still to be visited is served, and stays or goes.
Visit ==
  /\ todo # <<>>
  /\ todo' = Tail(todo)
  /\ \/ UNCHANGED conns
     \/ \E i \in 1..Len(conns) : conns[i] = Head(todo) /\ conns' = RemoveAt(conns, i)

Next == (\E c \in Conn : Accept(c)) \/ StartRound \/ Visit

Spec == Init /\ [][Next]_rounds
=============================================================================
