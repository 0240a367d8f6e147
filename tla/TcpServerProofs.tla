-------------------------- MODULE TcpServerProofs --------------------------
(***************************************************************************)
(* Proofs about the TCP server, for any sets of connections: its types;    *)
(* that its select set, its client records and the sockets of FTP          *)
(* connections agree in every state; and that its linked list is sound and *)
(* implements the rounds of TcpRounds.                                     *)
(*                                                                         *)
(* The list is reasoned about through a sequence s of records and the      *)
(* number k of those that the walk has behind it (ListIs), which each step *)
(* of the server changes as one would draw it: a record in front, one more *)
(* behind, the one at the walk taken out.                                  *)
(***************************************************************************)
EXTENDS TcpServer, WellFoundedInduction, FiniteSetTheorems, SequenceTheorems, TLAPS

\* FreeRTOS_CreateTCPServer leaves a well-typed state.
LEMMA InitTypes == Init => TypeOK
<1> SUFFICES ASSUME Init PROVE TypeOK
  OBVIOUS
<1>1. conn \in [Conn -> {"absent", "queued", "open", "closed"}]
  BY DEF Init
<1>2. inbox \in [Conn -> 0..MaxReq]
  BY TcpAssumption DEF TcpAssumption, Init
<1>3. next \in [Conn -> Conn \cup {NULL}] /\ pxClients \in Conn \cup {NULL}
  BY DEF Init
<1>4. badAccess \in BOOLEAN
  BY DEF Init
<1> QED
  BY <1>1, <1>2, <1>3, <1>4 DEF Init, TypeOK

\* The state stays in its types, whatever the peers do (the variables that
\* FreeRTOS_TCPServerWork and prvReceiveNewClient write).
THEOREM TypeCorrect == Spec => []TypeOK
<1>1. TypeOK /\ [Next]_vars => TypeOK'
  <2> SUFFICES ASSUME TypeOK, [Next]_vars PROVE TypeOK'
    OBVIOUS
  <2> USE TcpAssumption DEF TcpAssumption, TypeOK
  <2>1. ASSUME NEW c \in Conn, Connect(c) PROVE TypeOK'
    BY <2>1 DEF Connect, list
  <2>2. ASSUME NEW c \in Conn, SendRequest(c) PROVE TypeOK'
    BY <2>2 DEF SendRequest, list
  <2>3. ASSUME NEW c \in Conn, PeerLeaves(c) PROVE TypeOK'
    BY <2>3 DEF PeerLeaves, list
  <2>4. CASE SelectReturns
    BY <2>4 DEF SelectReturns, tcp, list
  <2>5. CASE SelectTimesOut
    BY <2>5 DEF SelectTimesOut, tcp, list
  <2>6. CASE AcceptNone
    BY <2>6 DEF AcceptNone, NextListener, tcp, list
  <2>7. CASE StartWalk
    BY <2>7 DEF StartWalk, tcp, list
  <2>8. CASE EndWalk
    BY <2>8 DEF EndWalk, tcp, list
  <2>9. ASSUME NEW c \in Conn, ReceiveNewClient(c) PROVE TypeOK'
    <3>1. xIndex \in 1..2
      BY <2>9 DEF ReceiveNewClient, Queued, Listener
    <3> QED
      BY <2>9, <3>1 DEF ReceiveNewClient, NextListener
  <2>10. ASSUME NEW c \in Conn, RefuseNewClient(c) PROVE TypeOK'
    <3>1. xIndex \in 1..2
      BY <2>10 DEF RefuseNewClient, Queued, Listener
    <3> QED
      BY <2>10, <3>1 DEF RefuseNewClient, NextListener, list
  <2>11. ASSUME NEW c \in Conn, Work(c) PROVE TypeOK'
    BY <2>11 DEF Work, Uses, list
  <2>12. ASSUME NEW c \in Conn, Delete(c) PROVE TypeOK'
    <3>1. inbox' \in [Conn -> 0..MaxReq]
      BY <2>12 DEF Delete, WorkFails
    <3>2. next' \in [Conn -> Conn \cup {NULL}] /\ pxClients' \in Conn \cup {NULL}
      BY <2>12 DEF Delete, Points
    <3> QED
      BY <2>12, <3>1, <3>2 DEF Delete, Uses
  <2>13. CASE UNCHANGED vars
    BY <2>13 DEF vars, tcp, list
  <2> QED
    BY <2>1, <2>2, <2>3, <2>4, <2>5, <2>6, <2>7, <2>8, <2>9, <2>10, <2>11, <2>12, <2>13
    DEF Next, Server, Peers
<1> QED
  BY InitTypes, <1>1, PTL DEF Spec

-----------------------------------------------------------------------------

\* Both invariants are inductive together with the types.
Sockets == TypeOK /\ WatchesOpenSockets /\ FtpConnectionsOwned

LEMMA SocketsInductive == Sockets /\ TypeOK' /\ [Next]_vars => Sockets'
<1> SUFFICES ASSUME Sockets, TypeOK', [Next]_vars PROVE Sockets'
  OBVIOUS
<1> USE TcpAssumption DEF TcpAssumption, Sockets, TypeOK, WatchesOpenSockets, FtpConnectionsOwned
\* Steps that leave the records and the select set alone, and no socket open
\* that was not.
<1>1. ASSUME UNCHANGED <<heap, fdset>>,
             \A c \in Conn : conn'[c] = "open" <=> conn[c] = "open"
      PROVE Sockets'
  BY <1>1 DEF Conn
<1>2. ASSUME NEW c \in Conn, Connect(c) PROVE Sockets'
  <2>1. \A d \in Conn : conn'[d] = "open" <=> conn[d] = "open"
    BY <1>2 DEF Connect
  <2> QED
    BY <1>1, <1>2, <2>1 DEF Connect, list
<1>3. ASSUME NEW c \in Conn, SendRequest(c) \/ PeerLeaves(c) \/ Work(c) PROVE Sockets'
  BY <1>1, <1>3 DEF SendRequest, PeerLeaves, Work, list
<1>4. CASE SelectReturns \/ SelectTimesOut \/ AcceptNone \/ StartWalk \/ EndWalk
  BY <1>1, <1>4 DEF SelectReturns, SelectTimesOut, AcceptNone, StartWalk, EndWalk, tcp, list
\* A new client: its socket is opened, watched and owned in one step.
<1>5. ASSUME NEW c \in Conn, ReceiveNewClient(c) PROVE Sockets'
  <2>1. /\ \A d \in Conn : conn'[d] = IF d = c THEN "open" ELSE conn[d]
        /\ heap' = heap \cup {c}
        /\ fdset' = fdset \cup {c}
    BY <1>5 DEF ReceiveNewClient
  <2> QED
    BY <2>1 DEF Conn
<1>6. ASSUME NEW c \in Conn, RefuseNewClient(c) PROVE Sockets'
  <2>1. conn[c] = "queued"
    BY <1>6 DEF RefuseNewClient, Queued
  <2>2. \A d \in Conn : conn'[d] = "open" <=> conn[d] = "open"
    BY <1>6, <2>1 DEF RefuseNewClient
  <2> QED
    BY <1>1, <1>6, <2>2 DEF RefuseNewClient, list
\* A deleted client: FTP closes and forgets the socket, HTTP keeps both.
<1>7. ASSUME NEW c \in Conn, Delete(c) PROVE Sockets'
  <2>1. heap' = heap \ {c}
    BY <1>7 DEF Delete
  <2>2. CASE c \in FtpConn
    <3>1. /\ \A d \in Conn : conn'[d] = IF d = c THEN "closed" ELSE conn[d]
          /\ fdset' = fdset \ {c}
      BY <1>7, <2>2 DEF Delete
    <3> QED
      BY <2>1, <3>1 DEF Conn
  <2>3. CASE c \notin FtpConn
    <3>1. conn' = conn /\ fdset' = fdset
      BY <1>7, <2>3 DEF Delete
    <3> QED
      BY <2>1, <2>3, <3>1 DEF Conn
  <2> QED
    BY <2>2, <2>3
<1>8. CASE UNCHANGED vars
  BY <1>1, <1>8 DEF vars, tcp, list
<1> QED
  BY <1>2, <1>3, <1>4, <1>5, <1>6, <1>7, <1>8 DEF Next, Server, Peers

LEMMA SocketsHold == Spec => []Sockets
<1>1. Init => Sockets
  <2>2. Init => WatchesOpenSockets
    BY DEF Init, WatchesOpenSockets
  <2>3. Init => FtpConnectionsOwned
    <3>1. FtpConn \subseteq Conn
      BY DEF Conn
    <3> QED
      BY <3>1 DEF Init, FtpConnectionsOwned
  <2> QED
    BY InitTypes, <2>2, <2>3 DEF Sockets
<1> QED
  BY <1>1, TypeCorrect, SocketsInductive, PTL DEF Spec

\* select (FreeRTOS_TCP_server.c:264) watches every client's socket and never
\* one that was closed, for any number of connections.
THEOREM SelectSetSound == Spec => []WatchesOpenSockets
<1>1. Sockets => WatchesOpenSockets
  BY DEF Sockets
<1> QED
  BY <1>1, SocketsHold, PTL

\* An FTP connection is open exactly as long as its client record exists:
\* prvReceiveNewClient and vFTPClientDelete neither leak nor reuse a socket.
THEOREM FtpSocketsOwned == Spec => []FtpConnectionsOwned
<1>1. Sockets => FtpConnectionsOwned
  BY DEF Sockets
<1> QED
  BY <1>1, SocketsHold, PTL

-----------------------------------------------------------------------------
(* The links and the sequences they make *)

\* The least-number principle, and induction, in the form that needs no
\* operator for a parameter.
LEMMA LeastNumber == ASSUME NEW T \in SUBSET Nat, T # {} PROVE \E m \in T : \A k \in T : m <= k
<1>1. PICK m \in T : \A k \in T : ~ (<<k, m>> \in OpToRel(<, Nat))
  BY WFMin, NatLessThanWellFounded, Zenon
<1>2. \A k \in T : k < m => <<k, m>> \in OpToRel(<, Nat)
  BY DEF OpToRel
<1>3. \A k \in T : ~(k < m)
  BY <1>1, <1>2, Zenon
<1> QED BY <1>3

\* Induction over the naturals, for the members of a set.
LEMMA Induction ==
  ASSUME NEW S, 0 \in S, \A n \in Nat : n \in S => n + 1 \in S PROVE Nat \subseteq S
<1> SUFFICES ASSUME Nat \ S # {} PROVE FALSE
  OBVIOUS
<1>1. PICK m \in Nat \ S : \A k \in Nat \ S : m <= k
  BY LeastNumber
<1>2. m # 0 /\ m - 1 \in Nat
  BY <1>1
<1>3. m - 1 \in S
  BY <1>1, <1>2
<1> QED BY <1>1, <1>2, <1>3

\* s is the list that starts at p.
Listed(links, p, s) ==
  /\ s \in Seq(Conn)
  /\ p = IF s = <<>> THEN NULL ELSE s[1]
  /\ \A i \in 1..Len(s) : links[s[i]] = IF i = Len(s) THEN NULL ELSE s[i + 1]

\* Chain returns the whole list if it is asked for enough of it.
LEMMA ChainIsList ==
  ASSUME NEW links, NEW p, NEW s, Listed(links, p, s), NEW k \in Nat, Len(s) <= k + 1
  PROVE  Chain(links, p, k) = s
<1> USE TcpAssumption DEF TcpAssumption
<1> DEFINE Longer(t) == IF t = <<>> \/ links[Last(t)] = NULL THEN t ELSE Append(t, links[Last(t)])
           First == IF p = NULL THEN <<>> ELSE <<p>>
           Body(f) == [n \in 0..k |-> IF n = 0 THEN First ELSE Longer(f[n - 1])]
           UpTo(n) == IF n < Len(s) THEN n + 1 ELSE Len(s)
           Prefix == [n \in 0..k |-> SubSeq(s, 1, UpTo(n))]
<1>s. /\ s \in Seq(Conn) /\ Len(s) \in Nat /\ \A i \in 1..Len(s) : s[i] \in Conn /\ s[i] # NULL
      /\ s = <<>> <=> Len(s) = 0
  BY DEF Listed
<1>1. Prefix = Body(Prefix)
  <2> SUFFICES ASSUME NEW n \in 0..k
               PROVE  Prefix[n] = IF n = 0 THEN First ELSE Longer(Prefix[n - 1])
    BY Zenon
  <2>1. CASE n = 0
    <3>1. CASE s = <<>>
      BY <2>1, <3>1, <1>s DEF Listed
    <3>2. CASE s # <<>>
      <4>1. SubSeq(s, 1, 1) = <<s[1]>>
        <5>1. <<s[1]>> \in Seq(Conn) /\ SubSeq(s, 1, 1) \in Seq(Conn) /\ Len(SubSeq(s, 1, 1)) = 1
          BY <1>s, <3>2
        <5>2. SubSeq(s, 1, 1)[1] = s[1]
          BY <1>s, <3>2
        <5> DEFINE a == SubSeq(s, 1, 1)
                   b == <<s[1]>>
        <5>3. Len(b) = 1 /\ b[1] = s[1]
          OBVIOUS
        <5> HIDE DEF a, b
        <5>4. Len(a) = Len(b) /\ \A i \in 1..Len(a) : a[i] = b[i]
          BY <5>1, <5>2, <5>3 DEF a
        <5>5. a \in Seq(Conn) /\ b \in Seq(Conn)
          BY <5>1 DEF a, b
        <5>6. a = b
          BY <5>4, <5>5, SeqEqual
        <5> QED BY <5>6 DEF a, b
      <4>2. Prefix[n] = SubSeq(s, 1, 1)
        BY <2>1, <1>s, <3>2
      <4>3. First = <<s[1]>>
        BY <3>2, <1>s DEF Listed
      <4> HIDE DEF Prefix, First
      <4> QED BY <2>1, <4>1, <4>2, <4>3
    <3> QED BY <3>1, <3>2
  <2>2. CASE n # 0
    <3>1. n - 1 \in 0..k /\ Prefix[n - 1] = SubSeq(s, 1, UpTo(n - 1)) /\ Prefix[n] = SubSeq(s, 1, UpTo(n))
      BY <2>2
    <3>2. CASE s = <<>>
      BY <2>2, <3>1, <3>2, <1>s
    <3>3. CASE s # <<>> /\ n < Len(s)
      <4> DEFINE t == SubSeq(s, 1, n)
      <4>1. /\ t \in Seq(Conn) /\ Len(t) = n /\ t # <<>> /\ t[n] = s[n]
        BY <1>s, <2>2, <3>3
      <4>2. links[Last(t)] = s[n + 1] /\ s[n + 1] # NULL
        BY <4>1, <1>s, <2>2, <3>3 DEF Listed, Last
      <4>3. Append(t, s[n + 1]) = SubSeq(s, 1, n + 1)
        BY <1>s, <2>2, <3>3
      <4>4. Prefix[n - 1] = t /\ Prefix[n] = SubSeq(s, 1, n + 1)
        BY <2>2, <3>1, <3>3, <1>s
      <4> HIDE DEF t
      <4> QED BY <4>1, <4>2, <4>3, <4>4, <2>2
    <3>4. CASE s # <<>> /\ n >= Len(s)
      <4>1. SubSeq(s, 1, Len(s)) = s
        BY <1>s, SubSeqFull
      <4>2. UpTo(n - 1) = Len(s) /\ UpTo(n) = Len(s)
        BY <3>4, <2>2, <1>s
      <4>4. Prefix[n - 1] = s /\ Prefix[n] = s
        BY <3>1, <4>1, <4>2
      <4>3. links[Last(s)] = NULL
        BY <1>s, <3>4 DEF Listed, Last
      <4> QED BY <4>3, <4>4, <2>2
    <3> HIDE DEF Prefix, Longer, First
    <3> QED BY <3>2, <3>3, <3>4, <1>s
  <2> QED BY <2>1, <2>2
<1>2. ASSUME NEW f, f = Body(f) PROVE f = Prefix
  <2> DEFINE Same == {n \in Nat : n \in 0..k => f[n] = Prefix[n]}
  <2>0. \A n \in 0..k : f[n] = IF n = 0 THEN First ELSE Longer(f[n - 1])
    BY <1>2, Zenon
  <2>p. \A n \in 0..k : Prefix[n] = IF n = 0 THEN First ELSE Longer(Prefix[n - 1])
    BY <1>1, Zenon
  <2> HIDE DEF Prefix, Longer, First
  <2>1. 0 \in Same
    BY <2>0, <2>p
  <2>2. \A n \in Nat : n \in Same => n + 1 \in Same
    BY <2>0, <2>p
  <2> HIDE DEF Same
  <2>3. Nat \subseteq Same
    BY <2>1, <2>2, Induction
  <2>4. \A n \in 0..k : f[n] = Prefix[n]
    BY <2>3 DEF Same
  <2>5. f = [n \in 0..k |-> f[n]] /\ Prefix = [n \in 0..k |-> Prefix[n]]
    BY <1>2, Zenon DEF Prefix
  <2> QED BY <2>4, <2>5
<1>3. (CHOOSE f : f = Body(f)) = Prefix
  <2> HIDE DEF Body, Prefix
  <2> QED BY <1>1, <1>2
<1>4. Chain(links, p, k) = (CHOOSE f : f = Body(f))[k]
  BY Zenon DEF Chain
<1>5. Prefix[k] = SubSeq(s, 1, Len(s))
  BY <1>s
<1> QED BY <1>3, <1>4, <1>5, <1>s, SubSeqFull

-----------------------------------------------------------------------------
\* s names the records in S in the order of the list, each of them once.
Chained(links, p, S, s) ==
  /\ Listed(links, p, s)
  /\ \A i, j \in 1..Len(s) : s[i] = s[j] => i = j
  /\ \A c : c \in S <=> \E i \in 1..Len(s) : s[i] = c

\* A list without repetition has as many elements as places.
LEMMA Distinct ==
  ASSUME NEW links, NEW p, NEW S, NEW s, Chained(links, p, S, s)
  PROVE  Cardinality(S) = Len(s) /\ IsFiniteSet(S)
<1> USE DEF Chained
<1>0. s \in Seq(Conn) /\ Len(s) \in Int /\ 1 \in Int /\ Len(s) - 1 + 1 = Len(s) /\ Len(s) \in Nat
  BY DEF Listed
<1>1. IsFiniteSet(1..Len(s)) /\ Cardinality(1..Len(s)) = Len(s)
  BY <1>0, FS_Interval
<1>2. s \in [1..Len(s) -> S]
  BY <1>0
<1>3. s \in Bijection(1..Len(s), S)
  BY <1>2 DEF Bijection, Injection, Surjection, IsInjective
<1> QED BY <1>1, <1>3, FS_Bijection DEF ExistsBijection

\* What is left of the list behind its first k records, and the record there.
Rest(s, k) == SubSeq(s, k + 1, Len(s))
At(s, k)   == IF k < Len(s) THEN s[k + 1] ELSE NULL

\* A list without its first records is a list.
LEMMA RestIsListed ==
  ASSUME NEW links, NEW p, NEW S, NEW s, Chained(links, p, S, s), NEW k \in 0..Len(s)
  PROVE  Listed(links, At(s, k), Rest(s, k)) /\ Len(Rest(s, k)) = Len(s) - k
<1> USE DEF Chained, Listed
<1>1. Len(s) \in Nat /\ k \in Nat /\ Len(s) - k \in Nat
  OBVIOUS
<1>2. /\ Rest(s, k) \in Seq(Conn) /\ Len(Rest(s, k)) = Len(s) - k
      /\ \A i \in 1..Len(s) - k : Rest(s, k)[i] = s[k + i]
  BY <1>1 DEF Rest
<1>3. Rest(s, k) = <<>> <=> k = Len(s)
  BY <1>1, <1>2
<1>4. At(s, k) = IF Rest(s, k) = <<>> THEN NULL ELSE Rest(s, k)[1]
  BY <1>1, <1>2, <1>3 DEF At
<1>5. ASSUME NEW i \in 1..Len(s) - k
      PROVE  links[Rest(s, k)[i]] = IF i = Len(s) - k THEN NULL ELSE Rest(s, k)[i + 1]
  <2>1. k + i \in 1..Len(s) /\ (k + i = Len(s) <=> i = Len(s) - k) /\ (k + i) + 1 = k + (i + 1)
    BY <1>1
  <2>2. i # Len(s) - k => i + 1 \in 1..Len(s) - k
    BY <1>1
  <2>3. links[s[k + i]] = IF k + i = Len(s) THEN NULL ELSE s[(k + i) + 1]
    BY <2>1
  <2> QED BY <2>1, <2>2, <2>3, <1>2
<1> QED BY <1>2, <1>4, <1>5

\* What the server's pointers lead to.
LEMMA ViewOfList ==
  ASSUME NEW links, NEW p, NEW S, NEW s, Chained(links, p, S, s), NEW k \in 0..Len(s)
  PROVE  /\ Chain(links, p, Cardinality(S)) = s
         /\ Chain(links, At(s, k), Cardinality(S)) = Rest(s, k)
<1>1. Cardinality(S) = Len(s) /\ Len(s) \in Nat /\ Listed(links, p, s)
  BY Distinct DEF Chained, Listed
<1>2. Listed(links, At(s, k), Rest(s, k)) /\ Len(Rest(s, k)) <= Len(s) + 1 /\ Len(s) <= Len(s) + 1
  BY <1>1, RestIsListed
<1> QED BY <1>1, <1>2, ChainIsList

\* The records of the server are the list s, and its walk has k of them
\* behind it.
ListIs(s, k) ==
  /\ Chained(next, pxClients, heap, s) /\ k \in 0..Len(s)
  /\ ppxClient = IF pc # "walk" THEN NULL ELSE IF k = 0 THEN Anchor ELSE s[k]
  /\ ~badAccess

\* The walk's pointer leads to the first record that is not behind it.
LEMMA ThisIs ==
  ASSUME NEW s, NEW k, ListIs(s, k), pc = "walk" PROVE pxThis = At(s, k)
<1>1. s \in Seq(Conn) /\ Len(s) \in Nat /\ k \in 0..Len(s) /\ (s = <<>> <=> Len(s) = 0)
  BY DEF ListIs, Chained, Listed
<1>2. CASE k = 0
  BY <1>1, <1>2 DEF pxThis, At, ListIs, Chained, Listed
<1>3. CASE k # 0
  <2>1. k \in 1..Len(s) /\ ppxClient = s[k] /\ s[k] # Anchor
    BY <1>1, <1>3, TcpAssumption DEF ListIs, TcpAssumption
  <2>2. next[s[k]] = IF k = Len(s) THEN NULL ELSE s[k + 1]
    BY <2>1 DEF ListIs, Chained, Listed
  <2> QED BY <2>1, <2>2, <1>1 DEF pxThis, At
<1> QED BY <1>2, <1>3

\* The same after a step.
LEMMA ThisIsPrimed ==
  ASSUME NEW s, NEW k, ListIs(s, k)', pc' = "walk" PROVE pxThis' = At(s, k)
<1>1. s \in Seq(Conn) /\ Len(s) \in Nat /\ k \in 0..Len(s) /\ (s = <<>> <=> Len(s) = 0)
  BY DEF ListIs, Chained, Listed
<1>2. CASE k = 0
  BY <1>1, <1>2 DEF pxThis, At, ListIs, Chained, Listed
<1>3. CASE k # 0
  <2>1. k \in 1..Len(s) /\ ppxClient' = s[k] /\ s[k] # Anchor
    BY <1>1, <1>3, TcpAssumption DEF ListIs, TcpAssumption
  <2>2. next'[s[k]] = IF k = Len(s) THEN NULL ELSE s[k + 1]
    BY <2>1 DEF ListIs, Chained, Listed
  <2> QED BY <2>1, <2>2, <1>1 DEF pxThis, At
<1> QED BY <1>2, <1>3

\* The second sequence of TcpRounds.
Todo == IF pc = "walk" THEN From(pxThis) ELSE <<>>

\* The two sequences of TcpRounds are the list and what is left of it.
LEMMA View ==
  ASSUME NEW s, NEW k, ListIs(s, k)
  PROVE  Clients = s /\ Todo = IF pc = "walk" THEN Rest(s, k) ELSE <<>>
<1>1. Chained(next, pxClients, heap, s) /\ k \in 0..Len(s)
  BY DEF ListIs
<1>2. /\ Chain(next, pxClients, Cardinality(heap)) = s
      /\ Chain(next, At(s, k), Cardinality(heap)) = Rest(s, k)
  BY <1>1, ViewOfList
<1> QED BY <1>2, ThisIs DEF Todo, Clients, From

\* The same after a step.
LEMMA ViewPrimed ==
  ASSUME NEW s, NEW k, ListIs(s, k)'
  PROVE  Clients' = s /\ Todo' = IF pc' = "walk" THEN Rest(s, k) ELSE <<>>
<1>1. Chained(next', pxClients', heap', s) /\ k \in 0..Len(s)
  BY DEF ListIs, Chained, Listed
<1>2. /\ Chain(next', pxClients', Cardinality(heap')) = s
      /\ Chain(next', At(s, k), Cardinality(heap')) = Rest(s, k)
  BY <1>1, ViewOfList
<1> QED BY <1>2, ThisIsPrimed DEF Todo, Clients, From

-----------------------------------------------------------------------------
(* The list under the steps of the server *)

\* The record the walk is at is the next one of the list.
LEMMA AtNext ==
  ASSUME NEW s, NEW k, ListIs(s, k), NEW c, AtClient(c)
  PROVE  k < Len(s) /\ s[k + 1] = c /\ k + 1 \in 1..Len(s) /\ c \in heap /\ c \in Conn
<1>1. pxThis = At(s, k)
  BY ThisIs DEF AtClient
<1>2. k < Len(s) /\ s[k + 1] = c
  BY <1>1 DEF AtClient, At
<1>3. k + 1 \in 1..Len(s)
  BY <1>2 DEF ListIs
<1> QED BY <1>2, <1>3 DEF ListIs, Chained, Listed

\* Steps that leave the records alone; a walk begins or ends.
LEMMA KeepsList ==
  ASSUME NEW s, NEW k, ListIs(s, k), UNCHANGED <<list, badAccess>>
  PROVE  /\ (pc' = pc \/ {pc, pc'} \subseteq {"select", "accept"}) /\ ppxClient' = ppxClient
               => ListIs(s, k)'
         /\ ppxClient' = (IF pc' = "walk" THEN Anchor ELSE NULL) => ListIs(s, 0)'
<1>1. Chained(next', pxClients', heap', s) /\ ~badAccess' /\ k \in 0..Len(s) /\ 0 \in 0..Len(s)
  BY DEF ListIs, list, Chained, Listed
<1> QED BY <1>1 DEF ListIs

\* A client that stays is behind the walk.
LEMMA WorkMoves ==
  ASSUME NEW s, NEW k, ListIs(s, k), NEW c, Work(c)
  PROVE  ListIs(s, k + 1)'
<1>1. k + 1 \in 1..Len(s) /\ s[k + 1] = c /\ c \in heap /\ k + 1 # 0
  <2>1. AtClient(c) /\ k \in 0..Len(s)
    BY DEF Work, ListIs
  <2>2. Len(s) \in Nat
    BY DEF ListIs, Chained, Listed
  <2> QED BY <2>1, <2>2, AtNext
<1>2. Chained(next', pxClients', heap', s) /\ ~badAccess'
  BY <1>1 DEF ListIs, Work, list, Uses
<1> QED BY <1>1, <1>2 DEF ListIs, Work, AtClient

\* prvReceiveNewClient puts the record in front, in a walk of nobody.
LEMMA ReceivePrepends ==
  ASSUME NEW s, NEW k, ListIs(s, k), Sockets, NEW c \in Conn, ReceiveNewClient(c)
  PROVE  ListIs(<<c>> \o s, 0)' /\ ~Contains(s, c) /\ pc = "accept" /\ pc' = "accept"
<1> DEFINE t == <<c>> \o s
<1> USE TcpAssumption DEF TcpAssumption
<1>1. s \in Seq(Conn) /\ Len(s) \in Nat
  BY DEF ListIs, Chained, Listed
<1>2. c \notin heap
  BY DEF Sockets, WatchesOpenSockets, ReceiveNewClient, Queued
<1>3. t \in Seq(Conn) /\ Len(t) = Len(s) + 1 /\ t[1] = c /\ t # <<>>
      /\ \A i \in 2..Len(t) : t[i] = s[i - 1]
  BY <1>1
<1>4. \A i \in 1..Len(s) : s[i] # c /\ s[i] \in heap
  BY <1>2 DEF ListIs, Chained
<1>5. next' = [next EXCEPT ![c] = pxClients] /\ pxClients' = c /\ heap' = heap \cup {c}
      /\ DOMAIN next = Conn
  BY DEF ReceiveNewClient, Sockets, TypeOK
<1> HIDE DEF t
<1>6. Listed(next', pxClients', t)
  <2> SUFFICES ASSUME NEW i \in 1..Len(t)
               PROVE  next'[t[i]] = IF i = Len(t) THEN NULL ELSE t[i + 1]
    BY <1>3, <1>5 DEF Listed
  <2>1. CASE i = 1
    <3>1. next'[t[i]] = pxClients
      BY <1>3, <1>5, <2>1
    <3>2. pxClients = IF Len(s) = 0 THEN NULL ELSE s[1]
      BY <1>1 DEF ListIs, Chained, Listed
    <3> QED BY <3>1, <3>2, <2>1, <1>1, <1>3
  <2>2. CASE i # 1
    <3>1. i - 1 \in 1..Len(s) /\ t[i] = s[i - 1] /\ (i # Len(t) => t[i + 1] = s[(i - 1) + 1])
          /\ (i - 1 = Len(s) <=> i = Len(t))
      <4>1. i \in 2..Len(t) /\ (i # Len(t) => i + 1 \in 2..Len(t))
        BY <2>2, <1>1, <1>3
      <4>2. (i + 1) - 1 = (i - 1) + 1 /\ i - 1 \in 1..Len(s) /\ (i - 1 = Len(s) <=> i = Len(t))
        BY <4>1, <1>1, <1>3
      <4>3. t[i] = s[i - 1] /\ (i # Len(t) => t[i + 1] = s[(i + 1) - 1])
        BY <4>1, <1>3
      <4> QED BY <4>2, <4>3
    <3>2. next'[t[i]] = next[s[i - 1]]
      BY <3>1, <1>4, <1>5, <1>1
    <3>3. next[s[i - 1]] = IF i - 1 = Len(s) THEN NULL ELSE s[(i - 1) + 1]
      BY <3>1 DEF ListIs, Chained, Listed
    <3> QED BY <3>1, <3>2, <3>3
  <2> QED BY <2>1, <2>2
<1>7. \A i, j \in 1..Len(t) : t[i] = t[j] => i = j
  <2> SUFFICES ASSUME NEW i \in 1..Len(t), NEW j \in 1..Len(t), t[i] = t[j] PROVE i = j
    OBVIOUS
  <2>1. CASE i = 1 \/ j = 1
    BY <2>1, <1>1, <1>3, <1>4
  <2>2. CASE i # 1 /\ j # 1
    <3>1. i - 1 \in 1..Len(s) /\ j - 1 \in 1..Len(s) /\ s[i - 1] = s[j - 1]
      BY <2>2, <1>1, <1>3
    <3>2. i - 1 = j - 1
      BY <3>1 DEF ListIs, Chained
    <3> QED BY <3>2
  <2> QED BY <2>1, <2>2
<1>8. \A d : d \in heap' <=> \E i \in 1..Len(t) : t[i] = d
  <2> SUFFICES ASSUME NEW d PROVE d \in heap' <=> \E i \in 1..Len(t) : t[i] = d
    OBVIOUS
  <2>1. CASE d = c
    <3>1. 1 \in 1..Len(t) /\ t[1] = d /\ d \in heap'
      BY <2>1, <1>1, <1>3, <1>5
    <3> QED BY <3>1
  <2>2. CASE d # c
    <3>1. (\E i \in 1..Len(t) : t[i] = d) <=> \E i \in 1..Len(s) : s[i] = d
      <4>1. ASSUME NEW i \in 1..Len(t), t[i] = d PROVE \E j \in 1..Len(s) : s[j] = d
        <5>1. i - 1 \in 1..Len(s) /\ s[i - 1] = d
          BY <4>1, <2>2, <1>1, <1>3
        <5> QED BY <5>1
      <4>2. ASSUME NEW i \in 1..Len(s), s[i] = d PROVE \E j \in 1..Len(t) : t[j] = d
        <5>1. i + 1 \in 1..Len(t) /\ t[i + 1] = d
          BY <4>2, <1>1, <1>3
        <5> QED BY <5>1
      <4> QED BY <4>1, <4>2
    <3>2. d \in heap <=> \E i \in 1..Len(s) : s[i] = d
      BY DEF ListIs, Chained
    <3> QED BY <3>1, <3>2, <2>2, <1>5
  <2> QED BY <2>1, <2>2
<1>9. 0 \in 0..Len(t) /\ ppxClient' = NULL /\ ~badAccess' /\ pc = "accept" /\ pc' = "accept"
  BY <1>1, <1>3 DEF ListIs, ReceiveNewClient, NextListener
<1>10. ~Contains(s, c)
  BY <1>4, <1>1 DEF Contains
<1>11. ListIs(t, 0)'
  BY <1>6, <1>7, <1>8, <1>9 DEF ListIs, Chained, t
<1> QED BY <1>9, <1>10, <1>11 DEF t

\* What taking a place out of a sequence leaves.
LEMMA Removed ==
  ASSUME NEW s \in Seq(Conn), NEW i \in 1..Len(s)
  PROVE  /\ RemoveAt(s, i) \in Seq(Conn) /\ Len(RemoveAt(s, i)) = Len(s) - 1
         /\ \A j \in 1..Len(s) - 1 : RemoveAt(s, i)[j] = IF j < i THEN s[j] ELSE s[j + 1]
<1> DEFINE a == SubSeq(s, 1, i - 1)
           b == SubSeq(s, i + 1, Len(s))
<1>1. /\ a \in Seq(Conn) /\ Len(a) = i - 1 /\ \A j \in 1..i - 1 : a[j] = s[j]
      /\ b \in Seq(Conn) /\ Len(b) = Len(s) - i /\ \A j \in 1..Len(s) - i : b[j] = s[i + j]
  OBVIOUS
<1>2. RemoveAt(s, i) = a \o b
  BY DEF RemoveAt
<1> HIDE DEF a, b
<1>t. Len(s) \in Nat /\ i \in Nat
  OBVIOUS
<1>3. a \o b \in Seq(Conn) /\ Len(a \o b) = (i - 1) + (Len(s) - i)
      /\ \A j \in 1..Len(a) + Len(b) : (a \o b)[j] = IF j <= Len(a) THEN a[j] ELSE b[j - Len(a)]
  <2>1. a \in Seq(Conn) /\ b \in Seq(Conn)
    BY <1>1
  <2>2. /\ a \o b \in Seq(Conn) /\ Len(a \o b) = Len(a) + Len(b)
        /\ \A j \in 1..Len(a) + Len(b) : (a \o b)[j] = IF j <= Len(a) THEN a[j] ELSE b[j - Len(a)]
    BY <2>1, ConcatProperties, Zenon
  <2> QED BY <2>2, <1>1
<1>4. ASSUME NEW j \in 1..Len(s) - 1 PROVE (a \o b)[j] = IF j < i THEN s[j] ELSE s[j + 1]
  <2>0. (a \o b)[j] = IF j <= Len(a) THEN a[j] ELSE b[j - Len(a)]
    <3>1. j \in 1..Len(a) + Len(b)
      BY <1>1, <1>t
    <3> QED BY <3>1, <1>3
  <2>1. CASE j < i
    <3>1. j \in 1..i - 1 /\ j <= Len(a)
      BY <2>1, <1>1, <1>t
    <3> QED BY <3>1, <2>0, <2>1, <1>1
  <2>2. CASE j >= i
    <3>1. ~(j <= i - 1) /\ j - (i - 1) \in 1..Len(s) - i /\ i + (j - (i - 1)) = j + 1
      BY <2>2, <1>t
    <3>2. b[j - (i - 1)] = s[j + 1]
      BY <3>1, <1>1
    <3>3. Len(a) = i - 1
      BY <1>1
    <3>4. (a \o b)[j] = b[j - (i - 1)]
      BY <3>1, <3>3, <2>0
    <3> QED BY <3>2, <3>4, <2>2, <1>t
  <2>3. j < i \/ j >= i
    BY <1>t
  <2> QED BY <2>1, <2>2, <2>3, Zenon
<1>5. (i - 1) + (Len(s) - i) = Len(s) - 1
  BY <1>t
<1> QED BY <1>2, <1>3, <1>4, <1>5

\* Deleting the record the walk is at takes it out of the list, and the walk
\* comes to the one behind it.
LEMMA DeleteRemoves ==
  ASSUME NEW s, NEW k, ListIs(s, k), Sockets, NEW c \in Conn, Delete(c)
  PROVE  ListIs(RemoveAt(s, k + 1), k)'
<1> DEFINE t == RemoveAt(s, k + 1)
<1>1. s \in Seq(Conn) /\ Len(s) \in Nat /\ k \in 0..Len(s) /\ AtClient(c) /\ k \in Nat
  BY DEF ListIs, Chained, Listed, Delete
<1>2. k + 1 \in 1..Len(s) /\ s[k + 1] = c /\ c \in heap /\ k < Len(s)
  BY <1>1, AtNext
<1>3. /\ t \in Seq(Conn) /\ Len(t) = Len(s) - 1
      /\ \A j \in 1..Len(s) - 1 : t[j] = IF j < k + 1 THEN s[j] ELSE s[j + 1]
  BY <1>1, <1>2, Removed
<1>4. \A i, j \in 1..Len(s) : s[i] = s[j] => i = j
  BY DEF ListIs, Chained
<1>5. \A i \in 1..Len(s) : next[s[i]] = IF i = Len(s) THEN NULL ELSE s[i + 1]
  BY DEF ListIs, Chained, Listed
<1>6. /\ pc = "walk" /\ pc' = "walk" /\ ppxClient' = ppxClient /\ heap' = heap \ {c}
      /\ ~badAccess' /\ Points(ppxClient, next[c])
      /\ ppxClient = IF k = 0 THEN Anchor ELSE s[k]
  BY <1>1, <1>2 DEF Delete, AtClient, Uses, ListIs
<1>d. DOMAIN next = Conn /\ \A i \in 1..Len(s) : s[i] \in Conn
  BY <1>1 DEF Sockets, TypeOK
<1> HIDE DEF t
\* The new index j of a record and its old one.
<1> DEFINE Old(j) == IF j < k + 1 THEN j ELSE j + 1
<1>7. ASSUME NEW j \in 1..Len(t)
      PROVE  Old(j) \in 1..Len(s) /\ Old(j) # k + 1 /\ t[j] = s[Old(j)]
  <2>1. j \in 1..Len(s) - 1
    BY <1>3
  <2>2. Old(j) \in 1..Len(s) /\ Old(j) # k + 1
    BY <2>1, <1>1
  <2> QED BY <2>1, <2>2, <1>3
<1>8. \A i \in 1..Len(s) : i # k + 1 => \E j \in 1..Len(t) : Old(j) = i
  <2> SUFFICES ASSUME NEW i \in 1..Len(s), i # k + 1 PROVE \E j \in 1..Len(t) : Old(j) = i
    OBVIOUS
  <2>1. CASE i < k + 1
    <3>1. i \in 1..Len(t) /\ Old(i) = i
      BY <2>1, <1>1, <1>2, <1>3
    <3> QED BY <3>1
  <2>2. CASE i > k + 1
    <3>1. i - 1 \in 1..Len(t) /\ Old(i - 1) = i
      BY <2>2, <1>1, <1>2, <1>3
    <3> QED BY <3>1
  <2> QED BY <2>1, <2>2, <1>1
\* The links of the records that are left.
<1>9. ASSUME NEW i \in 1..Len(s)
      PROVE  next'[s[i]] = IF i = k THEN next[c] ELSE next[s[i]]
  <2>1. CASE k = 0
    BY <2>1, <1>6, <1>1 DEF Points
  <2>2. CASE k # 0
    <3>1. k \in 1..Len(s) /\ ppxClient = s[k] /\ s[k] # Anchor
      BY <2>2, <1>1, <1>6, <1>d, TcpAssumption DEF TcpAssumption
    <3>2. next' = [next EXCEPT ![s[k]] = next[c]]
      BY <3>1, <1>6 DEF Points
    <3>3. s[i] = s[k] <=> i = k
      BY <3>1, <1>4
    <3> QED BY <3>2, <3>3, <1>d
  <2> QED BY <2>1, <2>2
<1>10. next[c] = IF k + 1 = Len(s) THEN NULL ELSE s[k + 2]
  <2>1. next[s[k + 1]] = IF k + 1 = Len(s) THEN NULL ELSE s[(k + 1) + 1]
    BY <1>2, <1>5
  <2>2. (k + 1) + 1 = k + 2
    BY <1>1
  <2> QED BY <2>1, <2>2, <1>2
<1>11. ASSUME NEW j \in 1..Len(t)
       PROVE  next'[t[j]] = IF j = Len(t) THEN NULL ELSE t[j + 1]
  <2>0. j \in 1..Len(s) - 1 /\ (j = Len(t) <=> j + 1 = Len(s)) /\ (j # Len(t) => j + 1 \in 1..Len(s) - 1)
    BY <1>1, <1>3
  <2>1. CASE j < k
    <3>1. t[j] = s[j] /\ j # Len(s) /\ j # k /\ j # Len(t) /\ t[j + 1] = s[j + 1] /\ j \in 1..Len(s)
      BY <2>0, <2>1, <1>1, <1>2, <1>3
    <3> QED BY <3>1, <1>5, <1>9
  <2>2. CASE j = k
    <3>1. t[j] = s[k] /\ k \in 1..Len(s) /\ (j # Len(t) => t[j + 1] = s[k + 2])
      <4>1. t[j] = s[k] /\ k \in 1..Len(s)
        BY <2>0, <2>2, <1>1, <1>2, <1>3
      <4>2. ASSUME j # Len(t) PROVE t[j + 1] = s[k + 2]
        <5>1. k + 1 \in 1..Len(s) - 1 /\ ~(k + 1 < k + 1) /\ (k + 1) + 1 = k + 2
          BY <4>2, <2>0, <2>2, <1>1
        <5> QED BY <5>1, <2>2, <1>3
      <4> QED BY <4>1, <4>2
    <3>2. next'[s[k]] = next[c]
      BY <3>1, <1>9
    <3> QED BY <3>1, <3>2, <2>0, <2>2, <1>10
  <2>3. CASE j > k
    <3>1. j + 1 \in 1..Len(s) /\ ~(j < k + 1) /\ j + 1 # k
      BY <2>0, <2>3, <1>1
    <3>2. t[j] = s[j + 1]
      BY <3>1, <2>0, <1>3
    <3>3. next'[s[j + 1]] = IF j + 1 = Len(s) THEN NULL ELSE s[(j + 1) + 1]
      BY <3>1, <1>5, <1>9
    <3>4. ASSUME j # Len(t) PROVE t[j + 1] = s[(j + 1) + 1]
      <4>1. j + 1 \in 1..Len(s) - 1 /\ ~(j + 1 < k + 1)
        BY <3>4, <2>0, <2>3, <1>1
      <4> QED BY <4>1, <1>3
    <3> QED BY <3>2, <3>3, <3>4, <2>0
  <2> QED BY <2>0, <2>1, <2>2, <2>3, <1>1
<1>12. pxClients' = IF t = <<>> THEN NULL ELSE t[1]
  <2>1. t = <<>> <=> Len(s) = 1
    BY <1>1, <1>3
  <2>2. CASE k = 0
    <3>1. pxClients' = next[c]
      BY <2>2, <1>6 DEF Points
    <3>2. Len(s) # 1 => t[1] = s[2]
      BY <2>2, <1>1, <1>2, <1>3
    <3>3. next[c] = IF 1 = Len(s) THEN NULL ELSE s[2]
      BY <2>2, <1>10
    <3> QED BY <3>1, <3>2, <3>3, <2>1
  <2>3. CASE k # 0
    <3>1. ppxClient # Anchor
      BY <2>3, <1>1, <1>6, <1>d, TcpAssumption DEF TcpAssumption
    <3>2. pxClients' = pxClients
      BY <3>1, <1>6 DEF Points
    <3>3. pxClients = s[1]
      BY <1>1, <1>2 DEF ListIs, Chained, Listed
    <3>4. Len(s) # 1 /\ t[1] = s[1]
      BY <2>3, <1>1, <1>2, <1>3
    <3> QED BY <3>2, <3>3, <3>4, <2>1
  <2> QED BY <2>2, <2>3
<1>13. \A i, j \in 1..Len(t) : t[i] = t[j] => i = j
  <2> SUFFICES ASSUME NEW i \in 1..Len(t), NEW j \in 1..Len(t), t[i] = t[j] PROVE i = j
    OBVIOUS
  <2>1. Old(i) = Old(j)
    <3> HIDE DEF Old
    <3> QED BY <1>4, <1>7
  <2> QED BY <2>1, <1>1, <1>3
<1>14. \A d : d \in heap' <=> \E i \in 1..Len(t) : t[i] = d
  <2> SUFFICES ASSUME NEW d PROVE d \in heap' <=> \E i \in 1..Len(t) : t[i] = d
    OBVIOUS
  <2>1. d \in heap <=> \E i \in 1..Len(s) : s[i] = d
    BY DEF ListIs, Chained
  <2> HIDE DEF Old
  <2>2. ASSUME NEW i \in 1..Len(t), t[i] = d PROVE d \in heap'
    BY <2>1, <2>2, <1>2, <1>4, <1>6, <1>7
  <2>3. ASSUME d \in heap' PROVE \E i \in 1..Len(t) : t[i] = d
    <3>1. PICK i \in 1..Len(s) : s[i] = d
      BY <2>1, <2>3, <1>6
    <3>2. i # k + 1
      BY <3>1, <2>3, <1>2, <1>6
    <3>3. PICK j \in 1..Len(t) : Old(j) = i
      BY <3>2, <1>8
    <3> QED BY <3>1, <3>3, <1>7
  <2> QED BY <2>2, <2>3
<1>15. k \in 0..Len(t) /\ ppxClient' = IF k = 0 THEN Anchor ELSE t[k]
  <2>1. k \in 0..Len(t)
    BY <1>1, <1>2, <1>3
  <2>2. k # 0 => t[k] = s[k]
    BY <1>1, <1>2, <1>3
  <2> QED BY <2>1, <2>2, <1>6
<1>16. Listed(next', pxClients', t)
  BY <1>3, <1>11, <1>12 DEF Listed
<1>17. ListIs(t, k)'
  BY <1>6, <1>13, <1>14, <1>15, <1>16 DEF ListIs, Chained, t
<1> QED BY <1>17 DEF t

-----------------------------------------------------------------------------
(* The server implements the rounds *)

\* The rest of the list as the walk goes on, with its next record or without.
LEMMA RestSteps ==
  ASSUME NEW s \in Seq(Conn), NEW k \in 0..Len(s)
  PROVE  /\ Rest(s, 0) = s
         /\ k = Len(s) => Rest(s, k) = <<>>
         /\ k < Len(s) => Rest(s, k) # <<>> /\ Head(Rest(s, k)) = s[k + 1]
                          /\ Tail(Rest(s, k)) = Rest(s, k + 1)
                          /\ Rest(RemoveAt(s, k + 1), k) = Rest(s, k + 1)
<1>1. Len(s) \in Nat /\ k \in Nat
  OBVIOUS
<1>2. Rest(s, 0) = s
  BY <1>1, SubSeqFull DEF Rest
<1>3. ASSUME k = Len(s) PROVE Rest(s, k) = <<>>
  BY <1>1, <1>3 DEF Rest
<1>4. ASSUME k < Len(s)
      PROVE  /\ Rest(s, k) # <<>> /\ Head(Rest(s, k)) = s[k + 1]
             /\ Tail(Rest(s, k)) = Rest(s, k + 1)
             /\ Rest(RemoveAt(s, k + 1), k) = Rest(s, k + 1)
  <2> DEFINE a == Rest(s, k)
             b == Rest(s, k + 1)
             r == RemoveAt(s, k + 1)
             d == Rest(r, k)
  <2>0. k + 1 \in 1..Len(s) /\ Len(s) - k \in Nat \ {0} /\ Len(s) - (k + 1) \in Nat
    BY <1>1, <1>4
  <2>1. a \in Seq(Conn) /\ Len(a) = Len(s) - k /\ \A i \in 1..Len(s) - k : a[i] = s[k + i]
    BY <1>1, <1>4 DEF Rest
  <2>2. b \in Seq(Conn) /\ Len(b) = Len(s) - (k + 1)
        /\ \A i \in 1..Len(s) - (k + 1) : b[i] = s[(k + 1) + i]
    BY <1>1, <1>4 DEF Rest
  <2>3. /\ r \in Seq(Conn) /\ Len(r) = Len(s) - 1
        /\ \A j \in 1..Len(s) - 1 : r[j] = IF j < k + 1 THEN s[j] ELSE s[j + 1]
    BY <2>0, Removed
  <2> HIDE DEF r
  <2>4. d \in Seq(Conn) /\ Len(d) = (Len(s) - 1) - k /\ \A i \in 1..(Len(s) - 1) - k : d[i] = r[k + i]
    BY <1>1, <1>4, <2>3 DEF Rest
  <2> HIDE DEF a, b, d
  <2>5. a # <<>> /\ Head(a) = s[k + 1]
    BY <2>0, <2>1
  <2>6. Tail(a) = b
    <3>1. Tail(a) \in Seq(Conn) /\ Len(Tail(a)) = Len(a) - 1 /\ \A i \in 1..Len(a) - 1 : Tail(a)[i] = a[i + 1]
      BY <2>1, <2>5
    <3>2. Len(Tail(a)) = Len(b)
      BY <3>1, <2>0, <2>1, <2>2, <1>1
    <3>3. ASSUME NEW i \in 1..Len(b) PROVE Tail(a)[i] = b[i]
      <4>1. /\ i \in 1..Len(a) - 1 /\ i + 1 \in 1..Len(s) - k /\ i \in 1..Len(s) - (k + 1)
            /\ k + (i + 1) = (k + 1) + i
        BY <2>0, <2>1, <2>2, <1>1
      <4>2. Tail(a)[i] = a[i + 1] /\ a[i + 1] = s[k + (i + 1)] /\ b[i] = s[(k + 1) + i]
        BY <4>1, <3>1, <2>1, <2>2
      <4> QED BY <4>1, <4>2
    <3> QED BY <3>1, <3>2, <3>3, <2>2, SeqEqual
  <2>7. d = b
    <3>1. Len(d) = Len(b)
      BY <2>2, <2>4, <1>1
    <3>2. ASSUME NEW i \in 1..Len(b) PROVE d[i] = b[i]
      <4>1. /\ i \in 1..(Len(s) - 1) - k /\ i \in 1..Len(s) - (k + 1) /\ k + i \in 1..Len(s) - 1
            /\ ~(k + i < k + 1) /\ (k + i) + 1 = (k + 1) + i
        BY <2>2, <2>4, <1>1
      <4>2. d[i] = r[k + i] /\ r[k + i] = s[(k + i) + 1] /\ b[i] = s[(k + 1) + i]
        BY <4>1, <2>2, <2>3, <2>4
      <4> QED BY <4>1, <4>2
    <3> QED BY <3>1, <3>2, <2>2, <2>4, SeqEqual
  <2> QED BY <2>5, <2>6, <2>7 DEF a, b, d, r
<1> QED BY <1>2, <1>3, <1>4

\* Every step keeps a list, and is a step of the rounds or none.
LEMMA Moves ==
  ASSUME NEW s, NEW k, ListIs(s, k), Sockets, [Next]_vars
  PROVE  (\E t, j : ListIs(t, j)') /\ [Rounds!Next]_<<Clients, Todo>>
<1>1. Clients = s /\ Todo = IF pc = "walk" THEN Rest(s, k) ELSE <<>>
  BY View
<1>2. s \in Seq(Conn) /\ k \in 0..Len(s) /\ Len(s) \in Nat
  BY DEF ListIs, Chained, Listed
\* Steps that leave the records and the walk alone.
<1>3. ASSUME UNCHANGED <<list, badAccess, ppxClient>>,
             pc' = pc \/ {pc, pc'} \subseteq {"select", "accept"}
      PROVE  (\E t, j : ListIs(t, j)') /\ UNCHANGED <<Clients, Todo>>
  <2>1. ListIs(s, k)'
    BY <1>3, KeepsList
  <2>2. Clients' = s /\ Todo' = IF pc' = "walk" THEN Rest(s, k) ELSE <<>>
    BY <2>1, ViewPrimed
  <2> QED BY <1>1, <1>3, <2>1, <2>2
<1>4. ASSUME NEW c \in Conn,
             Connect(c) \/ SendRequest(c) \/ PeerLeaves(c) \/ RefuseNewClient(c)
      PROVE  (\E t, j : ListIs(t, j)') /\ UNCHANGED <<Clients, Todo>>
  BY <1>3, <1>4 DEF Connect, SendRequest, PeerLeaves, RefuseNewClient, NextListener
<1>5. CASE SelectReturns \/ AcceptNone \/ UNCHANGED vars
  <2>1. UNCHANGED <<list, badAccess, ppxClient>> /\ (pc' = pc \/ {pc, pc'} \subseteq {"select", "accept"})
    BY <1>5 DEF SelectReturns, AcceptNone, NextListener, vars
  <2> QED BY <2>1, <1>3
\* A walk begins: the round is the list as it stands.
<1>6. CASE SelectTimesOut \/ StartWalk
  <2>1. /\ UNCHANGED <<list, badAccess>> /\ pc # "walk" /\ pc' = "walk" /\ ppxClient' = Anchor
    BY <1>6 DEF SelectTimesOut, StartWalk
  <2>2. ListIs(s, 0)'
    BY <2>1, KeepsList
  <2>3. Clients' = s /\ Todo' = Rest(s, 0)
    BY <2>1, <2>2, ViewPrimed
  <2>4. Rest(s, 0) = s
    BY <1>2, RestSteps
  <2>5. Rounds!StartRound
    BY <1>1, <2>1, <2>3, <2>4 DEF Rounds!StartRound, Todo
  <2> QED BY <2>2, <2>5 DEF Rounds!Next
\* It ends when there is nobody left.
<1>7. CASE EndWalk
  <2>1. /\ UNCHANGED <<list, badAccess>> /\ pc = "walk" /\ pc' # "walk" /\ ppxClient' = NULL
        /\ pxThis = NULL
    BY <1>7 DEF EndWalk
  <2>2. ListIs(s, 0)'
    BY <2>1, KeepsList
  <2>3. Clients' = s /\ Todo' = <<>>
    BY <2>1, <2>2, ViewPrimed
  <2>4. k = Len(s)
    <3>1. pxThis = At(s, k) /\ (k # Len(s) => k + 1 \in 1..Len(s) /\ k < Len(s))
      BY <2>1, <1>2, ThisIs
    <3>2. \A i \in 1..Len(s) : s[i] # NULL
      BY <1>2, TcpAssumption DEF TcpAssumption
    <3> QED BY <2>1, <3>1, <3>2 DEF At
  <2>5. Todo = <<>>
    BY <1>1, <1>2, <2>1, <2>4, RestSteps
  <2> QED BY <1>1, <2>2, <2>3, <2>5
<1>8. ASSUME NEW c \in Conn, ReceiveNewClient(c)
      PROVE  (\E t, j : ListIs(t, j)') /\ Rounds!Next
  <2>1. ListIs(<<c>> \o s, 0)' /\ ~Contains(s, c) /\ pc = "accept" /\ pc' = "accept"
    BY <1>8, ReceivePrepends
  <2>2. Clients' = <<c>> \o s /\ Todo' = <<>>
    BY <2>1, ViewPrimed
  <2>3. Rounds!Accept(c)
    BY <1>1, <2>1, <2>2 DEF Rounds!Accept, Todo, Contains, Rounds!Contains
  <2> QED BY <2>1, <2>3 DEF Rounds!Next
<1>9. ASSUME NEW c \in Conn, Work(c) PROVE (\E t, j : ListIs(t, j)') /\ Rounds!Next
  <2>1. ListIs(s, k + 1)' /\ AtClient(c) /\ pc = "walk" /\ pc' = "walk"
    BY <1>9, WorkMoves DEF Work, AtClient
  <2>2. k < Len(s)
    BY <2>1, AtNext
  <2>3. Clients' = s /\ Todo' = Rest(s, k + 1)
    BY <2>1, ViewPrimed
  <2>4. Rounds!Visit
    BY <1>1, <1>2, <2>1, <2>2, <2>3, RestSteps DEF Rounds!Visit, Todo
  <2> QED BY <2>1, <2>4 DEF Rounds!Next
<1>10. ASSUME NEW c \in Conn, Delete(c) PROVE (\E t, j : ListIs(t, j)') /\ Rounds!Next
  <2>1. ListIs(RemoveAt(s, k + 1), k)' /\ AtClient(c) /\ pc = "walk" /\ pc' = "walk"
    BY <1>10, DeleteRemoves DEF Delete, AtClient
  <2>2. k < Len(s) /\ k + 1 \in 1..Len(s)
    BY <2>1, AtNext
  <2>3. Clients' = RemoveAt(s, k + 1) /\ Todo' = Rest(RemoveAt(s, k + 1), k)
    BY <2>1, ViewPrimed
  <2>4. Rest(s, k) # <<>> /\ Head(Rest(s, k)) = s[k + 1] /\ Rest(RemoveAt(s, k + 1), k) = Tail(Rest(s, k))
    BY <1>2, <2>2, RestSteps
  <2>5. Rounds!Visit
    BY <1>1, <2>1, <2>2, <2>3, <2>4 DEF Rounds!Visit, Todo, RemoveAt, Rounds!RemoveAt
  <2> QED BY <2>1, <2>5 DEF Rounds!Next
<1> QED BY <1>4, <1>5, <1>6, <1>7, <1>8, <1>9, <1>10 DEF Next, Server, Peers

\* The inductive invariant of the list.
ListInv == \E s, k : ListIs(s, k)

\* The list is empty at first.
LEMMA InitList == Init => ListIs(<<>>, 0)
  BY DEF Init, ListIs, Chained, Listed

\* Some sequence describes the list in every reachable state.
LEMMA ListHolds == Spec => []ListInv
<1>1. Init => ListInv
  BY InitList DEF ListInv
<1>2. ListInv /\ Sockets /\ [Next]_vars => ListInv'
  BY Moves DEF ListInv
<1> QED BY <1>1, <1>2, SocketsHold, PTL DEF Spec

\* prvReceiveNewClient's insertion in front and the walk's unlinking through a
\* pointer to a link (FreeRTOS_TCP_server.c:286) leave no link or pointer to a
\* freed record and lose none, for any number of connections and requests.
THEOREM ListIsSound == Spec => []ListSound
<1>1. ASSUME NEW s, NEW k, ListIs(s, k) PROVE ListSound
  <2>1. Clients = s
    BY <1>1, View
  <2>2. Chained(next, pxClients, heap, s) /\ k \in 0..Len(s) /\ s \in Seq(Conn) /\ Len(s) \in Nat
    BY <1>1 DEF ListIs, Chained, Listed
  <2>3. Len(Clients) = Cardinality(heap)
    BY <2>1, <2>2, Distinct
  <2>4. ToSet(Clients) = heap
    BY <2>1, <2>2 DEF ToSet, Chained
  <2>5. ppxClient \in Conn => ppxClient \in heap
    <3>1. k # 0 => k \in 1..Len(s)
      BY <2>2
    <3> QED BY <1>1, <2>2, <3>1, TcpAssumption DEF ListIs, Chained, TcpAssumption
  <2> QED BY <1>1, <2>3, <2>4, <2>5 DEF ListSound, ListIs
<1>2. ListInv => ListSound
  BY <1>1 DEF ListInv
<1> QED BY <1>2, ListHolds, PTL

\* FreeRTOS_TCPServerWork implements rounds over a sequence: every client is
\* visited once in a round, newest first, and leaves only in its own visit,
\* whatever its peers do meanwhile.
THEOREM ServerImplementsRounds == Spec => ImplementsRounds
<1>1. Init => Rounds!Init
  <2> SUFFICES ASSUME Init PROVE Rounds!Init
    OBVIOUS
  <2>1. Clients = <<>>
    BY InitList, View
  <2> QED BY <2>1 DEF Init, Rounds!Init
<1>2. ListInv /\ Sockets /\ [Next]_vars => [Rounds!Next]_<<Clients, Todo>>
  BY Moves DEF ListInv
<1>3. [Rounds!Next]_<<Clients, Todo>> <=> [Rounds!Next]_Rounds!rounds
  BY DEF Todo, Rounds!rounds
<1> QED BY <1>1, <1>2, <1>3, ListHolds, SocketsHold, PTL DEF Spec, ImplementsRounds, Rounds!Spec
=============================================================================
