------------------------------ MODULE TftpProofs ------------------------------
(***************************************************************************)
(* What the TFTP server writes, for any clients, files, ports and number   *)
(* of datagrams under way: proofs about module Tftp.                       *)
(***************************************************************************)
EXTENDS Tftp, Integers, TLAPS

\* A datagram with data holds a block of its sender's file, and one that
\* acknowledges a block to a client whose blocks could all be written is about
\* one that is in its file, or being written.
WireInv ==
  \A d \in wire :
    /\ d.op = "data" => d.from \in Clients /\ d.block \in 1..Size[d.from]
    /\ d.op = "ack" /\ d.to \in Clients \ unwritten => d.block <= Received(d.to)

\* A client sends the blocks of its file.
PeerInv ==
  \A c \in Clients : /\ block[c] <= Size[c]
                     /\ at[c] \in {"idle", "asked"} => block[c] = 0
                     /\ at[c] \in {"sending", "done"} => block[c] > 0 /\ tid[c] \in Ports
                     /\ at[c] = "done" => block[c] = Size[c]

\* The file of the transfer holds the blocks that were awaited before.
TransferInv ==
  /\ \A f \in Files \ exists : content[f] = <<>>
  /\ tftpd = "wait" => content[FileOf[pxClient]] = Blocks(pxClient, usExpectedBlockNumber)
  /\ tftpd = "write" => /\ usExpectedBlockNumber \in 1..Size[pxClient]
                        /\ content[FileOf[pxClient]] = Blocks(pxClient, usExpectedBlockNumber - 1)
  /\ tftpd \in {"wait", "write"} => FileOf[pxClient] \in exists

TftpInv == TftpTypeOK /\ WireInv /\ PeerInv /\ TransferInv /\ FilesSound

-----------------------------------------------------------------------------
\* What is under way after sending was so before, or is what was sent.
LEMMA SentIsKnown ==
  ASSUME NEW w, NEW ds, NEW u \in Sent(w, ds)
  PROVE  u \subseteq w \cup ds
  BY DEF Sent

\* Blocks of one client have the length asked for, and grow at the end.
LEMMA BlocksGrow ==
  ASSUME NEW c \in Clients, NEW n \in Nat
  PROVE  /\ Blocks(c, n) \in Seq(Written) /\ Len(Blocks(c, n)) = n
         /\ Append(Blocks(c, n), <<c, n + 1>>) = Blocks(c, n + 1)
<1>1. Append(Blocks(c, n), <<c, n + 1>>) = Blocks(c, n + 1) /\ Len(Blocks(c, n)) = n
  BY DEF Blocks
<1>2. \A i \in 1..n : <<c, i>> \in Written
  BY DEF Written
<1> QED BY <1>1, <1>2 DEF Blocks

\* The empty file is the first no blocks of anyone.
LEMMA NoBlocks == ASSUME NEW c \in Clients PROVE Blocks(c, 0) = <<>>
  BY DEF Blocks

\* What a client can count on is a number.
LEMMA ReceivedNat ==
  ASSUME TftpTypeOK, NEW c \in Clients
  PROVE  /\ Received(c) \in Nat /\ Len(content[FileOf[c]]) \in Nat
         /\ FileOf[c] \in Files /\ Size[c] \in 1..USHRT_MAX
<1>1. FileOf[c] \in Files /\ Size[c] \in 1..USHRT_MAX
  BY TftpAssumption DEF TftpAssumption
<1>2. content[FileOf[c]] \in Seq(Written)
  BY <1>1 DEF TftpTypeOK
<1>3. Len(content[FileOf[c]]) \in Nat
  BY <1>2
<1>4. CASE tftpd = "write" /\ pxClient = c
  BY <1>1, <1>3, <1>4 DEF Received
<1>5. CASE tftpd # "write" \/ pxClient # c
  <2>1. Received(c) = Len(content[FileOf[c]]) + 0
    BY <1>5, Zenon DEF Received
  <2> QED BY <1>1, <1>3, <2>1
<1> QED BY <1>4, <1>5

\* What a step leaves of what the clients can count on.
Kept == /\ unwritten \subseteq unwritten'
        /\ \A c \in Clients \ unwritten' : Received(c)' \in Nat /\ Received(c) <= Received(c)'

\* Nothing else is under way than before and what is sent.
LEMMA TakenSent ==
  ASSUME NEW d, NEW g, \E w \in Taken(d) : wire' \in Sent(w, {g})
  PROVE  wire' \subseteq wire \cup {g}
  BY DEF Taken, Sent

\* A step sends sound datagrams only.
LEMMA WireKept ==
  ASSUME TftpTypeOK, WireInv, Kept, NEW ds \in SUBSET Datagrams, wire' \subseteq wire \cup ds,
         \A g \in ds :
           /\ g.op = "data" => g.from \in Clients /\ g.block \in 1..Size[g.from]
           /\ g.op = "ack" /\ g.to \in Clients \ unwritten' => g.block <= Received(g.to)'
  PROVE  WireInv' /\ wire' \subseteq Datagrams
<1>1. wire' \subseteq Datagrams
  BY DEF TftpTypeOK
<1>2. SUFFICES ASSUME NEW d \in wire'
               PROVE  /\ d.op = "data" => d.from \in Clients /\ d.block \in 1..Size[d.from]
                      /\ d.op = "ack" /\ d.to \in Clients \ unwritten' => d.block <= Received(d.to)'
  BY <1>1 DEF WireInv
<1>3. CASE d \in ds
  BY <1>3
<1>4. CASE d \in wire
  <2>1. d.op = "data" => d.from \in Clients /\ d.block \in 1..Size[d.from]
    BY <1>4 DEF WireInv
  <2>2. ASSUME d.op = "ack", d.to \in Clients \ unwritten' PROVE d.block <= Received(d.to)'
    <3>1. d.block \in Nat /\ d.to \in Clients \ unwritten
      BY <1>1, <2>2 DEF Kept, Datagrams
    <3>2. d.block <= Received(d.to)
      BY <1>4, <2>2, <3>1 DEF WireInv
    <3>3. Received(d.to)' \in Nat /\ Received(d.to) <= Received(d.to)' /\ Received(d.to) \in Nat
      BY <2>2, <3>1, ReceivedNat DEF Kept
    <3> QED BY <3>1, <3>2, <3>3
  <2> QED BY <2>1, <2>2
<1> QED BY <1>3, <1>4

\* A step of the server keeps what the clients know to be acknowledged.
LEMMA AcknowledgedKept ==
  ASSUME TftpTypeOK, Acknowledged, Kept, UNCHANGED peers
  PROVE  Acknowledged'
<1> SUFFICES ASSUME NEW c \in Clients \ unwritten' PROVE (KnownAcked(c) <= Received(c))'
  BY DEF Acknowledged
<1>1. c \in Clients \ unwritten /\ Received(c) \in Nat /\ Size[c] \in 1..USHRT_MAX
  BY ReceivedNat DEF Kept
<1>2. KnownAcked(c) \in Int
  BY <1>1, TftpAssumption DEF TftpAssumption, KnownAcked, TftpTypeOK
<1>3. KnownAcked(c)' = KnownAcked(c)
  BY DEF peers, KnownAcked
<1>4. KnownAcked(c) <= Received(c)
  BY <1>1 DEF Acknowledged
<1>5. Received(c)' \in Nat /\ Received(c) <= Received(c)'
  BY DEF Kept
<1> QED BY <1>1, <1>2, <1>3, <1>4, <1>5

-----------------------------------------------------------------------------
LEMMA InitInv == TftpInit => TftpInv
<1> SUFFICES ASSUME TftpInit PROVE TftpInv
  OBVIOUS
<1>1. TftpTypeOK
  <2>1. content \in [Files -> Seq(Written)]
    <3>1. <<>> \in Seq(Written)
      OBVIOUS
    <3>2. [f \in Files |-> <<>>] \in [Files -> Seq(Written)]
      BY <3>1
    <3>3. content = [f \in Files |-> <<>>]
      BY DEF TftpInit
    <3> QED BY <3>2, <3>3, Zenon
  <2>2. wire \subseteq Datagrams /\ exists \subseteq Files /\ unwritten \subseteq Clients
    BY DEF TftpInit
  <2>3. xRetries \in 0..MaxRetries /\ usExpectedBlockNumber \in 0..USHRT_MAX
    BY TftpAssumption DEF TftpAssumption, TftpInit
  <2>4. /\ at \in [Clients -> {"idle", "asked", "sending", "done", "failed"}]
        /\ block \in [Clients -> 0..USHRT_MAX] /\ tid \in [Clients -> Ports \cup {NoPort}]
    BY TftpAssumption DEF TftpAssumption, TftpInit
  <2>5. /\ tftpd = "off" /\ pxClient = NoClient /\ xPort = NoPort
        /\ short \in BOOLEAN /\ mounted \in BOOLEAN
    BY DEF TftpInit
  <2> QED BY <2>1, <2>2, <2>3, <2>4, <2>5 DEF TftpTypeOK
<1>2. WireInv
  BY DEF TftpInit, WireInv
<1>3. PeerInv
  BY TftpAssumption DEF TftpAssumption, TftpInit, PeerInv
<1>4. TransferInv
  BY DEF TftpInit, TransferInv
<1>5. FilesSound
  <2>1. InOrder
    BY TftpAssumption, NoBlocks DEF TftpAssumption, TftpInit, InOrder
  <2>2. Acknowledged
    BY <1>1, ReceivedNat DEF TftpInit, Acknowledged, KnownAcked
  <2> QED BY <2>1, <2>2 DEF FilesSound
<1> QED BY <1>1, <1>2, <1>3, <1>4, <1>5 DEF TftpInv

-----------------------------------------------------------------------------
\* A datagram has the parts it was made from.
LEMMA DgramIs ==
  ASSUME NEW to \in Hosts, NEW from \in Hosts,
         NEW op \in Requests \cup {"data", "ack", "error"}, NEW n \in Nat
  PROVE  /\ Dgram(to, from, op, n) \in Datagrams
         /\ Dgram(to, from, op, n).to = to /\ Dgram(to, from, op, n).from = from
         /\ Dgram(to, from, op, n).op = op /\ Dgram(to, from, op, n).block = n
  BY DEF Dgram, Datagrams

\* Where nothing is written, what the clients can count on is kept, unless a
\* block that waits to be written is dropped.
LEMMA KeptUnlessDropped ==
  ASSUME TftpTypeOK, UNCHANGED <<content, unwritten>>,
         tftpd = "write" => tftpd' = "write" /\ pxClient' = pxClient
  PROVE  Kept
<1> SUFFICES ASSUME NEW c \in Clients
             PROVE  Received(c)' \in Nat /\ Received(c) <= Received(c)'
  BY DEF Kept
<1>1. Len(content[FileOf[c]]) \in Nat
  BY ReceivedNat
<1>2. DEFINE n == Len(content[FileOf[c]])
<1>3. Received(c) = n + (IF tftpd = "write" /\ pxClient = c THEN 1 ELSE 0)
  BY Zenon DEF Received
<1>4. Received(c)' = n + (IF tftpd' = "write" /\ pxClient' = c THEN 1 ELSE 0)
  BY Zenon DEF Received
<1>5. n \in Nat
  BY <1>1
<1> HIDE DEF n
<1>6. CASE tftpd = "write" /\ pxClient = c
  <2>1. Received(c) = n + 1 /\ Received(c)' = n + 1
    BY <1>3, <1>4, <1>6, Zenon
  <2> QED BY <2>1, <1>5
<1>7. CASE tftpd # "write" \/ pxClient # c
  <2>1. Received(c) = n + 0 /\ (Received(c)' = n + 0 \/ Received(c)' = n + 1)
    BY <1>3, <1>4, <1>7, Zenon
  <2> QED BY <2>1, <1>5
<1> QED BY <1>6, <1>7

\* A step that leaves the server and the files alone.
LEMMA ServerStill ==
  ASSUME TftpInv, UNCHANGED <<tftpd, transfer, store>>
  PROVE  /\ TransferInv' /\ InOrder' /\ Kept
         /\ \A c \in Clients : Received(c)' = Received(c)
<1>1. Kept
  BY KeptUnlessDropped DEF TftpInv, transfer, store
<1> QED BY <1>1 DEF TftpInv, FilesSound, TransferInv, InOrder, Received, transfer, store

\* The clients' datagrams, and the loss of one.
LEMMA Resent ==
  ASSUME TftpInv, NEW ds \in SUBSET Datagrams, wire' \subseteq wire \cup ds,
         \A g \in ds : /\ g.op # "ack"
                       /\ g.op = "data" => g.from \in Clients /\ g.block \in 1..Size[g.from],
         UNCHANGED <<tftpd, transfer, store, peers>>
  PROVE  TftpInv'
<1>1. TransferInv' /\ InOrder' /\ Kept
  BY ServerStill
<1>2. WireInv' /\ wire' \subseteq Datagrams
  BY <1>1, WireKept DEF TftpInv
<1>3. Acknowledged'
  BY <1>1, AcknowledgedKept DEF TftpInv, FilesSound
<1>4. TftpTypeOK' /\ PeerInv'
  BY <1>2 DEF TftpInv, TftpTypeOK, PeerInv, transfer, store, peers
<1> QED BY <1>1, <1>2, <1>3, <1>4 DEF TftpInv, FilesSound

LEMMA LoseStep == ASSUME TftpInv, NEW d \in wire, Lose(d) PROVE TftpInv'
<1>1. wire' \subseteq wire \cup {} /\ {} \in SUBSET Datagrams
  BY DEF Lose
<1>2. UNCHANGED <<tftpd, transfer, store, peers>>
  BY DEF Lose
<1> QED BY <1>1, <1>2, Resent, Zenon

LEMMA RefuseStep ==
  ASSUME TftpInv, NEW d \in wire, NEW c \in Clients, RefuseRequest(d, c)
  PROVE  TftpInv'
<1>1. DEFINE g == Dgram(c, Listen, "error", 0)
<1>2. g \in Datagrams /\ g.op = "error"
  <2>1. c \in Hosts /\ Listen \in Hosts
    BY DEF Hosts
  <2> QED BY <2>1, DgramIs
<1>3. wire' \subseteq wire \cup {g}
  BY TakenSent DEF RefuseRequest
<1>4. UNCHANGED <<tftpd, transfer, store, peers>>
  BY DEF RefuseRequest
<1> HIDE DEF g
<1>5. {g} \in SUBSET Datagrams /\ \A h \in {g} : h.op # "ack" /\ h.op # "data"
  BY <1>2
<1> QED BY <1>3, <1>4, <1>5, Resent

-----------------------------------------------------------------------------
(* The clients *)

\* What a client sends is a request or a block of its file.
LEMMA OutgoingIs ==
  ASSUME TftpInv, NEW c \in Clients, NEW op \in Requests
  PROVE  /\ Outgoing(c, op) \in Datagrams /\ Outgoing(c, op).op # "ack"
         /\ Outgoing(c, op).op = "data" =>
              Outgoing(c, op).from \in Clients /\ Outgoing(c, op).block \in 1..Size[Outgoing(c, op).from]
<1>1. c \in Hosts /\ Listen \in Hosts /\ Size[c] \in Nat
  BY ReceivedNat DEF Hosts, TftpInv
<1>2. CASE at[c] = "sending"
  <2>1. tid[c] \in Hosts /\ block[c] \in Nat /\ block[c] \in 1..Size[c]
    BY <1>1, <1>2 DEF TftpInv, TftpTypeOK, PeerInv, Hosts
  <2>2. Outgoing(c, op) = Dgram(tid[c], c, "data", block[c])
    BY <1>2 DEF Outgoing
  <2>3. /\ Outgoing(c, op) \in Datagrams /\ Outgoing(c, op).op = "data"
        /\ Outgoing(c, op).from = c /\ Outgoing(c, op).block = block[c]
    BY <1>1, <2>1, <2>2 DEF Dgram, Datagrams
  <2> QED BY <2>1, <2>3
<1>3. CASE at[c] # "sending"
  <2>1. Outgoing(c, op) = Dgram(Listen, c, op, 0)
    BY <1>3 DEF Outgoing
  <2>2. op # "ack" /\ op # "data" /\ op \in Requests \cup {"data", "ack", "error"}
    BY DEF Requests
  <2> QED BY <1>1, <2>1, <2>2, DgramIs
<1> QED BY <1>2, <1>3

LEMMA SendAgainStep ==
  ASSUME TftpInv, NEW c \in Clients, NEW op \in Requests, SendAgain(c, op)
  PROVE  TftpInv'
<1>1. DEFINE g == Outgoing(c, op)
<1>2. /\ g \in Datagrams /\ g.op # "ack"
      /\ g.op = "data" => g.from \in Clients /\ g.block \in 1..Size[g.from]
  BY OutgoingIs
<1>3. wire' \subseteq wire \cup {g}
  BY SentIsKnown DEF SendAgain
<1>4. UNCHANGED <<tftpd, transfer, store, peers>>
  BY DEF SendAgain
<1> HIDE DEF g
<1>5. {g} \in SUBSET Datagrams
  BY <1>2
<1> QED BY <1>2, <1>3, <1>4, <1>5, Resent

\* A step of a client, by what it may send.
LEMMA ClientSends ==
  ASSUME TftpInv, UNCHANGED <<tftpd, transfer, store>>,
         NEW ds \in SUBSET Datagrams, wire' \subseteq wire \cup ds,
         \A g \in ds : /\ g.op # "ack"
                       /\ g.op = "data" => g.from \in Clients /\ g.block \in 1..Size[g.from],
         at' \in [Clients -> {"idle", "asked", "sending", "done", "failed"}],
         block' \in [Clients -> 0..USHRT_MAX], tid' \in [Clients -> Ports \cup {NoPort}],
         PeerInv', \A c \in Clients \ unwritten : KnownAcked(c)' <= Received(c)
  PROVE  TftpInv'
<1>1. TransferInv' /\ InOrder' /\ Kept
  BY ServerStill
<1>2. WireInv' /\ wire' \subseteq Datagrams
  BY <1>1, WireKept DEF TftpInv
<1>3. Acknowledged'
  BY ServerStill DEF Acknowledged, store
<1>4. TftpTypeOK'
  BY <1>2 DEF TftpInv, TftpTypeOK, transfer, store
<1> QED BY <1>1, <1>2, <1>3, <1>4 DEF TftpInv, FilesSound

LEMMA AskStep ==
  ASSUME TftpInv, NEW c \in Clients, NEW op \in Requests, Ask(c, op)
  PROVE  TftpInv'
<1>1. DEFINE g == Outgoing(c, op)
<1>2. /\ g \in Datagrams /\ g.op # "ack"
      /\ g.op = "data" => g.from \in Clients /\ g.block \in 1..Size[g.from]
  BY OutgoingIs
<1>3. wire' \subseteq wire \cup {g}
  BY SentIsKnown DEF Ask
<1>4. UNCHANGED <<tftpd, transfer, store, block, tid>>
  BY DEF Ask
<1> HIDE DEF g
<1>5. /\ at' \in [Clients -> {"idle", "asked", "sending", "done", "failed"}]
      /\ block' \in [Clients -> 0..USHRT_MAX] /\ tid' \in [Clients -> Ports \cup {NoPort}]
  BY DEF TftpInv, TftpTypeOK, Ask
<1>6. PeerInv'
  BY DEF TftpInv, TftpTypeOK, PeerInv, Ask
<1>7. ASSUME NEW e \in Clients \ unwritten PROVE KnownAcked(e)' <= Received(e)
  <2>1. KnownAcked(e) <= Received(e) /\ Received(e) \in Nat
    BY ReceivedNat DEF TftpInv, FilesSound, Acknowledged
  <2>2. KnownAcked(e)' = KnownAcked(e)
    BY DEF Ask, KnownAcked, TftpInv, TftpTypeOK
  <2> QED BY <2>1, <2>2
<1>8. {g} \in SUBSET Datagrams
  BY <1>2
<1> QED BY <1>2, <1>3, <1>4, <1>5, <1>6, <1>7, <1>8, ClientSends

LEMMA FailStep == ASSUME TftpInv, NEW c \in Clients, Fail(c) PROVE TftpInv'
<1>1. wire' \subseteq wire \cup {} /\ {} \in SUBSET Datagrams
  BY DEF Fail, Taken
<1>2. UNCHANGED <<tftpd, transfer, store, block, tid>>
  BY DEF Fail
<1>3. /\ at' \in [Clients -> {"idle", "asked", "sending", "done", "failed"}]
      /\ block' \in [Clients -> 0..USHRT_MAX] /\ tid' \in [Clients -> Ports \cup {NoPort}]
  BY DEF TftpInv, TftpTypeOK, Fail
<1>4. PeerInv'
  BY DEF TftpInv, TftpTypeOK, PeerInv, Fail
<1>5. ASSUME NEW e \in Clients \ unwritten PROVE KnownAcked(e)' <= Received(e)
  <2>1. KnownAcked(e) <= Received(e) /\ Received(e) \in Nat
    BY ReceivedNat DEF TftpInv, FilesSound, Acknowledged
  <2>2. KnownAcked(e)' = KnownAcked(e) \/ KnownAcked(e)' = 0
    BY DEF Fail, KnownAcked, TftpInv, TftpTypeOK
  <2> QED BY <2>1, <2>2
<1> QED BY <1>1, <1>2, <1>3, <1>4, <1>5, ClientSends

\* The block that is acknowledged is in the file; the client sends the next one.
LEMMA AckedStep ==
  ASSUME TftpInv, NEW c \in Clients, NEW d \in wire, Acked(d, c)
  PROVE  TftpInv'
<1>1. /\ c \in Hosts /\ d.from \in Ports /\ d.from \in Hosts /\ d.to = c /\ d.op = "ack"
      /\ d.block = block[c] /\ block[c] \in Nat /\ Size[c] \in 1..USHRT_MAX /\ block[c] <= Size[c]
  BY ReceivedNat DEF Acked, Hosts, TftpInv, TftpTypeOK, PeerInv
<1>2. UNCHANGED <<tftpd, transfer, store>>
  BY DEF Acked
<1>3. DEFINE g == Dgram(d.from, c, "data", block[c] + 1)
<1>4. \/ /\ block[c] = Size[c] /\ at' = [at EXCEPT ![c] = "done"] /\ block' = block
         /\ wire' \subseteq wire \cup {}
      \/ /\ block[c] # Size[c] /\ at' = [at EXCEPT ![c] = "sending"]
         /\ block' = [block EXCEPT ![c] = @ + 1] /\ wire' \subseteq wire \cup {g}
  BY TakenSent DEF Acked, Taken
<1>5. g \in Datagrams /\ g.op = "data" /\ g.from = c /\ g.block = block[c] + 1
  <2>1. block[c] + 1 \in Nat
    BY <1>1
  <2>2. c \in Hosts /\ d.from \in Hosts
    BY <1>1
  <2> QED BY <2>1, <2>2 DEF Dgram, Datagrams
<1> HIDE DEF g
<1>6. tid' = [tid EXCEPT ![c] = d.from]
  BY DEF Acked
<1>7. /\ at' \in [Clients -> {"idle", "asked", "sending", "done", "failed"}]
      /\ block' \in [Clients -> 0..USHRT_MAX] /\ tid' \in [Clients -> Ports \cup {NoPort}]
  <2>1. at' \in [Clients -> {"idle", "asked", "sending", "done", "failed"}]
    BY <1>4 DEF TftpInv, TftpTypeOK
  <2>2. block' \in [Clients -> 0..USHRT_MAX]
    <3>1. USHRT_MAX \in Nat
      BY TftpAssumption DEF TftpAssumption
    <3> QED BY <1>1, <1>4, <3>1 DEF TftpInv, TftpTypeOK
  <2>3. tid' \in [Clients -> Ports \cup {NoPort}]
    BY <1>1, <1>6 DEF TftpInv, TftpTypeOK
  <2> QED BY <2>1, <2>2, <2>3
<1>8. PeerInv'
  <2> SUFFICES ASSUME NEW e \in Clients
               PROVE  /\ block'[e] <= Size[e]
                      /\ at'[e] \in {"idle", "asked"} => block'[e] = 0
                      /\ at'[e] \in {"sending", "done"} => block'[e] > 0 /\ tid'[e] \in Ports
                      /\ at'[e] = "done" => block'[e] = Size[e]
    BY DEF PeerInv
  <2>1. CASE e # c
    BY <1>4, <1>6, <2>1 DEF TftpInv, TftpTypeOK, PeerInv
  <2>2. CASE e = c
    BY <1>1, <1>4, <1>6, <2>2 DEF TftpInv, TftpTypeOK, PeerInv
  <2> QED BY <2>1, <2>2
<1>9. ASSUME NEW e \in Clients \ unwritten PROVE KnownAcked(e)' <= Received(e)
  <2>1. KnownAcked(e) <= Received(e) /\ Received(e) \in Nat
    BY ReceivedNat DEF TftpInv, FilesSound, Acknowledged
  <2>2. CASE e # c
    <3>1. KnownAcked(e)' = KnownAcked(e)
      BY <1>4, <2>2 DEF KnownAcked, TftpInv, TftpTypeOK
    <3> QED BY <2>1, <3>1
  <2>3. CASE e = c
    <3>1. block[c] <= Received(c)
      BY <1>1, <2>3 DEF TftpInv, WireInv
    <3>2. KnownAcked(c)' = block[c]
      BY <1>1, <1>4 DEF KnownAcked, TftpInv, TftpTypeOK
    <3> QED BY <2>1, <2>3, <3>1, <3>2
  <2> QED BY <2>2, <2>3
<1>10. CASE block[c] = Size[c]
  <2>1. wire' \subseteq wire \cup {} /\ {} \in SUBSET Datagrams
    BY <1>4, <1>10
  <2> QED BY <1>2, <1>7, <1>8, <1>9, <2>1, ClientSends
<1>11. CASE block[c] # Size[c]
  <2>1. {g} \in SUBSET Datagrams /\ wire' \subseteq wire \cup {g}
    BY <1>4, <1>5, <1>11
  <2>2. g.block \in 1..Size[g.from] /\ g.op # "ack" /\ g.from \in Clients
    BY <1>1, <1>5, <1>11
  <2> QED BY <1>2, <1>7, <1>8, <1>9, <2>1, <2>2, ClientSends
<1> QED BY <1>10, <1>11

-----------------------------------------------------------------------------
(* The server *)

\* A step of the server that sends an acknowledgement or an error.
LEMMA ServerSends ==
  ASSUME TftpInv, UNCHANGED peers, Kept, TftpTypeOK', TransferInv', InOrder',
         NEW ds \in SUBSET Datagrams, wire' \subseteq wire \cup ds,
         \A g \in ds : /\ g.op # "data"
                       /\ g.op = "ack" /\ g.to \in Clients \ unwritten' => g.block <= Received(g.to)'
  PROVE  TftpInv'
<1>1. WireInv'
  BY WireKept DEF TftpInv
<1>2. Acknowledged'
  BY AcknowledgedKept DEF TftpInv, FilesSound
<1>3. PeerInv'
  BY DEF TftpInv, PeerInv, peers
<1> QED BY <1>1, <1>2, <1>3 DEF TftpInv, FilesSound

\* The acknowledgement of block n.
LEMMA AckIs ==
  ASSUME NEW c \in Clients, NEW p \in Ports, NEW n \in Nat
  PROVE  /\ Dgram(c, p, "ack", n) \in Datagrams /\ Dgram(c, p, "ack", n).op = "ack"
         /\ Dgram(c, p, "ack", n).to = c /\ Dgram(c, p, "ack", n).block = n
  BY DEF Dgram, Datagrams, Hosts

LEMMA AckSent ==
  ASSUME TftpInv, UNCHANGED peers, Kept, TftpTypeOK', TransferInv', InOrder',
         NEW c \in Clients, NEW p \in Ports, NEW n \in Nat,
         wire' \subseteq wire \cup {Dgram(c, p, "ack", n)},
         c \notin unwritten' => n <= Received(c)'
  PROVE  TftpInv'
<1>1. DEFINE g == Dgram(c, p, "ack", n)
<1>2. g \in Datagrams /\ g.op = "ack" /\ g.to = c /\ g.block = n
  BY AckIs
<1> HIDE DEF g
<1>3. {g} \in SUBSET Datagrams
  BY <1>2
<1>4. \A h \in {g} : /\ h.op # "data"
                     /\ h.op = "ack" /\ h.to \in Clients \ unwritten' => h.block <= Received(h.to)'
  BY <1>2
<1>5. wire' \subseteq wire \cup {g}
  BY DEF g
<1> QED BY <1>3, <1>4, <1>5, ServerSends

\* An error, which says nothing about blocks.
LEMMA ErrorIs ==
  ASSUME NEW c \in Clients, NEW p \in Ports
  PROVE  Dgram(c, p, "error", 0) \in Datagrams /\ Dgram(c, p, "error", 0).op = "error"
  BY DEF Dgram, Datagrams, Hosts

LEMMA ErrorSent ==
  ASSUME TftpInv, UNCHANGED peers, Kept, TftpTypeOK', TransferInv', InOrder',
         NEW c \in Clients, NEW p \in Ports,
         wire' \subseteq wire \cup {Dgram(c, p, "error", 0)}
  PROVE  TftpInv'
<1>1. DEFINE g == Dgram(c, p, "error", 0)
<1>2. g \in Datagrams /\ g.op = "error"
  BY ErrorIs
<1> HIDE DEF g
<1>3. {g} \in SUBSET Datagrams /\ \A h \in {g} : h.op # "data" /\ h.op # "ack"
  BY <1>2
<1>4. wire' \subseteq wire \cup {g}
  BY DEF g
<1> QED BY <1>3, <1>4, ServerSends

LEMMA StartStep == ASSUME TftpInv, StartTask PROVE TftpInv'
<1>1. Kept
  BY KeptUnlessDropped DEF StartTask, TftpInv, store
<1>2. TftpTypeOK' /\ TransferInv' /\ InOrder'
  BY DEF StartTask, TftpInv, TftpTypeOK, TransferInv, FilesSound, InOrder, transfer, store, peers
<1>3. wire' \subseteq wire \cup {} /\ {} \in SUBSET Datagrams /\ UNCHANGED peers
  BY DEF StartTask
<1> QED BY <1>1, <1>2, <1>3, ServerSends

LEMMA MountStep == ASSUME TftpInv, Mount PROVE TftpInv'
<1>1. Kept
  BY KeptUnlessDropped DEF Mount, TftpInv, transfer
<1>2. TftpTypeOK' /\ TransferInv' /\ InOrder'
  BY DEF Mount, TftpInv, TftpTypeOK, TransferInv, FilesSound, InOrder, transfer, peers
<1>3. wire' \subseteq wire \cup {} /\ {} \in SUBSET Datagrams /\ UNCHANGED peers
  BY DEF Mount
<1> QED BY <1>1, <1>2, <1>3, ServerSends

\* A new file is empty, and so holds the no blocks that come before the first.
LEMMA AcceptStep ==
  ASSUME TftpInv, NEW d \in wire, NEW c \in Clients, AcceptRequest(d, c)
  PROVE  TftpInv'
<1>1. /\ UNCHANGED <<mounted, content, unwritten, peers>> /\ exists' = exists \cup {FileOf[c]}
      /\ FileOf[c] \in Files \ exists /\ tftpd = "listen"
  BY ReceivedNat DEF AcceptRequest, TftpInv
<1>2. Kept
  BY <1>1, KeptUnlessDropped DEF TftpInv
<1>3. InOrder'
  BY <1>1 DEF TftpInv, FilesSound, InOrder
<1>4. CASE wire' \in Taken(d) /\ UNCHANGED <<tftpd, transfer>>
  <2>1. wire' \subseteq wire \cup {} /\ {} \in SUBSET Datagrams
    BY <1>4 DEF Taken
  <2>2. TftpTypeOK' /\ TransferInv'
    BY <1>1, <1>4, <2>1 DEF TftpInv, TftpTypeOK, TransferInv, transfer, peers
  <2> QED BY <1>1, <1>2, <1>3, <2>1, <2>2, ServerSends
<1>5. ASSUME NEW p \in Ports, tftpd' = "wait", pxClient' = c, xPort' = p,
             usExpectedBlockNumber' = 0, xRetries' = 0, short' = FALSE,
             \E w \in Taken(d) : wire' \in Sent(w, {Dgram(c, p, "ack", 0)})
      PROVE  TftpInv'
  <2>1. wire' \subseteq wire \cup {Dgram(c, p, "ack", 0)}
    BY <1>5, TakenSent
  <2>2. TftpTypeOK'
    <3>1. c # NoClient /\ p # NoPort /\ 0 \in 0..MaxRetries /\ 0 \in 0..USHRT_MAX
      BY TftpAssumption DEF TftpAssumption
    <3>2. wire' \subseteq Datagrams
      BY <2>1, AckIs DEF TftpInv, TftpTypeOK
    <3> QED BY <1>1, <1>5, <3>1, <3>2 DEF TftpInv, TftpTypeOK, peers
  <2>3. TransferInv'
    BY <1>1, <1>5, NoBlocks DEF TftpInv, TransferInv
  <2>4. c \notin unwritten' => 0 <= Received(c)'
    BY <1>2 DEF Kept
  <2> QED BY <1>1, <1>2, <1>3, <2>1, <2>2, <2>3, <2>4, AckSent
<1> QED BY <1>4, <1>5 DEF AcceptRequest

\* A transfer that waits for a block has all that it acknowledged in its file.
LEMMA WaitingReceived ==
  ASSUME TftpInv, tftpd = "wait"
  PROVE  /\ pxClient \in Clients /\ pxClient \in Hosts /\ xPort \in Ports /\ xPort \in Hosts
         /\ usExpectedBlockNumber \in Nat /\ Received(pxClient) = usExpectedBlockNumber
<1>1. pxClient \in Clients /\ xPort \in Ports /\ usExpectedBlockNumber \in Nat
  BY DEF TftpInv, TftpTypeOK
<1>2. Len(content[FileOf[pxClient]]) = usExpectedBlockNumber
  BY <1>1, BlocksGrow DEF TftpInv, TransferInv
<1>3. Received(pxClient) = Len(content[FileOf[pxClient]]) + 0
  BY Zenon DEF Received
<1> QED BY <1>1, <1>2, <1>3 DEF Hosts

\* The end of a transfer that waits, or an acknowledgement sent again.
LEMMA TimesOutStep == ASSUME TftpInv, ReceiveTimesOut PROVE TftpInv'
<1>1. tftpd = "wait" /\ UNCHANGED <<store, peers>>
  BY DEF ReceiveTimesOut
<1>2. Kept
  BY <1>1, KeptUnlessDropped DEF TftpInv, store
<1>3. InOrder'
  BY <1>1 DEF TftpInv, FilesSound, InOrder, store
<1>4. CASE Closed /\ UNCHANGED wire
  <2>1. wire' \subseteq wire \cup {} /\ {} \in SUBSET Datagrams
    BY <1>4
  <2>2. TransferInv'
    BY <1>1, <1>4 DEF TftpInv, TransferInv, Closed, Ends, store
  <2>3. TftpTypeOK'
    <3>1. 0 \in 0..MaxRetries /\ 0 \in 0..USHRT_MAX
      BY TftpAssumption DEF TftpAssumption
    <3> QED BY <1>1, <1>4, <3>1 DEF TftpInv, TftpTypeOK, Closed, Ends, store, peers
  <2> QED BY <1>1, <1>2, <1>3, <2>1, <2>2, <2>3, ServerSends
<1>5. ASSUME ~(xRetries >= MaxRetries), xRetries' = xRetries + 1,
             wire' \in Sent(wire, {Dgram(pxClient, xPort, "ack", usExpectedBlockNumber)}),
             UNCHANGED <<tftpd, pxClient, xPort, usExpectedBlockNumber, short>>
      PROVE  TftpInv'
  <2>1. PICK c \in Clients, p \in Ports, n \in Nat :
          c = pxClient /\ p = xPort /\ n = usExpectedBlockNumber /\ Received(c) = n
    BY <1>1, WaitingReceived
  <2>2. wire' \subseteq wire \cup {Dgram(c, p, "ack", n)}
    BY <1>5, <2>1, SentIsKnown
  <2>3. TftpTypeOK'
    <3>1. xRetries' \in 0..MaxRetries
      BY <1>5, TftpAssumption DEF TftpAssumption, TftpInv, TftpTypeOK
    <3>2. wire' \subseteq Datagrams
      BY <2>2, AckIs DEF TftpInv, TftpTypeOK
    <3> QED BY <1>1, <1>5, <3>1, <3>2 DEF TftpInv, TftpTypeOK, store, peers
  <2>4. TransferInv'
    BY <1>1, <1>5 DEF TftpInv, TransferInv, store
  <2>5. c \notin unwritten' => n <= Received(c)'
    BY <1>2, <2>1 DEF Kept
  <2> QED BY <1>1, <1>2, <1>3, <2>2, <2>3, <2>4, <2>5, AckSent
<1> QED BY <1>4, <1>5 DEF ReceiveTimesOut

\* No datagram, taken for the next block: the end of the transfer, whose client
\* may have an acknowledgement of what is not in its file, and is known to.
LEMMA ReceiveFailsStep == ASSUME TftpInv, ReceiveFails PROVE TftpInv'
<1>1. PICK c \in Clients, p \in Ports, n \in Nat :
        /\ c = pxClient /\ p = xPort /\ n = usExpectedBlockNumber
        /\ content[FileOf[c]] = Blocks(c, n)
  BY WaitingReceived DEF ReceiveFails, TftpInv, TransferInv
<1>2. PICK where \in {"listen", "dead"} : Ends(where)
  BY DEF ReceiveFails, Closed
<1>3. /\ tftpd = "wait" /\ UNCHANGED <<mounted, exists, peers>>
      /\ FileOf[c] \in Files /\ FileOf[c] \in exists
  BY <1>1, ReceivedNat DEF ReceiveFails, TftpInv, TransferInv
<1>4. tftpd' \notin {"wait", "write"}
  BY <1>2 DEF Ends
<1>5. ASSUME content' \in [Files -> Seq(Written)], unwritten' \subseteq Clients,
             wire' \subseteq Datagrams
      PROVE  TftpTypeOK'
  <2>1. 0 \in 0..MaxRetries /\ 0 \in 0..USHRT_MAX
    BY TftpAssumption DEF TftpAssumption
  <2> QED BY <1>2, <1>3, <1>5, <2>1 DEF TftpInv, TftpTypeOK, Ends, peers
<1>6. ASSUME UNCHANGED <<content, unwritten>>,
             wire' = wire \/ wire' \in Sent(wire, {Dgram(c, p, "error", 0)})
      PROVE  TftpInv'
  <2>1. Kept
    BY <1>3, <1>6, KeptUnlessDropped DEF TftpInv
  <2>2. InOrder' /\ TransferInv'
    BY <1>3, <1>4, <1>6 DEF TftpInv, FilesSound, InOrder, TransferInv
  <2>3. wire' \subseteq wire \cup {Dgram(c, p, "error", 0)}
    BY <1>6, SentIsKnown
  <2>4. TftpTypeOK'
    BY <1>5, <1>6, <2>3, ErrorIs DEF TftpInv, TftpTypeOK
  <2> QED BY <1>3, <2>1, <2>2, <2>3, <2>4, ErrorSent
<1>7. ASSUME unwritten' = unwritten \cup {c},
             \E w \in Sent(wire, {Dgram(c, p, "ack", n + 1)}) :
               wire' \in Sent(w, {Dgram(c, p, "error", 0)}),
             content' \in {content, [content EXCEPT ![FileOf[c]] = Append(Blocks(c, n), Garbage)]}
      PROVE  TftpInv'
  <2>1. /\ content \in [Files -> Seq(Written)] /\ Garbage \in Written
        /\ Blocks(c, n) \in Seq(Written) /\ Len(Blocks(c, n)) = n
    BY BlocksGrow DEF TftpInv, TftpTypeOK, Garbage, Written
  <2>2. DEFINE last == Append(Blocks(c, n), Garbage)
  <2>3. last \in Seq(Written) /\ Len(last) = n + 1
    BY <2>1
  <2>4. /\ content' \in [Files -> Seq(Written)]
        /\ content'[FileOf[c]] = last \/ content'[FileOf[c]] = content[FileOf[c]]
        /\ \A f \in Files : f # FileOf[c] => content'[f] = content[f]
    BY <1>3, <1>7, <2>1, <2>3
  <2>5. InOrder'
    <3> SUFFICES ASSUME NEW f \in Files
                 PROVE  \E e \in Clients :
                          \/ content'[f] = Blocks(e, Len(content'[f]))
                          \/ content'[f] = Append(Blocks(e, Len(content'[f]) - 1), Garbage)
      BY DEF InOrder
    <3>1. CASE f = FileOf[c] /\ content'[f] = last
      <4>1. Len(content'[f]) - 1 = n
        BY <2>3, <3>1
      <4> QED BY <3>1, <4>1
    <3>2. CASE content'[f] = content[f]
      BY <3>2 DEF TftpInv, FilesSound, InOrder
    <3> QED BY <2>4, <3>1, <3>2
  <2> HIDE DEF last
  <2>6. Kept
    <3> SUFFICES ASSUME NEW e \in Clients
                 PROVE  Received(e)' \in Nat /\ Received(e) <= Received(e)'
      BY <1>7 DEF Kept
    <3>1. Received(e) = Len(content[FileOf[e]]) + 0 /\ Received(e)' = Len(content'[FileOf[e]]) + 0
      BY <1>3, <1>4, Zenon DEF Received
    <3>2. FileOf[e] \in Files /\ Len(content[FileOf[e]]) \in Nat
      BY ReceivedNat DEF TftpInv
    <3>3. CASE FileOf[e] = FileOf[c] /\ content'[FileOf[e]] = last
      BY <1>1, <2>1, <2>3, <3>1, <3>3
    <3>4. CASE content'[FileOf[e]] = content[FileOf[e]]
      BY <3>1, <3>2, <3>4
    <3> QED BY <2>4, <3>2, <3>3, <3>4
  <2>7. TransferInv'
    BY <1>3, <1>4, <2>4 DEF TftpInv, TransferInv
  <2>8. DEFINE a == Dgram(c, p, "ack", n + 1)
               e == Dgram(c, p, "error", 0)
  <2>9. a \in Datagrams /\ a.op = "ack" /\ a.to = c /\ e \in Datagrams /\ e.op = "error"
    BY AckIs, ErrorIs
  <2>10. wire' \subseteq wire \cup {a, e}
    BY <1>7 DEF Sent
  <2> HIDE DEF a, e
  <2>11. TftpTypeOK'
    <3>1. wire' \subseteq Datagrams
      BY <2>9, <2>10 DEF TftpInv, TftpTypeOK
    <3> QED BY <1>5, <1>7, <2>4, <3>1 DEF TftpInv, TftpTypeOK
  <2>12. /\ {a, e} \in SUBSET Datagrams
         /\ \A g \in {a, e} :
              /\ g.op # "data"
              /\ g.op = "ack" /\ g.to \in Clients \ unwritten' => g.block <= Received(g.to)'
    BY <1>7, <2>9
  <2> QED BY <1>3, <2>5, <2>6, <2>7, <2>10, <2>11, <2>12, ServerSends
<1> QED BY <1>1, <1>6, <1>7 DEF ReceiveFails

\* Any other datagram ends the transfer; what was written stays.
LEMMA OtherStep == ASSUME TftpInv, NEW d \in wire, ReceiveOther(d) PROVE TftpInv'
<1>1. tftpd = "wait" /\ Closed /\ UNCHANGED <<store, peers>>
  BY DEF ReceiveOther
<1>2. Kept
  BY <1>1, KeptUnlessDropped DEF TftpInv, store
<1>3. InOrder' /\ TransferInv'
  BY <1>1 DEF TftpInv, FilesSound, InOrder, TransferInv, Closed, Ends, store
<1>4. PICK c \in Clients, p \in Ports : c = pxClient /\ p = xPort
  BY <1>1, WaitingReceived
<1>5. wire' \subseteq wire \cup {Dgram(c, p, "error", 0)}
  BY <1>4, TakenSent DEF ReceiveOther
<1>6. TftpTypeOK'
  <2>1. 0 \in 0..MaxRetries /\ 0 \in 0..USHRT_MAX
    BY TftpAssumption DEF TftpAssumption
  <2>2. wire' \subseteq Datagrams
    BY <1>5, ErrorIs DEF TftpInv, TftpTypeOK
  <2> QED BY <1>1, <2>1, <2>2 DEF TftpInv, TftpTypeOK, Closed, Ends, store, peers
<1> QED BY <1>1, <1>2, <1>3, <1>5, <1>6, ErrorSent

\* The block that is acknowledged is the one that is about to be written.
LEMMA BlockStep == ASSUME TftpInv, NEW d \in wire, ReceiveBlock(d) PROVE TftpInv'
<1>1. PICK c \in Clients, p \in Ports, n \in Nat :
        c = pxClient /\ p = xPort /\ n = usExpectedBlockNumber /\ Received(c) = n
  BY WaitingReceived DEF ReceiveBlock
<1>2. /\ tftpd = "wait" /\ tftpd' = "write" /\ usExpectedBlockNumber' = n + 1 /\ d.block = n + 1
      /\ d.from = c /\ d.op = "data" /\ short' = (n + 1 = Size[c])
      /\ UNCHANGED <<pxClient, xPort, xRetries, store, peers>>
  BY <1>1 DEF ReceiveBlock
<1>3. n + 1 \in 1..Size[c] /\ n + 1 \in Nat /\ n + 1 \in 0..USHRT_MAX
  <2>1. d.block \in 1..Size[d.from]
    BY <1>2 DEF TftpInv, WireInv
  <2>2. Size[c] \in 1..USHRT_MAX /\ USHRT_MAX \in Nat
    BY ReceivedNat, TftpAssumption DEF TftpAssumption, TftpInv
  <2> QED BY <1>2, <2>1, <2>2
<1>4. Kept
  BY <1>2, KeptUnlessDropped DEF TftpInv, store
<1>5. wire' \subseteq wire \cup {Dgram(c, p, "ack", n + 1)}
  <2>1. \E w \in Taken(d) : wire' \in Sent(w, {Dgram(c, p, "ack", n + 1)})
    BY <1>1, <1>2 DEF ReceiveBlock
  <2> QED BY <2>1, TakenSent
<1>6. InOrder'
  BY <1>2 DEF TftpInv, FilesSound, InOrder, store
<1>7. TransferInv'
  <2>1. content[FileOf[c]] = Blocks(c, n)
    BY <1>1, <1>2 DEF TftpInv, TransferInv
  <2>2. (n + 1) - 1 = n
    OBVIOUS
  <2> QED BY <1>1, <1>2, <1>3, <2>1, <2>2 DEF TftpInv, TransferInv, store
<1>8. TftpTypeOK'
  <2>1. wire' \subseteq Datagrams
    BY <1>3, <1>5, AckIs DEF TftpInv, TftpTypeOK
  <2>2. short' \in BOOLEAN
    BY <1>2
  <2> QED BY <1>2, <1>3, <2>1, <2>2 DEF TftpInv, TftpTypeOK, store, peers
<1>9. Received(c)' = n + 1
  <2>1. Len(content[FileOf[c]])' = n
    <3>1. content[FileOf[c]] = Blocks(c, n) /\ content' = content
      BY <1>1, <1>2 DEF TftpInv, TransferInv, store
    <3> QED BY <3>1, BlocksGrow
  <2>2. Received(c)' = Len(content[FileOf[c]])' + 1
    BY <1>1, <1>2, Zenon DEF Received
  <2> QED BY <2>1, <2>2
<1> QED BY <1>2, <1>3, <1>4, <1>5, <1>6, <1>7, <1>8, <1>9, AckSent

\* A block is written in its place, the next one of its file.
LEMMA WriteStep == ASSUME TftpInv, WriteBlock PROVE TftpInv'
<1>1. PICK c \in Clients, p \in Ports, n \in Nat :
        c = pxClient /\ p = xPort /\ n + 1 = usExpectedBlockNumber
  <2>1. /\ pxClient \in Clients /\ xPort \in Ports
        /\ usExpectedBlockNumber \in Nat /\ usExpectedBlockNumber > 0
    BY DEF WriteBlock, TftpInv, TftpTypeOK, TransferInv
  <2>2. usExpectedBlockNumber - 1 \in Nat /\ (usExpectedBlockNumber - 1) + 1 = usExpectedBlockNumber
    BY <2>1
  <2> QED BY <2>1, <2>2
<1>2. /\ tftpd = "write" /\ UNCHANGED <<mounted, exists, unwritten, peers>>
      /\ FileOf[c] \in Files /\ FileOf[c] \in exists
  BY <1>1, ReceivedNat DEF WriteBlock, TftpInv, TransferInv
<1>3. content[FileOf[c]] = Blocks(c, n)
  <2>1. (n + 1) - 1 = n
    OBVIOUS
  <2> QED BY <1>1, <1>2, <2>1 DEF TftpInv, TransferInv
<1>4. content' = [content EXCEPT ![FileOf[c]] = Blocks(c, n + 1)]
  <2>1. content' = [content EXCEPT ![FileOf[c]] = Append(content[FileOf[c]], <<c, n + 1>>)]
    BY <1>1 DEF WriteBlock
  <2> QED BY <2>1, <1>3, BlocksGrow
<1>5. /\ content \in [Files -> Seq(Written)]
      /\ Blocks(c, n + 1) \in Seq(Written) /\ Len(Blocks(c, n + 1)) = n + 1
      /\ Len(Blocks(c, n)) = n
  <2>1. n + 1 \in Nat
    OBVIOUS
  <2> QED BY <2>1, BlocksGrow DEF TftpInv, TftpTypeOK
<1>6. content'[FileOf[c]] = Blocks(c, n + 1) /\ content' \in [Files -> Seq(Written)]
  BY <1>2, <1>4, <1>5
<1>7. \A f \in Files : f # FileOf[c] => content'[f] = content[f]
  BY <1>4, <1>5
<1>8. InOrder'
  <2> SUFFICES ASSUME NEW f \in Files
               PROVE  \E e \in Clients :
                        \/ content'[f] = Blocks(e, Len(content'[f]))
                        \/ content'[f] = Append(Blocks(e, Len(content'[f]) - 1), Garbage)
    BY DEF InOrder
  <2>1. CASE f = FileOf[c]
    BY <1>5, <1>6, <2>1
  <2>2. CASE f # FileOf[c]
    BY <1>7, <2>2 DEF TftpInv, FilesSound, InOrder
  <2> QED BY <2>1, <2>2
<1>9. tftpd' # "write"
  BY <1>2 DEF WriteBlock, Closed, Ends
<1>10. Kept
  <2> SUFFICES ASSUME NEW e \in Clients
               PROVE  Received(e)' \in Nat /\ Received(e) <= Received(e)'
    BY <1>2 DEF Kept
  <2>1. Received(e)' = Len(content'[FileOf[e]]) + 0
    BY <1>9, Zenon DEF Received
  <2>2. FileOf[e] \in Files /\ Len(content[FileOf[e]]) \in Nat
    BY ReceivedNat DEF TftpInv
  <2>3. CASE e = c
    <3>1. Received(e) = Len(content[FileOf[e]]) + 1
      BY <1>1, <1>2, <2>3, Zenon DEF Received
    <3> QED BY <1>3, <1>5, <1>6, <2>1, <2>3, <3>1
  <2>4. CASE e # c
    <3>1. Received(e) = Len(content[FileOf[e]]) + 0
      BY <1>1, <2>4, Zenon DEF Received
    <3>2. CASE FileOf[e] = FileOf[c]
      BY <1>3, <1>5, <1>6, <2>1, <3>1, <3>2
    <3>3. CASE FileOf[e] # FileOf[c]
      BY <1>7, <2>1, <2>2, <3>1, <3>3
    <3> QED BY <3>2, <3>3
  <2> QED BY <2>3, <2>4
<1>11. CASE short /\ Closed /\ UNCHANGED wire
  <2>1. TransferInv'
    BY <1>2, <1>7, <1>11 DEF TftpInv, TransferInv, Closed, Ends
  <2>2. TftpTypeOK'
    <3>1. 0 \in 0..MaxRetries /\ 0 \in 0..USHRT_MAX
      BY TftpAssumption DEF TftpAssumption
    <3> QED BY <1>2, <1>6, <1>11, <3>1 DEF TftpInv, TftpTypeOK, Closed, Ends, peers
  <2>3. wire' \subseteq wire \cup {} /\ {} \in SUBSET Datagrams
    BY <1>11
  <2> QED BY <1>2, <1>8, <1>10, <2>1, <2>2, <2>3, ServerSends
<1>12. ASSUME tftpd' = "wait", xRetries' = 0,
              wire' \in Sent(wire, {Dgram(pxClient, xPort, "ack", usExpectedBlockNumber)}),
              UNCHANGED <<pxClient, xPort, usExpectedBlockNumber, short>>
       PROVE  TftpInv'
  <2>1. wire' \subseteq wire \cup {Dgram(c, p, "ack", n + 1)}
    BY <1>1, <1>12, SentIsKnown
  <2>2. TransferInv'
    BY <1>1, <1>2, <1>6, <1>7, <1>12 DEF TftpInv, TransferInv
  <2>3. TftpTypeOK'
    <3>1. 0 \in 0..MaxRetries
      BY TftpAssumption DEF TftpAssumption
    <3>2. wire' \subseteq Datagrams
      BY <2>1, AckIs DEF TftpInv, TftpTypeOK
    <3> QED BY <1>2, <1>6, <1>12, <3>1, <3>2 DEF TftpInv, TftpTypeOK, peers
  <2>4. n + 1 <= Received(c)'
    <3>1. Received(c)' = Len(content'[FileOf[c]]) + 0
      BY <1>9, Zenon DEF Received
    <3> QED BY <1>5, <1>6, <3>1
  <2> QED BY <1>2, <1>8, <1>10, <2>1, <2>2, <2>3, <2>4, AckSent
<1> QED BY <1>11, <1>12 DEF WriteBlock

\* A block that is not written is its client's loss, and is known to be.
LEMMA WriteFailsStep == ASSUME TftpInv, WriteFails PROVE TftpInv'
<1>1. PICK c \in Clients, p \in Ports : c = pxClient /\ p = xPort
  BY DEF WriteFails, TftpInv, TftpTypeOK
<1>2. /\ tftpd = "write" /\ Closed /\ unwritten' = unwritten \cup {c}
      /\ UNCHANGED <<mounted, exists, content, peers>>
  BY <1>1 DEF WriteFails
<1>3. Kept
  <2> SUFFICES ASSUME NEW e \in Clients, e # c
               PROVE  Received(e)' \in Nat /\ Received(e) <= Received(e)'
    BY <1>2 DEF Kept
  <2>1. Received(e) = Len(content[FileOf[e]]) + 0 /\ Received(e)' = Len(content[FileOf[e]]) + 0
    BY <1>1, <1>2, Zenon DEF Received, Closed, Ends
  <2>2. Len(content[FileOf[e]]) \in Nat
    BY ReceivedNat DEF TftpInv
  <2> QED BY <2>1, <2>2
<1>4. InOrder' /\ TransferInv'
  BY <1>2 DEF TftpInv, FilesSound, InOrder, TransferInv, Closed, Ends
<1>5. wire' \subseteq wire \cup {Dgram(c, p, "error", 0)}
  BY <1>1, SentIsKnown DEF WriteFails
<1>6. TftpTypeOK'
  <2>1. 0 \in 0..MaxRetries /\ 0 \in 0..USHRT_MAX
    BY TftpAssumption DEF TftpAssumption
  <2>2. wire' \subseteq Datagrams
    BY <1>5, ErrorIs DEF TftpInv, TftpTypeOK
  <2> QED BY <1>2, <2>1, <2>2 DEF TftpInv, TftpTypeOK, Closed, Ends, peers
<1> QED BY <1>2, <1>3, <1>4, <1>5, <1>6, ErrorSent

-----------------------------------------------------------------------------
LEMMA StepInv == TftpInv /\ [TftpNext]_tftp => TftpInv'
<1> SUFFICES ASSUME TftpInv, [TftpNext]_tftp PROVE TftpInv'
  OBVIOUS
<1>1. CASE UNCHANGED tftp
  BY <1>1 DEF tftp, transfer, store, peers, TftpInv, TftpTypeOK, WireInv, PeerInv, TransferInv,
              FilesSound, InOrder, Acknowledged, Received, KnownAcked
<1>2. CASE StartTask \/ Mount
  BY <1>2, StartStep, MountStep
<1>3. CASE Served
  BY <1>3, RefuseStep, AcceptStep, BlockStep, OtherStep, TimesOutStep,
              ReceiveFailsStep, WriteStep, WriteFailsStep
  DEF Served
<1>4. CASE ClientStep
  BY <1>4, AskStep, SendAgainStep, FailStep, AckedStep DEF ClientStep
<1>5. CASE \E d \in wire : Lose(d)
  BY <1>5, LoseStep
<1> QED BY <1>1, <1>2, <1>3, <1>4, <1>5 DEF TftpNext

\* TFTPServer.c: what the server knows of a transfer, and its datagrams, keep
\* their types, for any number of clients, blocks and repetitions.
THEOREM TftpTypes == TftpSpec => []TftpTypeOK
<1>1. TftpInv => TftpTypeOK
  BY DEF TftpInv
<1> QED BY <1>1, InitInv, StepInv, PTL DEF TftpSpec

\* TFTPServer.c: a file holds what one client sent, in order and with nothing
\* missing or double, and all that this client knows to be acknowledged,
\* whatever datagrams are lost, double, late or of another transfer.
THEOREM FilesAreSound == TftpSpec => []FilesSound
<1>1. TftpInv => FilesSound
  BY DEF TftpInv
<1> QED BY <1>1, InitInv, StepInv, PTL DEF TftpSpec
===============================================================================
