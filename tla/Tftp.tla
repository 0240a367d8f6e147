--------------------------------- MODULE Tftp ---------------------------------
(***************************************************************************)
(* The TFTP server, TFTPServer.c: one task that receives one file at a     *)
(* time over UDP, and its clients.  Datagrams are lost, duplicated,        *)
(* delayed and delivered in any order, and one that is late for a transfer *)
(* may reach the socket of another that was given the same port.           *)
(*                                                                         *)
(* A client is an address and port that asks for one transfer; a block of  *)
(* data is the pair of its client and its place in the file.               *)
(***************************************************************************)
EXTENDS Naturals, Sequences, FiniteSets

CONSTANTS Clients, Files,
          FileOf,      \* the file that each client writes
          Size,        \* the number of blocks it has, the last one short
          Listen,      \* tftpPORT_NUMBER
          Ports,       \* the ports that the stack gives to sockets not bound
          NoClient, NoPort,
          USHRT_MAX,   \* what usExpectedBlockNumber can count to, 65535
          MaxRetries,  \* ipconfigTFTP_MAX_RETRIES
          MaxNet       \* bound: datagrams under way

\* Bound: files whose blocks usExpectedBlockNumber can count.
ASSUME TftpAssumption ==
  /\ Clients # {} /\ NoClient \notin Clients /\ NoPort \notin Ports /\ Listen \notin Ports
  /\ FileOf \in [Clients -> Files] /\ Size \in [Clients -> 1..USHRT_MAX]
  /\ MaxRetries \in Nat /\ MaxNet \in Nat /\ USHRT_MAX \in Nat

VARIABLES
  tftpd,     \* prvSimpleTFTPServerTask: where it waits, or is about to write
  pxClient, xPort, usExpectedBlockNumber, xRetries, short,   \* of the transfer
  mounted,   \* the volume is there
  exists,    \* the files on it
  content,   \* their blocks
  unwritten, \* history: clients a block of which could not be written
  wire,      \* the datagrams under way
  at, block, tid   \* the clients: the last block sent, the port it went to

transfer == <<pxClient, xPort, usExpectedBlockNumber, xRetries, short>>
store    == <<mounted, exists, content, unwritten>>
peers    == <<at, block, tid>>
tftp     == <<tftpd, transfer, store, wire, peers>>

Hosts     == Clients \cup Ports \cup {Listen}
Requests  == {"wrq", "bad"}   \* bad: not a write request, or its name or mode is bad
Datagrams == [to : Hosts, from : Hosts, op : Requests \cup {"data", "ack", "error"}, block : Nat]
Dgram(to, from, op, n) == [to |-> to, from |-> from, op |-> op, block |-> n]

Written == (Clients \cup {NoClient}) \X Nat   \* the blocks, and what is none

TftpTypeOK ==
  /\ tftpd \in {"off", "listen", "wait", "write", "dead"}
  /\ pxClient \in Clients \cup {NoClient} /\ xPort \in Ports \cup {NoPort}
  /\ usExpectedBlockNumber \in 0..USHRT_MAX
  /\ xRetries \in 0..MaxRetries /\ short \in BOOLEAN
  /\ mounted \in BOOLEAN /\ exists \subseteq Files
  /\ content \in [Files -> Seq(Written)]
  /\ unwritten \subseteq Clients /\ wire \subseteq Datagrams
  /\ at \in [Clients -> {"idle", "asked", "sending", "done", "failed"}]
  /\ block \in [Clients -> 0..USHRT_MAX] /\ tid \in [Clients -> Ports \cup {NoPort}]
  /\ tftpd \in {"wait", "write"} => pxClient # NoClient /\ xPort # NoPort
  /\ tftpd \in {"off", "listen", "dead"} => pxClient = NoClient /\ xPort = NoPort

TftpInit ==
  /\ tftpd = "off" /\ pxClient = NoClient /\ xPort = NoPort
  /\ usExpectedBlockNumber = 0 /\ xRetries = 0 /\ short = FALSE
  /\ mounted = FALSE /\ exists = {} /\ content = [f \in Files |-> <<>>]
  /\ unwritten = {} /\ wire = {}
  /\ at = [c \in Clients |-> "idle"] /\ block = [c \in Clients |-> 0]
  /\ tid = [c \in Clients |-> NoPort]

\* The network: a datagram that is received is gone, or comes again; what is
\* sent may be lost, and is if there is no room.
Taken(d)    == {wire \ {d}, wire}
Sent(w, ds) == {w} \cup {u \in {w \cup ds} : Cardinality(u) <= MaxNet}
Lose(d)     == /\ d \in wire /\ wire' = wire \ {d}
               /\ UNCHANGED <<tftpd, transfer, store, peers>>

-----------------------------------------------------------------------------
(* The server *)

\* vStartTFTPServerTask, and the volume that another task mounts.
StartTask == tftpd = "off" /\ tftpd' = "listen" /\ UNCHANGED <<transfer, store, wire, peers>>
Mount     == mounted' = TRUE /\ UNCHANGED <<tftpd, transfer, exists, content, unwritten, wire, peers>>

\* The transfer is over: its socket and its file are closed.
Ends(where) == /\ tftpd' = where /\ pxClient' = NoClient /\ xPort' = NoPort
               /\ usExpectedBlockNumber' = 0 /\ xRetries' = 0 /\ short' = FALSE
Closed == Ends("listen")

\* A request that is none, whose name or mode is bad, whose file is there or
\* cannot be made (that may happen to any), is answered with an error.
RefuseRequest(d, c) ==
  /\ tftpd = "listen" /\ d \in wire /\ d.to = Listen /\ d.from = c
  /\ \E w \in Taken(d) : wire' \in Sent(w, {Dgram(c, Listen, "error", 0)})
  /\ UNCHANGED <<tftpd, transfer, store, peers>>

\* A new file is made.  Without a socket it is closed again, and the client
\* hears nothing; else the request is acknowledged with block number 0.
AcceptRequest(d, c) ==
  /\ tftpd = "listen" /\ d \in wire /\ d.to = Listen /\ d.from = c /\ d.op = "wrq"
  /\ mounted /\ FileOf[c] \notin exists
  /\ exists' = exists \cup {FileOf[c]}
  /\ \E w \in Taken(d) :
       \/ wire' = w /\ UNCHANGED <<tftpd, transfer>>
       \/ \E p \in Ports :
            /\ tftpd' = "wait" /\ pxClient' = c /\ xPort' = p
            /\ usExpectedBlockNumber' = 0 /\ xRetries' = 0 /\ short' = FALSE
            /\ wire' \in Sent(w, {Dgram(c, p, "ack", 0)})
  /\ UNCHANGED <<mounted, content, unwritten, peers>>

\* Mutant: one repetition too many.
TimesOutLate ==
  /\ tftpd = "wait"
  /\ IF xRetries > MaxRetries THEN Closed /\ UNCHANGED wire
     ELSE /\ xRetries' = xRetries + 1
          /\ wire' \in Sent(wire, {Dgram(pxClient, xPort, "ack", usExpectedBlockNumber)})
          /\ UNCHANGED <<tftpd, pxClient, xPort, usExpectedBlockNumber, short>>
  /\ UNCHANGED <<store, peers>>

\* No datagram came in time, for which FreeRTOS_recvfrom returns 0: the last
\* acknowledgement is sent again, or the transfer given up.
ReceiveTimesOut ==
  /\ tftpd = "wait"
  /\ IF xRetries >= MaxRetries THEN Closed /\ UNCHANGED wire
     ELSE /\ xRetries' = xRetries + 1
          /\ wire' \in Sent(wire, {Dgram(pxClient, xPort, "ack", usExpectedBlockNumber)})
          /\ UNCHANGED <<tftpd, pxClient, xPort, usExpectedBlockNumber, short>>
  /\ UNCHANGED <<store, peers>>

\* No datagram came, for which FreeRTOS_recvfrom returns a negative error: that
\* is taken for the next block.  The pointer to its buffer is not set, or is
\* that of a buffer given back before, so what follows is undefined: the access
\* traps; or what is read there is no header that fits, and the transfer ends
\* with an error; or it is one, and is acknowledged, and written with a size that
\* is negative before it is made unsigned, until that fails or traps.
\* (What a buffer that is given back twice does to the stack is left out.)
Garbage == <<NoClient, 0>>
ReceiveFails ==
  /\ tftpd = "wait"
  /\ LET error == {Dgram(pxClient, xPort, "error", 0)}
     IN  \/ Ends("dead") /\ UNCHANGED <<content, unwritten, wire>>
         \/ Closed /\ wire' \in Sent(wire, error) /\ UNCHANGED <<content, unwritten>>
         \/ /\ usExpectedBlockNumber < USHRT_MAX
            /\ \E where \in {"listen", "dead"} : Ends(where)
            /\ \E w \in Sent(wire, {Dgram(pxClient, xPort, "ack", usExpectedBlockNumber + 1)}) :
                 wire' \in Sent(w, error)
            /\ content' \in {content, [content EXCEPT ![FileOf[pxClient]] = Append(@, Garbage)]}
            /\ unwritten' = unwritten \cup {pxClient}
  /\ UNCHANGED <<mounted, exists, peers>>

\* Mutant: a datagram is taken from whoever sends it.
ReceiveFromAnyone(d) ==
  /\ tftpd = "wait" /\ d \in wire /\ d.to = xPort
  /\ d.op = "data" /\ d.block = usExpectedBlockNumber + 1 /\ d.from \in Clients
  /\ tftpd' = "write" /\ usExpectedBlockNumber' = d.block /\ pxClient' = d.from
  /\ short' = (d.block = Size[d.from])
  /\ \E w \in Taken(d) : wire' \in Sent(w, {Dgram(pxClient, xPort, "ack", d.block)})
  /\ UNCHANGED <<xPort, xRetries, store, peers>>

\* The next block, from the client: it is acknowledged, and then written.
ReceiveBlock(d) ==
  /\ tftpd = "wait" /\ d \in wire /\ d.to = xPort
  /\ d.op = "data" /\ d.block = usExpectedBlockNumber + 1 /\ d.from = pxClient
  /\ tftpd' = "write" /\ usExpectedBlockNumber' = d.block
  /\ short' = (d.block = Size[pxClient])
  /\ \E w \in Taken(d) : wire' \in Sent(w, {Dgram(pxClient, xPort, "ack", d.block)})
  /\ UNCHANGED <<pxClient, xPort, xRetries, store, peers>>

\* Any other datagram, a block that came twice or was late too, ends the
\* transfer, with an error to the client; what was written stays.
ReceiveOther(d) ==
  /\ tftpd = "wait" /\ d \in wire /\ d.to = xPort
  /\ ~(d.op = "data" /\ d.block = usExpectedBlockNumber + 1 /\ d.from = pxClient)
  /\ Closed
  /\ \E w \in Taken(d) : wire' \in Sent(w, {Dgram(pxClient, xPort, "error", 0)})
  /\ UNCHANGED <<store, peers>>

\* The block is written; if it is a short one the transfer is over, if not the
\* acknowledgement is sent a second time.
WriteBlock ==
  /\ tftpd = "write"
  /\ content' = [content EXCEPT ![FileOf[pxClient]] =
                   Append(@, <<pxClient, usExpectedBlockNumber>>)]
  /\ IF short THEN Closed /\ UNCHANGED wire
     ELSE /\ tftpd' = "wait" /\ xRetries' = 0
          /\ wire' \in Sent(wire, {Dgram(pxClient, xPort, "ack", usExpectedBlockNumber)})
          /\ UNCHANGED <<pxClient, xPort, usExpectedBlockNumber, short>>
  /\ UNCHANGED <<mounted, exists, unwritten, peers>>

\* The block cannot be written (the disk is full, or +FAT does not write no
\* bytes): the client, which has the acknowledgement, is sent an error.
WriteFails ==
  /\ tftpd = "write"
  /\ unwritten' = unwritten \cup {pxClient}
  /\ wire' \in Sent(wire, {Dgram(pxClient, xPort, "error", 0)})
  /\ Closed
  /\ UNCHANGED <<mounted, exists, content, peers>>

Served == \/ \E d \in wire : \/ \E c \in Clients : RefuseRequest(d, c) \/ AcceptRequest(d, c)
                             \/ ReceiveBlock(d) \/ ReceiveOther(d)
          \/ ReceiveTimesOut \/ ReceiveFails \/ WriteBlock \/ WriteFails

-----------------------------------------------------------------------------
(* The clients *)

Outgoing(c, op) == IF at[c] = "sending" THEN Dgram(tid[c], c, "data", block[c])
               ELSE Dgram(Listen, c, op, 0)

Ask(c, op) ==
  /\ at[c] = "idle"
  /\ at' = [at EXCEPT ![c] = "asked"]
  /\ wire' \in Sent(wire, {Outgoing(c, op)})
  /\ UNCHANGED <<tftpd, transfer, store, block, tid>>

SendAgain(c, op) ==
  /\ at[c] \in {"asked", "sending"}
  /\ wire' \in Sent(wire, {Outgoing(c, op)})
  /\ UNCHANGED <<tftpd, transfer, store, peers>>

\* An acknowledgement of the last datagram: the next block is sent.
Acked(d, c) ==
  /\ d \in wire /\ d.to = c /\ d.op = "ack" /\ d.from \in Ports /\ d.block = block[c]
  /\ at[c] = "asked" \/ (at[c] = "sending" /\ d.from = tid[c])
  /\ tid' = [tid EXCEPT ![c] = d.from]
  /\ IF block[c] = Size[c]
     THEN /\ at' = [at EXCEPT ![c] = "done"] /\ wire' \in Taken(d)
          /\ UNCHANGED block
     ELSE /\ at' = [at EXCEPT ![c] = "sending"] /\ block' = [block EXCEPT ![c] = @ + 1]
          /\ \E w \in Taken(d) : wire' \in Sent(w, {Dgram(d.from, c, "data", block[c] + 1)})
  /\ UNCHANGED <<tftpd, transfer, store>>

Fail(c) ==
  /\ at[c] \in {"asked", "sending"}
  /\ \/ UNCHANGED wire   \* it has waited too long
     \/ \E d \in wire : d.to = c /\ d.op = "error" /\ wire' \in Taken(d)
  /\ at' = [at EXCEPT ![c] = "failed"]
  /\ UNCHANGED <<tftpd, transfer, store, block, tid>>

ClientStep == \/ \E c \in Clients, op \in Requests : Ask(c, op) \/ SendAgain(c, op)
              \/ \E c \in Clients : Fail(c) \/ \E d \in wire : Acked(d, c)

TftpNext == StartTask \/ Mount \/ Served \/ ClientStep \/ \E d \in wire : Lose(d)

TftpSpec == TftpInit /\ [][TftpNext]_tftp

-----------------------------------------------------------------------------
\* What one client sent, from the first block on and in order; what a failed
\* receive wrote can only be the last.
Blocks(c, n) == [i \in 1..n |-> <<c, i>>]
InOrder == \A f \in Files : \E c \in Clients :
             \/ content[f] = Blocks(c, Len(content[f]))
             \/ content[f] = Append(Blocks(c, Len(content[f]) - 1), Garbage)

\* The blocks that a client knows to be acknowledged are in its file, but the
\* one that is just being written, and one that could not be.
Received(c) == Len(content[FileOf[c]]) + (IF tftpd = "write" /\ pxClient = c THEN 1 ELSE 0)
KnownAcked(c) == IF at[c] = "sending" THEN block[c] - 1 ELSE IF at[c] = "done" THEN Size[c] ELSE 0
Acknowledged == \A c \in Clients \ unwritten : KnownAcked(c) <= Received(c)

\* TFTPServer.c: a file holds what one client sent, in order and with nothing
\* missing or double, and all that the client knows to be acknowledged; for
\* datagrams that are lost, double, late, or of another transfer.  Left out are
\* the clients of which a block could not be written, or was taken for received.
FilesSound == InOrder /\ Acknowledged
===============================================================================
