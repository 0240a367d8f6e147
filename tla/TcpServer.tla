----------------------------- MODULE TcpServer -----------------------------
(***************************************************************************)
(* The TCP server of protocols/Common/FreeRTOS_TCP_server.c: one task that *)
(* selects, accepts and then walks a linked list of FTP and HTTP clients,  *)
(* calling each one's work function and unlinking those whose function     *)
(* returns a negative value.  The peers, and the TCP stack, act between    *)
(* any two of its steps.                                                   *)
(*                                                                         *)
(* A client record is named by the connection it was allocated for; what   *)
(* the work functions do with a request is the business of other modules.  *)
(***************************************************************************)
EXTENDS Integers, Sequences, SequencesExt, FiniteSets

CONSTANTS HttpConn,  \* the connections that peers make to port 80
          FtpConn,   \* the connections that peers make to port 21
          NULL,      \* the null pointer
          Anchor,      \* the address of pxServer->pxClients
          MaxReq     \* bound: requests of a connection waiting to be received

Conn == HttpConn \cup FtpConn

ASSUME TcpAssumption ==
  /\ HttpConn \cap FtpConn = {}
  /\ NULL \notin Conn /\ Anchor \notin Conn /\ NULL # Anchor
  /\ MaxReq \in Nat \ {0}

VARIABLES
  conn,       \* TCP: the state of each connection's socket
  peer,       \* TCP: the peers that are still there
  inbox,      \* TCP: requests received and not yet read
  fdset,      \* the sockets in xSocketSet (the listening ones always are)
  heap,       \* the client records that are allocated
  next,       \* pxNextClient of each record
  pxClients,  \* pxServer->pxClients
  ppxClient,  \* the walk's pointer: Anchor, or the record whose pxNextClient it is
  pc,         \* where the server task is
  xIndex,     \* the listening socket whose turn it is to accept
  greeted,    \* the FTP clients with bHelloSent
  badAccess   \* history: a record was used that is not allocated

tcp  == <<conn, peer, inbox>>
list == <<heap, next, pxClients>>
vars == <<tcp, fdset, list, ppxClient, pc, xIndex, greeted, badAccess>>

-----------------------------------------------------------------------------
(* The peers and the stack *)

Connect(c) ==
  /\ conn[c] = "absent"
  /\ conn' = [conn EXCEPT ![c] = "queued"]
  /\ peer' = peer \cup {c}
  /\ UNCHANGED <<inbox, fdset, list, ppxClient, pc, xIndex, greeted, badAccess>>

SendRequest(c) ==
  /\ c \in peer
  /\ inbox[c] < MaxReq
  /\ inbox' = [inbox EXCEPT ![c] = @ + 1]
  /\ UNCHANGED <<conn, peer, fdset, list, ppxClient, pc, xIndex, greeted, badAccess>>

\* The peer closes or resets the connection, or the stack gives it up.
PeerLeaves(c) ==
  /\ c \in peer
  /\ peer' = peer \ {c}
  /\ UNCHANGED <<conn, inbox, fdset, list, ppxClient, pc, xIndex, greeted, badAccess>>

-----------------------------------------------------------------------------
(* FreeRTOS_TCPServerWork: select and accept *)

Listener(i) == {c \in HttpConn : i = 1} \cup {c \in FtpConn : i = 2}
Queued(i)   == {c \in Listener(i) : conn[c] = "queued"}

\* eSELECT_READ or eSELECT_EXCEPT: a new connection, data, or a lost peer.
Ready == \/ \E i \in 1..2 : Queued(i) # {}
         \/ \E c \in fdset : inbox[c] > 0 \/ c \notin peer

SelectReturns ==
  /\ pc = "select"
  /\ Ready
  /\ pc' = "accept" /\ xIndex' = 1
  /\ UNCHANGED <<tcp, fdset, list, ppxClient, greeted, badAccess>>

\* select returns 0 after xBlockingTime: straight to the walk.
SelectTimesOut ==
  /\ pc = "select"
  /\ ~Ready
  /\ pc' = "walk" /\ ppxClient' = Anchor
  /\ UNCHANGED <<tcp, fdset, list, xIndex, greeted, badAccess>>

\* The next listening socket.
NextListener == xIndex' = xIndex + 1 /\ UNCHANGED <<pc, ppxClient>>

\* Mutant: the loop does not end at xServerCount.
AcceptNoneAlways ==
  /\ pc = "accept"
  /\ Queued(xIndex) = {}
  /\ NextListener
  /\ UNCHANGED <<tcp, fdset, list, greeted, badAccess>>

AcceptNone ==
  /\ pc = "accept" /\ xIndex <= 2
  /\ Queued(xIndex) = {}
  /\ NextListener
  /\ UNCHANGED <<tcp, fdset, list, greeted, badAccess>>

\* Mutant: the new client is not linked to the others.
ReceiveNewClientAlone(c) ==
  /\ pc = "accept" /\ c \in Queued(xIndex)
  /\ conn' = [conn EXCEPT ![c] = "open"]
  /\ heap' = heap \cup {c}
  /\ next' = [next EXCEPT ![c] = NULL]
  /\ pxClients' = c
  /\ fdset' = fdset \cup {c}
  /\ NextListener
  /\ UNCHANGED <<peer, inbox, greeted, badAccess>>

\* prvReceiveNewClient: a record in front of the list, its socket in the set.
ReceiveNewClient(c) ==
  /\ pc = "accept" /\ c \in Queued(xIndex)
  /\ conn' = [conn EXCEPT ![c] = "open"]
  /\ heap' = heap \cup {c}
  /\ next' = [next EXCEPT ![c] = pxClients]
  /\ pxClients' = c
  /\ fdset' = fdset \cup {c}
  /\ NextListener
  /\ UNCHANGED <<peer, inbox, greeted, badAccess>>

\* pvPortMallocLarge returned NULL: the connection is refused.
RefuseNewClient(c) ==
  /\ pc = "accept" /\ c \in Queued(xIndex)
  /\ conn' = [conn EXCEPT ![c] = "closed"]
  /\ NextListener
  /\ UNCHANGED <<peer, inbox, fdset, list, greeted, badAccess>>

\* Every listening socket has had its turn.
StartWalk ==
  /\ pc = "accept" /\ xIndex = 3
  /\ pc' = "walk" /\ ppxClient' = Anchor
  /\ UNCHANGED <<tcp, fdset, list, xIndex, greeted, badAccess>>

-----------------------------------------------------------------------------
(* FreeRTOS_TCPServerWork: the walk *)

\* *ppxClient
pxThis == IF ppxClient = Anchor THEN pxClients ELSE next[ppxClient]

Points(p, c) == IF p = Anchor THEN pxClients' = c /\ UNCHANGED next
                            ELSE next' = [next EXCEPT ![p] = c] /\ UNCHANGED pxClients

AtClient(c) == pc = "walk" /\ pxThis = c /\ c # NULL

\* An access to a record that was freed is undefined; it is recorded.
Uses(c) == badAccess' = (badAccess \/ c \notin heap)

\* Mutant: a client is served without moving on to the one behind it.
WorkAndEndWalk(c) ==
  /\ AtClient(c)
  /\ Uses(c)
  /\ inbox' = [inbox EXCEPT ![c] = IF @ = 0 THEN 0 ELSE @ - 1]
  /\ inbox[c] > 0 \/ c \in peer
  /\ greeted' = greeted \cup ({c} \cap FtpConn)
  /\ pc' = "select" /\ ppxClient' = NULL
  /\ UNCHANGED <<conn, peer, fdset, list, xIndex>>

\* The work function returns 0 or more: FTP greets first, a request is read
\* and answered, or there is none.
Work(c) ==
  /\ AtClient(c)
  /\ Uses(c)
  /\ inbox' = [inbox EXCEPT ![c] = IF @ = 0 THEN 0 ELSE @ - 1]
  /\ inbox[c] > 0 \/ c \in peer
  /\ greeted' = greeted \cup ({c} \cap FtpConn)
  /\ ppxClient' = c
  /\ UNCHANGED <<conn, peer, fdset, list, pc, xIndex>>

\* It returns a negative value: recv found the connection lost, or (HTTP)
\* the reply to a request could not be sent.
WorkFails(c) ==
  \/ inbox[c] = 0 /\ c \notin peer /\ UNCHANGED inbox
  \/ inbox[c] > 0 /\ c \in HttpConn /\ inbox' = [inbox EXCEPT ![c] = @ - 1]

\* Mutant: FTP's delete function leaves the socket in the set.
DeleteWithoutClr(c) ==
  /\ AtClient(c) /\ WorkFails(c)
  /\ Uses(c)
  /\ greeted' = greeted \cup ({c} \cap FtpConn)
  /\ Points(ppxClient, next[c])
  /\ conn' = IF c \in FtpConn THEN [conn EXCEPT ![c] = "closed"] ELSE conn
  /\ heap' = heap \ {c}
  /\ UNCHANGED <<peer, fdset, pc, ppxClient, xIndex>>

\* Mutant: the record is freed but not unlinked.
DeleteWithoutUnlink(c) ==
  /\ AtClient(c) /\ WorkFails(c)
  /\ Uses(c)
  /\ greeted' = greeted \cup ({c} \cap FtpConn)
  /\ conn' = IF c \in FtpConn THEN [conn EXCEPT ![c] = "closed"] ELSE conn
  /\ fdset' = fdset \ ({c} \cap FtpConn)
  /\ heap' = heap \ {c}
  /\ ppxClient' = c
  /\ UNCHANGED <<peer, next, pxClients, pc, xIndex>>

\* Mutant: the socket is closed without fDeleteFunction's care for its kind.
DeleteWithoutClose(c) ==
  /\ AtClient(c) /\ WorkFails(c)
  /\ Uses(c)
  /\ greeted' = greeted \cup ({c} \cap FtpConn)
  /\ Points(ppxClient, next[c])
  /\ fdset' = fdset \ ({c} \cap FtpConn)
  /\ heap' = heap \ {c}
  /\ UNCHANGED <<conn, peer, pc, ppxClient, xIndex>>

\* The client is unlinked, its fDeleteFunction called if it has one - FTP
\* takes the socket out of the set and closes it, HTTP has none - and freed.
Delete(c) ==
  /\ AtClient(c) /\ WorkFails(c)
  /\ Uses(c)
  /\ greeted' = greeted \cup ({c} \cap FtpConn)
  /\ Points(ppxClient, next[c])
  /\ conn' = IF c \in FtpConn THEN [conn EXCEPT ![c] = "closed"] ELSE conn
  /\ fdset' = fdset \ ({c} \cap FtpConn)
  /\ heap' = heap \ {c}
  /\ UNCHANGED <<peer, pc, ppxClient, xIndex>>

EndWalk ==
  /\ pc = "walk" /\ pxThis = NULL
  /\ pc' = "select" /\ ppxClient' = NULL
  /\ UNCHANGED <<tcp, fdset, list, xIndex, greeted, badAccess>>

-----------------------------------------------------------------------------
(* Specification *)

\* FreeRTOS_CreateTCPServer has made the two listening sockets.
Init ==
  /\ conn = [c \in Conn |-> "absent"]
  /\ peer = {} /\ inbox = [c \in Conn |-> 0]
  /\ fdset = {} /\ heap = {}
  /\ next = [c \in Conn |-> NULL] /\ pxClients = NULL /\ ppxClient = NULL
  /\ pc = "select" /\ xIndex = 1
  /\ greeted = {} /\ badAccess = FALSE

Server ==
  \/ SelectReturns \/ SelectTimesOut \/ AcceptNone \/ StartWalk \/ EndWalk
  \/ \E c \in Conn : ReceiveNewClient(c) \/ RefuseNewClient(c) \/ Work(c) \/ Delete(c)

Peers == \E c \in Conn : Connect(c) \/ SendRequest(c) \/ PeerLeaves(c)

Next == Server \/ Peers

Spec == Init /\ [][Next]_vars

\* The server task runs, and its select returns, again and again.
FairSpec == Spec /\ WF_vars(Server)

-----------------------------------------------------------------------------
(* Properties *)

\* The first k + 1 records that are reached from pointer p along the links.
Chain(links, p, k) ==
  LET steps[n \in 0..k] ==
        IF n = 0 THEN IF p = NULL THEN <<>> ELSE <<p>>
        ELSE LET s == steps[n - 1]
             IN IF s = <<>> \/ links[Last(s)] = NULL THEN s ELSE Append(s, links[Last(s)])
  IN steps[k]

\* The records that are reached from pointer p, in order: no more than there
\* are, and one, if the list is longer than that.
From(p) == Chain(next, p, Cardinality(heap))

Clients == From(pxClients)

\* Type invariant of the server's state.
TypeOK ==
  /\ conn \in [Conn -> {"absent", "queued", "open", "closed"}]
  /\ peer \subseteq Conn /\ inbox \in [Conn -> 0..MaxReq]
  /\ fdset \subseteq Conn /\ heap \subseteq Conn
  /\ next \in [Conn -> Conn \cup {NULL}] /\ pxClients \in Conn \cup {NULL}
  /\ ppxClient \in Conn \cup {Anchor, NULL}
  /\ pc \in {"select", "accept", "walk"} /\ xIndex \in 1..3
  /\ greeted \subseteq FtpConn /\ badAccess \in BOOLEAN

\* Accepting in front of the list and unlinking in the middle of the walk
\* leave no pointer to a freed record: the list holds exactly the allocated
\* ones, once each, and the walk's pointer lies inside one of them.
ListSound ==
  /\ ~badAccess
  /\ ToSet(Clients) = heap
  /\ Len(Clients) = Cardinality(heap)
  /\ ppxClient \in Conn => ppxClient \in heap

\* select never watches a closed socket, and watches every client's.
WatchesOpenSockets ==
  /\ \A c \in fdset : conn[c] = "open"
  /\ heap \subseteq fdset

\* Every accepted FTP connection has its client, until the client's deletion
\* closes it: none is forgotten open.
FtpConnectionsOwned ==
  \A c \in FtpConn : conn[c] = "open" <=> c \in heap

\* "The connection will be closed and the client will be deleted" (in
\* xHTTPClientWork, FreeRTOS_HTTP_server.c:291): the connection of a deleted
\* client does not stay open.
DeletedAreClosed ==
  \A c \in Conn : (conn[c] = "open") => c \in heap

\* The pointer manipulation implements rounds over a sequence: in each round
\* every client is visited once, newest first, and leaves only in its visit.
Rounds == INSTANCE TcpRounds WITH
  conns <- Clients,
  todo  <- IF pc = "walk" THEN From(pxThis) ELSE <<>>

ImplementsRounds == Rounds!Spec

\* A request that has arrived at a served client is read, however many other
\* clients come and go: no client is starved by the walk.
RequestsAreRead ==
  \A c \in Conn : (c \in heap /\ inbox[c] = MaxReq) ~> (inbox[c] < MaxReq \/ c \notin heap)

\* Once the peers have gone, FTP connections are all closed in the end.
FtpConnectionsEnd ==
  \A c \in FtpConn :
    (conn[c] \in {"queued", "open"} /\ c \notin peer) ~> (conn[c] = "closed")
=============================================================================
