---------------------------- MODULE FtpTransfer ----------------------------
(***************************************************************************)
(* The data transfers of one FTP session                                   *)
(* (protocols/FTP/FreeRTOS_FTP_server.c): the server task works on the     *)
(* commands and on the data connection, while the TCP stack, whose task    *)
(* has a higher priority, and the peer act between any two of its calls of *)
(* the stack.                                                              *)
(*                                                                         *)
(* The server task is a stack of the calls it still has to make, the next  *)
(* one in front: an action for each, which may push the calls it makes.    *)
(* Files are counted in blocks, each of more than one byte.  One file is   *)
(* read (RETR) and another one is written (STOR).                          *)
(***************************************************************************)
EXTENDS Integers, Sequences

CONSTANTS MaxSock,   \* bound: data sockets made in a session
          FileSize,  \* blocks of the file that RETR reads, unless it is empty
          MaxSend,   \* bound: blocks the peer sends on a connection
          Disk,      \* bound: blocks that can be written before the disk is full
          Window     \* the size, in blocks, of a socket's streams

ASSUME FtpAssumption ==
  /\ MaxSock \in Nat \ {0} /\ FileSize \in Nat \ {0} /\ MaxSend \in Nat
  /\ Disk \in Nat /\ Window \in Nat \ {0}

VARIABLES
  peer,      \* the control connection: is the peer still there
  cmd,       \* the command in its receive stream, or "none"
  stack,     \* the server task: the calls to make, the next one first
  xRc,       \* what the last work function returned: 0 or -1
  pxClient,  \* the FTPClient_t of the session
  sk,        \* the data sockets, as the TCP stack has them
  disk,      \* blocks of free space
  files,     \* the number of open files
  uploaded,  \* blocks written to the file that STOR made
  file,      \* the file that RETR opened: its size, and the blocks not read yet
  talk       \* history: the transfer as the peer sees it; calm: it was patient and
             \* nothing failed underneath; asked, rest: the offset that REST asked
             \* for, next and now; -1: one of a transfer that was refused may be left

vars == <<peer, cmd, stack, xRc, pxClient, sk, disk, files, uploaded, file, talk>>
data == <<disk, files, uploaded, file>>

Sock   == 1..MaxSock
Labels == {"recv", "data", "work", "worked", "pasv", "port", "listen", "bind", "rest", "retr",
           "retrprep", "stor", "storprep", "setwrite", "stored", "size",
           "check", "accept", "acceptrx", "ack", "drained", "close", "close2", "closing",
           "closefile", "store", "retrieve", "allsent", "delete"}
Commands == {"pasv", "port", "rest", "retr", "stor", "size"}

At(l) == stack # <<>> /\ Head(stack) = l
Calls(s) == stack' = s \o Tail(stack)
Returns  == Calls(<<>>)

Socket == pxClient.xTransferSocket      \* 0: FREERTOS_NO_SOCKET
Rx == IF Socket = 0 THEN 0 ELSE sk[Socket].rx
St == IF Socket = 0 THEN "none" ELSE sk[Socket].st

Unused == {s \in Sock : sk[s].st = "none"}

\* The final reply to the transfer command on the control connection.
Replies(r) == talk' = [talk EXCEPT !.reply = r]

\* One that leaves the offset of a REST as it is, for whatever comes next.
Refuses(r) == talk' = [talk EXCEPT !.reply = r, !.asked = IF talk.rest = 0 THEN @ ELSE -1]
Waiting == talk.op # "none" /\ talk.reply = "none"

-----------------------------------------------------------------------------
(* The peer and the TCP stack *)

\* The peer's commands.  It awaits the reply to PASV, PORT and REST, makes a
\* transfer once on each data connection it was offered, and RETR only while it
\* has not closed it.  It may start over before a transfer's final reply.
PeerCommand(c) ==
  /\ peer /\ cmd = "none"
  /\ \A i \in DOMAIN stack : stack[i] \notin {"pasv", "port", "listen", "bind", "rest"}
  /\ c \in {"pasv", "port"} => Unused # {}
  /\ c \in {"rest", "retr", "stor"} => ~Waiting
  /\ c \in {"retr", "stor"} => talk.offer # 0
  /\ c = "retr" => sk[talk.offer].st \in {"bound", "listen", "estab"}
  /\ c = "size" => Waiting /\ talk.op = "stor"
  /\ cmd' = c
  /\ talk' = CASE c \in {"pasv", "port"} ->
                    [talk EXCEPT !.calm = @ /\ ~Waiting, !.op = "none", !.offer = 0]
               [] c \in {"retr", "stor"} ->
                    [talk EXCEPT !.op = c, !.reply = "none", !.cur = talk.offer, !.offer = 0,
                                 !.rest = talk.asked, !.asked = 0]
               [] c \in {"rest", "size"} -> talk
  /\ UNCHANGED <<peer, stack, xRc, pxClient, sk, data>>

\* The control connection is lost or closed.
PeerLeaves ==
  /\ peer
  /\ peer' = FALSE
  /\ talk' = [talk EXCEPT !.calm = @ /\ ~Waiting]
  /\ UNCHANGED <<cmd, stack, xRc, pxClient, sk, data>>

NetLeaves == UNCHANGED <<peer, cmd, stack, xRc, pxClient, data>>

PeerConnects(s) ==
  /\ sk[s].st \in {"listen", "connecting"}
  /\ sk' = [sk EXCEPT ![s].st = "estab"]
  /\ NetLeaves /\ UNCHANGED talk

PeerRefuses(s) ==
  /\ sk[s].st = "connecting"
  /\ sk' = [sk EXCEPT ![s].st = "closed"]
  /\ talk' = [talk EXCEPT !.calm = FALSE]
  /\ NetLeaves

\* Data for STOR.  A peer that has not waited for the 150 may still be sending
\* after another final reply, or when it starts over.
PeerSends(s) ==
  /\ sk[s].st = "estab" /\ sk[s].rx < Window /\ sk[s].sent < MaxSend
  /\ talk.cur = s /\ (talk.op = "stor" \/ sk[s].sent > 0)
  /\ sk' = [sk EXCEPT ![s].rx = @ + 1, ![s].sent = @ + 1]
  /\ talk' = [talk EXCEPT !.calm = @ /\ Waiting]
  /\ NetLeaves

PeerReads(s) ==
  /\ sk[s].st = "estab" /\ sk[s].tx > 0
  /\ sk' = [sk EXCEPT ![s].tx = @ - 1, ![s].got = @ + 1]
  /\ NetLeaves /\ UNCHANGED talk

\* The peer closes its side; a peer that awaits a file does so to give up.
PeerCloses(s) ==
  /\ sk[s].st = "estab"
  /\ sk' = [sk EXCEPT ![s].st = "lastack"]
  /\ talk' = [talk EXCEPT !.calm = @ /\ ~(talk.op = "retr" /\ talk.cur = s)]
  /\ NetLeaves

\* A connection ends after the peer's FIN, or after ours, which follows the
\* last block (FREERTOS_SO_CLOSE_AFTER_SEND, FreeRTOS_shutdown).
StackCloses(s) ==
  /\ \/ sk[s].st = "lastack"
     \/ sk[s].st = "estab" /\ sk[s].fin /\ sk[s].tx = 0
  /\ sk' = [sk EXCEPT ![s].st = "closed"]
  /\ NetLeaves /\ UNCHANGED talk

-----------------------------------------------------------------------------
(* xFTPClientWork *)

\* recv on the control connection: a command, nothing, or the connection is
\* lost and the client will be deleted after the work on its data.
Recv ==
  /\ At("recv")
  /\ \/ cmd # "none" /\ cmd' = "none" /\ Calls(<<cmd, "data", "recv">>)
     \/ cmd = "none" /\ peer /\ Calls(<<"data", "recv">>) /\ UNCHANGED cmd
     \/ cmd = "none" /\ ~peer /\ Calls(<<"data", "close", "closefile", "delete">>)
        /\ UNCHANGED cmd
  /\ UNCHANGED <<peer, xRc, pxClient, sk, data, talk>>

Data ==
  /\ At("data")
  /\ Calls(IF Socket = 0 THEN <<>> ELSE <<"check", "work">>)
  /\ UNCHANGED <<peer, cmd, xRc, pxClient, sk, data, talk>>

\* "The socket can only be used once this acknowledgement has been sent."
Work ==
  /\ At("work")
  /\ Calls(CASE Socket = 0 \/ pxClient.pcConnectionAck -> <<>>
             [] Socket # 0 /\ ~pxClient.pcConnectionAck /\ pxClient.pxReadHandle ->
                  <<"retrieve", "worked">>
             [] Socket # 0 /\ ~pxClient.pcConnectionAck /\ ~pxClient.pxReadHandle ->
                  IF pxClient.pxWriteHandle THEN <<"store", "worked">> ELSE <<>>)
  /\ UNCHANGED <<peer, cmd, xRc, pxClient, sk, data, talk>>

Worked ==
  /\ At("worked")
  /\ Calls(IF xRc < 0 THEN <<"close", "closefile">> ELSE <<>>)
  /\ UNCHANGED <<peer, cmd, xRc, pxClient, sk, data, talk>>

\* vFTPClientDelete, after the data socket and the file: the session is over.
Delete ==
  /\ At("delete")
  /\ Returns
  /\ UNCHANGED <<peer, cmd, xRc, pxClient, sk, data, talk>>

-----------------------------------------------------------------------------
(* prvProcessCommand *)

Pasv == At("pasv") /\ Calls(<<"close", "listen">>)
        /\ UNCHANGED <<peer, cmd, xRc, pxClient, sk, data, talk>>
Port == At("port") /\ Calls(<<"close", "bind">>)
        /\ UNCHANGED <<peer, cmd, xRc, pxClient, sk, data, talk>>

\* The rest of prvTransferConnect, once the previous socket has been closed.
TransferConnect(listen) ==
  /\ At(IF listen THEN "listen" ELSE "bind")
  /\ \E s \in Unused :
       /\ \A r \in Unused : s <= r
       /\ sk' = [sk EXCEPT ![s].st = IF listen THEN "listen" ELSE "bound"]
       /\ pxClient' = [pxClient EXCEPT !.xTransferSocket = s, !.bIsListen = listen,
                                       !.bEmptyFile = FALSE]
       /\ talk' = [talk EXCEPT !.offer = s]
  /\ Returns
  /\ UNCHANGED <<peer, cmd, xRc, data>>

\* FreeRTOS_socket fails: PORT reports success all the same.
PortNoSocket ==
  /\ At("bind")
  /\ pxClient' = [pxClient EXCEPT !.bEmptyFile = FALSE]
  /\ Returns
  /\ UNCHANGED <<peer, cmd, xRc, sk, data, talk>>

Rest ==
  /\ At("rest")
  /\ \E n \in 0..FileSize : /\ pxClient' = [pxClient EXCEPT !.ulRestartOffset = n]
                            /\ talk' = [talk EXCEPT !.asked = n]
  /\ Returns
  /\ UNCHANGED <<peer, cmd, xRc, sk, data>>

NoDataConnection(l) ==
  /\ At(l)
  /\ Socket = 0 /\ (l = "stor" => ~pxClient.bEmptyFile)
  /\ Refuses("425")
  /\ Returns
  /\ UNCHANGED <<peer, cmd, xRc, pxClient, sk, data>>

\* "One exception: a STOR command is received while the data connection has
\* already been closed.  This is tested with the bEmptyFile flag."
Transfer(l, prep) ==
  /\ At(l)
  /\ Socket # 0 \/ (l = "stor" /\ pxClient.bEmptyFile)
  /\ Calls((IF Socket # 0 THEN <<"check">> ELSE <<>>) \o prep)
  /\ UNCHANGED <<peer, cmd, xRc, pxClient, sk, data, talk>>

\* Mutant: an empty file is left to the work on a data connection.
StoredOnly ==
  /\ At("stored")
  /\ Returns
  /\ UNCHANGED <<peer, cmd, xRc, pxClient, sk, data, talk>>

\* A file whose data connection has already ended without data is complete.
Stored ==
  /\ At("stored")
  /\ Calls(IF pxClient.bEmptyFile THEN <<"close", "closefile">> ELSE <<>>)
  /\ UNCHANGED <<peer, cmd, xRc, pxClient, sk, data, talk>>

\* SIZE asks for the file that is being received: up to three rounds of work
\* on it, before the number of bytes is told.
Size ==
  /\ At("size")
  /\ Calls(IF pxClient.pxWriteHandle THEN <<"store", "store", "store">> ELSE <<>>)
  /\ UNCHANGED <<peer, cmd, xRc, pxClient, sk, data, talk>>

-----------------------------------------------------------------------------
(* prvTransferCheck *)

\* rx_size, before the state of the connection is asked for.
Check ==
  /\ At("check")
  /\ Calls(CASE pxClient.bClientConnected -> <<"ack">>
             [] ~pxClient.bClientConnected -> <<IF Rx > 0 THEN "acceptrx" ELSE "accept">>)
  /\ UNCHANGED <<peer, cmd, xRc, pxClient, sk, data, talk>>

\* A listening socket is handed out by accept even if its connection has ended
\* since, an active one must be connected now - unless data had arrived.
Accept(l) ==
  /\ At(l)
  /\ LET connected == \/ l = "acceptrx"
                      \/ pxClient.bIsListen /\ St \in {"estab", "lastack", "closed"}
                      \/ ~pxClient.bIsListen /\ St = "estab"
     IN /\ pxClient' = IF connected
                       THEN [pxClient EXCEPT !.bClientConnected = TRUE, !.bEmptyFile = FALSE]
                       ELSE pxClient
        /\ Calls(IF connected THEN <<"ack">> ELSE <<>>)
  /\ UNCHANGED <<peer, cmd, xRc, sk, data, talk>>

\* The pending 150, and issocketconnected.
Ack ==
  /\ At("ack")
  /\ pxClient' = [pxClient EXCEPT !.pcConnectionAck = FALSE]
  /\ Calls(IF St = "estab" THEN <<>> ELSE <<"drained">>)
  /\ UNCHANGED <<peer, cmd, xRc, sk, data, talk>>

\* ... and rx_size = 0.
Drained ==
  /\ At("drained")
  /\ Calls(IF Rx = 0 THEN <<"close", "closefile">> ELSE <<>>)
  /\ UNCHANGED <<peer, cmd, xRc, pxClient, sk, data, talk>>

-----------------------------------------------------------------------------
(* prvTransferCloseSocket and prvTransferCloseFile *)

Close ==
  /\ At("close")
  /\ Calls(IF Rx > 0 THEN <<"store", "close2">> ELSE <<"closing">>)
  /\ UNCHANGED <<peer, cmd, xRc, pxClient, sk, data, talk>>

\* More has arrived meanwhile: the socket is not closed, nor the flags reset.
Close2 ==
  /\ At("close2")
  /\ Calls(IF Rx > 0 THEN <<>> ELSE <<"closing">>)
  /\ UNCHANGED <<peer, cmd, xRc, pxClient, sk, data, talk>>

Finished == pxClient.pxWriteHandle \/ pxClient.pxReadHandle

FlagsReset ==
  [pxClient EXCEPT !.xTransferSocket = 0,
                   !.bEmptyFile = IF Socket = 0 THEN @ ELSE pxClient.ulRecvBytes = 0,
                   !.bIsListen = FALSE, !.bClientConnected = FALSE, !.bHadError = FALSE]

\* Mutant: the socket is forgotten instead of closed.
ClosingForgets ==
  /\ At("closing")
  /\ IF Finished THEN Replies(IF pxClient.bHadError THEN "451" ELSE "226") ELSE UNCHANGED talk
  /\ pxClient' = FlagsReset
  /\ Returns
  /\ UNCHANGED <<peer, cmd, xRc, sk, data>>

\* The final reply, the socket, the flags; pcConnectionAck is left as it is.
Closing ==
  /\ At("closing")
  /\ IF Finished THEN Replies(IF pxClient.bHadError THEN "451" ELSE "226") ELSE UNCHANGED talk
  /\ pxClient' = FlagsReset
  /\ sk' = IF Socket = 0 THEN sk ELSE [sk EXCEPT ![Socket].st = "freed"]
  /\ Returns
  /\ UNCHANGED <<peer, cmd, xRc, data>>

\* How many files prvTransferCloseFile closes.
Handles == (IF pxClient.pxWriteHandle THEN 1 ELSE 0) + (IF pxClient.pxReadHandle THEN 1 ELSE 0)
FileClosed == [pxClient EXCEPT !.pxWriteHandle = FALSE, !.pxReadHandle = FALSE, !.ulRecvBytes = 0]

CloseFile ==
  /\ At("closefile")
  /\ pxClient' = FileClosed
  /\ files' = files - Handles
  /\ Returns
  /\ UNCHANGED <<peer, cmd, xRc, sk, disk, uploaded, file, talk>>

\* prvTransferStart of an active data connection; without a socket, or on one
\* that was connected before, it fails and nobody looks.
Starts == sk' = IF St = "bound" THEN [sk EXCEPT ![Socket].st = "connecting"] ELSE sk

-----------------------------------------------------------------------------
(* STOR *)

\* ff_fopen fails, or the REST offset is beyond the end of the file.  (What had
\* arrived already is counted in the next transfer's ulRecvBytes.)
StorePrepFails ==
  /\ At("storprep")
  /\ pxClient' = [FileClosed EXCEPT !.ulRestartOffset = 0]
  /\ files' = files - Handles
  /\ talk' = [talk EXCEPT !.reply = "450", !.calm = @ /\ Rx = 0]
  /\ Calls(<<"stored">>)
  /\ UNCHANGED <<peer, cmd, xRc, sk, disk, uploaded, file>>

\* Mutant: the previous file is not closed first.
StorePrepKeepsFile ==
  /\ At("storprep")
  /\ pxClient' = [pxClient EXCEPT !.ulRecvBytes = 0, !.ulRestartOffset = 0,
                                  !.pcConnectionAck = pxClient.bIsListen]
  /\ files' = files + 1
  /\ uploaded' = 0
  /\ IF pxClient.bIsListen THEN UNCHANGED sk ELSE Starts
  /\ Calls((IF pxClient.bIsListen THEN <<"check">> ELSE <<>>) \o <<"setwrite", "stored">>)
  /\ UNCHANGED <<peer, cmd, xRc, disk, file, talk>>

\* prvStoreFilePrep: the handle is set after the check of the connection.
StorePrep ==
  /\ At("storprep")
  /\ pxClient' = [FileClosed EXCEPT !.ulRestartOffset = 0, !.pcConnectionAck = pxClient.bIsListen]
  /\ files' = files - Handles + 1
  /\ uploaded' = 0
  /\ IF pxClient.bIsListen THEN UNCHANGED sk ELSE Starts
  /\ Calls((IF pxClient.bIsListen THEN <<"check">> ELSE <<>>) \o <<"setwrite", "stored">>)
  /\ UNCHANGED <<peer, cmd, xRc, disk, file, talk>>

SetWrite ==
  /\ At("setwrite")
  /\ pxClient' = [pxClient EXCEPT !.pxWriteHandle = TRUE]
  /\ Returns
  /\ UNCHANGED <<peer, cmd, xRc, sk, data, talk>>

\* Mutant: a write that fails goes unnoticed.
StoreFileWorkUnchecked ==
  /\ At("store") /\ Rx > 0
  /\ LET written == IF ~pxClient.pxWriteHandle THEN 0 ELSE IF Rx <= disk THEN Rx ELSE disk
     IN disk' = disk - written /\ uploaded' = uploaded + written
  /\ pxClient' = [pxClient EXCEPT !.ulRecvBytes = @ + Rx]
  /\ sk' = [sk EXCEPT ![Socket].rx = 0]
  /\ UNCHANGED <<peer, cmd, stack, xRc, files, file, talk>>

\* prvStoreFileWork: all that has arrived is written and released ...
StoreFileWork ==
  /\ At("store") /\ Rx > 0
  /\ LET written == IF ~pxClient.pxWriteHandle THEN 0 ELSE IF Rx <= disk THEN Rx ELSE disk
     IN /\ disk' = disk - written
        /\ uploaded' = uploaded + written
        /\ IF written = Rx
           THEN /\ pxClient' = [pxClient EXCEPT !.ulRecvBytes = @ + Rx]
                /\ UNCHANGED <<stack, xRc>>
           ELSE /\ pxClient' = [pxClient EXCEPT !.ulRecvBytes = @ + Rx, !.bHadError = TRUE]
                /\ Returns /\ xRc' = -1
  /\ sk' = [sk EXCEPT ![Socket].rx = 0]
  /\ UNCHANGED <<peer, cmd, files, file, talk>>

\* ... until recv returns 0, or an error when the connection has ended.
StoreFileWorked ==
  /\ At("store") /\ Rx = 0
  /\ xRc' = IF St \in {"none", "closed"} THEN -1 ELSE 0
  /\ Returns
  /\ UNCHANGED <<peer, cmd, pxClient, sk, data, talk>>

-----------------------------------------------------------------------------
(* RETR *)

\* 450: ff_fopen fails, and an offset that REST has set is left for the next
\* transfer; or the offset is beyond the end of the file, or cannot be sought.
RetrievePrepFails ==
  /\ At("retrprep")
  /\ files' = files - Handles
  /\ \/ pxClient' = FileClosed /\ Refuses("450")
     \/ /\ pxClient.ulRestartOffset # 0
        /\ \E size \in {0, FileSize} :
             pxClient' = [FileClosed EXCEPT !.ulRestartOffset = 0, !.uxBytesLeft = size]
        /\ Replies("450")
  /\ Returns
  /\ UNCHANGED <<peer, cmd, xRc, sk, disk, uploaded, file>>

\* prvRetrieveFilePrep: uxBytesLeft is computed from the ulRestartOffset that
\* has just been reset.  The connection may be made while FreeRTOS_connect waits
\* for it: an empty file is then shut down with it.
RetrievePrep(size) ==
  /\ At("retrprep")
  /\ pxClient.ulRestartOffset < size \/ pxClient.ulRestartOffset = 0
  /\ pxClient' = [FileClosed EXCEPT !.ulRestartOffset = 0, !.uxBytesLeft = size,
                     !.pxReadHandle = TRUE,
                     !.pcConnectionAck = pxClient.bIsListen]
  /\ files' = files - Handles + 1
  /\ file' = [size |-> size, unread |-> size - pxClient.ulRestartOffset]
  /\ IF ~pxClient.bIsListen /\ St = "bound"
     THEN \/ sk' = [sk EXCEPT ![Socket].st = "connecting"]
          \/ size = 0 /\ sk' = [sk EXCEPT ![Socket].st = "estab", ![Socket].fin = TRUE]
     ELSE sk' = IF size = 0 /\ St = "estab" THEN [sk EXCEPT ![Socket].fin = TRUE] ELSE sk
  /\ Returns
  /\ UNCHANGED <<peer, cmd, xRc, disk, uploaded, talk>>

Space == Window - sk[Socket].tx
\* Mutant: the space of the stream is not regarded.
CountLeft == pxClient.uxBytesLeft
Count == IF pxClient.uxBytesLeft < Space THEN pxClient.uxBytesLeft ELSE Space

\* No space even after FreeRTOS_select: the rest is for a later round.
RetrieveWaits ==
  /\ At("retrieve")
  /\ Space = 0 /\ pxClient.uxBytesLeft > 0
  /\ xRc' = 0
  /\ Returns
  /\ UNCHANGED <<peer, cmd, pxClient, sk, data, talk>>

\* Fewer bytes are read than expected: at the end of the file, or by an error.
\* FreeRTOS_shutdown fails on a connection that is not there (any more).
RetrieveShort ==
  /\ At("retrieve") /\ Count > 0
  /\ IF file.unread < Count THEN UNCHANGED talk ELSE talk' = [talk EXCEPT !.calm = FALSE]
  /\ pxClient' = [pxClient EXCEPT !.uxBytesLeft = 0]
  /\ file' = [file EXCEPT !.unread = 0]
  /\ IF St = "estab"
     THEN sk' = [sk EXCEPT ![Socket].fin = TRUE] /\ Calls(<<"allsent">>) /\ UNCHANGED xRc
     ELSE xRc' = -1 /\ Returns /\ UNCHANGED sk
  /\ UNCHANGED <<peer, cmd, disk, files, uploaded>>

\* Mutant: without FREERTOS_SO_CLOSE_AFTER_SEND.
RetrieveSendsOpen ==
  /\ At("retrieve") /\ Count > 0
  /\ file.unread >= Count
  /\ St \in {"listen", "connecting", "estab", "lastack"}
  /\ file' = [file EXCEPT !.unread = @ - Count]
  /\ pxClient' = [pxClient EXCEPT !.uxBytesLeft = @ - Count, !.ulRecvBytes = @ + Count]
  /\ sk' = [sk EXCEPT ![Socket].tx = @ + Count]
  /\ IF Count = pxClient.uxBytesLeft THEN Calls(<<"allsent">>) ELSE UNCHANGED stack
  /\ UNCHANGED <<peer, cmd, xRc, disk, files, uploaded, talk>>

\* A chunk is read and given to FreeRTOS_send; the last one with
\* FREERTOS_SO_CLOSE_AFTER_SEND.
RetrieveSends ==
  /\ At("retrieve") /\ Count > 0
  /\ file.unread >= Count
  /\ St \in {"listen", "connecting", "estab", "lastack"}
  /\ file' = [file EXCEPT !.unread = @ - Count]
  /\ pxClient' = [pxClient EXCEPT !.uxBytesLeft = @ - Count, !.ulRecvBytes = @ + Count]
  /\ sk' = [sk EXCEPT ![Socket].tx = @ + Count,
                      ![Socket].fin = @ \/ Count = pxClient.uxBytesLeft]
  /\ IF Count = pxClient.uxBytesLeft THEN Calls(<<"allsent">>) ELSE UNCHANGED stack
  /\ UNCHANGED <<peer, cmd, xRc, disk, files, uploaded, talk>>

\* send fails when the connection has ended, or the stack has no memory.
RetrieveFails ==
  /\ At("retrieve") /\ Count > 0
  /\ file.unread >= Count
  /\ talk' = [talk EXCEPT !.calm = @ /\ St \notin {"connecting", "estab"}]
  /\ file' = [file EXCEPT !.unread = @ - Count]
  /\ pxClient' = [pxClient EXCEPT !.uxBytesLeft = @ - Count]
  /\ xRc' = -1
  /\ Returns
  /\ UNCHANGED <<peer, cmd, sk, disk, files, uploaded>>

RetrieveAllSent ==
  /\ At("retrieve") /\ pxClient.uxBytesLeft = 0
  /\ Calls(<<"allsent">>)
  /\ UNCHANGED <<peer, cmd, xRc, pxClient, sk, data, talk>>

\* Mutant: the transfer is over when the last block has been given to the stack.
AllSentAtOnce ==
  /\ At("allsent")
  /\ xRc' = -1
  /\ Returns
  /\ UNCHANGED <<peer, cmd, pxClient, sk, data, talk>>

\* recv shows by its error that the peer has got everything and closed.
AllSent ==
  /\ At("allsent")
  /\ xRc' = IF St = "closed" THEN -1 ELSE 0
  /\ Returns
  /\ UNCHANGED <<peer, cmd, pxClient, sk, data, talk>>

-----------------------------------------------------------------------------
(* Specification *)

Init ==
  /\ peer = TRUE /\ cmd = "none" /\ stack = <<"recv">> /\ xRc = 0
  /\ pxClient = [xTransferSocket |-> 0, bIsListen |-> FALSE, bClientConnected |-> FALSE,
                 bHadError |-> FALSE, bEmptyFile |-> FALSE, pcConnectionAck |-> FALSE,
                 pxReadHandle |-> FALSE, pxWriteHandle |-> FALSE,
                 ulRestartOffset |-> 0, uxBytesLeft |-> 0, ulRecvBytes |-> 0]
  /\ sk = [s \in Sock |-> [st |-> "none", rx |-> 0, tx |-> 0, fin |-> FALSE,
                           sent |-> 0, got |-> 0]]
  /\ disk = Disk /\ files = 0 /\ uploaded = 0 /\ file = [size |-> 0, unread |-> 0]
  /\ talk = [op |-> "none", cur |-> 0, offer |-> 0, reply |-> "none", calm |-> TRUE,
             asked |-> 0, rest |-> 0]

Server ==
  \/ Recv \/ Data \/ Work \/ Worked \/ Delete
  \/ Pasv \/ Port \/ PortNoSocket \/ Rest \/ Size \/ Stored
  \/ \E listen \in BOOLEAN : TransferConnect(listen)
  \/ \E l \in {"retr", "stor"} : NoDataConnection(l)
  \/ Transfer("retr", <<"retrprep">>) \/ Transfer("stor", <<"storprep">>)
  \/ Check \/ Accept("accept") \/ Accept("acceptrx") \/ Ack \/ Drained
  \/ Close \/ Close2 \/ Closing \/ CloseFile
  \/ StorePrep \/ StorePrepFails \/ SetWrite \/ StoreFileWork \/ StoreFileWorked
  \/ RetrievePrepFails \/ \E size \in {0, FileSize} : RetrievePrep(size)
  \/ RetrieveWaits \/ RetrieveShort \/ RetrieveSends \/ RetrieveFails \/ RetrieveAllSent
  \/ AllSent

Peer == (\E c \in Commands : PeerCommand(c)) \/ PeerLeaves

Net(s) == PeerConnects(s) \/ PeerRefuses(s) \/ PeerSends(s) \/ PeerReads(s)
          \/ PeerCloses(s) \/ StackCloses(s)

Next == Server \/ Peer \/ \E s \in Sock : Net(s)

Spec == Init /\ [][Next]_vars

\* The server task runs; a peer that is offered a connection makes it and
\* reads what it is sent; a connection that is closed on both sides ends.
FairSpec ==
  /\ Spec /\ WF_vars(Server)
  /\ \A s \in Sock : WF_vars(PeerConnects(s)) /\ WF_vars(PeerReads(s)) /\ WF_vars(StackCloses(s))

-----------------------------------------------------------------------------
(* Properties *)

\* Type invariant of the session.
TypeOK ==
  /\ peer \in BOOLEAN /\ cmd \in Commands \cup {"none"} /\ stack \in Seq(Labels) /\ xRc \in {-1, 0}
  /\ pxClient \in [xTransferSocket : Sock \cup {0}, bIsListen : BOOLEAN,
                   bClientConnected : BOOLEAN, bHadError : BOOLEAN, bEmptyFile : BOOLEAN,
                   pcConnectionAck : BOOLEAN, pxReadHandle : BOOLEAN, pxWriteHandle : BOOLEAN,
                   ulRestartOffset : 0..FileSize, uxBytesLeft : 0..FileSize, ulRecvBytes : Nat]
  /\ sk \in [Sock -> [st : {"none", "bound", "listen", "connecting", "estab", "lastack",
                            "closed", "freed"},
                      rx : 0..Window, tx : 0..Window, fin : BOOLEAN, sent : 0..MaxSend, got : Nat]]
  /\ disk \in 0..Disk /\ files \in Int /\ uploaded \in Nat
  /\ file \in [size : {0, FileSize}, unread : 0..FileSize]
  /\ talk \in [op : {"none", "retr", "stor"}, cur : Sock \cup {0}, offer : Sock \cup {0},
               reply : {"none", "226", "425", "450", "451"}, calm : BOOLEAN,
               asked : -1..FileSize, rest : -1..FileSize]

\* Whatever the order of the commands and of the ends of the connections, every
\* file that was opened is the one a handle of the session stands for, or the
\* one prvStoreFilePrep is about to put into pxWriteHandle; at most one is open.
FilesOwned ==
  LET opening == IF \E i \in DOMAIN stack : stack[i] = "setwrite" THEN 1 ELSE 0
  IN files = Handles + opening /\ files <= 1

\* A patient peer whose upload is answered by 226 has ended the connection, and
\* all that arrived on it is in the file, however the arrival of the data, the
\* end of the connection and the STOR command were ordered.
StoredIsSent ==
  (talk.calm /\ talk.op = "stor" /\ talk.reply = "226") =>
    /\ uploaded = sk[talk.cur].sent
    /\ sk[talk.cur].st # "estab"

\* A peer that kept the connection of a download open has the whole file when
\* 226 comes, if nothing failed underneath: reading the file, or giving a chunk
\* to a connection.  Not a download that REST asked to be from an offset, nor
\* the first one after another that was refused and had one, which is still set.
RetrievedWhole ==
  (talk.calm /\ talk.op = "retr" /\ talk.reply = "226" /\ talk.rest = 0) =>
    sk[talk.cur].got = file.size

\* A patient peer's data sockets are closed before another one is made, and at
\* the end of the session.
SocketsOwned ==
  talk.calm =>
    \A s \in Sock : sk[s].st \notin {"none", "freed"} => Socket = s /\ stack # <<>>

\* An upload whose connection has ended is answered, unless the disk is full.
StoreEnds ==
  (peer /\ Waiting /\ talk.op = "stor" /\ talk.calm /\ sk[talk.cur].st = "lastack")
    ~> (~peer \/ ~Waiting \/ ~talk.calm \/ disk = 0)

\* The download of a file that is not empty ends, whatever the order in which
\* the connection is made, the command comes and the blocks are read.
RetrieveEnds ==
  (peer /\ Waiting /\ talk.calm /\ pxClient.pxReadHandle /\ file.size > 0)
    ~> (~peer \/ ~Waiting \/ ~talk.calm)

\* "350 Restarting at %lu. Send STORE or RETRIEVE" (prvProcessCommand,
\* FreeRTOS_FTP_server.c:596): a download restarted at an offset brings the
\* rest of the file.
RestartDelivers ==
  (talk.calm /\ talk.op = "retr" /\ talk.reply = "226" /\ talk.rest > 0) =>
    sk[talk.cur].got = file.size - talk.rest
=============================================================================
