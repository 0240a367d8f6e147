----------------------------- MODULE FtpSession -----------------------------
(***************************************************************************)
(* The sessions of the FTP server (protocols/FTP/FreeRTOS_FTP_server.c):   *)
(* login, the commands on files and directories, renaming in two commands, *)
(* and the listing of a directory over a data connection, of several       *)
(* clients that share one file system.                                     *)
(*                                                                         *)
(* One task serves all sessions, so a command, and one round of work on a  *)
(* data connection, is a step.  The file system, which other tasks change  *)
(* too, is a function from paths, sequences of names, to what is there.    *)
(* STOR and RETR, and data connections in detail, are module FtpTransfer's.*)
(***************************************************************************)
EXTENDS Integers, FiniteSets, Sequences, SequencesExt

CONSTANTS Clients,
          Paths,  \* bound: the paths there are, sequences of names
          Does    \* bound: the commands that each client uses

Commands == {"user", "pass", "quit", "plain", "nullarg", "cwd", "cdup", "rnfr", "rnto", "dele",
             "stat", "mkd", "rmd", "pasv", "port", "list"}

Root   == <<>>
NoPath == <<"nowhere">>

ASSUME SessionAssumption ==
  /\ Does \in [Clients -> SUBSET Commands]
  /\ IsFiniteSet(Paths) /\ Paths \subseteq Seq(UNION {ToSet(p) : p \in Paths})
  /\ Root \notin Paths /\ NoPath \notin Paths /\ \A p \in Paths : Front(p) \in Paths \cup {Root}

VARIABLES
  pxClient,  \* per client, the session fields of its FTPClient_t
  conn,      \* per client, the data connection: its socket and the flags on it
  tree,      \* the file system: what is at each path
  named,     \* history: what the client has named for renaming, by a RNFR just before
  renamed,   \* history: its last command was a RNTO that renamed something
  talk       \* history: per client, the listing as the client sees it

vars == <<pxClient, conn, tree, named, renamed, talk>>

-----------------------------------------------------------------------------
(* The file system, as +FAT answers the calls made of it.  Any call may also
   fail for a reason of its own: a file that is open, a disk that is read-only
   or does not answer. *)

At(t, p)      == IF p = Root THEN "dir" ELSE IF p \in Paths THEN t[p] ELSE "none"
Below(d)      == {p \in Paths : Len(p) > Len(d) /\ SubSeq(p, 1, Len(d)) = d}
Children(t, d) == {p \in Below(d) : Len(p) = Len(d) + 1 /\ t[p] # "none"}

\* The entries of a directory; every one but the root has one for itself.
Entries(t, d) == IF At(t, d) # "dir" THEN {}
                 ELSE Children(t, d) \cup (IF d = Root THEN {} ELSE {d})

\* ff_rename without replacing: a directory takes what is in it along (bound:
\* to a place that has names for that).
Moved(t, from, to) ==
  [p \in Paths |-> IF p = to THEN t[from]
                   ELSE IF p \in Below(to) /\ t[from] = "dir"
                   THEN At(t, from \o SubSeq(p, Len(to) + 1, Len(p)))
                   ELSE IF p = from \/ p \in Below(from) THEN "none" ELSE t[p]]
Renames(t, from, to) ==
  /\ At(t, from) # "none" /\ At(t, to) = "none" /\ At(t, Front(to)) = "dir"
  /\ ~IsPrefix(from, to)
  /\ \A p \in Below(from) : t[p] # "none" => to \o SubSeq(p, Len(from) + 1, Len(p)) \in Paths

\* Every change of the files: a listing that is under way can only be expected
\* to have the entries that are there all the time.
Becomes(t) ==
  /\ tree' = t
  /\ talk' = [c \in Clients |->
                [talk[c] EXCEPT !.there = {p \in @ : At(t, p) # "none"}]]

NoSession ==
  [bStatusUser |-> FALSE, bLoggedIn |-> FALSE, bInRename |-> FALSE,
   pcCurrentDir |-> Root, pcFileName |-> NoPath]
NoConn ==
  [st |-> "none", bIsListen |-> FALSE, bClientConnected |-> FALSE, bDirHasEntry |-> FALSE,
   pcConnectionAck |-> FALSE, xDirCount |-> 0, dir |-> Root, found |-> Root, seen |-> {},
   fin |-> FALSE]
NoTalk ==
  [list |-> "none", calm |-> TRUE, broken |-> FALSE,
   lines |-> {}, sent |-> 0, there |-> {}, told |-> 0]

Init ==
  /\ pxClient = [c \in Clients |-> NoSession]
  /\ conn = [c \in Clients |-> NoConn]
  /\ tree \in {t \in [Paths -> {"none", "file", "dir"}] :
                 \A p \in Paths : t[p] # "none" => At(t, Front(p)) = "dir"}
  /\ named = [c \in Clients |-> NoPath] /\ renamed = [c \in Clients |-> FALSE]
  /\ talk = [c \in Clients |-> NoTalk]

\* Other tasks write to the file system too, the TFTP server's for one.
OtherWrites ==
  \E p \in Paths :
    /\ tree[p] = "none" /\ At(tree, Front(p)) = "dir"
    /\ Becomes([tree EXCEPT ![p] = "file"])
    /\ UNCHANGED <<pxClient, conn, named, renamed>>

-----------------------------------------------------------------------------
(* prvProcessCommand *)

\* xMakeAbsolute, with an empty pcRootDir: a path that begins with "/" is taken
\* as it is, another one is appended to the current directory.
xMakeAbsolute(c, p, absolute) == IF absolute THEN p ELSE pxClient[c].pcCurrentDir \o p

\* The paths a client's argument may come to: one it can spell in either way.
Arguments(c) ==
  {p \in Paths : \E q \in Paths \cup {<<Last(r)>> : r \in Paths}, b \in BOOLEAN : xMakeAbsolute(c, q, b) = p}

\* A command that needs a login is carried out.
Command(c, cmd) == cmd \in Does[c] /\ pxClient[c].bLoggedIn

\* Mutant: a name given for renaming is not taken back.
RenameStays(px) == px

\* The end of prvProcessCommand: any command but RNFR takes back a name that
\* was given for renaming.
RenameEnds(px) == [px EXCEPT !.bInRename = FALSE]

Session(c, px) == pxClient' = [pxClient EXCEPT ![c] = px]
\* What the client has said, in its own terms: only RNFR names something.
Names(c, p)      == named' = [named EXCEPT ![c] = p]
Renamed(c, done) == renamed' = [renamed EXCEPT ![c] = done]
NamesNothing(c)  == Names(c, NoPath) /\ Renamed(c, FALSE)
FileName(c, p) == [pxClient[c] EXCEPT !.pcFileName = p]

\* Bound: a client does not log in again while it is logged in.
User(c) ==
  /\ "user" \in Does[c] /\ ~pxClient[c].bLoggedIn
  /\ Session(c, RenameEnds([pxClient[c] EXCEPT !.bStatusUser = TRUE]))
  /\ NamesNothing(c)
  /\ UNCHANGED <<conn, tree, talk>>

\* Without a hook any password will do, but only after USER.
Pass(c) ==
  /\ "pass" \in Does[c]
  /\ Session(c, RenameEnds(IF pxClient[c].bStatusUser
                           THEN [pxClient[c] EXCEPT !.bStatusUser = FALSE, !.bLoggedIn = TRUE,
                                                    !.pcCurrentDir = Root]
                           ELSE pxClient[c]))
  /\ NamesNothing(c)
  /\ UNCHANGED <<conn, tree, talk>>

\* QUIT ends the login, not the connection.
Quit(c) ==
  /\ Command(c, "quit")
  /\ Session(c, RenameEnds([pxClient[c] EXCEPT !.bLoggedIn = FALSE]))
  /\ NamesNothing(c)
  /\ UNCHANGED <<conn, tree, talk>>

\* A command without an effect here: SYST, PWD, REST, NOOP, TYPE, SITE, FEAT,
\* one that is unknown or has no case, and one that needs a login that is not
\* there (530).
Plain(c) ==
  /\ "plain" \in Does[c]
  /\ Session(c, RenameEnds(pxClient[c]))
  /\ NamesNothing(c)
  /\ UNCHANGED <<conn, tree, talk>>

\* A command without its parameter (501).  RNFR is still RNFR.
NullArg(c, rnfr) ==
  /\ Command(c, "nullarg")
  /\ Session(c, IF rnfr THEN pxClient[c] ELSE RenameEnds(pxClient[c]))
  /\ IF rnfr THEN Renamed(c, FALSE) /\ UNCHANGED named ELSE NamesNothing(c)
  /\ UNCHANGED <<conn, tree, talk>>

\* prvChangeDir: the directory must be found, unless it is the root.  Bound: a
\* client stays where it is while it waits for a listing.
ChangeDir(c, p) ==
  /\ talk[c].list # "wait"
  /\ \/ At(tree, p) = "dir" /\ Session(c, RenameEnds([pxClient[c] EXCEPT !.pcCurrentDir = p]))
     \/ p # Root /\ Session(c, RenameEnds(pxClient[c]))
  /\ NamesNothing(c)
  /\ UNCHANGED <<conn, tree, talk>>
Cwd(c)  == Command(c, "cwd") /\ \E p \in Arguments(c) \cup {Root} : ChangeDir(c, p)
\* ".." cuts the last name off; at the root it stays there.
Cdup(c) == Command(c, "cdup")
             /\ LET d == pxClient[c].pcCurrentDir IN ChangeDir(c, IF d = Root THEN Root ELSE Front(d))

\* prvRenameFrom: the name is stored, and accepted if ff_fopen finds a file or
\* a directory.  A name that is refused does not take back an earlier one's flag.
RenameFrom(c) ==
  /\ Command(c, "rnfr")
  /\ \E p \in Arguments(c), found \in BOOLEAN :
       /\ found => tree[p] # "none"
       /\ Session(c, [FileName(c, p) EXCEPT !.bInRename = @ \/ found])
       /\ Names(c, p) /\ Renamed(c, FALSE)
  /\ UNCHANGED <<conn, tree, talk>>

\* prvRenameTo: ff_rename of the stored name, or one of the replies 450, 451,
\* 553; without RNFR before it 503.
RenameTo(c) ==
  /\ Command(c, "rnto")
  /\ Session(c, RenameEnds(pxClient[c]))
  /\ Names(c, NoPath)
  /\ \/ \E to \in Arguments(c) :
          /\ pxClient[c].bInRename
          /\ Renames(tree, pxClient[c].pcFileName, to)
          /\ Becomes(Moved(tree, pxClient[c].pcFileName, to))
          /\ Renamed(c, TRUE)
     \/ Renamed(c, FALSE) /\ UNCHANGED <<tree, talk>>
  /\ UNCHANGED conn

\* prvDeleteFile: the file goes, or one of the replies 521.
DeleteFile(c) ==
  /\ Command(c, "dele")
  /\ \E p \in Arguments(c) :
       /\ Session(c, RenameEnds(FileName(c, p)))
       /\ \/ tree[p] = "file" /\ Becomes([tree EXCEPT ![p] = "none"])
          \/ UNCHANGED <<tree, talk>>
  /\ NamesNothing(c)
  /\ UNCHANGED conn

\* prvSizeDateFile (SIZE, MDTM) only asks.
SizeDateFile(c) ==
  /\ Command(c, "stat")
  /\ \E p \in Arguments(c) : Session(c, RenameEnds(FileName(c, p)))
  /\ NamesNothing(c)
  /\ UNCHANGED <<conn, tree, talk>>

\* prvMakeRemoveDir: a directory is made where nothing is, and removed when
\* nothing is in it; or one of the replies 521 and 552.
MakeRemoveDir(c, remove) ==
  /\ Command(c, IF remove THEN "rmd" ELSE "mkd")
  /\ \E p \in Arguments(c) :
       /\ Session(c, RenameEnds(FileName(c, p)))
       /\ \/ /\ remove /\ tree[p] = "dir" /\ Children(tree, p) = {}
             /\ Becomes([tree EXCEPT ![p] = "none"])
          \/ /\ ~remove /\ tree[p] = "none" /\ At(tree, Front(p)) = "dir"
             /\ Becomes([tree EXCEPT ![p] = "dir"])
          \/ UNCHANGED <<tree, talk>>
  /\ NamesNothing(c)
  /\ UNCHANGED conn

-----------------------------------------------------------------------------
(* The data connection and the listing of a directory *)

\* prvTransferCloseSocket, without a file; pcConnectionAck is left as it is.
\* (What is left of an earlier search and its count, which the next LIST
\* resets, is not kept.)
Closed(k) == [NoConn EXCEPT !.pcConnectionAck = k.pcConnectionAck]

\* prvTransferCheck: a connection is noticed - a passive one even if it has
\* ended since -, the pending 150 is sent, and the end of a connection closes
\* the socket.
Connected(k) == k.bClientConnected \/ k.st = "estab" \/ (k.bIsListen /\ k.st = "closed")
Checked(k) ==
  IF k.st = "none" \/ ~Connected(k) THEN k
  ELSE LET known == [k EXCEPT !.bClientConnected = TRUE, !.pcConnectionAck = FALSE]
       IN IF k.st = "estab" THEN known ELSE Closed(known)

\* PASV and PORT: the previous data socket goes, and a listing on it with it.
DataSocket(c, listen) ==
  /\ Command(c, IF listen THEN "pasv" ELSE "port")
  /\ conn' = [conn EXCEPT ![c] = [Closed(@) EXCEPT !.st = IF listen THEN "listen" ELSE "bound",
                                                   !.bIsListen = listen]]
  /\ Session(c, RenameEnds(pxClient[c]))
  /\ talk' = [talk EXCEPT ![c] = [NoTalk EXCEPT !.list = "offered"]]
  /\ NamesNothing(c)
  /\ UNCHANGED tree

\* ff_findfirst: the entry found is kept for the first line.
FindFirst(k, d, e) ==
  [k EXCEPT !.dir = d, !.found = e, !.seen = {e}, !.bDirHasEntry = TRUE, !.xDirCount = 0]
FindNothing(k, count) == [k EXCEPT !.bDirHasEntry = FALSE, !.xDirCount = count]

\* prvListSendPrep, after the 150: it is pending until the connection of PASV
\* is there, for PORT it is sent and the connection begun.
Ack(k) == IF k.bIsListen THEN [k EXCEPT !.pcConnectionAck = TRUE]
          ELSE [k EXCEPT !.pcConnectionAck = FALSE,
                         !.st = IF @ = "bound" THEN "connecting" ELSE @]

\* LIST, which a client sends once on each data connection it was offered.
\* Without a data socket 425.  Of an empty root only "total 0" is sent, and no
\* final reply; ff_findfirst may fail, in a directory that is gone or for
\* another reason (451).
List(c) ==
  LET k  == Checked(conn[c])
      d  == pxClient[c].pcCurrentDir
      es == Entries(tree, d)
  IN /\ Command(c, "list")
     /\ talk[c].list = "offered" \/ (talk[c].list = "none" /\ conn[c].st = "none")
     /\ Session(c, RenameEnds(pxClient[c]))
     /\ \/ /\ conn[c].st = "none"
           /\ talk' = [talk EXCEPT ![c].list = "425"]
           /\ UNCHANGED conn
        \/ /\ conn[c].st # "none" /\ es = {} /\ At(tree, d) = "dir"
           /\ conn' = [conn EXCEPT ![c] = FindNothing(Ack(k), 1)]
           /\ talk' = [talk EXCEPT ![c].list = "total"]
        \/ /\ conn[c].st # "none"
           /\ conn' = [conn EXCEPT ![c] = FindNothing(Ack(k), 0)]
           /\ talk' = [talk EXCEPT ![c].list = "451"]
        \/ /\ conn[c].st # "none"
           /\ \E e \in es : conn' = [conn EXCEPT ![c] = FindFirst(Ack(k), d, e)]
           /\ talk' = [talk EXCEPT ![c].list = "wait", ![c].there = es]
     /\ NamesNothing(c)
     /\ UNCHANGED tree

\* One line of prvListSendWork: the entry found before is sent, and the next
\* one, if any, is found.  Entries that came or went meanwhile may be found or
\* not.  After the last line the connection is to close, and 226 counts them.
NextEntries(c, k) == Entries(tree, k.dir) \ k.seen

LineSent(c, k) ==
  [talk EXCEPT ![c].lines = @ \cup {k.found}, ![c].sent = @ + 1]

\* Mutant: the last line is sent, the reply left to a round that is not made.
ListEndSilent(c, k) ==
  /\ NextEntries(c, k) \cap talk[c].there = {}
  /\ conn' = [conn EXCEPT ![c] = [k EXCEPT !.xDirCount = @ + 1, !.bDirHasEntry = FALSE]]
  /\ talk' = LineSent(c, k)

\* Mutant: the last line is counted and not sent.
ListEndUnsent(c, k) ==
  /\ NextEntries(c, k) \cap talk[c].there = {}
  /\ conn' = [conn EXCEPT ![c] = [k EXCEPT !.xDirCount = @ + 1, !.bDirHasEntry = FALSE,
                                           !.fin = TRUE]]
  /\ talk' = [talk EXCEPT ![c].list = "226", ![c].told = k.xDirCount + 1]

LastLine(c, k, broken) ==
  /\ conn' = [conn EXCEPT ![c] = [k EXCEPT !.xDirCount = @ + 1, !.bDirHasEntry = FALSE,
                                           !.fin = TRUE]]
  /\ talk' = [LineSent(c, k) EXCEPT ![c].list = "226", ![c].told = k.xDirCount + 1,
                                    ![c].broken = broken]

ListEnd(c, k) == NextEntries(c, k) \cap talk[c].there = {} /\ LastLine(c, k, FALSE)

\* ff_findnext fails otherwise than at the end of the directory: that is logged,
\* and the listing ends as if it were complete.
ListBreaks(c, k) == LastLine(c, k, TRUE)

\* Mutant: the search is begun again, with ff_findfirst.
ListLineAgain(c, k) ==
  /\ NextEntries(c, k) # {}
  /\ \E e \in Entries(tree, k.dir) :
       conn' = [conn EXCEPT ![c] = [k EXCEPT !.xDirCount = @ + 1, !.found = e, !.seen = {e}]]
  /\ talk' = LineSent(c, k)

ListLine(c, k) ==
  \E e \in NextEntries(c, k) :
    /\ conn' = [conn EXCEPT ![c] = [k EXCEPT !.xDirCount = @ + 1, !.found = e, !.seen = @ \cup {e}]]
    /\ talk' = LineSent(c, k)

\* xFTPClientWork on the data connection: its changes, and a line if there is
\* space for one and the acknowledgement has been sent.  (The history of a
\* listing ends with its data connection.)
ClientWork(c) ==
  LET k == Checked(conn[c])
  IN /\ conn[c].st # "none"
     /\ \/ /\ conn' = [conn EXCEPT ![c] = k]
           /\ talk' = IF k.st = "none" /\ talk[c].list = "226" THEN [talk EXCEPT ![c] = NoTalk]
                      ELSE talk
        \/ /\ k.bDirHasEntry /\ k.bClientConnected /\ ~k.pcConnectionAck
           /\ ListLine(c, k) \/ ListEnd(c, k) \/ ListBreaks(c, k)
     /\ UNCHANGED <<pxClient, tree, named, renamed>>

\* The control connection ends: vFTPClientDelete, and a new client in its place.
Delete(c) ==
  /\ pxClient' = [pxClient EXCEPT ![c] = NoSession]
  /\ conn' = [conn EXCEPT ![c] = NoConn]
  /\ talk' = [talk EXCEPT ![c] = NoTalk]
  /\ NamesNothing(c)
  /\ UNCHANGED tree

-----------------------------------------------------------------------------
(* The peer of a data connection, and the stack *)

PeerConnects(c) ==
  /\ conn[c].st \in {"listen", "connecting"}
  /\ conn' = [conn EXCEPT ![c].st = "estab"]
  /\ UNCHANGED <<pxClient, tree, named, renamed, talk>>

\* The peer refuses the connection, or gives it up.
PeerCloses(c) ==
  /\ conn[c].st \in {"connecting", "estab"}
  /\ conn' = [conn EXCEPT ![c].st = "closed"]
  /\ talk' = [talk EXCEPT ![c].calm = FALSE]
  /\ UNCHANGED <<pxClient, tree, named, renamed>>

\* FREERTOS_SO_CLOSE_AFTER_SEND: when all has been sent.
StackCloses(c) ==
  /\ conn[c].st = "estab" /\ conn[c].fin
  /\ conn' = [conn EXCEPT ![c].st = "closed"]
  /\ UNCHANGED <<pxClient, tree, named, renamed, talk>>

-----------------------------------------------------------------------------
(* Specification *)

ProcessCommand(c) ==
  \/ User(c) \/ Pass(c) \/ Quit(c) \/ Plain(c) \/ (\E rnfr \in BOOLEAN : NullArg(c, rnfr))
  \/ Cwd(c) \/ Cdup(c) \/ RenameFrom(c) \/ RenameTo(c) \/ DeleteFile(c) \/ SizeDateFile(c)
  \/ (\E remove \in BOOLEAN : MakeRemoveDir(c, remove))
  \/ (\E listen \in BOOLEAN : DataSocket(c, listen)) \/ List(c)

Next ==
  \/ OtherWrites
  \/ \E c \in Clients : \/ ProcessCommand(c) \/ ClientWork(c) \/ Delete(c)
                        \/ PeerConnects(c) \/ PeerCloses(c) \/ StackCloses(c)

Spec == Init /\ [][Next]_vars

\* The server task works on every session in turn, and a peer makes the data
\* connection it was offered and reads from it.
FairSpec == Spec /\ \A c \in Clients : WF_vars(ClientWork(c)) /\ WF_vars(PeerConnects(c))

-----------------------------------------------------------------------------
(* Properties *)

\* Type invariant; a listing has no more entries than the directory can have.
TypeOK ==
  /\ pxClient \in [Clients -> [bStatusUser : BOOLEAN, bLoggedIn : BOOLEAN, bInRename : BOOLEAN,
                               pcCurrentDir : Paths \cup {Root}, pcFileName : Paths \cup {NoPath}]]
  /\ tree \in [Paths -> {"none", "file", "dir"}]
  /\ conn \in [Clients -> [st : {"none", "listen", "bound", "connecting", "estab", "closed"},
                           bIsListen : BOOLEAN, bClientConnected : BOOLEAN, bDirHasEntry : BOOLEAN,
                           pcConnectionAck : BOOLEAN, xDirCount : 0..(Cardinality(Paths) + 1),
                           dir : Paths \cup {Root}, found : Paths \cup {Root},
                           seen : SUBSET (Paths \cup {Root}), fin : BOOLEAN]]

\* Renaming takes two commands (prvRenameFrom, prvRenameTo), and the name given
\* first is kept in pcFileName, where most other commands put theirs: what a
\* client renames is what it named for that with the RNFR just before, whatever
\* commands, refused ones and those of other sessions come between.
RenamesWhatWasNamed ==
  [][\A c \in Clients :
       renamed'[c] /\ ~renamed[c] =>
         /\ named[c] # NoPath
         /\ \E to \in Paths : tree' = Moved(tree, named[c], to)]_vars

\* A listing sent in many rounds, while other sessions change the directory: the
\* 226 counts the lines that were sent, and every entry that was there from LIST
\* to 226 has its line - unless ff_findnext failed (talk.broken), after which the
\* code sends the same 226.
ListComplete ==
  \A c \in Clients :
    talk[c].list = "226" => /\ talk[c].told = talk[c].sent
                            /\ ~talk[c].broken => talk[c].there \subseteq talk[c].lines

\* A LIST on a directory with entries is answered in the end if the peer keeps
\* its data connection, whether that is made before the command or after it.
ListEnds ==
  \A c \in Clients :
    (talk[c].list = "wait" /\ talk[c].calm) ~> (talk[c].list # "wait" \/ ~talk[c].calm)
=============================================================================
