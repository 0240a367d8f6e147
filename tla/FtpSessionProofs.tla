-------------------------- MODULE FtpSessionProofs --------------------------
(***************************************************************************)
(* For any number of clients, any paths and any commands: a client renames *)
(* what it named; and a listing, sent in many rounds, is complete whatever *)
(* other sessions and tasks do to the files meanwhile.  The latter needs   *)
(* that every change of the files leaves a tree, a rename of a directory   *)
(* and of all that is in it among them.                                    *)
(***************************************************************************)
EXTENDS FtpSession, WellFoundedInduction, FiniteSetTheorems, SequenceTheorems, TLAPS

\* While a session is in a renaming, pcFileName is what its client has named
\* for it: no command that puts another name there leaves the flag set.
NamedInv ==
  /\ pxClient \in [Clients -> [bStatusUser : BOOLEAN, bLoggedIn : BOOLEAN, bInRename : BOOLEAN,
                               pcCurrentDir : Paths \cup {Root},
                               pcFileName : Paths \cup {NoPath}]]
  /\ named \in [Clients -> Paths \cup {NoPath}]
  /\ renamed \in [Clients -> BOOLEAN]
  /\ \A c \in Clients : pxClient[c].bInRename =>
       pxClient[c].pcFileName \in Paths /\ named[c] = pxClient[c].pcFileName

LEMMA NamedInit == Init => NamedInv
BY DEF Init, NamedInv, NoSession, Root

\* A command that ends the renaming of its session keeps the invariant,
\* whatever else it does to the session.
LEMMA EndsKeeps ==
  ASSUME NamedInv, NEW c \in Clients, NEW px \in [bStatusUser : BOOLEAN, bLoggedIn : BOOLEAN,
                      bInRename : BOOLEAN, pcCurrentDir : Paths \cup {Root},
                      pcFileName : Paths \cup {NoPath}],
         Session(c, RenameEnds(px)), NamesNothing(c)
  PROVE  NamedInv'
BY DEF NamedInv, Session, RenameEnds, NamesNothing, Names, Renamed

\* Only RNFR, in either form, and RNTO do more than that.
LEMMA NamedStep == NamedInv /\ [Next]_vars => NamedInv'
<1> SUFFICES ASSUME NamedInv, [Next]_vars PROVE NamedInv'
  OBVIOUS
<1> USE DEF NamedInv
<1> DEFINE Sess == [bStatusUser : BOOLEAN, bLoggedIn : BOOLEAN, bInRename : BOOLEAN,
                    pcCurrentDir : Paths \cup {Root}, pcFileName : Paths \cup {NoPath}]
<1>1. ASSUME NEW c \in Clients, ProcessCommand(c) PROVE NamedInv'
  <2>0. pxClient[c] \in Sess /\ \A p \in Paths : FileName(c, p) \in Sess
    BY DEF FileName
  <2>1. CASE User(c)
    BY <2>0, <2>1, EndsKeeps DEF User
  <2>2. CASE Pass(c)
    <3> DEFINE in == [pxClient[c] EXCEPT !.bStatusUser = FALSE, !.bLoggedIn = TRUE,
                                         !.pcCurrentDir = Root]
    <3>1. in \in Sess
      BY <2>0
    <3>2. PICK px \in Sess : Session(c, RenameEnds(px)) /\ NamesNothing(c)
      BY <2>0, <2>2, <3>1 DEF Pass
    <3> QED BY <3>2, EndsKeeps
  <2>3. CASE Quit(c)
    BY <2>0, <2>3, EndsKeeps DEF Quit
  <2>4. CASE Plain(c)
    BY <2>0, <2>4, EndsKeeps DEF Plain
  <2>5. CASE \E rnfr \in BOOLEAN : NullArg(c, rnfr)
    <3>1. CASE NullArg(c, TRUE)
      BY <3>1 DEF NullArg, Session, Renamed
    <3>2. CASE NullArg(c, FALSE)
      BY <2>0, <3>2, EndsKeeps DEF NullArg
    <3> QED BY <2>5, <3>1, <3>2
  <2>6. ASSUME NEW p \in Paths \cup {Root}, ChangeDir(c, p) PROVE NamedInv'
    <3>1. [pxClient[c] EXCEPT !.pcCurrentDir = p] \in Sess
      BY <2>0
    <3> QED BY <2>0, <2>6, <3>1, EndsKeeps DEF ChangeDir
  <2>7. CASE Cwd(c)
    BY <2>6, <2>7 DEF Cwd, Arguments
  <2>8. CASE Cdup(c)
    <3>1. pxClient[c].pcCurrentDir # Root => Front(pxClient[c].pcCurrentDir) \in Paths \cup {Root}
      BY SessionAssumption
    <3> QED BY <2>6, <2>8, <3>1 DEF Cdup
  <2>9. CASE RenameFrom(c)
    <3> PICK p \in Paths, found \in BOOLEAN :
               /\ Session(c, [FileName(c, p) EXCEPT !.bInRename = @ \/ found])
               /\ Names(c, p) /\ Renamed(c, FALSE)
      BY <2>9 DEF RenameFrom, Arguments
    <3> DEFINE px == [FileName(c, p) EXCEPT !.bInRename = @ \/ found]
    <3>1. px \in Sess /\ px.pcFileName = p
      BY <2>0 DEF FileName
    <3> HIDE DEF px
    <3>2. pxClient' = [pxClient EXCEPT ![c] = px]
      BY DEF Session, px
    <3> QED BY <3>1, <3>2 DEF Names, Renamed
  <2>10. CASE RenameTo(c)
    BY <2>0, <2>10 DEF RenameTo, Session, RenameEnds, Names, Renamed
  <2>11. CASE DeleteFile(c)
    BY <2>0, <2>11, EndsKeeps DEF DeleteFile, Arguments
  <2>12. CASE SizeDateFile(c)
    BY <2>0, <2>12, EndsKeeps DEF SizeDateFile, Arguments
  <2>13. CASE \E remove \in BOOLEAN : MakeRemoveDir(c, remove)
    BY <2>0, <2>13, EndsKeeps DEF MakeRemoveDir, Arguments
  <2>14. CASE \E listen \in BOOLEAN : DataSocket(c, listen)
    BY <2>0, <2>14, EndsKeeps DEF DataSocket
  <2>15. CASE List(c)
    BY <2>0, <2>15, EndsKeeps DEF List
  <2> QED BY <1>1, <2>1, <2>2, <2>3, <2>4, <2>5, <2>7, <2>8, <2>9, <2>10, <2>11, <2>12, <2>13,
             <2>14, <2>15 DEF ProcessCommand
<1>2. ASSUME NEW c \in Clients, ClientWork(c) \/ PeerConnects(c) \/ PeerCloses(c) \/ StackCloses(c)
      PROVE NamedInv'
  BY <1>2 DEF ClientWork, PeerConnects, PeerCloses, StackCloses
<1>3. ASSUME NEW c \in Clients, Delete(c) PROVE NamedInv'
  BY <1>3 DEF Delete, NoSession, NamesNothing, Names, Renamed, Root
<1>4. CASE OtherWrites
  BY <1>4 DEF OtherWrites
<1>5. CASE UNCHANGED vars
  BY <1>5 DEF vars
<1> QED BY <1>1, <1>2, <1>3, <1>4, <1>5 DEF Next

THEOREM Naming == Spec => []NamedInv
BY NamedInit, NamedStep, PTL DEF Spec

\* RenamesWhatWasNamed: for any clients, paths and commands, a step that renames
\* is the RNTO of a client, and it moves what that client named with the RNFR
\* just before it (prvRenameFrom, prvRenameTo).
THEOREM Renaming == Spec => RenamesWhatWasNamed
<1> DEFINE Step == \A c \in Clients :
       renamed'[c] /\ ~renamed[c] =>
         /\ named[c] # NoPath
         /\ \E to \in Paths : tree' = Moved(tree, named[c], to)
<1>1. NamedInv /\ [Next]_vars => [Step]_vars
  <2> SUFFICES ASSUME NamedInv, [Next]_vars, NEW c \in Clients, renamed'[c], ~renamed[c]
               PROVE  /\ named[c] # NoPath
                      /\ \E to \in Paths : tree' = Moved(tree, named[c], to)
    OBVIOUS
  <2>1. \A d \in Clients : NamesNothing(d) \/ Renamed(d, FALSE) => ~renamed'[c]
    BY DEF NamesNothing, Renamed, NamedInv
  <2>2. UNCHANGED renamed => ~renamed'[c]
    OBVIOUS
  <2>3. PICK d \in Clients : RenameTo(d) /\ ~Renamed(d, FALSE)
    <3>1. \A d \in Clients : ProcessCommand(d) => RenameTo(d) \/ Renamed(d, FALSE)
      BY DEF ProcessCommand, User, Pass, Quit, Plain, NullArg, Cwd, Cdup, ChangeDir, RenameFrom,
             DeleteFile, SizeDateFile, MakeRemoveDir, DataSocket, List, NamesNothing
    <3>2. \A d \in Clients : Delete(d) => NamesNothing(d)
      BY DEF Delete
    <3>3. \A d \in Clients : ClientWork(d) \/ PeerConnects(d) \/ PeerCloses(d) \/ StackCloses(d)
                             => UNCHANGED renamed
      BY DEF ClientWork, PeerConnects, PeerCloses, StackCloses
    <3>4. OtherWrites => UNCHANGED renamed
      BY DEF OtherWrites
    <3> QED BY <2>1, <2>2, <3>1, <3>2, <3>3, <3>4 DEF Next, vars
  <2>4. Renamed(d, TRUE) /\ pxClient[d].bInRename
        /\ \E to \in Paths : tree' = Moved(tree, pxClient[d].pcFileName, to)
    BY <2>3 DEF RenameTo, Arguments, Becomes
  <2>5. c = d
    BY <2>4 DEF Renamed, NamedInv
  <2> QED BY <2>4, <2>5, SessionAssumption DEF NamedInv
<1> QED BY <1>1, Naming, PTL DEF Spec, RenamesWhatWasNamed

-----------------------------------------------------------------------------
\* The least-number principle, in the form that needs no operator for a
\* parameter.
LEMMA LeastNumber == ASSUME NEW T \in SUBSET Nat, T # {} PROVE \E m \in T : \A k \in T : m <= k
<1>1. PICK m \in T : \A k \in T : ~ (<<k, m>> \in OpToRel(<, Nat))
  BY WFMin, NatLessThanWellFounded, Zenon
<1>2. \A k \in T : k < m => <<k, m>> \in OpToRel(<, Nat)
  BY DEF OpToRel
<1>3. \A k \in T : ~(k < m)
  BY <1>1, <1>2, Zenon
<1> QED BY <1>3

-----------------------------------------------------------------------------
(* Paths *)

PathNames == UNION {ToSet(p) : p \in Paths}
Dirs == Paths \cup {Root}

\* Paths are sequences, and not empty.
LEMMA PathFacts ==
  /\ \A p \in Dirs : p \in Seq(PathNames) /\ Len(p) \in Nat
  /\ \A p \in Paths : Len(p) # 0 /\ Front(p) \in Dirs /\ Len(Front(p)) = Len(p) - 1
<1>0. Paths \subseteq Seq(PathNames) /\ Root \notin Paths /\ \A p \in Paths : Front(p) \in Dirs
  BY SessionAssumption DEF SessionAssumption, PathNames, Dirs
<1>1. ASSUME NEW p \in Dirs PROVE p \in Seq(PathNames) /\ Len(p) \in Nat
  <2>1. <<>> \in Seq(PathNames)
    OBVIOUS
  <2>2. p \in Seq(PathNames)
    BY <2>1, <1>0 DEF Dirs, Root
  <2> QED BY <2>2
<1>2. ASSUME NEW p \in Paths PROVE Len(p) # 0 /\ Len(Front(p)) = Len(p) - 1
  <2>1. p # <<>> /\ p \in Seq(PathNames)
    BY <1>0 DEF Root
  <2>2. Len(p) # 0 /\ Len(p) \in Nat
    BY <2>1
  <2>3. Len(p) - 1 \in 0..Len(p)
    BY <2>2
  <2>4. Len(SubSeq(p, 1, Len(p) - 1)) = Len(p) - 1
    <3>1. Len(p) - 1 \in Int /\ (1 <= Len(p) - 1 \/ Len(p) - 1 = 0)
      BY <2>2
    <3>2. \A i \in 1..Len(p) - 1 : p[i] \in PathNames
      BY <2>1, <2>2
    <3>3. Len(SubSeq(p, 1, Len(p) - 1)) = IF 1 <= Len(p) - 1 THEN (Len(p) - 1) - 1 + 1 ELSE 0
      BY <3>1, <3>2, SubSeqProperties
    <3> QED BY <2>2, <3>1, <3>3
  <2> QED BY <2>2, <2>4 DEF Front
<1> QED BY <1>0, <1>1, <1>2

\* A place is below a directory if its parent is the directory or below it.
LEMMA FrontBelow ==
  ASSUME NEW p \in Paths, NEW d \in Dirs
  PROVE  p \in Below(d) <=> Front(p) = d \/ Front(p) \in Below(d)
<1> DEFINE f == Front(p)
<1>1. /\ p \in Seq(PathNames) /\ d \in Seq(PathNames) /\ Len(p) \in Nat \ {0} /\ Len(d) \in Nat
      /\ f \in Seq(PathNames) /\ Len(f) = Len(p) - 1 /\ f \in Dirs
  BY PathFacts DEF Dirs
<1>2. \A i \in 1..Len(p) - 1 : f[i] = p[i]
  BY <1>1 DEF Front
<1> HIDE DEF f
<1>3. ASSUME NEW q \in Seq(PathNames), Len(d) <= Len(q)
      PROVE  SubSeq(q, 1, Len(d)) = d <=> \A i \in 1..Len(d) : q[i] = d[i]
  <2> DEFINE a == SubSeq(q, 1, Len(d))
  <2>1. a \in Seq(PathNames) /\ Len(a) = Len(d) /\ \A i \in 1..Len(d) : a[i] = q[i]
    BY <1>1, <1>3
  <2> HIDE DEF a
  <2>2. a = d <=> \A i \in 1..Len(d) : a[i] = d[i]
    BY <1>1, <2>1, SeqEqual
  <2> QED BY <2>1, <2>2 DEF a
<1>4. p \in Below(d) <=> Len(p) > Len(d) /\ \A i \in 1..Len(d) : p[i] = d[i]
  BY <1>1, <1>3 DEF Below
<1>5. f \in Below(d) <=> Len(f) > Len(d) /\ \A i \in 1..Len(d) : f[i] = d[i]
  <2>1. f \in Paths /\ Len(f) > Len(d) => (f \in Below(d) <=> \A i \in 1..Len(d) : f[i] = d[i])
    BY <1>1, <1>3 DEF Below
  <2>2. Len(f) > Len(d) => f # Root
    BY <1>1 DEF Root
  <2> QED BY <2>1, <2>2, <1>1 DEF Below, Dirs
<1>6. f = d <=> Len(f) = Len(d) /\ \A i \in 1..Len(d) : f[i] = d[i]
  BY <1>1, SeqEqual
<1>7. Len(p) > Len(d) => \A i \in 1..Len(d) : f[i] = p[i]
  BY <1>1, <1>2
<1>8. Len(p) > Len(d) <=> Len(f) > Len(d) \/ Len(f) = Len(d)
  BY <1>1
<1> QED BY <1>4, <1>5, <1>6, <1>7, <1>8 DEF f

\* The entries of a directory are the places whose parent it is.
LEMMA ChildIs ==
  ASSUME NEW p \in Paths, NEW d \in Dirs
  PROVE  (p \in Below(d) /\ Len(p) = Len(d) + 1) <=> Front(p) = d
<1>1. Len(p) \in Nat \ {0} /\ Len(d) \in Nat /\ Len(Front(p)) = Len(p) - 1
  BY PathFacts DEF Dirs
<1>2. Front(p) \in Below(d) => Len(Front(p)) > Len(d)
  BY DEF Below
<1>3. Front(p) = d => Len(p) = Len(d) + 1
  BY <1>1
<1> QED BY <1>1, <1>2, <1>3, FrontBelow

-----------------------------------------------------------------------------
(* File systems *)

Trees == [Paths -> {"none", "file", "dir"}]

\* What is there is in a directory.
TreeClosed(t) == \A p \in Paths : t[p] # "none" => At(t, Front(p)) = "dir"

\* In a tree, a place below which something is is a directory.
LEMMA Ancestors ==
  ASSUME NEW t \in Trees, TreeClosed(t), NEW d \in Dirs, NEW p \in Below(d), t[p] # "none"
  PROVE  At(t, d) = "dir"
<1> DEFINE T == {n \in Nat : \E q \in Below(d) : Len(q) = n /\ t[q] # "none"}
<1>1. SUFFICES ASSUME At(t, d) # "dir" PROVE FALSE
  OBVIOUS
<1>2. \A q \in Below(d) : q \in Paths /\ Len(q) \in Nat
  BY PathFacts DEF Below, Dirs
<1>3. Len(p) \in T
  BY <1>2
<1>4. PICK m \in T : \A k \in T : m <= k
  BY <1>3, LeastNumber
<1>5. PICK q \in Below(d) : Len(q) = m /\ t[q] # "none"
  BY <1>4
<1>6. q \in Paths /\ At(t, Front(q)) = "dir" /\ Front(q) \in Dirs /\ Len(Front(q)) = m - 1 /\ m \in Nat
      /\ Len(Front(q)) \in Nat
  BY <1>2, <1>5, PathFacts DEF TreeClosed
<1>7. Front(q) \in Below(d)
  BY <1>1, <1>6, FrontBelow
<1>8. t[Front(q)] = "dir" /\ m - 1 \in T
  BY <1>6, <1>7, <1>2, SessionAssumption DEF At, SessionAssumption
<1> QED BY <1>4, <1>6, <1>8

\* A change of the files in one step: directories do not become files.
Change(t, u) ==
  /\ u \in Trees /\ TreeClosed(u)
  /\ \A p \in Paths : t[p] = "dir" => u[p] # "file"

\* A file or a directory made in a directory, and one removed.
LEMMA OneMade ==
  ASSUME NEW t \in Trees, TreeClosed(t), NEW p \in Paths, t[p] = "none", At(t, Front(p)) = "dir",
         NEW k \in {"file", "dir"}
  PROVE  Change(t, [t EXCEPT ![p] = k])
<1> DEFINE u == [t EXCEPT ![p] = k]
<1>1. u \in Trees /\ \A q \in Paths : u[q] = IF q = p THEN k ELSE t[q]
  BY DEF Trees
<1> HIDE DEF u
<1>2. \A q \in Dirs : At(t, q) = "dir" => At(u, q) = "dir"
  BY <1>1 DEF At, Dirs
<1>3. TreeClosed(u)
  BY <1>1, <1>2, PathFacts DEF TreeClosed
<1> QED BY <1>1, <1>3 DEF Change, u

\* A directory is removed only when nothing is in it.
LEMMA OneRemoved ==
  ASSUME NEW t \in Trees, TreeClosed(t), NEW p \in Paths, t[p] = "file" \/ Children(t, p) = {}
  PROVE  Change(t, [t EXCEPT ![p] = "none"])
<1> DEFINE u == [t EXCEPT ![p] = "none"]
<1>1. u \in Trees /\ \A q \in Paths : u[q] = IF q = p THEN "none" ELSE t[q]
  BY DEF Trees
<1> HIDE DEF u
<1>2. ASSUME NEW q \in Paths, t[q] # "none" PROVE Front(q) # p
  <2>1. CASE t[p] = "file"
    BY <1>2, <2>1, SessionAssumption DEF SessionAssumption, TreeClosed, At
  <2>2. CASE Children(t, p) = {}
    <3>1. ~(q \in Below(p) /\ Len(q) = Len(p) + 1)
      BY <1>2, <2>2 DEF Children
    <3> QED BY <3>1, ChildIs DEF Dirs
  <2> QED BY <2>1, <2>2
<1>3. ASSUME NEW q \in Paths, u[q] # "none" PROVE At(u, Front(q)) = "dir"
  BY <1>1, <1>2, <1>3, PathFacts DEF At, TreeClosed, Dirs
<1>4. \A q \in Paths : t[q] = "dir" => u[q] # "file"
  BY <1>1
<1> QED BY <1>1, <1>3, <1>4 DEF Change, TreeClosed, u

\* What is at p after from has been moved to to was here before.
Origin(from, to, p) == from \o SubSeq(p, Len(to) + 1, Len(p))

\* What is moved to the parent of a place was the parent of what is moved to
\* the place.
LEMMA OriginOfFront ==
  ASSUME NEW from \in Paths, NEW to \in Paths, NEW p \in Below(to)
  PROVE  /\ Origin(from, to, p) \in Seq(PathNames) /\ Len(Origin(from, to, p)) > Len(from)
         /\ Origin(from, to, Front(p)) = Front(Origin(from, to, p))
         /\ Origin(from, to, to) = from
<1> DEFINE r == SubSeq(p, Len(to) + 1, Len(p))
           g == SubSeq(Front(p), Len(to) + 1, Len(Front(p)))
           a == from \o r
           b == from \o g
           n == Len(p) - Len(to)
<1>1. /\ p \in Seq(PathNames) /\ to \in Seq(PathNames) /\ from \in Seq(PathNames)
      /\ Len(p) \in Nat /\ Len(to) \in Nat /\ Len(from) \in Nat /\ Len(p) > Len(to)
      /\ Front(p) \in Seq(PathNames) /\ Len(Front(p)) = Len(p) - 1
      /\ \A i \in 1..Len(p) - 1 : Front(p)[i] = p[i]
  <2>1. p \in Paths /\ Len(p) > Len(to)
    BY DEF Below
  <2>2. Front(p) \in Dirs /\ Len(Front(p)) = Len(p) - 1 /\ Len(p) \in Nat /\ Len(p) # 0
    BY <2>1, PathFacts DEF Dirs
  <2>3. p \in Seq(PathNames) /\ Front(p) \in Seq(PathNames)
    BY <2>1, <2>2, PathFacts DEF Dirs
  <2>4. \A i \in 1..Len(p) - 1 : Front(p)[i] = p[i]
    BY <2>2, <2>3 DEF Front
  <2> QED BY <2>1, <2>2, <2>3, <2>4, PathFacts DEF Dirs
<1>2. n \in Nat \ {0} /\ n = Len(p) - Len(to)
  BY <1>1
<1> HIDE DEF n
<1>3. r \in Seq(PathNames) /\ Len(r) = n /\ \A i \in 1..n : r[i] = p[Len(to) + i]
  BY <1>1, <1>2
<1>4. g \in Seq(PathNames) /\ Len(g) = n - 1 /\ \A i \in 1..n - 1 : g[i] = p[Len(to) + i]
  <2>1. g \in Seq(PathNames) /\ Len(g) = n - 1 /\ \A i \in 1..n - 1 : g[i] = Front(p)[Len(to) + i]
    BY <1>1, <1>2
  <2>2. \A i \in 1..n - 1 : Len(to) + i \in 1..Len(p) - 1
    BY <1>1, <1>2
  <2> QED BY <2>1, <2>2, <1>1
<1> HIDE DEF r, g
<1>5. /\ a \in Seq(PathNames) /\ Len(a) = Len(from) + n
      /\ \A i \in 1..Len(from) + n : a[i] = IF i <= Len(from) THEN from[i] ELSE r[i - Len(from)]
  <2>1. from \in Seq(PathNames) /\ r \in Seq(PathNames)
    BY <1>1, <1>3
  <2>2. /\ from \o r \in Seq(PathNames) /\ Len(from \o r) = Len(from) + Len(r)
        /\ \A i \in 1..Len(from) + Len(r) :
             (from \o r)[i] = IF i <= Len(from) THEN from[i] ELSE r[i - Len(from)]
    BY <2>1, ConcatProperties, Zenon
  <2> QED BY <2>2, <1>3 DEF a
<1>6. /\ b \in Seq(PathNames) /\ Len(b) = Len(from) + (n - 1)
      /\ \A i \in 1..Len(from) + (n - 1) : b[i] = IF i <= Len(from) THEN from[i] ELSE g[i - Len(from)]
  <2>1. from \in Seq(PathNames) /\ g \in Seq(PathNames)
    BY <1>1, <1>4
  <2>2. /\ from \o g \in Seq(PathNames) /\ Len(from \o g) = Len(from) + Len(g)
        /\ \A i \in 1..Len(from) + Len(g) :
             (from \o g)[i] = IF i <= Len(from) THEN from[i] ELSE g[i - Len(from)]
    BY <2>1, ConcatProperties, Zenon
  <2> QED BY <2>2, <1>4 DEF b
<1> HIDE DEF a, b
<1>7. b = Front(a)
  <2> DEFINE f == Front(a)
  <2>1. f \in Seq(PathNames) /\ Len(f) = Len(from) + (n - 1) /\ \A i \in 1..Len(from) + (n - 1) : f[i] = a[i]
    BY <1>1, <1>2, <1>5 DEF Front
  <2> HIDE DEF f
  <2>2. ASSUME NEW i \in 1..Len(b) PROVE f[i] = b[i]
    <3>1. i \in 1..Len(from) + (n - 1) /\ i \in 1..Len(from) + n
      BY <1>1, <1>2, <1>6
    <3>2. i > Len(from) => i - Len(from) \in 1..n - 1 /\ i - Len(from) \in 1..n
      BY <3>1, <1>1, <1>2
    <3>3. i > Len(from) => g[i - Len(from)] = r[i - Len(from)]
      BY <3>2, <1>3, <1>4
    <3>4. f[i] = a[i] /\ a[i] = (IF i <= Len(from) THEN from[i] ELSE r[i - Len(from)])
          /\ b[i] = (IF i <= Len(from) THEN from[i] ELSE g[i - Len(from)])
      BY <3>1, <2>1, <1>5, <1>6
    <3>5. i \in Nat /\ Len(from) \in Nat
      BY <3>1, <1>1
    <3> QED BY <3>3, <3>4, <3>5
  <2>3. b = f
    BY <2>1, <2>2, <1>6, SeqEqual
  <2> QED BY <2>3 DEF f
<1>8. Origin(from, to, to) = from
  BY <1>1, ConcatEmptySeq DEF Origin
<1>9. Origin(from, to, p) = a /\ Origin(from, to, Front(p)) = b
  BY DEF Origin, a, b, r, g
<1> QED BY <1>1, <1>2, <1>5, <1>7, <1>8, <1>9

\* IsPrefix, for two paths.
LEMMA PrefixIs ==
  ASSUME NEW from \in Paths, NEW to \in Dirs
  PROVE  IsPrefix(from, to) <=> to = from \/ to \in Below(from)
<1>1. /\ from \in Seq(PathNames) /\ to \in Seq(PathNames) /\ Len(from) \in Nat /\ Len(to) \in Nat
      /\ Len(from) # 0
  BY PathFacts DEF Dirs
<1>2. SubSeq(from, 1, Len(from)) = from /\ SubSeq(to, 1, Len(to)) = to
  BY <1>1, SubSeqFull
<1>3. to \in Paths \/ Len(to) = 0
  BY DEF Dirs, Root
<1> QED BY <1>1, <1>2, <1>3 DEF IsPrefix, Below

\* ff_rename leaves a tree: nothing was below the new place, and what was below
\* the old one is now below the new.
LEMMA MovedIsChange ==
  ASSUME NEW t \in Trees, TreeClosed(t), NEW from \in Paths \cup {NoPath}, NEW to \in Paths,
         Renames(t, from, to)
  PROVE  Change(t, Moved(t, from, to))
<1> DEFINE u == Moved(t, from, to)
           O(p) == Origin(from, to, p)
<1>1. /\ from \in Paths /\ t[from] \in {"file", "dir"} /\ At(t, from) = t[from]
      /\ t[to] = "none" /\ At(t, Front(to)) = "dir" /\ from # to
      /\ to # from /\ to \notin Below(from)
  <2>1. from \in Paths /\ t[from] \in {"file", "dir"} /\ At(t, from) = t[from]
    <3>1. At(t, from) # "none"
      BY DEF Renames
    <3>2. from # Root /\ Root \notin Paths
      BY SessionAssumption DEF SessionAssumption, Root, NoPath
    <3> QED BY <3>1, <3>2 DEF At, Trees
  <2>2. t[to] = "none" /\ At(t, Front(to)) = "dir"
    BY SessionAssumption DEF SessionAssumption, Renames, At
  <2>3. to # from /\ to \notin Below(from)
    BY <2>1, PrefixIs DEF Renames, Dirs
  <2> QED BY <2>1, <2>2, <2>3
<1>2. \A p \in Paths : u[p] = IF p = to THEN t[from]
                              ELSE IF p \in Below(to) /\ t[from] = "dir" THEN At(t, O(p))
                              ELSE IF p = from \/ p \in Below(from) THEN "none" ELSE t[p]
  BY DEF Moved, Origin
<1>3. \A q : At(t, q) \in {"none", "file", "dir"}
  BY DEF At, Trees
<1>4. u \in Trees
  <2>1. u = [p \in Paths |-> u[p]]
    BY DEF Moved
  <2>2. t[from] \in {"none", "file", "dir"} /\ \A p \in Paths : t[p] \in {"none", "file", "dir"}
    BY <1>1 DEF Trees
  <2> HIDE DEF u, O
  <2>3. \A p \in Paths : u[p] \in {"none", "file", "dir"}
    BY <1>2, <1>3, <2>2
  <2> QED BY <2>1, <2>3 DEF Trees
<1> HIDE DEF u, O
\* Nothing is below a place where nothing is.
<1>5. \A p \in Below(to) : t[p] = "none"
  <2>1. At(t, to) # "dir"
    BY <1>1, SessionAssumption DEF At, SessionAssumption
  <2> QED BY <2>1, Ancestors DEF Dirs
<1>6. ASSUME NEW p \in Paths, u[p] # "none" PROVE At(u, Front(p)) = "dir"
  <2>0. Front(p) \in Dirs
    BY PathFacts
  \* The place moved to: its directory stays.
  <2>1. CASE p = to
    <3>1. Front(to) # to /\ Front(to) \notin Below(to)
      <4>1. Len(Front(to)) < Len(to) /\ Len(to) \in Nat
        BY PathFacts DEF Dirs
      <4> QED BY <4>1 DEF Below
    <3>2. Front(to) # from /\ Front(to) \notin Below(from)
      BY <1>1, FrontBelow DEF Dirs
    <3> QED BY <2>0, <2>1, <3>1, <3>2, <1>1, <1>2 DEF At, Dirs
  \* What a directory takes along.
  <2>2. CASE p # to /\ p \in Below(to) /\ t[from] = "dir"
    <3>1. u[p] = At(t, O(p))
      BY <2>2, <1>2
    <3>2. O(p) \in Paths /\ t[O(p)] # "none"
      <4>1. Len(O(p)) > Len(from) /\ Len(from) \in Nat
        BY <1>1, <2>2, OriginOfFront, PathFacts DEF O, Dirs
      <4>2. O(p) # Root
        BY <4>1 DEF Root
      <4> QED BY <3>1, <4>2, <1>6 DEF At
    <3>3. At(t, O(Front(p))) = "dir"
      <4>1. O(Front(p)) = Front(O(p))
        BY <1>1, <2>2, OriginOfFront DEF O
      <4> QED BY <3>2, <4>1 DEF TreeClosed
    <3>4. CASE Front(p) = to
      BY <3>4, <2>2, <1>2, SessionAssumption DEF SessionAssumption, At
    <3>5. CASE Front(p) # to
      <4>1. Front(p) \in Below(to) /\ Front(p) \in Paths
        BY <2>2, <3>5, FrontBelow DEF Dirs, Below
      <4> QED BY <4>1, <3>3, <3>5, <2>2, <1>2, SessionAssumption DEF SessionAssumption, At
    <3> QED BY <3>4, <3>5
  \* What stays where it is.
  <2>3. CASE p # to /\ ~(p \in Below(to) /\ t[from] = "dir")
    <3>1. p # from /\ p \notin Below(from) /\ u[p] = t[p] /\ t[p] # "none"
      BY <2>3, <1>2, <1>6
    <3>2. At(t, Front(p)) = "dir"
      BY <3>1 DEF TreeClosed
    <3>3. Front(p) # from /\ Front(p) \notin Below(from)
      BY <3>1, <1>1, FrontBelow DEF Dirs
    <3>4. Front(p) # to /\ Front(p) \notin Below(to)
      BY <3>1, <1>5, FrontBelow, <3>2, <1>1, SessionAssumption DEF Dirs, At, SessionAssumption
    <3> QED BY <2>0, <3>2, <3>3, <3>4, <1>2 DEF At, Dirs
  <2> QED BY <2>1, <2>2, <2>3
<1>7. ASSUME NEW p \in Paths, t[p] = "dir" PROVE u[p] # "file"
  <2>1. p # to /\ p \notin Below(to)
    BY <1>1, <1>5, <1>7
  <2> QED BY <2>1, <1>2, <1>7
<1>8. Change(t, u)
  BY <1>4, <1>6, <1>7 DEF Change, TreeClosed
<1> QED BY <1>8 DEF u

-----------------------------------------------------------------------------
(* Listings *)

Places == Paths \cup {Root}
ConnType == [st : {"none", "listen", "bound", "connecting", "estab", "closed"},
             bIsListen : BOOLEAN, bClientConnected : BOOLEAN, bDirHasEntry : BOOLEAN,
             pcConnectionAck : BOOLEAN, xDirCount : 0..(Cardinality(Paths) + 1),
             dir : Places, found : Places, seen : SUBSET Places, fin : BOOLEAN]
TalkType == [list : {"none", "offered", "425", "451", "total", "wait", "226"}, calm : BOOLEAN,
             broken : BOOLEAN, lines : SUBSET Places, sent : Nat, there : SUBSET Places, told : Nat]

\* A listing: the lines are those of the entries found but the last, one each,
\* and what has been there all the time has been found or still will be.
ListingOk(k, t, fs) ==
  /\ k \in ConnType /\ t \in TalkType
  /\ k.bDirHasEntry =>
       /\ t.list = "wait" /\ k.xDirCount = t.sent
       /\ Cardinality(k.seen) = k.xDirCount + 1
       /\ k.seen = t.lines \cup {k.found}
       /\ t.there \subseteq k.seen \cup Entries(fs, k.dir)
  /\ t.list \in {"none", "offered"} => t.lines = {} /\ t.sent = 0
  /\ t.list = "226" => t.told = t.sent /\ (~t.broken => t.there \subseteq t.lines)

\* A change of the files leaves a listing's promise as it was.
LEMMA ListingKept ==
  ASSUME NEW k, NEW t, NEW fs \in Trees, NEW u, ListingOk(k, t, fs), Change(fs, u)
  PROVE  ListingOk(k, [t EXCEPT !.there = {p \in @ : At(u, p) # "none"}], u)
<1> DEFINE v == [t EXCEPT !.there = {p \in @ : At(u, p) # "none"}]
<1>1. /\ v.there = {p \in t.there : At(u, p) # "none"}
      /\ v.list = t.list /\ v.lines = t.lines /\ v.sent = t.sent /\ v.told = t.told
      /\ v.broken = t.broken /\ v \in TalkType
  BY DEF ListingOk, TalkType
<1> HIDE DEF v
<1>2. ASSUME NEW d \in Places, NEW p \in Entries(fs, d), At(u, p) # "none"
      PROVE  p \in Entries(u, d)
  <2>0. d \in Dirs /\ At(fs, d) = "dir" /\ p \in Children(fs, d) \cup (IF d = Root THEN {} ELSE {d})
    BY DEF Entries, Dirs, Places
  <2>1. CASE d # Root /\ p = d
    <3>1. d \in Paths /\ fs[d] = "dir" /\ u[d] # "none"
      BY <2>0, <2>1, <1>2 DEF At, Dirs
    <3>2. At(u, d) = "dir"
      BY <3>1, <2>1 DEF Change, Trees, At
    <3> QED BY <2>1, <3>2 DEF Entries
  <2>2. CASE p \in Children(fs, d)
    <3>1. p \in Paths /\ p \in Below(d) /\ Len(p) = Len(d) + 1
      BY <2>2 DEF Children, Below
    <3>2. Front(p) = d
      BY <2>0, <3>1, ChildIs
    <3>3. u[p] # "none"
      BY <1>2, <3>1, SessionAssumption DEF At, SessionAssumption
    <3>4. At(u, d) = "dir"
      BY <3>1, <3>2, <3>3 DEF Change, TreeClosed
    <3> QED BY <3>1, <3>3, <3>4 DEF Entries, Children
  <2> QED BY <2>0, <2>1, <2>2
<1>3. k.bDirHasEntry => v.there \subseteq k.seen \cup Entries(u, k.dir)
  <2>1. k.dir \in Places
    BY DEF ListingOk, ConnType
  <2> QED BY <1>1, <1>2, <2>1 DEF ListingOk
<1>4. ListingOk(k, v, u)
  BY <1>1, <1>3 DEF ListingOk
<1> QED BY <1>4 DEF v

\* A data connection that is given up or checked has no entry that it had not.
LEMMA ListingSame ==
  ASSUME NEW k, NEW t, NEW fs, ListingOk(k, t, fs), NEW l \in ConnType,
         l.bDirHasEntry => /\ k.bDirHasEntry /\ l.xDirCount = k.xDirCount /\ l.seen = k.seen
                           /\ l.found = k.found /\ l.dir = k.dir
  PROVE  ListingOk(l, t, fs)
BY DEF ListingOk

\* A data connection that is closed has no listing on it.
LEMMA ClosedType ==
  \A k \in ConnType : Closed(k) \in ConnType /\ ~Closed(k).bDirHasEntry
<1>1. Cardinality(Paths) \in Nat
  BY SessionAssumption, FS_CardinalityType DEF SessionAssumption
<1>2. NoConn \in ConnType /\ ~NoConn.bDirHasEntry
  <2>1. 0 \in 0..(Cardinality(Paths) + 1)
    BY <1>1
  <2> HIDE <1>1
  <2> QED BY <2>1 DEF NoConn, ConnType, Places
<1>3. ASSUME NEW k \in ConnType PROVE Closed(k) \in ConnType /\ ~Closed(k).bDirHasEntry
  <2>1. k.pcConnectionAck \in BOOLEAN
    BY DEF ConnType
  <2> QED BY <1>2, <2>1 DEF Closed, ConnType
<1> QED BY <1>3

\* prvTransferCheck leaves a listing as it is, or ends it with its connection.
LEMMA CheckedType ==
  ASSUME NEW k \in ConnType
  PROVE  /\ Checked(k) \in ConnType
         /\ Checked(k).bDirHasEntry =>
              /\ k.bDirHasEntry /\ Checked(k).xDirCount = k.xDirCount /\ Checked(k).seen = k.seen
              /\ Checked(k).found = k.found /\ Checked(k).dir = k.dir
<1> DEFINE known == [k EXCEPT !.bClientConnected = TRUE, !.pcConnectionAck = FALSE]
<1>1. /\ known \in ConnType /\ known.bDirHasEntry = k.bDirHasEntry
      /\ known.xDirCount = k.xDirCount /\ known.seen = k.seen /\ known.found = k.found
      /\ known.dir = k.dir
  BY DEF ConnType
<1>2. Checked(k) \in {k, known, Closed(known)}
  BY DEF Checked
<1> HIDE DEF known
<1> QED BY <1>1, <1>2, ClosedType

\* What is listed is a place.
LEMMA EntriesArePlaces == \A fs, d : d \in Places => Entries(fs, d) \subseteq Places
  BY DEF Entries, Children, Below, Places

\* A listing finds no more entries than there are places.
LEMMA SeenBound ==
  ASSUME NEW S \in SUBSET Places
  PROVE  IsFiniteSet(S) /\ Cardinality(S) \in Nat /\ Cardinality(S) <= Cardinality(Paths) + 1
         /\ Cardinality(Paths) \in Nat
<1>1. IsFiniteSet(Paths) /\ Root \notin Paths
  BY SessionAssumption DEF SessionAssumption
<1>2. IsFiniteSet(Places) /\ Cardinality(Places) = Cardinality(Paths) + 1
  BY <1>1, FS_AddElement DEF Places
<1> QED BY <1>1, <1>2, FS_Subset, FS_CardinalityType

\* The acknowledgement of a transfer does not change types.
LEMMA AckType ==
  ASSUME NEW k \in ConnType PROVE Ack(k) \in ConnType
<1>1. [k EXCEPT !.pcConnectionAck = TRUE] \in ConnType
  BY DEF ConnType
<1>2. [k EXCEPT !.pcConnectionAck = FALSE, !.st = IF @ = "bound" THEN "connecting" ELSE @] \in ConnType
  BY DEF ConnType
<1> QED BY <1>1, <1>2 DEF Ack

\* LIST, when the directory has entries.
LEMMA ListBegins ==
  ASSUME NEW k \in ConnType, NEW t \in TalkType, t.lines = {}, t.sent = 0, NEW fs,
         NEW d \in Places, NEW e \in Entries(fs, d)
  PROVE  ListingOk(FindFirst(k, d, e), [t EXCEPT !.list = "wait", !.there = Entries(fs, d)], fs)
<1> DEFINE l == FindFirst(k, d, e)
           v == [t EXCEPT !.list = "wait", !.there = Entries(fs, d)]
<1>0. e \in Places /\ Entries(fs, d) \subseteq Places /\ Cardinality(Paths) \in Nat
  BY EntriesArePlaces, SeenBound
<1>1. v \in TalkType /\ v.list = "wait" /\ v.there = Entries(fs, d) /\ v.lines = {} /\ v.sent = 0
  BY <1>0 DEF TalkType
<1>2. /\ l \in ConnType /\ l.dir = d /\ l.found = e /\ l.seen = {e} /\ l.bDirHasEntry
      /\ l.xDirCount = 0
  <2>1. 0 \in 0..(Cardinality(Paths) + 1)
    BY <1>0
  <2> QED BY <1>0, <2>1 DEF FindFirst, ConnType
<1>3. Cardinality({e}) = 1
  BY FS_Singleton
<1> HIDE DEF l, v
<1>4. ListingOk(l, v, fs)
  BY <1>1, <1>2, <1>3 DEF ListingOk
<1> QED BY <1>4 DEF l, v

\* A line of a listing that goes on: another entry was found.
LEMMA ListGoesOn ==
  ASSUME NEW k, NEW t, NEW fs, ListingOk(k, t, fs), k.bDirHasEntry,
         NEW e \in Entries(fs, k.dir) \ k.seen
  PROVE  ListingOk([k EXCEPT !.xDirCount = @ + 1, !.found = e, !.seen = @ \cup {e}],
                   [t EXCEPT !.lines = @ \cup {k.found}, !.sent = @ + 1], fs)
<1> DEFINE l == [k EXCEPT !.xDirCount = @ + 1, !.found = e, !.seen = @ \cup {e}]
           v == [t EXCEPT !.lines = @ \cup {k.found}, !.sent = @ + 1]
<1>0. k \in ConnType /\ t \in TalkType /\ k.dir \in Places /\ e \in Places /\ k.seen \in SUBSET Places
      /\ k.found \in Places /\ k.xDirCount \in Nat
  <2>1. k \in ConnType /\ t \in TalkType
    BY DEF ListingOk
  <2>2. k.dir \in Places /\ k.seen \in SUBSET Places /\ k.found \in Places /\ k.xDirCount \in Nat
    BY <2>1 DEF ConnType
  <2> QED BY <2>1, <2>2, EntriesArePlaces
<1>1. /\ IsFiniteSet(k.seen) /\ Cardinality(k.seen) = k.xDirCount + 1
      /\ Cardinality(k.seen) <= Cardinality(Paths) + 1 /\ Cardinality(Paths) \in Nat
  BY <1>0, SeenBound DEF ListingOk
<1>2. Cardinality(k.seen \cup {e}) = (k.xDirCount + 1) + 1
  BY <1>1, FS_AddElement
<1>3. k.xDirCount + 1 \in 0..(Cardinality(Paths) + 1)
  BY <1>0, <1>1
<1>4. /\ l \in ConnType /\ l.dir = k.dir /\ l.found = e /\ l.seen = k.seen \cup {e}
      /\ l.xDirCount = k.xDirCount + 1
  BY <1>0, <1>3 DEF ConnType
<1>5. /\ v \in TalkType /\ v.lines = t.lines \cup {k.found} /\ v.sent = t.sent + 1
      /\ v.list = t.list /\ v.there = t.there
  <2>1. t.lines \cup {k.found} \in SUBSET Places /\ t.sent + 1 \in Nat
    <3>1. t.lines \in SUBSET Places /\ t.sent \in Nat
      BY <1>0 DEF TalkType
    <3>2. k.found \in Places
      BY <1>0
    <3> QED BY <3>1, <3>2
  <2> QED BY <1>0, <2>1 DEF TalkType
<1> HIDE DEF l, v
<1>6. ListingOk(l, v, fs)
  BY <1>2, <1>4, <1>5 DEF ListingOk
<1> QED BY <1>6 DEF l, v

\* The last line makes the promise good: no entry is left that was there all
\* the time, if the search has come to the end of the directory.
LEMMA ListIsOver ==
  ASSUME NEW k, NEW t, NEW fs, ListingOk(k, t, fs), k.bDirHasEntry, NEW b \in BOOLEAN,
         ~b => (Entries(fs, k.dir) \ k.seen) \cap t.there = {}
  PROVE  ListingOk([k EXCEPT !.xDirCount = @ + 1, !.bDirHasEntry = FALSE, !.fin = TRUE],
                   [t EXCEPT !.lines = @ \cup {k.found}, !.sent = @ + 1, !.list = "226",
                             !.told = k.xDirCount + 1, !.broken = b], fs)
<1> DEFINE l == [k EXCEPT !.xDirCount = @ + 1, !.bDirHasEntry = FALSE, !.fin = TRUE]
           v == [t EXCEPT !.lines = @ \cup {k.found}, !.sent = @ + 1, !.list = "226",
                          !.told = k.xDirCount + 1, !.broken = b]
<1>0. k \in ConnType /\ t \in TalkType /\ k.seen \in SUBSET Places
      /\ k.found \in Places /\ k.xDirCount \in Nat
  <2>1. k \in ConnType /\ t \in TalkType
    BY DEF ListingOk
  <2> QED BY <2>1 DEF ConnType
<1>1. k.xDirCount + 1 \in 0..(Cardinality(Paths) + 1)
  <2>1. /\ Cardinality(k.seen) = k.xDirCount + 1 /\ Cardinality(Paths) \in Nat
        /\ Cardinality(k.seen) <= Cardinality(Paths) + 1
    BY <1>0, SeenBound DEF ListingOk
  <2> QED BY <1>0, <2>1
<1>2. l \in ConnType /\ ~l.bDirHasEntry
  BY <1>0, <1>1 DEF ConnType
<1>3. /\ v \in TalkType /\ v.lines = t.lines \cup {k.found} /\ v.sent = t.sent + 1
      /\ v.list = "226" /\ v.there = t.there /\ v.told = k.xDirCount + 1 /\ v.broken = b
  <2>1. t.lines \cup {k.found} \in SUBSET Places /\ t.sent + 1 \in Nat /\ k.xDirCount + 1 \in Nat
    <3>1. t.lines \in SUBSET Places /\ t.sent \in Nat
      BY <1>0 DEF TalkType
    <3>2. k.found \in Places /\ k.xDirCount \in Nat
      BY <1>0
    <3> QED BY <3>1, <3>2
  <2> QED BY <1>0, <2>1 DEF TalkType
<1> HIDE DEF l, v
<1>4. ListingOk(l, v, fs)
  BY <1>2, <1>3 DEF ListingOk
<1> QED BY <1>4 DEF l, v
-----------------------------------------------------------------------------
(* The steps *)

\* The inductive invariant: file systems are trees, and every listing is kept.
ListInv ==
  /\ NamedInv /\ tree \in Trees /\ TreeClosed(tree)
  /\ conn \in [Clients -> ConnType] /\ talk \in [Clients -> TalkType]
  /\ \A c \in Clients : ListingOk(conn[c], talk[c], tree)

\* A step that changes one session's connection and listing.
LEMMA OneListing ==
  ASSUME ListInv, NamedInv', NEW c \in Clients, NEW l, NEW v, ListingOk(l, v, tree),
         conn' = [conn EXCEPT ![c] = l], talk' = [talk EXCEPT ![c] = v], UNCHANGED tree
  PROVE  ListInv'
<1>1. conn' \in [Clients -> ConnType] /\ talk' \in [Clients -> TalkType]
  BY DEF ListInv, ListingOk
<1>2. \A d \in Clients : ListingOk(conn'[d], talk'[d], tree)
  BY DEF ListInv
<1> QED BY <1>1, <1>2 DEF ListInv

\* A step that changes the files.
LEMMA FilesChange ==
  ASSUME ListInv, NamedInv', NEW u, Change(tree, u), Becomes(u), UNCHANGED conn
  PROVE  ListInv'
<1>1. \A d \in Clients : talk'[d] = [talk[d] EXCEPT !.there = {p \in @ : At(u, p) # "none"}]
  BY DEF Becomes
<1>2. ASSUME NEW d \in Clients PROVE ListingOk(conn'[d], talk'[d], u)
  <2>1. ListingOk(conn[d], talk[d], tree) /\ tree \in Trees
    BY DEF ListInv
  <2>2. ListingOk(conn[d], [talk[d] EXCEPT !.there = {p \in @ : At(u, p) # "none"}], u)
    BY <2>1, ListingKept
  <2> QED BY <1>1, <2>2
<1>3. tree' = u /\ u \in Trees /\ TreeClosed(u)
  BY DEF Becomes, Change
<1>4. talk' \in [Clients -> TalkType] /\ conn' \in [Clients -> ConnType]
  BY <1>2 DEF Becomes, ListingOk, ListInv
<1> QED BY <1>2, <1>3, <1>4 DEF ListInv

\* A command that fails changes nothing.
LEMMA NoChange == \A t \in Trees : TreeClosed(t) => Change(t, t)
  BY DEF Change, Trees

\* LIST, in its outcomes.
LEMMA ListIsKept ==
  ASSUME ListInv, NamedInv', NEW c \in Clients, List(c)
  PROVE  ListInv'
<1> DEFINE k == Checked(conn[c])
           d == pxClient[c].pcCurrentDir
<1>0. ListingOk(conn[c], talk[c], tree) /\ conn[c] \in ConnType /\ talk[c] \in TalkType
      /\ talk \in [Clients -> TalkType] /\ conn \in [Clients -> ConnType]
  BY DEF ListInv
<1>1. k \in ConnType /\ Ack(k) \in ConnType
  BY <1>0, CheckedType, AckType
<1>2. d \in Places
  BY DEF ListInv, NamedInv, Places
<1> HIDE DEF d
<1>t. \A w \in {"425", "total", "451"} :
        [talk[c] EXCEPT !.list = w] \in TalkType /\ [talk[c] EXCEPT !.list = w].list = w
  BY <1>0 DEF TalkType
<1>3. CASE conn[c].st = "none" /\ talk' = [talk EXCEPT ![c].list = "425"] /\ UNCHANGED conn
  <2> DEFINE v == [talk[c] EXCEPT !.list = "425"]
  <2>1. talk' = [talk EXCEPT ![c] = v] /\ conn' = [conn EXCEPT ![c] = conn[c]]
    BY <1>0, <1>3
  <2>2. v \in TalkType /\ v.list = "425"
    BY <1>t
  <2>3. ~conn[c].bDirHasEntry
    BY <1>0 DEF List, ListingOk
  <2> HIDE DEF v
  <2>4. ListingOk(conn[c], v, tree)
    BY <1>0, <2>2, <2>3 DEF ListingOk
  <2> QED BY <2>1, <2>4, OneListing DEF List
<1>4. ASSUME NEW n \in {0, 1}, NEW w \in {"total", "451"},
             conn' = [conn EXCEPT ![c] = FindNothing(Ack(k), n)],
             talk' = [talk EXCEPT ![c].list = w]
      PROVE  ListInv'
  <2> DEFINE v == [talk[c] EXCEPT !.list = w]
             l == FindNothing(Ack(k), n)
  <2>1. talk' = [talk EXCEPT ![c] = v] /\ conn' = [conn EXCEPT ![c] = l]
    BY <1>0, <1>4
  <2>2. v \in TalkType /\ v.list \in {"total", "451"}
    BY <1>t
  <2>3. l \in ConnType /\ ~l.bDirHasEntry
    <3>1. n \in 0..(Cardinality(Paths) + 1)
      BY SeenBound
    <3> QED BY <1>1, <3>1 DEF ConnType, FindNothing
  <2> HIDE DEF v, l
  <2>4. ListingOk(l, v, tree)
    BY <2>2, <2>3 DEF ListingOk
  <2> QED BY <2>1, <2>4, OneListing DEF List
<1>5. ASSUME conn[c].st # "none", NEW e \in Entries(tree, d),
             conn' = [conn EXCEPT ![c] = FindFirst(Ack(k), d, e)],
             talk' = [talk EXCEPT ![c].list = "wait", ![c].there = Entries(tree, d)]
      PROVE  ListInv'
  <2>1. talk[c].lines = {} /\ talk[c].sent = 0
    BY <1>0, <1>5 DEF List, ListingOk
  <2>2. talk' = [talk EXCEPT ![c] = [talk[c] EXCEPT !.list = "wait", !.there = Entries(tree, d)]]
    BY <1>0, <1>5
  <2>3. ListingOk(FindFirst(Ack(k), d, e),
                  [talk[c] EXCEPT !.list = "wait", !.there = Entries(tree, d)], tree)
    BY <1>0, <1>1, <1>2, <2>1, ListBegins
  <2> QED BY <1>5, <2>2, <2>3, OneListing DEF List
<1> QED BY <1>3, <1>4, <1>5 DEF List, d

\* A round of work on a data connection.
LEMMA WorkIsKept ==
  ASSUME ListInv, NamedInv', NEW c \in Clients, ClientWork(c)
  PROVE  ListInv'
<1> DEFINE k == Checked(conn[c])
           t == talk[c]
<1>0. ListingOk(conn[c], t, tree) /\ conn[c] \in ConnType /\ t \in TalkType
      /\ talk \in [Clients -> TalkType] /\ conn \in [Clients -> ConnType]
  BY DEF ListInv
<1>1. ListingOk(k, t, tree)
  BY <1>0, CheckedType, ListingSame
<1>u. UNCHANGED tree
  BY DEF ClientWork
<1>2. ASSUME conn' = [conn EXCEPT ![c] = k],
             talk' = IF k.st = "none" /\ t.list = "226" THEN [talk EXCEPT ![c] = NoTalk] ELSE talk
      PROVE  ListInv'
  <2>1. CASE k.st = "none" /\ t.list = "226"
    <3>1. ListingOk(k, NoTalk, tree)
      BY <1>1, <2>1 DEF ListingOk, NoTalk, TalkType
    <3> QED BY <1>2, <1>u, <2>1, <3>1, OneListing
  <2>2. CASE ~(k.st = "none" /\ t.list = "226")
    <3>1. talk' = [talk EXCEPT ![c] = t]
      BY <1>0, <1>2, <2>2
    <3> QED BY <1>1, <1>2, <1>u, <3>1, OneListing
  <2> QED BY <2>1, <2>2
<1>3. ASSUME k.bDirHasEntry, ListLine(c, k) PROVE ListInv'
  <2>1. PICK e \in Entries(tree, k.dir) \ k.seen :
          conn' = [conn EXCEPT ![c] = [k EXCEPT !.xDirCount = @ + 1, !.found = e, !.seen = @ \cup {e}]]
    BY <1>3 DEF ListLine, NextEntries
  <2>2. talk' = [talk EXCEPT ![c] = [t EXCEPT !.lines = @ \cup {k.found}, !.sent = @ + 1]]
    BY <1>0, <1>3 DEF ListLine, LineSent
  <2> HIDE DEF k, t
  <2> QED BY <1>1, <1>3, <1>u, <2>1, <2>2, ListGoesOn, OneListing
<1>4. ASSUME k.bDirHasEntry, ListEnd(c, k) \/ ListBreaks(c, k) PROVE ListInv'
  <2>0. PICK b \in BOOLEAN : /\ LastLine(c, k, b)
                             /\ ~b => (Entries(tree, k.dir) \ k.seen) \cap t.there = {}
    BY <1>4 DEF ListEnd, ListBreaks, NextEntries
  <2>1. conn' = [conn EXCEPT ![c] = [k EXCEPT !.xDirCount = @ + 1, !.bDirHasEntry = FALSE,
                                                !.fin = TRUE]]
    BY <2>0 DEF LastLine
  <2>2. talk' = [talk EXCEPT ![c] = [t EXCEPT !.lines = @ \cup {k.found}, !.sent = @ + 1,
                                              !.list = "226", !.told = k.xDirCount + 1,
                                              !.broken = b]]
    BY <1>0, <2>0 DEF LastLine, LineSent
  <2> HIDE DEF k, t
  <2> QED BY <1>1, <1>4, <1>u, <2>0, <2>1, <2>2, ListIsOver, OneListing
<1> QED BY <1>2, <1>3, <1>4 DEF ClientWork

\* A command, one that changes files or starts a data connection among them.
LEMMA CommandIsKept ==
  ASSUME ListInv, NamedInv', NEW c \in Clients, ProcessCommand(c)
  PROVE  ListInv'
<1>0. /\ tree \in Trees /\ TreeClosed(tree) /\ conn[c] \in ConnType /\ NamedInv
      /\ ListingOk(conn[c], talk[c], tree) /\ Change(tree, tree)
  BY NoChange DEF ListInv
<1>1. CASE UNCHANGED <<conn, tree, talk>>
  BY <1>1 DEF ListInv
<1>2. CASE User(c) \/ Pass(c) \/ Quit(c) \/ Plain(c) \/ (\E rnfr \in BOOLEAN : NullArg(c, rnfr))
           \/ Cwd(c) \/ Cdup(c) \/ RenameFrom(c) \/ SizeDateFile(c)
  BY <1>1, <1>2 DEF User, Pass, Quit, Plain, NullArg, Cwd, Cdup, ChangeDir, RenameFrom, SizeDateFile
<1>3. CASE RenameTo(c)
  <2>1. CASE UNCHANGED <<tree, talk>>
    BY <1>1, <1>3, <2>1 DEF RenameTo
  <2>2. ASSUME NEW to \in Paths, Renames(tree, pxClient[c].pcFileName, to),
               Becomes(Moved(tree, pxClient[c].pcFileName, to))
        PROVE  ListInv'
    <3>1. pxClient[c].pcFileName \in Paths \cup {NoPath}
      BY <1>0 DEF NamedInv
    <3>2. Change(tree, Moved(tree, pxClient[c].pcFileName, to))
      BY <1>0, <2>2, <3>1, MovedIsChange
    <3> QED BY <1>3, <2>2, <3>2, FilesChange DEF RenameTo
  <2> QED BY <1>3, <2>1, <2>2 DEF RenameTo, Arguments
<1>4. CASE DeleteFile(c)
  <2>1. CASE UNCHANGED <<tree, talk>>
    BY <1>1, <1>4, <2>1 DEF DeleteFile
  <2>2. ASSUME NEW p \in Paths, tree[p] = "file", Becomes([tree EXCEPT ![p] = "none"])
        PROVE  ListInv'
    <3>1. Change(tree, [tree EXCEPT ![p] = "none"])
      BY <1>0, <2>2, OneRemoved
    <3> QED BY <1>4, <2>2, <3>1, FilesChange DEF DeleteFile
  <2> QED BY <1>4, <2>1, <2>2 DEF DeleteFile, Arguments
<1>5. ASSUME NEW remove \in BOOLEAN, MakeRemoveDir(c, remove) PROVE ListInv'
  <2>1. CASE UNCHANGED <<tree, talk>>
    BY <1>1, <1>5, <2>1 DEF MakeRemoveDir
  <2>2. ASSUME NEW p \in Paths, NEW u \in {[tree EXCEPT ![p] = "none"], [tree EXCEPT ![p] = "dir"]},
               Change(tree, u), Becomes(u)
        PROVE  ListInv'
    BY <1>5, <2>2, FilesChange DEF MakeRemoveDir
  <2>3. ASSUME NEW p \in Paths, Children(tree, p) = {} PROVE Change(tree, [tree EXCEPT ![p] = "none"])
    BY <1>0, <2>3, OneRemoved
  <2>4. ASSUME NEW p \in Paths, tree[p] = "none", At(tree, Front(p)) = "dir"
        PROVE  Change(tree, [tree EXCEPT ![p] = "dir"])
    BY <1>0, <2>4, OneMade
  <2> QED BY <1>5, <2>1, <2>2, <2>3, <2>4 DEF MakeRemoveDir, Arguments
<1>6. ASSUME NEW listen \in BOOLEAN, DataSocket(c, listen) PROVE ListInv'
  <2> DEFINE l == [Closed(conn[c]) EXCEPT !.st = IF listen THEN "listen" ELSE "bound",
                                          !.bIsListen = listen]
             v == [NoTalk EXCEPT !.list = "offered"]
  <2>1. conn' = [conn EXCEPT ![c] = l] /\ talk' = [talk EXCEPT ![c] = v] /\ UNCHANGED tree
    BY <1>6 DEF DataSocket
  <2>2. Closed(conn[c]) \in ConnType /\ ~Closed(conn[c]).bDirHasEntry
    BY <1>0, ClosedType
  <2>3. l \in ConnType /\ ~l.bDirHasEntry
    BY <2>2 DEF ConnType
  <2>4. v \in TalkType /\ v.list = "offered" /\ v.lines = {} /\ v.sent = 0
    BY DEF NoTalk, TalkType
  <2> HIDE DEF l, v
  <2>5. ListingOk(l, v, tree)
    BY <2>3, <2>4 DEF ListingOk
  <2> QED BY <2>1, <2>5, OneListing
<1> QED BY <1>2, <1>3, <1>4, <1>5, <1>6, ListIsKept DEF ProcessCommand

\* Every step keeps every listing.
LEMMA ListStep == ListInv /\ NamedInv' /\ [Next]_vars => ListInv'
<1> SUFFICES ASSUME ListInv, NamedInv', [Next]_vars PROVE ListInv'
  OBVIOUS
<1>0. /\ tree \in Trees /\ TreeClosed(tree)
      /\ conn \in [Clients -> ConnType] /\ talk \in [Clients -> TalkType]
      /\ \A c \in Clients : ListingOk(conn[c], talk[c], tree)
  BY DEF ListInv
<1>1. CASE OtherWrites
  <2>1. PICK p \in Paths : /\ tree[p] = "none" /\ At(tree, Front(p)) = "dir"
                           /\ Becomes([tree EXCEPT ![p] = "file"])
    BY <1>1 DEF OtherWrites
  <2>2. Change(tree, [tree EXCEPT ![p] = "file"])
    BY <1>0, <2>1, OneMade
  <2> QED BY <1>1, <2>1, <2>2, FilesChange DEF OtherWrites
<1>2. ASSUME NEW c \in Clients, Delete(c) PROVE ListInv'
  <2>1. NoConn \in ConnType /\ ~NoConn.bDirHasEntry
    <3>1. 0 \in 0..(Cardinality(Paths) + 1)
      BY SeenBound
    <3> QED BY <3>1 DEF NoConn, ConnType, Places
  <2>2. NoTalk \in TalkType /\ NoTalk.list = "none" /\ NoTalk.lines = {} /\ NoTalk.sent = 0
    BY DEF NoTalk, TalkType
  <2>3. ListingOk(NoConn, NoTalk, tree)
    BY <2>1, <2>2 DEF ListingOk
  <2> QED BY <1>2, <2>3, OneListing DEF Delete
\* The peer and the stack change the state of the connection only.
<1>3. ASSUME NEW c \in Clients, NEW w \in {"estab", "closed"}, NEW v,
             conn' = [conn EXCEPT ![c].st = w], UNCHANGED tree,
             v \in {talk[c], [talk[c] EXCEPT !.calm = FALSE]}, talk' = [talk EXCEPT ![c] = v]
      PROVE  ListInv'
  <2> DEFINE l == [conn[c] EXCEPT !.st = w]
  <2>1. conn' = [conn EXCEPT ![c] = l]
    BY <1>0, <1>3
  <2>2. /\ l \in ConnType /\ l.bDirHasEntry = conn[c].bDirHasEntry /\ l.xDirCount = conn[c].xDirCount
        /\ l.seen = conn[c].seen /\ l.found = conn[c].found /\ l.dir = conn[c].dir
    BY <1>0 DEF ConnType
  <2>3. /\ v \in TalkType /\ v.list = talk[c].list /\ v.lines = talk[c].lines /\ v.sent = talk[c].sent
        /\ v.there = talk[c].there /\ v.told = talk[c].told /\ v.broken = talk[c].broken
    BY <1>0, <1>3 DEF TalkType
  <2> HIDE DEF l
  <2>4. ListingOk(l, v, tree)
    BY <1>0, <2>2, <2>3 DEF ListingOk
  <2> QED BY <1>3, <2>1, <2>4, OneListing
<1>4. ASSUME NEW c \in Clients, PeerConnects(c) \/ StackCloses(c) PROVE ListInv'
  <2>1. talk' = [talk EXCEPT ![c] = talk[c]]
    BY <1>0, <1>4 DEF PeerConnects, StackCloses
  <2> QED BY <1>3, <1>4, <2>1 DEF PeerConnects, StackCloses
<1>5. ASSUME NEW c \in Clients, PeerCloses(c) PROVE ListInv'
  <2>1. talk' = [talk EXCEPT ![c] = [talk[c] EXCEPT !.calm = FALSE]]
    BY <1>0, <1>5 DEF PeerCloses
  <2> QED BY <1>3, <1>5, <2>1 DEF PeerCloses
<1>6. CASE UNCHANGED vars
  BY <1>6 DEF vars, ListInv
<1> QED BY <1>1, <1>2, <1>4, <1>5, <1>6, CommandIsKept, WorkIsKept DEF Next

\* There is no listing at first.
LEMMA ListInit == Init => ListInv
<1> SUFFICES ASSUME Init PROVE ListInv
  OBVIOUS
<1>1. NoConn \in ConnType /\ ~NoConn.bDirHasEntry
  <2>1. 0 \in 0..(Cardinality(Paths) + 1)
    BY SeenBound
  <2> QED BY <2>1 DEF NoConn, ConnType, Places
<1>2. NoTalk \in TalkType /\ NoTalk.list = "none" /\ NoTalk.lines = {} /\ NoTalk.sent = 0
  BY DEF NoTalk, TalkType
<1>3. ListingOk(NoConn, NoTalk, tree)
  BY <1>1, <1>2 DEF ListingOk
<1>4. /\ conn \in [Clients -> ConnType] /\ talk \in [Clients -> TalkType]
      /\ \A c \in Clients : ListingOk(conn[c], talk[c], tree)
  BY <1>1, <1>2, <1>3 DEF Init
<1> QED BY <1>4, NamedInit DEF Init, ListInv, Trees, TreeClosed

\* The invariant holds in every reachable state.
LEMMA ListHolds == Spec => []ListInv
BY ListInit, ListStep, Naming, PTL DEF Spec

\* The sessions, the data connections and the files stay in their types for any
\* clients, paths and commands; a listing counts no more lines (xDirCount) than
\* a directory can have entries.
THEOREM TypeCorrect == Spec => []TypeOK
<1>1. ListInv => TypeOK
  BY DEF ListInv, NamedInv, TypeOK, Trees, ConnType, Places
<1> QED BY <1>1, ListHolds, PTL

\* prvListSendPrep, prvListSendWork: the 226 counts the lines that were sent,
\* and what was there from LIST to 226 has its line unless ff_findnext failed,
\* while any other sessions and tasks make, remove and rename files and
\* directories.
THEOREM ListingsComplete == Spec => []ListComplete
<1>1. ListInv => ListComplete
  BY DEF ListInv, ListingOk, ListComplete
<1> QED BY <1>1, ListHolds, PTL
=============================================================================
