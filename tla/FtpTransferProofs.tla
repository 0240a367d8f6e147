------------------------- MODULE FtpTransferProofs -------------------------
(***************************************************************************)
(* For any number of data sockets, any size of the file, of the disk and   *)
(* of the streams: the types; every open file is the one a handle stands   *)
(* for; the data sockets of a patient peer are closed before another one   *)
(* is made, and at the end of the session; and a transfer that is answered *)
(* by 226 is complete: an upload is in the file as it was sent, and the    *)
(* peer has all of the file that it asked for.                             *)
(*                                                                         *)
(* What the calls below the next one may be decides what is done after it, *)
(* so the stack comes first: Under says what may wait below each call.     *)
(***************************************************************************)
EXTENDS FtpTransfer, SequenceTheorems, TLAPS

-----------------------------------------------------------------------------
(* The stack of the server task's calls *)

\* The call that is made next, and those that wait for it to return.
Top   == IF stack = <<>> THEN "none" ELSE Head(stack)
Below == {stack[i] : i \in 2..Len(stack)}
On(l) == l = Top \/ l \in Below

\* What may wait below a call.
Ground     == {"recv", "close", "closefile", "delete"}
UnderCheck == Ground \cup {"data", "work", "retrprep", "storprep", "setwrite", "stored"}
Under == [l \in Labels |->
  CASE l \in {"recv", "delete"} -> {}
    [] l \in {"data", "work", "worked"} -> Ground
    [] l \in {"retrieve", "allsent"} -> Ground \cup {"worked"}
    [] l = "setwrite" -> {"data", "recv", "stored"}
    [] l \in {"check", "acceptrx", "accept", "ack", "drained", "closefile"} -> UnderCheck
    [] l \in {"close", "close2", "closing"} -> UnderCheck \cup {"listen", "bind"}
    [] l = "store" -> UnderCheck \cup {"worked", "store", "close2", "listen", "bind"}
    [] OTHER -> {"data", "recv"}]

Ordered(s) == \A i, j \in DOMAIN s : i < j => s[j] \in Under[s[i]]

StackInv == stack \in Seq(Labels) /\ Ordered(stack)

Pops == \/ Top' \in Below /\ Below' \subseteq Below /\ Below \subseteq Below' \cup {Top'}
        \/ Top' = "none" /\ Below = {} /\ Below' = {}
Pushes(t, b) == Top' = t /\ Below' = Below \cup b

\* Calls that may have what is below the one that makes them below themselves
\* leave an ordered stack.
LEMMA PushOrdered ==
  ASSUME NEW t \in Seq(Labels), t # <<>>, Ordered(t), NEW s \in Seq(Labels), Ordered(s),
         \A i \in DOMAIN s : Under[t[1]] \subseteq Under[s[i]]
  PROVE  s \o Tail(t) \in Seq(Labels) /\ Ordered(s \o Tail(t))
<1>1. /\ Tail(t) \in Seq(Labels) /\ Len(Tail(t)) = Len(t) - 1 /\ Len(t) \in Nat /\ Len(t) # 0
      /\ \A i \in 1..Len(t) - 1 : Tail(t)[i] = t[i + 1]
  BY HeadTailProperties, EmptySeq
<1>2. /\ Len(s) \in Nat /\ DOMAIN s = 1..Len(s) /\ DOMAIN t = 1..Len(t)
  OBVIOUS
<1> DEFINE u == s \o Tail(t)
<1>3. /\ u \in Seq(Labels) /\ Len(u) = Len(s) + (Len(t) - 1)
      /\ \A i \in 1..Len(u) : u[i] = IF i <= Len(s) THEN s[i] ELSE Tail(t)[i - Len(s)]
      /\ DOMAIN u = 1..Len(u)
  BY <1>1, <1>2, ConcatProperties
<1>4. \A i \in 1..Len(u) : u[i] = IF i <= Len(s) THEN s[i] ELSE t[i - Len(s) + 1]
  BY <1>1, <1>2, <1>3
<1>5. ASSUME NEW i \in DOMAIN u, NEW j \in DOMAIN u, i < j PROVE u[j] \in Under[u[i]]
  <2>0. i \in 1..Len(u) /\ j \in 1..Len(u)
    BY <1>3
  <2> HIDE DEF u
  <2>1. CASE j <= Len(s)
    <3>1. i \in DOMAIN s /\ j \in DOMAIN s /\ u[i] = s[i] /\ u[j] = s[j]
      BY <1>2, <1>4, <1>5, <2>0, <2>1
    <3> QED BY <3>1, <1>5 DEF Ordered
  <2>2. CASE i <= Len(s) /\ j > Len(s)
    <3>1. i \in DOMAIN s /\ u[i] = s[i] /\ u[j] = t[j - Len(s) + 1]
      BY <1>2, <1>4, <2>0, <2>2
    <3>2. j - Len(s) + 1 \in DOMAIN t /\ 1 \in DOMAIN t /\ 1 < j - Len(s) + 1
      BY <1>1, <1>2, <1>3, <2>0, <2>2
    <3>3. t[j - Len(s) + 1] \in Under[t[1]]
      BY <3>2 DEF Ordered
    <3> QED BY <3>1, <3>3
  <2>3. CASE i > Len(s)
    <3>0. ~(i <= Len(s)) /\ ~(j <= Len(s))
      BY <1>2, <1>3, <1>5, <2>0, <2>3
    <3>1. u[i] = t[i - Len(s) + 1] /\ u[j] = t[j - Len(s) + 1]
      BY <1>4, <2>0, <3>0
    <3>2. i - Len(s) + 1 \in DOMAIN t /\ j - Len(s) + 1 \in DOMAIN t
          /\ i - Len(s) + 1 < j - Len(s) + 1
      BY <1>1, <1>2, <1>3, <1>5, <2>0, <2>3
    <3> QED BY <3>1, <3>2 DEF Ordered
  <2> QED BY <1>2, <2>0, <2>1, <2>2, <2>3
<1> QED BY <1>3, <1>5 DEF Ordered

\* The stack, by the call in front and the calls below.
LEMMA TopIs ==
  ASSUME StackInv
  PROVE  /\ Top = "none" <=> stack = <<>>
         /\ \A l \in Labels : At(l) <=> Top = l
         /\ stack # <<>> => Top = Head(stack) /\ Top = stack[1] /\ Top \in Labels
         /\ Below \subseteq Labels
         /\ stack # <<>> => Below \subseteq Under[Top]
         /\ stack = <<>> => Below = {}
<1>1. Len(stack) \in Nat /\ DOMAIN stack = 1..Len(stack) /\ (stack = <<>> <=> Len(stack) = 0)
      /\ (stack # <<>> => Head(stack) = stack[1])
      /\ \A i \in 1..Len(stack) : stack[i] \in Labels
  BY EmptySeq DEF StackInv
<1>2. "none" \notin Labels
  BY DEF Labels
<1>3. stack # <<>> => Top = Head(stack) /\ Top = stack[1] /\ Top \in Labels
  BY <1>1 DEF Top
<1>4. Below \subseteq Labels /\ (stack = <<>> => Below = {})
  BY <1>1 DEF Below
<1>5. stack # <<>> => Below \subseteq Under[Top]
  BY <1>1, <1>3 DEF Below, StackInv, Ordered
<1>6. \A l \in Labels : At(l) <=> Top = l
  BY <1>2 DEF At, Top
<1> QED BY <1>2, <1>3, <1>4, <1>5, <1>6 DEF Top

\* What a call that pushes none, one or more others does to the two.
LEMMA Moves ==
  ASSUME StackInv, stack # <<>>
  PROVE  /\ Calls(<<>>) => Pops
         /\ \A a : Calls(<<a>>) => Pushes(a, {})
         /\ \A a, b : Calls(<<a, b>>) => Pushes(a, {b})
         /\ \A a, b, c : Calls(<<a, b, c>>) => Pushes(a, {b, c})
         /\ \A a, b, c, d : Calls(<<a, b, c, d>>) => Pushes(a, {b, c, d})
<1>1. /\ Tail(stack) \in Seq(Labels) /\ Len(Tail(stack)) = Len(stack) - 1
      /\ Len(stack) \in Nat /\ Len(stack) # 0
      /\ \A i \in 1..Len(stack) - 1 : Tail(stack)[i] = stack[i + 1]
  BY HeadTailProperties, EmptySeq DEF StackInv
<1> DEFINE n == Len(stack)
           t == Tail(stack)
<1>2. Below = {t[i] : i \in 1..n - 1}
  <2>1. \A i \in 2..n : i - 1 \in 1..n - 1 /\ stack[i] = t[i - 1]
    BY <1>1
  <2>2. \A i \in 1..n - 1 : i + 1 \in 2..n /\ t[i] = stack[i + 1]
    BY <1>1
  <2>3. Below = {stack[i] : i \in 2..n}
    BY DEF Below
  <2> HIDE DEF n, t
  <2>4. {stack[i] : i \in 2..n} \subseteq {t[i] : i \in 1..n - 1}
    BY <2>1
  <2>5. {t[i] : i \in 1..n - 1} \subseteq {stack[i] : i \in 2..n}
    BY <2>2
  <2> QED BY <2>3, <2>4, <2>5
<1>3. ASSUME NEW S, NEW s \in Seq(S), NEW k \in Nat, Len(s) = k, k # 0, stack' = s \o t
      PROVE  Top' = s[1] /\ Below' = Below \cup {s[i] : i \in 2..k}
  <2> DEFINE X == S \cup Labels
             u == s \o t
  <2>1. s \in Seq(X) /\ t \in Seq(X)
    BY <1>1, <1>3
  <2>a. s \o t \in Seq(X) /\ Len(s \o t) = Len(s) + Len(t)
        /\ \A i \in 1..Len(s) + Len(t) : (s \o t)[i] = IF i <= Len(s) THEN s[i] ELSE t[i - Len(s)]
    <3> HIDE DEF X, t
    <3> QED BY <2>1, ConcatProperties, Zenon
  <2>2. u \in Seq(X) /\ Len(u) = k + (n - 1)
        /\ \A i \in 1..Len(u) : u[i] = IF i <= k THEN s[i] ELSE t[i - k]
    BY <1>1, <1>3, <2>a
  <2> HIDE DEF X, u
  <2>3. u # <<>> /\ Head(u) = u[1] /\ u[1] = s[1]
    BY <1>1, <1>3, <2>2, EmptySeq
  <2>4. {u[i] : i \in 2..Len(u)} = {t[i] : i \in 1..n - 1} \cup {s[i] : i \in 2..k}
    <3>1. \A i \in 2..Len(u) : IF i <= k THEN i \in 2..k /\ u[i] = s[i]
                                ELSE i - k \in 1..n - 1 /\ u[i] = t[i - k]
      BY <1>1, <1>3, <2>2
    <3>2. ASSUME NEW i \in 1..n - 1 PROVE i + k \in 2..Len(u) /\ u[i + k] = t[i]
      <4>1. i + k \in 2..Len(u) /\ i + k \in 1..Len(u) /\ ~(i + k <= k) /\ (i + k) - k = i
        BY <1>1, <1>3, <2>2
      <4> HIDE DEF t, n
      <4> QED BY <2>2, <4>1
    <3>3. \A i \in 2..k : i \in 2..Len(u) /\ u[i] = s[i]
      BY <1>1, <1>3, <2>2
    <3> HIDE DEF n, t
    <3>4. ASSUME NEW i \in 2..Len(u) PROVE u[i] \in {t[j] : j \in 1..n - 1} \cup {s[j] : j \in 2..k}
      BY <3>1
    <3>5. ASSUME NEW i \in 1..n - 1 PROVE t[i] \in {u[j] : j \in 2..Len(u)}
      BY <3>2
    <3>6. ASSUME NEW i \in 2..k PROVE s[i] \in {u[j] : j \in 2..Len(u)}
      BY <3>3
    <3> QED BY <3>4, <3>5, <3>6
  <2>5. stack' = u
    BY <1>3 DEF u
  <2> QED BY <1>2, <2>3, <2>4, <2>5 DEF Top, Below
<1>4. Calls(<<>>) => Pops
  <2> SUFFICES ASSUME Calls(<<>>) PROVE Pops
    OBVIOUS
  <2>1. stack' = t
    BY <1>1, ConcatProperties, EmptySeq DEF Calls
  <2>2. CASE n = 1
    <3>1. stack' = <<>> /\ Below = {} /\ Below' = {}
      BY <1>1, <1>2, <2>1, <2>2, EmptySeq DEF Below
    <3> QED BY <3>1 DEF Pops, Top
  <2>3. CASE n # 1
    <3>0. t \in Seq(Labels) /\ Len(t) = n - 1 /\ n - 1 # 0 /\ 1 \in 1..n - 1
      BY <1>1, <2>3
    <3>1. stack' # <<>> /\ Head(stack') = t[1] /\ 1 \in 1..n - 1 /\ Len(stack') = n - 1
      <4> HIDE DEF t, n
      <4> QED BY <2>1, <3>0, EmptySeq
    <3>2. Top' = t[1] /\ Below' = {t[i] : i \in 2..n - 1}
      BY <2>1, <3>1 DEF Top, Below
    <3>3. \A i \in 1..n - 1 : i = 1 \/ i \in 2..n - 1
      BY <1>1
    <3>4. \A i \in 2..n - 1 : i \in 1..n - 1
      BY <1>1
    <3> HIDE DEF n, t
    <3> QED BY <1>2, <3>1, <3>2, <3>3, <3>4 DEF Pops
  <2> QED BY <2>2, <2>3
<1>5. ASSUME NEW a, Calls(<<a>>) PROVE Pushes(a, {})
  <2>1. Top' = <<a>>[1] /\ Below' = Below \cup {<<a>>[i] : i \in 2..1}
    <3>1. <<a>> \in Seq({a}) /\ Len(<<a>>) = 1 /\ 1 \in Nat /\ 1 # 0
      OBVIOUS
    <3>2. stack' = <<a>> \o t
      BY <1>5 DEF Calls
    <3> HIDE DEF t
    <3> QED BY <1>3, <3>1, <3>2, Zenon
  <2> QED BY <2>1 DEF Pushes
<1>6. ASSUME NEW a, NEW b, Calls(<<a, b>>) PROVE Pushes(a, {b})
  <2>1. Top' = <<a, b>>[1] /\ Below' = Below \cup {<<a, b>>[i] : i \in 2..2}
    <3>1. <<a, b>> \in Seq({a, b}) /\ Len(<<a, b>>) = 2 /\ 2 \in Nat /\ 2 # 0
      OBVIOUS
    <3>2. stack' = <<a, b>> \o t
      BY <1>6 DEF Calls
    <3> HIDE DEF t
    <3> QED BY <1>3, <3>1, <3>2, Zenon
  <2> QED BY <2>1 DEF Pushes
<1>7. ASSUME NEW a, NEW b, NEW c, Calls(<<a, b, c>>) PROVE Pushes(a, {b, c})
  <2>1. Top' = <<a, b, c>>[1] /\ Below' = Below \cup {<<a, b, c>>[i] : i \in 2..3}
    <3>1. <<a, b, c>> \in Seq({a, b, c}) /\ Len(<<a, b, c>>) = 3 /\ 3 \in Nat /\ 3 # 0
      OBVIOUS
    <3>2. stack' = <<a, b, c>> \o t
      BY <1>7 DEF Calls
    <3> HIDE DEF t
    <3> QED BY <1>3, <3>1, <3>2, Zenon
  <2> QED BY <2>1 DEF Pushes
<1>8. ASSUME NEW a, NEW b, NEW c, NEW d, Calls(<<a, b, c, d>>) PROVE Pushes(a, {b, c, d})
  <2>1. Top' = <<a, b, c, d>>[1] /\ Below' = Below \cup {<<a, b, c, d>>[i] : i \in 2..4}
    <3>1. <<a, b, c, d>> \in Seq({a, b, c, d}) /\ Len(<<a, b, c, d>>) = 4 /\ 4 \in Nat /\ 4 # 0
      OBVIOUS
    <3>2. stack' = <<a, b, c, d>> \o t
      BY <1>8 DEF Calls
    <3> HIDE DEF t
    <3> QED BY <1>3, <3>1, <3>2, Zenon
  <2> QED BY <2>1 DEF Pushes
<1> QED BY <1>4, <1>5, <1>6, <1>7, <1>8

\* What may wait below each call, call by call.
LEMMA UnderIs ==
  /\ \A l \in {"recv", "delete"} : Under[l] = {}
  /\ \A l \in {"data", "work", "worked"} : Under[l] = Ground
  /\ \A l \in {"retrieve", "allsent"} : Under[l] = Ground \cup {"worked"}
  /\ Under["setwrite"] = {"data", "recv", "stored"}
  /\ \A l \in {"check", "acceptrx", "accept", "ack", "drained", "closefile"} : Under[l] = UnderCheck
  /\ \A l \in {"close", "close2", "closing"} : Under[l] = UnderCheck \cup {"listen", "bind"}
  /\ Under["store"] = UnderCheck \cup {"worked", "store", "close2", "listen", "bind"}
  /\ \A l \in Commands \cup {"listen", "bind", "retrprep", "storprep", "stored"} : Under[l] = {"data", "recv"}
  BY DEF Under, Labels, Commands

\* One to four calls in place of the one that makes them leave an ordered stack,
\* if what was below it may be below each of them.
LEMMA StackMoves ==
  ASSUME StackInv, stack # <<>>
  PROVE  /\ Calls(<<>>) => StackInv'
         /\ \A a \in Labels : Calls(<<a>>) /\ Under[Top] \subseteq Under[a] => StackInv'
         /\ \A a, b \in Labels : Calls(<<a, b>>) /\ Under[Top] \subseteq Under[a] \cap Under[b]
               /\ b \in Under[a] => StackInv'
         /\ \A a, b, c \in Labels :
               Calls(<<a, b, c>>) /\ Under[Top] \subseteq Under[a] \cap Under[b] \cap Under[c]
               /\ b \in Under[a] /\ c \in Under[a] \cap Under[b] => StackInv'
         /\ \A a, b, c, d \in Labels :
               Calls(<<a, b, c, d>>) /\ Under[Top] \subseteq Under[a] \cap Under[b] \cap Under[c] \cap Under[d]
               /\ b \in Under[a] /\ c \in Under[a] \cap Under[b] /\ d \in Under[a] \cap Under[b] \cap Under[c] => StackInv'
<1>1. stack \in Seq(Labels) /\ Ordered(stack) /\ Top = stack[1]
  BY TopIs DEF StackInv
<1>2. ASSUME NEW s \in Seq(Labels), Ordered(s), \A i \in DOMAIN s : Under[Top] \subseteq Under[s[i]], Calls(s)
      PROVE  StackInv'
  <2>1. s \o Tail(stack) \in Seq(Labels) /\ Ordered(s \o Tail(stack))
    BY <1>1, <1>2, PushOrdered
  <2>2. stack' = s \o Tail(stack)
    BY <1>2 DEF Calls
  <2> QED BY <2>1, <2>2 DEF StackInv, Ordered
<1>3. Calls(<<>>) => StackInv'
  <2>1. <<>> \in Seq(Labels) /\ DOMAIN <<>> = {}
    OBVIOUS
  <2> QED BY <1>2, <2>1, Zenon DEF Ordered
<1>4. ASSUME NEW a \in Labels, Calls(<<a>>), Under[Top] \subseteq Under[a] PROVE StackInv'
  <2>1. <<a>> \in Seq(Labels) /\ Ordered(<<a>>) /\ \A i \in DOMAIN <<a>> : Under[Top] \subseteq Under[<<a>>[i]]
    BY <1>4 DEF Ordered
  <2> QED BY <1>2, <1>4, <2>1
<1>5. ASSUME NEW a \in Labels, NEW b \in Labels, Calls(<<a, b>>), Under[Top] \subseteq Under[a] \cap Under[b],
             b \in Under[a]
      PROVE StackInv'
  <2>1. <<a, b>> \in Seq(Labels) /\ Ordered(<<a, b>>) /\ \A i \in DOMAIN <<a, b>> : Under[Top] \subseteq Under[<<a, b>>[i]]
    BY <1>5 DEF Ordered
  <2> QED BY <1>2, <1>5, <2>1
<1>6. ASSUME NEW a \in Labels, NEW b \in Labels, NEW c \in Labels, Calls(<<a, b, c>>),
             Under[Top] \subseteq Under[a] \cap Under[b] \cap Under[c],
             b \in Under[a], c \in Under[a] \cap Under[b]
      PROVE StackInv'
  <2>1. <<a, b, c>> \in Seq(Labels) /\ Ordered(<<a, b, c>>) /\ \A i \in DOMAIN <<a, b, c>> : Under[Top] \subseteq Under[<<a, b, c>>[i]]
    BY <1>6 DEF Ordered
  <2> QED BY <1>2, <1>6, <2>1
<1>7. ASSUME NEW a \in Labels, NEW b \in Labels, NEW c \in Labels, NEW d \in Labels, Calls(<<a, b, c, d>>),
             Under[Top] \subseteq Under[a] \cap Under[b] \cap Under[c] \cap Under[d],
             b \in Under[a], c \in Under[a] \cap Under[b], d \in Under[a] \cap Under[b] \cap Under[c]
      PROVE StackInv'
  <2>1. <<a, b, c, d>> \in Seq(Labels) /\ Ordered(<<a, b, c, d>>) /\ \A i \in DOMAIN <<a, b, c, d>> : Under[Top] \subseteq Under[<<a, b, c, d>>[i]]
    BY <1>7 DEF Ordered
  <2> QED BY <1>2, <1>7, <2>1
<1> QED BY <1>3, <1>4, <1>5, <1>6, <1>7

\* The calls there are: the value that decides every comparison of two of them.
LEMMA LabelsAre ==
  Labels = {"recv", "data", "work", "worked", "pasv", "port", "listen", "bind", "rest", "retr",
           "retrprep", "stor", "storprep", "setwrite", "stored", "size",
           "check", "accept", "acceptrx", "ack", "drained", "close", "close2", "closing",
           "closefile", "store", "retrieve", "allsent", "delete"}
  BY DEF Labels

\* What may be below each of the calls that push others.
LEMMA LoopMoves ==
  ASSUME StackInv, cmd \in Commands \cup {"none"}
  PROVE  /\ Recv => StackInv' /\ Top = "recv" /\ Below = {}
               /\ \/ cmd # "none" /\ cmd' = "none" /\ Pushes(cmd, {"data", "recv"})
                  \/ cmd = "none" /\ cmd' = "none" /\ peer /\ Pushes("data", {"recv"})
                  \/ cmd = "none" /\ cmd' = "none" /\ ~peer /\ Pushes("data", {"close", "closefile", "delete"})
         /\ Data => StackInv' /\ Top = "data" /\ IF Socket = 0 THEN Pops ELSE Pushes("check", {"work"})
         /\ Work => StackInv' /\ Top = "work"
               /\ \/ Pops
                  \/ /\ Socket # 0 /\ ~pxClient.pcConnectionAck /\ pxClient.pxReadHandle
                     /\ Pushes("retrieve", {"worked"})
                  \/ /\ Socket # 0 /\ ~pxClient.pcConnectionAck /\ pxClient.pxWriteHandle
                     /\ ~pxClient.pxReadHandle /\ Pushes("store", {"worked"})
         /\ Worked => StackInv' /\ Top = "worked"
               /\ IF xRc < 0 THEN Pushes("close", {"closefile"}) ELSE Pops
         /\ Delete => StackInv' /\ Top = "delete" /\ Pops /\ Below = {} /\ Top' = "none" /\ Below' = {}
<1>1. ASSUME Recv PROVE StackInv' /\ Top = "recv" /\ Below = {}
         /\ \/ cmd # "none" /\ cmd' = "none" /\ Pushes(cmd, {"data", "recv"})
            \/ cmd = "none" /\ cmd' = "none" /\ peer /\ Pushes("data", {"recv"})
            \/ cmd = "none" /\ cmd' = "none" /\ ~peer /\ Pushes("data", {"close", "closefile", "delete"})
  <2>1. Top = "recv" /\ stack # <<>> /\ Under[Top] = {}  /\ Below = {}
    BY <1>1, TopIs, LabelsAre, UnderIs DEF Recv, At
  <2>2. CASE cmd # "none" /\ cmd' = "none" /\ Calls(<<cmd, "data", "recv">>)
    <3>1. Pushes(cmd, {"data", "recv"})
      BY <2>1, <2>2, Moves
    <3>2. cmd \in Labels /\ "data" \in Labels /\ "recv" \in Labels
      BY <2>2, LabelsAre DEF Commands
    <3>3. "data" \in Under[cmd] /\ "recv" \in Under[cmd] /\ "recv" \in Under["data"]
      BY <2>2, UnderIs DEF Ground
    <3> QED BY <2>1, <2>2, <3>1, <3>2, <3>3, StackMoves
  <2>3. CASE cmd = "none" /\ peer /\ Calls(<<"data", "recv">>) /\ cmd' = cmd
    <3>1. Pushes("data", {"recv"})
      BY <2>1, <2>3, Moves
    <3>2. "data" \in Labels /\ "recv" \in Labels
      BY LabelsAre
    <3>3. "recv" \in Under["data"]
      BY UnderIs DEF Ground
    <3> QED BY <2>1, <2>3, <3>1, <3>2, <3>3, StackMoves
  <2>4. CASE cmd = "none" /\ ~peer /\ Calls(<<"data", "close", "closefile", "delete">>) /\ cmd' = cmd
    <3>1. Pushes("data", {"close", "closefile", "delete"})
      BY <2>1, <2>4, Moves
    <3>2. "data" \in Labels /\ "close" \in Labels /\ "closefile" \in Labels /\ "delete" \in Labels
      BY LabelsAre
    <3>3. /\ "close" \in Under["data"] /\ "closefile" \in Under["data"] /\ "delete" \in Under["data"]
          /\ "closefile" \in Under["close"] /\ "delete" \in Under["close"] /\ "delete" \in Under["closefile"]
      BY UnderIs DEF Ground, UnderCheck
    <3> QED BY <2>1, <2>4, <3>1, <3>2, <3>3, StackMoves
  <2> QED BY <1>1, <2>1, <2>2, <2>3, <2>4 DEF Recv
<1>2. ASSUME Data PROVE StackInv' /\ Top = "data" /\ IF Socket = 0 THEN Pops ELSE Pushes("check", {"work"})
  <2>1. Top = "data" /\ stack # <<>> /\ Under[Top] = Ground
    BY <1>2, TopIs, LabelsAre, UnderIs DEF Data, At
  <2>2. "check" \in Labels /\ "work" \in Labels
    BY LabelsAre
  <2>3. Ground \subseteq Under["check"] /\ Ground \subseteq Under["work"] /\ "work" \in Under["check"]
    BY UnderIs DEF UnderCheck
  <2> QED BY <1>2, <2>1, <2>2, <2>3, Moves, StackMoves DEF Data
<1>3. ASSUME Work
      PROVE  /\ StackInv' /\ Top = "work"
             /\ \/ Pops
                \/ /\ Socket # 0 /\ ~pxClient.pcConnectionAck /\ pxClient.pxReadHandle
                   /\ Pushes("retrieve", {"worked"})
                \/ /\ Socket # 0 /\ ~pxClient.pcConnectionAck /\ pxClient.pxWriteHandle
                   /\ ~pxClient.pxReadHandle /\ Pushes("store", {"worked"})
  <2>1. Top = "work" /\ stack # <<>> /\ Under[Top] = Ground
    BY <1>3, TopIs, LabelsAre, UnderIs DEF Work, At
  <2>2. "retrieve" \in Labels /\ "store" \in Labels /\ "worked" \in Labels
    BY LabelsAre
  <2>3. /\ Ground \subseteq Under["retrieve"] /\ Ground \subseteq Under["store"] /\ Ground \subseteq Under["worked"]
        /\ "worked" \in Under["retrieve"] /\ "worked" \in Under["store"]
    BY UnderIs DEF UnderCheck
  <2>4. \/ Calls(<<>>)
        \/ Socket # 0 /\ ~pxClient.pcConnectionAck /\ pxClient.pxReadHandle /\ Calls(<<"retrieve", "worked">>)
        \/ Socket # 0 /\ ~pxClient.pcConnectionAck /\ ~pxClient.pxReadHandle /\ pxClient.pxWriteHandle
           /\ Calls(<<"store", "worked">>)
    BY <1>3 DEF Work
  <2> QED BY <2>1, <2>2, <2>3, <2>4, Moves, StackMoves
<1>4. ASSUME Worked PROVE StackInv' /\ Top = "worked" /\ IF xRc < 0 THEN Pushes("close", {"closefile"}) ELSE Pops
  <2>1. Top = "worked" /\ stack # <<>> /\ Under[Top] = Ground
    BY <1>4, TopIs, LabelsAre, UnderIs DEF Worked, At
  <2>2. "close" \in Labels /\ "closefile" \in Labels
    BY LabelsAre
  <2>3. Ground \subseteq Under["close"] /\ Ground \subseteq Under["closefile"] /\ "closefile" \in Under["close"]
    BY UnderIs DEF UnderCheck, Ground
  <2> QED BY <1>4, <2>1, <2>2, <2>3, Moves, StackMoves DEF Worked
<1>5. ASSUME Delete PROVE StackInv' /\ Top = "delete" /\ Pops /\ Below = {} /\ Top' = "none" /\ Below' = {}
  <2>1. Top = "delete" /\ stack # <<>> /\ Under[Top] = {} /\ Below = {}
    BY <1>5, TopIs, LabelsAre, UnderIs DEF Delete, At
  <2>2. Pops /\ StackInv'
    BY <1>5, <2>1, Moves, StackMoves DEF Delete, Returns
  <2> QED BY <2>1, <2>2 DEF Pops
<1> QED BY <1>1, <1>2, <1>3, <1>4, <1>5

-----------------------------------------------------------------------------
(* What each call makes of the stack *)

\* Call l may push call a: what may be below l may be below a.
Fits(l, a) == l \in Labels /\ a \in Labels /\ Under[l] \subseteq Under[a]

\* Which calls may push which.
LEMMA FitsAre ==
  /\ Fits("pasv", "close") /\ Fits("pasv", "listen") /\ Fits("port", "close") /\ Fits("port", "bind")
  /\ Fits("retr", "check") /\ Fits("retr", "retrprep") /\ Fits("stor", "check") /\ Fits("stor", "storprep")
  /\ Fits("stored", "close") /\ Fits("stored", "closefile") /\ Fits("size", "store")
  /\ Fits("drained", "close") /\ Fits("drained", "closefile")
  /\ Fits("close", "store") /\ Fits("close", "close2") /\ Fits("close", "closing") /\ Fits("close2", "closing")
  /\ Fits("storprep", "stored") /\ Fits("storprep", "check") /\ Fits("storprep", "setwrite")
  /\ Fits("retrieve", "allsent")
  /\ Fits("check", "ack") /\ Fits("check", "acceptrx") /\ Fits("check", "accept")
  /\ Fits("accept", "ack") /\ Fits("acceptrx", "ack") /\ Fits("ack", "drained")
  /\ "listen" \in Under["close"] /\ "bind" \in Under["close"] /\ "closefile" \in Under["close"]
  /\ "retrprep" \in Under["check"] /\ "storprep" \in Under["check"] /\ "setwrite" \in Under["check"]
  /\ "stored" \in Under["check"] /\ "stored" \in Under["setwrite"]
  /\ "store" \in Under["store"] /\ "close2" \in Under["store"]
  BY UnderIs, LabelsAre DEF Fits, Ground, UnderCheck, Commands

\* A call that makes no other returns.
LEMMA Pop ==
  ASSUME StackInv, NEW l \in Labels, At(l), Calls(<<>>)
  PROVE  StackInv' /\ Top = l /\ Below \subseteq Under[l] /\ Pops
<1>1. Top = l /\ stack # <<>> /\ Below \subseteq Under[l]
  BY TopIs DEF At
<1> QED BY <1>1, Moves, StackMoves

\* A call that makes one other.
LEMMA Push1 ==
  ASSUME StackInv, NEW l, NEW a, At(l), Fits(l, a), Calls(<<a>>)
  PROVE  StackInv' /\ Top = l /\ Below \subseteq Under[l] /\ Pushes(a, {})
<1>1. Top = l /\ stack # <<>> /\ Below \subseteq Under[l]
  BY TopIs DEF At, Fits
<1> QED BY <1>1, Moves, StackMoves DEF Fits

\* A call that makes two others.
LEMMA Push2 ==
  ASSUME StackInv, NEW l, NEW a, NEW b, At(l), Fits(l, a), Fits(l, b), b \in Under[a], Calls(<<a, b>>)
  PROVE  StackInv' /\ Top = l /\ Below \subseteq Under[l] /\ Pushes(a, {b})
<1>1. Top = l /\ stack # <<>> /\ Below \subseteq Under[l]
  BY TopIs DEF At, Fits
<1> QED BY <1>1, Moves, StackMoves DEF Fits

\* A call that makes three others.
LEMMA Push3 ==
  ASSUME StackInv, NEW l, NEW a, NEW b, NEW c, At(l), Fits(l, a), Fits(l, b), Fits(l, c),
         b \in Under[a], c \in Under[a], c \in Under[b], Calls(<<a, b, c>>)
  PROVE  StackInv' /\ Top = l /\ Below \subseteq Under[l] /\ Pushes(a, {b, c})
<1>1. Top = l /\ stack # <<>> /\ Below \subseteq Under[l]
  BY TopIs DEF At, Fits
<1> QED BY <1>1, Moves, StackMoves DEF Fits

\* Two sequences of calls, one after the other.
LEMMA Joined ==
  /\ \A a, b : <<a>> \o <<b>> = <<a, b>>
  /\ \A a, b, c : <<a>> \o <<b, c>> = <<a, b, c>>
  /\ \A b : <<>> \o <<b>> = <<b>>
  /\ \A b, c : <<>> \o <<b, c>> = <<b, c>>
<1>1. ASSUME NEW a, NEW b PROVE <<a>> \o <<b>> = <<a, b>>
  <2>1. <<a>> \in Seq({a, b}) /\ <<b>> \in Seq({a, b}) /\ <<a, b>> \in Seq({a, b})
    OBVIOUS
  <2>2. /\ <<a>> \o <<b>> \in Seq({a, b}) /\ Len(<<a>> \o <<b>>) = 2
        /\ \A i \in 1..2 : (<<a>> \o <<b>>)[i] = <<a, b>>[i]
    BY <2>1, ConcatProperties
  <2> QED BY <2>1, <2>2, SeqEqual
<1>2. ASSUME NEW a, NEW b, NEW c PROVE <<a>> \o <<b, c>> = <<a, b, c>>
  <2>1. <<a>> \in Seq({a, b, c}) /\ <<b, c>> \in Seq({a, b, c}) /\ <<a, b, c>> \in Seq({a, b, c})
    OBVIOUS
  <2>2. /\ <<a>> \o <<b, c>> \in Seq({a, b, c}) /\ Len(<<a>> \o <<b, c>>) = 3
        /\ \A i \in 1..3 : (<<a>> \o <<b, c>>)[i] = <<a, b, c>>[i]
    BY <2>1, ConcatProperties
  <2> QED BY <2>1, <2>2, SeqEqual
<1>3. ASSUME NEW b PROVE <<>> \o <<b>> = <<b>>
  <2>1. <<b>> \in Seq({b})
    OBVIOUS
  <2> QED BY <2>1, ConcatEmptySeq
<1>4. ASSUME NEW b, NEW c PROVE <<>> \o <<b, c>> = <<b, c>>
  <2>1. <<b, c>> \in Seq({b, c})
    OBVIOUS
  <2> QED BY <2>1, ConcatEmptySeq
<1> QED BY <1>1, <1>2, <1>3, <1>4

\* prvProcessCommand: what the calls for each command are made from and make.
LEMMA CommandMoves ==
  ASSUME StackInv
  PROVE  /\ Pasv => StackInv' /\ Top = "pasv" /\ Below \subseteq {"data", "recv"} /\ Pushes("close", {"listen"})
         /\ Port => StackInv' /\ Top = "port" /\ Below \subseteq {"data", "recv"} /\ Pushes("close", {"bind"})
         /\ \A b \in BOOLEAN : TransferConnect(b) =>
              StackInv' /\ Top = (IF b THEN "listen" ELSE "bind") /\ Below \subseteq {"data", "recv"} /\ Pops
         /\ PortNoSocket => StackInv' /\ Top = "bind" /\ Below \subseteq {"data", "recv"} /\ Pops
         /\ Rest => StackInv' /\ Top = "rest" /\ Below \subseteq {"data", "recv"} /\ Pops
         /\ \A l \in {"retr", "stor"} : NoDataConnection(l) =>
              StackInv' /\ Top = l /\ Below \subseteq {"data", "recv"} /\ Pops
         /\ Transfer("retr", <<"retrprep">>) =>
              StackInv' /\ Top = "retr" /\ Below \subseteq {"data", "recv"}
                /\ IF Socket # 0 THEN Pushes("check", {"retrprep"}) ELSE Pushes("retrprep", {})
         /\ Transfer("stor", <<"storprep">>) =>
              StackInv' /\ Top = "stor" /\ Below \subseteq {"data", "recv"}
                /\ IF Socket # 0 THEN Pushes("check", {"storprep"}) ELSE Pushes("storprep", {})
         /\ Stored => StackInv' /\ Top = "stored" /\ Below \subseteq {"data", "recv"}
                /\ IF pxClient.bEmptyFile THEN Pushes("close", {"closefile"}) ELSE Pops
         /\ Size => StackInv' /\ Top = "size" /\ Below \subseteq {"data", "recv"}
                /\ IF pxClient.pxWriteHandle THEN Pushes("store", {"store"}) ELSE Pops
<1>1. Pasv => StackInv' /\ Top = "pasv" /\ Below \subseteq {"data", "recv"} /\ Pushes("close", {"listen"})
  <2>1. Under["pasv"] = {"data", "recv"}
    BY UnderIs DEF Commands
  <2> QED BY <2>1, Push2, FitsAre DEF Pasv
<1>2. Port => StackInv' /\ Top = "port" /\ Below \subseteq {"data", "recv"} /\ Pushes("close", {"bind"})
  <2>1. Under["port"] = {"data", "recv"}
    BY UnderIs DEF Commands
  <2> QED BY <2>1, Push2, FitsAre DEF Port
<1>3. ASSUME NEW b \in BOOLEAN, TransferConnect(b)
      PROVE  StackInv' /\ Top = (IF b THEN "listen" ELSE "bind") /\ Below \subseteq {"data", "recv"} /\ Pops
  <2>1. At(IF b THEN "listen" ELSE "bind") /\ Calls(<<>>)
    BY <1>3, Zenon DEF TransferConnect, Returns
  <2> QED BY <2>1, Pop, UnderIs, LabelsAre
<1>4. PortNoSocket => StackInv' /\ Top = "bind" /\ Below \subseteq {"data", "recv"} /\ Pops
  BY Pop, UnderIs, LabelsAre DEF PortNoSocket, Returns
<1>5. Rest => StackInv' /\ Top = "rest" /\ Below \subseteq {"data", "recv"} /\ Pops
  BY Pop, UnderIs, LabelsAre DEF Rest, Returns, Commands
<1>6. \A l \in {"retr", "stor"} : NoDataConnection(l) =>
         StackInv' /\ Top = l /\ Below \subseteq {"data", "recv"} /\ Pops
  BY Pop, UnderIs, LabelsAre DEF NoDataConnection, Returns, Commands
<1>7. Transfer("retr", <<"retrprep">>) =>
              StackInv' /\ Top = "retr" /\ Below \subseteq {"data", "recv"}
                /\ IF Socket # 0 THEN Pushes("check", {"retrprep"}) ELSE Pushes("retrprep", {})
  <2>1. Under["retr"] = {"data", "recv"}
    BY UnderIs DEF Commands
  <2>2. <<"check">> \o <<"retrprep">> = <<"check", "retrprep">> /\ <<>> \o <<"retrprep">> = <<"retrprep">>
    BY Joined, Zenon
  <2>3. Transfer("retr", <<"retrprep">>) => At("retr") /\ IF Socket # 0 THEN Calls(<<"check", "retrprep">>) ELSE Calls(<<"retrprep">>)
    BY <2>2, Zenon DEF Transfer
  <2> QED BY <2>1, <2>3, Push1, Push2, FitsAre
<1>8. Transfer("stor", <<"storprep">>) =>
              StackInv' /\ Top = "stor" /\ Below \subseteq {"data", "recv"}
                /\ IF Socket # 0 THEN Pushes("check", {"storprep"}) ELSE Pushes("storprep", {})
  <2>1. Under["stor"] = {"data", "recv"}
    BY UnderIs DEF Commands
  <2>2. <<"check">> \o <<"storprep">> = <<"check", "storprep">> /\ <<>> \o <<"storprep">> = <<"storprep">>
    BY Joined, Zenon
  <2>3. Transfer("stor", <<"storprep">>) => At("stor") /\ IF Socket # 0 THEN Calls(<<"check", "storprep">>) ELSE Calls(<<"storprep">>)
    BY <2>2, Zenon DEF Transfer
  <2> QED BY <2>1, <2>3, Push1, Push2, FitsAre
<1>9. Stored => StackInv' /\ Top = "stored" /\ Below \subseteq {"data", "recv"}
                /\ IF pxClient.bEmptyFile THEN Pushes("close", {"closefile"}) ELSE Pops
  <2>1. Under["stored"] = {"data", "recv"} /\ "stored" \in Labels
    BY UnderIs, LabelsAre
  <2> QED BY <2>1, Pop, Push2, FitsAre DEF Stored
<1>10. Size => StackInv' /\ Top = "size" /\ Below \subseteq {"data", "recv"}
                /\ IF pxClient.pxWriteHandle THEN Pushes("store", {"store"}) ELSE Pops
  <2>1. Under["size"] = {"data", "recv"} /\ "size" \in Labels
    BY UnderIs, LabelsAre DEF Commands
  <2>2. Pushes("store", {"store", "store"}) => Pushes("store", {"store"})
    BY DEF Pushes
  <2> QED BY <2>1, <2>2, Pop, Push3, FitsAre DEF Size
<1> QED BY <1>1, <1>2, <1>3, <1>4, <1>5, <1>6, <1>7, <1>8, <1>9, <1>10

\* prvTransferCheck.
LEMMA CheckMoves ==
  ASSUME StackInv
  PROVE  /\ Check => StackInv' /\ Top = "check" /\ Below \subseteq UnderCheck
              /\ Pushes(IF pxClient.bClientConnected THEN "ack" ELSE IF Rx > 0 THEN "acceptrx" ELSE "accept", {})
         /\ \A l \in {"accept", "acceptrx"} : Accept(l) =>
              StackInv' /\ Top = l /\ Below \subseteq UnderCheck /\ (Pops \/ Pushes("ack", {}))
         /\ Ack => StackInv' /\ Top = "ack" /\ Below \subseteq UnderCheck
              /\ IF St = "estab" THEN Pops ELSE Pushes("drained", {})
         /\ Drained => StackInv' /\ Top = "drained" /\ Below \subseteq UnderCheck
              /\ IF Rx = 0 THEN Pushes("close", {"closefile"}) ELSE Pops
<1>1. Check => StackInv' /\ Top = "check" /\ Below \subseteq UnderCheck
              /\ Pushes(IF pxClient.bClientConnected THEN "ack" ELSE IF Rx > 0 THEN "acceptrx" ELSE "accept", {})
  <2>1. Under["check"] = UnderCheck
    BY UnderIs
  <2> QED BY <2>1, Push1, FitsAre DEF Check
<1>2. ASSUME NEW l \in {"accept", "acceptrx"}, Accept(l)
      PROVE  StackInv' /\ Top = l /\ Below \subseteq UnderCheck /\ (Pops \/ Pushes("ack", {}))
  <2>1. At(l) /\ (Calls(<<>>) \/ Calls(<<"ack">>))
    BY <1>2 DEF Accept
  <2>2. Under[l] = UnderCheck /\ l \in Labels
    BY UnderIs, LabelsAre
  <2> QED BY <2>1, <2>2, Pop, Push1, FitsAre
<1>3. Ack => StackInv' /\ Top = "ack" /\ Below \subseteq UnderCheck
              /\ IF St = "estab" THEN Pops ELSE Pushes("drained", {})
  <2>1. Under["ack"] = UnderCheck /\ "ack" \in Labels
    BY UnderIs, LabelsAre
  <2> QED BY <2>1, Pop, Push1, FitsAre DEF Ack
<1>4. Drained => StackInv' /\ Top = "drained" /\ Below \subseteq UnderCheck
              /\ IF Rx = 0 THEN Pushes("close", {"closefile"}) ELSE Pops
  <2>1. Under["drained"] = UnderCheck /\ "drained" \in Labels
    BY UnderIs, LabelsAre
  <2> QED BY <2>1, Pop, Push2, FitsAre DEF Drained
<1> QED BY <1>1, <1>2, <1>3, <1>4

\* prvTransferCloseSocket and prvTransferCloseFile.
LEMMA CloseMoves ==
  ASSUME StackInv
  PROVE  /\ Close => StackInv' /\ Top = "close" /\ Below \subseteq UnderCheck \cup {"listen", "bind"}
              /\ IF Rx > 0 THEN Pushes("store", {"close2"}) ELSE Pushes("closing", {})
         /\ Close2 => StackInv' /\ Top = "close2" /\ Below \subseteq UnderCheck \cup {"listen", "bind"}
              /\ IF Rx > 0 THEN Pops ELSE Pushes("closing", {})
         /\ Closing => StackInv' /\ Top = "closing" /\ Below \subseteq UnderCheck \cup {"listen", "bind"} /\ Pops
         /\ CloseFile => StackInv' /\ Top = "closefile" /\ Below \subseteq UnderCheck /\ Pops
<1>1. Close => StackInv' /\ Top = "close" /\ Below \subseteq UnderCheck \cup {"listen", "bind"}
              /\ IF Rx > 0 THEN Pushes("store", {"close2"}) ELSE Pushes("closing", {})
  <2>1. Under["close"] = UnderCheck \cup {"listen", "bind"}
    BY UnderIs
  <2> QED BY <2>1, Push1, Push2, FitsAre DEF Close
<1>2. Close2 => StackInv' /\ Top = "close2" /\ Below \subseteq UnderCheck \cup {"listen", "bind"}
              /\ IF Rx > 0 THEN Pops ELSE Pushes("closing", {})
  <2>1. Under["close2"] = UnderCheck \cup {"listen", "bind"} /\ "close2" \in Labels
    BY UnderIs, LabelsAre
  <2> QED BY <2>1, Pop, Push1, FitsAre DEF Close2
<1>3. Closing => StackInv' /\ Top = "closing" /\ Below \subseteq UnderCheck \cup {"listen", "bind"} /\ Pops
  BY Pop, UnderIs, LabelsAre DEF Closing, Returns
<1>4. CloseFile => StackInv' /\ Top = "closefile" /\ Below \subseteq UnderCheck /\ Pops
  BY Pop, UnderIs, LabelsAre DEF CloseFile, Returns
<1> QED BY <1>1, <1>2, <1>3, <1>4

\* STOR: the preparation and the work.
LEMMA StoreMoves ==
  ASSUME StackInv
  PROVE  /\ StorePrepFails => StackInv' /\ Top = "storprep" /\ Below \subseteq {"data", "recv"} /\ Pushes("stored", {})
         /\ StorePrep => StackInv' /\ Top = "storprep" /\ Below \subseteq {"data", "recv"}
              /\ IF pxClient.bIsListen THEN Pushes("check", {"setwrite", "stored"}) ELSE Pushes("setwrite", {"stored"})
         /\ SetWrite => StackInv' /\ Top = "setwrite" /\ Below \subseteq {"data", "recv", "stored"} /\ Pops
         /\ StoreFileWork => StackInv' /\ Top = "store" /\ (Pops \/ (Top' = Top /\ Below' = Below))
         /\ StoreFileWorked => StackInv' /\ Top = "store" /\ Pops
<1>1. StorePrepFails => StackInv' /\ Top = "storprep" /\ Below \subseteq {"data", "recv"} /\ Pushes("stored", {})
  <2>1. Under["storprep"] = {"data", "recv"}
    BY UnderIs
  <2>2. StorePrepFails => At("storprep") /\ Calls(<<"stored">>)
    BY Zenon DEF StorePrepFails
  <2> QED BY <2>1, <2>2, Push1, FitsAre
<1>2. StorePrep => StackInv' /\ Top = "storprep" /\ Below \subseteq {"data", "recv"}
              /\ IF pxClient.bIsListen THEN Pushes("check", {"setwrite", "stored"}) ELSE Pushes("setwrite", {"stored"})
  <2>1. Under["storprep"] = {"data", "recv"}
    BY UnderIs
  <2>2. /\ <<"check">> \o <<"setwrite", "stored">> = <<"check", "setwrite", "stored">>
        /\ <<>> \o <<"setwrite", "stored">> = <<"setwrite", "stored">>
    BY Joined, Zenon
  <2>3. StorePrep => At("storprep") /\ IF pxClient.bIsListen THEN Calls(<<"check", "setwrite", "stored">>)
                                       ELSE Calls(<<"setwrite", "stored">>)
    BY <2>2, Zenon DEF StorePrep
  <2> QED BY <2>1, <2>3, Push2, Push3, FitsAre
<1>3. SetWrite => StackInv' /\ Top = "setwrite" /\ Below \subseteq {"data", "recv", "stored"} /\ Pops
  BY Pop, UnderIs, LabelsAre DEF SetWrite, Returns
<1>4. ASSUME StoreFileWork PROVE StackInv' /\ Top = "store" /\ (Pops \/ (Top' = Top /\ Below' = Below))
  <2>1. At("store") /\ (stack' = stack \/ Calls(<<>>))
    BY <1>4, Zenon DEF StoreFileWork, Returns
  <2>2. CASE stack' = stack
    <3>1. Top = "store"
      BY <2>1, TopIs, LabelsAre
    <3> QED BY <2>2, <3>1 DEF StackInv, Ordered, Top, Below
  <2>3. CASE Calls(<<>>)
    <3>1. "store" \in Labels
      BY LabelsAre
    <3> QED BY <2>1, <2>3, <3>1, Pop
  <2> QED BY <2>1, <2>2, <2>3
<1>5. StoreFileWorked => StackInv' /\ Top = "store" /\ Pops
  BY Pop, UnderIs, LabelsAre DEF StoreFileWorked, Returns
<1> QED BY <1>1, <1>2, <1>3, <1>4, <1>5

\* RETR: the preparation and the work.
LEMMA RetrieveMoves ==
  ASSUME StackInv
  PROVE  /\ RetrievePrepFails => StackInv' /\ Top = "retrprep" /\ Below \subseteq {"data", "recv"} /\ Pops
         /\ \A size : RetrievePrep(size) => StackInv' /\ Top = "retrprep" /\ Below \subseteq {"data", "recv"} /\ Pops
         /\ RetrieveWaits => StackInv' /\ Top = "retrieve" /\ Below \subseteq Ground \cup {"worked"} /\ Pops
         /\ RetrieveShort => StackInv' /\ Top = "retrieve" /\ Below \subseteq Ground \cup {"worked"}
              /\ (Pushes("allsent", {}) \/ Pops)
         /\ RetrieveSends => StackInv' /\ Top = "retrieve" /\ Below \subseteq Ground \cup {"worked"}
              /\ (Pushes("allsent", {}) \/ (Top' = Top /\ Below' = Below))
         /\ RetrieveFails => StackInv' /\ Top = "retrieve" /\ Below \subseteq Ground \cup {"worked"} /\ Pops
         /\ RetrieveAllSent => StackInv' /\ Top = "retrieve" /\ Below \subseteq Ground \cup {"worked"} /\ Pushes("allsent", {})
         /\ AllSent => StackInv' /\ Top = "allsent" /\ Below \subseteq Ground \cup {"worked"} /\ Pops
<1>1. RetrievePrepFails => StackInv' /\ Top = "retrprep" /\ Below \subseteq {"data", "recv"} /\ Pops
  <2>1. RetrievePrepFails => At("retrprep") /\ Calls(<<>>)
    BY Zenon DEF RetrievePrepFails, Returns
  <2> QED BY <2>1, Pop, UnderIs, LabelsAre
<1>2. \A size : RetrievePrep(size) => StackInv' /\ Top = "retrprep" /\ Below \subseteq {"data", "recv"} /\ Pops
  <2>1. \A size : RetrievePrep(size) => At("retrprep") /\ Calls(<<>>)
    BY Zenon DEF RetrievePrep, Returns
  <2> QED BY <2>1, Pop, UnderIs, LabelsAre
<1>3. RetrieveWaits => StackInv' /\ Top = "retrieve" /\ Below \subseteq Ground \cup {"worked"} /\ Pops
  BY Pop, UnderIs, LabelsAre DEF RetrieveWaits, Returns
<1>4. ASSUME RetrieveShort PROVE StackInv' /\ Top = "retrieve" /\ Below \subseteq Ground \cup {"worked"}
              /\ (Pushes("allsent", {}) \/ Pops)
  <2>1. At("retrieve") /\ (Calls(<<"allsent">>) \/ Calls(<<>>))
    BY <1>4, Zenon DEF RetrieveShort, Returns
  <2>2. Under["retrieve"] = Ground \cup {"worked"}
    BY UnderIs
  <2>3. CASE Calls(<<"allsent">>)
    BY <2>1, <2>2, <2>3, Push1, FitsAre
  <2>4. CASE Calls(<<>>)
    BY <2>1, <2>2, <2>4, Pop, LabelsAre
  <2> QED BY <2>1, <2>3, <2>4
<1>5. ASSUME RetrieveSends PROVE StackInv' /\ Top = "retrieve" /\ Below \subseteq Ground \cup {"worked"}
              /\ (Pushes("allsent", {}) \/ (Top' = Top /\ Below' = Below))
  <2>1. At("retrieve") /\ (stack' = stack \/ Calls(<<"allsent">>))
    BY <1>5, Zenon DEF RetrieveSends
  <2>2. CASE stack' = stack
    <3>1. Top = "retrieve" /\ stack # <<>>
      BY <2>1, TopIs, LabelsAre DEF At
    <3>2. Below \subseteq Ground \cup {"worked"}
      BY <3>1, TopIs, UnderIs
    <3> QED BY <2>2, <3>1, <3>2 DEF StackInv, Ordered, Top, Below
  <2>3. Under["retrieve"] = Ground \cup {"worked"}
    BY UnderIs
  <2>4. CASE Calls(<<"allsent">>)
    BY <2>1, <2>3, <2>4, Push1, FitsAre
  <2> QED BY <2>1, <2>2, <2>4
<1>6. RetrieveFails => StackInv' /\ Top = "retrieve" /\ Below \subseteq Ground \cup {"worked"} /\ Pops
  <2>1. RetrieveFails => At("retrieve") /\ Calls(<<>>)
    BY Zenon DEF RetrieveFails, Returns
  <2> QED BY <2>1, Pop, UnderIs, LabelsAre
<1>7. RetrieveAllSent => StackInv' /\ Top = "retrieve" /\ Below \subseteq Ground \cup {"worked"} /\ Pushes("allsent", {})
  <2>1. Under["retrieve"] = Ground \cup {"worked"}
    BY UnderIs
  <2> QED BY <2>1, Push1, FitsAre DEF RetrieveAllSent
<1>8. AllSent => StackInv' /\ Top = "allsent" /\ Below \subseteq Ground \cup {"worked"} /\ Pops
  BY Pop, UnderIs, LabelsAre DEF AllSent, Returns
<1> QED BY <1>1, <1>2, <1>3, <1>4, <1>5, <1>6, <1>7, <1>8

-----------------------------------------------------------------------------
(* Types *)

Client == [xTransferSocket : Sock \cup {0}, bIsListen : BOOLEAN,
           bClientConnected : BOOLEAN, bHadError : BOOLEAN, bEmptyFile : BOOLEAN,
           pcConnectionAck : BOOLEAN, pxReadHandle : BOOLEAN, pxWriteHandle : BOOLEAN,
           ulRestartOffset : 0..FileSize, uxBytesLeft : 0..FileSize, ulRecvBytes : Nat]
Record == [st : {"none", "bound", "listen", "connecting", "estab", "lastack", "closed", "freed"},
           rx : 0..Window, tx : 0..Window, fin : BOOLEAN, sent : 0..MaxSend, got : Nat]
FileRecord == [size : {0, FileSize}, unread : 0..FileSize]
Talk == [op : {"none", "retr", "stor"}, cur : Sock \cup {0}, offer : Sock \cup {0},
         reply : {"none", "226", "425", "450", "451"}, calm : BOOLEAN,
         asked : -1..FileSize, rest : -1..FileSize]

Types ==
  /\ peer \in BOOLEAN /\ cmd \in Commands \cup {"none"} /\ xRc \in {-1, 0}
  /\ pxClient \in Client /\ sk \in [Sock -> Record]
  /\ disk \in 0..Disk /\ files \in Int /\ uploaded \in Nat
  /\ file \in FileRecord /\ talk \in Talk

\* What is assumed of the constants, as numbers.
LEMMA ConstantsAre == MaxSock \in Nat /\ MaxSock > 0 /\ FileSize \in Nat /\ FileSize > 0 /\ MaxSend \in Nat
                      /\ Disk \in Nat /\ Window \in Nat /\ Window > 0 /\ 0 \notin Sock /\ Sock \subseteq Nat
  BY FtpAssumption DEF FtpAssumption, Sock

\* The fields of the FTPClient_t.
LEMMA ClientFields ==
  ASSUME Types
  PROVE  /\ Socket \in Sock \cup {0}
         /\ pxClient.bIsListen \in BOOLEAN /\ pxClient.pxReadHandle \in BOOLEAN /\ pxClient.pxWriteHandle \in BOOLEAN
         /\ pxClient.bHadError \in BOOLEAN /\ pxClient.bEmptyFile \in BOOLEAN
         /\ pxClient.pcConnectionAck \in BOOLEAN /\ pxClient.bClientConnected \in BOOLEAN
         /\ pxClient.ulRestartOffset \in 0..FileSize /\ pxClient.uxBytesLeft \in 0..FileSize
         /\ pxClient.ulRecvBytes \in Nat
<1>1. pxClient \in Client
  BY DEF Types
<1>2. /\ Socket \in Sock \cup {0} /\ pxClient.ulRecvBytes \in Nat
      /\ pxClient.ulRestartOffset \in 0..FileSize /\ pxClient.uxBytesLeft \in 0..FileSize
  BY <1>1 DEF Client, Socket
<1>3. /\ pxClient.bIsListen \in BOOLEAN /\ pxClient.pxReadHandle \in BOOLEAN
      /\ pxClient.pxWriteHandle \in BOOLEAN /\ pxClient.bHadError \in BOOLEAN
      /\ pxClient.bEmptyFile \in BOOLEAN /\ pxClient.pcConnectionAck \in BOOLEAN
      /\ pxClient.bClientConnected \in BOOLEAN
  BY <1>1 DEF Client
<1> QED BY <1>2, <1>3

\* The fields of a socket's record.
LEMMA SockFields ==
  ASSUME Types
  PROVE  /\ \A s \in Sock : /\ sk[s] \in Record /\ sk[s].rx \in 0..Window /\ sk[s].tx \in 0..Window
                            /\ sk[s].fin \in BOOLEAN /\ sk[s].sent \in 0..MaxSend /\ sk[s].got \in Nat
                            /\ sk[s].st \in {"none", "bound", "listen", "connecting", "estab", "lastack", "closed", "freed"}
         /\ Rx \in 0..Window /\ Rx \in Nat
         /\ St \in {"none", "bound", "listen", "connecting", "estab", "lastack", "closed", "freed"}
<1>1. \A s \in Sock : sk[s] \in Record
  BY DEF Types
<1>2. \A s \in Sock : /\ sk[s].rx \in 0..Window /\ sk[s].tx \in 0..Window
                      /\ sk[s].fin \in BOOLEAN /\ sk[s].sent \in 0..MaxSend /\ sk[s].got \in Nat
                      /\ sk[s].st \in {"none", "bound", "listen", "connecting", "estab", "lastack", "closed", "freed"}
  BY <1>1 DEF Record
<1>3. Socket \in Sock \cup {0}
  BY ClientFields
<1>4. Rx \in 0..Window /\ Rx \in Nat
  BY <1>2, <1>3, ConstantsAre DEF Rx
<1>5. St \in {"none", "bound", "listen", "connecting", "estab", "lastack", "closed", "freed"}
  BY <1>2, <1>3 DEF St
<1> QED BY <1>1, <1>2, <1>4, <1>5

\* prvTransferCloseFile closes at most two files and leaves a client.
LEMMA ClosedType ==
  ASSUME Types
  PROVE  FileClosed \in Client /\ Handles \in 0..2 /\ files - Handles \in Int
<1>1. FileClosed \in Client
  BY DEF Types, FileClosed, Client
<1>2. Handles \in 0..2
  BY ClientFields DEF Handles
<1>3. files \in Int
  BY DEF Types
<1> QED BY <1>1, <1>2, <1>3

\* A socket's record that is replaced by another one.
LEMMA SocketStep ==
  ASSUME Types, Socket # 0, NEW v \in Record PROVE [sk EXCEPT ![Socket] = v] \in [Sock -> Record]
  BY DEF Types

\* prvTransferStart leaves the sockets sockets.
LEMMA StartsType ==
  ASSUME Types, Starts PROVE sk' \in [Sock -> Record]
<1>1. CASE St = "bound"
  <2>1. Socket \in Sock /\ sk[Socket] \in Record
    BY <1>1, ClientFields, SockFields DEF St
  <2>2. [sk[Socket] EXCEPT !.st = "connecting"] \in Record
    BY <2>1 DEF Record
  <2>3. sk' = [sk EXCEPT ![Socket].st = "connecting"]
    BY <1>1 DEF Starts
  <2> QED BY <2>1, <2>2, <2>3 DEF Types
<1>2. CASE St # "bound"
  BY <1>2 DEF Starts, Types
<1> QED BY <1>1, <1>2

\* CloseFile leaves the types.
LEMMA CloseFileTypes == ASSUME Types, CloseFile PROVE Types'
  BY ClosedType DEF Types, CloseFile, data

\* StorePrepFails leaves the types.
LEMMA StoreFailsTypes == ASSUME Types, StorePrepFails PROVE Types'
<1>1. [FileClosed EXCEPT !.ulRestartOffset = 0] \in Client
  BY ClosedType, ConstantsAre DEF Client
<1>2. talk' \in Talk
  BY DEF Types, StorePrepFails, Talk
<1> QED BY <1>1, <1>2, ClosedType DEF Types, StorePrepFails, data

\* StorePrep leaves the types.
LEMMA StorePrepTypes == ASSUME Types, StorePrep PROVE Types'
<1>1. pxClient.bIsListen \in BOOLEAN
  BY ClientFields
<1>2. [FileClosed EXCEPT !.ulRestartOffset = 0, !.pcConnectionAck = pxClient.bIsListen] \in Client
  <2> DEFINE b == pxClient.bIsListen
  <2>1. FileClosed \in Client /\ b \in BOOLEAN /\ 0 \in 0..FileSize
    BY <1>1, ClosedType, ConstantsAre
  <2> HIDE DEF b
  <2>2. [FileClosed EXCEPT !.ulRestartOffset = 0, !.pcConnectionAck = b] \in Client
    BY <2>1 DEF Client
  <2> QED BY <2>2 DEF b
<1>3. sk' \in [Sock -> Record]
  BY StartsType DEF Types, StorePrep
<1>4. pxClient' \in Client
  BY <1>2 DEF StorePrep
<1>5. files' \in Int
  BY ClosedType DEF StorePrep
<1> QED BY <1>3, <1>4, <1>5 DEF Types, StorePrep, data

\* StoreFileWork leaves the types: no more is written than the disk has room for.
LEMMA StoreWorkTypes == ASSUME Types, StoreFileWork PROVE Types'
<1>1. Socket # 0 /\ Socket \in Sock /\ Rx \in Nat
  BY ClientFields, SockFields DEF StoreFileWork, Rx
<1>2. pxClient' \in Client
  <2>1. pxClient.ulRecvBytes + Rx \in Nat
    BY <1>1, ClientFields
  <2>2. \/ pxClient' = [pxClient EXCEPT !.ulRecvBytes = pxClient.ulRecvBytes + Rx]
        \/ pxClient' = [pxClient EXCEPT !.ulRecvBytes = pxClient.ulRecvBytes + Rx, !.bHadError = TRUE]
    BY DEF StoreFileWork
  <2> QED BY <2>1, <2>2 DEF Types, Client
<1>3. sk' \in [Sock -> Record]
  <2>1. sk[Socket] \in Record
    BY <1>1, SockFields
  <2>2. [sk[Socket] EXCEPT !.rx = 0] \in Record
    BY <2>1, ConstantsAre DEF Record
  <2>3. sk' = [sk EXCEPT ![Socket] = [sk[Socket] EXCEPT !.rx = 0]]
    BY DEF StoreFileWork
  <2> QED BY <1>1, <2>2, <2>3, SocketStep
<1>4. disk' \in 0..Disk /\ uploaded' \in Nat
  BY <1>1, ConstantsAre DEF Types, StoreFileWork
<1>5. xRc' \in {-1, 0}
  BY DEF Types, StoreFileWork
<1> QED BY <1>2, <1>3, <1>4, <1>5 DEF Types, StoreFileWork

\* A transfer that is refused leaves the peer's view a view.
LEMMA RefusedType ==
  ASSUME talk \in Talk, NEW r \in {"425", "450"}, Refuses(r) PROVE talk' \in Talk
<1> DEFINE n == IF talk.rest = 0 THEN talk.asked ELSE -1
<1>1. n \in -1..FileSize
  BY ConstantsAre DEF Talk
<1>2. talk' = [talk EXCEPT !.reply = r, !.asked = n]
  BY DEF Refuses
<1> HIDE DEF n
<1> QED BY <1>1, <1>2 DEF Talk

\* RetrievePrepFails leaves the types.
LEMMA NoFileTypes == ASSUME Types, RetrievePrepFails PROVE Types'
<1>1. \A size \in {0, FileSize} : [FileClosed EXCEPT !.ulRestartOffset = 0, !.uxBytesLeft = size] \in Client
  <2>1. FileClosed \in Client /\ 0 \in 0..FileSize /\ FileSize \in 0..FileSize
    BY ClosedType, ConstantsAre
  <2> QED BY <2>1 DEF Client
<1>2. talk' \in Talk
  <2>1. talk \in Talk
    BY DEF Types
  <2>2. CASE Replies("450")
    BY <2>1, <2>2 DEF Replies, Talk
  <2>3. CASE Refuses("450")
    BY <2>1, <2>3, RefusedType
  <2> QED BY <2>2, <2>3, Zenon DEF RetrievePrepFails
<1>3. pxClient' \in Client
  BY <1>1, ClosedType DEF RetrievePrepFails
<1> QED BY <1>2, <1>3, ClosedType DEF Types, RetrievePrepFails, data

\* RetrievePrep leaves the types: the offset is within the file.
LEMMA RetrievePrepTypes == ASSUME Types, NEW size \in {0, FileSize}, RetrievePrep(size) PROVE Types'
<1>0. pxClient.bIsListen \in BOOLEAN /\ size \in 0..FileSize
  BY ClientFields, ConstantsAre
<1>1. pxClient' \in Client
  <2>1. [FileClosed EXCEPT !.ulRestartOffset = 0] \in Client
    BY ClosedType, ConstantsAre DEF Client
  <2> DEFINE c == [FileClosed EXCEPT !.ulRestartOffset = 0]
  <2> HIDE DEF c
  <2>2. [c EXCEPT !.uxBytesLeft = size, !.pxReadHandle = TRUE, !.pcConnectionAck = pxClient.bIsListen] \in Client
    BY <1>0, <2>1 DEF Client, c
  <2>3. pxClient' = [c EXCEPT !.uxBytesLeft = size, !.pxReadHandle = TRUE, !.pcConnectionAck = pxClient.bIsListen]
    BY DEF c, RetrievePrep
  <2> QED BY <2>2, <2>3
<1>2. sk' \in [Sock -> Record]
  <2>1. CASE St = "bound" \/ St = "estab"
    <3>1. Socket \in Sock /\ sk[Socket] \in Record
      BY <2>1, ClientFields, SockFields DEF St
    <3>2. /\ [sk[Socket] EXCEPT !.st = "connecting"] \in Record /\ [sk[Socket] EXCEPT !.fin = TRUE] \in Record
          /\ [sk[Socket] EXCEPT !.st = "estab", !.fin = TRUE] \in Record
      BY <3>1 DEF Record
    <3>3. \/ sk' = [sk EXCEPT ![Socket] = [sk[Socket] EXCEPT !.st = "connecting"]]
          \/ sk' = [sk EXCEPT ![Socket] = [sk[Socket] EXCEPT !.fin = TRUE]]
          \/ sk' = [sk EXCEPT ![Socket] = [sk[Socket] EXCEPT !.st = "estab", !.fin = TRUE]]
          \/ sk' = sk
      BY <3>1 DEF RetrievePrep, Types
    <3> QED BY <3>1, <3>2, <3>3 DEF Types
  <2>2. CASE ~(St = "bound" \/ St = "estab")
    BY <2>2 DEF RetrievePrep, Types
  <2> QED BY <2>1, <2>2
<1>3. talk' \in Talk
  BY DEF Types, RetrievePrep
<1>4. file' \in FileRecord
  <2>1. size - pxClient.ulRestartOffset \in 0..FileSize
    BY <1>0, ClientFields, ConstantsAre DEF RetrievePrep
  <2> QED BY <2>1 DEF RetrievePrep, FileRecord
<1>5. files' \in Int
  BY ClosedType DEF RetrievePrep
<1> QED BY <1>1, <1>2, <1>3, <1>4, <1>5 DEF Types, RetrievePrep

\* RetrieveShort leaves the types.
LEMMA ShortTypes == ASSUME Types, Socket # 0, RetrieveShort PROVE Types'
<1>1. pxClient' \in Client
  BY ConstantsAre DEF Types, RetrieveShort, Client
<1>2. sk' \in [Sock -> Record]
  <2>1. Socket \in Sock /\ sk[Socket] \in Record /\ sk[Socket].fin \in BOOLEAN
    BY ClientFields, SockFields
  <2>2. [sk[Socket] EXCEPT !.fin = TRUE] \in Record
    BY <2>1 DEF Record
  <2>3. sk' = [sk EXCEPT ![Socket] = [sk[Socket] EXCEPT !.fin = TRUE]] \/ sk' = sk
    BY DEF RetrieveShort
  <2> QED BY <2>2, <2>3, SocketStep DEF Types
<1>3. talk' \in Talk
  BY DEF Types, RetrieveShort, Talk
<1>4. file' \in FileRecord
  BY ConstantsAre DEF Types, RetrieveShort, FileRecord
<1>5. xRc' \in {-1, 0}
  BY DEF Types, RetrieveShort
<1> QED BY <1>1, <1>2, <1>3, <1>4, <1>5 DEF Types, RetrieveShort, data

\* No chunk is longer than what is left of the file, nor than the stream has space.
LEMMA CountType ==
  ASSUME Types, Socket # 0
  PROVE  /\ Count \in 0..FileSize /\ Count <= pxClient.uxBytesLeft /\ Count <= Window - sk[Socket].tx
         /\ Socket \in Sock /\ sk[Socket] \in Record /\ sk[Socket].tx + Count \in 0..Window
         /\ pxClient.uxBytesLeft - Count \in 0..FileSize /\ pxClient.ulRecvBytes + Count \in Nat
<1>1. /\ Socket \in Sock /\ sk[Socket] \in Record /\ sk[Socket].tx \in 0..Window
      /\ pxClient.uxBytesLeft \in 0..FileSize /\ pxClient.ulRecvBytes \in Nat
  BY ClientFields, SockFields
<1> QED BY <1>1, ConstantsAre DEF Count, Space

\* The file that RETR opened.
LEMMA UnreadType == ASSUME Types PROVE file.unread \in 0..FileSize /\ file.size \in 0..FileSize
  BY ConstantsAre DEF Types, FileRecord

\* RetrieveSends leaves the types: a socket's stream never holds more than its size.
LEMMA SendsTypes == ASSUME Types, Socket # 0, RetrieveSends PROVE Types'
<1>2. pxClient' \in Client
  <2>1. pxClient' = [pxClient EXCEPT !.uxBytesLeft = pxClient.uxBytesLeft - Count, !.ulRecvBytes = pxClient.ulRecvBytes + Count]
    BY DEF RetrieveSends
  <2> QED BY <2>1, CountType DEF Types, Client
<1>3. sk' \in [Sock -> Record]
  <2>1. [sk[Socket] EXCEPT !.tx = sk[Socket].tx + Count] \in Record
    BY CountType DEF Record
  <2>2. sk[Socket].fin \in BOOLEAN
    BY CountType, SockFields
  <2> DEFINE r == [sk[Socket] EXCEPT !.tx = sk[Socket].tx + Count]
             f == sk[Socket].fin \/ Count = pxClient.uxBytesLeft
  <2>3. [r EXCEPT !.fin = f] \in Record
    <3>1. f \in BOOLEAN
      BY <2>2
    <3> HIDE DEF f, r
    <3> QED BY <2>1, <3>1 DEF Record, r
  <2>4. sk' = [sk EXCEPT ![Socket] = [r EXCEPT !.fin = f]]
    BY CountType DEF RetrieveSends, Types, Record
  <2> QED BY <2>3, <2>4, SocketStep
<1>4. file' \in FileRecord
  BY CountType, UnreadType, ConstantsAre DEF Types, RetrieveSends, FileRecord
<1> QED BY <1>2, <1>3, <1>4 DEF Types, RetrieveSends

\* RetrieveFails leaves the types.
LEMMA SendFailsTypes == ASSUME Types, Socket # 0, RetrieveFails PROVE Types'
<1>2. pxClient' \in Client
  BY CountType DEF Types, RetrieveFails, Client
<1>3. file' \in FileRecord
  BY CountType, UnreadType, ConstantsAre DEF Types, RetrieveFails, FileRecord
<1>4. talk' \in Talk
  BY DEF Types, RetrieveFails, Talk
<1> QED BY <1>2, <1>3, <1>4 DEF Types, RetrieveFails

\* An action that only makes calls leaves the types.
LEMMA CallingTypes ==
  ASSUME Types, UNCHANGED <<peer, pxClient, sk, data, talk>>,
         cmd' \in Commands \cup {"none"}, xRc' \in {-1, 0}
  PROVE  Types'
  BY DEF Types, data

\* TransferConnect leaves the types.
LEMMA ConnectTypes == ASSUME Types, NEW b \in BOOLEAN, TransferConnect(b) PROVE Types'
<1>1. pxClient' \in Client
  BY DEF Types, TransferConnect, Unused, Client
<1>2. sk' \in [Sock -> Record]
  BY DEF Types, TransferConnect, Unused, Record
<1>3. talk' \in Talk
  BY DEF Types, TransferConnect, Unused, Talk
<1> QED BY <1>1, <1>2, <1>3 DEF Types, TransferConnect, data

\* PortNoSocket leaves the types.
LEMMA NoSocketTypes == ASSUME Types, PortNoSocket PROVE Types'
  BY DEF Types, PortNoSocket, data, Client

\* Rest leaves the types.
LEMMA RestTypes == ASSUME Types, Rest PROVE Types'
<1>1. pxClient' \in Client
  BY DEF Types, Rest, Client
<1>2. talk' \in Talk
  BY ConstantsAre DEF Types, Rest, Talk
<1> QED BY <1>1, <1>2 DEF Types, Rest, data

\* Ack leaves the types.
LEMMA AckTypes == ASSUME Types, Ack PROVE Types'
  BY DEF Types, Ack, data, Client

\* SetWrite leaves the types.
LEMMA SetWriteTypes == ASSUME Types, SetWrite PROVE Types'
  BY DEF Types, SetWrite, data, Client

\* NoDataConnection leaves the types.
LEMMA NoConnectionTypes == ASSUME Types, NEW l \in {"retr", "stor"}, NoDataConnection(l) PROVE Types'
<1>1. talk' \in Talk
  BY RefusedType DEF Types, NoDataConnection
<1> QED BY <1>1 DEF Types, NoDataConnection, data

\* Accept leaves the types.
LEMMA AcceptTypes == ASSUME Types, NEW l, Accept(l) PROVE Types'
  BY DEF Types, Accept, data, Client

\* Closing leaves the types.
LEMMA ClosingTypes == ASSUME Types, Closing PROVE Types'
<1>1. pxClient' \in Client
  BY DEF Types, Closing, FlagsReset, Client
<1>2. sk' \in [Sock -> Record]
  BY DEF Types, Closing, Client, Record
<1>3. talk' \in Talk
  BY DEF Types, Closing, Replies, Talk
<1> QED BY <1>1, <1>2, <1>3 DEF Types, Closing, data
\* PeerCommand leaves the types.
LEMMA CommandTypes == ASSUME Types, NEW c \in Commands, PeerCommand(c) PROVE Types'
<1>1. talk' \in Talk
  <2>1. talk \in Talk /\ talk.asked \in -1..FileSize /\ talk.offer \in Sock \cup {0}
    BY DEF Types, Talk
  <2>2. CASE c \in {"pasv", "port"}
    BY <2>1, <2>2 DEF PeerCommand, Talk
  <2>3. CASE c \in {"retr", "stor"}
    <3>1. talk' = [talk EXCEPT !.op = c, !.reply = "none", !.cur = talk.offer, !.offer = 0,
                               !.rest = talk.asked, !.asked = 0]
      BY <2>3 DEF PeerCommand
    <3>2. 0 \in -1..FileSize
      BY ConstantsAre
    <3> QED BY <2>1, <2>3, <3>1, <3>2 DEF Talk
  <2>4. CASE c \in {"rest", "size"}
    BY <2>1, <2>4 DEF PeerCommand
  <2> QED BY <2>2, <2>3, <2>4 DEF Commands
<1> QED BY <1>1 DEF Types, PeerCommand, data, Commands

\* PeerLeaves leaves the types.
LEMMA LeavesTypes == ASSUME Types, PeerLeaves PROVE Types'
<1>1. talk' \in Talk
  BY DEF Types, PeerLeaves, Talk
<1> QED BY <1>1 DEF Types, PeerLeaves, data

\* PeerConnects leaves the types.
LEMMA ConnectsTypes == ASSUME Types, NEW s \in Sock, PeerConnects(s) PROVE Types'
<1>1. sk' \in [Sock -> Record]
  BY ConstantsAre DEF Types, PeerConnects, Record
<1> QED BY <1>1 DEF Types, PeerConnects, NetLeaves, data

\* PeerRefuses leaves the types.
LEMMA RefusesTypes == ASSUME Types, NEW s \in Sock, PeerRefuses(s) PROVE Types'
<1>1. sk' \in [Sock -> Record]
  BY ConstantsAre DEF Types, PeerRefuses, Record
<1>2. talk' \in Talk
  BY DEF Types, PeerRefuses, Talk
<1> QED BY <1>1, <1>2 DEF Types, PeerRefuses, NetLeaves, data

\* PeerSends leaves the types.
LEMMA PeerSendsTypes == ASSUME Types, NEW s \in Sock, PeerSends(s) PROVE Types'
<1>1. sk' \in [Sock -> Record]
  BY ConstantsAre DEF Types, PeerSends, Record
<1>2. talk' \in Talk
  BY DEF Types, PeerSends, Talk
<1> QED BY <1>1, <1>2 DEF Types, PeerSends, NetLeaves, data

\* PeerReads leaves the types.
LEMMA ReadsTypes == ASSUME Types, NEW s \in Sock, PeerReads(s) PROVE Types'
<1>1. sk' \in [Sock -> Record]
  BY ConstantsAre DEF Types, PeerReads, Record
<1> QED BY <1>1 DEF Types, PeerReads, NetLeaves, data

\* PeerCloses leaves the types.
LEMMA PeerClosesTypes == ASSUME Types, NEW s \in Sock, PeerCloses(s) PROVE Types'
<1>1. sk' \in [Sock -> Record]
  BY ConstantsAre DEF Types, PeerCloses, Record
<1>2. talk' \in Talk
  BY DEF Types, PeerCloses, Talk
<1> QED BY <1>1, <1>2 DEF Types, PeerCloses, NetLeaves, data

\* StackCloses leaves the types.
LEMMA StackClosesTypes == ASSUME Types, NEW s \in Sock, StackCloses(s) PROVE Types'
<1>1. sk' \in [Sock -> Record]
  BY ConstantsAre DEF Types, StackCloses, Record
<1> QED BY <1>1 DEF Types, StackCloses, NetLeaves, data

-----------------------------------------------------------------------------
(* The stack, the types and the files together *)

\* What waits below some call.
Waiters == UnderCheck \cup {"worked", "store", "close2", "listen", "bind"}

\* What is below any call is one of the calls that wait for others.
LEMMA BelowIs == ASSUME StackInv PROVE Below \subseteq Waiters
<1>1. \A l \in Labels : Under[l] \subseteq Waiters
  BY UnderIs, LabelsAre, FitsAre DEF Waiters, Commands, UnderCheck, Ground, Under
<1> QED BY <1>1, TopIs

\* What is on the stack after calls were made or one has returned.
LEMMA OnIs ==
  /\ Pops => \A l \in Labels : On(l)' <=> l \in Below
  /\ \A t, b : Pushes(t, b) => \A l : On(l)' <=> (l = t \/ l \in Below \/ l \in b)
<1>1. "none" \notin Labels
  BY DEF Labels
<1> QED BY <1>1 DEF Pops, Pushes, On

\* The type invariant is the types of the data and the type of the stack.
LEMMA TypesSplit == TypeOK <=> Types /\ stack \in Seq(Labels)
  BY DEF TypeOK, Types, Client, Record, FileRecord, Talk

FilesInv ==
  /\ files = Handles + (IF On("setwrite") THEN 1 ELSE 0)
  /\ On("setwrite") => ~pxClient.pxWriteHandle /\ ~pxClient.pxReadHandle
  /\ ~(pxClient.pxWriteHandle /\ pxClient.pxReadHandle)
  /\ Top = "retrieve" => Socket # 0

BaseInv == Types /\ StackInv /\ FilesInv

\* The server's step neither opens nor closes a file, nor starts prvRetrieveFileWork.
LEMMA FilesKept ==
  ASSUME FilesInv, StackInv, UNCHANGED files,
         pxClient'.pxReadHandle = pxClient.pxReadHandle, pxClient'.pxWriteHandle = pxClient.pxWriteHandle,
         On("setwrite")' <=> On("setwrite"), Top' = "retrieve" => Socket' # 0
  PROVE  FilesInv'
  BY DEF FilesInv, Handles

\* A call that returns leaves the files' invariant, if no file was opened.
LEMMA FilesPop ==
  ASSUME FilesInv, StackInv, UNCHANGED files, Top # "setwrite", Pops,
         pxClient'.pxReadHandle = pxClient.pxReadHandle, pxClient'.pxWriteHandle = pxClient.pxWriteHandle
  PROVE  FilesInv'
<1>1. On("setwrite")' <=> On("setwrite")
  BY OnIs, LabelsAre DEF On
<1>2. Top' # "retrieve"
  BY BelowIs DEF Pops, Waiters, UnderCheck, Ground
<1> QED BY <1>1, <1>2, FilesKept

\* So does one that makes other calls, if it does not start to open a file.
LEMMA FilesPush ==
  ASSUME FilesInv, StackInv, UNCHANGED files, Top # "setwrite", NEW t, NEW b, Pushes(t, b),
         t # "setwrite", "setwrite" \notin b, t = "retrieve" => Socket' # 0,
         pxClient'.pxReadHandle = pxClient.pxReadHandle, pxClient'.pxWriteHandle = pxClient.pxWriteHandle
  PROVE  FilesInv'
<1>1. On("setwrite")' <=> On("setwrite")
  BY OnIs DEF On
<1>2. Top' = "retrieve" => Socket' # 0
  BY DEF Pushes
<1> QED BY <1>1, <1>2, FilesKept

\* The TCP stack and the peer leave the files alone.
LEMMA FilesStutter ==
  ASSUME BaseInv, UNCHANGED <<stack, pxClient, files>>
  PROVE  StackInv' /\ FilesInv'
<1>1. Top' = Top /\ Below' = Below /\ StackInv'
  BY DEF BaseInv, StackInv, Ordered, Top, Below
<1> QED BY <1>1 DEF BaseInv, FilesInv, On, Handles, Socket

\* A handle is closed when a file is.
LEMMA FilesClose ==
  ASSUME FilesInv, StackInv, files' = files - Handles, Top # "setwrite", ~On("setwrite")',
         ~On("setwrite"),
         ~pxClient'.pxReadHandle, ~pxClient'.pxWriteHandle, Top' # "retrieve"
  PROVE  FilesInv'
  BY DEF FilesInv, Handles

\* The steps of xFTPClientWork keep the base invariant.
LEMMA LoopBase ==
  ASSUME BaseInv PROVE (Recv \/ Data \/ Work \/ Worked \/ Delete) => BaseInv'
<1>0. Types /\ StackInv /\ FilesInv /\ cmd \in Commands \cup {"none"} /\ xRc \in {-1, 0}
  BY DEF BaseInv, Types
<1>a. Commands \subseteq Labels \ {"setwrite", "retrieve"}
  BY DEF Commands, Labels
<1>1. ASSUME Recv PROVE BaseInv'
  <2>1. cmd' \in Commands \cup {"none"} /\ Types'
    <3>1. cmd' \in Commands \cup {"none"}
      BY <1>0, <1>1 DEF Recv
    <3>2. UNCHANGED <<peer, pxClient, sk, data, talk, xRc>>
      BY <1>1, Zenon DEF Recv, data
    <3> QED BY <1>0, <3>1, <3>2, CallingTypes
  <2>2. StackInv' /\ Top = "recv" /\ \/ Pushes(cmd, {"data", "recv"}) /\ cmd # "none"
                                     \/ Pushes("data", {"recv"})
                                     \/ Pushes("data", {"close", "closefile", "delete"})
    BY <1>0, <1>1, LoopMoves
  <2>3. UNCHANGED <<pxClient, files>>
    BY <1>1, Zenon DEF Recv, data
  <2>4. FilesInv'
    BY <1>0, <1>a, <2>2, <2>3, FilesPush
  <2> QED BY <2>1, <2>2, <2>4 DEF BaseInv
<1>2. ASSUME Data \/ Work \/ Worked \/ Delete PROVE BaseInv'
  <2>1. UNCHANGED <<peer, pxClient, sk, data, talk, xRc, cmd, files>>
    BY <1>2, Zenon DEF Data, Work, Worked, Delete, data
  <2>2. Types'
    BY <1>0, <2>1, CallingTypes
  <2>3. /\ StackInv' /\ Top # "setwrite"
        /\ \/ Pops \/ Pushes("check", {"work"})
           \/ Socket # 0 /\ Pushes("retrieve", {"worked"})
           \/ Pushes("store", {"worked"}) \/ Pushes("close", {"closefile"})
    BY <1>0, <1>2, LoopMoves
  <2>4. FilesInv'
    <3>1. Socket' = Socket
      BY <2>1 DEF Socket
    <3> QED BY <1>0, <2>1, <2>3, <3>1, FilesPush, FilesPop
  <2> QED BY <2>2, <2>3, <2>4 DEF BaseInv
<1> QED BY <1>1, <1>2

\* The commands keep the base invariant.
LEMMA CommandBase ==
  ASSUME BaseInv
  PROVE  /\ Pasv \/ Port \/ PortNoSocket \/ Rest \/ Size \/ Stored => BaseInv'
         /\ \A b \in BOOLEAN : TransferConnect(b) => BaseInv'
         /\ \A l \in {"retr", "stor"} : NoDataConnection(l) => BaseInv'
         /\ Transfer("retr", <<"retrprep">>) \/ Transfer("stor", <<"storprep">>) => BaseInv'
<1>0. Types /\ StackInv /\ FilesInv /\ cmd \in Commands \cup {"none"} /\ xRc \in {-1, 0}
      /\ pxClient \in Client
  BY DEF BaseInv, Types
<1>1. ASSUME Pasv \/ Port \/ Size \/ Stored \/ Transfer("retr", <<"retrprep">>) \/ Transfer("stor", <<"storprep">>)
      PROVE  BaseInv'
  <2>1. UNCHANGED <<peer, pxClient, sk, data, talk, xRc, cmd, files>>
    BY <1>1, Zenon DEF Pasv, Port, Size, Stored, Transfer, data
  <2>2. Types'
    BY <1>0, <2>1, CallingTypes
  <2>3. /\ StackInv' /\ Top # "setwrite"
        /\ \/ Pops \/ Pushes("close", {"listen"}) \/ Pushes("close", {"bind"})
           \/ Pushes("check", {"retrprep"}) \/ Pushes("retrprep", {}) \/ Pushes("check", {"storprep"})
           \/ Pushes("storprep", {}) \/ Pushes("close", {"closefile"}) \/ Pushes("store", {"store"})
    BY <1>0, <1>1, CommandMoves
  <2>4. FilesInv'
    BY <1>0, <2>1, <2>3, FilesPush, FilesPop
  <2> QED BY <2>2, <2>3, <2>4 DEF BaseInv
<1>2. ASSUME PortNoSocket \/ Rest PROVE BaseInv'
  <2>1. Types'
    BY <1>0, <1>2, NoSocketTypes, RestTypes
  <2>2. /\ files' = files /\ pxClient'.pxReadHandle = pxClient.pxReadHandle
        /\ pxClient'.pxWriteHandle = pxClient.pxWriteHandle
    BY <1>0, <1>2 DEF PortNoSocket, Rest, data, Client
  <2>3. StackInv' /\ Top # "setwrite" /\ Pops
    BY <1>0, <1>2, CommandMoves
  <2> QED BY <1>0, <2>1, <2>2, <2>3, FilesPop DEF BaseInv
<1>3. ASSUME NEW b \in BOOLEAN, TransferConnect(b) PROVE BaseInv'
  <2>1. Types'
    BY <1>0, <1>3, ConnectTypes
  <2>2. /\ files' = files /\ pxClient'.pxReadHandle = pxClient.pxReadHandle
        /\ pxClient'.pxWriteHandle = pxClient.pxWriteHandle
    BY <1>0, <1>3 DEF TransferConnect, data, Client
  <2>3. StackInv' /\ Top # "setwrite" /\ Pops
    BY <1>0, <1>3, CommandMoves
  <2> QED BY <1>0, <2>1, <2>2, <2>3, FilesPop DEF BaseInv
<1>4. ASSUME NEW l \in {"retr", "stor"}, NoDataConnection(l) PROVE BaseInv'
  <2>1. Types'
    BY <1>0, <1>4, NoConnectionTypes
  <2>2. UNCHANGED <<files, pxClient>>
    BY <1>4, Zenon DEF NoDataConnection, data
  <2>3. StackInv' /\ Top # "setwrite" /\ Pops
    BY <1>0, <1>4, CommandMoves
  <2> QED BY <1>0, <2>1, <2>2, <2>3, FilesPop DEF BaseInv
<1> QED BY <1>1, <1>2, <1>3, <1>4

\* prvTransferCheck and the closing keep the base invariant.
LEMMA CheckBase ==
  ASSUME BaseInv
  PROVE  /\ Check \/ Ack \/ Drained \/ Close \/ Close2 \/ Closing \/ CloseFile => BaseInv'
         /\ Accept("accept") \/ Accept("acceptrx") => BaseInv'
<1>0. Types /\ StackInv /\ FilesInv /\ cmd \in Commands \cup {"none"} /\ xRc \in {-1, 0}
      /\ pxClient \in Client
  BY DEF BaseInv, Types
<1>1. ASSUME Check \/ Drained \/ Close \/ Close2 PROVE BaseInv'
  <2>1. UNCHANGED <<peer, pxClient, sk, data, talk, xRc, cmd, files>>
    BY <1>1, Zenon DEF Check, Drained, Close, Close2, data
  <2>2. Types'
    BY <1>0, <2>1, CallingTypes
  <2>3. /\ StackInv' /\ Top # "setwrite"
        /\ \/ Pops \/ Pushes("ack", {}) \/ Pushes("acceptrx", {}) \/ Pushes("accept", {})
           \/ Pushes("close", {"closefile"}) \/ Pushes("store", {"close2"}) \/ Pushes("closing", {})
    BY <1>0, <1>1, CheckMoves, CloseMoves
  <2>4. FilesInv'
    BY <1>0, <2>1, <2>3, FilesPush, FilesPop
  <2> QED BY <2>2, <2>3, <2>4 DEF BaseInv
<1>2. ASSUME Ack \/ Closing PROVE BaseInv'
  <2>1. Types'
    BY <1>0, <1>2, AckTypes, ClosingTypes
  <2>2. /\ files' = files /\ pxClient'.pxReadHandle = pxClient.pxReadHandle
        /\ pxClient'.pxWriteHandle = pxClient.pxWriteHandle
    BY <1>0, <1>2 DEF Ack, Closing, FlagsReset, data, Client
  <2>3. StackInv' /\ Top # "setwrite" /\ (Pops \/ Pushes("drained", {}))
    BY <1>0, <1>2, CheckMoves, CloseMoves
  <2> QED BY <1>0, <2>1, <2>2, <2>3, FilesPop, FilesPush DEF BaseInv
<1>3. ASSUME NEW l \in {"accept", "acceptrx"}, Accept(l) PROVE BaseInv'
  <2>1. Types'
    BY <1>0, <1>3, AcceptTypes
  <2>2. /\ files' = files /\ pxClient'.pxReadHandle = pxClient.pxReadHandle
        /\ pxClient'.pxWriteHandle = pxClient.pxWriteHandle
    BY <1>0, <1>3 DEF Accept, data, Client
  <2>3. StackInv' /\ Top # "setwrite" /\ (Pops \/ Pushes("ack", {}))
    BY <1>0, <1>3, CheckMoves
  <2> QED BY <1>0, <2>1, <2>2, <2>3, FilesPop, FilesPush DEF BaseInv
<1>4. ASSUME CloseFile PROVE BaseInv'
  <2>1. Types'
    BY <1>0, <1>4, CloseFileTypes
  <2>2. pxClient' = FileClosed /\ files' = files - Handles
    BY <1>4 DEF CloseFile
  <2>3. ~pxClient'.pxReadHandle /\ ~pxClient'.pxWriteHandle
    BY <1>0, <2>2 DEF FileClosed, Client
  <2>4. StackInv' /\ Top = "closefile" /\ Pops
    BY <1>0, <1>4, CloseMoves
  <2>5. Top' # "retrieve" /\ (On("setwrite")' <=> On("setwrite"))
    <3>1. On("setwrite")' <=> On("setwrite")
      BY <2>4, OnIs, LabelsAre DEF On
    <3> QED BY <1>0, <2>4, <3>1, BelowIs DEF Pops, Waiters, UnderCheck, Ground
  <2>6. FilesInv'
    BY <1>0, <2>2, <2>3, <2>5 DEF FilesInv, Handles
  <2> QED BY <2>1, <2>4, <2>6 DEF BaseInv
<1> QED BY <1>1, <1>2, <1>3, <1>4

\* STOR keeps the base invariant: the old file is closed before a new one is opened.
LEMMA StoreBase ==
  ASSUME BaseInv
  PROVE  StorePrepFails \/ StorePrep \/ SetWrite \/ StoreFileWork \/ StoreFileWorked => BaseInv'
<1>0. Types /\ StackInv /\ FilesInv /\ cmd \in Commands \cup {"none"} /\ xRc \in {-1, 0}
      /\ pxClient \in Client /\ files \in Int /\ Handles \in 0..2
  BY ClosedType DEF BaseInv, Types
<1>1. ASSUME StorePrepFails PROVE BaseInv'
  <2>1. Types'
    BY <1>0, <1>1, StoreFailsTypes
  <2>2. pxClient' = [FileClosed EXCEPT !.ulRestartOffset = 0] /\ files' = files - Handles
    BY <1>1 DEF StorePrepFails
  <2>3. ~pxClient'.pxReadHandle /\ ~pxClient'.pxWriteHandle
    BY <1>0, <2>2 DEF FileClosed, Client
  <2>4. StackInv' /\ Top = "storprep" /\ Below \subseteq {"data", "recv"} /\ Pushes("stored", {})
    BY <1>0, <1>1, StoreMoves
  <2>5. Top' # "retrieve" /\ ~On("setwrite") /\ ~On("setwrite")'
    BY <2>4, OnIs DEF On, Pushes
  <2>6. FilesInv'
    BY <1>0, <2>2, <2>3, <2>4, <2>5, FilesClose
  <2> QED BY <2>1, <2>4, <2>6 DEF BaseInv
<1>2. ASSUME StorePrep PROVE BaseInv'
  <2>1. Types'
    BY <1>0, <1>2, StorePrepTypes
  <2>2. /\ pxClient' = [FileClosed EXCEPT !.ulRestartOffset = 0, !.pcConnectionAck = pxClient.bIsListen]
        /\ files' = files - Handles + 1
    BY <1>2 DEF StorePrep
  <2>3. ~pxClient'.pxReadHandle /\ ~pxClient'.pxWriteHandle
    BY <1>0, <2>2 DEF FileClosed, Client
  <2>4. /\ StackInv' /\ Top = "storprep" /\ Below \subseteq {"data", "recv"}
        /\ Pushes("check", {"setwrite", "stored"}) \/ Pushes("setwrite", {"stored"})
    BY <1>0, <1>2, StoreMoves
  <2>5. Top' # "retrieve" /\ ~On("setwrite") /\ On("setwrite")'
    BY <2>4, OnIs DEF On, Pushes
  <2>6. FilesInv'
    BY <1>0, <2>2, <2>3, <2>5 DEF FilesInv, Handles
  <2> QED BY <2>1, <2>4, <2>6 DEF BaseInv
<1>3. ASSUME SetWrite PROVE BaseInv'
  <2>1. Types'
    BY <1>0, <1>3, SetWriteTypes
  <2>2. pxClient'.pxWriteHandle /\ pxClient'.pxReadHandle = pxClient.pxReadHandle /\ files' = files
    BY <1>0, <1>3 DEF SetWrite, Client, data
  <2>3. StackInv' /\ Top = "setwrite" /\ Below \subseteq {"data", "recv", "stored"} /\ Pops
    BY <1>0, <1>3, StoreMoves
  <2>4. On("setwrite") /\ ~On("setwrite")' /\ Top' # "retrieve"
    BY <2>3, OnIs, LabelsAre DEF On, Pops
  <2>5. FilesInv'
    BY <1>0, <2>2, <2>4 DEF FilesInv, Handles
  <2> QED BY <2>1, <2>3, <2>5 DEF BaseInv
<1>4. ASSUME StoreFileWork \/ StoreFileWorked PROVE BaseInv'
  <2>1. Types'
    <3>1. CASE StoreFileWork
      BY <1>0, <3>1, StoreWorkTypes
    <3>2. CASE StoreFileWorked
      <4>1. UNCHANGED <<peer, pxClient, sk, data, talk, cmd>>
        BY <3>2, Zenon DEF StoreFileWorked, data
      <4>2. xRc' \in {-1, 0}
        BY <3>2 DEF StoreFileWorked
      <4> QED BY <1>0, <4>1, <4>2, CallingTypes
    <3> QED BY <1>4, <3>1, <3>2
  <2>2. /\ files' = files /\ pxClient'.pxReadHandle = pxClient.pxReadHandle
        /\ pxClient'.pxWriteHandle = pxClient.pxWriteHandle
    BY <1>0, <1>4 DEF StoreFileWork, StoreFileWorked, data, Client
  <2>3. StackInv' /\ Top = "store" /\ (Pops \/ (Top' = Top /\ Below' = Below))
    BY <1>0, <1>4, StoreMoves
  <2>4. FilesInv'
    <3>1. CASE Pops
      BY <1>0, <2>2, <2>3, <3>1, FilesPop
    <3>2. CASE Top' = Top /\ Below' = Below
      BY <1>0, <2>2, <2>3, <3>2, FilesKept DEF On
    <3> QED BY <2>3, <3>1, <3>2
  <2> QED BY <2>1, <2>3, <2>4 DEF BaseInv
<1> QED BY <1>1, <1>2, <1>3, <1>4

\* RETR keeps the base invariant.
LEMMA RetrieveBase ==
  ASSUME BaseInv
  PROVE  /\ RetrievePrepFails \/ RetrieveWaits \/ RetrieveShort \/ RetrieveSends \/ RetrieveFails
            \/ RetrieveAllSent \/ AllSent => BaseInv'
         /\ \A size \in {0, FileSize} : RetrievePrep(size) => BaseInv'
<1>0. Types /\ StackInv /\ FilesInv /\ cmd \in Commands \cup {"none"} /\ xRc \in {-1, 0}
      /\ pxClient \in Client /\ files \in Int /\ Handles \in 0..2
  BY ClosedType DEF BaseInv, Types
<1>1. ASSUME RetrievePrepFails PROVE BaseInv'
  <2>1. Types'
    BY <1>0, <1>1, NoFileTypes
  <2>2. /\ files' = files - Handles
        /\ \/ pxClient' = FileClosed
           \/ \E size \in {0, FileSize} : pxClient' = [FileClosed EXCEPT !.ulRestartOffset = 0, !.uxBytesLeft = size]
    BY <1>1 DEF RetrievePrepFails
  <2>3. ~pxClient'.pxReadHandle /\ ~pxClient'.pxWriteHandle
    BY <1>0, <2>2 DEF FileClosed, Client
  <2>4. StackInv' /\ Top = "retrprep" /\ Below \subseteq {"data", "recv"} /\ Pops
    BY <1>0, <1>1, RetrieveMoves
  <2>5. Top' # "retrieve" /\ ~On("setwrite") /\ ~On("setwrite")'
    BY <2>4, OnIs, LabelsAre DEF On, Pops
  <2>6. FilesInv'
    BY <1>0, <2>2, <2>3, <2>4, <2>5, FilesClose
  <2> QED BY <2>1, <2>4, <2>6 DEF BaseInv
<1>2. ASSUME NEW size \in {0, FileSize}, RetrievePrep(size) PROVE BaseInv'
  <2>1. Types'
    BY <1>0, <1>2, RetrievePrepTypes
  <2>2. /\ pxClient' = [FileClosed EXCEPT !.ulRestartOffset = 0, !.uxBytesLeft = size,
                           !.pxReadHandle = TRUE, !.pcConnectionAck = pxClient.bIsListen]
        /\ files' = files - Handles + 1
    BY <1>2 DEF RetrievePrep
  <2>3. pxClient'.pxReadHandle /\ ~pxClient'.pxWriteHandle
    BY <1>0, <2>2 DEF FileClosed, Client
  <2>4. StackInv' /\ Top = "retrprep" /\ Below \subseteq {"data", "recv"} /\ Pops
    BY <1>0, <1>2, RetrieveMoves
  <2>5. Top' # "retrieve" /\ ~On("setwrite") /\ ~On("setwrite")'
    BY <2>4, OnIs, LabelsAre DEF On, Pops
  <2>6. FilesInv'
    BY <1>0, <2>2, <2>3, <2>5 DEF FilesInv, Handles
  <2> QED BY <2>1, <2>4, <2>6 DEF BaseInv
<1>3. ASSUME RetrieveWaits \/ RetrieveAllSent \/ AllSent PROVE BaseInv'
  <2>1. UNCHANGED <<peer, pxClient, sk, data, talk, cmd, files>>
    BY <1>3, Zenon DEF RetrieveWaits, RetrieveAllSent, AllSent, data
  <2>2. xRc' \in {-1, 0}
    BY <1>0, <1>3 DEF RetrieveWaits, RetrieveAllSent, AllSent
  <2>3. Types'
    BY <1>0, <2>1, <2>2, CallingTypes
  <2>4. StackInv' /\ Top # "setwrite" /\ (Pops \/ Pushes("allsent", {}))
    BY <1>0, <1>3, RetrieveMoves
  <2>5. FilesInv'
    BY <1>0, <2>1, <2>4, FilesPop, FilesPush
  <2> QED BY <2>3, <2>4, <2>5 DEF BaseInv
<1>4. ASSUME RetrieveShort \/ RetrieveSends \/ RetrieveFails PROVE BaseInv'
  <2>1. StackInv' /\ Top = "retrieve" /\ (Pops \/ Pushes("allsent", {}) \/ (Top' = Top /\ Below' = Below))
    BY <1>0, <1>4, RetrieveMoves
  <2>2. Socket # 0
    BY <1>0, <2>1 DEF FilesInv
  <2>3. Types'
    BY <1>0, <1>4, <2>2, ShortTypes, SendsTypes, SendFailsTypes
  <2>4. /\ files' = files /\ pxClient'.pxReadHandle = pxClient.pxReadHandle
        /\ pxClient'.pxWriteHandle = pxClient.pxWriteHandle /\ Socket' = Socket
    <3>1. /\ files' = files
          /\ \/ pxClient' = [pxClient EXCEPT !.uxBytesLeft = 0]
             \/ pxClient' = [pxClient EXCEPT !.uxBytesLeft = @ - Count, !.ulRecvBytes = @ + Count]
             \/ pxClient' = [pxClient EXCEPT !.uxBytesLeft = @ - Count]
      BY <1>4, Zenon DEF RetrieveShort, RetrieveSends, RetrieveFails
    <3> QED BY <1>0, <3>1 DEF Client, Socket
  <2>5. FilesInv'
    <3>1. CASE Pops
      BY <1>0, <2>1, <2>4, <3>1, FilesPop
    <3>2. CASE Pushes("allsent", {})
      BY <1>0, <2>1, <2>4, <3>2, FilesPush
    <3>3. CASE Top' = Top /\ Below' = Below
      BY <1>0, <2>2, <2>4, <3>3, FilesKept DEF On
    <3> QED BY <2>1, <3>1, <3>2, <3>3
  <2> QED BY <2>1, <2>3, <2>5 DEF BaseInv
<1> QED BY <1>1, <1>2, <1>3, <1>4

\* The peer and the TCP stack keep the base invariant.
LEMMA PeerBase == ASSUME BaseInv, Peer \/ (\E s \in Sock : Net(s)) PROVE BaseInv'
<1>1. UNCHANGED <<stack, pxClient, files>>
  BY Zenon DEF Peer, PeerCommand, PeerLeaves, Net, PeerConnects, PeerRefuses, PeerSends, PeerReads,
        PeerCloses, StackCloses, NetLeaves, data
<1>2. Types'
  <2>1. Types
    BY DEF BaseInv
  <2>2. CASE Peer
    BY <2>1, <2>2, CommandTypes, LeavesTypes DEF Peer
  <2>3. ASSUME NEW s \in Sock, Net(s) PROVE Types'
    BY <2>1, <2>3, ConnectsTypes, RefusesTypes, PeerSendsTypes, ReadsTypes, PeerClosesTypes, StackClosesTypes DEF Net
  <2> QED BY <2>2, <2>3
<1> QED BY <1>1, <1>2, FilesStutter DEF BaseInv

\* The base invariant holds when the session begins.
LEMMA BaseInit == Init => BaseInv
<1> SUFFICES ASSUME Init PROVE BaseInv
  OBVIOUS
<1>1. Types
  <2>1. pxClient \in Client
    BY ConstantsAre DEF Init, Client
  <2>2. sk \in [Sock -> Record]
    <3>1. [st |-> "none", rx |-> 0, tx |-> 0, fin |-> FALSE, sent |-> 0, got |-> 0] \in Record
      BY ConstantsAre DEF Record
    <3> QED BY <3>1 DEF Init
  <2>3. file \in FileRecord /\ talk \in Talk
    BY ConstantsAre DEF Init, FileRecord, Talk
  <2> QED BY <2>1, <2>2, <2>3, ConstantsAre DEF Init, Types
<1>2. stack = <<"recv">> /\ "recv" \in Labels
  BY LabelsAre DEF Init
<1>3. StackInv
  BY <1>2 DEF StackInv, Ordered
<1>4. Top = "recv" /\ Below = {}
  BY <1>2 DEF Top, Below
<1>5. FilesInv
  BY <1>4 DEF Init, FilesInv, Handles, On
<1> QED BY <1>1, <1>3, <1>5 DEF BaseInv

\* Every step keeps the base invariant.
LEMMA BaseStep == BaseInv /\ [Next]_vars => BaseInv'
<1> SUFFICES ASSUME BaseInv, [Next]_vars PROVE BaseInv'
  OBVIOUS
<1>1. CASE Server
  BY <1>1, LoopBase, CommandBase, CheckBase, StoreBase, RetrieveBase, Zenon DEF Server
<1>2. CASE Peer \/ \E s \in Sock : Net(s)
  BY <1>2, PeerBase
<1>3. CASE UNCHANGED vars
  <2>1. UNCHANGED <<stack, pxClient, files>>
    BY <1>3 DEF vars
  <2>2. Types'
    BY <1>3 DEF vars, Types, BaseInv
  <2> QED BY <2>1, <2>2, FilesStutter DEF BaseInv
<1> QED BY <1>1, <1>2, <1>3 DEF Next

\* Types, the order of the calls on the stack and the files, whatever the order of
\* the commands and of the ends of the connections.
THEOREM AlwaysBase == Spec => []BaseInv
  BY BaseInit, BaseStep, PTL DEF Spec

\* Type correctness of the session (FTPClient_t, the data sockets, the calls of
\* xFTPClientWork that are still to be made).
THEOREM TypeCorrect == Spec => []TypeOK
<1>1. BaseInv => TypeOK
  BY TypesSplit DEF BaseInv, StackInv
<1> QED BY <1>1, AlwaysBase, PTL

\* Every file that was opened is the one a handle of the session stands for, or the
\* one prvStoreFilePrep is about to put into pxWriteHandle, and at most one is open:
\* no order of commands, connections and their ends makes prvTransferCloseFile miss
\* one.
THEOREM FilesAlwaysOwned == Spec => []FilesOwned
<1>1. BaseInv => FilesOwned
  <2> SUFFICES ASSUME BaseInv PROVE FilesOwned
    OBVIOUS
  <2>1. stack \in Seq(Labels)
    BY DEF BaseInv, StackInv
  <2>2. (\E i \in DOMAIN stack : stack[i] = "setwrite") <=> On("setwrite")
    <3>1. Len(stack) \in Nat /\ DOMAIN stack = 1..Len(stack) /\ (stack = <<>> <=> Len(stack) = 0)
          /\ (stack # <<>> => Head(stack) = stack[1])
      BY <2>1, EmptySeq
    <3> QED BY <3>1 DEF On, Top, Below
  <2>3. pxClient.pxReadHandle \in BOOLEAN /\ pxClient.pxWriteHandle \in BOOLEAN
    BY ClientFields DEF BaseInv
  <2>4. FilesInv
    BY DEF BaseInv
  <2> QED BY <2>2, <2>3, <2>4 DEF FilesInv, FilesOwned, Handles
<1> QED BY <1>1, AlwaysBase, PTL

-----------------------------------------------------------------------------
(* The sockets of a session *)

Connects == {"pasv", "port", "listen", "bind"}
Connecting == cmd \in {"pasv", "port"} \/ \E l \in Connects : On(l)
Storing == Waiting /\ talk.op = "stor"
Fetching == cmd = "retr" \/ On("retr") \/ On("retrprep")

\* The sockets, and those the peer was offered and uses.
SockInv ==
  /\ \A s \in Sock : sk[s].st = "none" => sk[s].rx = 0 /\ sk[s].sent = 0
  /\ Socket # 0 => St \notin {"none", "freed"}
  /\ talk.offer # 0 =>
       talk.offer # talk.cur /\ sk[talk.offer].sent = 0 /\ sk[talk.offer].st # "none"
  /\ talk.cur # 0 => sk[talk.cur].st # "none"
  /\ talk.op # "none" => talk.cur # 0
  /\ talk.op = "retr" => sk[talk.cur].sent = 0

\* What the server task is about to do.
CallInv ==
  /\ stack = <<>> \/ On("recv") \/ On("delete")
  /\ stack = <<>> \/ On("delete") => ~peer
  /\ (\E l \in Connects \cup {"rest"} : On(l)) => cmd = "none"
  /\ Connecting => talk.op = "none"
  /\ Fetching => talk.op # "stor" /\ talk.offer = 0

OwnInv == SockInv /\ CallInv

PatientInv == talk.calm =>
  /\ \A s \in Sock : sk[s].st \notin {"none", "freed"} => Socket = s
  /\ ~Storing => Rx = 0
  /\ ~peer => ~Waiting
  /\ (On("listen") \/ On("bind")) /\ Socket # 0 => Top \in {"close", "closing"}
  /\ On("delete") /\ Socket # 0 => On("close") \/ Top = "closing"
  /\ stack = <<>> => Socket = 0

\* What a call of the server task on the data connection leaves of the sockets
\* and of the peer's view.
Mild ==
  /\ UNCHANGED <<peer, cmd>>
  /\ Socket' = Socket
  /\ talk'.op = talk.op /\ talk'.cur = talk.cur /\ talk'.offer = talk.offer
  /\ talk'.calm => talk.calm
  /\ Waiting' => Waiting
  /\ \A s \in Sock : /\ sk'[s].sent = sk[s].sent
                     /\ sk'[s].rx = sk[s].rx \/ sk'[s].rx = 0
                     /\ \/ sk'[s].st = sk[s].st
                        \/ sk[s].st \notin {"none", "freed"} /\ sk'[s].st \notin {"none", "freed"}
  /\ talk'.calm /\ Storing /\ ~Storing' => Rx' = 0

Chain == Connects \cup {"rest", "retr", "retrprep", "recv", "delete"}

\* ... and what the calls it makes are.
MildMove ==
  \/ Top' = Top /\ Below' = Below /\ (stack = <<>> <=> stack' = <<>>)
  \/ Top \in Labels \ (Chain \cup {"close", "closing"}) /\ Pops
  \/ \E t \in Labels, b \in SUBSET Labels :
       /\ Top \in Labels \ (Chain \cup {"close", "closing"}) /\ Pushes(t, b)
       /\ t \notin Chain /\ b \cap Chain = {}
  \/ \E t \in {"check", "retrprep"}, b \in SUBSET {"retrprep"} : Top = "retr" /\ Pushes(t, b)
  \/ Top \in {"rest", "retr", "retrprep", "listen", "bind"} /\ Pops

\* The fields of the peer's view.
LEMMA TalkFields ==
  ASSUME Types
  PROVE  /\ talk.op \in {"none", "retr", "stor"} /\ talk.cur \in Sock \cup {0} /\ talk.offer \in Sock \cup {0}
         /\ talk.calm \in BOOLEAN /\ talk.rest \in -1..FileSize /\ talk.asked \in -1..FileSize
  BY DEF Types, Talk

\* A transfer that is refused has its reply, and keeps what else the peer sees.
LEMMA RefusesFields ==
  ASSUME talk \in Talk, NEW r \in {"425", "450"}, Refuses(r)
  PROVE  /\ talk'.op = talk.op /\ talk'.cur = talk.cur /\ talk'.offer = talk.offer
         /\ talk'.calm = talk.calm /\ talk'.rest = talk.rest /\ talk'.reply = r
         /\ talk'.asked = IF talk.rest = 0 THEN talk.asked ELSE -1
  BY DEF Refuses, Talk

\* So has a download that is refused before it begins.
LEMMA PrepFailsFields ==
  ASSUME Types, RetrievePrepFails
  PROVE  /\ talk'.op = talk.op /\ talk'.cur = talk.cur /\ talk'.offer = talk.offer
         /\ talk'.calm = talk.calm /\ talk'.rest = talk.rest /\ talk'.reply = "450"
         /\ \/ /\ talk'.asked = IF talk.rest = 0 THEN talk.asked ELSE -1
               /\ pxClient' = FileClosed
            \/ /\ talk'.asked = talk.asked
               /\ \E size \in {0, FileSize} :
                    pxClient' = [FileClosed EXCEPT !.ulRestartOffset = 0, !.uxBytesLeft = size]
<1>1. CASE pxClient' = FileClosed /\ Refuses("450")
  BY <1>1, RefusesFields DEF Types
<1>2. CASE /\ \E size \in {0, FileSize} :
                pxClient' = [FileClosed EXCEPT !.ulRestartOffset = 0, !.uxBytesLeft = size]
           /\ Replies("450")
  <2>1. /\ talk'.op = talk.op /\ talk'.cur = talk.cur /\ talk'.offer = talk.offer
        /\ talk'.calm = talk.calm /\ talk'.rest = talk.rest /\ talk'.reply = "450"
        /\ talk'.asked = talk.asked
    BY <1>2 DEF Replies, Types, Talk
  <2> QED BY <1>2, <2>1
<1> QED BY <1>1, <1>2, Zenon DEF RetrievePrepFails

\* A transfer command that is answered by an error: the offset of a REST stays, is
\* reset, or may be left for the next transfer.
LEMMA RefusedFields ==
  ASSUME Types, (\E l \in {"retr", "stor"} : NoDataConnection(l)) \/ StorePrepFails \/ RetrievePrepFails
  PROVE  /\ talk'.op = talk.op /\ talk'.cur = talk.cur /\ talk'.offer = talk.offer
         /\ (talk'.calm => talk.calm) /\ talk'.rest = talk.rest /\ talk'.reply \in {"425", "450"}
         /\ \/ /\ talk'.asked = IF talk.rest = 0 THEN talk.asked ELSE -1
               /\ pxClient' = pxClient \/ pxClient' = FileClosed
            \/ /\ talk'.asked = talk.asked
               /\ \/ pxClient' = [FileClosed EXCEPT !.ulRestartOffset = 0]
                  \/ \E size \in {0, FileSize} :
                       pxClient' = [FileClosed EXCEPT !.ulRestartOffset = 0, !.uxBytesLeft = size]
<1>0. talk \in Talk
  BY DEF Types
<1>1. CASE \E l \in {"retr", "stor"} : NoDataConnection(l)
  <2>1. Refuses("425") /\ pxClient' = pxClient
    BY <1>1, Zenon DEF NoDataConnection
  <2> QED BY <1>0, <2>1, RefusesFields
<1>2. CASE StorePrepFails
  BY <1>0, <1>2 DEF StorePrepFails, Talk
<1>3. CASE RetrievePrepFails
  BY <1>3, PrepFailsFields
<1> QED BY <1>1, <1>2, <1>3

\* What REST sets.
LEMMA RestFields ==
  ASSUME Types, Rest
  PROVE  /\ talk'.op = talk.op /\ talk'.cur = talk.cur /\ talk'.offer = talk.offer
         /\ talk'.calm = talk.calm /\ talk'.rest = talk.rest /\ talk'.reply = talk.reply
         /\ \E n \in 0..FileSize : /\ talk'.asked = n
                                   /\ pxClient' = [pxClient EXCEPT !.ulRestartOffset = n]
  BY DEF Rest, Types, Talk

\* The calls that matter to the sockets stay where they are.
Carries ==
  /\ \A l \in Chain \ {"retrprep"} : On(l)' => On(l)
  /\ On("retrprep")' => On("retrprep") \/ On("retr")
  /\ On("recv") => On("recv")'
  /\ On("delete") => On("delete")'
  /\ stack = <<>> => stack' = <<>>
  /\ stack' = <<>> => stack = <<>> \/ ~(On("recv") \/ On("delete"))
  /\ (On("listen") \/ On("bind"))' /\ Top \in {"close", "closing"} => Top' = Top
  /\ On("close") => On("close")'
  /\ Top = "closing" => Top' = "closing"

\* Which calls stay on the stack in such a step.
LEMMA MovesOn ==
  ASSUME StackInv, StackInv', MildMove
  PROVE  Carries
<1>1. stack = <<>> <=> Top = "none"
  BY TopIs
<1>2. stack' = <<>> <=> Top' = "none"
  <2>1. stack' \in Seq(Labels) /\ "none" \notin Labels
    BY LabelsAre DEF StackInv
  <2>2. stack' # <<>> => Head(stack') \in Labels
    BY <2>1, HeadTailProperties, EmptySeq
  <2> QED BY <2>1, <2>2 DEF Top
<1>3. /\ Chain \subseteq Labels /\ "close" \in Labels /\ "none" \notin Labels /\ Below \subseteq Labels
      /\ \A l \in Labels : On(l) <=> (l = Top \/ l \in Below)
      /\ \A l \in Labels : On(l)' <=> (l = Top' \/ l \in Below')
  BY TopIs, LabelsAre DEF Chain, Connects, On
<1>4. CASE Top' = Top /\ Below' = Below /\ (stack = <<>> <=> stack' = <<>>)
  BY <1>3, <1>4 DEF Chain, Connects, Carries
<1>5. CASE Top \in Labels \ (Chain \cup {"close", "closing"}) /\ Pops
  <2>1. \A l \in Labels : On(l)' <=> l \in Below
    BY <1>5, OnIs
  <2>2. \A l \in Chain : On(l)' <=> On(l)
    BY <1>3, <1>5, <2>1
  <2>3. stack # <<>> /\ (stack' = <<>> => Below = {})
    BY <1>1, <1>2, <1>3, <1>5 DEF Pops
  <2>4. stack' = <<>> => ~(On("recv") \/ On("delete"))
    BY <1>3, <1>5, <2>3 DEF Chain
  <2>5. On("close") => On("close")'
    BY <1>3, <1>5, <2>1
  <2>6. (On("listen") \/ On("bind"))' /\ Top \in {"close", "closing"} => Top' = Top
    BY <1>5
  <2> QED BY <1>5, <2>2, <2>3, <2>4, <2>5, <2>6 DEF Chain, Connects, Carries
<1>6. ASSUME NEW t \in Labels, NEW b \in SUBSET Labels, Top \in Labels \ (Chain \cup {"close", "closing"}),
             Pushes(t, b), t \notin Chain, b \cap Chain = {}
      PROVE  Carries
  <2>1. \A l \in Labels : On(l)' <=> l = t \/ l \in Below \/ l \in b
    BY <1>6, OnIs
  <2>2. \A l \in Chain : l # t /\ l \notin b /\ (On(l) => l \in Below)
    BY <1>3, <1>6
  <2>3. stack' # <<>> /\ stack # <<>>
    BY <1>1, <1>2, <1>3, <1>6 DEF Pushes
  <2>4. On("close") => On("close")'
    BY <1>3, <1>6, <2>1
  <2>5. \A l \in Chain : On(l)' <=> On(l)
    BY <1>3, <2>1, <2>2
  <2>6. (On("listen") \/ On("bind"))' /\ Top \in {"close", "closing"} => Top' = Top
    BY <1>6
  <2> QED BY <1>6, <2>3, <2>4, <2>5, <2>6 DEF Chain, Connects, Carries
<1>7. ASSUME NEW t \in {"check", "retrprep"}, NEW b \in SUBSET {"retrprep"}, Top = "retr", Pushes(t, b)
      PROVE  Carries
  <2>1. \A l \in Labels : On(l)' <=> l = t \/ l \in Below \/ l \in b
    BY <1>7, OnIs
  <2> QED BY <1>1, <1>2, <1>3, <1>7, <2>1 DEF Chain, Connects, Carries, Pushes
<1>8. CASE Top \in {"rest", "retr", "retrprep", "listen", "bind"} /\ Pops
  <2>1. \A l \in Labels : On(l)' <=> l \in Below
    BY <1>8, OnIs
  <2> QED BY <1>1, <1>2, <1>3, <1>8, <2>1 DEF Chain, Connects, Carries, Pops
<1> QED BY <1>4, <1>5, <1>6, <1>7, <1>8 DEF MildMove

\* A step that is mild to the sockets keeps what is said of them and of the calls ...
LEMMA OwnMild ==
  ASSUME BaseInv, BaseInv', OwnInv, Mild, Carries
  PROVE  OwnInv'
<1>1. /\ peer' = peer /\ cmd' = cmd /\ Socket' = Socket /\ talk'.op = talk.op /\ talk'.cur = talk.cur
      /\ talk'.offer = talk.offer
  BY DEF Mild
<1>2. /\ Socket \in Sock \cup {0} /\ talk.op \in {"none", "retr", "stor"} /\ talk.cur \in Sock \cup {0}
      /\ talk.offer \in Sock \cup {0} /\ 0 \notin Sock
  BY ClientFields, TalkFields, ConstantsAre DEF BaseInv
<1>3. \A s \in Sock : /\ sk'[s].sent = sk[s].sent
                      /\ sk'[s].rx = sk[s].rx \/ sk'[s].rx = 0
                      /\ sk'[s].st = "none" <=> sk[s].st = "none"
                      /\ sk[s].st \notin {"none", "freed"} => sk'[s].st \notin {"none", "freed"}
  BY DEF Mild
<1>4. /\ \A s \in Sock : sk'[s].st = "none" => sk'[s].rx = 0 /\ sk'[s].sent = 0
      /\ Socket' # 0 => St' \notin {"none", "freed"}
  BY <1>1, <1>2, <1>3 DEF OwnInv, SockInv, CallInv, St
<1>5. /\ talk'.offer # 0 =>
           talk'.offer # talk'.cur /\ sk'[talk'.offer].sent = 0 /\ sk'[talk'.offer].st # "none"
      /\ talk'.cur # 0 => sk'[talk'.cur].st # "none"
      /\ talk'.op # "none" => talk'.cur # 0
      /\ talk'.op = "retr" => sk'[talk'.cur].sent = 0
  BY <1>1, <1>2, <1>3 DEF OwnInv, SockInv, CallInv
<1>6. /\ stack' = <<>> \/ On("recv")' \/ On("delete")'
      /\ stack' = <<>> \/ On("delete")' => ~peer'
  BY <1>1 DEF OwnInv, SockInv, CallInv, Carries, Chain
<1>7. /\ (\E l \in Connects \cup {"rest"} : On(l)') => cmd' = "none"
      /\ cmd' \in {"pasv", "port"} \/ (\E l \in Connects : On(l)') => talk'.op = "none"
  BY <1>1 DEF OwnInv, SockInv, CallInv, Carries, Chain, Connecting, Connects
<1>8. cmd' = "retr" \/ On("retr")' \/ On("retrprep")' => talk'.op # "stor" /\ talk'.offer = 0
  BY <1>1 DEF OwnInv, SockInv, CallInv, Carries, Chain, Fetching, Connects
<1> QED BY <1>4, <1>5, <1>6, <1>7, <1>8 DEF OwnInv, SockInv, CallInv, Connecting, Fetching

\* ... and what a patient peer relies on.
LEMMA PatientMild ==
  ASSUME BaseInv, OwnInv, PatientInv, Mild, Carries
  PROVE  PatientInv'
<1> SUFFICES ASSUME talk'.calm PROVE PatientInv'
  BY DEF PatientInv
<1>1. talk.calm /\ Socket' = Socket /\ Socket \in Sock \cup {0} /\ peer' = peer /\ 0 \notin Sock
  BY ClientFields, ConstantsAre DEF Mild, BaseInv
<1>2. \A s \in Sock : sk'[s].st \notin {"none", "freed"} => Socket' = s
  BY <1>1 DEF Mild, PatientInv
<1>3. ~Storing' => Rx' = 0
  <2>1. CASE Storing
    BY <2>1 DEF Mild
  <2>2. CASE ~Storing
    <3>1. Rx = 0
      BY <1>1, <2>2 DEF PatientInv
    <3> QED BY <1>1, <3>1 DEF Mild, Rx
  <2> QED BY <2>1, <2>2
<1>4. ~peer' => ~Waiting'
  BY <1>1 DEF Mild, PatientInv
<1>5. (On("listen") \/ On("bind"))' /\ Socket' # 0 => Top' \in {"close", "closing"}
  BY <1>1 DEF PatientInv, Carries, Chain, Connects
<1>6. On("delete")' /\ Socket' # 0 => On("close")' \/ Top' = "closing"
  BY <1>1 DEF PatientInv, Carries, Chain, Connects
<1>7. stack' = <<>> => Socket' = 0
  BY <1>1 DEF PatientInv, Carries, OwnInv, SockInv, CallInv
<1> QED BY <1>2, <1>3, <1>4, <1>5, <1>6, <1>7 DEF PatientInv

OwnedInv == BaseInv /\ OwnInv /\ PatientInv

\* A mild step keeps the invariant.
LEMMA OwnedMild ==
  ASSUME OwnedInv, BaseInv', Mild, MildMove
  PROVE  OwnedInv'
<1>1. BaseInv /\ OwnInv /\ PatientInv /\ StackInv /\ StackInv'
  BY DEF OwnedInv, BaseInv
<1>2. Carries
  BY <1>1, MovesOn
<1> QED BY <1>1, <1>2, OwnMild, PatientMild DEF OwnedInv

\* Neither the sockets nor the peer's view change.
LEMMA QuietMild ==
  ASSUME UNCHANGED <<peer, cmd, sk>>, Socket' = Socket,
         talk'.op = talk.op, talk'.cur = talk.cur, talk'.offer = talk.offer,
         talk'.reply = talk.reply, talk'.calm = talk.calm
  PROVE  Mild
<1>1. (Waiting' <=> Waiting) /\ (Storing' <=> Storing)
  BY DEF Waiting, Storing
<1> QED BY <1>1 DEF Mild

\* A call that makes others which do not matter to the sockets is mild.
LEMMA PushMild ==
  ASSUME StackInv, NEW t, NEW b, Pushes(t, b), Top \in Labels \ (Chain \cup {"close", "closing"}),
         t \in Labels \ Chain, b \subseteq Labels, b \cap Chain = {}
  PROVE  MildMove
  BY DEF MildMove

\* The plain calls are mild.
LEMMA PlainMild ==
  ASSUME StackInv, Pushes("check", {"work"}) \/ Pushes("retrieve", {"worked"}) \/ Pushes("store", {"worked"})
            \/ Pushes("close", {"closefile"}) \/ Pushes("check", {"storprep"}) \/ Pushes("storprep", {})
            \/ Pushes("store", {"store"}) \/ Pushes("ack", {}) \/ Pushes("acceptrx", {}) \/ Pushes("accept", {})
            \/ Pushes("closing", {}) \/ Pushes("drained", {}) \/ Pushes("allsent", {}) \/ Pushes("stored", {})
            \/ Pushes("check", {"setwrite", "stored"}) \/ Pushes("setwrite", {"stored"}) \/ Pops,
         Top \in Labels \ (Chain \cup {"close", "closing"})
  PROVE  MildMove
<1>1. {"check", "work", "retrieve", "worked", "store", "close", "closefile", "storprep", "ack", "acceptrx",
       "accept", "closing", "drained", "allsent", "stored", "setwrite"} \subseteq Labels \ Chain
  BY LabelsAre DEF Chain, Connects
<1>2. CASE Pops
  BY <1>2 DEF MildMove
<1>3. CASE \E t, b \in {"check", "work", "retrieve", "worked", "store", "close", "closefile", "storprep", "ack",
              "acceptrx", "accept", "closing", "drained", "allsent", "stored", "setwrite"} :
             Pushes(t, {b}) \/ Pushes(t, {})
  <2>1. PICK t, b \in Labels \ Chain : Pushes(t, {b}) \/ Pushes(t, {})
    BY <1>1, <1>3
  <2> QED BY <2>1, PushMild
<1>4. CASE Pushes("check", {"setwrite", "stored"})
  BY <1>1, <1>4, PushMild
<1> QED BY <1>2, <1>3, <1>4

\* So is the command RETR.
LEMMA FetchMild ==
  ASSUME Top = "retr", Pushes("check", {"retrprep"}) \/ Pushes("retrprep", {})
  PROVE  MildMove
  BY DEF MildMove

\* The calls that only make other calls or return keep the invariant.
LEMMA PlainOwned ==
  ASSUME OwnedInv, BaseInv',
         Data \/ Work \/ Worked \/ Size \/ Stored \/ Transfer("retr", <<"retrprep">>)
           \/ Transfer("stor", <<"storprep">>) \/ Check \/ Drained \/ Close2
           \/ RetrieveWaits \/ RetrieveAllSent \/ AllSent \/ StoreFileWorked
  PROVE  OwnedInv'
<1>0. StackInv /\ cmd \in Commands \cup {"none"}
  BY DEF OwnedInv, BaseInv, Types
<1>1. UNCHANGED <<peer, cmd, sk, talk, pxClient>>
  BY Zenon DEF Data, Work, Worked, Size, Stored, Transfer, Check, Drained, Close2, RetrieveWaits,
       RetrieveAllSent, AllSent, StoreFileWorked
<1>2. Mild
  BY <1>1, QuietMild DEF Socket
<1>a. {"data", "work", "worked", "size", "stored", "stor", "check", "drained", "close2", "retrieve", "allsent", "store"}
        \subseteq Labels \ (Chain \cup {"close", "closing"})
  BY LabelsAre DEF Chain, Connects
<1>3. CASE Data \/ Work \/ Worked
  BY <1>0, <1>2, <1>3, <1>a, LoopMoves, PlainMild, OwnedMild
<1>4. CASE Size \/ Stored \/ Transfer("stor", <<"storprep">>)
  BY <1>0, <1>2, <1>4, <1>a, CommandMoves, PlainMild, OwnedMild
<1>5. CASE Transfer("retr", <<"retrprep">>)
  BY <1>0, <1>2, <1>5, CommandMoves, FetchMild, OwnedMild
<1>6. CASE Check \/ Drained
  BY <1>0, <1>2, <1>6, <1>a, CheckMoves, PlainMild, OwnedMild
<1>7. CASE Close2
  BY <1>0, <1>2, <1>7, <1>a, CloseMoves, PlainMild, OwnedMild
<1>8. CASE RetrieveWaits \/ RetrieveAllSent \/ AllSent
  BY <1>0, <1>2, <1>8, <1>a, RetrieveMoves, PlainMild, OwnedMild
<1>9. CASE StoreFileWorked
  BY <1>0, <1>2, <1>9, <1>a, StoreMoves, PlainMild, OwnedMild
<1> QED BY <1>3, <1>4, <1>5, <1>6, <1>7, <1>8, <1>9

\* The calls that set flags of the client keep the invariant.
LEMMA FlagOwned ==
  ASSUME OwnedInv, BaseInv',
         PortNoSocket \/ Rest \/ Accept("accept") \/ Accept("acceptrx") \/ Ack \/ CloseFile \/ SetWrite
  PROVE  OwnedInv'
<1>0. StackInv /\ pxClient \in Client /\ Types
  BY DEF OwnedInv, BaseInv, Types
<1>1. /\ UNCHANGED <<peer, cmd, sk>>
      /\ talk'.op = talk.op /\ talk'.cur = talk.cur /\ talk'.offer = talk.offer
      /\ talk'.reply = talk.reply /\ talk'.calm = talk.calm
  <2>1. CASE Rest
    BY <1>0, <2>1, RestFields DEF Rest
  <2>2. CASE ~Rest
    <3>1. UNCHANGED <<peer, cmd, sk, talk>>
      BY <2>2, Zenon DEF PortNoSocket, Accept, Ack, CloseFile, SetWrite
    <3> QED BY <3>1
  <2> QED BY <2>1, <2>2
<1>2. Socket' = Socket
  BY <1>0 DEF PortNoSocket, Rest, Accept, Ack, CloseFile, SetWrite, FileClosed, Client, Socket
<1>3. Mild
  BY <1>1, <1>2, QuietMild
<1>a. {"accept", "acceptrx", "ack", "closefile", "setwrite"} \subseteq Labels \ (Chain \cup {"close", "closing"})
  BY LabelsAre DEF Chain, Connects
<1>4. CASE PortNoSocket
  BY <1>0, <1>3, <1>4, CommandMoves, OwnedMild DEF MildMove
<1>5. CASE Rest
  BY <1>0, <1>3, <1>5, CommandMoves, OwnedMild DEF MildMove
<1>6. CASE Accept("accept") \/ Accept("acceptrx") \/ Ack
  BY <1>0, <1>3, <1>6, <1>a, CheckMoves, PlainMild, OwnedMild
<1>7. CASE CloseFile
  BY <1>0, <1>3, <1>7, <1>a, CloseMoves, PlainMild, OwnedMild
<1>8. CASE SetWrite
  BY <1>0, <1>3, <1>8, <1>a, StoreMoves, PlainMild, OwnedMild
<1> QED BY <1>4, <1>5, <1>6, <1>7, <1>8

\* The socket of the client, when a call writes its record.
LEMMA SockWritten ==
  ASSUME Types, Socket # 0, NEW v, sk' = [sk EXCEPT ![Socket] = v]
  PROVE  \A s \in Sock : sk'[s] = IF s = Socket THEN v ELSE sk[s]
  BY ClientFields DEF Types

\* prvTransferStart takes nothing from a socket and frees none.
LEMMA StartsMild ==
  ASSUME Types, Starts
  PROVE  \A s \in Sock : /\ sk'[s].sent = sk[s].sent /\ sk'[s].rx = sk[s].rx
                         /\ \/ sk'[s].st = sk[s].st
                            \/ s = Socket /\ sk[s].st = "bound" /\ sk'[s].st = "connecting"
<1>1. CASE St = "bound"
  <2>1. Socket \in Sock /\ sk[Socket] \in Record /\ sk[Socket].st = "bound" /\ sk \in [Sock -> Record]
    BY <1>1, ClientFields, SockFields DEF St, Types
  <2>2. sk' = [sk EXCEPT ![Socket].st = "connecting"]
    BY <1>1 DEF Starts
  <2> QED BY <2>1, <2>2 DEF Record
<1>2. CASE St # "bound"
  BY <1>2 DEF Starts
<1> QED BY <1>1, <1>2

\* A call that is made again leaves the stack.
LEMMA StayMove ==
  ASSUME Top # "none", Top' = Top, Below' = Below
  PROVE  MildMove
<1>1. stack # <<>> /\ stack' # <<>>
  BY DEF Top
<1> QED BY <1>1 DEF MildMove

\* The preparation and the work of STOR keep the invariant.
LEMMA StoreOwned ==
  ASSUME OwnedInv, BaseInv', StorePrep \/ StorePrepFails \/ StoreFileWork
  PROVE  OwnedInv'
<1>0. StackInv /\ pxClient \in Client /\ Types /\ sk \in [Sock -> Record] /\ talk \in Talk /\ 0 \notin Sock
      /\ Socket \in Sock \cup {0} /\ Socket = pxClient.xTransferSocket
  BY ClientFields, ConstantsAre DEF OwnedInv, BaseInv, Types, Socket
<1>a. {"store", "storprep"} \subseteq Labels \ (Chain \cup {"close", "closing"})
  BY LabelsAre DEF Chain, Connects
<1>1. CASE StorePrep
  <2>1. UNCHANGED <<peer, cmd, talk>>
    BY <1>1, Zenon DEF StorePrep
  <2>2. Socket' = Socket
    BY <1>0, <1>1 DEF StorePrep, FileClosed, Client, Socket
  <2>3. \A s \in Sock : /\ sk'[s].sent = sk[s].sent /\ sk'[s].rx = sk[s].rx
                        /\ \/ sk'[s].st = sk[s].st
                           \/ s = Socket /\ sk[s].st = "bound" /\ sk'[s].st = "connecting"
    <3>1. UNCHANGED sk \/ Starts
      BY <1>1, Zenon DEF StorePrep
    <3> QED BY <1>0, <3>1, StartsMild
  <2>4. (Waiting' <=> Waiting) /\ (Storing' <=> Storing)
    BY <2>1 DEF Waiting, Storing
  <2>5. Mild
    BY <2>1, <2>2, <2>3, <2>4 DEF Mild
  <2> QED BY <1>0, <1>1, <1>a, <2>5, StoreMoves, PlainMild, OwnedMild
<1>2. CASE StorePrepFails
  <2>1. UNCHANGED <<peer, cmd, sk>>
    BY <1>2, Zenon DEF StorePrepFails
  <2>2. Socket' = Socket
    BY <1>0, <1>2 DEF StorePrepFails, FileClosed, Client, Socket
  <2>3. /\ talk'.op = talk.op /\ talk'.cur = talk.cur /\ talk'.offer = talk.offer
        /\ talk'.reply = "450" /\ (talk'.calm => talk.calm /\ Rx = 0)
    BY <1>0, <1>2 DEF StorePrepFails, Talk
  <2>4. Rx' = Rx
    BY <2>1, <2>2 DEF Rx
  <2>5. Mild
    BY <2>1, <2>2, <2>3, <2>4 DEF Mild, Waiting, Storing
  <2> QED BY <1>0, <1>2, <1>a, <2>5, StoreMoves, PlainMild, OwnedMild
<1>3. CASE StoreFileWork
  <2>1. UNCHANGED <<peer, cmd, talk>>
    BY <1>3, Zenon DEF StoreFileWork
  <2>2. Socket' = Socket /\ Socket # 0
    <3>1. \/ pxClient' = [pxClient EXCEPT !.ulRecvBytes = @ + Rx]
          \/ pxClient' = [pxClient EXCEPT !.ulRecvBytes = @ + Rx, !.bHadError = TRUE]
      BY <1>3, Zenon DEF StoreFileWork
    <3>2. Rx > 0
      BY <1>3 DEF StoreFileWork
    <3>3. Socket # 0
      BY <3>2 DEF Rx
    <3>4. pxClient'.xTransferSocket = pxClient.xTransferSocket
      BY <1>0, <3>1 DEF Client
    <3> QED BY <3>3, <3>4 DEF Socket
  <2>3. \A s \in Sock : /\ sk'[s].sent = sk[s].sent /\ sk'[s].st = sk[s].st
                        /\ (sk'[s].rx = sk[s].rx \/ sk'[s].rx = 0)
    BY <1>0, <1>3 DEF StoreFileWork, Record
  <2>4. (Waiting' <=> Waiting) /\ (Storing' <=> Storing)
    BY <2>1 DEF Waiting, Storing
  <2>5. Mild
    BY <2>1, <2>2, <2>3, <2>4 DEF Mild
  <2>6. MildMove
    BY <1>0, <1>3, <1>a, StoreMoves, PlainMild, StayMove
  <2> QED BY <1>0, <2>5, <2>6, OwnedMild
<1> QED BY <1>1, <1>2, <1>3

\* The preparation and the work of RETR keep the invariant.
LEMMA RetrieveOwned ==
  ASSUME OwnedInv, BaseInv'
  PROVE  /\ RetrievePrepFails \/ RetrieveShort \/ RetrieveSends \/ RetrieveFails => OwnedInv'
         /\ NoDataConnection("retr") \/ NoDataConnection("stor") => OwnedInv'
         /\ \A size : RetrievePrep(size) => OwnedInv'
<1>0. StackInv /\ pxClient \in Client /\ Types /\ sk \in [Sock -> Record] /\ talk \in Talk /\ 0 \notin Sock
      /\ Socket \in Sock \cup {0} /\ Socket = pxClient.xTransferSocket
  BY ClientFields, ConstantsAre DEF OwnedInv, BaseInv, Types, Socket
<1>a. {"retrieve", "stor"} \subseteq Labels \ (Chain \cup {"close", "closing"})
  BY LabelsAre DEF Chain, Connects
<1>1. ASSUME NoDataConnection("retr") \/ NoDataConnection("stor") PROVE OwnedInv'
  <2>1. UNCHANGED <<peer, cmd, sk, pxClient>>
    BY <1>1, Zenon DEF NoDataConnection
  <2>2. Socket' = Socket /\ Socket = 0
    BY <1>1, <2>1 DEF NoDataConnection, Socket
  <2>3. /\ talk'.op = talk.op /\ talk'.cur = talk.cur /\ talk'.offer = talk.offer
        /\ talk'.reply = "425" /\ talk'.calm = talk.calm
    <3>1. Refuses("425")
      BY <1>1, Zenon DEF NoDataConnection
    <3> QED BY <1>0, <3>1, RefusesFields
  <2>4. Rx' = 0
    BY <2>2 DEF Rx
  <2>5. Mild
    BY <2>1, <2>2, <2>3, <2>4 DEF Mild, Waiting, Storing
  <2>6. MildMove
    BY <1>0, <1>1, <1>a, CommandMoves, PlainMild DEF MildMove
  <2> QED BY <2>5, <2>6, OwnedMild
<1>2. ASSUME RetrievePrepFails PROVE OwnedInv'
  <2>1. UNCHANGED <<peer, cmd, sk>> /\ At("retrprep")
    BY <1>2, Zenon DEF RetrievePrepFails
  <2>2. Socket' = Socket
    BY <1>0, <1>2, PrepFailsFields DEF FileClosed, Client, Socket
  <2>3. /\ talk'.op = talk.op /\ talk'.cur = talk.cur /\ talk'.offer = talk.offer
        /\ talk'.reply = "450" /\ talk'.calm = talk.calm
    BY <1>0, <1>2, PrepFailsFields
  <2>4. Top = "retrprep" /\ Pops
    BY <1>0, <1>2, RetrieveMoves
  <2>5. ~Storing
    BY <2>4 DEF OwnedInv, OwnInv, SockInv, CallInv, Fetching, On, Storing
  <2>6. Mild
    BY <2>1, <2>2, <2>3, <2>5 DEF Mild, Waiting, Storing
  <2> QED BY <2>4, <2>6, OwnedMild DEF MildMove
<1>3. ASSUME NEW size, RetrievePrep(size) PROVE OwnedInv'
  <2>1. UNCHANGED <<peer, cmd>>
    BY <1>3, Zenon DEF RetrievePrep
  <2>2. Socket' = Socket
    BY <1>0, <1>3 DEF RetrievePrep, FileClosed, Client, Socket
  <2>3. /\ talk'.op = talk.op /\ talk'.cur = talk.cur /\ talk'.offer = talk.offer
        /\ talk'.reply = talk.reply /\ talk'.calm = talk.calm
    BY <1>0, <1>3 DEF RetrievePrep, Talk
  <2>4. Top = "retrprep" /\ Pops
    BY <1>0, <1>3, RetrieveMoves
  <2>5. (Waiting' <=> Waiting) /\ (Storing' <=> Storing)
    BY <2>3 DEF Waiting, Storing
  <2>6. \A s \in Sock : /\ sk'[s].sent = sk[s].sent /\ sk'[s].rx = sk[s].rx
                        /\ \/ sk'[s].st = sk[s].st
                           \/ sk[s].st = "bound" /\ sk'[s].st \in {"connecting", "estab"}
    <3>1. CASE St = "bound" \/ St = "estab"
      <4>1. Socket \in Sock /\ St = sk[Socket].st
        BY <1>0, <3>1 DEF St
      <4> QED BY <1>0, <1>3, <4>1 DEF RetrievePrep, Record
    <3>2. CASE ~(St = "bound" \/ St = "estab")
      BY <1>3, <3>2 DEF RetrievePrep
    <3> QED BY <3>1, <3>2
  <2>7. Mild
    BY <2>1, <2>2, <2>3, <2>5, <2>6 DEF Mild
  <2> QED BY <2>4, <2>7, OwnedMild DEF MildMove
<1>4. ASSUME RetrieveShort \/ RetrieveSends \/ RetrieveFails PROVE OwnedInv'
  <2>1. UNCHANGED <<peer, cmd>>
    BY <1>4, Zenon DEF RetrieveShort, RetrieveSends, RetrieveFails
  <2>2. Socket' = Socket
    <3>1. \/ pxClient' = [pxClient EXCEPT !.uxBytesLeft = 0]
          \/ pxClient' = [pxClient EXCEPT !.uxBytesLeft = @ - Count, !.ulRecvBytes = @ + Count]
          \/ pxClient' = [pxClient EXCEPT !.uxBytesLeft = @ - Count]
      BY <1>4, Zenon DEF RetrieveShort, RetrieveSends, RetrieveFails
    <3> QED BY <1>0, <3>1 DEF Client, Socket
  <2>3. /\ talk'.op = talk.op /\ talk'.cur = talk.cur /\ talk'.offer = talk.offer
        /\ talk'.reply = talk.reply /\ (talk'.calm => talk.calm)
    BY <1>0, <1>4 DEF RetrieveShort, RetrieveSends, RetrieveFails, Talk
  <2>4. Top = "retrieve" /\ (Pops \/ Pushes("allsent", {}) \/ (Top' = Top /\ Below' = Below))
    BY <1>0, <1>4, RetrieveMoves
  <2>5. (Waiting' <=> Waiting) /\ (Storing' <=> Storing)
    BY <2>3 DEF Waiting, Storing
  <2>6. Socket # 0
    BY <2>4 DEF OwnedInv, BaseInv, FilesInv
  <2>7. \A s \in Sock : sk'[s].sent = sk[s].sent /\ sk'[s].rx = sk[s].rx /\ sk'[s].st = sk[s].st
    <3>1. CASE RetrieveShort
      <4>1. sk' = [sk EXCEPT ![Socket].fin = TRUE] \/ sk' = sk
        BY <3>1, Zenon DEF RetrieveShort
      <4> QED BY <1>0, <2>6, <4>1 DEF Record
    <3>2. CASE RetrieveSends
      BY <1>0, <2>6, <3>2 DEF RetrieveSends, Record
    <3>3. CASE RetrieveFails
      BY <3>3 DEF RetrieveFails
    <3> QED BY <1>4, <3>1, <3>2, <3>3
  <2>8. Mild
    BY <2>1, <2>2, <2>3, <2>5, <2>7 DEF Mild
  <2>9. MildMove
    BY <1>0, <1>a, <2>4, PlainMild, StayMove, LabelsAre
  <2> QED BY <2>8, <2>9, OwnedMild
<1> QED BY <1>1, <1>2, <1>3, <1>4

\* What is said of the sockets depends on no more than these.
LEMMA SockSame ==
  ASSUME SockInv, UNCHANGED <<sk, talk>>, Socket' = Socket PROVE SockInv'
  BY DEF SockInv, St

\* Reading a command, or finding that the connection is lost, keeps the invariant.
LEMMA RecvOwned == ASSUME OwnedInv, BaseInv', Recv PROVE OwnedInv'
<1>0. StackInv /\ cmd \in Commands \cup {"none"} /\ SockInv /\ CallInv /\ PatientInv
  BY DEF OwnedInv, OwnInv, BaseInv, Types
<1>1. UNCHANGED <<peer, sk, talk>> /\ Socket' = Socket
  BY DEF Recv, Socket
<1>2. SockInv'
  BY <1>0, <1>1, SockSame
<1>3. /\ Top = "recv" /\ Below = {} /\ cmd' = "none"
      /\ \/ cmd # "none" /\ Pushes(cmd, {"data", "recv"})
         \/ Pushes("data", {"recv"})
         \/ ~peer /\ Pushes("data", {"close", "closefile", "delete"})
  BY <1>0, LoopMoves
<1>4. stack' # <<>>
  BY <1>0, <1>3, LabelsAre DEF Pushes, Top, Commands
<1>5. CASE cmd # "none" /\ Pushes(cmd, {"data", "recv"})
  <2>1. \A l : On(l)' <=> l \in {cmd, "data", "recv"}
    BY <1>3, <1>5, OnIs
  <2>2. CallInv'
    BY <1>0, <1>1, <1>3, <1>4, <1>5, <2>1 DEF CallInv, Connecting, Connects, Fetching, Commands
  <2>3. PatientInv'
    BY <1>0, <1>1, <1>4, <1>5, <2>1 DEF PatientInv, Commands, Storing, Waiting, Rx
  <2> QED BY <1>2, <2>2, <2>3 DEF OwnedInv, OwnInv
<1>6. CASE Pushes("data", {"recv"})
  <2>1. \A l : On(l)' <=> l \in {"data", "recv"}
    BY <1>3, <1>6, OnIs
  <2>2. CallInv'
    BY <1>0, <1>1, <1>3, <1>4, <2>1 DEF CallInv, Connecting, Connects, Fetching
  <2>3. PatientInv'
    BY <1>0, <1>1, <1>4, <2>1 DEF PatientInv, Storing, Waiting, Rx
  <2> QED BY <1>2, <2>2, <2>3 DEF OwnedInv, OwnInv
<1>7. CASE ~peer /\ Pushes("data", {"close", "closefile", "delete"})
  <2>1. \A l : On(l)' <=> l \in {"data", "close", "closefile", "delete"}
    BY <1>3, <1>7, OnIs
  <2>2. CallInv'
    BY <1>0, <1>1, <1>3, <1>4, <1>7, <2>1 DEF CallInv, Connecting, Connects, Fetching
  <2>3. PatientInv'
    BY <1>0, <1>1, <1>4, <2>1 DEF PatientInv, Storing, Waiting, Rx
  <2> QED BY <1>2, <2>2, <2>3 DEF OwnedInv, OwnInv
<1> QED BY <1>3, <1>5, <1>6, <1>7

\* vFTPClientDelete keeps the invariant: the socket has been closed before.
LEMMA DeleteOwned == ASSUME OwnedInv, BaseInv', Delete PROVE OwnedInv'
<1>0. StackInv /\ StackInv' /\ cmd \in Commands \cup {"none"} /\ SockInv /\ CallInv /\ PatientInv
  BY DEF OwnedInv, OwnInv, BaseInv, Types
<1>1. UNCHANGED <<peer, sk, talk, cmd>> /\ Socket' = Socket
  BY DEF Delete, Socket
<1>2. SockInv'
  BY <1>0, <1>1, SockSame
<1>3. Top = "delete" /\ Below = {} /\ Top' = "none" /\ Below' = {}
  BY <1>0, LoopMoves, LabelsAre
<1>4. stack' = <<>>
  <2>1. stack' \in Seq(Labels) /\ "none" \notin Labels
    BY <1>0, LabelsAre DEF StackInv
  <2>2. stack' # <<>> => Head(stack') \in Labels
    BY <2>1, HeadTailProperties, EmptySeq
  <2> QED BY <1>3, <2>1, <2>2 DEF Top
<1>5. On("delete") /\ ~On("close") /\ (\A l \in Labels : ~On(l)')
  BY <1>3, LabelsAre DEF On
<1>6. CallInv'
  BY <1>0, <1>1, <1>4, <1>5, LabelsAre DEF CallInv, Connecting, Connects, Fetching
<1>7. PatientInv'
  BY <1>0, <1>1, <1>3, <1>4, <1>5, LabelsAre DEF PatientInv, Storing, Waiting, Rx
<1> QED BY <1>2, <1>6, <1>7 DEF OwnedInv, OwnInv

\* PASV and PORT keep the invariant: the old socket is closed before another is made.
LEMMA PasvOwned == ASSUME OwnedInv, BaseInv', Pasv \/ Port PROVE OwnedInv'
<1>0. StackInv /\ StackInv' /\ cmd \in Commands \cup {"none"} /\ SockInv /\ CallInv /\ PatientInv
  BY DEF OwnedInv, OwnInv, BaseInv, Types
<1>1. UNCHANGED <<peer, sk, talk, cmd>> /\ Socket' = Socket
  BY DEF Pasv, Port, Socket
<1>2. SockInv'
  BY <1>0, <1>1, SockSame
<1>3. /\ Top \in {"pasv", "port"} /\ Below \subseteq {"data", "recv"}
      /\ Pushes("close", {"listen"}) \/ Pushes("close", {"bind"})
  BY <1>0, CommandMoves
<1>4. PICK b \in {"listen", "bind"} : Pushes("close", {b})
  BY <1>3
<1>5. stack' # <<>>
  BY <1>4 DEF Pushes, Top
<1>6. \A l : On(l)' <=> l \in Below \cup {"close", b}
  BY <1>4, OnIs
<1>7. \E l \in Connects : On(l)
  BY <1>3 DEF On, Connects
<1>8. On("recv")'
  BY <1>0, <1>3, <1>6 DEF CallInv, On, Top
<1>9. CallInv'
  BY <1>0, <1>1, <1>3, <1>5, <1>6, <1>7, <1>8 DEF CallInv, Connecting, Connects, Fetching
<1>10. PatientInv'
  BY <1>0, <1>1, <1>3, <1>4, <1>5, <1>6, <1>7 DEF PatientInv, Storing, Waiting, Rx, Pushes
<1> QED BY <1>2, <1>9, <1>10 DEF OwnedInv, OwnInv

\* The first step of prvTransferCloseSocket keeps the invariant: for a patient peer
\* nothing is left in the socket of a transfer that is not under way.
LEMMA CloseOwned == ASSUME OwnedInv, BaseInv', Close PROVE OwnedInv'
<1>0. StackInv /\ StackInv' /\ cmd \in Commands \cup {"none"} /\ SockInv /\ CallInv /\ PatientInv
  BY DEF OwnedInv, OwnInv, BaseInv, Types
<1>1. UNCHANGED <<peer, sk, talk, cmd>> /\ Socket' = Socket
  BY DEF Close, Socket
<1>2. SockInv'
  BY <1>0, <1>1, SockSame
<1>3. /\ Top = "close" /\ Below \subseteq Waiters
      /\ \/ Rx > 0 /\ Pushes("store", {"close2"})
         \/ Pushes("closing", {})
  BY <1>0, CloseMoves, BelowIs
<1>4. stack' # <<>>
  BY <1>3 DEF Pushes, Top
<1>5. \A l \in Chain : On(l)' <=> On(l)
  BY <1>3, OnIs, LabelsAre DEF Chain, Connects, On
<1>6. CallInv'
  BY <1>0, <1>1, <1>3, <1>4, <1>5 DEF CallInv, Connecting, Connects, Fetching, Chain, Top
<1>7. ASSUME talk.calm, Rx > 0 PROVE ~(On("listen") \/ On("bind")) /\ ~On("delete")
  <2>1. Storing
    BY <1>0, <1>7 DEF PatientInv
  <2>2. talk.op # "none" /\ peer
    BY <1>0, <1>7, <2>1 DEF Storing, Waiting, PatientInv
  <2> QED BY <1>0, <2>2 DEF CallInv, Connecting, Connects
<1>8. PatientInv'
  BY <1>0, <1>1, <1>3, <1>4, <1>5, <1>7 DEF PatientInv, Storing, Waiting, Rx, Pushes, Chain, Connects
<1> QED BY <1>2, <1>6, <1>8 DEF OwnedInv, OwnInv

\* The closing of the socket keeps the invariant.
LEMMA ClosingOwned == ASSUME OwnedInv, BaseInv', Closing PROVE OwnedInv'
<1>0. StackInv /\ StackInv' /\ cmd \in Commands \cup {"none"} /\ SockInv /\ CallInv /\ PatientInv
      /\ Types /\ sk \in [Sock -> Record] /\ pxClient \in Client /\ talk \in Talk
      /\ Socket \in Sock \cup {0} /\ 0 \notin Sock
      /\ talk.cur \in Sock \cup {0} /\ talk.offer \in Sock \cup {0}
  BY ClientFields, TalkFields, ConstantsAre DEF OwnedInv, OwnInv, BaseInv, Types
<1>1. UNCHANGED <<peer, cmd>> /\ Socket' = 0
  BY <1>0 DEF Closing, FlagsReset, Client, Socket
<1>2. /\ talk'.op = talk.op /\ talk'.cur = talk.cur /\ talk'.offer = talk.offer /\ talk'.calm = talk.calm
      /\ (Waiting' => Waiting)
  BY <1>0 DEF Closing, Replies, Talk, Waiting
<1>3. \A s \in Sock : IF s = Socket
                      THEN sk'[s].st = "freed" /\ sk'[s].rx = sk[s].rx /\ sk'[s].sent = sk[s].sent
                      ELSE sk'[s] = sk[s]
  BY <1>0 DEF Closing, Record
<1>4. SockInv'
  BY <1>0, <1>1, <1>2, <1>3 DEF SockInv, St
<1>5. Top = "closing" /\ Pops
  BY <1>0, CloseMoves
<1>6. /\ \A l \in Labels : On(l)' <=> l \in Below
      /\ stack' # <<>> \/ Below = {}
  BY <1>0, <1>5, OnIs, TopIs, LabelsAre DEF Pops, Top
<1>7. /\ On("recv") \/ On("delete")
      /\ \A l \in Chain : On(l)' <=> On(l)
      /\ stack' # <<>>
  <2>1. stack # <<>>
    BY <1>5 DEF Top
  <2>2. On("recv") \/ On("delete")
    BY <1>0, <2>1 DEF CallInv
  <2>3. \A l \in Chain : On(l)' <=> On(l)
    BY <1>5, <1>6, LabelsAre DEF Chain, Connects, On
  <2> QED BY <1>5, <1>6, <2>2, <2>3 DEF On
<1>8. CallInv'
  BY <1>0, <1>1, <1>2, <1>7 DEF CallInv, Connecting, Connects, Fetching, Chain
<1>9. PatientInv'
  <2>1. talk'.calm => \A s \in Sock : sk'[s].st \notin {"none", "freed"} => FALSE
    BY <1>0, <1>2, <1>3 DEF PatientInv
  <2>2. Rx' = 0
    BY <1>1 DEF Rx
  <2> QED BY <1>0, <1>1, <1>2, <1>7, <2>1, <2>2 DEF PatientInv
<1> QED BY <1>4, <1>8, <1>9 DEF OwnedInv, OwnInv

\* prvTransferConnect keeps the invariant: it finds the session without a socket.
LEMMA ConnectOwned == ASSUME OwnedInv, BaseInv', NEW b \in BOOLEAN, TransferConnect(b) PROVE OwnedInv'
<1>0. StackInv /\ StackInv' /\ cmd \in Commands \cup {"none"} /\ SockInv /\ CallInv /\ PatientInv
      /\ Types /\ sk \in [Sock -> Record] /\ pxClient \in Client /\ talk \in Talk
      /\ Socket \in Sock \cup {0} /\ 0 \notin Sock
      /\ talk.cur \in Sock \cup {0} /\ talk.offer \in Sock \cup {0}
  BY ClientFields, TalkFields, ConstantsAre DEF OwnedInv, OwnInv, BaseInv, Types
<1>1. PICK s \in Sock :
        /\ sk[s].st = "none"
        /\ sk' = [sk EXCEPT ![s].st = IF b THEN "listen" ELSE "bound"]
        /\ pxClient' = [pxClient EXCEPT !.xTransferSocket = s, !.bIsListen = b, !.bEmptyFile = FALSE]
        /\ talk' = [talk EXCEPT !.offer = s]
  BY DEF TransferConnect, Unused
<1>2. UNCHANGED <<peer, cmd>> /\ Socket' = s
  BY <1>0, <1>1 DEF TransferConnect, Client, Socket
<1>3. /\ talk'.op = talk.op /\ talk'.cur = talk.cur /\ talk'.offer = s /\ talk'.calm = talk.calm
      /\ (Waiting' <=> Waiting)
  BY <1>0, <1>1 DEF Talk, Waiting
<1>4. \A r \in Sock : IF r = s THEN sk'[r].st \in {"listen", "bound"} /\ sk'[r].rx = sk[r].rx
                                    /\ sk'[r].sent = sk[r].sent
                      ELSE sk'[r] = sk[r]
  BY <1>0, <1>1 DEF Record
<1>5. SockInv'
  BY <1>0, <1>1, <1>2, <1>3, <1>4 DEF SockInv, St
<1>6. Top \in {"listen", "bind"} /\ Below \subseteq {"data", "recv"} /\ Pops
  BY <1>0, CommandMoves
<1>7. /\ \A l \in Labels : On(l)' <=> l \in Below
      /\ stack' # <<>> \/ Below = {}
  BY <1>0, <1>6, OnIs, TopIs, LabelsAre DEF Pops, Top
<1>8. /\ On("recv")' /\ stack' # <<>> /\ cmd = "none" /\ stack # <<>>
      /\ \A l \in Chain \ {"recv"} : ~On(l)'
  <2>1. stack # <<>> /\ (\E l \in Connects : On(l))
    BY <1>6 DEF Top, On, Connects
  <2>2. "recv" \in Below /\ cmd = "none"
    BY <1>0, <1>6, <2>1 DEF CallInv, On
  <2> QED BY <1>6, <1>7, <2>1, <2>2, LabelsAre DEF Chain, Connects
<1>9. CallInv'
  BY <1>2, <1>8 DEF CallInv, Connecting, Connects, Fetching, Chain
<1>10. PatientInv'
  <2> SUFFICES ASSUME talk'.calm PROVE PatientInv'
    BY DEF PatientInv
  <2>1. Socket = 0
    BY <1>0, <1>3, <1>6 DEF PatientInv, On
  <2>2. \A r \in Sock : sk'[r].st \notin {"none", "freed"} => Socket' = r
    BY <1>0, <1>2, <1>3, <1>4, <2>1 DEF PatientInv
  <2>3. Rx' = 0
    BY <1>0, <1>1, <1>2, <1>4 DEF Rx, SockInv
  <2> QED BY <1>0, <1>2, <1>3, <1>8, <2>2, <2>3 DEF PatientInv, Chain, Connects
<1> QED BY <1>5, <1>9, <1>10 DEF OwnedInv, OwnInv

\* A command of the peer, or its leaving, keeps the invariant.
LEMMA PeerOwned == ASSUME OwnedInv, BaseInv', Peer PROVE OwnedInv'
<1>0. StackInv /\ StackInv' /\ cmd \in Commands \cup {"none"} /\ SockInv /\ CallInv /\ PatientInv
      /\ Types /\ sk \in [Sock -> Record] /\ pxClient \in Client /\ talk \in Talk
      /\ Socket \in Sock \cup {0} /\ 0 \notin Sock
      /\ talk.cur \in Sock \cup {0} /\ talk.offer \in Sock \cup {0}
  BY ClientFields, TalkFields, ConstantsAre DEF OwnedInv, OwnInv, BaseInv, Types
<1>1. UNCHANGED <<stack, pxClient, sk>>
  BY Zenon DEF Peer, PeerCommand, PeerLeaves
<1>2. Top' = Top /\ Below' = Below /\ Socket' = Socket /\ Rx' = Rx /\ St' = St /\ (\A l : On(l)' <=> On(l))
  BY <1>1 DEF Top, Below, Socket, Rx, St, On
<1>3. ASSUME NEW c \in Commands, PeerCommand(c) PROVE OwnedInv'
  <2>1. peer /\ peer' = peer /\ cmd = "none" /\ cmd' = c
    BY <1>3 DEF PeerCommand
  <2>2. \A l \in Connects \cup {"rest"} : ~On(l)
    <3>1. Len(stack) \in Nat /\ DOMAIN stack = 1..Len(stack) /\ (stack = <<>> <=> Len(stack) = 0)
          /\ (stack # <<>> => Head(stack) = stack[1])
      BY <1>0, EmptySeq DEF StackInv
    <3>2. \A i \in 1..Len(stack) : stack[i] \notin Connects \cup {"rest"}
      BY <1>3, <3>1 DEF PeerCommand, Connects
    <3> QED BY <3>1, <3>2 DEF On, Top, Below, Connects
  <2>3. CASE c \in {"pasv", "port"}
    <3>1. /\ talk'.op = "none" /\ talk'.cur = talk.cur /\ talk'.offer = 0
          /\ (talk'.calm => talk.calm /\ ~Waiting)
      BY <1>0, <1>3, <2>3 DEF PeerCommand, Talk
    <3>2. SockInv'
      BY <1>0, <1>1, <1>2, <3>1 DEF SockInv
    <3>3. CallInv'
      BY <1>0, <1>1, <1>2, <2>1, <2>2, <2>3, <3>1 DEF CallInv, Connecting, Fetching
    <3>4. PatientInv'
      BY <1>0, <1>1, <1>2, <2>1, <2>2, <3>1 DEF PatientInv, CallInv, Storing, Waiting, Connects
    <3> QED BY <3>2, <3>3, <3>4 DEF OwnedInv, OwnInv
  <2>4. CASE c \in {"retr", "stor"}
    <3>1. /\ talk'.op = c /\ talk'.cur = talk.offer /\ talk'.offer = 0 /\ talk'.calm = talk.calm
          /\ talk.offer # 0 /\ ~Waiting
      BY <1>0, <1>3, <2>4 DEF PeerCommand, Talk
    <3>2. SockInv'
      BY <1>0, <1>1, <1>2, <3>1 DEF SockInv
    <3>3. CallInv'
      BY <1>0, <1>1, <1>2, <2>1, <2>2, <2>4, <3>1 DEF CallInv, Connecting, Fetching
    <3>4. PatientInv'
      BY <1>0, <1>1, <1>2, <2>1, <2>2, <3>1 DEF PatientInv, CallInv, Storing, Waiting, Connects
    <3> QED BY <3>2, <3>3, <3>4 DEF OwnedInv, OwnInv
  <2>5. CASE c \in {"rest", "size"}
    <3>1. talk' = talk
      BY <1>3, <2>5 DEF PeerCommand
    <3>2. SockInv'
      BY <1>0, <1>1, <1>2, <3>1, SockSame
    <3>3. CallInv'
      BY <1>0, <1>1, <1>2, <2>1, <2>2, <2>5, <3>1 DEF CallInv, Connecting, Fetching
    <3>4. PatientInv'
      BY <1>0, <1>1, <1>2, <2>1, <2>2, <3>1 DEF PatientInv, CallInv, Storing, Waiting, Connects
    <3> QED BY <3>2, <3>3, <3>4 DEF OwnedInv, OwnInv
  <2> QED BY <2>3, <2>4, <2>5 DEF Commands
<1>4. CASE PeerLeaves
  <2>1. /\ peer' = FALSE /\ cmd' = cmd /\ talk'.op = talk.op /\ talk'.cur = talk.cur
        /\ talk'.offer = talk.offer /\ (talk'.calm => talk.calm /\ ~Waiting) /\ talk'.reply = talk.reply
        /\ peer
    BY <1>0, <1>4 DEF PeerLeaves, Talk
  <2>2. SockInv'
    BY <1>0, <1>1, <1>2, <2>1 DEF SockInv
  <2>3. CallInv'
    BY <1>0, <1>1, <1>2, <2>1 DEF CallInv, Connecting, Fetching
  <2>4. PatientInv'
    BY <1>0, <1>1, <1>2, <2>1 DEF PatientInv, CallInv, Storing, Waiting
  <2> QED BY <2>2, <2>3, <2>4 DEF OwnedInv, OwnInv
<1> QED BY <1>3, <1>4 DEF Peer

\* The steps of the TCP stack and of the peer on a data connection keep the invariant.
LEMMA NetOwned == ASSUME OwnedInv, BaseInv', NEW s \in Sock, Net(s) PROVE OwnedInv'
<1>0. StackInv /\ StackInv' /\ cmd \in Commands \cup {"none"} /\ SockInv /\ CallInv /\ PatientInv
      /\ Types /\ sk \in [Sock -> Record] /\ pxClient \in Client /\ talk \in Talk
      /\ Socket \in Sock \cup {0} /\ 0 \notin Sock
      /\ talk.cur \in Sock \cup {0} /\ talk.offer \in Sock \cup {0}
  BY ClientFields, TalkFields, ConstantsAre DEF OwnedInv, OwnInv, BaseInv, Types
<1>1. UNCHANGED <<stack, pxClient, peer, cmd>>
  BY Zenon DEF Net, PeerConnects, PeerRefuses, PeerSends, PeerReads, PeerCloses, StackCloses, NetLeaves
<1>2. Top' = Top /\ Below' = Below /\ Socket' = Socket /\ (\A l : On(l)' <=> On(l))
  BY <1>1 DEF Top, Below, Socket, On
<1>3. /\ talk'.op = talk.op /\ talk'.cur = talk.cur /\ talk'.offer = talk.offer
      /\ talk'.reply = talk.reply /\ (talk'.calm => talk.calm) /\ talk'.rest = talk.rest
  BY <1>0 DEF Net, PeerConnects, PeerRefuses, PeerSends, PeerReads, PeerCloses, StackCloses, Talk
<1>4. (Waiting' <=> Waiting) /\ (Storing' <=> Storing)
  BY <1>3 DEF Waiting, Storing
<1>5. CallInv'
  BY <1>0, <1>1, <1>2, <1>3 DEF CallInv, Connecting, Fetching
<1>6. /\ sk[s].st \notin {"none", "freed"} /\ sk'[s].st \notin {"none", "freed"}
      /\ \A r \in Sock \ {s} : sk'[r] = sk[r]
  BY <1>0 DEF Net, PeerConnects, PeerRefuses, PeerSends, PeerReads, PeerCloses, StackCloses, Record
<1>7. CASE PeerSends(s)
  <2>1. /\ talk.cur = s /\ (talk.op = "stor" \/ sk[s].sent > 0) /\ (talk'.calm => Waiting)
        /\ sk'[s].sent = sk[s].sent + 1
    BY <1>0, <1>7 DEF PeerSends, Talk, Record
  <2>2. talk.op # "retr"
    BY <1>0, <2>1 DEF SockInv
  <2>3. SockInv'
    BY <1>0, <1>2, <1>3, <1>6, <2>1, <2>2 DEF SockInv, St
  <2>4. talk'.calm => Storing
    BY <1>0, <2>1, <2>2 DEF Waiting, Storing, Talk
  <2>5. PatientInv'
    BY <1>0, <1>1, <1>2, <1>3, <1>4, <1>6, <2>4 DEF PatientInv
  <2> QED BY <1>5, <2>3, <2>5 DEF OwnedInv, OwnInv
<1>8. CASE ~PeerSends(s)
  <2>1. sk'[s].sent = sk[s].sent /\ sk'[s].rx = sk[s].rx
    BY <1>0, <1>8 DEF Net, PeerConnects, PeerRefuses, PeerReads, PeerCloses, StackCloses, Record
  <2>2. SockInv'
    BY <1>0, <1>2, <1>3, <1>6, <2>1 DEF SockInv, St
  <2>3. Rx' = Rx
    BY <1>0, <1>2, <1>6, <2>1 DEF Rx
  <2>4. PatientInv'
    BY <1>0, <1>1, <1>2, <1>3, <1>4, <1>6, <2>3 DEF PatientInv
  <2> QED BY <1>5, <2>2, <2>4 DEF OwnedInv, OwnInv
<1> QED BY <1>7, <1>8

\* The invariant holds when the session begins.
LEMMA OwnedInit == Init => OwnedInv
<1> SUFFICES ASSUME Init PROVE OwnedInv
  OBVIOUS
<1>1. stack = <<"recv">> /\ cmd = "none" /\ peer
  BY DEF Init
<1>2. Top = "recv" /\ Below = {} /\ stack # <<>>
  BY <1>1 DEF Top, Below
<1>3. Socket = 0 /\ (\A s \in Sock : sk[s].st = "none" /\ sk[s].rx = 0 /\ sk[s].sent = 0)
      /\ talk.op = "none" /\ talk.cur = 0 /\ talk.offer = 0
  BY DEF Init, Socket
<1>4. OwnInv
  BY <1>1, <1>2, <1>3 DEF OwnInv, SockInv, CallInv, On, Connecting, Connects, Fetching
<1>5. PatientInv
  BY <1>1, <1>2, <1>3 DEF PatientInv, On, Rx
<1> QED BY <1>4, <1>5, BaseInit DEF OwnedInv

\* Every step keeps the invariant.
LEMMA OwnedStep == OwnedInv /\ [Next]_vars => OwnedInv'
<1> SUFFICES ASSUME OwnedInv, [Next]_vars PROVE OwnedInv'
  OBVIOUS
<1>1. BaseInv'
  BY BaseStep DEF OwnedInv
<1>2. CASE Server
  <2>1. CASE \/ Data \/ Work \/ Worked \/ Size \/ Stored \/ Transfer("retr", <<"retrprep">>)
             \/ Transfer("stor", <<"storprep">>) \/ Check \/ Drained \/ Close2
             \/ RetrieveWaits \/ RetrieveAllSent \/ AllSent \/ StoreFileWorked
    BY <1>1, <2>1, PlainOwned
  <2>2. CASE PortNoSocket \/ Rest \/ Accept("accept") \/ Accept("acceptrx") \/ Ack \/ CloseFile \/ SetWrite
    BY <1>1, <2>2, FlagOwned
  <2>3. CASE StorePrep \/ StorePrepFails \/ StoreFileWork
    BY <1>1, <2>3, StoreOwned
  <2>4. CASE RetrievePrepFails \/ RetrieveShort \/ RetrieveSends \/ RetrieveFails
    BY <1>1, <2>4, RetrieveOwned
  <2>5. CASE \E l \in {"retr", "stor"} : NoDataConnection(l)
    BY <1>1, <2>5, RetrieveOwned
  <2>6. CASE \E size \in {0, FileSize} : RetrievePrep(size)
    BY <1>1, <2>6, RetrieveOwned
  <2>7. CASE Recv \/ Delete \/ Pasv \/ Port \/ Close \/ Closing
    BY <1>1, <2>7, RecvOwned, DeleteOwned, PasvOwned, CloseOwned, ClosingOwned
  <2>8. CASE \E listen \in BOOLEAN : TransferConnect(listen)
    BY <1>1, <2>8, ConnectOwned
  <2> QED BY <1>2, <2>1, <2>2, <2>3, <2>4, <2>5, <2>6, <2>7, <2>8, Zenon DEF Server
<1>3. CASE Peer
  BY <1>1, <1>3, PeerOwned
<1>4. CASE \E s \in Sock : Net(s)
  BY <1>1, <1>4, NetOwned
<1>5. CASE UNCHANGED vars
  <2>1. UNCHANGED <<stack, peer, cmd, sk, talk, pxClient>>
    BY <1>5 DEF vars
  <2>2. Top' = Top /\ Below' = Below /\ Socket' = Socket /\ (\A l : On(l)' <=> On(l)) /\ Rx' = Rx
        /\ (Waiting' <=> Waiting)
    BY <2>1 DEF Top, Below, Socket, On, Rx, Waiting
  <2>3. SockInv'
    BY <2>1, <2>2, SockSame DEF OwnedInv, OwnInv
  <2>4. CallInv'
    BY <2>1, <2>2 DEF OwnedInv, OwnInv, CallInv, Connecting, Fetching
  <2>5. PatientInv'
    BY <2>1, <2>2 DEF OwnedInv, PatientInv, Storing
  <2> QED BY <1>1, <2>3, <2>4, <2>5 DEF OwnedInv, OwnInv
<1> QED BY <1>2, <1>3, <1>4, <1>5 DEF Next

\* The sockets, the calls that close them and what a patient peer may rely on.
THEOREM AlwaysOwned == Spec => []OwnedInv
  BY OwnedInit, OwnedStep, PTL DEF Spec

\* A patient peer's data sockets are closed before another one is made
\* (prvTransferConnect: "Make sure the previous socket is deleted and flags reset"),
\* and at the end of the session.
THEOREM SocketsAlwaysOwned == Spec => []SocketsOwned
<1>1. OwnedInv => SocketsOwned
  <2> SUFFICES ASSUME OwnedInv, talk.calm, NEW s \in Sock, sk[s].st \notin {"none", "freed"}
               PROVE  Socket = s /\ stack # <<>>
    BY DEF SocketsOwned
  <2>1. Socket = s
    BY DEF OwnedInv, PatientInv
  <2>2. stack # <<>>
    BY <2>1, ConstantsAre DEF OwnedInv, PatientInv
  <2> QED BY <2>1, <2>2
<1> QED BY <1>1, AlwaysOwned, PTL

-----------------------------------------------------------------------------
(* The order of the calls that close a connection *)

Closers == {"close", "close2", "closing"}
Adjacent(s) == \A i \in DOMAIN s :
  /\ s[i] \in Closers => i + 1 \in DOMAIN s /\ s[i + 1] \in {"closefile", "listen", "bind"}
  /\ i + 1 \in DOMAIN s /\ s[i + 1] = "closefile" => s[i] \in Closers
AdjacentInv == Adjacent(stack) /\ ("close" \in Below => On("delete"))

\* Within calls that are pushed, and from the last of them to what it was pushed on.
Linked(s) ==
  /\ \A i \in DOMAIN s : i + 1 \in DOMAIN s =>
       /\ s[i] \in Closers => s[i + 1] \in {"closefile", "listen", "bind"}
       /\ s[i + 1] = "closefile" => s[i] \in Closers
  /\ s # <<>> => (s[Len(s)] \in Closers <=> Top \in Closers)

\* A call that pushes calls of which each close is followed by what it was called for
\* keeps that order.
LEMMA PushAdjacent ==
  ASSUME StackInv, stack # <<>>, Adjacent(stack), NEW s \in Seq(Labels), Calls(s), Linked(s)
  PROVE  Adjacent(stack)'
<1> DEFINE t == Tail(stack)
           u == s \o t
           n == Len(s)
           m == Len(stack)
<1>1. /\ t \in Seq(Labels) /\ Len(t) = m - 1 /\ m \in Nat /\ m # 0
      /\ \A i \in 1..m - 1 : t[i] = stack[i + 1]
      /\ n \in Nat /\ DOMAIN s = 1..n /\ DOMAIN stack = 1..m /\ Top = stack[1]
      /\ (s # <<>> <=> n # 0)
  BY HeadTailProperties, EmptySeq, TopIs DEF StackInv
<1>2. /\ u \in Seq(Labels) /\ Len(u) = n + (m - 1)
      /\ \A i \in 1..Len(u) : u[i] = IF i <= n THEN s[i] ELSE t[i - n]
      /\ DOMAIN u = 1..Len(u)
  BY <1>1, ConcatProperties
<1>3. \A i \in 1..Len(u) : u[i] = IF i <= n THEN s[i] ELSE stack[i - n + 1]
  BY <1>1, <1>2
<1>4. stack' = u
  BY DEF Calls
<1> HIDE DEF u, t, n, m
<1>5. ASSUME NEW i \in DOMAIN u
      PROVE  /\ u[i] \in Closers => i + 1 \in DOMAIN u /\ u[i + 1] \in {"closefile", "listen", "bind"}
             /\ i + 1 \in DOMAIN u /\ u[i + 1] = "closefile" => u[i] \in Closers
  <2>0. i \in 1..Len(u) /\ i \in Nat
    BY <1>2
  <2>1. CASE i < n
    <3>1. i <= n /\ i + 1 <= n /\ i + 1 \in 1..Len(u) /\ i \in 1..n /\ i + 1 \in 1..n
      BY <1>1, <1>2, <2>0, <2>1
    <3>2. u[i] = s[i] /\ u[i + 1] = s[i + 1]
      BY <1>3, <2>0, <3>1
    <3>3. i \in DOMAIN s /\ i + 1 \in DOMAIN s /\ i + 1 \in DOMAIN u
      BY <1>1, <1>2, <3>1
    <3> QED BY <3>2, <3>3 DEF Linked
  <2>2. CASE i = n
    <3>0. n # 0 /\ n <= n /\ s # <<>> /\ n = Len(s)
      BY <1>1, <2>0, <2>2 DEF n
    <3>1. u[i] = s[n] /\ (s[n] \in Closers <=> stack[1] \in Closers) /\ 1 \in DOMAIN stack
      BY <1>1, <1>3, <2>0, <2>2, <3>0 DEF Linked
    <3>2. i + 1 \in DOMAIN u <=> 1 + 1 \in DOMAIN stack
      BY <1>1, <1>2, <2>0, <2>2
    <3>3. ASSUME i + 1 \in DOMAIN u PROVE u[i + 1] = stack[1 + 1]
      <4>1. i + 1 \in 1..Len(u) /\ ~(i + 1 <= n) /\ (i + 1) - n + 1 = 1 + 1
        BY <1>1, <1>2, <2>0, <2>2, <3>3
      <4>2. u[i + 1] = stack[(i + 1) - n + 1]
        BY <1>3, <4>1
      <4> QED BY <4>1, <4>2
    <3>4. \A j \in DOMAIN stack :
            /\ stack[j] \in Closers => j + 1 \in DOMAIN stack /\ stack[j + 1] \in {"closefile", "listen", "bind"}
            /\ j + 1 \in DOMAIN stack /\ stack[j + 1] = "closefile" => stack[j] \in Closers
      BY DEF Adjacent
    <3> QED BY <3>1, <3>2, <3>3, <3>4
  <2>3. CASE i > n
    <3> DEFINE k == i - n + 1
    <3>a. i \in 1..n + (m - 1) /\ n \in Nat /\ m \in Nat /\ i \in Nat /\ Len(u) = n + (m - 1)
      BY <1>1, <1>2, <2>0
    <3>b. ~(i <= n) /\ k \in 1..m /\ k \in Int
      BY <2>3, <3>a
    <3>c. i + 1 \in 1..n + (m - 1) <=> k + 1 \in 1..m
      BY <2>3, <3>a
    <3>0. ~(i <= n) /\ k \in 1..m /\ k \in Int /\ (i + 1 \in 1..Len(u) <=> k + 1 \in 1..m)
      BY <3>a, <3>b, <3>c
    <3>1. u[i] = stack[k] /\ k \in DOMAIN stack /\ (i + 1 \in DOMAIN u <=> k + 1 \in DOMAIN stack)
      BY <1>1, <1>2, <1>3, <2>0, <3>0
    <3>2. i + 1 \in DOMAIN u => u[i + 1] = stack[k + 1]
      <4> SUFFICES ASSUME i + 1 \in DOMAIN u PROVE u[i + 1] = stack[k + 1]
        OBVIOUS
      <4>1. i + 1 \in 1..Len(u) /\ ~(i + 1 <= n) /\ (i + 1) - n + 1 = k + 1
        BY <1>1, <1>2, <2>0, <2>3
      <4>2. u[i + 1] = stack[(i + 1) - n + 1]
        BY <1>3, <4>1
      <4> QED BY <4>1, <4>2
    <3> HIDE DEF k
    <3> QED BY <3>1, <3>2 DEF Adjacent
  <2> QED BY <1>1, <2>0, <2>1, <2>2, <2>3
<1> QED BY <1>4, <1>5 DEF Adjacent

\* What is returned to.
LEMMA PopAdjacent ==
  ASSUME StackInv, stack # <<>>, Adjacent(stack), Calls(<<>>)
  PROVE  /\ Top \in Closers => Top' \in {"closefile", "listen", "bind"}
         /\ Top' = "closefile" => Top \in Closers
<1> DEFINE m == Len(stack)
<1>1. /\ Tail(stack) \in Seq(Labels) /\ Len(Tail(stack)) = m - 1 /\ m \in Nat /\ m # 0
      /\ \A i \in 1..m - 1 : Tail(stack)[i] = stack[i + 1]
      /\ DOMAIN stack = 1..m /\ Top = stack[1]
  BY HeadTailProperties, EmptySeq, TopIs DEF StackInv
<1>2. stack' = Tail(stack)
  BY <1>1, ConcatProperties, EmptySeq DEF Calls
<1>3. CASE m = 1
  <2>1. stack' = <<>> /\ 1 \in DOMAIN stack /\ 1 + 1 \notin DOMAIN stack
    BY <1>1, <1>2, <1>3, EmptySeq
  <2> QED BY <1>1, <2>1 DEF Top, Adjacent
<1>4. CASE m # 1
  <2>0. 1 \in 1..m - 1 /\ 1 \in 1..m /\ 1 + 1 \in 1..m /\ m - 1 # 0
    BY <1>1, <1>4
  <2> DEFINE t == Tail(stack)
  <2>a. t \in Seq(Labels) /\ Len(t) = m - 1 /\ t[1] = stack[1 + 1]
    BY <1>1, <2>0
  <2>b. t # <<>> /\ Head(t) = t[1]
    <3> HIDE DEF t
    <3> QED BY <2>0, <2>a, EmptySeq
  <2>1. stack' # <<>> /\ 1 \in DOMAIN stack /\ 1 + 1 \in DOMAIN stack /\ Tail(stack)[1] = stack[1 + 1]
        /\ Head(Tail(stack)) = Tail(stack)[1]
    BY <1>1, <1>2, <2>0, <2>a, <2>b
  <2>2. Top' = stack[1 + 1]
    BY <1>2, <2>1 DEF Top
  <2> QED BY <1>1, <2>1, <2>2 DEF Adjacent
<1> QED BY <1>3, <1>4

\* What each call of the server task makes of the stack.
Pushed ==
  \/ stack' = stack
  \/ Calls(<<>>)
  \/ Top \in Closers /\ (Calls(<<"closing">>) \/ Calls(<<"store", "close2">>))
  \/ Top \notin Closers /\ \E a \in Labels \ (Closers \cup {"closefile"}) : Calls(<<a>>)
  \/ Top \notin Closers /\ \E a, b \in Labels \ (Closers \cup {"closefile"}) : Calls(<<a, b>>)
  \/ Top \notin Closers /\ \E a, b, c \in Labels \ (Closers \cup {"closefile"}) : Calls(<<a, b, c>>)
  \/ Top \notin Closers /\ \E b \in {"closefile", "listen", "bind"} : Calls(<<"close", b>>)
  \/ Top \notin Closers /\ Calls(<<"data", "close", "closefile", "delete">>)

\* So does every step that makes one of the calls the code makes.
LEMMA PushedAdjacent ==
  ASSUME StackInv, stack # <<>>, Adjacent(stack), Pushed
  PROVE  Adjacent(stack)'
<1>1. CASE stack' = stack
  BY <1>1
<1>2. CASE Calls(<<>>)
  <2>1. <<>> \in Seq(Labels) /\ Linked(<<>>)
    BY DEF Linked
  <2> QED BY <1>2, <2>1, PushAdjacent
<1>3. CASE Top \in Closers /\ Calls(<<"closing">>)
  <2>1. <<"closing">> \in Seq(Labels) /\ Linked(<<"closing">>)
    BY <1>3, LabelsAre DEF Linked, Closers
  <2> QED BY <1>3, <2>1, PushAdjacent
<1>4. CASE Top \in Closers /\ Calls(<<"store", "close2">>)
  <2>1. <<"store", "close2">> \in Seq(Labels) /\ Linked(<<"store", "close2">>)
    BY <1>4, LabelsAre DEF Linked, Closers
  <2> QED BY <1>4, <2>1, PushAdjacent
<1>5. ASSUME Top \notin Closers, NEW a \in Labels \ (Closers \cup {"closefile"}), Calls(<<a>>)
      PROVE  Adjacent(stack)'
  <2>1. <<a>> \in Seq(Labels) /\ Linked(<<a>>)
    BY <1>5 DEF Linked
  <2> QED BY <1>5, <2>1, PushAdjacent
<1>6. ASSUME Top \notin Closers, NEW a \in Labels \ (Closers \cup {"closefile"}),
             NEW b \in Labels \ (Closers \cup {"closefile"}), Calls(<<a, b>>)
      PROVE  Adjacent(stack)'
  <2>1. <<a, b>> \in Seq(Labels) /\ Linked(<<a, b>>)
    BY <1>6 DEF Linked
  <2> QED BY <1>6, <2>1, PushAdjacent
<1>7. ASSUME Top \notin Closers, NEW a \in Labels \ (Closers \cup {"closefile"}),
             NEW b \in Labels \ (Closers \cup {"closefile"}), NEW c \in Labels \ (Closers \cup {"closefile"}),
             Calls(<<a, b, c>>)
      PROVE  Adjacent(stack)'
  <2>1. <<a, b, c>> \in Seq(Labels) /\ Linked(<<a, b, c>>)
    BY <1>7 DEF Linked
  <2> QED BY <1>7, <2>1, PushAdjacent
<1>8. ASSUME Top \notin Closers, NEW b \in {"closefile", "listen", "bind"}, Calls(<<"close", b>>)
      PROVE  Adjacent(stack)'
  <2>1. <<"close", b>> \in Seq(Labels) /\ Linked(<<"close", b>>)
    BY <1>8, LabelsAre DEF Linked, Closers
  <2> QED BY <1>8, <2>1, PushAdjacent
<1>9. CASE Top \notin Closers /\ Calls(<<"data", "close", "closefile", "delete">>)
  <2>1. <<"data", "close", "closefile", "delete">> \in Seq(Labels)
        /\ Linked(<<"data", "close", "closefile", "delete">>)
    BY <1>9, LabelsAre DEF Linked, Closers
  <2> QED BY <1>9, <2>1, PushAdjacent
<1> QED BY <1>1, <1>2, <1>3, <1>4, <1>5, <1>6, <1>7, <1>8, <1>9 DEF Pushed

-----------------------------------------------------------------------------
(* The upload: its request, its handles, its connection, its bytes *)

Ended == {"lastack", "closed"}
Alive == Ended \cup {"estab"}
Cur == sk[talk.cur]
Retrieving == Waiting /\ talk.op = "retr"
EarlyCalls == {"stor", "storprep", "setwrite", "retr", "retrprep"}
\* A transfer command that is not prepared yet.
StorEarly == cmd = "stor" \/ On("stor") \/ On("storprep") \/ On("setwrite")
RetrEarly == cmd = "retr" \/ On("retr") \/ On("retrprep")
Early == StorEarly \/ RetrEarly
\* The data connection is being closed.
Closes == Top \in Closers \/ (Top = "store" /\ "close2" \in Below) \/ (Top = "worked" /\ xRc = -1)

\* What has arrived was sent, on a connection.
ArrivedInv ==
  /\ \A s \in Sock : sk[s].rx <= sk[s].sent /\ (sk[s].rx > 0 => sk[s].st \in Alive \cup {"freed"})
  /\ pxClient.bEmptyFile => Socket = 0

\* The peer's request and the server task's work on it.
RequestInv ==
  /\ StorEarly => Storing
  /\ RetrEarly => Retrieving
  /\ (\E l \in EarlyCalls : On(l)) => cmd \notin {"stor", "retr"}
  /\ talk.op # "none" => talk.offer = 0 /\ Socket \in {0, talk.cur}
  /\ talk.offer # 0 => Socket \in {0, talk.offer}

\* The handles and flags of a transfer under way, and the calls that work on it.
HandleInv ==
  /\ pxClient.pxWriteHandle => (Storing /\ ~Early) \/ Top = "closefile"
  /\ pxClient.pxReadHandle => (Retrieving /\ ~Early) \/ Top = "closefile"
  /\ pxClient.bHadError => Storing /\ ~Early
  /\ Top \in {"store", "close2"} => Storing /\ ~Early
  /\ Top \in {"retrieve", "allsent"} => Retrieving /\ ~Early
  /\ Top = "worked" => Waiting /\ ~Early
  /\ Storing /\ ~Early => pxClient.pxWriteHandle \/
        (pxClient.bHadError /\ Rx > 0 /\ Top \notin {"store", "close", "close2", "closing", "worked"})
  /\ Storing /\ ~Early /\ Top = "closefile" => pxClient.bHadError /\ Rx > 0

\* What is known of the connection.
LinkInv ==
  /\ pxClient.bClientConnected => St \in Alive
  /\ Top = "acceptrx" => Rx > 0
  /\ Top \in {"ack", "drained"} => pxClient.bClientConnected
  /\ Top = "drained" => St \in Ended
  /\ Closes /\ peer /\ ~On("listen") /\ ~On("bind") /\ ~Retrieving
       => Socket = 0 \/ pxClient.bHadError \/ St \in Ended
  /\ Top = "close2" => pxClient.bHadError \/ Rx = 0

\* All that was sent has arrived or is written, unless a write failed.
UploadInv ==
  /\ Storing /\ Early => Cur.sent = Cur.rx /\ (On("setwrite") => uploaded = 0)
  /\ Storing /\ ~Early => pxClient.bHadError \/ uploaded + Cur.rx = Cur.sent
  /\ Storing /\ Top = "closing" => pxClient.bHadError \/ Cur.rx = 0
  /\ Storing /\ Early /\ Top = "close" => Cur.rx = 0
  /\ Storing /\ Socket = 0 => Cur.rx = 0
  /\ talk.op = "stor" /\ talk.reply = "226" => uploaded = Cur.sent /\ Cur.st = "freed"

FlowInv == ArrivedInv /\ (talk.calm => RequestInv /\ HandleInv /\ LinkInv /\ UploadInv)
SentInv == OwnedInv /\ AdjacentInv /\ FlowInv

-----------------------------------------------------------------------------
\* A step within a transfer: the request stays what it is ...
SameTalk ==
  /\ peer' => peer
  /\ Socket' = Socket /\ talk'.op = talk.op /\ talk'.cur = talk.cur /\ talk'.offer = talk.offer
  /\ talk'.reply = talk.reply /\ (talk'.calm => talk.calm)
SameEarly ==
  /\ (StorEarly' <=> StorEarly) /\ (RetrEarly' <=> RetrEarly)
  /\ (\E l \in EarlyCalls : On(l)') => cmd' \notin {"stor", "retr"}
SameRequest == SameTalk /\ SameEarly

\* ... and so do the handles and flags, but for those that the call is about ...
SameFlags ==
  /\ pxClient'.pxWriteHandle => pxClient.pxWriteHandle /\ (Top = "closefile" => Top' = "closefile")
  /\ pxClient'.pxReadHandle => pxClient.pxReadHandle /\ (Top = "closefile" => Top' = "closefile")
  /\ pxClient.pxWriteHandle => pxClient'.pxWriteHandle \/ Top \in {"closefile", "storprep"}
  /\ pxClient.pxReadHandle => pxClient'.pxReadHandle \/ Top \in {"closefile", "storprep"}
  /\ pxClient'.bEmptyFile => pxClient.bEmptyFile
  /\ pxClient.bHadError => pxClient'.bHadError
  /\ pxClient.bClientConnected => pxClient'.bClientConnected
  /\ pxClient'.bHadError => pxClient.bHadError \/ Top = "store"
  /\ pxClient'.bClientConnected => pxClient.bClientConnected \/ Top = "acceptrx" \/ St' \in Alive

\* ... and the sockets; what arrives, is written, or is started again.
SameSocks ==
  /\ \A s \in Sock : /\ sk[s].st \in Ended => sk'[s].st \in Ended
                     /\ sk[s].st = "estab" => sk'[s].st \in Alive
                     /\ sk[s].st = "freed" => sk'[s].st = "freed"
  /\ \/ /\ uploaded' = uploaded
        /\ \A s \in Sock : sk'[s].rx = sk[s].rx /\ sk'[s].sent = sk[s].sent
     \/ /\ uploaded' = uploaded /\ talk.cur \in Sock /\ Cur.st = "estab" /\ (talk'.calm => Waiting)
        /\ Cur'.rx = Cur.rx + 1 /\ Cur'.sent = Cur.sent + 1
        /\ \A s \in Sock \ {talk.cur} : sk'[s].rx = sk[s].rx /\ sk'[s].sent = sk[s].sent
        /\ Top' = Top /\ Below' = Below /\ pxClient' = pxClient
     \/ /\ Top = "store" /\ Socket \in Sock /\ Rx > 0
        /\ sk'[Socket].rx = 0 /\ sk'[Socket].sent = sk[Socket].sent
        /\ \A s \in Sock \ {Socket} : sk'[s].rx = sk[s].rx /\ sk'[s].sent = sk[s].sent
        /\ pxClient'.bHadError \/ uploaded' = uploaded + Rx
     \/ /\ Top = "storprep" /\ uploaded' = 0
        /\ \A s \in Sock : sk'[s].rx = sk[s].rx /\ sk'[s].sent = sk[s].sent

\* What the next call is, and from where.
SameCalls ==
  /\ Top' \in {"store", "close2"} => \/ Top' = Top \/ Top = "store"
                                     \/ Top # "closefile" /\ pxClient.pxWriteHandle
                                     \/ Top = "close" /\ Rx > 0
  /\ Top' = "store" /\ "close2" \in Below' => Top = "close" \/ (Top = "store" /\ "close2" \in Below)
  /\ Top' = "close2" => \/ Top = "close2"
                        \/ Top = "store" /\ "close2" \in Below /\ (pxClient'.bHadError \/ Rx' = 0)
  /\ Top' = "retrieve" => \/ Top = "retrieve"
                          \/ Top # "closefile" /\ pxClient.pxReadHandle /\ ~pxClient.pcConnectionAck
  /\ Top' = "allsent" => Top \in {"retrieve", "allsent"}
  /\ Top' = "worked" => Top \in {"worked", "store", "retrieve", "allsent"}
  /\ Top' = "worked" /\ xRc' = -1 => \/ Top = "worked" /\ xRc = -1
                                     \/ /\ Top = "retrieve"
                                        /\ St \notin {"connecting", "estab"} \/ file.unread < Count
                                     \/ Top = "allsent" /\ St = "closed"
                                     \/ pxClient'.bHadError \/ St \in {"none", "closed"}
  /\ Top' = "close" => \/ Top = "close" \/ ~peer \/ (Top = "worked" /\ xRc = -1)
                       \/ (Top = "drained" /\ Rx = 0) \/ (Socket = 0 /\ Top # "closefile")
                       \/ talk.op = "none" /\ (On("listen")' \/ On("bind")')
  /\ Top' = "closing" => Top = "closing" \/ (Top \in {"close", "close2"} /\ Rx = 0)
  /\ Top' = "closefile" => Top = "closefile" \/ (Top = "close2" /\ Rx > 0)
  /\ Top' = "acceptrx" => Top = "acceptrx" \/ (Top = "check" /\ Rx > 0)
  /\ Top' = "ack" => Top = "ack" \/ pxClient'.bClientConnected
  /\ Top' = "drained" => Top = "drained" \/ (Top = "ack" /\ St # "estab")
  /\ On("listen") \/ On("bind") => On("listen")' \/ On("bind")' \/ Top' \in {"data", "recv", "none"}

Steady == SameRequest /\ SameFlags /\ SameSocks /\ SameCalls

\* A steady step keeps the peer's request ...
LEMMA RequestSteady ==
  ASSUME RequestInv, SameRequest
  PROVE  /\ RequestInv'
         /\ (Waiting' <=> Waiting) /\ (Storing' <=> Storing) /\ (Retrieving' <=> Retrieving)
         /\ (Early' <=> Early)
<1>1. (Waiting' <=> Waiting) /\ (Storing' <=> Storing) /\ (Retrieving' <=> Retrieving)
  BY DEF SameRequest, SameTalk, SameEarly, Waiting, Storing, Retrieving
<1>2. Early' <=> Early
  BY DEF SameRequest, SameTalk, SameEarly, Early
<1>3. RequestInv'
  BY <1>1 DEF SameRequest, SameTalk, SameEarly, RequestInv
<1> QED BY <1>1, <1>2, <1>3

\* What can be said of the socket of a transfer under way.
LEMMA SocketIs ==
  ASSUME OwnedInv, talk.calm, RequestInv, Waiting
  PROVE  /\ talk.op # "none" /\ talk.cur \in Sock /\ peer
         /\ Socket = 0 => Rx = 0 /\ Cur.st = "freed"
         /\ Socket # 0 => Socket = talk.cur /\ Rx = Cur.rx /\ St = Cur.st
         /\ Cur.st = "estab" => Socket = talk.cur
         /\ ~On("listen") /\ ~On("bind") /\ ~On("delete")
<1>0. Types /\ talk \in Talk /\ SockInv /\ CallInv /\ PatientInv /\ 0 \notin Sock
      /\ talk.cur \in Sock \cup {0} /\ talk.op \in {"none", "retr", "stor"}
  BY TalkFields, ConstantsAre DEF OwnedInv, OwnInv, BaseInv, Types
<1>1. talk.op # "none"
  BY DEF Waiting
<1>2. talk.cur \in Sock /\ peer /\ Socket \in {0, talk.cur}
  BY <1>0, <1>1 DEF SockInv, PatientInv, RequestInv
<1>3. Socket = 0 => Rx = 0 /\ Cur.st = "freed"
  BY <1>0, <1>2 DEF SockInv, PatientInv, Rx, Cur
<1>4. Socket # 0 => Socket = talk.cur /\ Rx = Cur.rx /\ St = Cur.st
  BY <1>2 DEF Rx, St, Cur
<1>5. Cur.st = "estab" => Socket = talk.cur
  BY <1>0, <1>2 DEF PatientInv, Cur
<1>6. ~On("listen") /\ ~On("bind") /\ ~On("delete")
  BY <1>0, <1>1, <1>2 DEF CallInv, Connecting, Connects
<1> QED BY <1>1, <1>2, <1>3, <1>4, <1>5, <1>6

\* Streams do not shrink but by the work on them.
LEMMA RxSteady ==
  ASSUME Types, SameRequest, SameSocks
  PROVE  /\ Rx > 0 /\ Top # "store" => Rx' > 0
         /\ Rx' = Rx \/ Top = "store" \/ St = "estab"
         /\ St \in Ended => St' \in Ended
         /\ St = "estab" => St' \in Alive
<1>1. Socket' = Socket /\ Socket \in Sock \cup {0} /\ 0 \notin Sock /\ \A s \in Sock : sk[s].rx \in Nat
  BY ClientFields, SockFields, ConstantsAre DEF SameRequest, SameTalk, SameEarly
<1>2. CASE Socket = 0
  BY <1>1, <1>2 DEF Rx, St, Ended
<1>3. CASE Socket \in Sock
  <2>1. Rx = sk[Socket].rx /\ Rx' = sk'[Socket].rx /\ St = sk[Socket].st /\ St' = sk'[Socket].st
    BY <1>1, <1>3 DEF Rx, St
  <2>2. St \in Ended => St' \in Ended
    BY <1>3, <2>1 DEF SameSocks
  <2>3. St = "estab" => St' \in Alive
    BY <1>3, <2>1 DEF SameSocks
  <2>4. Rx > 0 /\ Top # "store" => Rx' > 0
    BY <1>1, <1>3, <2>1 DEF SameSocks, SameRequest, SameTalk, SameEarly, Cur
  <2>5. Rx' = Rx \/ Top = "store" \/ St = "estab"
    BY <1>1, <1>3, <2>1 DEF SameSocks, Cur
  <2> QED BY <2>2, <2>3, <2>4, <2>5
<1> QED BY <1>1, <1>2, <1>3

\* ... the handles of the transfer under way ...
LEMMA HandleSteady ==
  ASSUME OwnedInv, AdjacentInv, ArrivedInv, talk.calm, talk'.calm,
         RequestInv, HandleInv, LinkInv, UploadInv, Steady
  PROVE  HandleInv'
<1>0. SameRequest /\ SameFlags /\ SameSocks /\ SameCalls /\ Types
  BY DEF Steady, OwnedInv, BaseInv
<1>1. /\ (Waiting' <=> Waiting) /\ (Storing' <=> Storing) /\ (Retrieving' <=> Retrieving)
      /\ (Early' <=> Early) /\ (Storing => ~Retrieving /\ Waiting) /\ (Retrieving => Waiting)
      /\ (Early => Waiting)
  BY <1>0, RequestSteady DEF Storing, Retrieving, Early, RequestInv
<1>2. /\ Waiting => talk.op # "none" /\ peer /\ (Socket = 0 => Rx = 0) /\ (Socket # 0 => Rx = Cur.rx)
      /\ Waiting => ~On("listen") /\ ~On("bind") /\ ~On("delete")
  BY SocketIs
<1>3. (Rx > 0 /\ Top # "store" => Rx' > 0) /\ (Rx' = Rx \/ Top = "store" \/ St = "estab")
  BY <1>0, RxSteady
<1>4. Rx > 0 => Storing
  BY DEF OwnedInv, PatientInv
<1>5. pxClient'.pxWriteHandle => (Storing' /\ ~Early') \/ Top' = "closefile"
  BY <1>0, <1>1 DEF SameFlags, HandleInv
<1>6. pxClient'.pxReadHandle => (Retrieving' /\ ~Early') \/ Top' = "closefile"
  BY <1>0, <1>1 DEF SameFlags, HandleInv
<1>7. pxClient'.bHadError => Storing' /\ ~Early'
  BY <1>0, <1>1 DEF SameFlags, HandleInv
<1>8. Top' \in {"store", "close2"} => Storing' /\ ~Early'
  <2>1. Top = "close" /\ Rx > 0 => ~Early
    BY <1>1, <1>2, <1>4 DEF UploadInv
  <2> QED BY <1>0, <1>1, <1>4, <2>1 DEF SameCalls, HandleInv
<1>9. Top' \in {"retrieve", "allsent"} => Retrieving' /\ ~Early'
  BY <1>0, <1>1 DEF SameCalls, HandleInv
<1>10. Top' = "worked" => Waiting' /\ ~Early'
  BY <1>0, <1>1 DEF SameCalls, HandleInv
<1>11. Top \in {"close2", "closing"} /\ Storing /\ ~Early => pxClient.pxWriteHandle
  BY DEF HandleInv
<1>12. ASSUME Storing, ~Early
       PROVE  pxClient'.pxWriteHandle \/
        (pxClient'.bHadError /\ Rx' > 0 /\ Top' \notin {"store", "close", "close2", "closing", "worked"})
  <2>1. CASE pxClient.pxWriteHandle /\ Top # "closefile"
    <3>1. Top # "storprep"
      BY <1>12 DEF Early, StorEarly, On
    <3> QED BY <1>0, <2>1, <3>1 DEF SameFlags
  <2>2. CASE ~(pxClient.pxWriteHandle /\ Top # "closefile")
    <3>1. pxClient.bHadError /\ Rx > 0 /\ Top \notin {"store", "close", "close2", "closing", "worked"}
      BY <1>12, <2>2 DEF HandleInv
    <3>2. pxClient'.bHadError /\ Rx' > 0
      BY <1>0, <1>3, <3>1 DEF SameFlags
    <3>3. Socket # 0
      BY <1>1, <1>2, <1>12, <3>1
    <3>4. Top \notin {"retrieve", "allsent"} /\ ~(Top # "closefile" /\ pxClient.pxWriteHandle)
      BY <1>1, <1>12, <2>2 DEF HandleInv
    <3>5. Top' \notin {"store", "close", "close2", "closing", "worked"}
      BY <1>0, <1>1, <1>2, <1>12, <3>1, <3>3, <3>4 DEF SameCalls
    <3> QED BY <3>2, <3>5
  <2> QED BY <2>1, <2>2
<1>13. ASSUME Storing, ~Early, Top' = "closefile"
       PROVE  pxClient'.bHadError /\ Rx' > 0
  <2>1. pxClient.bHadError /\ Rx > 0 /\ Top # "store"
    <3>1. CASE Top = "closefile"
      BY <1>13, <3>1 DEF HandleInv
    <3>2. CASE Top = "close2" /\ Rx > 0
      BY <3>2 DEF LinkInv
    <3> QED BY <1>0, <1>13, <3>1, <3>2 DEF SameCalls
  <2> QED BY <1>0, <1>3, <2>1 DEF SameFlags
<1> QED BY <1>1, <1>5, <1>6, <1>7, <1>8, <1>9, <1>10, <1>12, <1>13 DEF HandleInv

\* ... and what is known of its connection.
LEMMA LinkSteady ==
  ASSUME OwnedInv, AdjacentInv, ArrivedInv, talk.calm, talk'.calm,
         RequestInv, HandleInv, LinkInv, UploadInv, Steady
  PROVE  LinkInv'
<1>0. SameRequest /\ SameFlags /\ SameSocks /\ SameCalls /\ Types /\ SockInv /\ 0 \notin Sock
      /\ Socket \in Sock \cup {0}
  BY ClientFields, ConstantsAre DEF Steady, OwnedInv, OwnInv, BaseInv
<1>1. /\ (Waiting' <=> Waiting) /\ (Storing' <=> Storing) /\ (Retrieving' <=> Retrieving)
      /\ (Early' <=> Early) /\ (Storing => ~Retrieving /\ Waiting) /\ (Retrieving => Waiting)
  BY <1>0, RequestSteady DEF Storing, Retrieving
<1>2. /\ Waiting => talk.op # "none" /\ peer /\ (Socket = 0 => Rx = 0) /\ (Socket # 0 => Rx = Cur.rx)
      /\ Waiting => ~On("listen") /\ ~On("bind") /\ ~On("delete")
      /\ Waiting => (Cur.st = "estab" => Socket = talk.cur) /\ (Socket # 0 => St = Cur.st)
  BY SocketIs
<1>3. /\ (Rx > 0 /\ Top # "store" => Rx' > 0) /\ (Rx' = Rx \/ Top = "store" \/ St = "estab")
      /\ (St \in Ended => St' \in Ended) /\ (St = "estab" => St' \in Alive)
  BY <1>0, RxSteady
<1>4. pxClient'.bClientConnected => St' \in Alive
  <2>1. CASE Top = "acceptrx"
    <3>1. Rx > 0
      BY <2>1 DEF LinkInv
    <3>2. Socket \in Sock /\ St = sk[Socket].st /\ Rx = sk[Socket].rx
      BY <1>0, <3>1 DEF Rx, St
    <3>3. St \in Alive
      BY <1>0, <3>1, <3>2 DEF ArrivedInv, SockInv
    <3> QED BY <1>3, <3>3 DEF Alive
  <2>2. CASE Top # "acceptrx"
    BY <1>0, <1>3, <2>2 DEF SameFlags, LinkInv, Alive
  <2> QED BY <2>1, <2>2
<1>5. Top' = "acceptrx" => Rx' > 0
  BY <1>0, <1>3 DEF SameCalls, LinkInv
<1>6. Top' \in {"ack", "drained"} => pxClient'.bClientConnected
  <2>1. Top \in {"ack", "drained"} => pxClient'.bClientConnected
    BY <1>0 DEF LinkInv, SameFlags
  <2> QED BY <1>0, <2>1 DEF SameCalls
<1>7. Top' = "drained" => St' \in Ended
  <2>1. Top = "ack" /\ St # "estab" => St \in Ended
    BY DEF LinkInv, Alive
  <2> QED BY <1>0, <1>3, <2>1 DEF SameCalls, LinkInv
<1>8. ASSUME Closes', peer', ~On("listen")', ~On("bind")', ~Retrieving'
      PROVE  Socket' = 0 \/ pxClient'.bHadError \/ St' \in Ended
  <2>1. peer /\ ~Retrieving
    BY <1>0, <1>1, <1>8 DEF SameRequest, SameTalk, SameEarly
  <2>2. ~On("listen") /\ ~On("bind")
    <3>1. Top' \in Closers \cup {"store", "worked"}
      BY <1>8 DEF Closes
    <3> QED BY <1>0, <1>8, <3>1 DEF SameCalls, Closers
  <2>3. CASE Closes
    BY <1>0, <1>3, <2>1, <2>2, <2>3 DEF LinkInv, SameFlags, SameRequest, SameTalk, SameEarly
  <2>4. CASE ~Closes
    <3>1. Top \notin Closers /\ ~(Top = "store" /\ "close2" \in Below) /\ ~(Top = "worked" /\ xRc = -1)
      BY <2>4 DEF Closes
    <3>2. Top \notin {"retrieve", "allsent"}
      BY <2>1 DEF HandleInv
    <3>3. CASE Top' = "close"
      BY <1>0, <1>3, <1>8, <2>1, <3>1, <3>3 DEF SameCalls, Closers, LinkInv, SameRequest, SameTalk, SameEarly
    <3>4. CASE Top' = "closing" \/ Top' = "close2" \/ (Top' = "store" /\ "close2" \in Below')
      BY <1>0, <3>1, <3>4 DEF SameCalls, Closers
    <3>5. CASE Top' = "worked" /\ xRc' = -1
      BY <1>0, <1>3, <3>1, <3>2, <3>5 DEF SameCalls, SameRequest, SameTalk, SameEarly, Ended, St, SockInv
    <3> QED BY <1>8, <3>3, <3>4, <3>5 DEF Closes, Closers
  <2> QED BY <2>3, <2>4
<1>9. Top' = "close2" => pxClient'.bHadError \/ Rx' = 0
  <2>1. ASSUME Top = "close2" PROVE pxClient'.bHadError \/ Rx' = 0
    <3>1. Storing
      BY <2>1 DEF HandleInv
    <3>2. pxClient.bHadError \/ (Rx = 0 /\ (Socket = 0 \/ St \in Ended))
      BY <1>1, <1>2, <2>1, <3>1 DEF LinkInv, Closes, Closers
    <3>3. CASE pxClient.bHadError
      BY <1>0, <3>3 DEF SameFlags
    <3>4. CASE Rx = 0 /\ Socket = 0
      BY <1>0, <3>4 DEF SameRequest, SameTalk, SameEarly, Rx
    <3>5. CASE Rx = 0 /\ St \in Ended
      BY <1>3, <2>1, <3>5 DEF Ended
    <3> QED BY <3>2, <3>3, <3>4, <3>5
  <2> QED BY <1>0, <2>1 DEF SameCalls
<1> QED BY <1>4, <1>5, <1>6, <1>7, <1>8, <1>9 DEF LinkInv

\* The socket of an upload, in numbers.
LEMMA UploadSteady ==
  ASSUME OwnedInv, AdjacentInv, ArrivedInv, talk.calm, talk'.calm,
         RequestInv, HandleInv, LinkInv, UploadInv, Steady,
         On("setwrite")' => On("setwrite") \/ uploaded' = 0
  PROVE  UploadInv'
<1>0. SameRequest /\ SameFlags /\ SameSocks /\ SameCalls /\ Types /\ SockInv /\ 0 \notin Sock
      /\ Socket \in Sock \cup {0} /\ uploaded \in Nat
  BY ClientFields, ConstantsAre DEF Steady, OwnedInv, OwnInv, BaseInv, Types
<1>1. /\ (Waiting' <=> Waiting) /\ (Storing' <=> Storing) /\ (Retrieving' <=> Retrieving)
      /\ (Early' <=> Early) /\ (Storing => ~Retrieving /\ Waiting) /\ (Retrieving => Waiting)
      /\ (Top = "storprep" => Early)
  BY <1>0, RequestSteady DEF Storing, Retrieving, Early, StorEarly, On
<1>2. /\ Waiting => talk.op # "none" /\ peer /\ (Socket = 0 => Rx = 0) /\ (Socket # 0 => Rx = Cur.rx)
      /\ Waiting => ~On("listen") /\ ~On("bind") /\ ~On("delete") /\ talk.cur \in Sock
      /\ Waiting => (Cur.st = "estab" => Socket = talk.cur) /\ (Socket # 0 => St = Cur.st /\ Socket = talk.cur)
  BY SocketIs
<1>3. Socket' = Socket /\ talk'.cur = talk.cur /\ talk'.op = talk.op /\ talk'.reply = talk.reply
  BY <1>0 DEF SameRequest, SameTalk, SameEarly
<1>4. \A s \in Sock : sk[s].rx \in Nat /\ sk[s].sent \in Nat
  BY <1>0, SockFields
<1>5. ASSUME Storing PROVE
        /\ Early' => Cur'.sent = Cur'.rx /\ (On("setwrite")' => uploaded' = 0)
        /\ ~Early' => pxClient'.bHadError \/ uploaded' + Cur'.rx = Cur'.sent
        /\ Top' = "closing" => pxClient'.bHadError \/ Cur'.rx = 0
        /\ Early' /\ Top' = "close" => Cur'.rx = 0
        /\ Socket' = 0 => Cur'.rx = 0
  <2>1. talk.cur \in Sock /\ Waiting /\ Cur.rx \in Nat /\ Cur.sent \in Nat /\ Cur' = sk'[talk.cur]
    BY <1>1, <1>2, <1>3, <1>4, <1>5 DEF Cur
  <2>2. /\ Early => Cur.sent = Cur.rx /\ (On("setwrite") => uploaded = 0)
        /\ ~Early => pxClient.bHadError \/ uploaded + Cur.rx = Cur.sent
        /\ Top = "closing" => pxClient.bHadError \/ Cur.rx = 0
        /\ Early /\ Top = "close" => Cur.rx = 0
        /\ Socket = 0 => Cur.rx = 0
    BY <1>5 DEF UploadInv
  <2>3. pxClient.bHadError => pxClient'.bHadError
    BY <1>0 DEF SameFlags
  <2>4. CASE uploaded' = uploaded /\ \A s \in Sock : sk'[s].rx = sk[s].rx /\ sk'[s].sent = sk[s].sent
    <3>1. Cur'.rx = Cur.rx /\ Cur'.sent = Cur.sent
      BY <2>1, <2>4 DEF Cur
    <3>2. Top \in {"close", "close2"} /\ Rx = 0 => Cur.rx = 0
      BY <1>2, <2>1, <2>2
    <3>3. Top' = "closing" => pxClient'.bHadError \/ Cur'.rx = 0
      BY <1>0, <2>2, <2>3, <3>1, <3>2 DEF SameCalls
    <3>4. Early /\ Top' = "close" => Cur'.rx = 0
      <4>1. Top = "worked" => ~Early
        BY DEF HandleInv
      <4>2. Rx = 0 => Cur.rx = 0
        BY <1>2, <2>1, <2>2
      <4> QED BY <1>0, <1>2, <2>1, <2>2, <3>1, <4>1, <4>2 DEF SameCalls
    <3> QED BY <1>1, <1>3, <2>2, <2>3, <2>4, <3>1, <3>3, <3>4
  <2>5. CASE /\ uploaded' = uploaded /\ talk.cur \in Sock /\ Cur.st = "estab" /\ (talk'.calm => Waiting)
             /\ Cur'.rx = Cur.rx + 1 /\ Cur'.sent = Cur.sent + 1
             /\ \A s \in Sock \ {talk.cur} : sk'[s].rx = sk[s].rx /\ sk'[s].sent = sk[s].sent
             /\ Top' = Top /\ Below' = Below /\ pxClient' = pxClient
    <3>1. Socket # 0 /\ St = "estab"
      BY <1>0, <1>2, <2>1, <2>5
    <3>2. Top \in Closers => pxClient.bHadError
      BY <1>1, <1>2, <1>5, <2>1, <3>1 DEF LinkInv, Closes, Ended
    <3>3. pxClient.bHadError => ~Early
      BY DEF HandleInv
    <3>4. On("setwrite")' => On("setwrite")
      BY <2>5 DEF On
    <3> QED BY <1>0, <1>1, <1>3, <2>1, <2>2, <2>5, <3>1, <3>2, <3>3, <3>4 DEF Closers
  <2>6. CASE /\ Top = "store" /\ Socket \in Sock /\ Rx > 0
             /\ sk'[Socket].rx = 0 /\ sk'[Socket].sent = sk[Socket].sent
             /\ \A s \in Sock \ {Socket} : sk'[s].rx = sk[s].rx /\ sk'[s].sent = sk[s].sent
             /\ pxClient'.bHadError \/ uploaded' = uploaded + Rx
    <3>1. Socket = talk.cur /\ Rx = Cur.rx
      BY <1>0, <1>2, <2>1, <2>6
    <3>2. Cur'.rx = 0 /\ Cur'.sent = Cur.sent
      BY <2>1, <2>6, <3>1 DEF Cur
    <3>3. ~Early
      BY <2>6 DEF HandleInv
    <3> QED BY <1>0, <1>1, <1>3, <2>1, <2>2, <2>3, <2>6, <3>1, <3>2, <3>3
  <2>7. CASE /\ Top = "storprep" /\ uploaded' = 0
             /\ \A s \in Sock : sk'[s].rx = sk[s].rx /\ sk'[s].sent = sk[s].sent
    <3>1. Cur'.rx = Cur.rx /\ Cur'.sent = Cur.sent /\ Early
      BY <1>1, <2>1, <2>7 DEF Cur
    <3>2. Top' # "closing" /\ (Top' = "close" => Socket = 0)
      BY <1>0, <1>2, <2>1, <2>7 DEF SameCalls
    <3> QED BY <1>1, <1>3, <2>2, <2>7, <3>1, <3>2
  <2> QED BY <1>0, <2>4, <2>5, <2>6, <2>7 DEF SameSocks
<1>6. ASSUME talk'.op = "stor", talk'.reply = "226" PROVE uploaded' = Cur'.sent /\ Cur'.st = "freed"
  <2>1. ~Waiting /\ talk.cur \in Sock
    <3>1. talk.cur \in Sock \cup {0}
      BY <1>0, TalkFields
    <3> QED BY <1>0, <1>3, <1>6, <3>1 DEF Waiting, SockInv
  <2>2. uploaded = Cur.sent /\ Cur.st = "freed"
    BY <1>3, <1>6 DEF UploadInv
  <2>3. Top # "store" /\ Top # "storprep"
    BY <1>1, <2>1 DEF HandleInv, RequestInv, StorEarly, On, Storing
  <2>4. uploaded' = uploaded /\ sk'[talk.cur].sent = sk[talk.cur].sent
    BY <1>0, <2>1, <2>2, <2>3 DEF SameSocks
  <2>5. sk'[talk.cur].st = "freed"
    BY <1>0, <2>1, <2>2 DEF SameSocks, Cur
  <2> QED BY <1>3, <2>2, <2>4, <2>5 DEF Cur
<1> QED BY <1>1, <1>3, <1>5, <1>6 DEF UploadInv

\* The calls that are none of a closing.
OtherCalls == Labels \ (Closers \cup {"closefile"})

\* The calls that close nothing.
LEMMA OthersAre ==
  /\ {"recv", "data", "work", "worked", "listen", "bind", "retrprep", "storprep", "setwrite", "stored",
      "check", "accept", "acceptrx", "ack", "drained", "store", "retrieve", "allsent", "delete"} \subseteq OtherCalls
  /\ Commands \subseteq OtherCalls
  BY LabelsAre DEF OtherCalls, Closers, Commands

\* Every step of the server task makes one of these calls.
LEMMA ServerPushed ==
  ASSUME StackInv, cmd \in Commands \cup {"none"}, Server
  PROVE  Pushed /\ stack # <<>>
<1>0. /\ \A l \in Labels : At(l) => Top = l
      /\ \A l : At(l) => stack # <<>>
  BY TopIs DEF At
<1>1. /\ OtherCalls \cap (Closers \cup {"closefile"}) = {} /\ OtherCalls \subseteq Labels
      /\ Closers \subseteq Labels /\ "closefile" \in Labels
  BY LabelsAre DEF OtherCalls, Closers
<1>2. CASE Recv
  <2>1. At("recv") /\ \/ cmd # "none" /\ Calls(<<cmd, "data", "recv">>)
                      \/ Calls(<<"data", "recv">>)
                      \/ Calls(<<"data", "close", "closefile", "delete">>)
    BY <1>2, Zenon DEF Recv
  <2>2. Top \notin Closers /\ stack # <<>> /\ "recv" \in OtherCalls /\ "data" \in OtherCalls
        /\ (cmd # "none" => cmd \in OtherCalls)
    BY <1>0, <1>1, <2>1, OthersAre
  <2> QED BY <2>1, <2>2 DEF Pushed, OtherCalls
<1>3. CASE Data \/ Work \/ Size \/ Check \/ Accept("accept") \/ Accept("acceptrx") \/ Ack
           \/ Transfer("retr", <<"retrprep">>) \/ Transfer("stor", <<"storprep">>)
  <2>1. \E l \in {"data", "work", "size", "check", "accept", "acceptrx", "ack", "retr", "stor"} : At(l)
    BY <1>3, Zenon DEF Data, Work, Size, Check, Accept, Ack, Transfer
  <2>2. Top \notin Closers /\ stack # <<>>
    BY <1>0, <1>1, <2>1, OthersAre DEF Commands
  <2>3. \/ Calls(<<>>)
        \/ \E a \in OtherCalls : Calls(<<a>>)
        \/ \E a, b \in OtherCalls : Calls(<<a, b>>)
        \/ \E a, b, c \in OtherCalls : Calls(<<a, b, c>>)
    <3>1. CASE Data
      BY <3>1, OthersAre DEF Data
    <3>2. CASE Work
      BY <3>2, OthersAre DEF Work
    <3>3. CASE Size
      BY <3>3, OthersAre DEF Size
    <3>4. CASE Check
      BY <3>4, OthersAre DEF Check
    <3>5. CASE Accept("accept") \/ Accept("acceptrx")
      BY <3>5, OthersAre DEF Accept
    <3>6. CASE Ack
      BY <3>6, OthersAre DEF Ack
    <3>7. CASE Transfer("retr", <<"retrprep">>)
      <4>1. Calls(<<"check", "retrprep">>) \/ Calls(<<"retrprep">>)
        BY <3>7, Joined, Zenon DEF Transfer
      <4> QED BY <4>1, OthersAre
    <3>8. CASE Transfer("stor", <<"storprep">>)
      <4>1. Calls(<<"check", "storprep">>) \/ Calls(<<"storprep">>)
        BY <3>8, Joined, Zenon DEF Transfer
      <4> QED BY <4>1, OthersAre
    <3> QED BY <1>3, <3>1, <3>2, <3>3, <3>4, <3>5, <3>6, <3>7, <3>8
  <2> QED BY <2>2, <2>3 DEF Pushed, OtherCalls
<1>4. CASE Worked \/ Stored \/ Drained \/ Pasv \/ Port
  <2>1. \E l \in {"worked", "stored", "drained", "pasv", "port"} : At(l)
    BY <1>4, Zenon DEF Worked, Stored, Drained, Pasv, Port
  <2>2. Top \notin Closers /\ stack # <<>>
    BY <1>0, <1>1, <2>1, OthersAre DEF Commands
  <2>3. Calls(<<>>) \/ \E b \in {"closefile", "listen", "bind"} : Calls(<<"close", b>>)
    BY <1>4 DEF Worked, Stored, Drained, Pasv, Port
  <2> QED BY <2>2, <2>3 DEF Pushed
<1>5. CASE Close \/ Close2
  <2>1. At("close") \/ At("close2")
    BY <1>5, Zenon DEF Close, Close2
  <2>2. Top \in Closers /\ stack # <<>>
    BY <1>0, <1>1, <2>1 DEF Closers
  <2>3. Calls(<<>>) \/ Calls(<<"closing">>) \/ Calls(<<"store", "close2">>)
    BY <1>5 DEF Close, Close2
  <2> QED BY <2>2, <2>3 DEF Pushed
<1>6. CASE StorePrep \/ StorePrepFails
  <2>1. At("storprep")
    BY <1>6, Zenon DEF StorePrep, StorePrepFails
  <2>2. Top \notin Closers /\ stack # <<>>
    BY <1>0, <1>1, <2>1, OthersAre
  <2>3. Calls(<<"stored">>) \/ Calls(<<"check", "setwrite", "stored">>) \/ Calls(<<"setwrite", "stored">>)
    <3>1. /\ <<"check">> \o <<"setwrite", "stored">> = <<"check", "setwrite", "stored">>
          /\ <<>> \o <<"setwrite", "stored">> = <<"setwrite", "stored">>
      BY Joined, Zenon
    <3>2. StorePrep => Calls(<<"check", "setwrite", "stored">>) \/ Calls(<<"setwrite", "stored">>)
      BY <3>1, Zenon DEF StorePrep
    <3>3. StorePrepFails => Calls(<<"stored">>)
      BY Zenon DEF StorePrepFails
    <3> QED BY <1>6, <3>2, <3>3
  <2>4. "stored" \in OtherCalls /\ "check" \in OtherCalls /\ "setwrite" \in OtherCalls
    BY OthersAre
  <2> QED BY <2>2, <2>3, <2>4 DEF Pushed, OtherCalls
<1>7. CASE RetrieveShort \/ RetrieveSends \/ RetrieveAllSent
  <2>1. At("retrieve") /\ (Calls(<<"allsent">>) \/ Calls(<<>>) \/ stack' = stack)
    BY <1>7, Zenon DEF RetrieveShort, RetrieveSends, RetrieveAllSent, Returns
  <2>2. Top \notin Closers /\ stack # <<>> /\ "allsent" \in OtherCalls
    BY <1>0, <1>1, <2>1, OthersAre
  <2> QED BY <2>1, <2>2 DEF Pushed, OtherCalls
<1>8. CASE \/ Delete \/ PortNoSocket \/ Rest \/ Closing \/ CloseFile \/ SetWrite \/ StoreFileWork \/ StoreFileWorked
           \/ RetrievePrepFails \/ RetrieveWaits \/ RetrieveFails \/ AllSent
  <2>1. (\E l : At(l)) /\ (Calls(<<>>) \/ stack' = stack)
    BY <1>8, Zenon DEF Delete, PortNoSocket, Rest, Closing, CloseFile, SetWrite, StoreFileWork, StoreFileWorked,
                       RetrievePrepFails, RetrieveWaits, RetrieveFails, AllSent, Returns
  <2> QED BY <1>0, <2>1 DEF Pushed
<1>9. CASE \/ \E size \in {0, FileSize} : RetrievePrep(size)
           \/ \E listen \in BOOLEAN : TransferConnect(listen)
           \/ \E l \in {"retr", "stor"} : NoDataConnection(l)
  <2>1. (\E l : At(l)) /\ Calls(<<>>)
    BY <1>9, Zenon DEF RetrievePrep, TransferConnect, NoDataConnection, Returns
  <2> QED BY <1>0, <2>1 DEF Pushed
<1> QED BY <1>2, <1>3, <1>4, <1>5, <1>6, <1>7, <1>8, <1>9, Zenon DEF Server

\* A close that waits does so for vFTPClientDelete only.
LEMMA PushedClose ==
  ASSUME StackInv, StackInv', stack # <<>>, Pushed, "close" \in Below => On("delete")
  PROVE  "close" \in Below' => On("delete")'
<1>0. /\ \A l : l \in Below => l \in Labels
      /\ Top = "delete" => Below = {}
      /\ {"close", "delete"} \subseteq Labels /\ "close" \in Closers /\ "close" \notin {"closefile", "listen", "bind"}
  BY TopIs, UnderIs, LabelsAre DEF Closers
<1>1. On("delete") /\ Below # {} => "delete" \in Below
  BY <1>0 DEF On
<1>2. CASE stack' = stack
  BY <1>2 DEF Below, On, Top
<1>3. CASE Pops
  BY <1>0, <1>1, <1>3 DEF Pops, On
<1>4. ASSUME NEW t, NEW b, Pushes(t, b), "close" \notin b \/ "delete" \in b
      PROVE  "close" \in Below' => On("delete")'
  BY <1>0, <1>1, <1>4 DEF Pushes, On
<1>5. /\ Calls(<<>>) => Pops
      /\ \A a : Calls(<<a>>) => Pushes(a, {})
      /\ \A a, b : Calls(<<a, b>>) => Pushes(a, {b})
      /\ \A a, b, c : Calls(<<a, b, c>>) => Pushes(a, {b, c})
      /\ \A a, b, c, d : Calls(<<a, b, c, d>>) => Pushes(a, {b, c, d})
  BY Moves
<1>6. CASE Calls(<<>>)
  BY <1>3, <1>5, <1>6
<1>7. CASE Calls(<<"closing">>) \/ Calls(<<"store", "close2">>)
  <2>1. Pushes("closing", {}) \/ Pushes("store", {"close2"})
    BY <1>5, <1>7
  <2> QED BY <1>4, <2>1
<1>8. ASSUME NEW a \in OtherCalls, NEW b \in OtherCalls, NEW c \in OtherCalls,
             Calls(<<a>>) \/ Calls(<<a, b>>) \/ Calls(<<a, b, c>>)
      PROVE  "close" \in Below' => On("delete")'
  <2>1. Pushes(a, {}) \/ Pushes(a, {b}) \/ Pushes(a, {b, c})
    BY <1>5, <1>8
  <2>2. b # "close" /\ c # "close"
    BY <1>0, <1>8 DEF OtherCalls
  <2> QED BY <1>4, <2>1, <2>2
<1>9. ASSUME NEW b \in {"closefile", "listen", "bind"}, Calls(<<"close", b>>)
      PROVE  "close" \in Below' => On("delete")'
  <2>1. Pushes("close", {b}) /\ b # "close"
    BY <1>0, <1>5, <1>9
  <2> QED BY <1>4, <2>1
<1>10. CASE Calls(<<"data", "close", "closefile", "delete">>)
  <2>1. Pushes("data", {"close", "closefile", "delete"})
    BY <1>5, <1>10
  <2> QED BY <1>4, <2>1
<1> QED BY <1>2, <1>6, <1>7, <1>8, <1>9, <1>10 DEF Pushed, OtherCalls

\* Every step keeps the order of the calls that close a connection.
LEMMA AdjacentStep ==
  ASSUME BaseInv, BaseInv', AdjacentInv, [Next]_vars
  PROVE  AdjacentInv'
<1>0. StackInv /\ StackInv' /\ cmd \in Commands \cup {"none"}
  BY DEF BaseInv, Types
<1>1. CASE Server
  BY <1>0, <1>1, ServerPushed, PushedAdjacent, PushedClose DEF AdjacentInv
<1>2. CASE ~Server
  <2>1. stack' = stack
    BY <1>2, Zenon DEF Next, Peer, PeerCommand, PeerLeaves, Net, PeerConnects, PeerRefuses, PeerSends, PeerReads,
                       PeerCloses, StackCloses, NetLeaves, vars
  <2> QED BY <2>1 DEF AdjacentInv, Adjacent, Below, On, Top
<1> QED BY <1>1, <1>2

SameData == SameTalk /\ SameFlags /\ SameSocks

\* A call that touches neither the sockets nor the flags ...
LEMMA QuietSame ==
  ASSUME Types, UNCHANGED <<sk, pxClient, uploaded, talk>>, peer' => peer, Top # "closefile" \/ Top' = Top
  PROVE  SameData
<1>1. SameTalk
  BY DEF SameTalk, Socket
<1>2. SameFlags
  BY DEF SameFlags
<1>3. SameSocks
  BY DEF SameSocks, Alive
<1> QED BY <1>1, <1>2, <1>3 DEF SameData

\* ... and one that sets some of the client's fields.
LEMMA FlagSame ==
  ASSUME BaseInv, PortNoSocket \/ Rest \/ Accept("accept") \/ Accept("acceptrx") \/ Ack \/ CloseFile
  PROVE  SameData
<1>0. pxClient \in Client /\ StackInv
  BY DEF BaseInv, Types
<1>1. /\ UNCHANGED <<peer, sk, uploaded>>
      /\ talk'.op = talk.op /\ talk'.cur = talk.cur /\ talk'.offer = talk.offer
      /\ talk'.reply = talk.reply /\ talk'.calm = talk.calm
  <2>1. UNCHANGED <<peer, sk, uploaded>> /\ (Rest \/ talk' = talk)
    BY Zenon DEF PortNoSocket, Rest, Accept, Ack, CloseFile, data
  <2> QED BY <2>1, RestFields DEF BaseInv
<1>2. /\ pxClient'.xTransferSocket = pxClient.xTransferSocket
      /\ pxClient'.bHadError = pxClient.bHadError
      /\ pxClient'.bEmptyFile => pxClient.bEmptyFile
      /\ pxClient.bClientConnected => pxClient'.bClientConnected
      /\ \/ CloseFile /\ ~pxClient'.pxWriteHandle /\ ~pxClient'.pxReadHandle
         \/ ~CloseFile /\ pxClient'.pxWriteHandle = pxClient.pxWriteHandle
            /\ pxClient'.pxReadHandle = pxClient.pxReadHandle
  <2>1. CASE PortNoSocket /\ ~CloseFile
    BY <1>0, <2>1 DEF PortNoSocket, Client
  <2>2. CASE Rest /\ ~CloseFile
    BY <1>0, <2>2 DEF Rest, Client
  <2>3. CASE Ack /\ ~CloseFile
    BY <1>0, <2>3 DEF Ack, Client
  <2>4. CASE (Accept("accept") \/ Accept("acceptrx")) /\ ~CloseFile
    BY <1>0, <2>4 DEF Accept, Client
  <2>5. CASE CloseFile
    BY <1>0, <2>5 DEF CloseFile, FileClosed, Client
  <2> QED BY <2>1, <2>2, <2>3, <2>4, <2>5
<1>3. Socket' = Socket /\ St' = St
  BY <1>1, <1>2 DEF Socket, St
<1>4. CloseFile <=> Top = "closefile" /\ CloseFile
  BY <1>0, CloseMoves
<1>5. pxClient'.bClientConnected => pxClient.bClientConnected \/ Top = "acceptrx" \/ St' \in Alive
  <2>1. CASE PortNoSocket
    BY <1>0, <2>1 DEF PortNoSocket, Client
  <2>2. CASE Rest
    BY <1>0, <2>2 DEF Rest, Client
  <2>3. CASE Ack
    BY <1>0, <2>3 DEF Ack, Client
  <2>4. CASE Accept("accept") \/ Accept("acceptrx")
    <3>1. Accept("acceptrx") => Top = "acceptrx"
      BY <1>0, CheckMoves
    <3>2. ASSUME Accept("accept") PROVE pxClient'.bClientConnected => pxClient.bClientConnected \/ St' \in Alive
      BY <1>0, <1>3, <3>2 DEF Accept, Client, Alive, Ended
    <3> QED BY <2>4, <3>1, <3>2
  <2>5. CASE CloseFile
    BY <1>0, <2>5 DEF CloseFile, FileClosed, Client
  <2> QED BY <2>1, <2>2, <2>3, <2>4, <2>5
<1>6. ~CloseFile => Top # "closefile"
  <2>1. PortNoSocket => Top = "bind"
    BY <1>0, CommandMoves
  <2>2. Rest => Top = "rest"
    BY <1>0, CommandMoves
  <2>3. (Ack => Top = "ack") /\ (Accept("accept") => Top = "accept") /\ (Accept("acceptrx") => Top = "acceptrx")
    BY <1>0, CheckMoves
  <2> QED BY <2>1, <2>2, <2>3
<1>7. SameTalk
  BY <1>1, <1>3 DEF SameTalk
<1>8. SameFlags
  BY <1>2, <1>4, <1>5, <1>6 DEF SameFlags
<1>9. SameSocks
  BY <1>1 DEF SameSocks, Alive
<1> QED BY <1>7, <1>8, <1>9 DEF SameData

\* The preparation of STOR that opens a file leaves the connection alone.
LEMMA StorePrepSame ==
  ASSUME BaseInv, StorePrep
  PROVE  SameData
<1>0. pxClient \in Client /\ StackInv /\ sk \in [Sock -> Record] /\ Types
  BY DEF BaseInv, Types
<1>1. UNCHANGED <<peer, talk>> /\ uploaded' = 0
  BY Zenon DEF StorePrep
<1>2. /\ pxClient'.xTransferSocket = pxClient.xTransferSocket
      /\ pxClient'.bHadError = pxClient.bHadError /\ pxClient'.bEmptyFile = pxClient.bEmptyFile
      /\ pxClient'.bClientConnected = pxClient.bClientConnected
      /\ ~pxClient'.pxWriteHandle /\ ~pxClient'.pxReadHandle
  BY <1>0 DEF StorePrep, FileClosed, Client
<1>3. Top = "storprep"
  BY <1>0, StoreMoves
<1>4. \A s \in Sock : /\ sk'[s].sent = sk[s].sent /\ sk'[s].rx = sk[s].rx
                      /\ \/ sk'[s].st = sk[s].st
                         \/ s = Socket /\ sk[s].st = "bound" /\ sk'[s].st = "connecting"
  <2>1. UNCHANGED sk \/ Starts
    BY Zenon DEF StorePrep
  <2> QED BY <1>0, <2>1, StartsMild
<1>5. SameTalk
  BY <1>1, <1>2 DEF SameTalk, Socket
<1>6. SameFlags
  BY <1>2, <1>3 DEF SameFlags
<1>7. SameSocks
  BY <1>1, <1>3, <1>4 DEF SameSocks, Alive, Ended
<1> QED BY <1>5, <1>6, <1>7 DEF SameData

\* prvStoreFileWork takes what has arrived and writes it, or notes the error.
LEMMA StoreWorkSame ==
  ASSUME BaseInv, StoreFileWork
  PROVE  SameData /\ (stack' = stack \/ (pxClient'.bHadError /\ Calls(<<>>) /\ xRc' = -1))
<1>0. pxClient \in Client /\ StackInv /\ sk \in [Sock -> Record] /\ Types /\ Top = "store"
      /\ Rx > 0 /\ Socket \in Sock /\ Rx \in Nat /\ disk \in Nat /\ uploaded \in Nat
  <2>1. pxClient \in Client /\ StackInv /\ sk \in [Sock -> Record] /\ Types /\ disk \in Nat /\ uploaded \in Nat
    BY DEF BaseInv, Types
  <2>2. Top = "store" /\ Rx > 0
    BY <2>1, StoreMoves DEF StoreFileWork
  <2>3. Socket \in Sock
    BY <2>1, <2>2, ClientFields DEF Rx
  <2>4. Rx \in Nat
    BY <2>1, <2>3, SockFields DEF Rx
  <2> QED BY <2>1, <2>2, <2>3, <2>4
<1> DEFINE w == IF ~pxClient.pxWriteHandle THEN 0 ELSE IF Rx <= disk THEN Rx ELSE disk
<1>1. /\ UNCHANGED <<peer, talk>> /\ uploaded' = uploaded + w
      /\ sk' = [sk EXCEPT ![Socket].rx = 0]
      /\ \/ w = Rx /\ pxClient' = [pxClient EXCEPT !.ulRecvBytes = @ + Rx] /\ stack' = stack
         \/ w # Rx /\ pxClient' = [pxClient EXCEPT !.ulRecvBytes = @ + Rx, !.bHadError = TRUE]
            /\ Calls(<<>>) /\ xRc' = -1
  BY Zenon DEF StoreFileWork, Returns
<1> HIDE DEF w
<1>2. /\ pxClient'.xTransferSocket = pxClient.xTransferSocket
      /\ pxClient'.bEmptyFile = pxClient.bEmptyFile
      /\ pxClient'.bClientConnected = pxClient.bClientConnected
      /\ pxClient'.pxWriteHandle = pxClient.pxWriteHandle /\ pxClient'.pxReadHandle = pxClient.pxReadHandle
      /\ pxClient.bHadError => pxClient'.bHadError
      /\ w = Rx \/ pxClient'.bHadError
  BY <1>0, <1>1 DEF Client
<1>3. \A s \in Sock : /\ sk'[s].sent = sk[s].sent /\ sk'[s].st = sk[s].st
                      /\ sk'[s].rx = IF s = Socket THEN 0 ELSE sk[s].rx
  BY <1>0, <1>1 DEF Record
<1>4. SameTalk
  BY <1>1, <1>2 DEF SameTalk, Socket
<1>5. SameFlags
  BY <1>0, <1>2 DEF SameFlags
<1>6. SameSocks
  <2>1. pxClient'.bHadError \/ uploaded' = uploaded + Rx
    BY <1>1, <1>2
  <2> QED BY <1>0, <1>3, <2>1 DEF SameSocks, Alive
<1> QED BY <1>0, <1>1, <1>2, <1>4, <1>5, <1>6 DEF SameData

\* prvRetrieveFileWork touches nothing of an upload.
LEMMA RetrieveSame ==
  ASSUME BaseInv, RetrieveShort \/ RetrieveSends \/ RetrieveFails
  PROVE  SameData
<1>0. StackInv /\ pxClient \in Client /\ Types /\ sk \in [Sock -> Record] /\ talk \in Talk
      /\ Socket \in Sock /\ Top = "retrieve"
  <2>1. StackInv /\ pxClient \in Client /\ Types /\ sk \in [Sock -> Record] /\ talk \in Talk
    BY DEF BaseInv, Types
  <2>2. Top = "retrieve"
    BY <2>1, RetrieveMoves
  <2> QED BY <2>1, <2>2, ClientFields DEF BaseInv, FilesInv
<1>1. peer' = peer /\ uploaded' = uploaded
  BY Zenon DEF RetrieveShort, RetrieveSends, RetrieveFails
<1>2. /\ pxClient'.xTransferSocket = pxClient.xTransferSocket
      /\ pxClient'.bHadError = pxClient.bHadError /\ pxClient'.bEmptyFile = pxClient.bEmptyFile
      /\ pxClient'.bClientConnected = pxClient.bClientConnected
      /\ pxClient'.pxWriteHandle = pxClient.pxWriteHandle /\ pxClient'.pxReadHandle = pxClient.pxReadHandle
  <2>1. \/ pxClient' = [pxClient EXCEPT !.uxBytesLeft = 0]
        \/ pxClient' = [pxClient EXCEPT !.uxBytesLeft = @ - Count, !.ulRecvBytes = @ + Count]
        \/ pxClient' = [pxClient EXCEPT !.uxBytesLeft = @ - Count]
    BY Zenon DEF RetrieveShort, RetrieveSends, RetrieveFails
  <2> QED BY <1>0, <2>1 DEF Client
<1>3. /\ talk'.op = talk.op /\ talk'.cur = talk.cur /\ talk'.offer = talk.offer
      /\ talk'.reply = talk.reply /\ (talk'.calm => talk.calm)
  BY <1>0 DEF RetrieveShort, RetrieveSends, RetrieveFails, Talk
<1>4. \A s \in Sock : sk'[s].sent = sk[s].sent /\ sk'[s].rx = sk[s].rx /\ sk'[s].st = sk[s].st
  <2>1. CASE RetrieveShort
    <3>1. sk' = [sk EXCEPT ![Socket].fin = TRUE] \/ sk' = sk
      BY <2>1, Zenon DEF RetrieveShort
    <3> QED BY <1>0, <3>1 DEF Record
  <2>2. CASE RetrieveSends
    BY <1>0, <2>2 DEF RetrieveSends, Record
  <2>3. CASE RetrieveFails
    BY <2>3 DEF RetrieveFails
  <2> QED BY <2>1, <2>2, <2>3
<1>5. SameTalk
  BY <1>1, <1>2, <1>3 DEF SameTalk, Socket
<1>6. SameFlags
  BY <1>0, <1>2 DEF SameFlags
<1>7. SameSocks
  BY <1>1, <1>4 DEF SameSocks, Alive
<1> QED BY <1>5, <1>6, <1>7 DEF SameData

\* Data that arrives is sent and waits to be read.
LEMMA NetSame ==
  ASSUME BaseInv, SockInv, NEW s \in Sock, Net(s)
  PROVE  SameData
<1>0. pxClient \in Client /\ Types /\ sk \in [Sock -> Record] /\ talk \in Talk
  BY DEF BaseInv, Types
<1>1. UNCHANGED <<stack, pxClient, peer, cmd, uploaded>>
  BY Zenon DEF Net, PeerConnects, PeerRefuses, PeerSends, PeerReads, PeerCloses, StackCloses, NetLeaves, data
<1>2. Top' = Top /\ Below' = Below /\ Socket' = Socket
  BY <1>1 DEF Top, Below, Socket
<1>3. /\ talk'.op = talk.op /\ talk'.cur = talk.cur /\ talk'.offer = talk.offer
      /\ talk'.reply = talk.reply /\ (talk'.calm => talk.calm)
  BY <1>0 DEF Net, PeerConnects, PeerRefuses, PeerSends, PeerReads, PeerCloses, StackCloses, Talk
<1>4. SameTalk
  BY <1>1, <1>2, <1>3 DEF SameTalk
<1>5. SameFlags
  BY <1>1, <1>2 DEF SameFlags
<1>6. /\ sk[s].st \in Ended => sk'[s].st \in Ended
      /\ sk[s].st = "estab" => sk'[s].st \in Alive
      /\ sk[s].st # "freed"
      /\ \A r \in Sock \ {s} : sk'[r] = sk[r]
  BY <1>0 DEF Net, PeerConnects, PeerRefuses, PeerSends, PeerReads, PeerCloses, StackCloses, Record, Ended, Alive
<1>7. SameSocks
  <2>1. CASE PeerSends(s)
    <3>1. /\ talk.cur = s /\ sk[s].st = "estab" /\ (talk'.calm => Waiting)
          /\ sk'[s].rx = sk[s].rx + 1 /\ sk'[s].sent = sk[s].sent + 1
      BY <1>0, <2>1 DEF PeerSends, Talk, Record
    <3>2. \A r \in Sock \ {s} : sk'[r].rx = sk[r].rx /\ sk'[r].sent = sk[r].sent
      BY <1>6
    <3> QED BY <1>1, <1>2, <1>3, <1>6, <3>1, <3>2 DEF SameSocks, Cur, Alive
  <2>2. CASE ~PeerSends(s)
    <3>1. sk'[s].sent = sk[s].sent /\ sk'[s].rx = sk[s].rx
      BY <1>0, <2>2 DEF Net, PeerConnects, PeerRefuses, PeerReads, PeerCloses, StackCloses, Record
    <3>2. \A r \in Sock : sk'[r].rx = sk[r].rx /\ sk'[r].sent = sk[r].sent
      BY <1>6, <3>1
    <3> QED BY <1>1, <1>6, <3>2 DEF SameSocks, Alive
  <2> QED BY <2>1, <2>2
<1> QED BY <1>4, <1>5, <1>7 DEF SameData

\* What has arrived was sent, after a step of a transfer as well.
LEMMA ArrivedSteady ==
  ASSUME Types, Types', SockInv, ArrivedInv, SameData
  PROVE  ArrivedInv'
<1>0. /\ SameTalk /\ SameFlags /\ SameSocks /\ Socket' = Socket /\ talk'.cur = talk.cur
      /\ \A s \in Sock : sk[s].rx \in Nat /\ sk[s].sent \in Nat
  BY SockFields DEF SameData, SameTalk
<1>1. ASSUME NEW s \in Sock
      PROVE  sk'[s].rx <= sk'[s].sent /\ (sk'[s].rx > 0 => sk'[s].st \in Alive \cup {"freed"})
  <2>1. sk[s].rx <= sk[s].sent /\ (sk[s].rx > 0 => sk[s].st \in Alive \cup {"freed"})
    BY DEF ArrivedInv
  <2>2. sk[s].st \in Alive \cup {"freed"} => sk'[s].st \in Alive \cup {"freed"}
    BY <1>0 DEF SameSocks, Alive
  <2>3. \/ sk'[s].rx = sk[s].rx /\ sk'[s].sent = sk[s].sent
        \/ sk'[s].rx = 0 /\ sk'[s].sent = sk[s].sent
        \/ sk'[s].rx = sk[s].rx + 1 /\ sk'[s].sent = sk[s].sent + 1 /\ sk[s].st = "estab"
    BY <1>0 DEF SameSocks, Cur
  <2> QED BY <1>0, <2>1, <2>2, <2>3 DEF Alive
<1>2. pxClient'.bEmptyFile => Socket' = 0
  BY <1>0 DEF SameFlags, ArrivedInv
<1> QED BY <1>1, <1>2 DEF ArrivedInv

\* Where a call returns to, but for the order of a closing.
PopTo ==
  /\ Top' \in Below \cup {"none"} /\ Below' \subseteq Below
  /\ Top' \in {"store", "close2"} => Top = "store"
  /\ Top' = "worked" => Top \in {"store", "retrieve", "allsent"}
  /\ Top' \notin {"retrieve", "allsent", "closing", "acceptrx", "accept", "ack", "drained"}
  /\ Top' = "close" => ~peer
  /\ On("listen") \/ On("bind") => On("listen")' \/ On("bind")' \/ Top \in {"listen", "bind"}

\* What a return comes back to.
LEMMA ReturnsTo ==
  ASSUME StackInv, AdjacentInv, CallInv, Pops
  PROVE  PopTo
<1>1. /\ Top = "none" => Below = {}
      /\ Top # "none" => Top \in Labels /\ Below \subseteq Under[Top]
  BY TopIs
<1>2. Top' \in Below \cup {"none"} /\ Below' \subseteq Below
  BY DEF Pops
<1>3. \A l \in Labels : /\ "store" \in Under[l] \/ "close2" \in Under[l] => l = "store"
                        /\ "worked" \in Under[l] => l \in {"store", "retrieve", "allsent"}
                        /\ Under[l] \cap {"retrieve", "allsent", "closing", "acceptrx", "accept", "ack", "drained"} = {}
  BY UnderIs, LabelsAre, FitsAre DEF Commands, UnderCheck, Ground, Under
<1>4. "close" \in Below => ~peer
  BY DEF AdjacentInv, CallInv
<1>5. On("listen") \/ On("bind") => On("listen")' \/ On("bind")' \/ Top \in {"listen", "bind"}
  BY DEF Pops, On
<1> QED BY <1>1, <1>2, <1>3, <1>4, <1>5 DEF PopTo

\* prvTransferCloseFile is reached from the closing of the connection only.
LEMMA ToCloseFile ==
  ASSUME StackInv, stack # <<>>, Adjacent(stack), Pushed
  PROVE  Top' = "closefile" => Top \in Closers \cup {"closefile"}
<1>1. CASE stack' = stack
  BY <1>1 DEF Top
<1>2. CASE Calls(<<>>)
  BY <1>2, PopAdjacent
<1>3. /\ \A a : Calls(<<a>>) => Top' = a
      /\ \A a, b : Calls(<<a, b>>) => Top' = a
      /\ \A a, b, c : Calls(<<a, b, c>>) => Top' = a
      /\ \A a, b, c, d : Calls(<<a, b, c, d>>) => Top' = a
  BY Moves DEF Pushes
<1>4. CASE Calls(<<"closing">>) \/ Calls(<<"store", "close2">>)
  BY <1>3, <1>4
<1>5. ASSUME NEW a \in Labels \ (Closers \cup {"closefile"}), NEW b, NEW c, Calls(<<a>>) \/ Calls(<<a, b>>) \/ Calls(<<a, b, c>>)
      PROVE  Top' # "closefile"
  BY <1>3, <1>5
<1>6. CASE \E b : Calls(<<"close", b>>)
  BY <1>3, <1>6
<1>7. CASE Calls(<<"data", "close", "closefile", "delete">>)
  BY <1>3, <1>7
<1> QED BY <1>1, <1>2, <1>4, <1>5, <1>6, <1>7 DEF Pushed

\* The calls for a transfer command that is not prepared yet.
LEMMA EarlyKept ==
  ASSUME StackInv, Top \notin EarlyCalls,
         \/ Pops
         \/ \E t, b : Pushes(t, b) /\ t \notin EarlyCalls /\ b \cap EarlyCalls = {}
         \/ Top' = Top /\ Below' = Below
  PROVE  \A l \in EarlyCalls : On(l)' <=> On(l)
<1>1. EarlyCalls \subseteq Labels
  BY LabelsAre DEF EarlyCalls
<1>2. CASE Pops
  BY <1>1, <1>2, OnIs DEF On
<1>3. CASE \E t, b : Pushes(t, b) /\ t \notin EarlyCalls /\ b \cap EarlyCalls = {}
  BY <1>1, <1>3, OnIs DEF On
<1>4. CASE Top' = Top /\ Below' = Below
  BY <1>4 DEF On
<1> QED BY <1>2, <1>3, <1>4

\* A transfer command that is not prepared yet stays so.
LEMMA EarlySame ==
  ASSUME RequestInv, cmd' = cmd, \A l \in EarlyCalls : On(l)' <=> On(l)
  PROVE  SameEarly
<1>1. /\ On("stor")' <=> On("stor")
      /\ On("storprep")' <=> On("storprep")
      /\ On("setwrite")' <=> On("setwrite")
      /\ On("retr")' <=> On("retr")
      /\ On("retrprep")' <=> On("retrprep")
  BY DEF EarlyCalls
<1>2. (\E l \in EarlyCalls : On(l)') => cmd' \notin {"stor", "retr"}
  BY DEF RequestInv
<1> QED BY <1>1, <1>2 DEF SameEarly, StorEarly, RetrEarly

-----------------------------------------------------------------------------
(* The calls of the server task and the upload *)

\* A call that is not about to write a file does not come to do so.
SameWrite == On("setwrite")' => On("setwrite") \/ (uploaded' = 0 /\ pxClient'.ulRestartOffset = 0)

\* A step within a transfer.
SteadyCall == SameData /\ (talk'.calm => SameEarly /\ SameCalls /\ SameWrite)

\* A steady step keeps what is said of the upload.
LEMMA FlowSteady ==
  ASSUME SentInv, OwnedInv', SteadyCall
  PROVE  FlowInv'
<1>1. OwnedInv /\ AdjacentInv /\ ArrivedInv /\ Types /\ Types' /\ SockInv
  BY DEF SentInv, FlowInv, OwnedInv, OwnInv, BaseInv
<1>0. SameData /\ (talk'.calm => SameEarly /\ SameCalls /\ SameWrite)
  BY DEF SteadyCall
<1>2. ArrivedInv'
  BY <1>0, <1>1, ArrivedSteady
<1>3. ASSUME talk'.calm
      PROVE  RequestInv' /\ HandleInv' /\ LinkInv' /\ UploadInv'
  <2>1. talk.calm /\ Steady /\ SameRequest
    BY <1>0, <1>3 DEF SameData, SameTalk, Steady, SameRequest
  <2>2. RequestInv /\ HandleInv /\ LinkInv /\ UploadInv
    BY <2>1 DEF SentInv, FlowInv
  <2>3. On("setwrite")' => On("setwrite") \/ uploaded' = 0
    BY <1>0, <1>3 DEF SameWrite
  <2> QED BY <1>1, <1>3, <2>1, <2>2, <2>3, RequestSteady, HandleSteady, LinkSteady, UploadSteady
<1> QED BY <1>2, <1>3 DEF FlowInv

\* A call that returns.
LEMMA PopCalls ==
  ASSUME StackInv, AdjacentInv, CallInv, Pops, Pushed, stack # <<>>,
         Top = "store" => /\ pxClient'.bHadError \/ Rx' = 0
                          /\ xRc' = -1 => pxClient'.bHadError \/ St \in {"none", "closed"},
         Top = "retrieve" /\ xRc' = -1 => St \notin {"connecting", "estab"} \/ file.unread < Count,
         Top = "allsent" /\ xRc' = -1 => St = "closed",
         Top \in Closers => Top = "close2" /\ Rx > 0,
         Top \in {"listen", "bind"} => Below \subseteq {"data", "recv"}
  PROVE  SameCalls
<1>1. PopTo
  BY ReturnsTo
<1>2. Top' = "closefile" => Top \in Closers \cup {"closefile"}
  BY ToCloseFile DEF AdjacentInv
<1>3. Top \in {"listen", "bind"} => Top' \in {"data", "recv", "none"}
  BY <1>1 DEF PopTo
<1> QED BY <1>1, <1>2, <1>3 DEF SameCalls, PopTo

\* A call that makes others that are none of a transfer's work.
LEMMA PlainCalls ==
  ASSUME StackInv, NEW t, NEW b, Pushes(t, b), Top \notin {"listen", "bind"},
         t \notin {"store", "close2", "retrieve", "allsent", "worked", "close", "closing", "closefile",
                   "acceptrx", "ack", "drained"}
  PROVE  SameCalls
<1>1. On("listen") \/ On("bind") => On("listen")' \/ On("bind")'
  BY DEF On, Pushes
<1> QED BY <1>1 DEF SameCalls, Pushes

\* A call that is made again.
LEMMA StayCalls ==
  ASSUME Top' = Top, Below' = Below, xRc' = xRc
  PROVE  SameCalls
<1>1. On("listen") \/ On("bind") => On("listen")' \/ On("bind")'
  BY DEF On
<1> QED BY <1>1 DEF SameCalls

\* The calls that matter to a transfer that is not prepared yet.
LEMMA StillEarly ==
  ASSUME StackInv, RequestInv, cmd' = cmd, Top \notin EarlyCalls,
         \/ Pops
         \/ \E t, b : Pushes(t, b) /\ t \notin EarlyCalls /\ b \cap EarlyCalls = {}
         \/ Top' = Top /\ Below' = Below
  PROVE  SameEarly /\ SameWrite
<1>1. \A l \in EarlyCalls : On(l)' <=> On(l)
  BY EarlyKept
<1>2. "setwrite" \in EarlyCalls
  BY DEF EarlyCalls
<1> QED BY <1>1, <1>2, EarlySame DEF SameWrite

\* What a step of the server task may rely on.
LEMMA SentParts ==
  ASSUME SentInv
  PROVE  /\ StackInv /\ Types /\ AdjacentInv /\ CallInv /\ SockInv /\ BaseInv /\ OwnedInv /\ ArrivedInv
         /\ cmd \in Commands \cup {"none"} /\ pxClient \in Client /\ talk \in Talk /\ sk \in [Sock -> Record]
         /\ Socket \in Sock \cup {0} /\ 0 \notin Sock /\ xRc \in {-1, 0}
         /\ talk.calm => RequestInv /\ HandleInv /\ LinkInv /\ UploadInv /\ PatientInv
  BY ClientFields, ConstantsAre DEF SentInv, FlowInv, OwnedInv, OwnInv, BaseInv, Types, PatientInv

\* xFTPClientWork.
LEMMA LoopFlow ==
  ASSUME SentInv, Data \/ Work \/ Worked \/ Delete
  PROVE  SteadyCall
<1>0. StackInv /\ Types /\ AdjacentInv /\ CallInv /\ cmd \in Commands \cup {"none"} /\ xRc \in {-1, 0}
      /\ (talk.calm => RequestInv)
  BY SentParts
<1>1. UNCHANGED <<peer, sk, pxClient, uploaded, talk, cmd, xRc>>
  BY Zenon DEF Data, Work, Worked, Delete, data
<1>2. /\ Top \in {"data", "work", "worked", "delete"}
      /\ \/ Pops
         \/ Pushes("check", {"work"})
         \/ /\ pxClient.pxReadHandle /\ ~pxClient.pcConnectionAck
            /\ Pushes("retrieve", {"worked"}) /\ Top = "work"
         \/ pxClient.pxWriteHandle /\ Pushes("store", {"worked"}) /\ Top = "work"
         \/ xRc < 0 /\ Pushes("close", {"closefile"}) /\ Top = "worked"
  BY <1>0, LoopMoves
<1>3. SameData
  BY <1>0, <1>1, <1>2, QuietSame
<1>4. Pushed /\ stack # <<>>
  <2>1. Server
    BY Zenon DEF Server
  <2> QED BY <1>0, <2>1, ServerPushed
<1>5. SameCalls
  <2>1. CASE Pops
    BY <1>0, <1>2, <1>4, <2>1, PopCalls DEF Closers
  <2>2. CASE Pushes("check", {"work"})
    BY <1>0, <1>2, <2>2, PlainCalls
  <2>3. CASE pxClient.pxReadHandle /\ ~pxClient.pcConnectionAck /\ Pushes("retrieve", {"worked"}) /\ Top = "work"
    BY <2>3 DEF SameCalls, Pushes, On
  <2>4. CASE pxClient.pxWriteHandle /\ Pushes("store", {"worked"}) /\ Top = "work"
    <3>1. "close2" \notin Below
      BY <1>0, <2>4, TopIs, UnderIs, LabelsAre DEF Ground
    <3> QED BY <2>4, <3>1 DEF SameCalls, Pushes, On
  <2>5. CASE xRc < 0 /\ Pushes("close", {"closefile"}) /\ Top = "worked"
    BY <1>0, <2>5 DEF SameCalls, Pushes, On
  <2> QED BY <1>2, <2>1, <2>2, <2>3, <2>4, <2>5
<1>6. ASSUME talk.calm PROVE SameEarly /\ SameWrite
  <2>1. Top \notin EarlyCalls
    BY <1>2 DEF EarlyCalls
  <2>2. Pops \/ \E t, b : Pushes(t, b) /\ t \notin EarlyCalls /\ b \cap EarlyCalls = {}
    BY <1>2 DEF EarlyCalls
  <2> QED BY <1>0, <1>1, <1>6, <2>1, <2>2, StillEarly
<1> QED BY <1>1, <1>3, <1>5, <1>6 DEF SteadyCall

\* prvProcessCommand: PASV and PORT, SIZE, and what follows STOR.
LEMMA CommandFlow ==
  ASSUME SentInv, Pasv \/ Port \/ Size \/ Stored
  PROVE  SteadyCall
<1>0. StackInv /\ Types /\ AdjacentInv /\ CallInv /\ cmd \in Commands \cup {"none"} /\ ArrivedInv
      /\ (talk.calm => RequestInv)
  BY SentParts
<1>1. UNCHANGED <<peer, sk, pxClient, uploaded, talk, cmd, xRc>>
  BY Zenon DEF Pasv, Port, Size, Stored, data
<1>2. /\ Top \in {"pasv", "port", "size", "stored"} /\ Below \subseteq {"data", "recv"}
      /\ \/ Pops
         \/ Top \in {"pasv", "port"} /\ (Pushes("close", {"listen"}) \/ Pushes("close", {"bind"}))
         \/ pxClient.pxWriteHandle /\ Pushes("store", {"store"}) /\ Top = "size"
         \/ pxClient.bEmptyFile /\ Pushes("close", {"closefile"}) /\ Top = "stored"
  BY <1>0, CommandMoves
<1>3. SameData
  BY <1>0, <1>1, <1>2, QuietSame
<1>4. Pushed /\ stack # <<>>
  <2>1. Server
    BY Zenon DEF Server
  <2> QED BY <1>0, <2>1, ServerPushed
<1>5. SameCalls
  <2>1. CASE Pops
    BY <1>0, <1>2, <1>4, <2>1, PopCalls DEF Closers
  <2>2. CASE Top \in {"pasv", "port"} /\ (Pushes("close", {"listen"}) \/ Pushes("close", {"bind"}))
    <3>1. talk.op = "none"
      BY <1>0, <2>2 DEF CallInv, Connecting, Connects, On
    <3> QED BY <1>2, <2>2, <3>1 DEF SameCalls, Pushes, On
  <2>3. CASE pxClient.pxWriteHandle /\ Pushes("store", {"store"}) /\ Top = "size"
    BY <1>2, <2>3 DEF SameCalls, Pushes, On
  <2>4. CASE pxClient.bEmptyFile /\ Pushes("close", {"closefile"}) /\ Top = "stored"
    BY <1>0, <2>4 DEF SameCalls, Pushes, On, ArrivedInv
  <2> QED BY <1>2, <2>1, <2>2, <2>3, <2>4
<1>6. ASSUME talk.calm PROVE SameEarly /\ SameWrite
  <2>1. Top \notin EarlyCalls
    BY <1>2 DEF EarlyCalls
  <2>2. Pops \/ \E t, b : Pushes(t, b) /\ t \notin EarlyCalls /\ b \cap EarlyCalls = {}
    BY <1>2 DEF EarlyCalls
  <2> QED BY <1>0, <1>1, <1>6, <2>1, <2>2, StillEarly
<1> QED BY <1>1, <1>3, <1>5, <1>6 DEF SteadyCall

\* prvTransferCheck and prvTransferCloseSocket.
LEMMA CloseFlow ==
  ASSUME SentInv, Check \/ Drained \/ Close \/ Close2
  PROVE  SteadyCall
<1>0. StackInv /\ Types /\ AdjacentInv /\ CallInv /\ cmd \in Commands \cup {"none"} /\ Rx \in Nat
      /\ (talk.calm => RequestInv)
  BY SentParts, SockFields DEF Rx
<1>1. UNCHANGED <<peer, sk, pxClient, uploaded, talk, cmd, xRc>>
  BY Zenon DEF Check, Drained, Close, Close2, data
<1>2. /\ Top \in {"check", "drained", "close", "close2"}
      /\ \/ Pops /\ (Top = "close2" => Rx > 0) /\ Top # "close"
         \/ Pushes("accept", {})
         \/ Top = "check" /\ Pushes("ack", {}) /\ pxClient.bClientConnected
         \/ Top = "check" /\ Pushes("acceptrx", {}) /\ Rx > 0
         \/ Top = "drained" /\ Rx = 0 /\ Pushes("close", {"closefile"})
         \/ Top = "close" /\ Rx > 0 /\ Pushes("store", {"close2"})
         \/ Top \in {"close", "close2"} /\ Rx = 0 /\ Pushes("closing", {})
  BY <1>0, CheckMoves, CloseMoves
<1>3. SameData
  BY <1>0, <1>1, <1>2, QuietSame
<1>4. Pushed /\ stack # <<>>
  <2>1. Server
    BY Zenon DEF Server
  <2> QED BY <1>0, <2>1, ServerPushed
<1>5. SameCalls
  <2>1. CASE Pops /\ (Top = "close2" => Rx > 0) /\ Top # "close"
    BY <1>0, <1>2, <1>4, <2>1, PopCalls DEF Closers
  <2>2. CASE Pushes("accept", {})
    BY <1>0, <1>2, <2>2, PlainCalls
  <2>3. CASE Top = "check" /\ Pushes("ack", {}) /\ pxClient.bClientConnected
    BY <1>1, <2>3 DEF SameCalls, Pushes, On
  <2>4. CASE Top = "check" /\ Pushes("acceptrx", {}) /\ Rx > 0
    BY <2>4 DEF SameCalls, Pushes, On
  <2>5. CASE Top = "drained" /\ Rx = 0 /\ Pushes("close", {"closefile"})
    BY <2>5 DEF SameCalls, Pushes, On
  <2>6. CASE Top = "close" /\ Rx > 0 /\ Pushes("store", {"close2"})
    BY <2>6 DEF SameCalls, Pushes, On
  <2>7. CASE Top \in {"close", "close2"} /\ Rx = 0 /\ Pushes("closing", {})
    BY <2>7 DEF SameCalls, Pushes, On
  <2> QED BY <1>2, <2>1, <2>2, <2>3, <2>4, <2>5, <2>6, <2>7
<1>6. ASSUME talk.calm PROVE SameEarly /\ SameWrite
  <2>1. Top \notin EarlyCalls
    BY <1>2 DEF EarlyCalls
  <2>2. Pops \/ \E t, b : Pushes(t, b) /\ t \notin EarlyCalls /\ b \cap EarlyCalls = {}
    BY <1>2 DEF EarlyCalls
  <2> QED BY <1>0, <1>1, <1>6, <2>1, <2>2, StillEarly
<1> QED BY <1>1, <1>3, <1>5, <1>6 DEF SteadyCall

\* The ends of the work on a file.
LEMMA WorkedFlow ==
  ASSUME SentInv, StoreFileWorked \/ RetrieveWaits \/ AllSent \/ RetrieveAllSent
  PROVE  SteadyCall
<1>0. StackInv /\ Types /\ AdjacentInv /\ CallInv /\ cmd \in Commands \cup {"none"}
      /\ (talk.calm => RequestInv)
  BY SentParts
<1>1. UNCHANGED <<peer, sk, pxClient, uploaded, talk, cmd>>
  BY Zenon DEF StoreFileWorked, RetrieveWaits, AllSent, RetrieveAllSent, data
<1>2. /\ Top \in {"store", "retrieve", "allsent"}
      /\ \/ Pops
         \/ Top = "retrieve" /\ Pushes("allsent", {})
  BY <1>0, StoreMoves, RetrieveMoves
<1>3. SameData
  BY <1>0, <1>1, <1>2, QuietSame
<1>4. Pushed /\ stack # <<>>
  <2>1. Server
    BY Zenon DEF Server
  <2> QED BY <1>0, <2>1, ServerPushed
<1>a. Top = "store" => Rx' = 0 /\ (xRc' = -1 => St \in {"none", "closed"})
  <2>1. Top = "store" => StoreFileWorked
    BY <1>0, RetrieveMoves
  <2>2. StoreFileWorked => Rx = 0 /\ (xRc' = -1 => St \in {"none", "closed"})
    BY DEF StoreFileWorked
  <2>3. Rx' = Rx
    BY <1>1 DEF Rx, Socket
  <2> QED BY <2>1, <2>2, <2>3
<1>b. /\ Top = "retrieve" => RetrieveWaits \/ RetrieveAllSent
      /\ Top = "allsent" => AllSent
  BY <1>0, StoreMoves, RetrieveMoves
<1>c. /\ Top = "retrieve" /\ Pops => xRc' # -1
      /\ Top = "allsent" /\ xRc' = -1 => St = "closed"
  <2>1. RetrieveAllSent => ~Pops
    BY <1>0, RetrieveMoves DEF Pops, Pushes, Ground
  <2> QED BY <1>b, <2>1 DEF RetrieveWaits, AllSent
<1>5. SameCalls
  <2>1. CASE Pops
    BY <1>0, <1>2, <1>4, <1>a, <1>c, <2>1, PopCalls DEF Closers
  <2>2. CASE Top = "retrieve" /\ Pushes("allsent", {})
    BY <2>2 DEF SameCalls, Pushes, On
  <2> QED BY <1>2, <2>1, <2>2
<1>6. ASSUME talk.calm PROVE SameEarly /\ SameWrite
  <2>1. Top \notin EarlyCalls
    BY <1>2 DEF EarlyCalls
  <2>2. Pops \/ \E t, b : Pushes(t, b) /\ t \notin EarlyCalls /\ b \cap EarlyCalls = {}
    BY <1>2 DEF EarlyCalls
  <2> QED BY <1>0, <1>1, <1>6, <2>1, <2>2, StillEarly
<1> QED BY <1>1, <1>3, <1>5, <1>6 DEF SteadyCall

\* Reading a command, and STOR and RETR with a data connection.
LEMMA ReadFlow ==
  ASSUME SentInv, Recv \/ Transfer("retr", <<"retrprep">>) \/ Transfer("stor", <<"storprep">>)
  PROVE  SteadyCall
<1>0. StackInv /\ Types /\ AdjacentInv /\ CallInv /\ cmd \in Commands \cup {"none"}
      /\ (talk.calm => RequestInv)
  BY SentParts
<1>1. UNCHANGED <<peer, sk, pxClient, uploaded, talk, xRc>>
  BY Zenon DEF Recv, Transfer, data
<1>2. \/ /\ Recv /\ Top = "recv" /\ Below = {} /\ cmd' = "none"
         /\ \/ cmd # "none" /\ Pushes(cmd, {"data", "recv"})
            \/ cmd = "none" /\ Pushes("data", {"recv"})
            \/ cmd = "none" /\ Pushes("data", {"close", "closefile", "delete"})
      \/ /\ Top = "retr" /\ Below \subseteq {"data", "recv"} /\ cmd' = cmd
         /\ Pushes("check", {"retrprep"}) \/ Pushes("retrprep", {})
      \/ /\ Top = "stor" /\ Below \subseteq {"data", "recv"} /\ cmd' = cmd
         /\ Pushes("check", {"storprep"}) \/ Pushes("storprep", {})
  BY <1>0, LoopMoves, CommandMoves DEF Transfer
<1>3. SameData
  BY <1>0, <1>1, <1>2, QuietSame
<1>4. PICK t, b : Pushes(t, b) /\ t \in {"data", "check", "retrprep", "storprep"} \cup Commands
  BY <1>0, <1>2
<1>5. SameCalls
  BY <1>0, <1>2, <1>4, PlainCalls DEF Commands
<1>6. ASSUME talk.calm PROVE SameEarly /\ SameWrite
  <2>1. CASE Top = "recv" /\ cmd # "none" /\ Pushes(cmd, {"data", "recv"}) /\ cmd' = "none" /\ Below = {}
    <3>1. \A l : On(l)' <=> l \in {cmd, "data", "recv"}
      BY <2>1, OnIs
    <3>2. \A l \in EarlyCalls : ~On(l)
      BY <2>1 DEF On, EarlyCalls
    <3> QED BY <1>0, <2>1, <3>1, <3>2 DEF SameEarly, SameWrite, StorEarly, RetrEarly, EarlyCalls, Commands
  <2>2. CASE /\ Top = "recv" /\ cmd = "none" /\ cmd' = "none" /\ Below = {}
             /\ Pushes("data", {"recv"}) \/ Pushes("data", {"close", "closefile", "delete"})
    <3>1. \A l : On(l)' => l \in {"data", "recv", "close", "closefile", "delete"}
      BY <2>2, OnIs
    <3>2. \A l \in EarlyCalls : ~On(l)
      BY <2>2 DEF On, EarlyCalls
    <3> QED BY <2>2, <3>1, <3>2 DEF SameEarly, SameWrite, StorEarly, RetrEarly, EarlyCalls
  <2>3. CASE /\ Top = "retr" /\ Below \subseteq {"data", "recv"} /\ cmd' = cmd
             /\ Pushes("check", {"retrprep"}) \/ Pushes("retrprep", {})
    <3>1. \A l : On(l)' => l \in {"check", "retrprep", "data", "recv"}
      BY <2>3, OnIs
    <3>2. On("retrprep")' /\ On("retr")
      BY <2>3, OnIs DEF On
    <3>3. \A l : On(l) => l \in {"retr", "data", "recv"}
      BY <2>3 DEF On
    <3>4. cmd \notin {"stor", "retr"}
      BY <1>0, <1>6, <3>2 DEF RequestInv, EarlyCalls
    <3> QED BY <2>3, <3>1, <3>2, <3>3, <3>4 DEF SameEarly, SameWrite, StorEarly, RetrEarly, EarlyCalls
  <2>4. CASE /\ Top = "stor" /\ Below \subseteq {"data", "recv"} /\ cmd' = cmd
             /\ Pushes("check", {"storprep"}) \/ Pushes("storprep", {})
    <3>1. \A l : On(l)' => l \in {"check", "storprep", "data", "recv"}
      BY <2>4, OnIs
    <3>2. On("storprep")' /\ On("stor")
      BY <2>4, OnIs DEF On
    <3>3. \A l : On(l) => l \in {"stor", "data", "recv"}
      BY <2>4 DEF On
    <3>4. cmd \notin {"stor", "retr"}
      BY <1>0, <1>6, <3>2 DEF RequestInv, EarlyCalls
    <3> QED BY <2>4, <3>1, <3>2, <3>3, <3>4 DEF SameEarly, SameWrite, StorEarly, RetrEarly, EarlyCalls
  <2> QED BY <1>2, <2>1, <2>2, <2>3, <2>4
<1> QED BY <1>1, <1>3, <1>5, <1>6 DEF SteadyCall

\* The calls that set flags of the client.
LEMMA FlagFlow ==
  ASSUME SentInv, PortNoSocket \/ Rest \/ Accept("accept") \/ Accept("acceptrx") \/ Ack \/ CloseFile
  PROVE  SteadyCall
<1>0. StackInv /\ Types /\ AdjacentInv /\ CallInv /\ BaseInv /\ cmd \in Commands \cup {"none"}
      /\ pxClient \in Client /\ (talk.calm => RequestInv)
  BY SentParts
<1>1. UNCHANGED <<cmd, xRc, uploaded>> /\ talk'.calm = talk.calm
  <2>1. UNCHANGED <<cmd, xRc, uploaded>> /\ (Rest \/ talk' = talk)
    BY Zenon DEF PortNoSocket, Rest, Accept, Ack, CloseFile, data
  <2> QED BY <1>0, <2>1, RestFields
<1>2. /\ Top \in {"bind", "rest", "accept", "acceptrx", "ack", "closefile"}
      /\ Top = "bind" => Below \subseteq {"data", "recv"}
      /\ \/ Pops
         \/ Top \in {"accept", "acceptrx"} /\ Pushes("ack", {}) /\ pxClient'.bClientConnected
         \/ Top = "ack" /\ Pushes("drained", {}) /\ St # "estab"
  <2>1. CASE PortNoSocket \/ Rest
    BY <1>0, <2>1, CommandMoves
  <2>2. CASE Accept("accept") \/ Accept("acceptrx")
    <3>1. Top \in {"accept", "acceptrx"} /\ (Pops \/ Pushes("ack", {}))
      BY <1>0, <2>2, CheckMoves
    <3>2. CASE Pops
      BY <3>1, <3>2
    <3>3. CASE ~Pops
      <4>1. \/ pxClient' = [pxClient EXCEPT !.bClientConnected = TRUE, !.bEmptyFile = FALSE]
            \/ Calls(<<>>)
        BY <2>2, Zenon DEF Accept
      <4>2. stack # <<>>
        BY <1>0, <3>1, TopIs
      <4>3. ~Calls(<<>>)
        BY <1>0, <3>3, <4>2, Moves
      <4>4. pxClient'.bClientConnected
        BY <1>0, <4>1, <4>3 DEF Client
      <4> QED BY <3>1, <3>3, <4>4
    <3> QED BY <3>2, <3>3
  <2>3. CASE Ack
    BY <1>0, <2>3, CheckMoves
  <2>4. CASE CloseFile
    BY <1>0, <2>4, CloseMoves
  <2> QED BY <2>1, <2>2, <2>3, <2>4
<1>3. SameData
  BY <1>0, FlagSame
<1>4. Pushed /\ stack # <<>>
  <2>1. Server
    BY Zenon DEF Server
  <2> QED BY <1>0, <2>1, ServerPushed
<1>5. SameCalls
  <2>1. CASE Pops
    BY <1>0, <1>2, <1>4, <2>1, PopCalls DEF Closers
  <2>2. CASE Top \in {"accept", "acceptrx"} /\ Pushes("ack", {}) /\ pxClient'.bClientConnected
    BY <2>2 DEF SameCalls, Pushes, On
  <2>3. CASE Top = "ack" /\ Pushes("drained", {}) /\ St # "estab"
    BY <2>3 DEF SameCalls, Pushes, On
  <2> QED BY <1>2, <2>1, <2>2, <2>3
<1>6. ASSUME talk.calm PROVE SameEarly /\ SameWrite
  <2>1. Top \notin EarlyCalls
    BY <1>2 DEF EarlyCalls
  <2>2. Pops \/ \E t, b : Pushes(t, b) /\ t \notin EarlyCalls /\ b \cap EarlyCalls = {}
    BY <1>2 DEF EarlyCalls
  <2> QED BY <1>0, <1>1, <1>6, <2>1, <2>2, StillEarly
<1> QED BY <1>1, <1>3, <1>5, <1>6 DEF SteadyCall

\* The preparation of an upload, and the work on it.
LEMMA StoreFlow ==
  ASSUME SentInv, StorePrep \/ StoreFileWork
  PROVE  SteadyCall
<1>0. StackInv /\ Types /\ AdjacentInv /\ CallInv /\ BaseInv /\ cmd \in Commands \cup {"none"}
      /\ (talk.calm => RequestInv)
  BY SentParts
<1>1. UNCHANGED <<talk, cmd>>
  BY Zenon DEF StorePrep, StoreFileWork
<1>2. CASE StorePrep
  <2>1. /\ Top = "storprep" /\ Below \subseteq {"data", "recv"}
        /\ Pushes("check", {"setwrite", "stored"}) \/ Pushes("setwrite", {"stored"})
    BY <1>0, <1>2, StoreMoves
  <2>2. SameData /\ uploaded' = 0 /\ pxClient'.ulRestartOffset = 0
    <3>1. SameData
      BY <1>0, <1>2, StorePrepSame
    <3>2. pxClient \in Client
      BY SentParts
    <3> QED BY <1>2, <3>1, <3>2 DEF StorePrep, FileClosed, Client
  <2>3. SameCalls
    BY <1>0, <2>1, PlainCalls
  <2>4. ASSUME talk.calm PROVE SameEarly /\ SameWrite
    <3>1. \A l : On(l)' => l \in {"check", "setwrite", "stored", "data", "recv"}
      BY <2>1, OnIs
    <3>2. On("setwrite")' /\ On("storprep")
      BY <2>1, OnIs DEF On
    <3>3. \A l : On(l) => l \in {"storprep", "data", "recv"}
      BY <2>1 DEF On
    <3>4. cmd \notin {"stor", "retr"}
      BY <1>0, <2>4, <3>2 DEF RequestInv, EarlyCalls
    <3> QED BY <1>1, <2>2, <3>1, <3>2, <3>3, <3>4 DEF SameEarly, SameWrite, StorEarly, RetrEarly, EarlyCalls
  <2> QED BY <1>1, <2>2, <2>3, <2>4 DEF SteadyCall
<1>3. CASE StoreFileWork
  <2>1. Top = "store" /\ (Pops \/ (Top' = Top /\ Below' = Below))
    BY <1>0, <1>3, StoreMoves
  <2>2. SameData /\ (stack' = stack \/ (pxClient'.bHadError /\ Calls(<<>>) /\ xRc' = -1))
    BY <1>0, <1>3, StoreWorkSame
  <2>3. Pushed /\ stack # <<>>
    <3>1. Server
      BY <1>3, Zenon DEF Server
    <3> QED BY <1>0, <3>1, ServerPushed
  <2>4. SameCalls
    <3>1. CASE stack' = stack
      <4>1. Top' = Top /\ Below' = Below
        BY <3>1 DEF Top, Below
      <4>2. On("listen") \/ On("bind") => On("listen")' \/ On("bind")'
        BY <4>1 DEF On
      <4> QED BY <2>1, <4>1, <4>2 DEF SameCalls
    <3>2. CASE pxClient'.bHadError /\ Calls(<<>>)
      <4>1. Pops
        BY <1>0, <2>3, <3>2, Moves
      <4> QED BY <1>0, <2>1, <2>3, <3>2, <4>1, PopCalls DEF Closers
    <3> QED BY <2>2, <3>1, <3>2
  <2>5. ASSUME talk.calm PROVE SameEarly /\ SameWrite
    <3>1. Top \notin EarlyCalls
      BY <2>1 DEF EarlyCalls
    <3> QED BY <1>0, <1>1, <2>1, <2>5, <3>1, StillEarly
  <2> QED BY <1>1, <2>2, <2>4, <2>5 DEF SteadyCall
<1> QED BY <1>2, <1>3

\* The work on a download.
LEMMA RetrieveFlow ==
  ASSUME SentInv, RetrieveShort \/ RetrieveSends \/ RetrieveFails
  PROVE  SteadyCall
<1>0. StackInv /\ Types /\ AdjacentInv /\ CallInv /\ BaseInv /\ cmd \in Commands \cup {"none"}
      /\ (talk.calm => RequestInv)
  BY SentParts
<1>1. cmd' = cmd
  BY Zenon DEF RetrieveShort, RetrieveSends, RetrieveFails
<1>2. Top = "retrieve" /\ (Pops \/ Pushes("allsent", {}) \/ (Top' = Top /\ Below' = Below))
  BY <1>0, RetrieveMoves
<1>3. SameData
  BY <1>0, RetrieveSame
<1>4. Pushed /\ stack # <<>>
  <2>1. Server
    BY Zenon DEF Server
  <2> QED BY <1>0, <2>1, ServerPushed
<1>a. Pops /\ talk'.calm => St \notin {"connecting", "estab"} \/ file.unread < Count
  <2>0. talk \in Talk
    BY SentParts
  <2>1. CASE RetrieveShort
    <3>1. file.unread < Count \/ talk' = [talk EXCEPT !.calm = FALSE]
      BY <2>1, Zenon DEF RetrieveShort
    <3> QED BY <2>0, <3>1 DEF Talk
  <2>2. CASE RetrieveSends
    <3>1. Pushes("allsent", {}) \/ (Top' = Top /\ Below' = Below)
      BY <1>0, <2>2, RetrieveMoves
    <3>2. "allsent" \notin Ground \cup {"worked"} /\ Top \notin Below
      BY <1>0, <1>2, <2>2, RetrieveMoves DEF Ground
    <3> QED BY <1>0, <1>2, <2>2, <3>1, <3>2, RetrieveMoves DEF Pops, Pushes, Ground
  <2>3. CASE RetrieveFails
    <3>1. talk' = [talk EXCEPT !.calm = talk.calm /\ St \notin {"connecting", "estab"}]
      BY <2>3, Zenon DEF RetrieveFails
    <3> QED BY <2>0, <3>1 DEF Talk
  <2> QED BY <2>1, <2>2, <2>3
<1>5. ASSUME talk'.calm PROVE SameCalls
  <2>1. CASE Pops
    BY <1>0, <1>2, <1>4, <1>5, <1>a, <2>1, PopCalls DEF Closers
  <2>2. CASE Pushes("allsent", {})
    BY <1>2, <2>2 DEF SameCalls, Pushes, On
  <2>3. CASE Top' = Top /\ Below' = Below
    <3>1. On("listen") \/ On("bind") => On("listen")' \/ On("bind")'
      BY <2>3 DEF On
    <3> QED BY <1>2, <2>3, <3>1 DEF SameCalls
  <2> QED BY <1>2, <2>1, <2>2, <2>3
<1>6. ASSUME talk.calm PROVE SameEarly /\ SameWrite
  <2>1. Top \notin EarlyCalls
    BY <1>2 DEF EarlyCalls
  <2>2. \/ Pops \/ (Top' = Top /\ Below' = Below)
        \/ \E t, b : Pushes(t, b) /\ t \notin EarlyCalls /\ b \cap EarlyCalls = {}
    BY <1>2 DEF EarlyCalls
  <2> QED BY <1>0, <1>1, <1>6, <2>1, <2>2, StillEarly
<1>7. talk'.calm => talk.calm
  BY <1>3 DEF SameData, SameTalk
<1> QED BY <1>3, <1>5, <1>6, <1>7 DEF SteadyCall

\* What the TCP stack and the peer do on a data connection.
LEMMA NetFlow ==
  ASSUME SentInv, NEW s \in Sock, Net(s)
  PROVE  SteadyCall
<1>0. StackInv /\ BaseInv /\ SockInv /\ (talk.calm => RequestInv)
  BY SentParts
<1>1. UNCHANGED <<stack, cmd, xRc>>
  BY Zenon DEF Net, PeerConnects, PeerRefuses, PeerSends, PeerReads, PeerCloses, StackCloses, NetLeaves
<1>2. Top' = Top /\ Below' = Below /\ \A l : On(l)' <=> On(l)
  BY <1>1 DEF Top, Below, On
<1>3. SameData
  BY <1>0, NetSame
<1>4. SameCalls
  BY <1>1, <1>2, StayCalls
<1>5. ASSUME talk.calm PROVE SameEarly /\ SameWrite
  BY <1>0, <1>1, <1>2, <1>5, EarlySame DEF SameWrite
<1>6. talk'.calm => talk.calm
  BY <1>3 DEF SameData, SameTalk
<1> QED BY <1>3, <1>4, <1>5, <1>6 DEF SteadyCall

\* The peer's leaving, and its commands that begin no transfer.
LEMMA PeerStays ==
  ASSUME SentInv, PeerLeaves \/ PeerCommand("rest") \/ PeerCommand("size") \/ UNCHANGED vars
  PROVE  SteadyCall
<1>0. Types /\ talk \in Talk /\ (talk.calm => RequestInv)
  BY SentParts
<1>1. UNCHANGED <<stack, xRc, pxClient, sk, uploaded>>
  BY DEF PeerLeaves, PeerCommand, vars, data
<1>2. Top' = Top /\ Below' = Below /\ \A l : On(l)' <=> On(l)
  BY <1>1 DEF Top, Below, On
<1>3. /\ peer' => peer
      /\ talk'.op = talk.op /\ talk'.cur = talk.cur /\ talk'.offer = talk.offer
      /\ talk'.reply = talk.reply /\ (talk'.calm => talk.calm)
      /\ cmd' = cmd \/ (cmd = "none" /\ cmd' \in {"rest", "size"})
  <2>1. CASE PeerLeaves
    BY <1>0, <2>1 DEF PeerLeaves, Talk
  <2>2. CASE PeerCommand("rest") \/ PeerCommand("size")
    BY <1>0, <2>2 DEF PeerCommand, Talk
  <2>3. CASE UNCHANGED vars
    BY <2>3 DEF vars
  <2> QED BY <2>1, <2>2, <2>3
<1>4. SameTalk
  BY <1>1, <1>3 DEF SameTalk, Socket
<1>5. SameFlags /\ SameSocks
  BY <1>1, <1>2 DEF SameFlags, SameSocks, Alive
<1>6. SameCalls
  BY <1>1, <1>2, StayCalls
<1>7. ASSUME talk.calm PROVE SameEarly /\ SameWrite
  BY <1>0, <1>2, <1>3, <1>7 DEF SameEarly, SameWrite, StorEarly, RetrEarly, RequestInv
<1> QED BY <1>3, <1>4, <1>5, <1>6, <1>7 DEF SteadyCall, SameData

-----------------------------------------------------------------------------
(* The steps that begin and end a transfer *)

\* Sockets that keep their streams, and are freed at most.
SameStreams ==
  \A s \in Sock : /\ sk'[s].rx = sk[s].rx /\ sk'[s].sent = sk[s].sent
                  /\ sk'[s].rx > 0 => sk'[s].st = sk[s].st \/ sk'[s].st = "freed" \/ sk[s].st = "bound"

\* What has arrived was sent, when the streams do not change.
LEMMA ArrivedSame ==
  ASSUME Types, ArrivedInv, SameStreams, pxClient'.bEmptyFile => Socket' = 0
  PROVE  ArrivedInv'
<1>1. ASSUME NEW s \in Sock
      PROVE  sk'[s].rx <= sk'[s].sent /\ (sk'[s].rx > 0 => sk'[s].st \in Alive \cup {"freed"})
  BY DEF ArrivedInv, SameStreams, Alive, Ended
<1> QED BY <1>1 DEF ArrivedInv

\* No transfer is under way after the step, and nothing is being closed.
LEMMA IdleFlow ==
  ASSUME ~Waiting', cmd' \notin {"stor", "retr"}, \A l \in EarlyCalls : ~On(l)',
         ~pxClient'.pxWriteHandle, ~pxClient'.pxReadHandle, ~pxClient'.bHadError,
         Top' \in {"data", "recv", "none", "stored"},
         talk'.op # "none" => talk'.offer = 0 /\ Socket' \in {0, talk'.cur},
         talk'.offer # 0 => Socket' \in {0, talk'.offer},
         pxClient'.bClientConnected => St' \in Alive,
         ~(talk'.op = "stor" /\ talk'.reply = "226")
  PROVE  RequestInv' /\ HandleInv' /\ LinkInv' /\ UploadInv'
<1>1. ~Storing' /\ ~Retrieving' /\ ~StorEarly' /\ ~RetrEarly'
  BY DEF Storing, Retrieving, StorEarly, RetrEarly, EarlyCalls
<1>2. RequestInv'
  BY <1>1 DEF RequestInv
<1>3. HandleInv'
  BY <1>1 DEF HandleInv
<1>4. LinkInv'
  BY DEF LinkInv, Closes, Closers
<1>5. UploadInv'
  BY <1>1 DEF UploadInv
<1> QED BY <1>2, <1>3, <1>4, <1>5

\* prvTransferConnect gives the peer a new socket.
LEMMA ConnectFlow ==
  ASSUME SentInv, OwnedInv', NEW b \in BOOLEAN, TransferConnect(b)
  PROVE  FlowInv'
<1>0. StackInv /\ Types /\ CallInv /\ SockInv /\ ArrivedInv /\ pxClient \in Client /\ talk \in Talk /\ sk \in [Sock -> Record]
      /\ (talk.calm => RequestInv /\ HandleInv /\ LinkInv /\ UploadInv /\ PatientInv) /\ 0 \notin Sock
  BY SentParts
<1>1. PICK s \in Sock :
        /\ sk[s].st = "none"
        /\ sk' = [sk EXCEPT ![s].st = IF b THEN "listen" ELSE "bound"]
        /\ pxClient' = [pxClient EXCEPT !.xTransferSocket = s, !.bIsListen = b, !.bEmptyFile = FALSE]
        /\ talk' = [talk EXCEPT !.offer = s]
  BY DEF TransferConnect, Unused
<1>2. /\ Socket' = s /\ ~pxClient'.bEmptyFile
      /\ pxClient'.pxWriteHandle = pxClient.pxWriteHandle /\ pxClient'.pxReadHandle = pxClient.pxReadHandle
      /\ pxClient'.bHadError = pxClient.bHadError /\ pxClient'.bClientConnected = pxClient.bClientConnected
  BY <1>0, <1>1 DEF Client, Socket
<1>3. /\ talk'.op = talk.op /\ talk'.reply = talk.reply /\ talk'.offer = s /\ talk'.calm = talk.calm
  BY <1>0, <1>1 DEF Talk
<1>4. \A r \in Sock : /\ sk'[r].rx = sk[r].rx /\ sk'[r].sent = sk[r].sent
                      /\ r # s => sk'[r].st = sk[r].st
  BY <1>0, <1>1 DEF Record
<1>5. ArrivedInv'
  <2>1. sk[s].rx = 0
    BY <1>0, <1>1 DEF SockInv
  <2>2. SameStreams
    BY <1>4, <2>1 DEF SameStreams
  <2> QED BY <1>0, <1>2, <2>2, ArrivedSame
<1>6. Top \in {"listen", "bind"} /\ Below \subseteq {"data", "recv"} /\ Pops /\ cmd' = cmd
  BY <1>0, CommandMoves DEF TransferConnect
<1>7. cmd = "none" /\ talk.op = "none"
  BY <1>0, <1>6 DEF CallInv, Connecting, Connects, On
<1>8. Top' \in {"data", "recv", "none"} /\ \A l \in EarlyCalls : ~On(l)'
  BY <1>6 DEF Pops, On, EarlyCalls
<1>9. ASSUME talk.calm PROVE RequestInv' /\ HandleInv' /\ LinkInv' /\ UploadInv'
  <2>1. ~Waiting /\ ~Waiting' /\ ~Storing /\ ~Retrieving
    BY <1>3, <1>7 DEF Waiting, Storing, Retrieving
  <2>2. ~pxClient'.pxWriteHandle /\ ~pxClient'.pxReadHandle /\ ~pxClient'.bHadError
    BY <1>0, <1>2, <1>6, <1>9, <2>1 DEF HandleInv
  <2>3. Socket = 0
    BY <1>0, <1>6, <1>9 DEF PatientInv, On
  <2>4. ~pxClient'.bClientConnected
    BY <1>0, <1>2, <1>9, <2>3 DEF LinkInv, St, Alive, Ended
  <2> QED BY <1>2, <1>3, <1>6, <1>7, <1>8, <2>1, <2>2, <2>4, IdleFlow
<1> QED BY <1>3, <1>5, <1>9 DEF FlowInv

\* A transfer command that is answered by an error before the transfer.
LEMMA RefuseFlow ==
  ASSUME SentInv, OwnedInv', (\E l \in {"retr", "stor"} : NoDataConnection(l)) \/ StorePrepFails \/ RetrievePrepFails
  PROVE  FlowInv'
<1>0. StackInv /\ Types /\ CallInv /\ ArrivedInv /\ pxClient \in Client /\ talk \in Talk /\ sk \in [Sock -> Record]
      /\ (talk.calm => RequestInv /\ HandleInv /\ LinkInv) /\ 0 \notin Sock
  BY SentParts
<1>1. UNCHANGED <<sk, cmd>>
  BY Zenon DEF NoDataConnection, StorePrepFails, RetrievePrepFails
<1>2. /\ talk'.op = talk.op /\ talk'.reply \in {"425", "450"} /\ talk'.offer = talk.offer
      /\ talk'.cur = talk.cur /\ (talk'.calm => talk.calm)
  BY <1>0, RefusedFields
<1>3. /\ Socket' = Socket /\ pxClient'.bEmptyFile = pxClient.bEmptyFile
      /\ pxClient'.pxWriteHandle => pxClient.pxWriteHandle
      /\ pxClient'.pxReadHandle => pxClient.pxReadHandle
      /\ pxClient'.bHadError = pxClient.bHadError /\ pxClient'.bClientConnected = pxClient.bClientConnected
  <2>1. \/ pxClient' = pxClient \/ pxClient' = FileClosed
        \/ pxClient' = [FileClosed EXCEPT !.ulRestartOffset = 0]
        \/ \E size \in {0, FileSize} :
             pxClient' = [FileClosed EXCEPT !.ulRestartOffset = 0, !.uxBytesLeft = size]
    BY <1>0, RefusedFields
  <2> QED BY <1>0, <2>1 DEF FileClosed, Client, Socket
<1>4. /\ Top \in EarlyCalls /\ Below \subseteq {"data", "recv"}
      /\ Pops \/ Pushes("stored", {})
  BY <1>0, CommandMoves, StoreMoves, RetrieveMoves DEF EarlyCalls
<1>5. Top' \in {"data", "recv", "none", "stored"} /\ \A l \in EarlyCalls : ~On(l)'
  BY <1>4 DEF Pops, Pushes, On, EarlyCalls
<1>6. ArrivedInv'
  <2>1. SameStreams
    BY <1>1 DEF SameStreams
  <2> QED BY <1>0, <1>3, <2>1, ArrivedSame DEF ArrivedInv
<1>7. ASSUME talk'.calm PROVE RequestInv' /\ HandleInv' /\ LinkInv' /\ UploadInv'
  <2>1. RequestInv /\ HandleInv /\ LinkInv
    BY <1>0, <1>2, <1>7
  <2>2. Early /\ Waiting /\ On(Top)
    BY <1>4, <2>1 DEF Early, StorEarly, RetrEarly, EarlyCalls, On, RequestInv, Storing, Retrieving
  <2>3. cmd \notin {"stor", "retr"}
    BY <1>4, <2>1, <2>2 DEF RequestInv
  <2>4. ~pxClient'.pxWriteHandle /\ ~pxClient'.pxReadHandle /\ ~pxClient'.bHadError
    BY <1>3, <1>4, <2>1, <2>2 DEF HandleInv, EarlyCalls
  <2>5. ~Waiting'
    BY <1>2 DEF Waiting
  <2>6. pxClient'.bClientConnected => St' \in Alive
    <3>1. St' = St
      BY <1>1, <1>3 DEF St
    <3> QED BY <1>3, <2>1, <3>1 DEF LinkInv
  <2>7. /\ talk'.op # "none" => talk'.offer = 0 /\ Socket' \in {0, talk'.cur}
        /\ talk'.offer # 0 => Socket' \in {0, talk'.offer}
    BY <1>2, <1>3, <2>1 DEF RequestInv
  <2> QED BY <1>1, <1>2, <1>5, <2>3, <2>4, <2>5, <2>6, <2>7, IdleFlow
<1> QED BY <1>6, <1>7 DEF FlowInv

\* prvStoreFilePrep puts the file into pxWriteHandle: the upload is under way.
LEMMA WriteFlow ==
  ASSUME SentInv, OwnedInv', SetWrite
  PROVE  FlowInv'
<1>0. StackInv /\ Types /\ ArrivedInv /\ pxClient \in Client /\ talk \in Talk /\ 0 \notin Sock
      /\ (talk.calm => RequestInv /\ HandleInv /\ LinkInv /\ UploadInv)
  BY SentParts
<1>1. UNCHANGED <<sk, cmd, talk, uploaded>>
  BY Zenon DEF SetWrite, data
<1>2. /\ Socket' = Socket /\ pxClient'.bEmptyFile = pxClient.bEmptyFile
      /\ pxClient'.pxWriteHandle /\ pxClient'.pxReadHandle = pxClient.pxReadHandle
      /\ pxClient'.bHadError = pxClient.bHadError /\ pxClient'.bClientConnected = pxClient.bClientConnected
  BY <1>0 DEF SetWrite, Client, Socket
<1>3. Top = "setwrite" /\ Below \subseteq {"data", "recv", "stored"} /\ Pops
  BY <1>0, StoreMoves
<1>4. Top' \in {"data", "recv", "stored", "none"} /\ \A l \in EarlyCalls : ~On(l)'
  BY <1>3 DEF Pops, On, EarlyCalls
<1>5. ArrivedInv'
  <2>1. SameStreams
    BY <1>1 DEF SameStreams
  <2> QED BY <1>0, <1>2, <2>1, ArrivedSame DEF ArrivedInv
<1>6. ASSUME talk.calm PROVE RequestInv' /\ HandleInv' /\ LinkInv' /\ UploadInv'
  <2>1. RequestInv /\ HandleInv /\ LinkInv /\ UploadInv
    BY <1>0, <1>6
  <2>2. On("setwrite") /\ StorEarly /\ Early /\ Storing /\ ~Retrieving
    BY <1>3, <2>1 DEF On, Early, StorEarly, RequestInv, Storing, Retrieving
  <2>3. cmd \notin {"stor", "retr"}
    BY <2>1, <2>2 DEF RequestInv, EarlyCalls
  <2>4. ~StorEarly' /\ ~RetrEarly' /\ ~Early'
    BY <1>1, <1>4, <2>3 DEF Early, StorEarly, RetrEarly, EarlyCalls
  <2>5. Storing' /\ ~Retrieving' /\ Waiting'
    BY <1>1, <2>2 DEF Storing, Retrieving, Waiting
  <2>6. RequestInv'
    BY <1>1, <1>2, <1>4, <2>1, <2>4 DEF RequestInv
  <2>7. HandleInv'
    BY <1>2, <1>3, <1>4, <2>1, <2>2, <2>4, <2>5 DEF HandleInv
  <2>8. LinkInv'
    <3>1. St' = St
      BY <1>1, <1>2 DEF St
    <3> QED BY <1>2, <1>4, <2>1, <3>1 DEF LinkInv, Closes, Closers
  <2>9. UploadInv'
    <3>1. Cur' = Cur /\ uploaded = 0 /\ Cur.sent = Cur.rx /\ (Socket = 0 => Cur.rx = 0)
      BY <1>1, <2>1, <2>2 DEF Cur, UploadInv
    <3>2. Cur.rx \in Nat /\ talk'.reply = "none"
      <4>1. talk.cur \in Sock
        BY <2>2, SocketIs, <1>6, <2>1 DEF SentInv, Storing
      <4> QED BY <1>0, <1>1, <2>2, <4>1, SockFields DEF Cur, Storing, Waiting
    <3> QED BY <1>1, <1>2, <1>4, <2>4, <2>5, <3>1, <3>2 DEF UploadInv
  <2> QED BY <2>6, <2>7, <2>8, <2>9
<1> QED BY <1>1, <1>5, <1>6 DEF FlowInv

\* prvRetrieveFilePrep has opened the file: the download is under way.
LEMMA ReadyFlow ==
  ASSUME SentInv, OwnedInv', NEW size \in {0, FileSize}, RetrievePrep(size)
  PROVE  FlowInv'
<1>0. StackInv /\ Types /\ ArrivedInv /\ pxClient \in Client /\ talk \in Talk /\ 0 \notin Sock
      /\ sk \in [Sock -> Record] /\ Socket \in Sock \cup {0}
      /\ (talk.calm => RequestInv /\ HandleInv /\ LinkInv /\ UploadInv)
  BY SentParts
<1>1. cmd' = cmd
  BY Zenon DEF RetrievePrep
<1>2. /\ Socket' = Socket /\ pxClient'.bEmptyFile = pxClient.bEmptyFile
      /\ ~pxClient'.pxWriteHandle /\ pxClient'.pxReadHandle
      /\ pxClient'.bHadError = pxClient.bHadError /\ pxClient'.bClientConnected = pxClient.bClientConnected
  <2>1. pxClient' = [FileClosed EXCEPT !.ulRestartOffset = 0, !.uxBytesLeft = size,
                     !.pxReadHandle = TRUE, !.pcConnectionAck = pxClient.bIsListen]
    BY Zenon DEF RetrievePrep
  <2> QED BY <1>0, <2>1 DEF FileClosed, Client, Socket
<1>3. Top = "retrprep" /\ Below \subseteq {"data", "recv"} /\ Pops
  BY <1>0, RetrieveMoves
<1>4. Top' \in {"data", "recv", "none"} /\ \A l \in EarlyCalls : ~On(l)'
  BY <1>3 DEF Pops, On, EarlyCalls
<1>5. talk' = talk
  BY Zenon DEF RetrievePrep
<1>6. \A s \in Sock : /\ sk'[s].rx = sk[s].rx /\ sk'[s].sent = sk[s].sent
                      /\ sk'[s].st = sk[s].st \/ sk[s].st = "bound"
  <2>1. \/ sk' = [sk EXCEPT ![Socket].st = "connecting"] /\ St = "bound"
        \/ sk' = [sk EXCEPT ![Socket].st = "estab", ![Socket].fin = TRUE] /\ St = "bound"
        \/ sk' = [sk EXCEPT ![Socket].fin = TRUE]
        \/ sk' = sk
    BY Zenon DEF RetrievePrep
  <2>2. St = "bound" => Socket \in Sock /\ sk[Socket].st = "bound"
    BY <1>0 DEF St
  <2>3. CASE sk' = [sk EXCEPT ![Socket].st = "connecting"] /\ St = "bound"
    BY <1>0, <2>2, <2>3 DEF Record
  <2>4. CASE sk' = [sk EXCEPT ![Socket].fin = TRUE]
    BY <1>0, <2>4 DEF Record
  <2>5. CASE sk' = [sk EXCEPT ![Socket].st = "estab", ![Socket].fin = TRUE] /\ St = "bound"
    BY <1>0, <2>2, <2>5 DEF Record
  <2> QED BY <2>1, <2>3, <2>4, <2>5
<1>7. ArrivedInv'
  <2>1. SameStreams
    BY <1>6 DEF SameStreams
  <2> QED BY <1>0, <1>2, <2>1, ArrivedSame DEF ArrivedInv
<1>8. ASSUME talk.calm PROVE RequestInv' /\ HandleInv' /\ LinkInv' /\ UploadInv'
  <2>1. RequestInv /\ HandleInv /\ LinkInv /\ UploadInv
    BY <1>0, <1>8
  <2>2. On("retrprep") /\ RetrEarly /\ Early /\ ~Storing /\ Retrieving
    BY <1>3, <2>1 DEF On, Early, RetrEarly, RequestInv, Storing, Retrieving
  <2>3. cmd \notin {"stor", "retr"}
    BY <2>1, <2>2 DEF RequestInv, EarlyCalls
  <2>4. ~StorEarly' /\ ~RetrEarly' /\ ~Early'
    BY <1>1, <1>4, <2>3 DEF Early, StorEarly, RetrEarly, EarlyCalls
  <2>5. ~Storing' /\ Retrieving' /\ Waiting'
    BY <1>5, <2>2 DEF Storing, Retrieving, Waiting
  <2>6. RequestInv'
    BY <1>2, <1>4, <1>5, <2>1, <2>4 DEF RequestInv
  <2>7. HandleInv'
    BY <1>2, <1>4, <2>1, <2>2, <2>4, <2>5 DEF HandleInv
  <2>8. LinkInv'
    <3>1. St \in Alive => St' \in Alive
      BY <1>0, <1>2, <1>6 DEF St, Alive, Ended
    <3> QED BY <1>2, <1>4, <2>1, <3>1 DEF LinkInv, Closes, Closers
  <2>9. UploadInv'
    BY <2>2, <2>5 DEF UploadInv, Retrieving
  <2> QED BY <2>6, <2>7, <2>8, <2>9
<1> QED BY <1>5, <1>7, <1>8 DEF FlowInv

\* A new request of the peer.
LEMMA RequestFlow ==
  ASSUME SentInv, OwnedInv', NEW c \in {"pasv", "port", "retr", "stor"}, PeerCommand(c)
  PROVE  FlowInv'
<1>0. StackInv /\ Types /\ ArrivedInv /\ SockInv /\ talk \in Talk /\ 0 \notin Sock /\ sk \in [Sock -> Record]
      /\ talk.offer \in Sock \cup {0} /\ (talk.calm => RequestInv /\ HandleInv /\ LinkInv /\ UploadInv)
  BY SentParts, TalkFields
<1>1. UNCHANGED <<stack, xRc, pxClient, sk, uploaded, peer>> /\ cmd = "none" /\ cmd' = c
  BY DEF PeerCommand, data
<1>2. Top' = Top /\ Below' = Below /\ Socket' = Socket /\ St' = St /\ Rx' = Rx /\ (\A l : On(l)' <=> On(l))
  BY <1>1 DEF Top, Below, On, Socket, St, Rx
<1>3. \/ /\ c \in {"pasv", "port"} /\ talk'.op = "none" /\ talk'.offer = 0
         /\ (talk'.calm => talk.calm /\ ~Waiting)
      \/ /\ c \in {"retr", "stor"} /\ talk'.op = c /\ talk'.reply = "none" /\ talk'.cur = talk.offer
         /\ talk'.offer = 0 /\ talk.offer # 0 /\ talk'.calm = talk.calm /\ ~Waiting
  BY <1>0 DEF PeerCommand, Talk
<1>4. ArrivedInv'
  <2>1. SameStreams
    BY <1>1 DEF SameStreams
  <2> QED BY <1>0, <1>1, <1>2, <2>1, ArrivedSame DEF ArrivedInv
<1>5. ASSUME talk'.calm PROVE RequestInv' /\ HandleInv' /\ LinkInv' /\ UploadInv'
  <2>1. RequestInv /\ HandleInv /\ LinkInv /\ UploadInv /\ ~Waiting
    BY <1>0, <1>3, <1>5
  <2>2. ~Storing /\ ~Retrieving /\ ~StorEarly /\ ~RetrEarly
    BY <2>1 DEF Storing, Retrieving, RequestInv
  <2>3. \A l \in EarlyCalls : ~On(l)'
    BY <1>2, <2>2 DEF StorEarly, RetrEarly, EarlyCalls
  <2>4. /\ StorEarly' <=> c = "stor"
        /\ RetrEarly' <=> c = "retr"
    BY <1>1, <2>3 DEF StorEarly, RetrEarly, EarlyCalls
  <2>5. /\ Storing' => c = "stor" /\ Early'
        /\ Retrieving' => c = "retr" /\ Early'
        /\ c = "stor" => Storing'
        /\ c = "retr" => Retrieving'
    BY <1>3, <2>4 DEF Storing, Retrieving, Waiting, Early
  <2>6. RequestInv'
    BY <1>2, <1>3, <2>1, <2>3, <2>4, <2>5 DEF RequestInv
  <2>7. HandleInv'
    BY <1>1, <1>2, <2>1, <2>2, <2>5 DEF HandleInv, Storing
  <2>8. LinkInv'
    <3>1. Closes' <=> Closes
      BY <1>1, <1>2 DEF Closes
    <3> QED BY <1>1, <1>2, <2>1, <2>2, <3>1 DEF LinkInv
  <2>9. UploadInv'
    <3>1. ASSUME c = "stor" PROVE Cur'.sent = 0 /\ Cur'.rx = 0 /\ talk'.reply = "none"
      <4>1. talk.offer \in Sock /\ sk[talk.offer].sent = 0 /\ Cur' = sk[talk.offer] /\ talk'.reply = "none"
        BY <1>0, <1>1, <1>3, <3>1 DEF SockInv, Cur
      <4>2. sk[talk.offer].rx = 0
        BY <1>0, <4>1, SockFields DEF ArrivedInv
      <4> QED BY <4>1, <4>2
    <3>2. c # "stor" => talk'.op # "stor"
      BY <1>3
    <3>3. ~On("setwrite")'
      BY <2>3 DEF EarlyCalls
    <3> QED BY <2>5, <3>1, <3>2, <3>3 DEF UploadInv
  <2> QED BY <2>6, <2>7, <2>8, <2>9
<1> QED BY <1>4, <1>5 DEF FlowInv

-----------------------------------------------------------------------------
(* Every step of an upload *)

\* The final reply, and the closing of the socket: all that arrived is written.
LEMMA ClosingFlow ==
  ASSUME SentInv, OwnedInv', Closing
  PROVE  FlowInv'
<1>0. StackInv /\ Types /\ ArrivedInv /\ SockInv /\ CallInv /\ AdjacentInv /\ pxClient \in Client /\ talk \in Talk
      /\ 0 \notin Sock /\ sk \in [Sock -> Record] /\ Socket \in Sock \cup {0}
      /\ talk.cur \in Sock \cup {0} /\ OwnedInv
      /\ (talk.calm => RequestInv /\ HandleInv /\ LinkInv /\ UploadInv)
  BY SentParts, TalkFields
<1>1. UNCHANGED <<cmd, uploaded, peer>>
  BY Zenon DEF Closing, data
<1>2. /\ Socket' = 0
      /\ pxClient'.pxWriteHandle = pxClient.pxWriteHandle /\ pxClient'.pxReadHandle = pxClient.pxReadHandle
      /\ ~pxClient'.bHadError /\ ~pxClient'.bClientConnected
  BY <1>0 DEF Closing, FlagsReset, Client, Socket
<1>3. /\ talk'.op = talk.op /\ talk'.cur = talk.cur /\ talk'.offer = talk.offer /\ talk'.calm = talk.calm
      /\ talk'.reply = IF ~Finished THEN talk.reply ELSE IF pxClient.bHadError THEN "451" ELSE "226"
  BY <1>0 DEF Closing, Replies, Talk
<1>4. \A s \in Sock : /\ sk'[s].rx = sk[s].rx /\ sk'[s].sent = sk[s].sent
                      /\ sk'[s].st = IF s = Socket THEN "freed" ELSE sk[s].st
  BY <1>0 DEF Closing, Record
<1>5. Top = "closing" /\ Pops /\ stack # <<>> /\ Calls(<<>>)
  <2>1. Top = "closing" /\ Pops
    BY <1>0, CloseMoves
  <2> QED BY <2>1 DEF Top, Closing, Returns
<1>6. Top' \in {"closefile", "listen", "bind"}
  BY <1>0, <1>5, PopAdjacent DEF AdjacentInv, Closers
<1>7. \A l \in EarlyCalls : On(l)' <=> On(l)
  <2>1. Top \notin EarlyCalls
    BY <1>5 DEF EarlyCalls
  <2> QED BY <1>0, <1>5, <2>1, EarlyKept
<1>8. (StorEarly' <=> StorEarly) /\ (RetrEarly' <=> RetrEarly) /\ (Early' <=> Early)
  BY <1>1, <1>7 DEF StorEarly, RetrEarly, EarlyCalls, Early
<1>9. ArrivedInv'
  <2>1. SameStreams
    BY <1>4 DEF SameStreams
  <2> QED BY <1>0, <1>2, <2>1, ArrivedSame
<1>10. ASSUME talk.calm PROVE RequestInv' /\ HandleInv' /\ LinkInv' /\ UploadInv'
  <2>1. RequestInv /\ HandleInv /\ LinkInv /\ UploadInv
    BY <1>0, <1>10
  <2>2. /\ Waiting => talk.cur \in Sock /\ (Socket = 0 => Cur.st = "freed") /\ (Socket # 0 => Socket = talk.cur)
        /\ Waiting => ~On("listen") /\ ~On("bind")
    BY <1>0, <1>10, <2>1, SocketIs
  <2>3. Waiting => Top' = "closefile"
    BY <1>5, <1>6, <2>2 DEF Pops, On
  <2>4. LinkInv'
    BY <1>2, <1>6 DEF LinkInv, Closes, Closers
  <2>5. talk.cur \in Sock => Cur'.rx = Cur.rx /\ Cur'.sent = Cur.sent
    BY <1>3, <1>4 DEF Cur
  <2>6. CASE Finished
    <3>1. /\ pxClient.pxWriteHandle => Storing /\ ~Early
          /\ pxClient.pxReadHandle => Retrieving /\ ~Early
      BY <1>5, <2>1 DEF HandleInv
    <3>2. Waiting /\ ~Early /\ ~StorEarly /\ ~RetrEarly
      BY <2>6, <3>1 DEF Finished, Storing, Retrieving, Early
    <3>3. ~Waiting' /\ ~Storing' /\ ~Retrieving' /\ Top' = "closefile"
      BY <1>3, <2>3, <2>6, <3>2 DEF Waiting, Storing, Retrieving
    <3>4. RequestInv'
      BY <1>1, <1>2, <1>3, <1>7, <1>8, <2>1, <3>2 DEF RequestInv
    <3>5. HandleInv'
      BY <1>2, <3>3 DEF HandleInv
    <3>6. ASSUME talk'.op = "stor", talk'.reply = "226" PROVE uploaded' = Cur'.sent /\ Cur'.st = "freed"
      <4>1. ~pxClient.bHadError /\ Storing
        BY <1>3, <2>6, <3>2, <3>6 DEF Storing
      <4>2. uploaded + Cur.rx = Cur.sent /\ Cur.rx = 0
        BY <1>5, <2>1, <3>2, <4>1 DEF UploadInv
      <4>3. talk.cur \in Sock /\ uploaded \in Nat /\ Cur.sent \in Nat
        BY <1>0, <2>2, <3>2, SockFields DEF Cur, Types
      <4>4. uploaded = Cur.sent
        BY <4>2, <4>3
      <4>5. Cur'.st = "freed"
        BY <1>3, <1>4, <2>2, <3>2, <4>3 DEF Cur
      <4> QED BY <1>1, <2>5, <4>3, <4>4, <4>5
    <3>7. UploadInv'
      BY <3>3, <3>6 DEF UploadInv
    <3> QED BY <2>4, <3>4, <3>5, <3>7
  <2>7. CASE ~Finished
    <3>1. (Waiting' <=> Waiting) /\ (Storing' <=> Storing) /\ (Retrieving' <=> Retrieving)
      BY <1>3, <2>7 DEF Waiting, Storing, Retrieving
    <3>2. ~pxClient.pxWriteHandle /\ ~pxClient.pxReadHandle
      BY <2>7 DEF Finished
    <3>3. Storing => Early
      BY <1>5, <2>1, <3>2 DEF HandleInv
    <3>4. RequestInv'
      BY <1>1, <1>2, <1>3, <1>7, <1>8, <2>1, <3>1 DEF RequestInv
    <3>5. HandleInv'
      BY <1>2, <1>6, <1>8, <3>1, <3>2, <3>3 DEF HandleInv
    <3>6. ASSUME Storing
          PROVE  Cur'.sent = Cur'.rx /\ Cur'.rx = 0 /\ (On("setwrite")' => uploaded' = 0)
      <4>1. ~pxClient.bHadError /\ Early
        BY <2>1, <3>3, <3>6 DEF HandleInv
      <4>2. Cur.sent = Cur.rx /\ (On("setwrite") => uploaded = 0) /\ Cur.rx = 0
        BY <1>5, <2>1, <3>6, <4>1 DEF UploadInv
      <4>3. On("setwrite")' => On("setwrite")
        BY <1>7 DEF EarlyCalls
      <4> QED BY <1>1, <2>2, <2>5, <3>6, <4>2, <4>3 DEF Storing
    <3>7. ASSUME talk'.op = "stor", talk'.reply = "226" PROVE uploaded' = Cur'.sent /\ Cur'.st = "freed"
      <4>1. uploaded = Cur.sent /\ Cur.st = "freed"
        BY <1>3, <2>1, <2>7, <3>7 DEF UploadInv
      <4>2. talk.cur \in Sock
        BY <1>0, <1>3, <3>7 DEF SockInv
      <4> QED BY <1>1, <1>3, <1>4, <2>5, <4>1, <4>2 DEF Cur
    <3>8. UploadInv'
      BY <1>6, <1>8, <3>1, <3>3, <3>6, <3>7 DEF UploadInv
    <3> QED BY <2>4, <3>4, <3>5, <3>8
  <2> QED BY <2>6, <2>7
<1> QED BY <1>3, <1>9, <1>10 DEF FlowInv

\* The invariant of the uploads holds when the session begins.
LEMMA SentInit == Init => SentInv
<1> SUFFICES ASSUME Init PROVE SentInv
  OBVIOUS
<1>1. OwnedInv
  BY OwnedInit
<1>2. stack = <<"recv">> /\ cmd = "none"
  BY DEF Init
<1>3. Top = "recv" /\ Below = {} /\ (\A l \in EarlyCalls : ~On(l)) /\ ~On("setwrite")
  BY <1>2 DEF Top, Below, On, EarlyCalls
<1>4. AdjacentInv
  BY <1>2, <1>3 DEF AdjacentInv, Adjacent, Closers
<1>5. Socket = 0 /\ (\A s \in Sock : sk[s].rx = 0 /\ sk[s].sent = 0) /\ talk.op = "none" /\ talk.offer = 0
      /\ ~pxClient.bEmptyFile /\ ~pxClient.pxWriteHandle /\ ~pxClient.pxReadHandle /\ ~pxClient.bHadError
      /\ ~pxClient.bClientConnected
  BY DEF Init, Socket
<1>6. ArrivedInv
  BY <1>5 DEF ArrivedInv
<1>7. ~StorEarly /\ ~RetrEarly /\ ~Storing /\ ~Retrieving
  BY <1>2, <1>3, <1>5 DEF StorEarly, RetrEarly, EarlyCalls, Storing, Retrieving, Waiting
<1>8. RequestInv
  BY <1>3, <1>5, <1>7 DEF RequestInv
<1>9. HandleInv
  BY <1>3, <1>5, <1>7 DEF HandleInv
<1>10. LinkInv
  BY <1>3, <1>5 DEF LinkInv, Closes, Closers
<1>11. UploadInv
  BY <1>5, <1>7 DEF UploadInv
<1> QED BY <1>1, <1>4, <1>6, <1>8, <1>9, <1>10, <1>11 DEF SentInv, FlowInv

\* Every step keeps it.
LEMMA SentStep == SentInv /\ [Next]_vars => SentInv'
<1> SUFFICES ASSUME SentInv, [Next]_vars PROVE SentInv'
  OBVIOUS
<1>1. OwnedInv' /\ BaseInv /\ BaseInv'
  BY OwnedStep DEF SentInv, OwnedInv
<1>2. AdjacentInv'
  BY <1>1, AdjacentStep DEF SentInv
<1>3. CASE Server
  <2> SUFFICES FlowInv'
    BY <1>1, <1>2 DEF SentInv
  <2>1. CASE Recv \/ Transfer("retr", <<"retrprep">>) \/ Transfer("stor", <<"storprep">>)
    BY <1>1, <2>1, ReadFlow, FlowSteady
  <2>2. CASE Data \/ Work \/ Worked \/ Delete
    BY <1>1, <2>2, LoopFlow, FlowSteady
  <2>3. CASE Pasv \/ Port \/ Size \/ Stored
    BY <1>1, <2>3, CommandFlow, FlowSteady
  <2>4. CASE Check \/ Drained \/ Close \/ Close2
    BY <1>1, <2>4, CloseFlow, FlowSteady
  <2>5. CASE StoreFileWorked \/ RetrieveWaits \/ AllSent \/ RetrieveAllSent
    BY <1>1, <2>5, WorkedFlow, FlowSteady
  <2>6. CASE PortNoSocket \/ Rest \/ Accept("accept") \/ Accept("acceptrx") \/ Ack \/ CloseFile
    BY <1>1, <2>6, FlagFlow, FlowSteady
  <2>7. CASE StorePrep \/ StoreFileWork
    BY <1>1, <2>7, StoreFlow, FlowSteady
  <2>8. CASE RetrieveShort \/ RetrieveSends \/ RetrieveFails
    BY <1>1, <2>8, RetrieveFlow, FlowSteady
  <2>9. CASE \E b \in BOOLEAN : TransferConnect(b)
    BY <1>1, <2>9, ConnectFlow
  <2>10. CASE (\E l \in {"retr", "stor"} : NoDataConnection(l)) \/ StorePrepFails \/ RetrievePrepFails
    BY <1>1, <2>10, RefuseFlow
  <2>11. CASE \E size \in {0, FileSize} : RetrievePrep(size)
    BY <1>1, <2>11, ReadyFlow
  <2>12. CASE SetWrite \/ Closing
    BY <1>1, <2>12, WriteFlow, ClosingFlow
  <2> QED BY <1>3, <2>1, <2>2, <2>3, <2>4, <2>5, <2>6, <2>7, <2>8, <2>9, <2>10, <2>11, <2>12, Zenon DEF Server
<1>4. CASE Peer \/ UNCHANGED vars
  <2>1. \/ PeerLeaves \/ PeerCommand("rest") \/ PeerCommand("size") \/ UNCHANGED vars
        \/ \E c \in {"pasv", "port", "retr", "stor"} : PeerCommand(c)
    BY <1>4 DEF Peer, Commands
  <2>2. FlowInv'
    BY <1>1, <2>1, PeerStays, FlowSteady, RequestFlow
  <2> QED BY <1>1, <1>2, <2>2 DEF SentInv
<1>5. CASE \E s \in Sock : Net(s)
  <2>1. FlowInv'
    BY <1>1, <1>5, NetFlow, FlowSteady
  <2> QED BY <1>1, <1>2, <2>1 DEF SentInv
<1> QED BY <1>3, <1>4, <1>5 DEF Next

\* The request, the handles, the connection and the bytes of an upload, whatever the
\* order in which its data, its end and the command arrive.
THEOREM AlwaysSent == Spec => []SentInv
  BY SentInit, SentStep, PTL DEF Spec

\* A patient peer whose STOR is answered by 226 (prvTransferCloseSocket after
\* prvStoreFileWork has found the end of the connection) has ended the connection, and
\* the file holds every byte that it sent.
THEOREM StoredAlwaysSent == Spec => []StoredIsSent
<1>1. SentInv => StoredIsSent
  <2> SUFFICES ASSUME SentInv, talk.calm, talk.op = "stor", talk.reply = "226"
               PROVE  uploaded = sk[talk.cur].sent /\ sk[talk.cur].st # "estab"
    BY DEF StoredIsSent
  <2>1. UploadInv
    BY DEF SentInv, FlowInv
  <2> QED BY <2>1 DEF UploadInv, Cur
<1> QED BY <1>1, AlwaysSent, PTL

-----------------------------------------------------------------------------
(* The download: its connection and its bytes *)

\* A connection on which nothing has been sent to the peer.
Fresh(s) == sk[s].tx = 0 /\ sk[s].got = 0 /\ ~sk[s].fin
FreshInv == \A s \in Sock : sk[s].st = "none" \/ s = talk.offer => Fresh(s)
KindInv  == (St = "bound" => ~pxClient.bIsListen) /\ (St = "listen" => pxClient.bIsListen)

\* What the peer has, what is in the stream and what is left make the file ...
Whole == talk.rest = 0 =>
  /\ Cur.got + Cur.tx + pxClient.uxBytesLeft = file.size
  /\ file.unread = pxClient.uxBytesLeft

\* ... and the connection ends after the last block only, when all has been read.
BytesInv ==
  /\ Cur.st \in Ended => Cur.fin /\ Cur.tx = 0
  /\ ~Early => (Cur.fin => pxClient.uxBytesLeft = 0) /\ Whole

\* Nothing is sent before the connection is there.
StartedInv ==
  /\ pxClient.pxReadHandle /\ Top # "closefile" /\ Cur.st # "bound"
  /\ Cur.st = "listen" => pxClient.pcConnectionAck /\ Top # "retrieve"

\* A download that was restarted may end before its connection, for the end of the file.
DownloadInv == Retrieving =>
  /\ Socket = talk.cur
  /\ Closes => Cur.st \in Ended \/ (~Early /\ talk.rest # 0)
  /\ Early => Fresh(talk.cur)
  /\ ~Early => StartedInv
  /\ BytesInv

AnsweredInv == talk.op = "retr" /\ talk.reply = "226" /\ talk.rest = 0 =>
  Cur.got = file.size /\ Cur.st = "freed"

\* An offset is set only where REST asked for one, or a refused transfer may have left
\* one: for the transfer being prepared, or for the next one.
OffsetInv ==
  /\ Early => talk.asked = 0 /\ (talk.rest = 0 => pxClient.ulRestartOffset = 0)
  /\ ~Early /\ talk.asked = 0 => pxClient.ulRestartOffset = 0
  /\ On("setwrite") => pxClient.ulRestartOffset = 0

RestartInv == talk.calm => OffsetInv
GotInv     == talk.calm => FreshInv /\ KindInv /\ DownloadInv /\ AnsweredInv
WholeInv   == SentInv /\ RestartInv /\ GotInv

\* What is known of a download under way.
LEMMA DownloadIs ==
  ASSUME SentInv, GotInv, talk.calm, Retrieving
  PROVE  /\ talk.cur \in Sock /\ Socket = talk.cur /\ St = Cur.st /\ Rx = Cur.rx /\ talk.offer = 0 /\ peer
         /\ talk.op = "retr" /\ talk.reply = "none" /\ ~Storing /\ ~StorEarly /\ ~pxClient.bHadError
         /\ ~pxClient.pxWriteHandle \/ Top = "closefile"
         /\ Top \notin {"store", "close2"} /\ ~On("listen") /\ ~On("bind")
         /\ Top \in {"retrieve", "allsent"} => ~Early
         /\ Cur \in Record /\ Cur.st \in {"bound", "listen", "connecting", "estab", "lastack", "closed"}
<1>0. /\ Types /\ SockInv /\ OwnedInv /\ RequestInv /\ HandleInv /\ sk \in [Sock -> Record] /\ 0 \notin Sock
      /\ DownloadInv
  BY SentParts DEF GotInv
<1>1. talk.op = "retr" /\ talk.reply = "none" /\ Waiting /\ ~Storing
  BY DEF Retrieving, Waiting, Storing
<1>2. talk.cur \in Sock /\ peer /\ ~On("listen") /\ ~On("bind")
  BY <1>0, <1>1, SocketIs
<1>3. Socket = talk.cur /\ Socket # 0
  BY <1>0, <1>2 DEF DownloadInv
<1>4. St = Cur.st /\ Rx = Cur.rx
  BY <1>3 DEF St, Rx, Cur
<1>5. Cur \in Record /\ Cur.st \in {"bound", "listen", "connecting", "estab", "lastack", "closed"}
  <2>1. Cur \in Record /\ Cur.st \in {"none", "bound", "listen", "connecting", "estab", "lastack", "closed", "freed"}
    BY <1>0, <1>2, SockFields DEF Cur
  <2> QED BY <1>0, <1>3, <1>4, <2>1 DEF SockInv
<1>6. talk.offer = 0 /\ ~StorEarly
  BY <1>0, <1>1 DEF RequestInv
<1>7. /\ ~pxClient.bHadError /\ Top \notin {"store", "close2"}
      /\ ~pxClient.pxWriteHandle \/ Top = "closefile"
      /\ Top \in {"retrieve", "allsent"} => ~Early
  BY <1>0, <1>1 DEF HandleInv
<1> QED BY <1>1, <1>2, <1>3, <1>4, <1>5, <1>6, <1>7

\* A step within a download: it is not closed before the connection has ended.
LEMMA DownloadSteady ==
  ASSUME SentInv, SentInv', GotInv, SteadyCall, talk'.calm
  PROVE  /\ talk.calm /\ (Retrieving' <=> Retrieving) /\ (Early' <=> Early)
         /\ talk'.cur = talk.cur /\ talk'.op = talk.op /\ talk'.reply = talk.reply /\ talk'.offer = talk.offer
         /\ Socket' = Socket
         /\ Retrieving /\ Closes' => Cur'.st \in Ended \/ (~Early /\ talk.rest # 0)
         /\ Retrieving /\ ~Early => /\ pxClient'.pxReadHandle /\ Top' # "closefile"
                                    /\ Top' = "retrieve" => Top = "retrieve" \/ ~pxClient.pcConnectionAck
<1>0. SameTalk /\ SameFlags /\ SameSocks /\ SameEarly /\ SameCalls /\ talk.calm /\ SameRequest
  BY DEF SteadyCall, SameData, SameTalk, SameRequest
<1>1. RequestInv /\ HandleInv /\ LinkInv /\ 0 \notin Sock /\ DownloadInv
  BY <1>0, SentParts DEF GotInv
<1>2. HandleInv'
  BY DEF SentInv, FlowInv
<1>3. (Retrieving' <=> Retrieving) /\ (Storing' <=> Storing) /\ (Early' <=> Early)
  BY <1>0, <1>1, RequestSteady
<1>4. /\ talk'.cur = talk.cur /\ talk'.op = talk.op /\ talk'.reply = talk.reply /\ talk'.offer = talk.offer
      /\ Socket' = Socket
  BY <1>0 DEF SameTalk
<1>5. ASSUME Retrieving PROVE
        /\ talk.cur \in Sock /\ Socket = talk.cur /\ St = Cur.st /\ peer /\ talk.op = "retr"
        /\ ~Storing /\ ~StorEarly /\ Top \notin {"store", "close2"} /\ ~On("listen") /\ ~On("bind")
        /\ Top \in {"retrieve", "allsent"} => ~Early
        /\ Cur.st \in {"bound", "listen", "connecting", "estab", "lastack", "closed"}
  BY <1>0, <1>5, DownloadIs
<1>6. ASSUME Retrieving, Closes' PROVE Cur'.st \in Ended \/ (~Early /\ talk.rest # 0)
  <2>1. Top' \notin {"store", "close2"} /\ ~pxClient'.bHadError
    BY <1>2, <1>3, <1>5, <1>6 DEF HandleInv
  <2>2. Cur.st \in Ended => Cur'.st \in Ended
    BY <1>0, <1>4, <1>5, <1>6 DEF SameSocks, Cur
  <2>3. CASE Closes
    BY <1>1, <1>6, <2>2, <2>3 DEF DownloadInv
  <2>4. CASE ~Closes
    <3>1. Top \notin Closers /\ ~(Top = "worked" /\ xRc = -1)
      BY <2>4 DEF Closes
    <3>2. CASE Top' = "close"
      <4>1. Top = "drained"
        BY <1>0, <1>1, <1>5, <1>6, <3>1, <3>2 DEF SameCalls, Closers
      <4> QED BY <1>1, <1>5, <1>6, <2>2, <4>1 DEF LinkInv
    <3>3. Top' # "closing"
      BY <1>0, <3>1 DEF SameCalls, Closers
    <3>4. CASE Top' = "worked" /\ xRc' = -1
      <4>1. \/ Top = "retrieve" /\ (St \notin {"connecting", "estab"} \/ file.unread < Count)
            \/ Top = "allsent" /\ St = "closed"
            \/ St \in {"none", "closed"}
        BY <1>0, <2>1, <3>1, <3>4 DEF SameCalls
      <4>2. Top = "retrieve" => Cur.st \notin {"bound", "listen"}
        BY <1>1, <1>5, <1>6 DEF DownloadInv, StartedInv
      <4>3. CASE Cur.st \in Ended
        BY <2>2, <4>3
      <4>4. CASE Top = "retrieve" /\ file.unread < Count
        <5>1. ~Early /\ BytesInv
          BY <1>1, <1>5, <1>6, <4>4 DEF DownloadInv
        <5>2. Count <= pxClient.uxBytesLeft /\ Count \in Int /\ pxClient.uxBytesLeft \in Int /\ file.unread \in Int
          BY <1>1, <1>5, <1>6, SentParts, CountType, UnreadType, ClientFields, ConstantsAre
        <5> QED BY <4>4, <5>1, <5>2 DEF BytesInv, Whole
      <4> QED BY <1>5, <1>6, <4>1, <4>2, <4>3, <4>4 DEF Ended
    <3> QED BY <1>6, <2>1, <3>2, <3>3, <3>4 DEF Closes, Closers
  <2> QED BY <2>3, <2>4
<1>7. ASSUME Retrieving, ~Early PROVE
        /\ pxClient'.pxReadHandle /\ Top' # "closefile"
        /\ Top' = "retrieve" => Top = "retrieve" \/ ~pxClient.pcConnectionAck
  <2>1. pxClient.pxReadHandle /\ Top # "closefile"
    BY <1>1, <1>7 DEF DownloadInv, StartedInv
  <2>2. Top # "storprep"
    BY <1>5, <1>7 DEF StorEarly, On
  <2>3. pxClient'.pxReadHandle
    BY <1>0, <2>1, <2>2 DEF SameFlags
  <2>4. Top' # "closefile"
    BY <1>0, <1>5, <1>7, <2>1 DEF SameCalls
  <2>5. Top' = "retrieve" => Top = "retrieve" \/ ~pxClient.pcConnectionAck
    BY <1>0 DEF SameCalls
  <2> QED BY <2>3, <2>4, <2>5
<1> QED BY <1>0, <1>3, <1>4, <1>6, <1>7

\* What a step within a transfer leaves: the file, the kind of the socket, and
\* what the peer has of a connection that is over.
SameKind ==
  /\ file'.size = file.size /\ talk'.rest = talk.rest /\ pxClient'.bIsListen = pxClient.bIsListen
  /\ pxClient.pcConnectionAck => pxClient'.pcConnectionAck \/ Top \in {"ack", "storprep"}
  /\ \A s \in Sock : /\ sk'[s].st \in {"none", "bound", "listen"} => sk'[s].st = sk[s].st
                     /\ sk[s].st = "freed" => sk'[s].got = sk[s].got

\* A steady step that leaves the file and the kind of the socket alone keeps what is
\* said of a download, if its bytes are still accounted for.
LEMMA GotSteady ==
  ASSUME SentInv, SentInv', GotInv, SteadyCall, SameKind, talk'.calm,
         \A s \in Sock : /\ Fresh(s)
                         /\ sk[s].st = "none" \/ s = talk.offer \/ (s = talk.cur /\ Retrieving /\ Early)
                         => Fresh(s)',
         Retrieving => BytesInv'
  PROVE  GotInv'
<1>0. /\ talk.calm /\ (Retrieving' <=> Retrieving) /\ (Early' <=> Early)
      /\ talk'.cur = talk.cur /\ talk'.op = talk.op /\ talk'.reply = talk.reply /\ talk'.offer = talk.offer
      /\ Socket' = Socket
      /\ Retrieving /\ Closes' => Cur'.st \in Ended \/ (~Early /\ talk.rest # 0)
      /\ Retrieving /\ ~Early => /\ pxClient'.pxReadHandle /\ Top' # "closefile"
                                 /\ Top' = "retrieve" => Top = "retrieve" \/ ~pxClient.pcConnectionAck
  BY DownloadSteady
<1>1. FreshInv /\ KindInv /\ DownloadInv /\ AnsweredInv /\ SockInv /\ Socket \in Sock \cup {0} /\ 0 \notin Sock
      /\ talk.cur \in Sock \cup {0} /\ LinkInv
  BY <1>0, SentParts, TalkFields DEF GotInv
<1>2. FreshInv'
  <2> SUFFICES ASSUME NEW s \in Sock, sk'[s].st = "none" \/ s = talk'.offer PROVE Fresh(s)'
    BY DEF FreshInv
  <2>1. sk[s].st = "none" \/ s = talk.offer
    BY <1>0 DEF SameKind
  <2>2. Fresh(s)
    BY <1>1, <2>1 DEF FreshInv
  <2> QED BY <2>1, <2>2
<1>3. KindInv'
  <2>1. St' \in {"bound", "listen"} => St' = St
    BY <1>0, <1>1 DEF St, SameKind
  <2> QED BY <1>1, <2>1 DEF KindInv, SameKind
<1>4. AnsweredInv'
  <2> SUFFICES ASSUME talk'.op = "retr", talk'.reply = "226", talk'.rest = 0
               PROVE  Cur'.got = file'.size /\ Cur'.st = "freed"
    BY DEF AnsweredInv
  <2>1. Cur.got = file.size /\ Cur.st = "freed" /\ talk.cur \in Sock
    BY <1>0, <1>1 DEF AnsweredInv, SameKind, SockInv
  <2>2. Cur'.got = Cur.got
    BY <1>0, <2>1 DEF SameKind, Cur
  <2>3. Cur'.st = "freed"
    BY <1>0, <2>1 DEF SteadyCall, SameData, SameSocks, Cur
  <2> QED BY <2>1, <2>2, <2>3 DEF SameKind
<1>5. ASSUME Retrieving PROVE
        Socket' = talk'.cur /\ (Early' => Fresh(talk.cur)') /\ (~Early' => StartedInv')
  <2>1. /\ talk.cur \in Sock /\ St = Cur.st /\ ~StorEarly
        /\ Socket = talk.cur /\ (Early => Fresh(talk.cur)) /\ (~Early => StartedInv)
    BY <1>0, <1>1, <1>5, DownloadIs DEF DownloadInv
  <2>2. Early' => Fresh(talk.cur)'
    BY <1>0, <1>5, <2>1
  <2>3. ASSUME ~Early PROVE StartedInv'
    <3>1. StartedInv
      BY <2>1, <2>3
    <3>2. Cur'.st \in {"bound", "listen"} => Cur'.st = Cur.st
      BY <1>0, <2>1 DEF SameKind, Cur
    <3>3. Cur.st = "listen" => Top \notin {"ack", "storprep"}
      <4>1. Top # "storprep"
        BY <2>1 DEF StorEarly, On
      <4> QED BY <1>1, <2>1, <4>1 DEF LinkInv, Alive, Ended
    <3> QED BY <1>0, <1>5, <2>3, <3>1, <3>2, <3>3 DEF StartedInv, SameKind
  <2> QED BY <1>0, <2>1, <2>2, <2>3
<1>6. DownloadInv'
  BY <1>0, <1>5 DEF DownloadInv, SameKind
<1> QED BY <1>2, <1>3, <1>4, <1>6 DEF GotInv

\* A step that leaves the download's streams alone.
Still ==
  /\ file' = file /\ talk'.rest = talk.rest
  /\ pxClient'.bIsListen = pxClient.bIsListen /\ pxClient'.uxBytesLeft = pxClient.uxBytesLeft
  /\ pxClient.pcConnectionAck => pxClient'.pcConnectionAck \/ Top \in {"ack", "storprep"}
  /\ \A s \in Sock : /\ sk'[s].tx = sk[s].tx /\ sk'[s].got = sk[s].got /\ sk'[s].fin = sk[s].fin
                     /\ sk'[s].st = sk[s].st \/ sk'[s].st \in {"connecting", "estab"}

\* A step that leaves the download's streams alone keeps what is said of it.
LEMMA StillSteady ==
  ASSUME SentInv, SentInv', GotInv, SteadyCall, Still
  PROVE  GotInv'
<1> SUFFICES ASSUME talk'.calm PROVE GotInv'
  BY DEF GotInv
<1>1. SameKind
  BY DEF SameKind, Still
<1>2. \A s \in Sock : Fresh(s) => Fresh(s)'
  BY DEF Still, Fresh
<1>3. ASSUME Retrieving PROVE BytesInv'
  <2>1. talk.calm /\ (Early' <=> Early) /\ talk'.cur = talk.cur
    BY DownloadSteady
  <2>2. talk.cur \in Sock /\ BytesInv
    BY <1>3, <2>1, DownloadIs DEF GotInv, DownloadInv
  <2>3. /\ Cur'.tx = Cur.tx /\ Cur'.got = Cur.got /\ Cur'.fin = Cur.fin
        /\ Cur'.st = Cur.st \/ Cur'.st \in {"connecting", "estab"}
    BY <2>1, <2>2 DEF Still, Cur
  <2>4. Whole => Whole'
    BY <2>3 DEF Whole, Still
  <2> QED BY <2>1, <2>2, <2>3, <2>4 DEF BytesInv, Still, Ended
<1> QED BY <1>1, <1>2, <1>3, GotSteady

\* The calls that are not about a download's data.
LEMMA CallStill ==
  ASSUME SentInv,
         \/ UNCHANGED <<sk, pxClient, file, talk>>
         \/ PortNoSocket \/ Rest \/ Accept("accept") \/ Accept("acceptrx") \/ Ack \/ CloseFile
         \/ StorePrep \/ StoreFileWork \/ PeerLeaves
  PROVE  Still
<1>0. StackInv /\ Types /\ pxClient \in Client /\ talk \in Talk /\ sk \in [Sock -> Record]
  BY SentParts
<1>1. CASE UNCHANGED <<sk, pxClient, file, talk>>
  BY <1>1 DEF Still
<1>2. CASE PortNoSocket \/ Rest \/ Accept("accept") \/ Accept("acceptrx") \/ CloseFile
  <2>1. UNCHANGED <<sk, file>> /\ talk'.rest = talk.rest
    <3>1. UNCHANGED <<sk, file>> /\ (Rest \/ talk' = talk)
      BY <1>2, Zenon DEF PortNoSocket, Rest, Accept, CloseFile, data
    <3> QED BY <1>0, <3>1, RestFields
  <2>2. /\ pxClient'.bIsListen = pxClient.bIsListen /\ pxClient'.uxBytesLeft = pxClient.uxBytesLeft
        /\ pxClient'.pcConnectionAck = pxClient.pcConnectionAck
    <3>1. CASE PortNoSocket \/ CloseFile
      BY <1>0, <3>1 DEF PortNoSocket, CloseFile, FileClosed, Client
    <3>2. CASE Rest
      BY <1>0, <3>2 DEF Rest, Client
    <3>3. CASE Accept("accept") \/ Accept("acceptrx")
      BY <1>0, <3>3 DEF Accept, Client
    <3> QED BY <1>2, <3>1, <3>2, <3>3
  <2> QED BY <2>1, <2>2 DEF Still
<1>3. CASE Ack
  <2>1. UNCHANGED <<sk, file, talk>> /\ Top = "ack"
    BY <1>0, <1>3, CheckMoves DEF Ack, data
  <2>2. pxClient'.bIsListen = pxClient.bIsListen /\ pxClient'.uxBytesLeft = pxClient.uxBytesLeft
    BY <1>0, <1>3 DEF Ack, Client
  <2> QED BY <2>1, <2>2 DEF Still
<1>4. CASE StorePrep
  <2>1. UNCHANGED <<file, talk>> /\ Top = "storprep" /\ (UNCHANGED sk \/ Starts)
    BY <1>0, <1>4, StoreMoves DEF StorePrep
  <2>2. pxClient'.bIsListen = pxClient.bIsListen /\ pxClient'.uxBytesLeft = pxClient.uxBytesLeft
    BY <1>0, <1>4 DEF StorePrep, FileClosed, Client
  <2>3. Socket \in Sock \cup {0} /\ 0 \notin Sock
    BY SentParts
  <2>4. \A s \in Sock : /\ sk'[s].tx = sk[s].tx /\ sk'[s].got = sk[s].got /\ sk'[s].fin = sk[s].fin
                        /\ sk'[s].st = sk[s].st \/ sk'[s].st = "connecting"
    <3>1. CASE UNCHANGED sk
      BY <3>1
    <3>2. CASE Starts
      BY <1>0, <2>3, <3>2 DEF Starts, St, Record
    <3> QED BY <2>1, <3>1, <3>2
  <2> QED BY <2>1, <2>2, <2>4 DEF Still
<1>5. CASE StoreFileWork
  <2>1. UNCHANGED <<file, talk>> /\ sk' = [sk EXCEPT ![Socket].rx = 0]
    BY <1>5, Zenon DEF StoreFileWork
  <2>2. /\ pxClient'.bIsListen = pxClient.bIsListen /\ pxClient'.uxBytesLeft = pxClient.uxBytesLeft
        /\ pxClient'.pcConnectionAck = pxClient.pcConnectionAck
    <3>1. \/ pxClient' = [pxClient EXCEPT !.ulRecvBytes = @ + Rx]
          \/ pxClient' = [pxClient EXCEPT !.ulRecvBytes = @ + Rx, !.bHadError = TRUE]
      BY <1>5, Zenon DEF StoreFileWork
    <3> QED BY <1>0, <3>1 DEF Client
  <2>3. \A s \in Sock : /\ sk'[s].tx = sk[s].tx /\ sk'[s].got = sk[s].got /\ sk'[s].fin = sk[s].fin
                        /\ sk'[s].st = sk[s].st
    BY <1>0, <2>1 DEF Record
  <2> QED BY <2>1, <2>2, <2>3 DEF Still
<1>6. CASE PeerLeaves
  BY <1>0, <1>6 DEF PeerLeaves, Still, data, Talk
<1> QED BY <1>1, <1>2, <1>3, <1>4, <1>5, <1>6

-----------------------------------------------------------------------------
(* The steps of a download *)

\* The work on a download: what is read is sent, and all of it before the end.
LEMMA RetrieveGot ==
  ASSUME SentInv, SentInv', GotInv, RetrieveShort \/ RetrieveSends \/ RetrieveFails
  PROVE  GotInv'
<1> SUFFICES ASSUME talk'.calm PROVE GotInv'
  BY DEF GotInv
<1>0. StackInv /\ Types /\ pxClient \in Client /\ talk \in Talk /\ sk \in [Sock -> Record] /\ BaseInv
  BY SentParts
<1>1. SteadyCall
  BY RetrieveFlow
<1>2. talk.calm /\ (Early' <=> Early) /\ talk'.cur = talk.cur
  BY <1>1, DownloadSteady
<1>3. Top = "retrieve" /\ HandleInv
  BY <1>0, <1>2, RetrieveMoves, SentParts
<1>4. Retrieving /\ ~Early
  BY <1>3 DEF HandleInv
<1>5. /\ talk.cur \in Sock /\ Socket = talk.cur /\ St = Cur.st /\ talk.offer = 0 /\ Cur \in Record
      /\ Cur.st \in {"bound", "listen", "connecting", "estab", "lastack", "closed"} /\ BytesInv /\ StartedInv
  BY <1>2, <1>4, DownloadIs DEF GotInv, DownloadInv
<1>6. Count > 0 /\ Count \in Nat /\ Count <= pxClient.uxBytesLeft /\ pxClient.uxBytesLeft \in Nat
      /\ Socket \in Sock /\ Cur.tx \in Nat /\ Cur.got \in Nat
  <2>1. Count > 0
    BY Zenon DEF RetrieveShort, RetrieveSends, RetrieveFails
  <2>2. pxClient.uxBytesLeft \in Nat
    BY <1>0, ClientFields, ConstantsAre
  <2>3. Socket # 0
    BY <1>5, ConstantsAre
  <2>4. Count \in Nat /\ Count <= pxClient.uxBytesLeft
    BY <1>0, <2>3, CountType, ConstantsAre
  <2>5. Cur.tx \in Nat /\ Cur.got \in Nat
    BY <1>5, ConstantsAre DEF Record
  <2> QED BY <1>5, <2>1, <2>2, <2>4, <2>5
<1>7. ~Cur.fin /\ Cur.st \in {"connecting", "estab"}
  <2>1. ~Cur.fin
    BY <1>4, <1>5, <1>6 DEF BytesInv
  <2>2. Cur.st \notin Ended
    BY <1>5, <2>1 DEF BytesInv
  <2> QED BY <1>3, <1>5, <2>1, <2>2 DEF StartedInv, Ended
<1>8. ~RetrieveFails
  <2>1. RetrieveFails => talk' = [talk EXCEPT !.calm = talk.calm /\ St \notin {"connecting", "estab"}]
    BY Zenon DEF RetrieveFails
  <2> QED BY <1>0, <1>5, <1>7, <2>1 DEF Talk
<1>9. /\ pxClient'.bIsListen = pxClient.bIsListen /\ pxClient'.pcConnectionAck = pxClient.pcConnectionAck
      /\ talk'.rest = talk.rest
      /\ \A s \in Sock : /\ sk'[s].st = sk[s].st /\ sk'[s].got = sk[s].got
                         /\ s # Socket => sk'[s].tx = sk[s].tx /\ sk'[s].fin = sk[s].fin
  <2>1. CASE RetrieveShort
    <3>1. /\ sk' = [sk EXCEPT ![Socket].fin = TRUE] \/ sk' = sk
          /\ pxClient' = [pxClient EXCEPT !.uxBytesLeft = 0]
          /\ (talk' = talk \/ talk' = [talk EXCEPT !.calm = FALSE])
      BY <2>1, Zenon DEF RetrieveShort
    <3>2. talk'.rest = talk.rest
      BY <1>0, <3>1 DEF Talk
    <3>3. pxClient'.bIsListen = pxClient.bIsListen /\ pxClient'.pcConnectionAck = pxClient.pcConnectionAck
      BY <1>0, <3>1 DEF Client
    <3>4. \A s \in Sock : /\ sk'[s].st = sk[s].st /\ sk'[s].got = sk[s].got
                          /\ s # Socket => sk'[s].tx = sk[s].tx /\ sk'[s].fin = sk[s].fin
      BY <1>0, <3>1 DEF Record
    <3> QED BY <3>2, <3>3, <3>4
  <2>2. CASE RetrieveSends
    BY <1>0, <2>2 DEF RetrieveSends, Client, Record
  <2> QED BY <1>8, <2>1, <2>2
<1>10. /\ file'.size = file.size
       /\ BytesInv'
  <2>0. file \in FileRecord /\ file.unread \in Nat
    BY <1>0 DEF Types, FileRecord
  <2>1. Cur'.st = Cur.st /\ Cur'.got = Cur.got
    BY <1>2, <1>5, <1>9 DEF Cur
  <2>2. CASE RetrieveShort
    <3>1. pxClient'.uxBytesLeft = 0
      BY <1>0, <2>2 DEF RetrieveShort, Client
    <3>2. file'.size = file.size /\ file.unread < Count
      <4>1. file' = [file EXCEPT !.unread = 0] /\ (file.unread < Count \/ talk' = [talk EXCEPT !.calm = FALSE])
        BY <2>2, Zenon DEF RetrieveShort
      <4> QED BY <1>0, <2>0, <4>1 DEF FileRecord, Talk
    <3>3. talk.rest # 0
      BY <1>4, <1>5, <1>6, <2>0, <3>2 DEF BytesInv, Whole
    <3> QED BY <1>2, <1>7, <1>9, <2>1, <3>1, <3>2, <3>3 DEF BytesInv, Whole, Ended
  <2>3. CASE RetrieveSends
    <3>1. pxClient'.uxBytesLeft = pxClient.uxBytesLeft - Count
      BY <1>0, <2>3 DEF RetrieveSends, Client
    <3>2. file'.size = file.size /\ file'.unread = file.unread - Count
      BY <2>0, <2>3 DEF RetrieveSends, FileRecord
    <3>3. Cur'.tx = Cur.tx + Count /\ (Cur'.fin => Count = pxClient.uxBytesLeft)
      <4>1. sk' = [sk EXCEPT ![Socket].tx = @ + Count, ![Socket].fin = @ \/ Count = pxClient.uxBytesLeft]
        BY <2>3, Zenon DEF RetrieveSends
      <4>2. sk'[Socket].tx = sk[Socket].tx + Count
        BY <1>0, <1>6, <4>1 DEF Record
      <4>3. sk'[Socket].fin <=> sk[Socket].fin \/ Count = pxClient.uxBytesLeft
        BY <1>0, <1>6, <4>1 DEF Record
      <4> QED BY <1>2, <1>5, <1>7, <4>2, <4>3 DEF Cur
    <3>4. Cur'.fin => pxClient'.uxBytesLeft = 0
      BY <1>6, <3>1, <3>3
    <3>5. ASSUME talk.rest = 0
          PROVE  /\ Cur'.got + Cur'.tx + pxClient'.uxBytesLeft = file'.size
                 /\ file'.unread = pxClient'.uxBytesLeft
      <4>1. Cur.got + Cur.tx + pxClient.uxBytesLeft = file.size /\ file.unread = pxClient.uxBytesLeft
        BY <1>4, <1>5, <3>5 DEF BytesInv, Whole
      <4> QED BY <1>6, <2>1, <3>1, <3>2, <3>3, <4>1
    <3> QED BY <1>2, <1>7, <1>9, <2>1, <3>2, <3>4, <3>5 DEF BytesInv, Whole, Ended
  <2> QED BY <1>8, <2>2, <2>3
<1>11. SameKind
  BY <1>9, <1>10 DEF SameKind
<1>12. ASSUME NEW s \in Sock, Fresh(s), sk[s].st = "none" \/ s = talk.offer \/ (s = talk.cur /\ Retrieving /\ Early)
       PROVE  Fresh(s)'
  <2>1. s # Socket
    BY <1>0, <1>4, <1>5, <1>12, SentParts DEF Cur
  <2> QED BY <1>9, <1>12, <2>1 DEF Fresh
<1> QED BY <1>1, <1>10, <1>11, <1>12, GotSteady

\* The peer and the TCP stack: what is read has been sent, and a connection ends
\* when the peer has read it all, or has given up.
LEMMA NetGot ==
  ASSUME SentInv, SentInv', GotInv, NEW s \in Sock, Net(s)
  PROVE  GotInv'
<1> SUFFICES ASSUME talk'.calm PROVE GotInv'
  BY DEF GotInv
<1>0. Types /\ pxClient \in Client /\ talk \in Talk /\ sk \in [Sock -> Record]
      /\ sk[s].tx \in Nat /\ sk[s].got \in Nat
  BY SentParts, SockFields
<1>1. SteadyCall
  BY NetFlow
<1>2. talk.calm /\ (Early' <=> Early) /\ talk'.cur = talk.cur
  BY <1>1, DownloadSteady
<1>3. UNCHANGED <<pxClient, file>>
  BY Zenon DEF Net, PeerConnects, PeerRefuses, PeerSends, PeerReads, PeerCloses, StackCloses, NetLeaves, data
<1>4. talk'.rest = talk.rest
  BY <1>0 DEF Net, PeerConnects, PeerRefuses, PeerSends, PeerReads, PeerCloses, StackCloses, Talk
<1>5. \A r \in Sock \ {s} : sk'[r] = sk[r]
  BY <1>0 DEF Net, PeerConnects, PeerRefuses, PeerSends, PeerReads, PeerCloses, StackCloses
<1>6. /\ sk'[s].fin = sk[s].fin
      /\ \/ sk'[s].st \in {"estab"} /\ sk'[s].tx = sk[s].tx /\ sk'[s].got = sk[s].got /\ sk[s].st # "freed"
         \/ PeerReads(s) /\ sk'[s].st = "estab" /\ sk[s].st = "estab" /\ sk[s].tx > 0
            /\ sk'[s].tx = sk[s].tx - 1 /\ sk'[s].got = sk[s].got + 1
         \/ /\ sk'[s].st \in Ended /\ sk'[s].tx = sk[s].tx /\ sk'[s].got = sk[s].got
            /\ \/ sk[s].st = "lastack" \/ (sk[s].fin /\ sk[s].tx = 0)
               \/ ~(talk.op = "retr" /\ talk.cur = s)
  <2>1. CASE PeerConnects(s)
    BY <1>0, <2>1 DEF PeerConnects, Record
  <2>2. ~PeerRefuses(s)
    BY <1>0 DEF PeerRefuses, Talk
  <2>3. CASE PeerSends(s)
    BY <1>0, <2>3 DEF PeerSends, Record
  <2>4. CASE PeerReads(s)
    BY <1>0, <2>4 DEF PeerReads, Record
  <2>5. CASE PeerCloses(s)
    <3>1. ~(talk.op = "retr" /\ talk.cur = s)
      BY <1>0, <2>5 DEF PeerCloses, Talk
    <3> QED BY <1>0, <2>5, <3>1 DEF PeerCloses, Record, Ended
  <2>6. CASE StackCloses(s)
    BY <1>0, <2>6 DEF StackCloses, Record, Ended
  <2> QED BY <2>1, <2>2, <2>3, <2>4, <2>5, <2>6 DEF Net
<1>7. SameKind
  BY <1>3, <1>4, <1>5, <1>6 DEF SameKind, Ended
<1>8. ASSUME NEW r \in Sock, Fresh(r) PROVE Fresh(r)'
  <2>1. CASE r = s
    BY <1>6, <1>8, <2>1 DEF Fresh
  <2>2. CASE r # s
    BY <1>5, <1>8, <2>2 DEF Fresh
  <2> QED BY <2>1, <2>2
<1>9. ASSUME Retrieving PROVE BytesInv'
  <2>1. /\ talk.cur \in Sock /\ talk.op = "retr" /\ BytesInv /\ (Early => Fresh(talk.cur))
        /\ pxClient.uxBytesLeft \in Nat
    BY <1>0, <1>2, <1>9, DownloadIs, ClientFields, ConstantsAre DEF GotInv, DownloadInv
  <2>2. CASE talk.cur # s
    <3>1. Cur' = Cur
      BY <1>2, <1>5, <2>1, <2>2 DEF Cur
    <3> QED BY <1>2, <1>3, <1>4, <2>1, <3>1 DEF BytesInv, Whole
  <2>3. CASE talk.cur = s
    <3>1. Cur = sk[s] /\ Cur' = sk'[s]
      BY <1>2, <2>3 DEF Cur
    <3>2. Cur'.fin = Cur.fin /\ Cur'.got + Cur'.tx = Cur.got + Cur.tx
      BY <1>0, <1>6, <3>1
    <3>3. Cur'.st \in Ended => Cur'.fin /\ Cur'.tx = 0
      BY <1>6, <2>1, <2>3, <3>1 DEF BytesInv, Ended
    <3> QED BY <1>2, <1>3, <1>4, <2>1, <3>2, <3>3 DEF BytesInv, Whole
  <2> QED BY <2>2, <2>3
<1> QED BY <1>1, <1>7, <1>8, <1>9, GotSteady

\* prvTransferConnect gives the peer a new socket, of the kind it asked for.
LEMMA ConnectGot ==
  ASSUME SentInv, GotInv, NEW b \in BOOLEAN, TransferConnect(b)
  PROVE  GotInv'
<1> SUFFICES ASSUME talk'.calm PROVE GotInv'
  BY DEF GotInv
<1>0. StackInv /\ Types /\ CallInv /\ pxClient \in Client /\ talk \in Talk /\ sk \in [Sock -> Record] /\ 0 \notin Sock
  BY SentParts
<1>1. PICK s \in Sock :
        /\ sk[s].st = "none"
        /\ sk' = [sk EXCEPT ![s].st = IF b THEN "listen" ELSE "bound"]
        /\ pxClient' = [pxClient EXCEPT !.xTransferSocket = s, !.bIsListen = b, !.bEmptyFile = FALSE]
        /\ talk' = [talk EXCEPT !.offer = s]
  BY DEF TransferConnect, Unused
<1>2. Socket' = s /\ pxClient'.bIsListen = b
  BY <1>0, <1>1 DEF Client, Socket
<1>3. talk'.op = talk.op /\ talk'.offer = s /\ talk'.calm = talk.calm
  BY <1>0, <1>1 DEF Talk
<1>4. talk.op = "none"
  <2>1. Top \in {"listen", "bind"}
    BY <1>0, CommandMoves DEF TransferConnect
  <2> QED BY <1>0, <2>1 DEF CallInv, Connecting, Connects, On
<1>5. \A r \in Sock : /\ sk'[r].tx = sk[r].tx /\ sk'[r].got = sk[r].got /\ sk'[r].fin = sk[r].fin
                      /\ r # s => sk'[r].st = sk[r].st
  BY <1>0, <1>1 DEF Record
<1>6. FreshInv'
  <2> SUFFICES ASSUME NEW r \in Sock, sk'[r].st = "none" \/ r = s PROVE Fresh(r)'
    BY <1>3 DEF FreshInv
  <2>1. Fresh(r)
    BY <1>1, <1>3, <1>5 DEF GotInv, FreshInv
  <2> QED BY <1>5, <2>1 DEF Fresh
<1>7. KindInv'
  <2>1. St' = IF b THEN "listen" ELSE "bound"
    BY <1>0, <1>1, <1>2 DEF St, Record
  <2> QED BY <1>2, <2>1 DEF KindInv
<1>8. DownloadInv' /\ AnsweredInv'
  BY <1>3, <1>4 DEF DownloadInv, AnsweredInv, Retrieving
<1> QED BY <1>6, <1>7, <1>8 DEF GotInv

\* A transfer command that is answered by an error, and the file of an upload.
LEMMA RefuseGot ==
  ASSUME SentInv, GotInv,
         (\E l \in {"retr", "stor"} : NoDataConnection(l)) \/ StorePrepFails \/ RetrievePrepFails \/ SetWrite
  PROVE  GotInv'
<1> SUFFICES ASSUME talk'.calm PROVE GotInv'
  BY DEF GotInv
<1>0. StackInv /\ pxClient \in Client /\ talk \in Talk /\ Types
  BY SentParts
<1>1. UNCHANGED sk
  BY Zenon DEF NoDataConnection, StorePrepFails, RetrievePrepFails, SetWrite
<1>2. /\ talk'.op = talk.op /\ talk'.offer = talk.offer /\ talk.calm
      /\ talk'.reply \in {"425", "450"} \/ (SetWrite /\ talk' = talk)
  <2>1. SetWrite => talk' = talk
    BY Zenon DEF SetWrite
  <2> QED BY <1>0, <2>1, RefusedFields
<1>3. Socket' = Socket /\ pxClient'.bIsListen = pxClient.bIsListen
  <2>1. \/ pxClient' = pxClient \/ pxClient' = FileClosed
        \/ pxClient' = [FileClosed EXCEPT !.ulRestartOffset = 0]
        \/ \E size \in {0, FileSize} :
             pxClient' = [FileClosed EXCEPT !.ulRestartOffset = 0, !.uxBytesLeft = size]
        \/ pxClient' = [pxClient EXCEPT !.pxWriteHandle = TRUE]
    <3>1. SetWrite => pxClient' = [pxClient EXCEPT !.pxWriteHandle = TRUE]
      BY Zenon DEF SetWrite
    <3> QED BY <1>0, <3>1, RefusedFields
  <2> QED BY <1>0, <2>1 DEF FileClosed, Client, Socket
<1>4. SetWrite => talk.op = "stor"
  <2>1. ASSUME SetWrite PROVE StorEarly
    BY <1>0, <2>1, StoreMoves DEF StorEarly, On
  <2>2. StorEarly => Storing
    BY <1>2, SentParts DEF RequestInv
  <2> QED BY <2>1, <2>2 DEF Storing
<1>5. FreshInv' /\ KindInv'
  BY <1>1, <1>2, <1>3 DEF GotInv, FreshInv, Fresh, KindInv, St
<1>6. DownloadInv' /\ AnsweredInv'
  BY <1>2, <1>4 DEF DownloadInv, AnsweredInv, Retrieving, Waiting
<1> QED BY <1>5, <1>6 DEF GotInv

\* prvRetrieveFilePrep: all of the file is still to be sent.
LEMMA ReadyGot ==
  ASSUME SentInv, SentInv', RestartInv, GotInv, NEW size \in {0, FileSize}, RetrievePrep(size)
  PROVE  GotInv'
<1> SUFFICES ASSUME talk'.calm PROVE GotInv'
  BY DEF GotInv
<1>0. StackInv /\ Types /\ pxClient \in Client /\ talk \in Talk /\ sk \in [Sock -> Record]
      /\ Socket \in Sock \cup {0} /\ 0 \notin Sock /\ size \in Nat
  BY SentParts, ConstantsAre
<1>1. cmd' = cmd
  BY Zenon DEF RetrievePrep
<1>2. /\ Socket' = Socket /\ pxClient'.bIsListen = pxClient.bIsListen /\ pxClient'.uxBytesLeft = size
      /\ pxClient'.pxReadHandle /\ pxClient'.pcConnectionAck = pxClient.bIsListen
  <2>1. pxClient' = [FileClosed EXCEPT !.ulRestartOffset = 0, !.uxBytesLeft = size,
                     !.pxReadHandle = TRUE, !.pcConnectionAck = pxClient.bIsListen]
    BY Zenon DEF RetrievePrep
  <2> QED BY <1>0, <2>1 DEF FileClosed, Client, Socket
<1>3. talk' = talk /\ talk.calm
  BY Zenon DEF RetrievePrep
<1>4. Top = "retrprep" /\ Below \subseteq {"data", "recv"} /\ Pops
  BY <1>0, RetrieveMoves
<1>5. Top' \in {"data", "recv", "none"} /\ \A l \in EarlyCalls : ~On(l)'
  BY <1>4 DEF Pops, On, EarlyCalls
<1>6. RetrEarly /\ Early /\ Retrieving /\ cmd \notin {"stor", "retr"}
  <2>1. RequestInv
    BY <1>3, SentParts
  <2>2. On("retrprep")
    BY <1>4 DEF On
  <2> QED BY <2>1, <2>2 DEF Early, RetrEarly, RequestInv, EarlyCalls
<1>7. ~Early' /\ Retrieving'
  BY <1>1, <1>3, <1>5, <1>6 DEF Early, StorEarly, RetrEarly, EarlyCalls, Retrieving, Waiting
<1>8. /\ talk.cur \in Sock /\ Socket = talk.cur /\ St = Cur.st /\ talk.offer = 0
      /\ Cur.st \in {"bound", "listen", "connecting", "estab", "lastack", "closed"}
      /\ Fresh(talk.cur) /\ BytesInv /\ KindInv /\ FreshInv
  BY <1>3, <1>6, DownloadIs DEF GotInv, DownloadInv
<1>9. Cur.tx = 0 /\ Cur.got = 0 /\ ~Cur.fin /\ Cur.st \notin Ended
  BY <1>8 DEF Fresh, Cur, BytesInv
<1>10. /\ \A s \in Sock : s # talk.cur => sk'[s] = sk[s]
       /\ Cur'.tx = 0 /\ Cur'.got = 0
       /\ Cur'.fin => size = 0
       /\ Cur'.st = Cur.st \/ (Cur.st = "bound" /\ Cur'.st \in {"connecting", "estab"})
       /\ Cur'.st # "bound"
  <2>1. IF ~pxClient.bIsListen /\ St = "bound"
        THEN \/ sk' = [sk EXCEPT ![Socket].st = "connecting"]
             \/ size = 0 /\ sk' = [sk EXCEPT ![Socket].st = "estab", ![Socket].fin = TRUE]
        ELSE sk' = IF size = 0 /\ St = "estab" THEN [sk EXCEPT ![Socket].fin = TRUE] ELSE sk
    BY Zenon DEF RetrievePrep
  <2>2. Cur' = sk'[talk.cur] /\ Cur = sk[talk.cur]
    BY <1>3 DEF Cur
  <2>3. CASE St = "bound"
    <3>1. CASE sk' = [sk EXCEPT ![Socket].st = "connecting"]
      BY <1>0, <1>8, <1>9, <2>2, <2>3, <3>1 DEF Record
    <3>2. CASE size = 0 /\ sk' = [sk EXCEPT ![Socket].st = "estab", ![Socket].fin = TRUE]
      BY <1>0, <1>8, <1>9, <2>2, <2>3, <3>2 DEF Record
    <3> QED BY <1>8, <2>1, <2>3, <3>1, <3>2 DEF KindInv
  <2>4. CASE St # "bound" /\ size = 0 /\ St = "estab"
    <3>1. sk' = [sk EXCEPT ![Socket].fin = TRUE]
      BY <2>1, <2>4
    <3> QED BY <1>0, <1>8, <1>9, <2>2, <2>4, <3>1 DEF Record
  <2>5. CASE St # "bound" /\ ~(size = 0 /\ St = "estab")
    <3>1. sk' = sk
      BY <2>1, <2>5
    <3> QED BY <1>8, <1>9, <2>2, <2>5, <3>1
  <2> QED BY <2>3, <2>4, <2>5
<1>11. file'.size = size /\ (pxClient.ulRestartOffset = 0 => file'.unread = size)
  BY <1>0 DEF RetrievePrep
<1>12. BytesInv'
  <2>1. Cur'.st \notin Ended
    BY <1>9, <1>10 DEF Ended
  <2>2. talk.rest = 0 => pxClient.ulRestartOffset = 0
    BY <1>3, <1>6 DEF RestartInv, OffsetInv
  <2>3. Whole'
    BY <1>0, <1>2, <1>3, <1>10, <1>11, <2>2 DEF Whole
  <2> QED BY <1>2, <1>10, <2>1, <2>3 DEF BytesInv
<1>13. StartedInv'
  <2>1. Cur'.st # "bound" /\ (Cur'.st = "listen" => pxClient.bIsListen)
    BY <1>8, <1>10 DEF KindInv
  <2> QED BY <1>2, <1>5, <2>1 DEF StartedInv
<1>14. DownloadInv'
  <2>1. ~Closes'
    BY <1>5 DEF Closes, Closers
  <2> QED BY <1>2, <1>3, <1>7, <1>8, <1>12, <1>13, <2>1 DEF DownloadInv
<1>15. FreshInv'
  <2> SUFFICES ASSUME NEW s \in Sock, sk'[s].st = "none" \/ s = talk'.offer PROVE Fresh(s)'
    BY DEF FreshInv
  <2>1. s # talk.cur
    BY <1>0, <1>3, <1>8, <1>10 DEF Cur
  <2>2. Fresh(s)
    BY <1>3, <1>8, <1>10, <2>1 DEF FreshInv
  <2> QED BY <1>10, <2>1, <2>2 DEF Fresh
<1>16. KindInv'
  <2>1. St' = Cur'.st
    BY <1>0, <1>2, <1>3, <1>8 DEF St, Cur
  <2> QED BY <1>2, <1>8, <1>10, <2>1 DEF KindInv
<1>17. AnsweredInv'
  BY <1>7 DEF AnsweredInv, Retrieving, Waiting
<1> QED BY <1>14, <1>15, <1>16, <1>17 DEF GotInv

-----------------------------------------------------------------------------
(* The offset of a download *)

\* A step that leaves the offset, or resets it.
SameOffset ==
  /\ talk'.asked = talk.asked /\ talk'.rest = talk.rest
  /\ pxClient'.ulRestartOffset \in {pxClient.ulRestartOffset, 0}

\* Such a step of a transfer leaves what is said of the offset.
LEMMA OffsetSteady ==
  ASSUME OffsetInv, SameEarly, SameWrite, SameOffset
  PROVE  OffsetInv'
<1>1. Early' <=> Early
  BY DEF SameEarly, Early
<1>2. On("setwrite")' => On("setwrite") \/ pxClient'.ulRestartOffset = 0
  BY DEF SameWrite
<1> QED BY <1>1, <1>2 DEF OffsetInv, SameOffset

\* The calls that do not touch the offset, or reset it.
LEMMA CallOffset ==
  ASSUME SentInv,
         \/ UNCHANGED <<pxClient, talk>>
         \/ PortNoSocket \/ Accept("accept") \/ Accept("acceptrx") \/ Ack \/ CloseFile
         \/ StorePrep \/ StoreFileWork \/ RetrieveShort \/ RetrieveSends \/ RetrieveFails
         \/ PeerLeaves \/ Closing \/ SetWrite \/ (\E b \in BOOLEAN : TransferConnect(b))
         \/ \E s \in Sock : Net(s)
  PROVE  SameOffset
<1>0. pxClient \in Client /\ talk \in Talk
  BY SentParts
<1>1. CASE UNCHANGED <<pxClient, talk>>
  BY <1>1 DEF SameOffset
<1>2. CASE PortNoSocket \/ Accept("accept") \/ Accept("acceptrx") \/ Ack \/ CloseFile
  <2>1. talk' = talk
    BY <1>2, Zenon DEF PortNoSocket, Accept, Ack, CloseFile
  <2>2. pxClient'.ulRestartOffset = pxClient.ulRestartOffset
    <3>1. CASE PortNoSocket \/ CloseFile
      BY <1>0, <3>1 DEF PortNoSocket, CloseFile, FileClosed, Client
    <3>2. CASE Ack
      BY <1>0, <3>2 DEF Ack, Client
    <3>3. CASE Accept("accept") \/ Accept("acceptrx")
      BY <1>0, <3>3 DEF Accept, Client
    <3> QED BY <1>2, <3>1, <3>2, <3>3
  <2> QED BY <2>1, <2>2 DEF SameOffset
<1>3. CASE StorePrep
  BY <1>0, <1>3 DEF StorePrep, FileClosed, Client, SameOffset
<1>4. CASE StoreFileWork
  <2>1. /\ talk' = talk
        /\ \/ pxClient' = [pxClient EXCEPT !.ulRecvBytes = @ + Rx]
           \/ pxClient' = [pxClient EXCEPT !.ulRecvBytes = @ + Rx, !.bHadError = TRUE]
    BY <1>4, Zenon DEF StoreFileWork
  <2> QED BY <1>0, <2>1 DEF Client, SameOffset
<1>5. CASE RetrieveShort \/ RetrieveSends \/ RetrieveFails
  <2>1. \/ pxClient' = [pxClient EXCEPT !.uxBytesLeft = 0]
        \/ pxClient' = [pxClient EXCEPT !.uxBytesLeft = @ - Count, !.ulRecvBytes = @ + Count]
        \/ pxClient' = [pxClient EXCEPT !.uxBytesLeft = @ - Count]
    BY <1>5, Zenon DEF RetrieveShort, RetrieveSends, RetrieveFails
  <2>2. talk'.asked = talk.asked /\ talk'.rest = talk.rest
    BY <1>0, <1>5 DEF RetrieveShort, RetrieveSends, RetrieveFails, Talk
  <2> QED BY <1>0, <2>1, <2>2 DEF Client, SameOffset
<1>6. CASE PeerLeaves
  BY <1>0, <1>6 DEF PeerLeaves, Talk, SameOffset
<1>7. CASE Closing
  BY <1>0, <1>7 DEF Closing, Replies, FlagsReset, Talk, Client, SameOffset
<1>8. CASE SetWrite
  BY <1>0, <1>8 DEF SetWrite, Client, SameOffset
<1>9. CASE \E b \in BOOLEAN : TransferConnect(b)
  BY <1>0, <1>9 DEF TransferConnect, Client, Talk, SameOffset
<1>10. CASE \E s \in Sock : Net(s)
  <2>1. pxClient' = pxClient
    BY <1>10, Zenon DEF Net, PeerConnects, PeerRefuses, PeerSends, PeerReads, PeerCloses, StackCloses, NetLeaves
  <2>2. talk'.asked = talk.asked /\ talk'.rest = talk.rest
    BY <1>0, <1>10 DEF Net, PeerConnects, PeerRefuses, PeerSends, PeerReads, PeerCloses, StackCloses, Talk
  <2> QED BY <2>1, <2>2 DEF SameOffset
<1> QED BY <1>1, <1>2, <1>3, <1>4, <1>5, <1>6, <1>7, <1>8, <1>9, <1>10

\* The last step of a transfer that is being prepared, or that is refused.
LEMMA PreparedOffset ==
  ASSUME SentInv, OffsetInv, talk.calm, talk'.calm,
         \/ (\E l \in {"retr", "stor"} : NoDataConnection(l)) \/ StorePrepFails \/ RetrievePrepFails
         \/ SetWrite \/ \E size \in {0, FileSize} : RetrievePrep(size)
  PROVE  OffsetInv'
<1>0. StackInv /\ Types /\ RequestInv /\ pxClient \in Client /\ talk \in Talk
  BY SentParts
<1>1. cmd' = cmd
  BY Zenon DEF NoDataConnection, StorePrepFails, RetrievePrepFails, SetWrite, RetrievePrep, data
<1>2. /\ Top \in EarlyCalls /\ Below \subseteq {"data", "recv", "stored"}
      /\ Pops \/ Pushes("stored", {})
  BY <1>0, CommandMoves, StoreMoves, RetrieveMoves DEF EarlyCalls
<1>3. Early /\ cmd \notin {"stor", "retr"}
  BY <1>0, <1>2 DEF Early, StorEarly, RetrEarly, EarlyCalls, On, RequestInv
<1>4. \A l \in EarlyCalls : ~On(l)'
  BY <1>2 DEF Pops, Pushes, On, EarlyCalls
<1>5. ~Early' /\ ~On("setwrite")'
  BY <1>1, <1>3, <1>4 DEF Early, StorEarly, RetrEarly, EarlyCalls
<1>6. talk'.asked = 0 => pxClient'.ulRestartOffset = 0
  <2>1. talk.asked = 0 /\ (talk.rest = 0 => pxClient.ulRestartOffset = 0)
    BY <1>3 DEF OffsetInv
  <2>2. CASE (\E l \in {"retr", "stor"} : NoDataConnection(l)) \/ StorePrepFails \/ RetrievePrepFails
    <3>1. CASE /\ talk'.asked = IF talk.rest = 0 THEN talk.asked ELSE -1
               /\ pxClient' = pxClient \/ pxClient' = FileClosed
      <4>1. pxClient'.ulRestartOffset = pxClient.ulRestartOffset
        BY <1>0, <3>1 DEF FileClosed, Client
      <4>2. talk'.asked = 0 => talk.rest = 0
        BY <3>1
      <4> QED BY <2>1, <4>1, <4>2
    <3>2. CASE \/ pxClient' = [FileClosed EXCEPT !.ulRestartOffset = 0]
               \/ \E size \in {0, FileSize} :
                    pxClient' = [FileClosed EXCEPT !.ulRestartOffset = 0, !.uxBytesLeft = size]
      BY <1>0, <3>2 DEF FileClosed, Client
    <3> QED BY <1>0, <2>2, <3>1, <3>2, RefusedFields
  <2>3. CASE SetWrite
    <3>1. pxClient.ulRestartOffset = 0
      BY <1>0, <2>3, StoreMoves DEF OffsetInv, On
    <3> QED BY <2>3, <3>1, CallOffset DEF SameOffset
  <2>4. CASE \E size \in {0, FileSize} : RetrievePrep(size)
    BY <1>0, <2>4 DEF RetrievePrep, FileClosed, Client
  <2> QED BY <2>2, <2>3, <2>4
<1> QED BY <1>5, <1>6 DEF OffsetInv

\* The calls that make or end a connection, within no transfer command's preparation.
LEMMA EndsOffset ==
  ASSUME SentInv, OffsetInv, talk.calm, Closing \/ \E b \in BOOLEAN : TransferConnect(b)
  PROVE  OffsetInv'
<1>0. StackInv /\ RequestInv
  BY SentParts
<1>1. cmd' = cmd
  BY Zenon DEF Closing, TransferConnect, data
<1>2. Top \in {"closing", "listen", "bind"} /\ Pops
  BY <1>0, CommandMoves, CloseMoves
<1>3. SameEarly /\ SameWrite
  <2>1. Top \notin EarlyCalls
    BY <1>2 DEF EarlyCalls
  <2> QED BY <1>0, <1>1, <1>2, <2>1, StillEarly
<1> QED BY <1>3, CallOffset, OffsetSteady

\* REST, which is read while no transfer is being prepared.
LEMMA RestOffset ==
  ASSUME SentInv, Rest
  PROVE  OffsetInv'
<1>0. StackInv /\ Types /\ CallInv /\ pxClient \in Client
  BY SentParts
<1>1. Top = "rest" /\ Below \subseteq {"data", "recv"} /\ Pops
  BY <1>0, CommandMoves
<1>2. cmd = "none" /\ cmd' = cmd
  BY <1>0, <1>1, Zenon DEF CallInv, On, Rest
<1>3. \A l \in EarlyCalls : ~On(l)'
  BY <1>1 DEF Pops, On, EarlyCalls
<1>4. ~Early' /\ ~On("setwrite")'
  BY <1>2, <1>3 DEF Early, StorEarly, RetrEarly, EarlyCalls
<1>5. talk'.asked = pxClient'.ulRestartOffset
  BY <1>0, RestFields DEF Client
<1> QED BY <1>4, <1>5 DEF OffsetInv

\* A new request takes over what REST asked for.
LEMMA RequestOffset ==
  ASSUME SentInv, OffsetInv, talk.calm, talk'.calm,
         NEW c \in {"pasv", "port", "retr", "stor"}, PeerCommand(c)
  PROVE  OffsetInv'
<1>0. talk \in Talk /\ RequestInv
  BY SentParts
<1>1. UNCHANGED <<stack, pxClient>> /\ cmd' = c
  BY DEF PeerCommand
<1>2. \A l : On(l)' <=> On(l)
  BY <1>1 DEF On, Top, Below
<1>3. \/ /\ c \in {"pasv", "port"} /\ ~Waiting
         /\ talk'.asked = talk.asked /\ talk'.rest = talk.rest
      \/ /\ c \in {"retr", "stor"} /\ ~Waiting
         /\ talk'.rest = talk.asked /\ talk'.asked = 0
  BY <1>0 DEF PeerCommand, Talk
<1>4. ~Early /\ ~On("setwrite")'
  <2>1. ~Early
    BY <1>0, <1>3 DEF RequestInv, Early, Storing, Retrieving
  <2> QED BY <1>2, <2>1 DEF Early, StorEarly
<1>5. Early' <=> c \in {"retr", "stor"}
  BY <1>1, <1>2, <1>4 DEF Early, StorEarly, RetrEarly
<1> QED BY <1>1, <1>3, <1>4, <1>5 DEF OffsetInv

\* Every step keeps what is said of the offset.
LEMMA RestartStep ==
  ASSUME SentInv, SentInv', RestartInv, [Next]_vars
  PROVE  RestartInv'
<1> SUFFICES ASSUME talk'.calm PROVE OffsetInv'
  BY DEF RestartInv
<1>0. SteadyCall /\ SameOffset => OffsetInv'
  <2> SUFFICES ASSUME SteadyCall, SameOffset PROVE OffsetInv'
    OBVIOUS
  <2>1. talk.calm /\ SameEarly /\ SameWrite
    BY DEF SteadyCall, SameData, SameTalk
  <2> QED BY <2>1, OffsetSteady DEF RestartInv
<1>1. CASE \/ Recv \/ Transfer("retr", <<"retrprep">>) \/ Transfer("stor", <<"storprep">>)
           \/ Data \/ Work \/ Worked \/ Delete
           \/ Pasv \/ Port \/ Size \/ Stored
           \/ Check \/ Drained \/ Close \/ Close2
           \/ StoreFileWorked \/ RetrieveWaits \/ AllSent \/ RetrieveAllSent
  <2>1. UNCHANGED <<pxClient, talk>>
    BY <1>1, Zenon DEF Recv, Transfer, Data, Work, Worked, Delete, Pasv, Port, Size, Stored, Check, Drained,
                       Close, Close2, StoreFileWorked, RetrieveWaits, AllSent, RetrieveAllSent
  <2>2. SteadyCall
    BY <1>1, ReadFlow, LoopFlow, CommandFlow, CloseFlow, WorkedFlow
  <2> QED BY <1>0, <2>1, <2>2, CallOffset
<1>2. CASE \/ PortNoSocket \/ Accept("accept") \/ Accept("acceptrx") \/ Ack \/ CloseFile
           \/ StorePrep \/ StoreFileWork \/ RetrieveShort \/ RetrieveSends \/ RetrieveFails
  <2>1. SteadyCall
    BY <1>2, FlagFlow, StoreFlow, RetrieveFlow
  <2> QED BY <1>0, <1>2, <2>1, CallOffset
<1>3. CASE Rest
  BY <1>3, RestOffset
<1>4. CASE Closing \/ \E b \in BOOLEAN : TransferConnect(b)
  <2>1. talk.calm
    <3>1. talk \in Talk
      BY SentParts
    <3> QED BY <1>4, <3>1 DEF Closing, Replies, TransferConnect, Talk
  <2> QED BY <1>4, <2>1, EndsOffset DEF RestartInv
<1>5. CASE \/ (\E l \in {"retr", "stor"} : NoDataConnection(l)) \/ StorePrepFails \/ RetrievePrepFails
           \/ SetWrite \/ \E size \in {0, FileSize} : RetrievePrep(size)
  <2>1. SetWrite \/ (\E size \in {0, FileSize} : RetrievePrep(size)) => talk' = talk
    BY Zenon DEF SetWrite, RetrievePrep
  <2>2. talk.calm
    BY <1>5, <2>1, RefusedFields, SentParts
  <2> QED BY <1>5, <2>2, PreparedOffset DEF RestartInv
<1>6. CASE \E c \in {"pasv", "port", "retr", "stor"} : PeerCommand(c)
  <2>1. talk.calm
    <3>1. talk \in Talk
      BY SentParts
    <3> QED BY <1>6, <3>1 DEF PeerCommand, Talk
  <2> QED BY <1>6, <2>1, RequestOffset DEF RestartInv
<1>7. CASE PeerLeaves \/ PeerCommand("rest") \/ PeerCommand("size") \/ UNCHANGED vars
  <2>1. SteadyCall
    BY <1>7, PeerStays
  <2>2. PeerLeaves \/ UNCHANGED <<pxClient, talk>>
    BY <1>7 DEF PeerCommand, vars
  <2> QED BY <1>0, <2>1, <2>2, CallOffset
<1>8. CASE \E s \in Sock : Net(s)
  <2>1. SteadyCall
    BY <1>8, NetFlow
  <2> QED BY <1>0, <1>8, <2>1, CallOffset
<1>9. Server \/ Peer \/ (\E s \in Sock : Net(s)) \/ UNCHANGED vars
  BY DEF Next
<1>10. CASE Server
  BY <1>1, <1>2, <1>3, <1>4, <1>5, <1>10, Zenon DEF Server
<1>11. CASE Peer
  BY <1>6, <1>7, <1>11 DEF Peer, Commands
<1> QED BY <1>7, <1>8, <1>9, <1>10, <1>11

-----------------------------------------------------------------------------
(* Every step of a download *)

\* A new request: RETR finds a connection on which nothing has been sent.
LEMMA RequestGot ==
  ASSUME SentInv, GotInv, NEW c \in {"pasv", "port", "retr", "stor"}, PeerCommand(c)
  PROVE  GotInv'
<1> SUFFICES ASSUME talk'.calm PROVE GotInv'
  BY DEF GotInv
<1>0. Types /\ SockInv /\ talk \in Talk /\ 0 \notin Sock /\ talk.offer \in Sock \cup {0} /\ stack \in Seq(Labels)
      /\ StackInv
  BY SentParts, TalkFields DEF StackInv
<1>1. UNCHANGED <<stack, xRc, pxClient, sk, file, peer>> /\ cmd = "none" /\ cmd' = c /\ peer
  BY DEF PeerCommand, data
<1>2. Top' = Top /\ Below' = Below /\ Socket' = Socket /\ St' = St
  BY <1>1 DEF Top, Below, Socket, St
<1>3. \/ /\ c # "retr" /\ talk'.op # "retr" /\ talk'.offer = 0 /\ talk.calm
      \/ /\ c = "retr" /\ talk'.op = "retr" /\ talk'.reply = "none" /\ talk'.cur = talk.offer
         /\ talk'.offer = 0 /\ talk.offer # 0 /\ talk.calm /\ ~Waiting
         /\ sk[talk.offer].st \in {"bound", "listen", "estab"}
  BY <1>0 DEF PeerCommand, Talk
<1>4. FreshInv' /\ KindInv'
  <2>1. FreshInv /\ KindInv
    BY <1>3 DEF GotInv
  <2>2. FreshInv'
    BY <1>0, <1>1, <1>3, <2>1 DEF FreshInv, Fresh
  <2> QED BY <1>1, <1>2, <2>1, <2>2 DEF KindInv
<1>5. AnsweredInv'
  BY <1>3 DEF AnsweredInv
<1>6. DownloadInv'
  <2>1. CASE c # "retr"
    BY <1>3, <2>1 DEF DownloadInv, Retrieving
  <2>2. CASE c = "retr"
    <3>1. /\ talk'.cur = talk.offer /\ talk.offer \in Sock /\ talk.calm /\ ~Waiting
          /\ sk[talk.offer].st \in {"bound", "listen", "estab"} /\ Cur' = sk[talk.offer]
      BY <1>0, <1>1, <1>3, <2>2 DEF Cur
    <3>2. Socket = talk.offer /\ St = sk[talk.offer].st
      BY <1>0, <3>1, SentParts DEF PatientInv, St
    <3>3. Early'
      BY <1>1, <2>2 DEF Early, RetrEarly
    <3>4. Fresh(talk.offer)
      BY <3>1 DEF GotInv, FreshInv
    <3>5. ~On("listen") /\ ~On("bind")
      <4>1. \A i \in DOMAIN stack : stack[i] \notin {"listen", "bind"}
        BY DEF PeerCommand
      <4>2. ~At("listen") /\ ~At("bind")
        BY <1>0, <4>1 DEF At
      <4> QED BY <1>0, <4>1, <4>2, TopIs, LabelsAre DEF On, Below
    <3>6. ~Closes
      <4>1. LinkInv /\ HandleInv
        BY <3>1, SentParts
      <4>2. ~pxClient.bHadError /\ ~Retrieving
        BY <3>1, <4>1 DEF HandleInv, Storing, Retrieving
      <4> QED BY <1>0, <1>1, <3>1, <3>2, <3>5, <4>1, <4>2 DEF LinkInv, Ended
    <3>7. ~Closes'
      BY <1>1, <1>2, <3>6 DEF Closes
    <3>8. BytesInv'
      BY <3>1, <3>3 DEF BytesInv, Ended
    <3>9. Fresh(talk.cur)'
      BY <1>1, <3>1, <3>4 DEF Fresh
    <3> QED BY <1>2, <3>1, <3>2, <3>3, <3>7, <3>8, <3>9 DEF DownloadInv
  <2> QED BY <2>1, <2>2
<1> QED BY <1>4, <1>5, <1>6 DEF GotInv

\* The final reply: the connection has ended, so that the peer has read the file.
LEMMA ClosingGot ==
  ASSUME SentInv, GotInv, Closing
  PROVE  GotInv'
<1> SUFFICES ASSUME talk'.calm PROVE GotInv'
  BY DEF GotInv
<1>0. StackInv /\ Types /\ SockInv /\ pxClient \in Client /\ talk \in Talk /\ sk \in [Sock -> Record]
      /\ 0 \notin Sock /\ Socket \in Sock \cup {0} /\ talk.cur \in Sock \cup {0}
  BY SentParts, TalkFields
<1>1. Socket' = 0 /\ ~pxClient'.bIsListen
  BY <1>0 DEF Closing, FlagsReset, Client, Socket
<1>2. /\ talk'.op = talk.op /\ talk'.cur = talk.cur /\ talk'.offer = talk.offer /\ talk.calm
      /\ talk'.rest = talk.rest /\ file' = file
      /\ talk'.reply = IF ~Finished THEN talk.reply ELSE IF pxClient.bHadError THEN "451" ELSE "226"
  BY <1>0 DEF Closing, Replies, Talk, data
<1>3. \A s \in Sock : /\ sk'[s].tx = sk[s].tx /\ sk'[s].got = sk[s].got /\ sk'[s].fin = sk[s].fin
                      /\ sk'[s].st = IF s = Socket THEN "freed" ELSE sk[s].st
  BY <1>0 DEF Closing, Record
<1>4. Top = "closing" /\ HandleInv
  BY <1>0, <1>2, CloseMoves, SentParts
<1>5. FreshInv /\ DownloadInv /\ AnsweredInv
  BY <1>2 DEF GotInv
<1>6. FreshInv'
  <2> SUFFICES ASSUME NEW s \in Sock, sk'[s].st = "none" \/ s = talk'.offer PROVE Fresh(s)'
    BY DEF FreshInv
  <2>1. Fresh(s)
    BY <1>2, <1>3, <1>5 DEF FreshInv
  <2> QED BY <1>3, <2>1 DEF Fresh
<1>7. KindInv'
  BY <1>1 DEF KindInv, St
<1>8. ASSUME Retrieving
      PROVE  /\ talk.cur \in Sock /\ Socket = talk.cur /\ ~Early /\ Finished /\ Whole
             /\ talk.rest = 0 => Cur.fin /\ Cur.tx = 0 /\ pxClient.uxBytesLeft = 0
  <2>1. talk.cur \in Sock /\ Socket = talk.cur
    BY <1>2, <1>8, DownloadIs
  <2>2. (Cur.fin /\ Cur.tx = 0) \/ (~Early /\ talk.rest # 0)
    BY <1>4, <1>5, <1>8 DEF DownloadInv, Closes, Closers, BytesInv
  <2>3. ~Early
    BY <1>5, <1>8, <2>2 DEF DownloadInv, Fresh, Cur
  <2> QED BY <1>5, <1>8, <2>1, <2>2, <2>3 DEF DownloadInv, StartedInv, BytesInv, Finished
<1>9. DownloadInv'
  <2>1. ~Retrieving'
    BY <1>2, <1>8 DEF Retrieving, Waiting
  <2> QED BY <2>1 DEF DownloadInv
<1>10. AnsweredInv'
  <2> SUFFICES ASSUME talk'.op = "retr", talk'.reply = "226", talk'.rest = 0
               PROVE  Cur'.got = file'.size /\ Cur'.st = "freed"
    BY DEF AnsweredInv
  <2>1. talk.op = "retr" /\ talk.rest = 0 /\ talk.cur \in Sock
    BY <1>0, <1>2 DEF SockInv
  <2>2. Cur' = sk'[talk.cur] /\ Cur = sk[talk.cur]
    BY <1>2 DEF Cur
  <2>3. CASE Finished
    <3>1. Retrieving
      BY <1>4, <2>1, <2>3 DEF Finished, HandleInv, Storing
    <3>2. Cur.got + Cur.tx + pxClient.uxBytesLeft = file.size /\ Cur.tx = 0 /\ pxClient.uxBytesLeft = 0
          /\ Socket = talk.cur
      BY <1>8, <2>1, <3>1 DEF Whole
    <3>3. Cur.got \in Nat
      BY <1>0, <2>1, <2>2, SockFields
    <3>4. Cur.got = file.size
      BY <3>2, <3>3
    <3> QED BY <1>2, <1>3, <2>1, <2>2, <3>2, <3>4
  <2>4. CASE ~Finished
    <3>1. Cur.got = file.size /\ Cur.st = "freed"
      BY <1>2, <1>5, <2>1, <2>4 DEF AnsweredInv
    <3> QED BY <1>2, <1>3, <2>1, <2>2, <3>1
  <2> QED BY <2>3, <2>4
<1> QED BY <1>6, <1>7, <1>9, <1>10 DEF GotInv

\* The invariant of the downloads holds when the session begins.
LEMMA WholeInit == Init => WholeInv
<1> SUFFICES ASSUME Init PROVE WholeInv
  OBVIOUS
<1>1. Socket = 0 /\ talk.op = "none" /\ talk.offer = 0 /\ 0 \notin Sock
      /\ \A s \in Sock : sk[s].tx = 0 /\ sk[s].got = 0 /\ ~sk[s].fin
  BY ConstantsAre DEF Init, Socket
<1>2. FreshInv
  BY <1>1 DEF FreshInv, Fresh
<1>3. KindInv
  BY <1>1 DEF KindInv, St
<1>4. DownloadInv /\ AnsweredInv
  BY <1>1 DEF DownloadInv, AnsweredInv, Retrieving
<1>5. RestartInv
  <2>1. stack = <<"recv">> /\ cmd = "none" /\ talk.rest = 0 /\ talk.asked = 0 /\ pxClient.ulRestartOffset = 0
    BY DEF Init
  <2>2. ~Early
    BY <2>1 DEF Early, StorEarly, RetrEarly, On, Top, Below
  <2> QED BY <2>1, <2>2 DEF RestartInv, OffsetInv
<1> QED BY <1>2, <1>3, <1>4, <1>5, SentInit DEF WholeInv, GotInv

\* Every step keeps it.
LEMMA WholeStep == WholeInv /\ [Next]_vars => WholeInv'
<1> SUFFICES ASSUME WholeInv, [Next]_vars PROVE WholeInv'
  OBVIOUS
<1>1. SentInv /\ RestartInv /\ RestartInv' /\ GotInv /\ SentInv'
  BY SentStep, RestartStep DEF WholeInv
<1> SUFFICES GotInv'
  BY <1>1 DEF WholeInv
<1>2. CASE Server
  <2>1. CASE \/ Recv \/ Transfer("retr", <<"retrprep">>) \/ Transfer("stor", <<"storprep">>)
             \/ Data \/ Work \/ Worked \/ Delete
             \/ Pasv \/ Port \/ Size \/ Stored
             \/ Check \/ Drained \/ Close \/ Close2
             \/ StoreFileWorked \/ RetrieveWaits \/ AllSent \/ RetrieveAllSent
    <3>1. UNCHANGED <<sk, pxClient, file, talk>>
      BY <2>1, Zenon DEF Recv, Transfer, Data, Work, Worked, Delete, Pasv, Port, Size, Stored, Check, Drained,
                         Close, Close2, StoreFileWorked, RetrieveWaits, AllSent, RetrieveAllSent, data
    <3>2. SteadyCall
      BY <1>1, <2>1, ReadFlow, LoopFlow, CommandFlow, CloseFlow, WorkedFlow
    <3> QED BY <1>1, <3>1, <3>2, CallStill, StillSteady
  <2>2. CASE \/ PortNoSocket \/ Rest \/ Accept("accept") \/ Accept("acceptrx") \/ Ack \/ CloseFile
             \/ StorePrep \/ StoreFileWork
    <3>1. SteadyCall
      BY <1>1, <2>2, FlagFlow, StoreFlow
    <3> QED BY <1>1, <2>2, <3>1, CallStill, StillSteady
  <2>3. CASE RetrieveShort \/ RetrieveSends \/ RetrieveFails
    BY <1>1, <2>3, RetrieveGot
  <2>4. CASE \E b \in BOOLEAN : TransferConnect(b)
    BY <1>1, <2>4, ConnectGot
  <2>5. CASE (\E l \in {"retr", "stor"} : NoDataConnection(l)) \/ StorePrepFails \/ RetrievePrepFails \/ SetWrite
    BY <1>1, <2>5, RefuseGot
  <2>6. CASE \E size \in {0, FileSize} : RetrievePrep(size)
    BY <1>1, <2>6, ReadyGot DEF WholeInv
  <2>7. CASE Closing
    BY <1>1, <2>7, ClosingGot
  <2> QED BY <1>2, <2>1, <2>2, <2>3, <2>4, <2>5, <2>6, <2>7, Zenon DEF Server
<1>3. CASE Peer \/ UNCHANGED vars
  <2>1. \/ PeerLeaves \/ PeerCommand("rest") \/ PeerCommand("size") \/ UNCHANGED vars
        \/ \E c \in {"pasv", "port", "retr", "stor"} : PeerCommand(c)
    BY <1>3 DEF Peer, Commands
  <2>2. CASE PeerLeaves \/ PeerCommand("rest") \/ PeerCommand("size") \/ UNCHANGED vars
    <3>1. SteadyCall
      BY <1>1, <2>2, PeerStays
    <3>2. PeerLeaves \/ UNCHANGED <<sk, pxClient, file, talk>>
      BY <2>2 DEF PeerCommand, vars, data
    <3> QED BY <1>1, <3>1, <3>2, CallStill, StillSteady
  <2>3. CASE \E c \in {"pasv", "port", "retr", "stor"} : PeerCommand(c)
    BY <1>1, <2>3, RequestGot
  <2> QED BY <2>1, <2>2, <2>3
<1>4. CASE \E s \in Sock : Net(s)
  BY <1>1, <1>4, NetGot
<1> QED BY <1>2, <1>3, <1>4 DEF Next

\* The bytes of a download are with the peer, in the stream or still to be read, and
\* its connection is closed after it has ended, which is after the last of them; no
\* offset is set but one that REST asked for, or a refused transfer has left.
THEOREM AlwaysWhole == Spec => []WholeInv
  BY WholeInit, WholeStep, PTL DEF Spec

\* A patient peer whose RETR is answered by 226 has the whole file: prvRetrieveFileWork
\* ends the connection with the last block (FREERTOS_SO_CLOSE_AFTER_SEND), and
\* prvTransferCloseSocket replies after the end.  Not so after a REST, nor after a
\* refused transfer that had one; and not when reading the file fails, or
\* FreeRTOS_send on a connection that is there.
THEOREM RetrievedAlwaysWhole == Spec => []RetrievedWhole
<1>1. WholeInv => RetrievedWhole
  BY DEF WholeInv, GotInv, AnsweredInv, RetrievedWhole, Cur
<1> QED BY <1>1, AlwaysWhole, PTL
=============================================================================
