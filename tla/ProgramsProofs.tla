---------------------------- MODULE ProgramsProofs ----------------------------
(***************************************************************************)
(* Proofs about module Programs: that the TFTP server keeps its promise in *)
(* the program that it is part of, that the order in which main_servers    *)
(* starts is safe against a network that comes up early, and that no send  *)
(* of the IPC benchmark finds its queue full.                              *)
(***************************************************************************)
EXTENDS Programs, TftpProofs, WellFoundedInduction, SequenceTheorems

\* TFTPServer.c in main_servers.c: every step of the program is a step of the
\* TFTP server, its clients and its network, or one that does not touch them.
THEOREM ProgramsImplementTftp == Spec => TftpSpec
<1>1. Init => TftpInit
  BY DEF Init
<1>2. [Next]_vars => [TftpNext]_tftp
  <2> SUFFICES ASSUME [Next]_vars PROVE [TftpNext]_tftp
    OBVIOUS
  <2>1. CASE UNCHANGED vars
    BY <2>1 DEF vars
  <2>2. CASE Launched
    BY <2>2 DEF Launched
  <2>3. CASE Booting
    BY <2>3 DEF Booting, TftpNext
  <2>4. CASE TftpRuns
    BY <2>4 DEF TftpRuns, TftpNext
  <2>5. CASE Network
    BY <2>5 DEF Network, TftpNext
  <2>6. CASE Benchmark
    BY <2>6 DEF Benchmark
  <2> QED BY <2>1, <2>2, <2>3, <2>4, <2>5, <2>6 DEF Next
<1> QED BY <1>1, <1>2, PTL DEF Spec, TftpSpec

\* TFTPServer.c: the files are sound in the whole program.
THEOREM ProgramsKeepFiles == Spec => []FilesSound
  BY ProgramsImplementTftp, FilesAreSound, PTL

-----------------------------------------------------------------------------
\* main_servers.c suspends the scheduler before the network can come up, so that
\* the hook never notifies a worker that is not there, which the kernel asserts.
ServersNeverHalt == program = "servers" => ~halted

\* Until the worker exists there is no network, or the scheduler does not run;
\* and one that is not started is not while the entry function is called.
OrderInv ==
  program = "servers" =>
    /\ ~halted /\ main \in {"none", "begin", "ipinit", "create", "resume", "returned", "spins"}
    /\ main \in {"none", "begin"} => net = "none"
    /\ main \in {"begin", "ipinit", "create"} => sched # "not_started" \/ entry = "boot"
    /\ main \in {"ipinit", "create"} => sched # "running"
    /\ worker = "none" => main \in {"none", "begin", "ipinit", "create"}

LEMMA OrderStep == OrderInv /\ [Next]_vars => OrderInv'
<1> SUFFICES ASSUME OrderInv, [Next]_vars PROVE OrderInv'
  OBVIOUS
<1>1. CASE UNCHANGED <<launch, boot>>
  BY <1>1 DEF launch, boot, OrderInv
<1>2. CASE Launched
  <2>1. CASE StartScheduler
    BY <1>2, <2>1 DEF Launched, StartScheduler, boot, OrderInv
  <2>2. CASE Enter
    BY <1>2, <2>2 DEF Launched, Enter, boot, OrderInv
  <2>3. CASE LoaderResumes
    BY <1>2, <2>3 DEF Launched, LoaderResumes, boot, OrderInv
  <2> QED BY <1>2, <2>1, <2>2, <2>3 DEF Launched, LaunchNext
<1>3. CASE Booting
  <2>1. CASE Begin
    BY <2>1 DEF Begin, IsServer, boot, OrderInv
  <2>2. CASE IPInit
    BY <2>2 DEF IPInit, IsServer, OrderInv
  <2>3. CASE CreateWorker
    BY <2>3 DEF CreateWorker, IsServer, OrderInv
  <2>4. CASE Resume
    BY <2>4 DEF Resume, boot, OrderInv
  <2>5. CASE NetworkUp
    BY <2>5 DEF NetworkUp, TasksRun, OrderInv
  <2>6. CASE NetworkDown
    BY <2>6 DEF NetworkDown, launch, OrderInv
  <2>7. CASE MakeDisk
    BY <2>7 DEF MakeDisk, launch, OrderInv
  <2>8. CASE CreateServers
    BY <2>8 DEF CreateServers, launch, OrderInv
  <2> QED BY <1>3, <2>1, <2>2, <2>3, <2>4, <2>5, <2>6, <2>7, <2>8 DEF Booting, EntryStep
<1>4. CASE Benchmark
  <2>1. CASE IpcBegin \/ CreateTasks
    BY <1>4, <2>1 DEF Benchmark, IpcBegin, CreateTasks, boot, OrderInv
  <2>2. CASE RunEnds \/ \E i \in Runs : ReceiverStep(i) \/ SenderStep(i)
    BY <1>4, <2>2 DEF Benchmark, RunEnds, ReceiverStep, SenderStep, SendersTurn, MainWaits, launch,
                      boot, OrderInv
  <2> QED BY <1>4, <2>1, <2>2 DEF Benchmark, IpcNext
<1> QED BY <1>1, <1>2, <1>3, <1>4 DEF Next, vars, TftpRuns, Network

\* main_servers.c: however it is built, and whenever the network comes up, the
\* hook finds the worker's handle set, and the kernel's assertion holds.
THEOREM ServersAreOrdered == Spec => []ServersNeverHalt
<1>1. Init => OrderInv
  BY DEF Init, LaunchInit, BootInit, OrderInv
<1>2. OrderInv => ServersNeverHalt
  BY DEF OrderInv, ServersNeverHalt
<1> QED BY <1>1, <1>2, OrderStep, PTL DEF Spec

-----------------------------------------------------------------------------
(* Recursion, over the natural numbers *)

\* Every set of natural numbers that is not empty has a least one.
LEMMA LeastNumber == ASSUME NEW T \in SUBSET Nat, T # {} PROVE \E m \in T : \A k \in T : m <= k
<1>1. PICK m \in T : \A k \in T : ~ (<<k, m>> \in OpToRel(<, Nat))
  BY WFMin, NatLessThanWellFounded, Zenon
<1>2. \A k \in T : k < m => <<k, m>> \in OpToRel(<, Nat)
  BY DEF OpToRel
<1>3. \A k \in T : ~(k < m)
  BY <1>1, <1>2, Zenon
<1> QED BY <1>3

\* Induction, for a set.
LEMMA Induction ==
  ASSUME NEW S, 0 \in S, \A n \in Nat : n \in S => n + 1 \in S PROVE Nat \subseteq S
<1> SUFFICES ASSUME Nat \ S # {} PROVE FALSE
  OBVIOUS
<1>1. PICK m \in Nat \ S : \A k \in Nat \ S : m <= k
  BY LeastNumber
<1>2. m # 0 /\ m - 1 \in Nat
  BY <1>1
<1>3. m - 1 \in S
  BY <1>1, <1>2
<1> QED BY <1>1, <1>2, <1>3

\* A function can be defined by recursion, its step given as a function.
Iterates(f, X, x, step, n) ==
  f \in [0..n -> X] /\ f[0] = x /\ \A i \in 1..n : f[i] = step[i][f[i - 1]]

LEMMA Recursion ==
  ASSUME NEW X, NEW x \in X, NEW step \in [Nat -> [X -> X]], NEW n \in Nat
  PROVE  \E f : Iterates(f, X, x, step, n)
<1> DEFINE Is(f, k) == Iterates(f, X, x, step, k)
           T == {k \in Nat : \E f : Is(f, k)}
<1>1. 0 \in T
  <2>1. Is([i \in 0..0 |-> x], 0)
    BY DEF Iterates
  <2> QED BY <2>1
<1>2. ASSUME NEW k \in Nat, k \in T PROVE k + 1 \in T
  <2>0. PICK f : Is(f, k)
    BY <1>2
  <2>1. f \in [0..k -> X] /\ f[0] = x /\ \A i \in 1..k : f[i] = step[i][f[i - 1]]
    BY <2>0 DEF Iterates
  <2> DEFINE g == [i \in 0..(k + 1) |-> IF i <= k THEN f[i] ELSE step[k + 1][f[k]]]
  <2>2. f[k] \in X /\ step[k + 1] \in [X -> X]
    BY <2>1
  <2>3. g \in [0..(k + 1) -> X]
    BY <2>1, <2>2
  <2>4. g[0] = x
    BY <2>1
  <2>5. ASSUME NEW i \in 1..(k + 1) PROVE g[i] = step[i][g[i - 1]]
    <3>1. i - 1 \in 0..(k + 1) /\ i - 1 <= k /\ i \in 0..(k + 1)
      OBVIOUS
    <3>2. g[i - 1] = f[i - 1]
      BY <3>1
    <3>3. CASE i <= k
      <4>1. g[i] = f[i] /\ i \in 1..k
        BY <3>1, <3>3
      <4> QED BY <4>1, <3>2, <2>1
    <3>4. CASE i = k + 1
      <4>1. g[i] = step[k + 1][f[k]] /\ i - 1 = k
        BY <3>1, <3>4
      <4> QED BY <4>1, <3>2, <3>4
    <3> QED BY <3>3, <3>4
  <2>6. Is(g, k + 1)
    <3> HIDE DEF g
    <3> QED BY <2>3, <2>4, <2>5, Zenon DEF Iterates
  <2>7. k + 1 \in Nat
    OBVIOUS
  <2> HIDE DEF g, Is
  <2> QED BY <2>6, <2>7
<1> HIDE DEF T
<1>3. Nat \subseteq T
  BY <1>1, <1>2, Induction
<1> QED BY <1>3 DEF T

\* sender_compartment.c: the number of buffers of a size.
LEMMA PowerType == \A k \in 0..LogSize : Power[k] \in Nat
<1> DEFINE Body(f) == [k \in 0..LogSize |-> IF k = 0 THEN 1 ELSE 2 * f[k - 1]]
           double == [i \in Nat |-> [m \in Nat |-> 2 * m]]
<1>0. LogSize \in Nat
  BY IpcAssumption DEF IpcAssumption
<1>a. PICK f : Iterates(f, Nat, 1, double, LogSize)
  <2>1. double \in [Nat -> [Nat -> Nat]] /\ 1 \in Nat
    OBVIOUS
  <2> HIDE DEF double
  <2> QED BY <1>0, <2>1, Recursion, Zenon
<1>1. f \in [0..LogSize -> Nat] /\ f[0] = 1 /\ \A i \in 1..LogSize : f[i] = double[i][f[i - 1]]
  <2> HIDE DEF double
  <2> QED BY <1>a, Zenon DEF Iterates
<1>2. f = Body(f)
  <2> SUFFICES ASSUME NEW k \in 0..LogSize PROVE f[k] = IF k = 0 THEN 1 ELSE 2 * f[k - 1]
    BY <1>1
  <2>1. CASE k = 0
    BY <1>1, <2>1
  <2>2. CASE k # 0
    <3>1. k \in 1..LogSize /\ k - 1 \in 0..LogSize /\ k \in Nat
      BY <1>0, <2>2
    <3>2. f[k - 1] \in Nat
      BY <1>1, <3>1
    <3>3. double[k][f[k - 1]] = 2 * f[k - 1]
      BY <3>1, <3>2
    <3> QED BY <1>1, <2>2, <3>1, <3>3
  <2> QED BY <2>1, <2>2
<1>3. Power = CHOOSE g : g = Body(g)
  BY Zenon DEF Power
<1> HIDE DEF Body
<1>4. Power = Body(Power)
  BY <1>2, <1>3
<1>5. \A k \in 0..LogSize : Power[k] = IF k = 0 THEN 1 ELSE 2 * Power[k - 1]
  BY <1>4, Zenon DEF Body
<1> DEFINE T == {n \in Nat : n \in 0..LogSize => Power[n] \in Nat}
<1>6. 0 \in T
  BY <1>0, <1>5
<1>7. ASSUME NEW n \in Nat, n \in T PROVE n + 1 \in T
  <2> SUFFICES ASSUME n + 1 \in 0..LogSize PROVE Power[n + 1] \in Nat
    OBVIOUS
  <2>1. n \in 0..LogSize /\ (n + 1) - 1 = n /\ n + 1 # 0
    BY <1>0
  <2>2. Power[n] \in Nat
    BY <1>7, <2>1
  <2>3. Power[n + 1] = 2 * Power[n]
    BY <1>5, <2>1
  <2> QED BY <2>2, <2>3
<1> HIDE DEF T
<1>8. Nat \subseteq T
  BY <1>6, <1>7, Induction
<1> QED BY <1>0, <1>8 DEF T

\* Sequences put together are a sequence of what they were of.
LEMMA FlattenType ==
  ASSUME NEW X, NEW n \in Nat, NEW ss \in [1..n -> Seq(X)]
  PROVE  FlattenSeq(ss) \in Seq(X)
<1> DEFINE Body(f) == [i \in 1..Len(ss) |-> IF i = 1 THEN ss[i] ELSE f[i - 1] \o ss[i]]
<1>0. ss \in Seq(Seq(X)) /\ Len(ss) = n
  OBVIOUS
<1>1. CASE n = 0
  <2>1. ss = <<>>
    BY <1>0, <1>1
  <2>2. FlattenSeq(ss) = ss
    BY <1>0, <1>1, Zenon DEF FlattenSeq
  <2>3. <<>> \in Seq(X)
    OBVIOUS
  <2> QED BY <2>1, <2>2, <2>3
<1>2. CASE n # 0
  <2> DEFINE join == [i \in Nat |-> [s \in Seq(X) |-> IF i + 1 \in 1..n THEN s \o ss[i + 1] ELSE s]]
  <2>a. PICK f : Iterates(f, Seq(X), ss[1], join, n - 1)
    <3>1. join \in [Nat -> [Seq(X) -> Seq(X)]]
      <4>1. ASSUME NEW i \in Nat, NEW s \in Seq(X)
            PROVE  (IF i + 1 \in 1..n THEN s \o ss[i + 1] ELSE s) \in Seq(X)
        <5>1. i + 1 \in 1..n => ss[i + 1] \in Seq(X)
          OBVIOUS
        <5> QED BY <5>1, ConcatProperties
      <4> QED BY <4>1
    <3>2. ss[1] \in Seq(X) /\ n - 1 \in Nat
      BY <1>2
    <3> HIDE DEF join
    <3> QED BY <3>1, <3>2, Recursion, Zenon
  <2>1. f \in [0..(n - 1) -> Seq(X)] /\ f[0] = ss[1] /\ \A i \in 1..(n - 1) : f[i] = join[i][f[i - 1]]
    <3> HIDE DEF join
    <3> QED BY <2>a, Zenon DEF Iterates
  <2> DEFINE g == [i \in 1..n |-> f[i - 1]]
  <2>2. ASSUME NEW i \in 1..n PROVE g[i] = IF i = 1 THEN ss[i] ELSE g[i - 1] \o ss[i]
    <3>1. CASE i = 1
      BY <2>1, <3>1
    <3>2. CASE i # 1
      <4>1. i - 1 \in 1..n - 1 /\ i - 1 \in Nat /\ (i - 1) + 1 = i /\ i - 1 \in 1..n
            /\ (i - 1) - 1 \in 0..n - 1
        BY <3>2
      <4>2. f[(i - 1) - 1] \in Seq(X)
        BY <2>1, <4>1
      <4>3. f[i - 1] = f[(i - 1) - 1] \o ss[i]
        BY <2>1, <4>1, <4>2
      <4>4. g[i] = f[i - 1] /\ g[i - 1] = f[(i - 1) - 1]
        BY <4>1
      <4> QED BY <3>2, <4>3, <4>4
    <3> QED BY <3>1, <3>2
  <2>3. g = Body(g)
    <3>1. g = [i \in 1..n |-> g[i]]
      OBVIOUS
    <3> HIDE DEF g
    <3> QED BY <2>2, <3>1, <1>0
  <2> DEFINE F == CHOOSE h : h = Body(h)
  <2>4. FlattenSeq(ss) = F[n]
    BY <1>0, <1>2, Zenon DEF FlattenSeq
  <2>5. F = Body(F)
    <3> HIDE DEF Body, g
    <3> QED BY <2>3
  <2> HIDE DEF F
  <2>6. \A i \in 1..n : F[i] = IF i = 1 THEN ss[i] ELSE F[i - 1] \o ss[i]
    BY <2>5, <1>0, Zenon
  <2> DEFINE T == {k \in Nat : k \in 1..n => F[k] \in Seq(X)}
  <2>7. 0 \in T
    OBVIOUS
  <2>8. ASSUME NEW k \in Nat, k \in T PROVE k + 1 \in T
    <3> SUFFICES ASSUME k + 1 \in 1..n PROVE F[k + 1] \in Seq(X)
      OBVIOUS
    <3>0. ss[k + 1] \in Seq(X)
      OBVIOUS
    <3>1. CASE k = 0
      BY <2>6, <3>0, <3>1
    <3>2. CASE k # 0
      <4>1. F[k] \in Seq(X) /\ (k + 1) - 1 = k /\ k + 1 # 1
        BY <2>8, <3>2
      <4>2. F[k + 1] = F[k] \o ss[k + 1]
        BY <2>6, <4>1
      <4> QED BY <4>1, <4>2, <3>0, ConcatProperties
    <3> QED BY <3>1, <3>2
  <2> HIDE DEF T
  <2>9. n \in T
    BY <2>7, <2>8, Induction
  <2> QED BY <2>4, <2>9, <1>2 DEF T
<1> QED BY <1>1, <1>2

-----------------------------------------------------------------------------
(* The IPC benchmark *)

\* What the two tasks do to one another.
Ops == {Note} \cup {Item(y) : y \in Queues}

LEMMA OpIs ==
  /\ Note \in Ops /\ \A y \in Queues : Item(y) \in Ops /\ Item(y) # Note /\ Item(y)[2] = y
  /\ \A op \in Ops : op # Note => op[2] \in Queues /\ op = Item(op[2])
  BY DEF Ops, Note, Item

LEMMA TimesType == ASSUME NEW n \in Nat, NEW op \in Ops PROVE Times(n, op) \in Seq(Ops)
  BY DEF Times

\* sender_compartment.c, receiver_compartment.c: what the tasks do is a sequence
\* of notifications and of items for queues that there are.
LEMMA WorkType ==
  ASSUME VARY_QUEUE_SIZES \in BOOLEAN, VARY_BUFFER_SIZES \in BOOLEAN
  PROVE  queueSendTask \in Seq(Ops) /\ queueReceiveTask = queueSendTask
<1>0. LogSize \in Nat /\ DISCARD_RUNS \in Nat /\ 0 \in Queues /\ Queues \subseteq Nat
  BY IpcAssumption DEF IpcAssumption, Queues
<1>1. \A op \in Ops : Times(DISCARD_RUNS, op) \in Seq(Ops) /\ Times(2, op) \in Seq(Ops) /\ <<op>> \in Seq(Ops)
  BY <1>0, TimesType
<1>2. \A s, t \in Seq(Ops) : s \o t \in Seq(Ops)
  OBVIOUS
<1>3. <<>> \in Seq(Ops)
  OBVIOUS
<1>4. Notes \in Seq(Ops)
  BY <1>1, <1>2, <1>3, OpIs, Zenon DEF Notes
<1>5. FlattenSeq([i \in 1..LogSize + 1 |-> PerQueue(i - 1)]) \in Seq(Ops)
  <2> DEFINE ss == [i \in 1..LogSize + 1 |-> PerQueue(i - 1)]
  <2>1. ASSUME NEW i \in 1..LogSize + 1 PROVE PerQueue(i - 1) \in Seq(Ops)
    <3>1. i - 1 \in Queues
      BY <1>0 DEF Queues
    <3>2. Item(i - 1) \in Ops
      BY <3>1, OpIs
    <3> QED BY <1>1, <1>2, <3>2, Zenon DEF PerQueue
  <2>2. ss \in [1..(LogSize + 1) -> Seq(Ops)]
    BY <2>1
  <2>3. LogSize + 1 \in Nat
    BY <1>0
  <2> QED BY <2>2, <2>3, FlattenType, Zenon
<1>6. FlattenSeq([b \in 1..LogSize |-> PerBuffer(b)]) \in Seq(Ops)
  <2> DEFINE ss == [b \in 1..LogSize |-> PerBuffer(b)]
  <2>1. ASSUME NEW b \in 1..LogSize PROVE PerBuffer(b) \in Seq(Ops)
    <3>1. b \in Queues /\ LogSize - b \in 0..LogSize
      BY <1>0 DEF Queues
    <3>2. Item(b) \in Ops /\ Power[LogSize - b] \in Nat
      BY <3>1, OpIs, PowerType
    <3> QED BY <3>2, TimesType, Zenon DEF PerBuffer
  <2>2. ss \in [1..LogSize -> Seq(Ops)]
    BY <2>1
  <2> QED BY <1>0, <2>2, FlattenType, Zenon
<1>7. Items \in Seq(Ops)
  <2>1. Item(0) \in Ops
    BY <1>0, OpIs
  <2>2. Times(DISCARD_RUNS, Item(0)) \in Seq(Ops) /\ Times(2, Item(0)) \in Seq(Ops)
    BY <1>1, <2>1
  <2>3. QueueItems \in Seq(Ops)
    BY <1>2, <1>5, <2>2, Zenon DEF QueueItems
  <2>4. BufferItems \in Seq(Ops)
    BY <1>2, <1>3, <1>6, <2>2, Zenon DEF BufferItems
  <2> QED BY <1>2, <1>3, <2>3, <2>4, Zenon DEF Items
<1> QED BY <1>2, <1>4, <1>7, Zenon DEF queueSendTask, queueReceiveTask

Steps == Len(queueSendTask)

\* In run run, the sender is one operation ahead of the receiver.
Pending == run > 0 /\ tx[run] = rx[run] + 1 /\ rx[run] < Steps
UnderWay(op) == Pending /\ queueSendTask[tx[run]] = op

\* The main task, and the run that it is in.
MainInv ==
  /\ program = "ipc_benchmark" =>
       ~halted /\ net = "none" /\ main \in {"none", "begin", "create", "wait", "exited"}
  /\ program # "ipc_benchmark" => run = 0 /\ main \notin {"wait", "exited"}
  /\ main \in {"none", "begin"} => run = 0
  /\ run = 0 => main # "wait" /\ mainNotes = 0
  /\ program = "ipc_benchmark" /\ main = "create" => run < RUNS
  /\ run > 0 /\ (mainNotes = 1 \/ main # "wait") => rx[run] > Steps
  /\ mainNotes = 1 => main = "wait"

\* The tasks of the runs to come, of those before, and of this one: its sender is
\* at most one operation ahead.
TasksInv ==
  /\ \A i \in Runs : i > run => rx[i] = -1 /\ tx[i] = -1
  /\ \A i \in Runs : i < run => rx[i] > Steps
  /\ \A i \in Runs : i <= run =>
       /\ rx[i] \in Nat /\ tx[i] \in 0..Steps + 1
       /\ rx[i] > Steps => tx[i] >= Steps
       /\ rx[i] <= Steps => tx[i] <= Steps /\ (tx[i] = rx[i] \/ tx[i] = rx[i] + 1)

\* What is under way is all that there is.
ChannelsInv ==
  /\ notes = [i \in Runs |-> IF i = run /\ UnderWay(Note) THEN 1 ELSE 0]
  /\ queue = [y \in Queues |-> IF UnderWay(Item(y)) THEN 1 ELSE 0]

IpcInv == IpcTypeOK /\ MainInv /\ TasksInv /\ ChannelsInv

LEMMA WorkSame == ASSUME UNCHANGED build PROVE queueSendTask' = queueSendTask
  BY DEF build, queueSendTask, Notes, Items, QueueItems, BufferItems, PerQueue, PerBuffer

LEMMA ConstantFacts == /\ RUNS \in Nat /\ RUNS # 0 /\ LogSize \in Nat /\ Runs \subseteq Nat
                       /\ \A i \in Nat : i \in Runs <=> i > 0 /\ i <= RUNS
                       /\ mainQUEUE_LENGTH = 1
  BY IpcAssumption DEF IpcAssumption, Runs, mainQUEUE_LENGTH

LEMMA WorkFacts ==
  ASSUME IpcInv
  PROVE  /\ Steps \in Nat /\ queueReceiveTask = queueSendTask
         /\ \A n \in 1..Steps : queueSendTask[n] \in Ops
         /\ run \in Nat /\ run <= RUNS /\ mainNotes \in 0..1
         /\ rx \in [Runs -> Int] /\ tx \in [Runs -> Int]
         /\ \A i \in Runs : rx[i] >= -1 /\ rx[i] <= Steps + 2 /\ tx[i] >= -1 /\ tx[i] <= Steps + 1
<1>1. queueSendTask \in Seq(Ops) /\ queueReceiveTask = queueSendTask
  BY WorkType DEF IpcInv, IpcTypeOK, build
<1>2. Steps \in Nat /\ \A n \in 1..Steps : queueSendTask[n] \in Ops
  BY <1>1 DEF Steps
<1>3. run \in 0..RUNS /\ mainNotes \in 0..1
      /\ rx \in [Runs -> -1..Steps + 2] /\ tx \in [Runs -> -1..Steps + 1]
  BY <1>1 DEF IpcInv, IpcTypeOK, Steps
<1> QED BY <1>1, <1>2, <1>3, ConstantFacts

\* What is in the notifications and queues depends on little.
LEMMA SameUnderWay ==
  ASSUME UNCHANGED <<build, run>>, run > 0 => rx'[run] = rx[run] /\ tx'[run] = tx[run]
  PROVE  /\ Steps' = Steps /\ Pending' = Pending
         /\ UnderWay(Note)' = UnderWay(Note) /\ \A y \in Queues : UnderWay(Item(y))' = UnderWay(Item(y))
<1>1. queueSendTask' = queueSendTask /\ Steps' = Steps
  BY WorkSame, Zenon DEF Steps
<1>2. CASE run > 0
  BY <1>1, <1>2 DEF Pending, UnderWay, Note, Item
<1>3. CASE ~(run > 0)
  BY <1>1, <1>3 DEF Pending, UnderWay, Note, Item
<1> QED BY <1>2, <1>3

\* Nothing that the benchmark has changes but its main task's place.
LEMMA MainStep ==
  ASSUME IpcInv, UNCHANGED ipc, program' = program,
         program = "ipc_benchmark" =>
           ~halted' /\ net' = "none" /\ main' \in {"none", "begin", "create", "wait", "exited"},
         program # "ipc_benchmark" => main' \notin {"wait", "exited"},
         run > 0 => main' = main,
         program = "ipc_benchmark" /\ run = 0 => main' # "wait"
  PROVE  IpcInv'
<1>1. UNCHANGED <<build, run, rx, tx, notes, mainNotes, queue>>
  BY Zenon DEF ipc
<1>2. Steps' = Steps /\ UnderWay(Note)' = UnderWay(Note)
      /\ \A y \in Queues : UnderWay(Item(y))' = UnderWay(Item(y))
  BY <1>1, SameUnderWay
<1>3. IpcTypeOK'
  <2>1. queueSendTask' = queueSendTask /\ queueReceiveTask' = queueReceiveTask
    BY <1>1, WorkSame, Zenon DEF queueReceiveTask, queueSendTask
  <2> QED BY <1>1, <2>1 DEF IpcInv, IpcTypeOK, build
<1>4. ChannelsInv'
  BY <1>1, <1>2 DEF IpcInv, ChannelsInv
<1>5. TasksInv'
  BY <1>1, <1>2 DEF IpcInv, TasksInv
<1>6. run \in Nat /\ 0 < RUNS
  BY WorkFacts, ConstantFacts
<1>7. MainInv'
  BY <1>1, <1>2, <1>6 DEF IpcInv, MainInv
<1> QED BY <1>3, <1>4, <1>5, <1>7 DEF IpcInv

LEMMA Create == ASSUME IpcInv, CreateTasks, UNCHANGED boot PROVE IpcInv'
<1>1. /\ program = "ipc_benchmark" /\ main = "create" /\ main' = "wait" /\ run' = run + 1
      /\ rx' = [rx EXCEPT ![run + 1] = 0] /\ tx' = [tx EXCEPT ![run + 1] = 0]
      /\ UNCHANGED <<program, halted, build, notes, mainNotes, queue, net>>
  BY Zenon DEF CreateTasks, boot
<1>2. /\ Steps \in Nat /\ run \in Nat /\ run + 1 \in Runs /\ run < RUNS
      /\ rx \in [Runs -> Int] /\ tx \in [Runs -> Int] /\ mainNotes = 0
      /\ ~Pending
  BY <1>1, WorkFacts, ConstantFacts DEF IpcInv, MainInv, Pending
<1>3. queueSendTask' = queueSendTask /\ queueReceiveTask' = queueReceiveTask /\ Steps' = Steps
  BY <1>1, WorkSame, Zenon DEF queueReceiveTask, queueSendTask, Steps
<1>4. /\ rx'[run'] = 0 /\ tx'[run'] = 0
      /\ \A i \in Runs : i # run' => rx'[i] = rx[i] /\ tx'[i] = tx[i]
  BY <1>1, <1>2
<1>5. ~Pending'
  BY <1>1, <1>2, <1>4 DEF Pending
<1>6. IpcTypeOK'
  <2>1. rx' \in [Runs -> -1..Len(queueReceiveTask) + 2] /\ tx' \in [Runs -> -1..Len(queueSendTask) + 1]
    BY <1>1, <1>2, WorkFacts DEF IpcInv, IpcTypeOK, Steps
  <2> QED BY <1>1, <1>2, <1>3, <2>1, ConstantFacts DEF IpcInv, IpcTypeOK, build
<1>7. notes' = [i \in Runs |-> 0] /\ queue' = [y \in Queues |-> 0]
  BY <1>1, <1>2 DEF IpcInv, ChannelsInv, UnderWay
<1>8. ChannelsInv'
  BY <1>5, <1>7 DEF UnderWay, ChannelsInv
<1>9. TasksInv'
  <2>1. \A i \in Runs : i > run' => rx'[i] = -1 /\ tx'[i] = -1
    BY <1>1, <1>2, <1>4, ConstantFacts DEF IpcInv, TasksInv
  <2>2. ASSUME NEW i \in Runs, i < run' PROVE rx'[i] > Steps'
    <3>1. i < run \/ (i = run /\ run > 0)
      BY <1>1, <1>2, <2>2, ConstantFacts
    <3>2. rx[i] > Steps
      BY <1>1, <3>1 DEF IpcInv, TasksInv, MainInv
    <3> QED BY <1>1, <1>2, <1>3, <1>4, <2>2, <3>2, ConstantFacts
  <2>3. ASSUME NEW i \in Runs, i <= run'
        PROVE  /\ rx'[i] \in Nat /\ tx'[i] \in 0..Steps' + 1
               /\ rx'[i] > Steps' => tx'[i] >= Steps'
               /\ rx'[i] <= Steps' => tx'[i] <= Steps' /\ (tx'[i] = rx'[i] \/ tx'[i] = rx'[i] + 1)
    <3>1. CASE i = run'
      BY <1>2, <1>3, <1>4, <3>1
    <3>2. CASE i # run'
      <4>1. i <= run /\ rx'[i] = rx[i] /\ tx'[i] = tx[i]
        BY <1>1, <1>2, <1>4, <2>3, <3>2, ConstantFacts
      <4> QED BY <1>3, <4>1 DEF IpcInv, TasksInv
    <3> QED BY <3>1, <3>2
  <2> QED BY <2>1, <2>2, <2>3 DEF TasksInv
<1>10. MainInv'
  BY <1>1, <1>2 DEF IpcInv, MainInv
<1> QED BY <1>6, <1>8, <1>9, <1>10 DEF IpcInv

LEMMA EndStep == ASSUME IpcInv, RunEnds, UNCHANGED boot PROVE IpcInv'
<1>1. /\ main = "wait" /\ mainNotes > 0 /\ mainNotes' = mainNotes - 1
      /\ main' = IF run = RUNS THEN "exited" ELSE "create"
      /\ UNCHANGED <<program, halted, build, run, rx, tx, notes, queue, net>>
  BY Zenon DEF RunEnds, boot
<1>2. /\ Steps \in Nat /\ run \in Nat /\ run > 0 /\ run <= RUNS /\ mainNotes = 1 /\ mainNotes' = 0
      /\ program = "ipc_benchmark" /\ rx[run] > Steps
  BY <1>1, WorkFacts DEF IpcInv, MainInv
<1>3. /\ Steps' = Steps /\ UnderWay(Note)' = UnderWay(Note)
      /\ \A y \in Queues : UnderWay(Item(y))' = UnderWay(Item(y))
  BY <1>1, SameUnderWay
<1>4. IpcTypeOK'
  <2>1. queueSendTask' = queueSendTask /\ queueReceiveTask' = queueReceiveTask
    BY <1>1, WorkSame, Zenon DEF queueReceiveTask, queueSendTask
  <2> QED BY <1>1, <1>2, <2>1 DEF IpcInv, IpcTypeOK, build
<1>5. ChannelsInv'
  BY <1>1, <1>3 DEF IpcInv, ChannelsInv
<1>6. TasksInv'
  BY <1>1, <1>3 DEF IpcInv, TasksInv
<1>7. MainInv'
  BY <1>1, <1>2, <1>3, ConstantFacts DEF IpcInv, MainInv
<1> QED BY <1>4, <1>5, <1>6, <1>7 DEF IpcInv

\* The receiver of a run that is not over has what it waits for, or its sender is
\* not ahead.
LEMMA PendingReady == ASSUME IpcInv, Pending PROVE ReceiverReady(run)
<1>1. /\ run \in Runs /\ run > 0 /\ tx[run] = rx[run] + 1 /\ rx[run] \in Nat /\ rx[run] < Steps
      /\ Steps \in Nat
  BY WorkFacts, ConstantFacts DEF IpcInv, TasksInv, Pending
<1> DEFINE op == queueSendTask[rx[run] + 1]
<1>2. op \in Ops /\ UnderWay(op)
  BY <1>1, WorkFacts DEF UnderWay
<1>3. op = Note => notes[run] > 0
  BY <1>1, <1>2 DEF IpcInv, ChannelsInv
<1>4. op # Note => queue[op[2]] > 0
  <2> SUFFICES ASSUME op # Note PROVE queue[op[2]] > 0
    OBVIOUS
  <2>1. op[2] \in Queues /\ op = Item(op[2])
    BY <1>2, OpIs
  <2>2. UnderWay(Item(op[2]))
    BY <1>2, <2>1
  <2> HIDE DEF op
  <2> QED BY <2>1, <2>2 DEF IpcInv, ChannelsInv
<1>5. rx[run] \in 0..Steps + 1
  BY <1>1
<1> QED BY <1>3, <1>4, <1>5, WorkFacts DEF ReceiverReady, Steps

LEMMA ReceiverType ==
  ASSUME IpcInv, NEW i \in Runs, ReceiverStep(i)
  PROVE  /\ rx[i] \in 0..Steps + 1 /\ rx' = [rx EXCEPT ![i] = rx[i] + 1] /\ tx' = tx
         /\ i <= run /\ run > 0 /\ main = "wait" /\ mainNotes = 0
         /\ program = "ipc_benchmark" /\ rx[run] \in Nat
         /\ rx[i] <= Steps => i = run
<1>1. /\ rx[i] \in 0..Steps + 1 /\ rx' = [rx EXCEPT ![i] = rx[i] + 1] /\ tx' = tx
      /\ main = "wait" /\ mainNotes = 0
  BY WorkFacts, Zenon DEF ReceiverStep, ReceiverReady, MainWaits, Steps
<1>2. i <= run
  BY <1>1, WorkFacts, ConstantFacts DEF IpcInv, TasksInv
<1>3. run > 0 /\ program = "ipc_benchmark"
  BY <1>1, WorkFacts DEF IpcInv, MainInv
<1>4. rx[i] <= Steps => i = run
  BY <1>1, <1>2, WorkFacts, ConstantFacts DEF IpcInv, TasksInv
<1>5. rx[run] \in Nat
  BY <1>3, WorkFacts, ConstantFacts DEF IpcInv, TasksInv
<1> QED BY <1>1, <1>2, <1>3, <1>4, <1>5

LEMMA Receive == ASSUME IpcInv, NEW i \in Runs, ReceiverStep(i), UNCHANGED boot PROVE IpcInv'
<1>1. UNCHANGED <<program, main, halted, build, run, net>>
  BY Zenon DEF ReceiverStep, launch, boot
<1>2. queueSendTask' = queueSendTask /\ queueReceiveTask' = queueReceiveTask /\ Steps' = Steps
  BY <1>1, WorkSame, Zenon DEF queueReceiveTask, queueSendTask, Steps
<1>3. /\ rx[i] \in 0..Steps + 1 /\ rx' = [rx EXCEPT ![i] = rx[i] + 1] /\ tx' = tx
      /\ i <= run /\ run > 0 /\ main = "wait" /\ mainNotes = 0
      /\ program = "ipc_benchmark" /\ rx[run] \in Nat
      /\ rx[i] <= Steps => i = run
  BY ReceiverType
<1>4. /\ Steps \in Nat /\ run \in Nat /\ run \in Runs /\ i \in Nat
      /\ rx \in [Runs -> Int] /\ tx \in [Runs -> Int]
      /\ rx'[i] = rx[i] + 1 /\ \A j \in Runs : j # i => rx'[j] = rx[j]
  BY <1>3, WorkFacts, ConstantFacts
<1>5. rx' \in [Runs -> -1..Len(queueReceiveTask) + 2] /\ tx' \in [Runs -> -1..Len(queueSendTask) + 1]
  BY <1>3, <1>4, WorkFacts DEF IpcInv, IpcTypeOK, Steps
<1>7. TasksInv'
  <2>1. \A j \in Runs : j > run' => rx'[j] = -1 /\ tx'[j] = -1
    BY <1>1, <1>3, <1>4, ConstantFacts DEF IpcInv, TasksInv
  <2>2. \A j \in Runs : j < run' => rx'[j] > Steps'
    <3> SUFFICES ASSUME NEW j \in Runs, j < run PROVE rx'[j] > Steps
      BY <1>1, <1>2
    <3>1. rx[j] > Steps
      BY DEF IpcInv, TasksInv
    <3> QED BY <3>1, <1>3, <1>4
  <2>3. ASSUME NEW j \in Runs, j <= run'
        PROVE  /\ rx'[j] \in Nat /\ tx'[j] \in 0..Steps' + 1
               /\ rx'[j] > Steps' => tx'[j] >= Steps'
               /\ rx'[j] <= Steps' => tx'[j] <= Steps' /\ (tx'[j] = rx'[j] \/ tx'[j] = rx'[j] + 1)
    <3>1. /\ rx[j] \in Nat /\ tx[j] \in 0..Steps + 1
          /\ rx[j] > Steps => tx[j] >= Steps
          /\ rx[j] <= Steps => tx[j] <= Steps /\ (tx[j] = rx[j] \/ tx[j] = rx[j] + 1)
      BY <1>1, <2>3 DEF IpcInv, TasksInv
    <3>2. CASE j # i
      BY <1>2, <1>3, <1>4, <3>1, <3>2
    <3>3. CASE j = i /\ rx[i] >= Steps
      BY <1>2, <1>3, <1>4, <3>1, <3>3
    <3>4. CASE j = i /\ rx[i] < Steps
      <4>1. i = run /\ ReceiverReady(run)
        BY <1>3, <1>4, <3>4 DEF ReceiverStep
      <4>2. Pending
        <5> DEFINE op == queueSendTask[rx[run] + 1]
        <5>1. IF op = Note THEN notes[run] > 0 ELSE queue[op[2]] > 0
          BY <4>1, <3>4, WorkFacts DEF ReceiverReady, Steps
        <5>2. op \in Ops
          BY <1>3, <1>4, <3>4, <4>1, WorkFacts
        <5>3. op # Note => op[2] \in Queues
          BY <5>2, OpIs
        <5> HIDE DEF op
        <5> QED BY <1>4, <5>1, <5>3 DEF IpcInv, ChannelsInv, UnderWay
      <4> QED BY <1>2, <1>3, <1>4, <3>1, <3>4, <4>1, <4>2 DEF Pending
    <3> QED BY <3>2, <3>3, <3>4, <1>3, <1>4
  <2> QED BY <2>1, <2>2, <2>3 DEF TasksInv
<1>8. CASE rx[i] >= Steps
  <2>1. /\ mainNotes' = (IF rx[i] = Steps THEN 1 ELSE 0) /\ notes' = notes /\ queue' = queue
    <3>1. rx[i] >= Len(queueReceiveTask)
      BY <1>8, WorkFacts DEF Steps
    <3>2. /\ mainNotes' = mainNotes + (IF rx[i] = Len(queueReceiveTask) THEN 1 ELSE 0)
          /\ notes' = notes /\ queue' = queue
      BY <3>1 DEF ReceiverStep
    <3> QED BY <3>2, <1>3, WorkFacts DEF Steps
  <2>2. Pending' = Pending /\ tx' = tx
    BY <1>1, <1>2, <1>3, <1>4, <1>8 DEF Pending
  <2>3. ChannelsInv'
    BY <1>1, <1>2, <2>1, <2>2 DEF IpcInv, ChannelsInv, UnderWay, Note, Item
  <2>4. IpcTypeOK'
    BY <1>1, <1>5, <1>2, <2>1 DEF IpcInv, IpcTypeOK, build
  <2>5. MainInv'
    BY <1>1, <1>2, <1>3, <1>4, <2>1 DEF IpcInv, MainInv
  <2> QED BY <1>7, <2>3, <2>4, <2>5 DEF IpcInv
<1>9. CASE rx[i] < Steps
  <2> DEFINE op == queueSendTask[rx[run] + 1]
  <2>0. i = run
    BY <1>3, <1>4, <1>9
  <2>1. /\ mainNotes' = mainNotes
        /\ notes' = IF op = Note THEN [notes EXCEPT ![i] = notes[i] - 1] ELSE notes
        /\ queue' = IF op = Note THEN queue ELSE [queue EXCEPT ![op[2]] = queue[op[2]] - 1]
    <3>1. ~(rx[i] >= Len(queueReceiveTask))
      BY <1>3, <1>4, <1>9, WorkFacts DEF Steps
    <3>2. queueReceiveTask[rx[i] + 1] = op
      BY <2>0, WorkFacts
    <3> HIDE DEF op
    <3> QED BY <3>1, <3>2, Zenon DEF ReceiverStep
  <2>2. op \in Ops /\ op = queueSendTask[rx[i] + 1]
    BY <1>3, <1>4, <1>9, <2>0, WorkFacts
  <2>3. IF op = Note THEN notes[i] > 0 ELSE queue[op[2]] > 0
    <3>1. ReceiverReady(i)
      BY Zenon DEF ReceiverStep
    <3> QED BY <1>9, <2>0, <3>1, WorkFacts DEF ReceiverReady, Steps
  <2>4. op # Note => op[2] \in Queues /\ op = Item(op[2])
    BY <2>2, OpIs
  <2> HIDE DEF op
  <2>5. Pending
    BY <2>3, <2>4 DEF IpcInv, ChannelsInv, UnderWay
  <2>6. \A o : UnderWay(o) <=> o = op
    BY <2>2, <2>5, <2>0 DEF UnderWay, Pending
  <2>7. ~Pending'
    BY <1>1, <1>2, <1>3, <1>4, <2>0, <2>5 DEF Pending
  <2>8. notes' = [j \in Runs |-> 0] /\ queue' = [y \in Queues |-> 0]
    <3>1. CASE op = Note
      <4>1. notes = [j \in Runs |-> IF j = run THEN 1 ELSE 0]
        BY <2>6, <3>1 DEF IpcInv, ChannelsInv
      <4>2. queue = [y \in Queues |-> 0]
        BY <2>6, <3>1, OpIs DEF IpcInv, ChannelsInv
      <4> QED BY <2>1, <2>0, <3>1, <4>1, <4>2
    <3>2. CASE op # Note
      <4>1. notes = [j \in Runs |-> 0]
        BY <2>6, <3>2 DEF IpcInv, ChannelsInv
      <4>2. \A y \in Queues : UnderWay(Item(y)) <=> y = op[2]
        BY <2>6, <2>4, <3>2, OpIs
      <4>3. queue = [y \in Queues |-> IF y = op[2] THEN 1 ELSE 0]
        BY <4>2 DEF IpcInv, ChannelsInv
      <4>4. queue' = [queue EXCEPT ![op[2]] = queue[op[2]] - 1] /\ queue[op[2]] = 1
        BY <2>1, <2>4, <3>2, <4>3
      <4> QED BY <2>1, <2>4, <3>2, <4>1, <4>3, <4>4
    <3> QED BY <3>1, <3>2
  <2>9. ChannelsInv'
    BY <2>7, <2>8 DEF ChannelsInv, UnderWay
  <2>10. IpcTypeOK'
    <3>1. notes' \in [Runs -> 0..1] /\ queue' \in [Queues -> 0..mainQUEUE_LENGTH]
      BY <2>8, ConstantFacts
    <3> QED BY <1>1, <1>5, <1>2, <2>1, <3>1 DEF IpcInv, IpcTypeOK, build
  <2>11. MainInv'
    BY <1>1, <1>2, <1>3, <1>4, <2>1, <2>0 DEF IpcInv, MainInv
  <2> QED BY <1>7, <2>9, <2>10, <2>11 DEF IpcInv
<1> QED BY <1>3, <1>4, <1>8, <1>9

\* SendersTurn: with no receiver ready, nothing is under way.
LEMMA SenderType ==
  ASSUME IpcInv, NEW i \in Runs, SenderStep(i)
  PROVE  /\ tx[i] \in 0..Steps /\ tx' = [tx EXCEPT ![i] = tx[i] + 1] /\ rx' = rx
         /\ i <= run /\ run > 0 /\ main = "wait" /\ mainNotes = 0
         /\ program = "ipc_benchmark" /\ rx[run] \in Nat /\ run \in Runs
         /\ ~Pending
         /\ tx[i] = Steps => rx[i] > Steps
         /\ tx[i] < Steps => i = run /\ rx[i] = tx[i]
<1>1. /\ tx[i] \in 0..Steps /\ tx' = [tx EXCEPT ![i] = tx[i] + 1] /\ rx' = rx
      /\ main = "wait" /\ mainNotes = 0 /\ \A j \in Runs : ~ReceiverReady(j)
  BY Zenon DEF SenderStep, SendersTurn, MainWaits, Steps
<1>2. i <= run
  BY <1>1, WorkFacts, ConstantFacts DEF IpcInv, TasksInv
<1>3. run > 0 /\ program = "ipc_benchmark"
  BY <1>1, WorkFacts DEF IpcInv, MainInv
<1>4. rx[run] \in Nat /\ run \in Runs
  BY <1>3, WorkFacts, ConstantFacts DEF IpcInv, TasksInv
<1>5. ~Pending
  BY <1>1, <1>4, PendingReady
<1>6. rx[i] # Steps
  <2>1. rx[i] = Steps => ReceiverReady(i)
    BY WorkFacts DEF ReceiverReady, Steps
  <2> QED BY <1>1, <2>1
<1>7. /\ rx[i] \in Nat /\ Steps \in Nat /\ i \in Nat /\ run \in Nat
      /\ i < run => rx[i] > Steps
      /\ rx[i] > Steps => tx[i] >= Steps
      /\ rx[i] <= Steps => tx[i] <= Steps /\ (tx[i] = rx[i] \/ tx[i] = rx[i] + 1)
  BY <1>2, WorkFacts, ConstantFacts DEF IpcInv, TasksInv
<1>8. tx[i] = Steps => rx[i] > Steps
  BY <1>1, <1>2, <1>3, <1>5, <1>6, <1>7 DEF Pending
<1>9. tx[i] < Steps => i = run /\ rx[i] = tx[i]
  BY <1>1, <1>2, <1>3, <1>5, <1>7 DEF Pending
<1> QED BY <1>1, <1>2, <1>3, <1>4, <1>5, <1>8, <1>9

LEMMA Send == ASSUME IpcInv, NEW i \in Runs, SenderStep(i), UNCHANGED boot PROVE IpcInv'
<1>1. UNCHANGED <<program, main, build, run, mainNotes, net>>
  BY Zenon DEF SenderStep, boot
<1>2. queueSendTask' = queueSendTask /\ queueReceiveTask' = queueReceiveTask /\ Steps' = Steps
  BY <1>1, WorkSame, Zenon DEF queueReceiveTask, queueSendTask, Steps
<1>3. /\ tx[i] \in 0..Steps /\ tx' = [tx EXCEPT ![i] = tx[i] + 1] /\ rx' = rx
      /\ i <= run /\ run > 0 /\ main = "wait" /\ mainNotes = 0
      /\ program = "ipc_benchmark" /\ rx[run] \in Nat /\ run \in Runs
      /\ ~Pending
      /\ tx[i] = Steps => rx[i] > Steps
      /\ tx[i] < Steps => i = run /\ rx[i] = tx[i]
  BY SenderType
<1>4. /\ Steps \in Nat /\ run \in Nat /\ i \in Nat
      /\ rx \in [Runs -> Int] /\ tx \in [Runs -> Int]
      /\ tx'[i] = tx[i] + 1 /\ \A j \in Runs : j # i => tx'[j] = tx[j]
  BY <1>3, WorkFacts, ConstantFacts
<1>5. rx' \in [Runs -> -1..Len(queueReceiveTask) + 2] /\ tx' \in [Runs -> -1..Len(queueSendTask) + 1]
  <2>1. /\ rx \in [Runs -> -1..Len(queueReceiveTask) + 2] /\ tx \in [Runs -> -1..Steps + 1]
    BY DEF IpcInv, IpcTypeOK, Steps
  <2>2. tx[i] + 1 \in -1..Steps + 1
    BY <1>3, <1>4
  <2> QED BY <1>3, <2>1, <2>2, Zenon DEF Steps
<1>6. notes = [j \in Runs |-> 0] /\ queue = [y \in Queues |-> 0]
  BY <1>3 DEF IpcInv, ChannelsInv, UnderWay
<1>7. TasksInv'
  <2>1. \A j \in Runs : j > run' => rx'[j] = -1 /\ tx'[j] = -1
    BY <1>1, <1>3, <1>4, ConstantFacts DEF IpcInv, TasksInv
  <2>2. \A j \in Runs : j < run' => rx'[j] > Steps'
    BY <1>1, <1>2, <1>3 DEF IpcInv, TasksInv
  <2>3. ASSUME NEW j \in Runs, j <= run'
        PROVE  /\ rx'[j] \in Nat /\ tx'[j] \in 0..Steps' + 1
               /\ rx'[j] > Steps' => tx'[j] >= Steps'
               /\ rx'[j] <= Steps' => tx'[j] <= Steps' /\ (tx'[j] = rx'[j] \/ tx'[j] = rx'[j] + 1)
    <3>1. /\ rx[j] \in Nat /\ tx[j] \in 0..Steps + 1
          /\ rx[j] > Steps => tx[j] >= Steps
          /\ rx[j] <= Steps => tx[j] <= Steps /\ (tx[j] = rx[j] \/ tx[j] = rx[j] + 1)
      BY <1>1, <2>3 DEF IpcInv, TasksInv
    <3>2. CASE j # i
      BY <1>2, <1>3, <1>4, <3>1, <3>2
    <3>3. CASE j = i
      BY <1>2, <1>3, <1>4, <3>1, <3>3
    <3> QED BY <3>2, <3>3
  <2> QED BY <2>1, <2>2, <2>3 DEF TasksInv
<1>8. CASE tx[i] = Steps
  <2>1. notes' = notes /\ queue' = queue /\ halted' = halted
    BY <1>8 DEF SenderStep, Steps
  <2>2. ~Pending'
    BY <1>1, <1>2, <1>3, <1>4, <1>8 DEF Pending
  <2>3. ChannelsInv'
    BY <1>6, <2>1, <2>2 DEF ChannelsInv, UnderWay
  <2>4. IpcTypeOK'
    BY <1>1, <1>5, <1>2, <2>1 DEF IpcInv, IpcTypeOK, build
  <2>5. MainInv'
    BY <1>1, <1>2, <1>3, <2>1 DEF IpcInv, MainInv
  <2> QED BY <1>7, <2>3, <2>4, <2>5 DEF IpcInv
<1>9. CASE tx[i] < Steps
  <2>1. PICK op \in Ops : op = queueSendTask[tx[i] + 1]
    BY <1>3, <1>4, <1>9, WorkFacts
  <2>2. op # Note => op[2] \in Queues /\ op = Item(op[2])
    BY <2>1, OpIs
  <2>3. ~(op # Note /\ queue[op[2]] = mainQUEUE_LENGTH)
    BY <1>6, <2>2, ConstantFacts
  <2>4. ~(tx[i] = Len(queueSendTask))
    BY <1>3, <1>4, <1>9 DEF Steps
  <2>5. /\ notes' = IF op = Note THEN [notes EXCEPT ![run] = notes[run] + 1] ELSE notes
        /\ queue' = IF op = Note THEN queue ELSE [queue EXCEPT ![op[2]] = queue[op[2]] + 1]
        /\ ~halted'
    BY <2>1, <2>3, <2>4 DEF SenderStep
  <2>6. UnderWay(op)' /\ \A o : UnderWay(o)' => o = op
    BY <1>1, <1>2, <1>3, <1>4, <1>9, <2>1 DEF Pending, UnderWay
  <2>7. UnderWay(Note)' <=> op = Note
    BY <2>6 DEF UnderWay, Note
  <2>8. \A y \in Queues : UnderWay(Item(y))' <=> op = Item(y)
    BY <2>6 DEF UnderWay, Item
  <2>9. ChannelsInv' /\ notes' \in [Runs -> 0..1] /\ queue' \in [Queues -> 0..1]
    <3>1. CASE op = Note
      <4>1. notes' = [j \in Runs |-> IF j = run THEN 1 ELSE 0] /\ queue' = [y \in Queues |-> 0]
        BY <1>3, <1>6, <2>5, <3>1
      <4>2. \A y \in Queues : ~UnderWay(Item(y))'
        BY <2>8, <3>1, OpIs
      <4> QED BY <1>1, <2>7, <3>1, <4>1, <4>2 DEF ChannelsInv
    <3>2. CASE op # Note
      <4>1. notes' = [j \in Runs |-> 0] /\ queue' = [y \in Queues |-> IF y = op[2] THEN 1 ELSE 0]
        BY <1>6, <2>2, <2>5, <3>2
      <4>2. \A y \in Queues : UnderWay(Item(y))' <=> y = op[2]
        BY <2>2, <2>8, <3>2, OpIs
      <4> QED BY <1>1, <2>7, <3>2, <4>1, <4>2 DEF ChannelsInv
    <3> QED BY <3>1, <3>2
  <2>10. IpcTypeOK'
    BY <1>1, <1>5, <1>2, <2>9, ConstantFacts DEF IpcInv, IpcTypeOK, build
  <2>11. MainInv'
    BY <1>1, <1>2, <1>3, <2>5 DEF IpcInv, MainInv
  <2> QED BY <1>7, <2>9, <2>10, <2>11 DEF IpcInv
<1> QED BY <1>3, <1>4, <1>8, <1>9

LEMMA IpcStart == Init => IpcInv
<1> SUFFICES ASSUME Init PROVE IpcInv
  OBVIOUS
<1>1. /\ xIPCMode \in {"QUEUES", "NOTIFICATIONS", "ALL"}
      /\ VARY_QUEUE_SIZES \in BOOLEAN /\ VARY_BUFFER_SIZES \in BOOLEAN
      /\ run = 0 /\ mainNotes = 0
      /\ rx = [i \in Runs |-> -1] /\ tx = [i \in Runs |-> -1]
      /\ notes = [i \in Runs |-> 0] /\ queue = [y \in Queues |-> 0]
      /\ net = "none" /\ main = "none" /\ ~halted
  BY DEF Init, IpcInit, LaunchInit, BootInit
<1>2. Steps \in Nat /\ Len(queueReceiveTask) = Steps /\ Len(queueSendTask) = Steps
  BY <1>1, WorkType DEF Steps
<1>3. IpcTypeOK
  BY <1>1, <1>2, ConstantFacts DEF IpcTypeOK
<1>4. MainInv
  BY <1>1 DEF MainInv
<1>5. TasksInv
  BY <1>1, ConstantFacts DEF TasksInv
<1>6. ChannelsInv
  BY <1>1 DEF ChannelsInv, UnderWay, Pending
<1> QED BY <1>3, <1>4, <1>5, <1>6 DEF IpcInv

LEMMA IpcKept == IpcInv /\ [Next]_vars => IpcInv'
<1> SUFFICES ASSUME IpcInv, [Next]_vars PROVE IpcInv'
  OBVIOUS
<1>0. run \in Nat
  BY WorkFacts
<1>1. CASE UNCHANGED <<launch, boot, ipc>>
  BY <1>1, MainStep DEF launch, boot, IpcInv, MainInv
<1>2. CASE Launched
  BY <1>0, <1>2, MainStep
     DEF Launched, LaunchNext, StartScheduler, Enter, LoaderResumes, boot, IpcInv, MainInv
<1>3. CASE Booting
  <2>1. CASE EntryStep /\ UNCHANGED ipc
    <3>1. program # "ipc_benchmark" /\ program' = program /\ main' \notin {"wait", "exited"}
      BY <2>1 DEF EntryStep, Begin, IPInit, CreateWorker, Resume, IsServer
    <3>2. run = 0
      BY <3>1 DEF IpcInv, MainInv
    <3> QED BY <2>1, <3>1, <3>2, MainStep
  <2>2. CASE NetworkUp /\ UNCHANGED ipc
    <3>1. program # "ipc_benchmark" /\ program' = program /\ main' = main
      BY <2>2 DEF NetworkUp, IpcInv, MainInv
    <3> QED BY <2>2, <3>1, MainStep DEF IpcInv, MainInv
  <2>3. CASE (NetworkDown \/ MakeDisk \/ CreateServers) /\ UNCHANGED ipc
    <3>1. /\ UNCHANGED launch
          /\ program = "ipc_benchmark" => net' = net
      BY <2>3 DEF NetworkDown, MakeDisk, CreateServers, IpcInv, MainInv
    <3> QED BY <2>3, <3>1, MainStep DEF launch, IpcInv, MainInv
  <2> QED BY <1>3, <2>1, <2>2, <2>3 DEF Booting
<1>4. CASE Benchmark
  <2>0. IpcNext /\ UNCHANGED boot
    BY <1>4 DEF Benchmark
  <2>1. CASE IpcBegin
    BY <2>0, <2>1, <1>0, MainStep, ConstantFacts DEF IpcBegin, boot, ipc, IpcInv, MainInv
  <2> QED BY <2>0, <2>1, Create, EndStep, Receive, Send, Zenon DEF IpcNext
<1> QED BY <1>1, <1>2, <1>3, <1>4 DEF Next, vars, TftpRuns, Network

\* main.c, main_servers.c, TFTPServer.c, main_ipc_benchmark.c: the types of
\* whatever program was built.  The bounds of the notification values and of the
\* queues are those that the priorities keep.
THEOREM ProgramTypes == Spec => []TypeOK
<1> DEFINE Types == LaunchTypeOK /\ BootTypeOK
<1>1. Init => Types
  BY DEF Init, LaunchInit, BootInit, LaunchTypeOK, BootTypeOK, Places, Builds
<1>2. Types /\ [Next]_vars => Types'
  <2> SUFFICES ASSUME Types, [Next]_vars PROVE Types'
    OBVIOUS
  <2>1. CASE UNCHANGED <<launch, boot>>
    BY <2>1 DEF launch, boot, LaunchTypeOK, BootTypeOK
  <2>2. CASE Launched
    BY <2>2 DEF Launched, LaunchNext, StartScheduler, Enter, LoaderResumes, boot,
                LaunchTypeOK, BootTypeOK, Places
  <2>3. CASE Booting
    <3>1. CASE EntryStep
      BY <3>1 DEF EntryStep, Begin, IPInit, CreateWorker, Resume, boot, LaunchTypeOK, BootTypeOK, Places
    <3>2. CASE NetworkUp
      BY <3>2 DEF NetworkUp, LaunchTypeOK, BootTypeOK
    <3>3. CASE NetworkDown \/ MakeDisk \/ CreateServers
      BY <3>3 DEF NetworkDown, MakeDisk, CreateServers, launch, LaunchTypeOK, BootTypeOK
    <3> QED BY <2>3, <3>1, <3>2, <3>3 DEF Booting
  <2>4. CASE Benchmark
    <3>1. CASE IpcBegin \/ CreateTasks \/ RunEnds
      BY <2>4, <3>1 DEF Benchmark, IpcBegin, CreateTasks, RunEnds, boot, LaunchTypeOK, BootTypeOK, Places
    <3>2. CASE \E i \in Runs : ReceiverStep(i)
      BY <2>4, <3>2 DEF Benchmark, ReceiverStep, launch, boot, LaunchTypeOK, BootTypeOK
    <3>3. ASSUME NEW i \in Runs, SenderStep(i) PROVE Types'
      <4>1. UNCHANGED <<program, entry, sched, main, boot>>
        BY <2>4, <3>3 DEF Benchmark, SenderStep
      <4>2. halted' = halted \/ halted' \in BOOLEAN
        BY <3>3, Zenon DEF SenderStep
      <4> QED BY <4>1, <4>2 DEF boot, LaunchTypeOK, BootTypeOK
    <3> QED BY <2>4, <3>1, <3>2, <3>3 DEF Benchmark, IpcNext
  <2> QED BY <2>1, <2>2, <2>3, <2>4 DEF Next, vars, TftpRuns, Network
<1>3. Types /\ IpcInv /\ TftpTypeOK => TypeOK
  BY DEF TypeOK, IpcInv
<1> QED BY <1>1, <1>2, <1>3, IpcStart, IpcKept, ProgramsImplementTftp, TftpTypes, PTL DEF Spec

\* sender_compartment.c asserts that xQueueSend, which does not wait, succeeds:
\* no send finds its queue, of length 1, full.
QueuesNeverFull == program = "ipc_benchmark" => ~halted

\* main_ipc_benchmark.c: in every mode, however many runs there are and whatever
\* the sizes, because a sender runs only when no receiver can.
THEOREM BenchmarkNeverHalts == Spec => []QueuesNeverFull
<1>1. IpcInv => QueuesNeverFull
  BY DEF IpcInv, MainInv, QueuesNeverFull
<1> QED BY <1>1, IpcStart, IpcKept, PTL DEF Spec
===============================================================================
