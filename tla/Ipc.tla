---------------------------------- MODULE Ipc ----------------------------------
(***************************************************************************)
(* The IPC benchmark: main_ipc_benchmark.c, sender_compartment.c and       *)
(* receiver_compartment.c.  In every run the main task makes a receiver    *)
(* and a sender and waits for a notification; these two exchange task      *)
(* notifications and queue items, which the sender never waits to send.    *)
(*                                                                         *)
(* What a task does with the other one is a sequence of operations, read   *)
(* from the loops of its function; the loops of the two must agree, and    *)
(* the priorities must keep the queues, of length 1, from being full.      *)
(***************************************************************************)
EXTENDS Launch, Integers, SequencesExt

CONSTANTS RUNS, DISCARD_RUNS,
          LogSize   \* IPC_TOTAL_SIZE is 2^LogSize

ASSUME IpcAssumption == RUNS \in Nat \ {0} /\ DISCARD_RUNS \in Nat /\ LogSize \in Nat

VARIABLES
  xIPCMode,           \* what is measured
  VARY_QUEUE_SIZES, VARY_BUFFER_SIZES,   \* the build
  run,                \* the run that the main task is in
  rx, tx,             \* per run, the operations done by its two tasks; -1: not made
  notes,              \* per run, the notification value of its receiver
  mainNotes,          \* the notification value of the main task
  queue               \* per queue, the items in it

build == <<xIPCMode, VARY_QUEUE_SIZES, VARY_BUFFER_SIZES>>
ipc == <<build, run, rx, tx, notes, mainNotes, queue>>

Runs   == 1..RUNS
Queues == 0..LogSize
mainQUEUE_LENGTH == 1

-----------------------------------------------------------------------------
(* The operations of the two tasks, in order *)

Times(n, op) == [i \in 1..n |-> op]
Note    == <<"notification", 0>>
Item(y) == <<"item", y>>

\* Both modes but QUEUES begin with notifications: some to warm up, and one.
Notes == IF xIPCMode = "QUEUES" THEN <<>> ELSE Times(DISCARD_RUNS, Note) \o <<Note>>

Power[k \in 0..LogSize] == IF k = 0 THEN 1 ELSE 2 * Power[k - 1]

\* Then queues of every size, or one, on which the whole amount is sent (bound:
\* in two items); and in buffers of every size, each on the queue of its size.
PerQueue(y)  == Times(DISCARD_RUNS, Item(y)) \o <<Item(y)>>
PerBuffer(b) == Times(Power[LogSize - b], Item(b))

QueueItems ==
  IF VARY_QUEUE_SIZES THEN FlattenSeq([i \in 1..LogSize + 1 |-> PerQueue(i - 1)])
  ELSE Times(DISCARD_RUNS, Item(0)) \o Times(2, Item(0))
BufferItems ==
  IF VARY_BUFFER_SIZES
  THEN Times(DISCARD_RUNS, Item(0)) \o FlattenSeq([b \in 1..LogSize |-> PerBuffer(b)])
  ELSE <<>>

Items == IF xIPCMode = "NOTIFICATIONS" THEN <<>> ELSE QueueItems \o BufferItems

\* The loops of the two functions are the same.  A task that has done them all
\* has one more step, or two: the receiver notifies the main task, and both
\* delete themselves.
queueSendTask    == Notes \o Items
queueReceiveTask == Notes \o Items

IpcTypeOK ==
  /\ xIPCMode \in {"QUEUES", "NOTIFICATIONS", "ALL"}
  /\ VARY_QUEUE_SIZES \in BOOLEAN /\ VARY_BUFFER_SIZES \in BOOLEAN
  /\ run \in 0..RUNS /\ mainNotes \in 0..1
  /\ rx \in [Runs -> -1..Len(queueReceiveTask) + 2]
  /\ tx \in [Runs -> -1..Len(queueSendTask) + 1]
  /\ notes \in [Runs -> 0..1] /\ queue \in [Queues -> 0..mainQUEUE_LENGTH]

\* Bound: not the build that varies the buffers alone, whose loops use queues
\* that are not made.
IpcInit ==
  /\ xIPCMode \in {"QUEUES", "NOTIFICATIONS", "ALL"}
  /\ VARY_QUEUE_SIZES \in BOOLEAN /\ VARY_BUFFER_SIZES \in BOOLEAN
  /\ VARY_BUFFER_SIZES => VARY_QUEUE_SIZES
  /\ run = 0 /\ mainNotes = 0
  /\ rx = [i \in Runs |-> -1] /\ tx = [i \in Runs |-> -1]
  /\ notes = [i \in Runs |-> 0] /\ queue = [y \in Queues |-> 0]

-----------------------------------------------------------------------------
(* The main task, which has the highest priority *)

\* The queues are made, the priority is raised, and a scheduler that prvLoader
\* suspended resumed.
IpcBegin ==
  /\ program = "ipc_benchmark" /\ main = "begin"
  /\ sched' = "running" /\ main' = "create"
  /\ UNCHANGED <<program, entry, halted, ipc>>

CreateTasks ==
  /\ TasksRun /\ program = "ipc_benchmark" /\ main = "create"
  /\ main' = "wait" /\ run' = run + 1
  /\ rx' = [rx EXCEPT ![run + 1] = 0] /\ tx' = [tx EXCEPT ![run + 1] = 0]
  /\ UNCHANGED <<program, entry, sched, halted, build, notes, mainNotes, queue>>

\* The run is over; after the last one the program exits.
RunEnds ==
  /\ TasksRun /\ main = "wait" /\ mainNotes > 0
  /\ mainNotes' = mainNotes - 1
  /\ main' = IF run = RUNS THEN "exited" ELSE "create"
  /\ UNCHANGED <<program, entry, sched, halted, build, run, rx, tx, notes, queue>>

-----------------------------------------------------------------------------
(* The receivers and senders, of this run and of those before it *)

MainWaits == main = "wait" /\ mainNotes = 0

\* A receiver that is made and not deleted, and has what it waits for.
ReceiverReady(i) ==
  /\ rx[i] \in 0..Len(queueReceiveTask) + 1
  /\ rx[i] < Len(queueReceiveTask) =>
       LET op == queueReceiveTask[rx[i] + 1]
       IN  IF op = Note THEN notes[i] > 0 ELSE queue[op[2]] > 0

ReceiverStep(i) ==
  /\ TasksRun /\ MainWaits /\ ReceiverReady(i)
  /\ rx' = [rx EXCEPT ![i] = @ + 1]
  /\ IF rx[i] >= Len(queueReceiveTask)
     THEN /\ mainNotes' = mainNotes + (IF rx[i] = Len(queueReceiveTask) THEN 1 ELSE 0)
          /\ UNCHANGED <<notes, queue>>
     ELSE LET op == queueReceiveTask[rx[i] + 1]
          IN  /\ notes' = IF op = Note THEN [notes EXCEPT ![i] = @ - 1] ELSE notes
              /\ queue' = IF op = Note THEN queue ELSE [queue EXCEPT ![op[2]] = @ - 1]
              /\ UNCHANGED mainNotes
  /\ UNCHANGED <<launch, build, run, tx>>

\* Mutant: the priority of the sender is that of the receiver.
SendersTurnSame == MainWaits

\* The priorities: no sender runs while the main task or a receiver can.
SendersTurn == MainWaits /\ \A j \in Runs : ~ReceiverReady(j)

\* xTaskNotifyGive to params->receiverTask, which is the receiver of this run,
\* or xQueueSend, which must not find the queue full.
SenderStep(i) ==
  /\ TasksRun /\ SendersTurn
  /\ tx[i] \in 0..Len(queueSendTask)
  /\ tx' = [tx EXCEPT ![i] = @ + 1]
  /\ IF tx[i] = Len(queueSendTask) THEN UNCHANGED <<notes, queue, halted>>
     ELSE LET op   == queueSendTask[tx[i] + 1]
              full == op # Note /\ queue[op[2]] = mainQUEUE_LENGTH
          IN  /\ notes' = IF op = Note THEN [notes EXCEPT ![run] = @ + 1] ELSE notes
              /\ queue' = IF op = Note \/ full THEN queue ELSE [queue EXCEPT ![op[2]] = @ + 1]
              /\ halted' = full
  /\ UNCHANGED <<program, entry, sched, main, build, run, rx, mainNotes>>

IpcNext == IpcBegin \/ CreateTasks \/ RunEnds \/ \E i \in Runs : ReceiverStep(i) \/ SenderStep(i)
================================================================================
