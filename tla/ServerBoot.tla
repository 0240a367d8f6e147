------------------------------ MODULE ServerBoot ------------------------------
(***************************************************************************)
(* The start of the network servers: main_servers.c and main_peekpoke.c.   *)
(*                                                                         *)
(* The entry function initialises the TCP stack and creates the task that  *)
(* will run the TCP servers; the network event hook, called by the IP task *)
(* at a time nobody knows, notifies that task through a handle that is     *)
(* NULL until it is created.  The IP task has a higher priority than all   *)
(* the tasks here, so a call of the hook is one step.                      *)
(***************************************************************************)
EXTENDS Launch

VARIABLES
  net,       \* the TCP stack: "none" before FreeRTOS_IPInit, then "down" or "up"
  worker,    \* prvServerWorkTask; xServerWorkTaskHandle is NULL while it is "none"
  notified,  \* the notification value of the worker is not 0
  created,   \* xTasksAlreadyCreated, the hook's static
  disk       \* the worker has mounted the disk

boot == <<net, worker, notified, created, disk>>

BootTypeOK ==
  /\ net \in {"none", "down", "up"}
  /\ worker \in {"none", "created", "wait", "serving"}
  /\ notified \in BOOLEAN /\ created \in BOOLEAN /\ disk \in BOOLEAN

BootInit ==
  net = "none" /\ worker = "none" /\ notified = FALSE /\ created = FALSE /\ disk = FALSE

IsServer == program \in {"servers", "peekpoke"}

-----------------------------------------------------------------------------
(* The entry functions *)

\* Mutant: main_servers leaves the scheduler running.
BeginRunning ==
  /\ IsServer /\ main = "begin"
  /\ main' = "ipinit"
  /\ UNCHANGED <<program, entry, sched, halted, boot>>

\* main_servers suspends the scheduler if it runs; main_peekpoke does not.
Begin ==
  /\ IsServer /\ main = "begin"
  /\ main' = "ipinit"
  /\ sched' = IF program = "servers" /\ sched = "running" THEN "suspended" ELSE sched
  /\ UNCHANGED <<program, entry, halted, boot>>

\* FreeRTOS_IPInit creates the IP task, which brings the network up.
IPInit ==
  /\ IsServer /\ main = "ipinit"
  /\ main' = "create" /\ net' = "down"
  /\ UNCHANGED <<program, entry, sched, halted, worker, notified, created, disk>>

\* xTaskCreate(prvServerWorkTask): the last that main_peekpoke does.
CreateWorker ==
  /\ IsServer /\ main = "create"
  /\ worker' = "created"
  /\ main' = IF program = "servers" THEN "resume" ELSE "returned"
  /\ UNCHANGED <<program, entry, sched, halted, net, notified, created, disk>>

\* The end of main_servers: a scheduler that is suspended is resumed, and the
\* function does not return.
Resume ==
  /\ main = "resume" /\ program = "servers"
  /\ IF sched = "suspended" THEN sched' = "running" /\ main' = "spins"
     ELSE main' = "returned" /\ UNCHANGED sched
  /\ UNCHANGED <<program, entry, halted, boot>>

EntryStep == Begin \/ IPInit \/ CreateWorker \/ Resume

-----------------------------------------------------------------------------
(* The network event hook, in the IP task *)

\* The first time the network is up, the servers that have tasks of their own
\* are started, by main_servers, and the worker is notified: main_peekpoke
\* does that only if the worker's handle is not NULL, and the kernel asserts it.
StartsServers == net' = "up" /\ ~created

NetworkUp ==
  /\ TasksRun /\ net = "down"
  /\ net' = "up" /\ created' = TRUE
  /\ notified' = (notified \/ (~created /\ worker # "none"))
  /\ halted' = (~created /\ worker = "none" /\ program = "servers")
  /\ UNCHANGED <<program, entry, sched, main, worker, disk>>

NetworkDown ==
  /\ TasksRun /\ net = "up"
  /\ net' = "down"
  /\ UNCHANGED <<launch, worker, notified, created, disk>>

-----------------------------------------------------------------------------
(* prvServerWorkTask *)

\* At the idle priority it makes the disk, in main_servers, and then raises
\* its priority.  (Bound: there is memory for the disk and for the servers.)
MakeDisk ==
  /\ TasksRun /\ worker = "created"
  /\ worker' = "wait" /\ disk' = (program = "servers")
  /\ UNCHANGED <<launch, net, notified, created>>

\* It waits for the notification, creates the servers and works for ever.
CreateServers ==
  /\ TasksRun /\ worker = "wait" /\ notified
  /\ worker' = "serving" /\ notified' = FALSE
  /\ UNCHANGED <<launch, net, created, disk>>

BootNext == EntryStep \/ NetworkUp \/ NetworkDown \/ MakeDisk \/ CreateServers

-----------------------------------------------------------------------------
\* The hook came before the worker existed, and no other one will notify it:
\* main_peekpoke as a task of its own does not suspend the scheduler.
StartMissed == program = "peekpoke" /\ created /\ ~notified /\ worker # "serving"
===============================================================================
