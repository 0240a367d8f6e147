-------------------------------- MODULE Ecu --------------------------------
(***************************************************************************)
(* The cyber-physical application, demo/cyberphys/main_besspin.c: its five *)
(* tasks and the network event hook that FreeRTOS+TCP's IP task calls.     *)
(*                                                                         *)
(* prvMainTask waits for the network and creates the others.  When the     *)
(* network goes down the hook suspends prvSensorTask and prvCanRxTask;     *)
(* when it is back the hook notifies prvIPRestartHandlerTask, which makes  *)
(* new sockets and resumes them.  The tasks run by FreeRTOS' preemptive    *)
(* priorities on one hart: the hook, in the IP task, interrupts any of     *)
(* them, and a task runs only while none of higher priority is ready.      *)
(***************************************************************************)
EXTENDS Integers, FiniteSets

CONSTANTS MaxUp,     \* bound: network-up events
          MaxDown,   \* bound: network-down events
          MaxFail,   \* bound: task creations that find no memory
          Samples    \* sensor samples are numbered modulo this

ASSUME EcuAssumption ==
  /\ MaxUp \in Nat /\ MaxDown \in Nat /\ MaxFail \in Nat
  /\ Samples \in Nat \ {0, 1}

VARIABLES
  status,    \* kernel: the scheduling state of each task
  pc,        \* where each task is
  handle,    \* the tasks whose handle variable (xSensorTask ...) is not NULL
  notified,  \* kernel: a notification is pending for prvMainTask
  notes,     \* kernel: notification count of prvIPRestartHandlerTask
  network,   \* the last event the hook was called with
  downs,     \* network-down events so far: the stack's generation
  ups,       \* network-up events so far
  made,      \* the socket a task has created and not stored yet
  sock,      \* xSensorClientSocket, xCanRxClientSocket, xCanRxListeningSocket
  holder,    \* kernel: the holder of data_mutex, or Nobody
  tmp,       \* the sample prvSensorTask works on
  shared,    \* the sample each of gear, throttle and brake is of
  local,     \* the sample prvInfoTask's copy of each is of
  failed,    \* the tasks whose creation found no memory
  misNotify, \* history: the hook notified a NULL or deleted task
  torn       \* history: the tasks that were about to store a socket when the
             \* network last went down

tasks  == <<status, pc, handle, failed>>
notify == <<notified, notes>>
net    == <<network, downs, ups>>
socks  == <<made, sock>>
data   == <<holder, tmp, shared, local>>
ghost  == <<misNotify, torn>>
vars   == <<tasks, notify, net, socks, data, ghost>>

-----------------------------------------------------------------------------
(* The kernel *)

App      == {"main", "info", "sensor", "can", "restart"}
Task     == App \cup {"ip"}
SockUser == {"sensor", "can"}
Nobody   == "nobody"
Socket   == {"sensor", "client", "listening"}
NoSock   == -1             \* a socket is known by the generation it is of
Field    == {"gear", "throttle", "brake"}
Unset    == Samples        \* an uninitialised local

Prio == [ip |-> 8, main |-> 5, restart |-> 5, sensor |-> 4, can |-> 3, info |-> 1]

\* The sockets a task uses.
Uses(t) == IF t = "sensor" THEN {"sensor"} ELSE {"client", "listening"}

\* Where a socket is created, and where its handle is stored.
OpenPoint  == {"open_client", "open_listening", "open_twin", "open_sensor"}
StorePoint == {"store_client", "store_listening", "store_twin", "store_sensor"}
Point == {"start", "wait", "waited", "create_info", "create_sensor",
          "create_can", "create_restart", "created", "loop", "received",
          "take", "waiting", "timedout", "critical", "critical2", "give", "print",
          "resume_can", "resume_sensor"} \cup OpenPoint \cup StorePoint

\* data_mutex lends its holder the priority of the task that waits for it.
EffPrio(t) ==
  IF holder = t /\ \E u \in App \ {t} : pc[u] = "waiting" /\ status[u] = "blocked" /\ Prio[u] > Prio[t]
  THEN Prio["sensor"] ELSE Prio[t]

Runs(t) ==
  /\ status[t] = "ready"
  /\ \A u \in App : status[u] = "ready" => EffPrio(u) <= EffPrio(t)

At(t, from)       == pc[t] = from /\ Runs(t)
Goto(t, from, to) == At(t, from) /\ pc' = [pc EXCEPT ![t] = to]
Blocks(t)         == status' = [status EXCEPT ![t] = "blocked"]
Wakes(t, cond)    == status' = [status EXCEPT ![t] = IF @ = "blocked" /\ cond THEN "ready" ELSE @]

\* A blocked task's delay, timed wait or I/O ends.  What it finds is the
\* business of its next step; a mutex that did not come is remembered.
Wake(t) ==
  /\ status[t] = "blocked"
  /\ t # "restart"
  /\ status' = [status EXCEPT ![t] = "ready"]
  /\ pc' = [pc EXCEPT ![t] = IF @ = "waiting" THEN "timedout" ELSE @]
  /\ UNCHANGED <<handle, failed, notify, net, socks, data, ghost>>

\* Mutant: the values are published without the mutex.
TakeNoMutex(t) ==
  /\ t \in {"sensor", "info"}
  /\ At(t, "take") \/ At(t, "waiting")
  /\ holder' = t
  /\ pc' = [pc EXCEPT ![t] = "critical"]
  /\ UNCHANGED <<status, handle, failed, notify, net, socks, tmp, shared, local, ghost>>

\* xSemaphoreTake(data_mutex, 100 ms): at once, or wait.  A waiter that is
\* woken, by a give or by vTaskResume, tries again.
TakeMutex(t) ==
  /\ t \in {"sensor", "info"}
  /\ At(t, "take") \/ At(t, "waiting")
  /\ IF holder = Nobody
     THEN /\ holder' = t
          /\ pc' = [pc EXCEPT ![t] = "critical"]
          /\ UNCHANGED status
     ELSE /\ pc' = [pc EXCEPT ![t] = "waiting"]
          /\ Blocks(t)
          /\ UNCHANGED holder
  /\ UNCHANGED <<handle, failed, notify, net, socks, tmp, shared, local, ghost>>

\* What xSemaphoreGive(data_mutex) does besides t's own move to `to`, where
\* its next vTaskDelay blocks it if it is prvSensorTask.
Released(t) ==
  /\ holder' = Nobody
  /\ status' = [u \in Task |->
       IF u = t /\ t = "sensor" THEN "blocked"
       ELSE IF u # t /\ u \in App /\ pc[u] = "waiting" /\ status[u] = "blocked" THEN "ready"
       ELSE status[u]]

-----------------------------------------------------------------------------
(* prvMainTask *)

\* Records its handle and waits 100 ms for the sensor to power up.
MainStart ==
  /\ Goto("main", "start", "wait")
  /\ handle' = handle \cup {"main"}
  /\ Blocks("main")
  /\ UNCHANGED <<failed, notify, net, socks, data, ghost>>

\* Mutant: the notification that is already there is dropped.
MainWaitDrops ==
  /\ Goto("main", "wait", "waited")
  /\ Blocks("main")
  /\ notified' = FALSE
  /\ UNCHANGED <<handle, failed, notes, net, socks, data, ghost>>

\* xTaskNotifyWait, 60 s.
MainWait ==
  /\ At("main", "wait")
  /\ IF notified
     THEN /\ pc' = [pc EXCEPT !["main"] = "create_info"]
          /\ UNCHANGED status
     ELSE /\ pc' = [pc EXCEPT !["main"] = "waited"]
          /\ Blocks("main")
  /\ notified' = FALSE
  /\ UNCHANGED <<handle, failed, notes, net, socks, data, ghost>>

\* It returns: the network is up, or the task gives up and deletes itself.
MainWaited ==
  /\ At("main", "waited")
  /\ IF notified
     THEN /\ pc' = [pc EXCEPT !["main"] = "create_info"]
          /\ UNCHANGED status
     ELSE /\ status' = [status EXCEPT !["main"] = "deleted"]
          /\ UNCHANGED pc
  /\ notified' = FALSE
  /\ UNCHANGED <<handle, failed, notes, net, socks, data, ghost>>

\* xTaskCreate makes the task, or finds no memory for it and leaves its handle
\* as it was; the results only decide what is printed.
Create(t, from, next, withHandle) ==
  /\ Goto("main", from, next)
  /\ \/ /\ status' = [status EXCEPT ![t] = "ready"]
        /\ handle' = IF withHandle THEN handle \cup {t} ELSE handle
        /\ UNCHANGED failed
     \/ /\ Cardinality(failed) < MaxFail
        /\ failed' = failed \cup {t}
        /\ UNCHANGED <<status, handle>>
  /\ UNCHANGED <<notify, net, socks, data, ghost>>

MainCreate ==
  \/ Create("info", "create_info", "create_sensor", FALSE)
  \/ Create("sensor", "create_sensor", "create_can", TRUE)
  \/ Create("can", "create_can", "create_restart", TRUE)
  \/ Create("restart", "create_restart", "created", TRUE)

\* The report, and vTaskDelete(NULL).
MainEnd ==
  /\ At("main", "created")
  /\ status' = [status EXCEPT !["main"] = "deleted"]
  /\ UNCHANGED <<pc, handle, failed, notify, net, socks, data, ghost>>

MainTask == MainStart \/ MainWait \/ MainWaited \/ MainCreate \/ MainEnd

-----------------------------------------------------------------------------
(* prvSocketCreateSensorIP and prvSocketCreateCanRx, called by the task that *)
(* uses the sockets and by the restart handler                               *)

\* FreeRTOS_socket: a socket of the present generation of the stack ...
SocketCreate(t, from, to) ==
  /\ Goto(t, from, to)
  /\ made' = [made EXCEPT ![t] = downs]
  /\ UNCHANGED <<status, handle, failed, notify, net, sock, data, ghost>>

\* ... and the store of its handle, before which the hook may strike.
SocketStore(t, s, from, to) ==
  /\ Goto(t, from, to)
  /\ sock' = [sock EXCEPT ![s] = made[t]]
  /\ made' = [made EXCEPT ![t] = NoSock]
  /\ UNCHANGED <<status, handle, failed, notify, net, data, ghost>>

SocketCreateSensorIP(t, next) ==
  \/ SocketCreate(t, "open_sensor", "store_sensor")
  \/ SocketStore(t, "sensor", "store_sensor", next)

\* The listening socket is made twice, the second over the first; FreeRTOS_bind
\* is the work of the IP task, which is above the caller.
SocketCreateCanRx(t, next) ==
  \/ SocketCreate(t, "open_client", "store_client")
  \/ SocketStore(t, "client", "store_client", "open_listening")
  \/ SocketCreate(t, "open_listening", "store_listening")
  \/ SocketStore(t, "listening", "store_listening", "open_twin")
  \/ SocketCreate(t, "open_twin", "store_twin")
  \/ SocketStore(t, "listening", "store_twin", next)

-----------------------------------------------------------------------------
(* prvSensorTask *)

SensorStart == SocketCreateSensorIP("sensor", "loop")

\* iic_receive and the vTaskDelay after it block.
SensorReceive ==
  /\ Goto("sensor", "loop", "received")
  /\ Blocks("sensor")
  /\ UNCHANGED <<handle, failed, notify, net, socks, data, ghost>>

\* iic_receive failed: wait, and at IIC_RESET_ERROR_THRESHOLD errors reset the
\* driver, which is the business of module Iic.
SensorError ==
  /\ Goto("sensor", "received", "loop")
  /\ Blocks("sensor")
  /\ UNCHANGED <<handle, failed, notify, net, socks, data, ghost>>

\* Five bytes came: tmp_gear, tmp_throttle and tmp_brake are of a new sample
\* and sent.  (throttle_raw and brake_raw, which are written with no lock and
\* only printed, are left out.)
SensorProcess ==
  /\ Goto("sensor", "received", "take")
  /\ tmp' = (tmp + 1) % Samples
  /\ UNCHANGED <<status, handle, failed, notify, net, socks, holder, shared, local, ghost>>

\* The three assignments, which the hook may interrupt.
SensorPublish ==
  \/ /\ Goto("sensor", "critical", "critical2")
     /\ shared' = [shared EXCEPT !["gear"] = tmp]
     /\ UNCHANGED <<status, handle, failed, notify, net, socks, holder, tmp, local, ghost>>
  \/ /\ Goto("sensor", "critical2", "give")
     /\ shared' = [shared EXCEPT !["throttle"] = tmp, !["brake"] = tmp]
     /\ UNCHANGED <<status, handle, failed, notify, net, socks, holder, tmp, local, ghost>>

\* Mutant: the loop delays before it gives the mutex back.
SensorGiveLate ==
  /\ At("sensor", "give")
  /\ \/ /\ status["info"] # "absent"
        /\ Blocks("sensor")
        /\ UNCHANGED <<pc, holder>>
     \/ /\ Released("sensor")
        /\ pc' = [pc EXCEPT !["sensor"] = "loop"]
  /\ UNCHANGED <<handle, failed, notify, net, socks, tmp, shared, local, ghost>>

\* xSemaphoreGive, then vTaskDelay(50 ms) and round again.
SensorGive ==
  /\ Goto("sensor", "give", "loop")
  /\ Released("sensor")
  /\ UNCHANGED <<handle, failed, notify, net, socks, tmp, shared, local, ghost>>

\* The mutex did not come in 100 ms: nothing is published this time.
SensorGivesUp ==
  /\ Goto("sensor", "timedout", "loop")
  /\ Blocks("sensor")
  /\ UNCHANGED <<handle, failed, notify, net, socks, data, ghost>>

SensorTask ==
  SensorStart \/ SensorReceive \/ SensorError \/ SensorProcess
    \/ SensorPublish \/ SensorGive \/ SensorGivesUp

-----------------------------------------------------------------------------
(* prvInfoTask *)

InfoStart ==
  /\ Goto("info", "start", "take")
  /\ UNCHANGED <<status, handle, failed, notify, net, socks, data, ghost>>

\* Copies the values over, one by one.
InfoCopy ==
  \/ /\ Goto("info", "critical", "critical2")
     /\ local' = [local EXCEPT !["throttle"] = shared["throttle"]]
     /\ UNCHANGED <<status, handle, failed, notify, net, socks, holder, tmp, shared, ghost>>
  \/ /\ Goto("info", "critical2", "give")
     /\ local' = [local EXCEPT !["brake"] = shared["brake"], !["gear"] = shared["gear"]]
     /\ UNCHANGED <<status, handle, failed, notify, net, socks, holder, tmp, shared, ghost>>

InfoGive ==
  /\ Goto("info", "give", "print")
  /\ Released("info")
  /\ UNCHANGED <<handle, failed, notify, net, socks, tmp, shared, local, ghost>>

\* No mutex in 100 ms: it prints what its locals hold.
InfoGivesUp ==
  /\ Goto("info", "timedout", "print")
  /\ UNCHANGED <<status, handle, failed, notify, net, socks, data, ghost>>

InfoPrint ==
  /\ Goto("info", "print", "take")
  /\ Blocks("info")
  /\ UNCHANGED <<handle, failed, notify, net, socks, data, ghost>>

InfoTask == InfoStart \/ InfoCopy \/ InfoGive \/ InfoGivesUp \/ InfoPrint

-----------------------------------------------------------------------------
(* prvCanRxTask *)

CanStart == SocketCreateCanRx("can", "loop")

\* process_j1939 is called with the listening socket of this moment and
\* waits in it for a message or the time-out.
CanReceive ==
  /\ Goto("can", "loop", "received")
  /\ Blocks("can")
  /\ UNCHANGED <<handle, failed, notify, net, socks, data, ghost>>

\* A heartbeat request is answered through the client socket; other messages
\* and time-outs are not.  Either way the loop goes round.
CanReply ==
  /\ Goto("can", "received", "loop")
  /\ UNCHANGED <<status, handle, failed, notify, net, socks, data, ghost>>

CanTask == CanStart \/ CanReceive \/ CanReply

-----------------------------------------------------------------------------
(* prvIPRestartHandlerTask *)

\* Mutant: the handler does not wait for a notification.
RestartTakeAnyway ==
  /\ Goto("restart", "start", "open_client")
  /\ notes' = notes - 1
  /\ UNCHANGED <<status, handle, failed, notified, net, socks, data, ghost>>

\* ulTaskNotifyTake(pdFALSE, portMAX_DELAY): one notification, or wait.
RestartTake ==
  /\ At("restart", "start")
  /\ IF notes > 0
     THEN /\ notes' = notes - 1
          /\ pc' = [pc EXCEPT !["restart"] = "open_client"]
          /\ UNCHANGED status
     ELSE /\ Blocks("restart")
          /\ UNCHANGED <<notes, pc>>
  /\ UNCHANGED <<handle, failed, notified, net, socks, data, ghost>>

\* Mutant: the sensor's socket is not made anew.
RestartOpenCanOnly ==
  \/ SocketCreateCanRx("restart", "open_sensor")
  \/ /\ Goto("restart", "open_sensor", "resume_can")
     /\ UNCHANGED <<status, handle, failed, notify, net, socks, data, ghost>>

RestartOpen ==
  \/ SocketCreateCanRx("restart", "open_sensor")
  \/ SocketCreateSensorIP("restart", "resume_can")

\* Mutant: only the sensor is resumed.
ResumeSensorOnly ==
  \/ /\ Goto("restart", "resume_can", "resume_sensor")
     /\ UNCHANGED <<status, handle, failed, notify, net, socks, data, ghost>>
  \/ /\ Goto("restart", "resume_sensor", "start")
     /\ status' = [status EXCEPT !["sensor"] = IF @ = "suspended" THEN "ready" ELSE @]
     /\ UNCHANGED <<handle, failed, notify, net, socks, data, ghost>>

\* vTaskResume does nothing to a task that is not suspended.
RestartResume ==
  \/ /\ Goto("restart", "resume_can", "resume_sensor")
     /\ status' = [status EXCEPT !["can"] = IF @ = "suspended" THEN "ready" ELSE @]
     /\ UNCHANGED <<handle, failed, notify, net, socks, data, ghost>>
  \/ /\ Goto("restart", "resume_sensor", "start")
     /\ status' = [status EXCEPT !["sensor"] = IF @ = "suspended" THEN "ready" ELSE @]
     /\ UNCHANGED <<handle, failed, notify, net, socks, data, ghost>>

RestartTask == RestartTake \/ RestartOpen \/ RestartResume

-----------------------------------------------------------------------------
(* vApplicationIPNetworkEventHook, in the IP task, above all the others *)

IpRuns == status["ip"] # "suspended"

\* eNetworkUp: the restart handler is notified if both tasks exist, else
\* prvMainTask is - through whatever its handle variable holds.
NetworkUp ==
  /\ IpRuns /\ network = "down" /\ ups < MaxUp
  /\ network' = "up"
  /\ ups' = ups + 1
  /\ IF SockUser \subseteq handle
     THEN /\ misNotify' = (misNotify \/ "restart" \notin handle)
          /\ notes' = notes + (IF "restart" \in handle THEN 1 ELSE 0)
          /\ Wakes("restart", pc["restart"] = "start")
          /\ UNCHANGED notified
     ELSE /\ misNotify' = (misNotify \/ "main" \notin handle \/ status["main"] = "deleted")
          /\ notified' = (notified \/ ("main" \in handle /\ status["main"] # "deleted"))
          /\ Wakes("main", pc["main"] = "waited")
          /\ UNCHANGED notes
  /\ UNCHANGED <<pc, handle, failed, downs, socks, data, torn>>

\* eNetworkDown: suspend the two tasks, then startNetwork.  A NULL handle
\* makes vTaskSuspend suspend the caller, the IP task, there and then.
NetworkDown ==
  /\ IpRuns /\ downs < MaxDown
  /\ network' = "down"
  /\ downs' = downs + 1
  /\ status' = [t \in Task |->
       IF \/ t = "sensor" /\ "sensor" \in handle
          \/ t = "can" /\ SockUser \subseteq handle
          \/ t = "ip" /\ ~(SockUser \subseteq handle)
       THEN "suspended" ELSE status[t]]
  /\ torn' = {t \in SockUser : pc[t] \in StorePoint}
  /\ UNCHANGED <<pc, handle, failed, notify, ups, socks, data, misNotify>>

-----------------------------------------------------------------------------
(* Specification *)

\* main_besspin has started the network and created prvMainTask.
Init ==
  /\ status = [t \in Task |-> CASE t = "main" -> "ready" [] t = "ip" -> "blocked" [] OTHER -> "absent"]
  /\ pc = [t \in Task |-> CASE t = "sensor" -> "open_sensor" [] t = "can" -> "open_client" [] OTHER -> "start"]
  /\ handle = {}
  /\ notified = FALSE /\ notes = 0
  /\ network = "down" /\ downs = 0 /\ ups = 0
  /\ made = [t \in SockUser \cup {"restart"} |-> NoSock]
  /\ sock = [s \in Socket |-> NoSock]
  /\ holder = Nobody /\ tmp = 0
  /\ shared = [f \in Field |-> 0] /\ local = [f \in Field |-> Unset]
  /\ failed = {}
  /\ misNotify = FALSE /\ torn = {}

Step ==
  \/ MainTask
  \/ SensorTask
  \/ InfoTask
  \/ CanTask
  \/ RestartTask
  \/ \E t \in {"sensor", "info"} : TakeMutex(t)

Next ==
  \/ Step
  \/ \E t \in App : Wake(t)
  \/ NetworkUp
  \/ NetworkDown

Spec == Init /\ [][Next]_vars

\* The hart runs while a task is ready, and what a task waits for with a
\* time-out ends.  The network need not come up.
Fairness ==
  /\ WF_vars(Step)
  /\ \A t \in App : WF_vars(Wake(t))

FairSpec == Spec /\ Fairness

-----------------------------------------------------------------------------
(* Properties *)

\* Type invariant of the application's state.
TypeOK ==
  /\ status \in [Task -> {"absent", "ready", "blocked", "suspended", "deleted"}]
  /\ pc \in [Task -> Point]
  /\ handle \subseteq App \ {"info"}
  /\ notified \in BOOLEAN /\ notes \in 0..MaxUp
  /\ network \in {"up", "down"} /\ downs \in 0..MaxDown /\ ups \in 0..MaxUp
  /\ made \in [SockUser \cup {"restart"} -> NoSock..MaxDown]
  /\ sock \in [Socket -> NoSock..MaxDown]
  /\ holder \in {Nobody, "sensor", "info"}
  /\ tmp \in 0..Samples - 1
  /\ shared \in [Field -> 0..Samples - 1] /\ local \in [Field -> 0..Samples]
  /\ failed \subseteq App
  /\ misNotify \in BOOLEAN /\ torn \subseteq SockUser

\* What prvInfoTask prints as gear, throttle and brake was published together
\* (main_besspin.c:551-557 and 387-395), whenever the network hook suspends
\* prvSensorTask and whenever either task preempts the other.
SnapshotConsistent ==
  pc["info"] = "print" => local["gear"] = local["throttle"] /\ local["brake"] = local["throttle"]

\* As long as the network never went down prvInfoTask never finds data_mutex
\* taken, so it never prints its locals before they are set: prvSensorTask is
\* above it and never blocks with the mutex held.
InfoNeverWaits ==
  downs = 0 => pc["info"] \notin {"waiting", "timedout"}

\* When the restart handler has nothing left to do and the network is up, the
\* tasks it restarts are running again, each on sockets of the present stack -
\* but for one that was suspended between the creation of a socket and the
\* store of its handle: it stores the old one over the handler's.
RestartCompletes ==
  (network = "up" /\ status["restart"] = "blocked" /\ ~misNotify) =>
    \A t \in SockUser :
      /\ status[t] # "suspended"
      /\ t \notin torn => \A s \in Uses(t) : sock[s] \in {downs, NoSock}

\* A task that has its sockets never gets the processor with one older than the
\* last network restart, unless the network is down at that moment: the handler
\* is above it.  The exception is the same.
NoStaleSocketWhenUp ==
  [][\A t \in SockUser \ torn :
       (network = "up" /\ pc'[t] # pc[t] /\ status[t] = "ready" /\ ~misNotify
          /\ pc[t] \notin OpenPoint \cup StorePoint /\ "restart" \in handle)
         => \A s \in Uses(t) : sock[s] = downs]_vars

\* "Suspended tasks that use sockets, recreate the sockets after a TCP/IP
\* stack restarts, then resume the tasks" (main_besspin.c:311-314): only the
\* users of sockets are ever suspended.
SuspendsOnlySocketUsers ==
  \A t \in Task : status[t] = "suspended" => t \in SockUser

\* The same comment: a task is resumed only with sockets created after the
\* restart that it was suspended for.
ResumedAfterRecreation ==
  [][\A t \in SockUser :
       (status[t] = "suspended" /\ status'[t] = "ready")
          => \A s \in Uses(t) : sock[s] = downs]_vars

\* Once the network is up and the restart handler exists, a suspended task is
\* resumed, unless the network goes down again.
SuspendedAreResumed ==
  \A t \in SockUser :
    (network = "up" /\ status[t] = "suspended" /\ "restart" \in handle /\ ~misNotify)
       ~> (status[t] # "suspended" \/ network = "down")

\* If prvMainTask has not given up when the network comes up, prvSensorTask is
\* made and begins to work, whatever becomes of the other tasks - unless there
\* was no memory for it, or the network suspends it before it begins.
NetworkUpStartsSensor ==
  (notified /\ status["main"] # "deleted")
     ~> \/ "sensor" \in failed
        \/ "sensor" \in handle /\ (pc["sensor"] # "open_sensor" \/ status["sensor"] = "suspended")
=============================================================================
