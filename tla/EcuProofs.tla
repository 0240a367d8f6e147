------------------------------- MODULE EcuProofs -------------------------------
(***************************************************************************)
(* The cyber-physical application for any number of network events and of  *)
(* failed creations, and any samples: proofs about module Ecu.             *)
(***************************************************************************)
EXTENDS Ecu, TLAPS

\* Every notification of the restart handler is for a network-up event.
EventInv == TypeOK /\ notes <= ups

LEMMA EventInit == Init => EventInv
<1> SUFFICES ASSUME Init PROVE EventInv
  OBVIOUS
<1> USE EcuAssumption DEF EcuAssumption
<1>1. status \in [Task -> {"absent", "ready", "blocked", "suspended", "deleted"}]
      /\ pc \in [Task -> Point]
  BY DEF Init, Point, OpenPoint
<1>2. /\ made \in [SockUser \cup {"restart"} -> NoSock..MaxDown]
      /\ sock \in [Socket -> NoSock..MaxDown]
  BY DEF Init, NoSock
<1>3. shared \in [Field -> 0..Samples - 1] /\ local \in [Field -> 0..Samples] /\ tmp \in 0..Samples - 1
  BY DEF Init, Unset
<1>4. /\ handle = {} /\ notified = FALSE /\ notes = 0 /\ network = "down" /\ downs = 0 /\ ups = 0
      /\ holder = Nobody /\ failed = {} /\ misNotify = FALSE /\ torn = {}
  BY DEF Init
<1>5. handle \subseteq App \ {"info"} /\ notes \in 0..MaxUp /\ downs \in 0..MaxDown /\ ups \in 0..MaxUp
      /\ failed \subseteq App /\ torn \subseteq SockUser /\ notes <= ups
  BY <1>4
<1> HIDE DEF EcuAssumption
<1> QED BY <1>1, <1>2, <1>3, <1>4, <1>5 DEF EventInv, TypeOK

\* What the steps that create and store sockets have in common.
OpenBy(t) ==
  /\ Runs(t)
  /\ pc[t] \in OpenPoint \cup StorePoint
  /\ \E to \in Point : pc' = [pc EXCEPT ![t] = to] /\ (t = "sensor" => to \in StorePoint \cup {"loop"})
  /\ UNCHANGED <<status, handle, failed, notify, net, data, ghost>>

LEMMA Opens ==
  /\ SensorStart => OpenBy("sensor")
  /\ CanStart => OpenBy("can")
  /\ RestartOpen => OpenBy("restart")
<1>1. ASSUME NEW t, NEW next \in Point, SocketCreateCanRx(t, next), t # "sensor" PROVE OpenBy(t)
  BY <1>1 DEF SocketCreateCanRx, SocketCreate, SocketStore, Goto, At, OpenBy, OpenPoint, StorePoint, Point
<1>2. ASSUME NEW t, NEW next \in Point, SocketCreateSensorIP(t, next), t = "sensor" => next = "loop"
      PROVE OpenBy(t)
  BY <1>2 DEF SocketCreateSensorIP, SocketCreate, SocketStore, Goto, At, OpenBy, OpenPoint, StorePoint, Point
<1>3. {"loop", "open_sensor", "resume_can"} \subseteq Point
  BY DEF Point, OpenPoint
<1> QED BY <1>1, <1>2, <1>3 DEF SensorStart, CanStart, RestartOpen

\* The creation of sockets, by whichever task.
LEMMA OpenType ==
  ASSUME EventInv, NEW t \in SockUser \cup {"restart"}, NEW next \in Point,
         SocketCreateSensorIP(t, next) \/ SocketCreateCanRx(t, next)
  PROVE  EventInv'
<1>1. NoSock \in NoSock..MaxDown /\ downs \in NoSock..MaxDown
  BY EcuAssumption DEF EcuAssumption, NoSock, EventInv, TypeOK
<1>2. ASSUME NEW from, NEW to \in Point, SocketCreate(t, from, to) PROVE EventInv'
  <2>1. made' \in [SockUser \cup {"restart"} -> NoSock..MaxDown]
    BY <1>1, <1>2 DEF SocketCreate, EventInv, TypeOK
  <2>2. pc' \in [Task -> Point]
    BY <1>2 DEF SocketCreate, Goto, EventInv, TypeOK
  <2> QED BY <1>2, <2>1, <2>2 DEF SocketCreate, EventInv, TypeOK, notify, net, data, ghost
<1>3. ASSUME NEW s \in Socket, NEW from, NEW to \in Point, SocketStore(t, s, from, to)
      PROVE  EventInv'
  <2>1. made' \in [SockUser \cup {"restart"} -> NoSock..MaxDown]
    BY <1>1, <1>3 DEF SocketStore, EventInv, TypeOK
  <2>2. sock' \in [Socket -> NoSock..MaxDown]
    BY <1>3 DEF SocketStore, EventInv, TypeOK
  <2>3. pc' \in [Task -> Point]
    BY <1>3 DEF SocketStore, Goto, EventInv, TypeOK
  <2> QED BY <1>3, <2>1, <2>2, <2>3 DEF SocketStore, EventInv, TypeOK, notify, net, data, ghost
<1> QED BY <1>2, <1>3 DEF SocketCreateSensorIP, SocketCreateCanRx, Socket, Point, OpenPoint, StorePoint

LEMMA EventStep == EventInv /\ [Next]_vars => EventInv'
<1> SUFFICES ASSUME EventInv, [Next]_vars PROVE EventInv'
  OBVIOUS
<1> USE EcuAssumption DEF EcuAssumption, EventInv, TypeOK, tasks, notify, net, socks, data, ghost
<1>1. ASSUME NEW t \in App, Wake(t) PROVE EventInv'
  BY <1>1 DEF Wake, Task, App, Point
<1>2. ASSUME NEW t \in {"sensor", "info"}, TakeMutex(t) PROVE EventInv'
  BY <1>2 DEF TakeMutex, Blocks, Task, App, Point
<1>3. CASE MainTask
  <2>1. CASE MainStart
    BY <2>1 DEF MainStart, Goto, Blocks, Task, App, Point
  <2>2. CASE MainWait
    <3>1. /\ pc' \in [Task -> Point] /\ notified' \in BOOLEAN
          /\ status' \in [Task -> {"absent", "ready", "blocked", "suspended", "deleted"}]
      BY <2>2 DEF MainWait, Blocks, Point
    <3> QED BY <2>2, <3>1 DEF MainWait
  <2>3. CASE MainWaited
    <3>1. /\ pc' \in [Task -> Point] /\ notified' \in BOOLEAN
          /\ status' \in [Task -> {"absent", "ready", "blocked", "suspended", "deleted"}]
      BY <2>3 DEF MainWaited, Point
    <3> QED BY <2>3, <3>1 DEF MainWaited
  <2>4. CASE MainCreate
    <3>1. PICK t \in App, from \in Point, next \in Point, b \in BOOLEAN :
            Create(t, from, next, b) /\ (b => t # "info")
      BY <2>4 DEF MainCreate, App, Point
    <3>2. pc' \in [Task -> Point] /\ handle' \subseteq App \ {"info"}
      BY <3>1 DEF Create, Goto
    <3>4. failed' \subseteq App
      BY <3>1 DEF Create
    <3>3. status' \in [Task -> {"absent", "ready", "blocked", "suspended", "deleted"}]
      BY <3>1 DEF Create
    <3> QED BY <3>1, <3>2, <3>3, <3>4 DEF Create
  <2>5. CASE MainEnd
    BY <2>5 DEF MainEnd, Task, App, Point
  <2> QED BY <1>3, <2>1, <2>2, <2>3, <2>4, <2>5 DEF MainTask
<1>4. CASE SensorTask
  <2>1. CASE SensorStart
    BY <2>1, OpenType DEF SensorStart, SockUser, Point
  <2>2. CASE SensorReceive \/ SensorError \/ SensorGivesUp
    BY <2>2 DEF SensorReceive, SensorError, SensorGivesUp, Goto, Blocks, Task, App, Point
  <2>3. CASE SensorProcess
    BY <2>3 DEF SensorProcess, Goto, Field, Task, App, Point
  <2>4. CASE SensorPublish
    <3>1. pc' \in [Task -> Point]
      BY <2>4 DEF SensorPublish, Goto, Point
    <3>2. shared' \in [Field -> 0..Samples - 1]
      BY <2>4 DEF SensorPublish
    <3> QED BY <2>4, <3>1, <3>2 DEF SensorPublish
  <2>5. CASE SensorGive
    BY <2>5 DEF SensorGive, Goto, Released, Task, App, Point
  <2> QED BY <1>4, <2>1, <2>2, <2>3, <2>4, <2>5 DEF SensorTask
<1>5. CASE InfoTask
  <2>1. CASE InfoStart \/ InfoGivesUp \/ InfoPrint
    BY <2>1 DEF InfoStart, InfoGivesUp, InfoPrint, Goto, Blocks, Task, App, Point
  <2>2. CASE InfoCopy
    <3>1. pc' \in [Task -> Point]
      BY <2>2 DEF InfoCopy, Goto, Point
    <3>2. \A f \in Field : shared[f] \in 0..Samples
      OBVIOUS
    <3>3. local' \in [Field -> 0..Samples]
      BY <2>2, <3>2 DEF InfoCopy, Field
    <3> QED BY <2>2, <3>1, <3>3 DEF InfoCopy
  <2>3. CASE InfoGive
    BY <2>3 DEF InfoGive, Goto, Released, Task, App, Point
  <2> QED BY <1>5, <2>1, <2>2, <2>3 DEF InfoTask
<1>6. CASE CanTask
  <2>1. CASE CanStart
    BY <2>1, OpenType DEF CanStart, SockUser, Point
  <2>2. CASE CanReceive
    BY <2>2 DEF CanReceive, Goto, Blocks, SockUser, Task, App, Point
  <2>3. CASE CanReply
    BY <2>3 DEF CanReply, Goto, Task, App, Point
  <2> QED BY <1>6, <2>1, <2>2, <2>3 DEF CanTask
<1>7. CASE RestartTask
  <2>1. CASE RestartTake
    BY <2>1 DEF RestartTake, Blocks, Task, App, Point, OpenPoint
  <2>2. CASE RestartOpen
    <3>1. {"open_sensor", "resume_can"} \subseteq Point
      BY DEF Point, OpenPoint
    <3> QED BY <2>2, <3>1, OpenType DEF RestartOpen
  <2>3. CASE RestartResume
    BY <2>3 DEF RestartResume, Goto, Task, App, Point
  <2> QED BY <1>7, <2>1, <2>2, <2>3 DEF RestartTask
<1>8. CASE NetworkUp
  <2>1. status' \in [Task -> {"absent", "ready", "blocked", "suspended", "deleted"}]
    BY <1>8 DEF NetworkUp, Wakes
  <2>2. notified' \in BOOLEAN /\ notes' \in 0..MaxUp /\ ups' \in 0..MaxUp /\ notes' <= ups'
    <3>1. CASE SockUser \subseteq handle /\ "restart" \in handle
      BY <1>8, <3>1 DEF NetworkUp
    <3>2. CASE SockUser \subseteq handle /\ "restart" \notin handle
      BY <1>8, <3>2 DEF NetworkUp
    <3>3. CASE ~(SockUser \subseteq handle)
      BY <1>8, <3>3 DEF NetworkUp
    <3> QED BY <3>1, <3>2, <3>3
  <2>3. misNotify' \in BOOLEAN
    BY <1>8 DEF NetworkUp
  <2> QED BY <1>8, <2>1, <2>2, <2>3 DEF NetworkUp
<1>9. CASE NetworkDown
  BY <1>9 DEF NetworkDown, Task, App, Point, SockUser
<1>10. CASE UNCHANGED vars
  BY <1>10 DEF vars
<1> QED BY <1>1, <1>2, <1>3, <1>4, <1>5, <1>6, <1>7, <1>8, <1>9, <1>10 DEF Next, Step

\* Types of the application's state.
THEOREM TypeCorrect == Spec => []TypeOK
<1>1. EventInv => TypeOK
  BY DEF EventInv
<1> QED BY <1>1, EventInit, EventStep, PTL DEF Spec

-----------------------------------------------------------------------------
(* data_mutex and what it protects *)

Inside == {"critical", "critical2", "give"}

\* The task between the take and the give is the mutex's holder.
MutexInv == \A t \in {"sensor", "info"} : pc[t] \in Inside <=> holder = t

\* The shared values are of one sample but while they are being written, and so
\* are the copies but while they are being read.
SampleInv ==
  /\ shared["throttle"] = shared["brake"]
  /\ pc["sensor"] = "critical2" => shared["gear"] = tmp
  /\ pc["sensor"] # "critical2" => shared["gear"] = shared["throttle"]
  /\ pc["info"] = "critical2" => local["throttle"] = shared["throttle"]
  /\ pc["info"] # "critical2" =>
       local["gear"] = local["throttle"] /\ local["brake"] = local["throttle"]

DataInv == MutexInv /\ SampleInv

LEMMA DataInit == Init => DataInv
  BY DEF Init, DataInv, MutexInv, SampleInv, Inside, Nobody, Task, App, Field

\* The steps of other tasks, and of the network.
LEMMA DataElsewhere ==
  ASSUME DataInv, UNCHANGED data, pc'["sensor"] = pc["sensor"], pc'["info"] = pc["info"]
  PROVE  DataInv'
  BY DEF DataInv, MutexInv, SampleInv, data

LEMMA DataStep == TypeOK /\ DataInv /\ [Next]_vars => DataInv'
<1> SUFFICES ASSUME TypeOK, DataInv, [Next]_vars PROVE DataInv'
  OBVIOUS
<1>t. pc \in [Task -> Point] /\ "sensor" \in Task /\ "info" \in Task
  BY DEF TypeOK, Task, App
<1>1. ASSUME NEW t \in App, Wake(t) PROVE DataInv'
  BY <1>1, <1>t DEF Wake, DataInv, MutexInv, SampleInv, Inside, data, App
<1>2. ASSUME NEW t \in {"sensor", "info"}, TakeMutex(t) PROVE DataInv'
  <2>1. CASE t = "sensor"
    BY <1>2, <2>1, <1>t DEF TakeMutex, At, DataInv, MutexInv, SampleInv, Inside, Nobody
  <2>2. CASE t = "info"
    BY <1>2, <2>2, <1>t DEF TakeMutex, At, DataInv, MutexInv, SampleInv, Inside, Nobody
  <2> QED BY <2>1, <2>2
<1>3. CASE MainTask
  BY <1>3, <1>t, DataElsewhere DEF MainTask, MainStart, MainWait, MainWaited, MainCreate, Create,
     MainEnd, Goto
<1>4. CASE SensorTask
  <2>1. CASE SensorStart \/ SensorReceive \/ SensorError \/ SensorGivesUp
    BY <2>1, <1>t, Opens DEF OpenBy, SensorReceive, SensorError, SensorGivesUp, Goto, At, data,
       OpenPoint, StorePoint, DataInv, MutexInv, SampleInv, Inside
  <2>2. CASE SensorProcess
    <3>1. /\ pc["sensor"] = "received" /\ pc'["sensor"] = "take" /\ pc'["info"] = pc["info"]
          /\ UNCHANGED <<holder, shared, local>>
      BY <2>2, <1>t DEF SensorProcess, Goto, At
    <3> QED BY <3>1 DEF DataInv, MutexInv, SampleInv, Inside
  <2>3. CASE SensorPublish
    <3>1. pc'["info"] = pc["info"] /\ UNCHANGED <<holder, tmp, local>> /\ pc["sensor"] \in Inside
      BY <2>3, <1>t DEF SensorPublish, Goto, At, Inside
    <3>2. pc["info"] \notin Inside
      BY <3>1 DEF DataInv, MutexInv
    <3>3. CASE Goto("sensor", "critical", "critical2")
      BY <2>3, <3>1, <3>2, <3>3, <1>t DEF SensorPublish, Goto, At, TypeOK, Field, DataInv, MutexInv,
         SampleInv, Inside
    <3>4. CASE Goto("sensor", "critical2", "give")
      BY <2>3, <3>1, <3>2, <3>4, <1>t DEF SensorPublish, Goto, At, TypeOK, Field, DataInv, MutexInv,
         SampleInv, Inside
    <3> QED BY <2>3, <3>3, <3>4 DEF SensorPublish
  <2>4. CASE SensorGive
    BY <2>4, <1>t DEF SensorGive, Released, Goto, At, DataInv, MutexInv, SampleInv, Inside, Nobody
  <2> QED BY <1>4, <2>1, <2>2, <2>3, <2>4 DEF SensorTask
<1>5. CASE InfoTask
  <2>1. CASE InfoStart \/ InfoPrint \/ InfoGivesUp
    BY <2>1, <1>t DEF InfoStart, InfoPrint, InfoGivesUp, Goto, At, data, DataInv, MutexInv,
       SampleInv, Inside
  <2>2. CASE InfoCopy
    <3>1. pc'["sensor"] = pc["sensor"] /\ UNCHANGED <<holder, tmp, shared>> /\ pc["info"] \in Inside
      BY <2>2, <1>t DEF InfoCopy, Goto, At, Inside
    <3>2. pc["sensor"] \notin Inside
      BY <3>1 DEF DataInv, MutexInv
    <3>3. CASE Goto("info", "critical", "critical2")
      BY <2>2, <3>1, <3>2, <3>3, <1>t DEF InfoCopy, Goto, At, TypeOK, Field, DataInv, MutexInv,
         SampleInv, Inside
    <3>4. CASE Goto("info", "critical2", "give")
      BY <2>2, <3>1, <3>2, <3>4, <1>t DEF InfoCopy, Goto, At, TypeOK, Field, DataInv, MutexInv,
         SampleInv, Inside
    <3> QED BY <2>2, <3>3, <3>4 DEF InfoCopy
  <2>3. CASE InfoGive
    BY <2>3, <1>t DEF InfoGive, Released, Goto, At, DataInv, MutexInv, SampleInv, Inside, Nobody
  <2> QED BY <1>5, <2>1, <2>2, <2>3 DEF InfoTask
<1>6. CASE CanTask
  BY <1>6, <1>t, Opens, DataElsewhere DEF CanTask, OpenBy, CanReceive, CanReply, Goto
<1>7. CASE RestartTask
  BY <1>7, <1>t, Opens, DataElsewhere DEF RestartTask, RestartTake, OpenBy, RestartResume, Goto
<1>8. CASE NetworkUp \/ NetworkDown
  BY <1>8, DataElsewhere DEF NetworkUp, NetworkDown
<1>9. CASE UNCHANGED vars
  BY <1>9, DataElsewhere DEF vars, tasks
<1> QED BY <1>1, <1>2, <1>3, <1>4, <1>5, <1>6, <1>7, <1>8, <1>9 DEF Next, Step

LEMMA DataInvariant == Spec => []DataInv
  BY TypeCorrect, DataInit, DataStep, PTL DEF Spec

\* What prvInfoTask prints was published together.
THEOREM SnapshotsAreConsistent == Spec => []SnapshotConsistent
<1>1. DataInv => SnapshotConsistent
  BY DEF DataInv, SampleInv, SnapshotConsistent
<1> QED BY <1>1, DataInvariant, PTL
-----------------------------------------------------------------------------
(* prvInfoTask does not wait *)

\* While the network has not gone down nothing stops prvSensorTask between its
\* take and its give, so prvInfoTask never meets a mutex that is taken.
HoldInv ==
  downs = 0 =>
    /\ pc["sensor"] \in Inside => status["sensor"] = "ready"
    /\ pc["info"] \notin {"waiting", "timedout"}

LEMMA HoldStep == TypeOK /\ DataInv /\ HoldInv /\ [Next]_vars => HoldInv'
<1> SUFFICES ASSUME TypeOK, DataInv, HoldInv, [Next]_vars, downs' = 0 PROVE HoldInv'
  BY DEF HoldInv
<1>t. /\ pc \in [Task -> Point] /\ status \in [Task -> {"absent", "ready", "blocked", "suspended", "deleted"}]
      /\ "sensor" \in Task /\ "info" \in Task /\ downs \in Nat
  BY EcuAssumption DEF EcuAssumption, TypeOK, Task, App
<1>1. CASE NetworkDown
  BY <1>1, <1>t DEF NetworkDown
<1>2. ASSUME ~NetworkDown PROVE downs = 0
  BY <1>2, Opens DEF Next, Step, Wake, MainTask, MainStart, MainWait, MainWaited, MainCreate, Create, MainEnd,
     SensorTask, OpenBy, SensorReceive, SensorError, SensorProcess, SensorPublish, SensorGive,
     SensorGivesUp, InfoTask, InfoStart, InfoCopy, InfoGive, InfoGivesUp, InfoPrint, CanTask, CanStart,
     CanReceive, CanReply, RestartTask, RestartTake, OpenBy, RestartResume, TakeMutex, NetworkUp,
     vars, net
<1>3. ASSUME downs = 0, NEW t \in App, Wake(t) PROVE HoldInv'
  BY <1>3, <1>t DEF Wake, HoldInv, Inside
<1>4. ASSUME downs = 0, TakeMutex("sensor") PROVE HoldInv'
  BY <1>4, <1>t DEF TakeMutex, At, Runs, HoldInv, Inside, Blocks
<1>5. ASSUME downs = 0, TakeMutex("info") PROVE HoldInv'
  <2>1. holder # "info" /\ At("info", pc["info"])
    BY <1>5 DEF TakeMutex, At, DataInv, MutexInv, Inside
  <2>2. holder # "sensor"
    <3> SUFFICES ASSUME holder = "sensor" PROVE FALSE
      OBVIOUS
    <3>1. status["sensor"] = "ready"
      BY <1>5 DEF HoldInv, DataInv, MutexInv
    <3>2. EffPrio("sensor") <= EffPrio("info")
      BY <2>1, <3>1 DEF At, Runs, App
    <3>3. EffPrio("info") = 1
      BY <2>1 DEF EffPrio, Prio
    <3>4. EffPrio("sensor") = 4
      BY DEF EffPrio, Prio
    <3> QED BY <3>2, <3>3, <3>4
  <2>3. holder = Nobody
    BY <2>1, <2>2 DEF TypeOK
  <2>4. pc'["info"] = "critical" /\ pc'["sensor"] = pc["sensor"] /\ status' = status
    BY <1>5, <2>3, <1>t DEF TakeMutex
  <2> QED BY <1>5, <2>4 DEF HoldInv
<1>6. ASSUME downs = 0, MainTask PROVE HoldInv'
  <2>1. pc'["sensor"] = pc["sensor"] /\ pc'["info"] = pc["info"]
    BY <1>6, <1>t DEF MainTask, MainStart, MainWait, MainWaited, MainCreate, Create, MainEnd, Goto
  <2>2. status'["sensor"] = status["sensor"] \/ status'["sensor"] = "ready"
    BY <1>6, <1>t DEF MainTask, MainStart, MainWait, MainWaited, MainCreate, Create, MainEnd, Blocks
  <2> QED BY <1>6, <2>1, <2>2 DEF HoldInv
<1>7. ASSUME downs = 0, SensorTask PROVE HoldInv'
  BY <1>7, <1>t, Opens DEF OpenPoint, StorePoint, SensorTask, OpenBy, SensorReceive, SensorError, SensorProcess, SensorPublish,
     SensorGive, SensorGivesUp, Goto, At, Runs, Released, Blocks, HoldInv, Inside
<1>8. ASSUME downs = 0, InfoTask PROVE HoldInv'
  <2>1. pc'["sensor"] = pc["sensor"] /\ pc'["info"] \notin {"waiting", "timedout"}
    BY <1>8, <1>t DEF InfoTask, InfoStart, InfoCopy, InfoGive, InfoGivesUp, InfoPrint, Goto
  <2>2. status["sensor"] = "ready" => status'["sensor"] = "ready"
    BY <1>8, <1>t DEF InfoTask, InfoStart, InfoCopy, InfoGive, InfoGivesUp, InfoPrint, Released, Blocks
  <2> QED BY <1>8, <2>1, <2>2 DEF HoldInv
<1>9. ASSUME downs = 0, CanTask \/ RestartTask PROVE HoldInv'
  <2>1. pc'["sensor"] = pc["sensor"] /\ pc'["info"] = pc["info"]
    BY <1>9, <1>t, Opens DEF CanTask, OpenBy, CanReceive, CanReply, RestartTask, RestartTake, RestartResume, Goto
  <2>2. status["sensor"] = "ready" => status'["sensor"] = "ready"
    BY <1>9, <1>t, Opens DEF CanTask, OpenBy, CanReceive, CanReply, RestartTask, RestartTake, RestartResume, Blocks
  <2> QED BY <1>9, <2>1, <2>2 DEF HoldInv
<1>10. ASSUME downs = 0, NetworkUp PROVE HoldInv'
  <2>1. status["sensor"] = "ready" => status'["sensor"] = "ready"
    BY <1>10, <1>t DEF NetworkUp, Wakes
  <2> QED BY <1>10, <2>1 DEF NetworkUp, HoldInv
<1>11. CASE UNCHANGED vars
  BY <1>11 DEF vars, tasks, net, HoldInv
<1> QED BY <1>1, <1>2, <1>3, <1>4, <1>5, <1>6, <1>7, <1>8, <1>9, <1>10, <1>11 DEF Next, Step

\* Before the first network-down event prvInfoTask gets the mutex at once.
THEOREM InfoGetsTheMutex == Spec => []InfoNeverWaits
<1>1. Init => HoldInv
  BY DEF Init, HoldInv, Inside, Task, App
<1>2. HoldInv => InfoNeverWaits
  BY DEF HoldInv, InfoNeverWaits
<1> QED BY <1>1, <1>2, TypeCorrect, DataInvariant, HoldStep, PTL DEF Spec
-----------------------------------------------------------------------------
(* Sockets *)

Opening  == OpenPoint \cup StorePoint
Creators == SockUser \cup {"restart"}

\* Who has which of its sockets, and of which generation they are: one that is
\* about to be stored is of the present one, but in a task that is torn.
SocketInv ==
  /\ \A t \in Creators : pc[t] \in StorePoint => made[t] # NoSock
  /\ pc["sensor"] \notin {"open_sensor", "store_sensor"} => sock["sensor"] # NoSock
  /\ pc["can"] \notin {"open_client", "store_client"} => sock["client"] # NoSock
  /\ pc["can"] \notin {"open_client", "store_client", "open_listening", "store_listening"} =>
       sock["listening"] # NoSock
  /\ downs = 0 => /\ \A s \in Socket : sock[s] \in {0, NoSock}
                  /\ \A t \in Creators : made[t] \in {0, NoSock}
  /\ \A t \in SockUser \ torn : pc[t] \in StorePoint => made[t] = downs

\* Steps that have nothing to do with sockets.
LEMMA SocketElsewhere ==
  ASSUME SocketInv, UNCHANGED <<made, sock, downs, torn>>, pc'["restart"] \notin StorePoint,
         \A t \in SockUser :
           pc'[t] = pc[t] \/ (pc[t] \notin Opening /\ pc'[t] \notin Opening)
  PROVE  SocketInv'
  BY DEF SocketInv, Opening, Creators, SockUser, OpenPoint, StorePoint

\* Steps of the other tasks while the restart handler stands still.
LEMMA SocketOther ==
  ASSUME SocketInv, UNCHANGED <<made, sock, downs, torn>>, pc'["restart"] = pc["restart"],
         \A t \in SockUser :
           pc'[t] = pc[t] \/ (pc[t] \notin Opening /\ pc'[t] \notin Opening)
  PROVE  SocketInv'
  BY DEF SocketInv, Opening, Creators, SockUser, OpenPoint, StorePoint

LEMMA CreateStep ==
  ASSUME TypeOK, SocketInv, NEW t \in Creators, NEW from \in OpenPoint, NEW to \in StorePoint,
         SocketCreate(t, from, to),
         <<from, to>> \in {<<"open_client", "store_client">>, <<"open_listening", "store_listening">>,
                           <<"open_twin", "store_twin">>, <<"open_sensor", "store_sensor">>}
  PROVE  SocketInv'
<1>1. /\ pc[t] = from /\ pc'[t] = to /\ \A u \in Creators \ {t} : pc'[u] = pc[u]
      /\ made'[t] = downs /\ \A u \in Creators \ {t} : made'[u] = made[u]
      /\ UNCHANGED <<sock, downs, torn>>
  BY DEF SocketCreate, Goto, At, TypeOK, Creators, SockUser, Task, App, net, ghost
<1>2. downs # NoSock
  BY EcuAssumption DEF TypeOK, EcuAssumption, NoSock
<1> QED BY <1>1, <1>2 DEF SocketInv, Creators, SockUser, OpenPoint, StorePoint

LEMMA StoreStep ==
  ASSUME TypeOK, SocketInv, NEW t \in Creators, NEW s \in Socket, NEW from \in StorePoint,
         NEW to \in Point \ StorePoint, SocketStore(t, s, from, to),
         t = "sensor" => s = "sensor",
         t = "can" => <<s, from, to>> \in {<<"client", "store_client", "open_listening">>,
                        <<"listening", "store_listening", "open_twin">>,
                        <<"listening", "store_twin", "loop">>}
  PROVE  SocketInv'
<1>1. /\ pc[t] = from /\ pc'[t] = to /\ \A u \in Creators \ {t} : pc'[u] = pc[u]
      /\ sock'[s] = made[t] /\ \A z \in Socket \ {s} : sock'[z] = sock[z]
      /\ made'[t] = NoSock /\ \A u \in Creators \ {t} : made'[u] = made[u]
      /\ UNCHANGED <<downs, torn>>
  BY DEF SocketStore, Goto, At, TypeOK, Creators, SockUser, Task, App, net, ghost
<1>2. made[t] # NoSock
  BY <1>1 DEF SocketInv
<1>3. t \in {"sensor", "can", "restart"} /\ s \in {"sensor", "client", "listening"}
  BY DEF Creators, SockUser, Socket
<1> QED BY <1>1, <1>2, <1>3 DEF SocketInv, Creators, SockUser, Socket, OpenPoint, StorePoint

LEMMA SocketStep == TypeOK /\ SocketInv /\ [Next]_vars => SocketInv'
<1> SUFFICES ASSUME TypeOK, SocketInv, [Next]_vars PROVE SocketInv'
  OBVIOUS
<1>t. /\ pc \in [Task -> Point]
      /\ Task = {"main", "info", "sensor", "can", "restart", "ip"} /\ SockUser = {"sensor", "can"}
  BY DEF TypeOK, Task, App, SockUser
<1>p. /\ Opening = OpenPoint \cup StorePoint
      /\ {"take", "waiting", "timedout", "critical", "critical2", "give", "loop", "received"} \cap Opening = {}
      /\ {"start", "resume_can", "resume_sensor"} \cap Opening = {} /\ "open_client" \notin StorePoint
  BY DEF Opening, OpenPoint, StorePoint
<1>1. ASSUME NEW t \in App, Wake(t) PROVE SocketInv'
  <2>1. /\ pc'["restart"] = pc["restart"] /\ UNCHANGED <<made, sock, downs, torn>>
        /\ \A u \in SockUser : pc'[u] = pc[u] \/ (pc[u] = "waiting" /\ pc'[u] = "timedout")
    BY <1>1, <1>t DEF Wake, net, socks, ghost
  <2> QED BY <2>1, <1>p, SocketOther
<1>2. ASSUME NEW t \in {"sensor", "info"}, TakeMutex(t) PROVE SocketInv'
  <2>1. /\ pc'["restart"] = pc["restart"] /\ UNCHANGED <<made, sock, downs, torn>>
        /\ \A u \in SockUser : pc'[u] = pc[u] \/ ({pc[u], pc'[u]} \subseteq {"take", "waiting", "critical"})
    BY <1>2, <1>t DEF TakeMutex, At, net, socks, ghost
  <2> QED BY <2>1, <1>p, SocketOther
<1>3. CASE MainTask \/ InfoTask
  <2>1. /\ \A u \in SockUser \cup {"restart"} : pc'[u] = pc[u]
        /\ UNCHANGED <<made, sock, downs, torn>>
    BY <1>3, <1>t DEF MainTask, MainStart, MainWait, MainWaited, MainCreate, Create, MainEnd, Goto,
       InfoTask, InfoStart, InfoCopy, InfoGive, InfoGivesUp, InfoPrint, net, socks, ghost
  <2> QED BY <2>1, SocketOther
<1>4. CASE SensorTask
  <2>1. CASE SensorStart
    <3>1. CASE SocketCreate("sensor", "open_sensor", "store_sensor")
      BY <3>1, CreateStep DEF Creators, SockUser, OpenPoint, StorePoint
    <3>2. CASE SocketStore("sensor", "sensor", "store_sensor", "loop")
      BY <3>2, StoreStep DEF Creators, SockUser, Socket, OpenPoint, StorePoint, Point
    <3> QED BY <2>1, <3>1, <3>2 DEF SensorStart, SocketCreateSensorIP
  <2>2. ASSUME ~SensorStart PROVE SocketInv'
    <3>1. /\ pc'["restart"] = pc["restart"] /\ UNCHANGED <<made, sock, downs, torn>>
          /\ pc'["can"] = pc["can"]
          /\ {pc["sensor"], pc'["sensor"]} \subseteq
               {"take", "waiting", "timedout", "critical", "critical2", "give", "loop", "received"}
      BY <1>4, <2>2, <1>t DEF SensorTask, SensorReceive, SensorError, SensorProcess, SensorPublish,
         SensorGive, SensorGivesUp, Goto, At, net, socks, ghost
    <3> QED BY <3>1, <1>t, <1>p, SocketOther
  <2> QED BY <2>1, <2>2
<1>5. CASE CanTask
  <2>1. CASE CanStart
    <3>1. ASSUME NEW from \in OpenPoint, NEW to \in StorePoint, SocketCreate("can", from, to),
                 <<from, to>> \in {<<"open_client", "store_client">>, <<"open_listening", "store_listening">>,
                                   <<"open_twin", "store_twin">>}
          PROVE  SocketInv'
      BY <3>1, CreateStep DEF Creators, SockUser
    <3>2. ASSUME NEW s \in Socket, NEW from \in StorePoint, NEW to \in Point \ StorePoint,
                 SocketStore("can", s, from, to),
                 <<s, from, to>> \in {<<"client", "store_client", "open_listening">>,
                    <<"listening", "store_listening", "open_twin">>, <<"listening", "store_twin", "loop">>}
          PROVE  SocketInv'
      BY <3>2, StoreStep DEF Creators, SockUser
    <3> QED BY <2>1, <3>1, <3>2 DEF CanStart, SocketCreateCanRx, OpenPoint, StorePoint, Socket, Point
  <2>2. ASSUME ~CanStart PROVE SocketInv'
    <3>1. /\ pc'["restart"] = pc["restart"] /\ UNCHANGED <<made, sock, downs, torn>>
          /\ pc'["sensor"] = pc["sensor"] /\ {pc["can"], pc'["can"]} \subseteq {"loop", "received"}
      BY <1>5, <2>2, <1>t DEF CanTask, CanReceive, CanReply, Goto, At, net, socks, ghost
    <3> QED BY <3>1, <1>t, <1>p, SocketOther
  <2> QED BY <2>1, <2>2
<1>6. CASE RestartTask
  <2>1. CASE RestartOpen
    <3>1. ASSUME NEW from \in OpenPoint, NEW to \in StorePoint, SocketCreate("restart", from, to),
                 <<from, to>> \in {<<"open_client", "store_client">>, <<"open_listening", "store_listening">>,
                                   <<"open_twin", "store_twin">>, <<"open_sensor", "store_sensor">>}
          PROVE  SocketInv'
      BY <3>1, CreateStep DEF Creators
    <3>2. ASSUME NEW s \in Socket, NEW from \in StorePoint, NEW to \in Point \ StorePoint,
                 SocketStore("restart", s, from, to)
          PROVE  SocketInv'
      BY <3>2, StoreStep DEF Creators
    <3> QED BY <2>1, <3>1, <3>2 DEF RestartOpen, SocketCreateCanRx, SocketCreateSensorIP,
               OpenPoint, StorePoint, Socket, Point
  <2>2. ASSUME ~RestartOpen PROVE SocketInv'
    <3>1. /\ pc'["restart"] \in {"start", "open_client", "resume_can", "resume_sensor"}
          /\ UNCHANGED <<made, sock, downs, torn>>
          /\ \A u \in SockUser : pc'[u] = pc[u]
      BY <1>6, <2>2, <1>t DEF RestartTask, RestartTake, RestartResume, Goto, At, net, socks, ghost
    <3> QED BY <3>1, <1>t, <1>p, SocketElsewhere
  <2> QED BY <2>1, <2>2
<1>7. CASE NetworkUp
  <2>1. UNCHANGED <<pc, made, sock, downs, torn>>
    BY <1>7 DEF NetworkUp, socks
  <2> QED BY <2>1, SocketOther
<1>8. CASE NetworkDown
  <2>1. /\ UNCHANGED <<pc, made, sock>> /\ downs' # 0
        /\ torn' = {t \in SockUser : pc[t] \in StorePoint}
    BY <1>8, EcuAssumption DEF NetworkDown, socks, TypeOK, EcuAssumption
  <2> QED BY <2>1 DEF SocketInv
<1>9. CASE UNCHANGED vars
  BY <1>9, SocketOther DEF vars, tasks, net, socks, ghost
<1> QED BY <1>1, <1>2, <1>3, <1>4, <1>5, <1>6, <1>7, <1>8, <1>9 DEF Next, Step

LEMMA SocketInvariant == Spec => []SocketInv
<1>1. Init => SocketInv
  BY DEF Init, SocketInv, Creators, SockUser, Socket, Task, App, StorePoint
<1> QED BY <1>1, SocketStep, TypeCorrect, PTL DEF Spec

-----------------------------------------------------------------------------
(* Restarts *)

Resuming == {"resume_can", "resume_sensor"}

\* What the restart handler has before it: while the network is up it still has
\* a notification to take, or stands before the step, for every socket user
\* that is suspended and for every socket of an earlier stack.
FreshInv ==
  /\ pc["restart"] \in StorePoint => notes > 0 \/ made["restart"] = downs
  /\ status["can"] = "suspended" => notes > 0 \/ pc["restart"] \in Opening \cup {"resume_can"}
  /\ status["sensor"] = "suspended" => notes > 0 \/ pc["restart"] \in Opening \cup Resuming
  /\ "can" \notin torn /\ sock["client"] \notin {downs, NoSock} =>
       notes > 0 \/ pc["restart"] \in {"open_client", "store_client"}
  /\ "can" \notin torn /\ sock["listening"] \notin {downs, NoSock} =>
       notes > 0 \/ pc["restart"] \in Opening \ {"open_sensor", "store_sensor"}
  /\ "sensor" \notin torn /\ sock["sensor"] \notin {downs, NoSock} =>
       notes > 0 \/ pc["restart"] \in Opening

RestartInv ==
  /\ pc["restart"] \in {"start"} \cup Opening \cup Resuming
  /\ status["restart"] = "blocked" => pc["restart"] = "start" /\ notes = 0
  /\ "restart" \in handle => status["restart"] \in {"ready", "blocked"}
  /\ network = "up" => IpRuns
  /\ IpRuns /\ downs > 0 => SockUser \subseteq handle
  /\ downs = 0 => \A t \in SockUser : status[t] # "suspended"
  /\ network = "up" /\ ~misNotify => FreshInv

\* Steps of the other tasks: they suspend nothing, and store no old socket
\* unless they are torn.
LEMMA RestartElsewhere ==
  ASSUME TypeOK, RestartInv, UNCHANGED <<notes, net, ghost, made["restart"]>>,
         handle \subseteq handle', pc'["restart"] = pc["restart"], status'["ip"] = status["ip"],
         status'["restart"] \in {status["restart"], "ready"},
         "restart" \in handle' => "restart" \in handle \/ status'["restart"] = "ready",
         \A t \in SockUser : status'[t] = "suspended" => status[t] = "suspended",
         \A t \in SockUser : \A s \in Uses(t) : sock'[s] \in {sock[s], downs} \/ t \in torn
  PROVE  RestartInv'
<1>1. FreshInv => FreshInv'
  BY DEF FreshInv, SockUser, Uses, net, ghost
<1> QED BY <1>1 DEF RestartInv, SockUser, IpRuns, net, ghost

LEMMA RestartInit == Init => RestartInv
<1> SUFFICES ASSUME Init PROVE RestartInv
  OBVIOUS
<1>1. pc["restart"] = "start" /\ network = "down" /\ downs = 0 /\ handle = {}
  BY DEF Init, Task, App
<1>2. status["restart"] = "absent" /\ \A t \in SockUser : status[t] = "absent"
  BY Zenon DEF Init, Task, App, SockUser
<1> QED BY <1>1, <1>2 DEF RestartInv

\* A socket that prvSensorTask or prvCanRxTask stores is of the present stack,
\* unless the task is torn.
LEMMA OwnStores ==
  ASSUME TypeOK, SocketInv, NEW t \in SockUser,
         (t = "sensor" /\ SensorStart) \/ (t = "can" /\ CanStart)
  PROVE  /\ UNCHANGED <<made["restart"]>>
         /\ \A u \in SockUser : \A s \in Uses(u) : sock'[s] \in {sock[s], downs} \/ u \in torn
<1>1. ASSUME NEW from, NEW to, SocketCreate(t, from, to)
      PROVE  UNCHANGED <<made["restart"]>> /\ UNCHANGED sock
  BY <1>1 DEF SocketCreate, TypeOK, SockUser
<1>2. ASSUME NEW s \in Uses(t), NEW from \in StorePoint, NEW to, SocketStore(t, s, from, to)
      PROVE  /\ UNCHANGED <<made["restart"]>>
             /\ sock'[s] = downs \/ t \in torn
             /\ \A z \in Socket \ {s} : sock'[z] = sock[z]
  BY <1>2 DEF SocketStore, SocketInv, Goto, At, TypeOK, SockUser, Uses, Socket
<1>3. CASE t = "sensor" /\ SensorStart
  <2>1. CASE SocketCreate("sensor", "open_sensor", "store_sensor")
    BY <1>1, <1>3, <2>1
  <2>2. CASE SocketStore("sensor", "sensor", "store_sensor", "loop")
    BY <1>2, <1>3, <2>2 DEF Uses, SockUser, Socket, StorePoint
  <2> QED BY <1>3, <2>1, <2>2 DEF SensorStart, SocketCreateSensorIP
<1>4. CASE t = "can" /\ CanStart
  <2>1. ASSUME NEW from, NEW to, SocketCreate("can", from, to)
        PROVE  /\ UNCHANGED <<made["restart"]>>
               /\ \A u \in SockUser : \A s \in Uses(u) : sock'[s] \in {sock[s], downs} \/ u \in torn
    BY <1>1, <1>4, <2>1
  <2>2. ASSUME NEW s \in {"client", "listening"}, NEW from \in StorePoint, NEW to,
               SocketStore("can", s, from, to)
        PROVE  /\ UNCHANGED <<made["restart"]>>
               /\ \A u \in SockUser : \A z \in Uses(u) : sock'[z] \in {sock[z], downs} \/ u \in torn
    BY <1>2, <1>4, <2>2 DEF Uses, SockUser, Socket
  <2> QED BY <1>4, <2>1, <2>2 DEF CanStart, SocketCreateCanRx, StorePoint
<1> QED BY <1>3, <1>4

\* The sockets that the restart handler makes.
LEMMA HandlerOpens ==
  ASSUME TypeOK, SocketInv, RestartInv, RestartOpen
  PROVE  RestartInv'
<1>1. /\ UNCHANGED <<status, handle, notes, net, ghost>> /\ pc["restart"] \in Opening
      /\ \E to \in Point : pc' = [pc EXCEPT !["restart"] = to]
  BY Opens DEF OpenBy, Opening, notify
<1>2. pc'["restart"] \in Opening \cup Resuming /\ (FreshInv => FreshInv')
  <2> USE DEF TypeOK, Task, App, SockUser, Socket, Opening, Resuming, OpenPoint, StorePoint, FreshInv, net, ghost
  <2>1. ASSUME NEW from \in OpenPoint, NEW to \in StorePoint, SocketCreate("restart", from, to),
               <<from, to>> \in {<<"open_client", "store_client">>, <<"open_listening", "store_listening">>,
                                 <<"open_twin", "store_twin">>, <<"open_sensor", "store_sensor">>}
        PROVE  pc'["restart"] \in Opening \cup Resuming /\ (FreshInv => FreshInv')
    <3>1. /\ pc["restart"] = from /\ pc'["restart"] = to /\ made'["restart"] = downs
          /\ UNCHANGED sock
      BY <2>1 DEF SocketCreate, Goto, At
    <3> QED BY <1>1, <2>1, <3>1
  <2>2. ASSUME NEW s \in Socket, NEW from \in StorePoint, NEW to \in Point \ StorePoint,
               SocketStore("restart", s, from, to),
               <<s, from, to>> \in {<<"client", "store_client", "open_listening">>,
                  <<"listening", "store_listening", "open_twin">>, <<"listening", "store_twin", "open_sensor">>,
                  <<"sensor", "store_sensor", "resume_can">>}
        PROVE  pc'["restart"] \in Opening \cup Resuming /\ (FreshInv => FreshInv')
    <3>1. /\ pc["restart"] = from /\ pc'["restart"] = to /\ sock'[s] = made["restart"]
          /\ \A z \in Socket \ {s} : sock'[z] = sock[z]
      BY <2>2 DEF SocketStore, Goto, At
    <3> QED BY <1>1, <2>2, <3>1
  <2> QED BY <2>1, <2>2 DEF RestartOpen, SocketCreateCanRx, SocketCreateSensorIP, Point
<1>3. status["restart"] = "ready"
  BY Opens DEF OpenBy, Runs
<1> QED BY <1>1, <1>2, <1>3 DEF RestartInv, IpRuns, net, ghost

LEMMA RestartStep == TypeOK /\ SocketInv /\ RestartInv /\ [Next]_vars => RestartInv'
<1> SUFFICES ASSUME TypeOK, SocketInv, RestartInv, [Next]_vars PROVE RestartInv'
  OBVIOUS
<1>t. /\ pc \in [Task -> Point] /\ downs \in Nat /\ notes \in Nat
      /\ status \in [Task -> {"absent", "ready", "blocked", "suspended", "deleted"}]
      /\ Task = {"main", "info", "sensor", "can", "restart", "ip"} /\ SockUser = {"sensor", "can"}
  BY EcuAssumption DEF EcuAssumption, TypeOK, Task, App, SockUser
<1>p. /\ Opening \cap ({"start"} \cup Resuming) = {} /\ "open_client" \in Opening \ StorePoint
      /\ StorePoint \subseteq Opening
  BY DEF Opening, Resuming, OpenPoint, StorePoint
<1>1. ASSUME NEW t \in App, Wake(t) PROVE RestartInv'
  <2>1. pc'["restart"] = pc["restart"]
    BY <1>1, <1>t DEF Wake
  <2>2. /\ status'["ip"] = status["ip"] /\ status'["restart"] = status["restart"]
        /\ \A u \in SockUser : status'[u] = "suspended" => status[u] = "suspended"
    BY <1>1, <1>t DEF Wake, App
  <2> QED BY <1>1, <2>1, <2>2, RestartElsewhere DEF Wake, notify, socks
<1>2. ASSUME NEW t \in {"sensor", "info"}, TakeMutex(t) PROVE RestartInv'
  <2>1. pc'["restart"] = pc["restart"]
    BY <1>2, <1>t DEF TakeMutex, At
  <2>2. /\ status'["ip"] = status["ip"] /\ status'["restart"] = status["restart"]
        /\ \A u \in SockUser : status'[u] = "suspended" => status[u] = "suspended"
    BY <1>2, <1>t DEF TakeMutex, Blocks
  <2> QED BY <1>2, <2>1, <2>2, RestartElsewhere DEF TakeMutex, notify, socks
<1>3. CASE MainTask
  <2> USE <1>t
  <2>1. pc'["restart"] = pc["restart"] /\ UNCHANGED <<notes, net, made, sock, ghost>>
    BY <1>3 DEF MainTask, MainStart, MainWait, MainWaited, MainCreate, Create, MainEnd, Goto, notify, socks
  <2>2. /\ handle \subseteq handle'
        /\ "restart" \in handle' => "restart" \in handle \/ status'["restart"] = "ready"
    BY <1>3 DEF MainTask, MainStart, MainWait, MainWaited, MainCreate, Create, MainEnd
  <2>3. /\ status'["ip"] = status["ip"] /\ status'["restart"] \in {status["restart"], "ready"}
        /\ \A u \in SockUser : status'[u] = "suspended" => status[u] = "suspended"
    BY <1>3 DEF MainTask, MainStart, MainWait, MainWaited, MainCreate, Create, MainEnd, Blocks
  <2> QED BY <2>1, <2>2, <2>3, RestartElsewhere
<1>4. CASE SensorTask
  <2> USE <1>t
  <2>1. /\ pc'["restart"] = pc["restart"] /\ UNCHANGED <<handle, notes, net, ghost>>
    BY <1>4, Opens DEF SensorTask, OpenBy, SensorReceive, SensorError, SensorProcess, SensorPublish,
       SensorGive, SensorGivesUp, Goto, notify
  <2>2. /\ status'["ip"] = status["ip"] /\ status'["restart"] \in {status["restart"], "ready"}
        /\ \A u \in SockUser : status'[u] = "suspended" => status[u] = "suspended"
    BY <1>4, Opens DEF SensorTask, OpenBy, SensorReceive, SensorError, SensorProcess, SensorPublish,
       SensorGive, SensorGivesUp, Released, App, Blocks
  <2>3. CASE SensorStart
    BY <2>1, <2>2, <2>3, OwnStores, RestartElsewhere
  <2>4. ASSUME ~SensorStart PROVE UNCHANGED <<made, sock>>
    BY <1>4, <2>4 DEF SensorTask, SensorReceive, SensorError, SensorProcess, SensorPublish,
       SensorGive, SensorGivesUp, socks
  <2> QED BY <2>1, <2>2, <2>3, <2>4, RestartElsewhere
<1>5. CASE InfoTask
  <2> USE <1>t
  <2>1. pc'["restart"] = pc["restart"] /\ UNCHANGED <<handle, notes, net, made, sock, ghost>>
    BY <1>5 DEF InfoTask, InfoStart, InfoCopy, InfoGive, InfoGivesUp, InfoPrint, Goto, notify, socks
  <2>2. /\ status'["ip"] = status["ip"] /\ status'["restart"] \in {status["restart"], "ready"}
        /\ \A u \in SockUser : status'[u] = "suspended" => status[u] = "suspended"
    BY <1>5 DEF InfoTask, InfoStart, InfoCopy, InfoGive, InfoGivesUp, InfoPrint, Released, App, Blocks
  <2> QED BY <2>1, <2>2, RestartElsewhere
<1>6. CASE CanTask
  <2> USE <1>t
  <2>1. /\ pc'["restart"] = pc["restart"] /\ UNCHANGED <<handle, notes, net, ghost>>
    BY <1>6, Opens DEF CanTask, OpenBy, CanReceive, CanReply, Goto, notify
  <2>2. /\ status'["ip"] = status["ip"] /\ status'["restart"] = status["restart"]
        /\ \A u \in SockUser : status'[u] = "suspended" => status[u] = "suspended"
    BY <1>6, Opens DEF CanTask, OpenBy, CanReceive, CanReply, Blocks
  <2>3. CASE CanStart
    BY <2>1, <2>2, <2>3, OwnStores, RestartElsewhere
  <2>4. ASSUME ~CanStart PROVE UNCHANGED <<made, sock>>
    BY <1>6, <2>4 DEF CanTask, CanReceive, CanReply, socks
  <2> QED BY <2>1, <2>2, <2>3, <2>4, RestartElsewhere
<1>7. CASE RestartTask
  <2> USE <1>t, <1>p
  <2>1. CASE RestartTake
    <3>1. /\ UNCHANGED <<handle, net, ghost, made, sock>> /\ status["restart"] = "ready"
          /\ pc["restart"] = "start" /\ status'["ip"] = status["ip"]
          /\ \A u \in SockUser : status'[u] = status[u]
      BY <2>1 DEF RestartTake, At, Runs, Blocks, socks
    <3>2. CASE notes > 0
      <4>1. pc'["restart"] = "open_client" /\ status' = status
        BY <2>1, <3>2 DEF RestartTake
      <4>2. FreshInv => FreshInv'
        BY <3>1, <4>1 DEF FreshInv, Opening, OpenPoint, net, ghost
      <4> QED BY <3>1, <4>1, <4>2 DEF RestartInv, IpRuns, net, ghost
    <3>3. CASE notes = 0
      <4>1. UNCHANGED <<pc, notes>> /\ status'["restart"] = "blocked"
        BY <2>1, <3>3 DEF RestartTake, Blocks
      <4>2. FreshInv => FreshInv'
        BY <3>1, <4>1 DEF FreshInv, net, ghost
      <4> QED BY <3>1, <3>3, <4>1, <4>2 DEF RestartInv, IpRuns, net, ghost
    <3> QED BY <3>2, <3>3
  <2>2. CASE RestartOpen
    BY <2>2, HandlerOpens
  <2>3. CASE RestartResume
    <3>1. /\ UNCHANGED <<handle, net, ghost, made, sock, notes>> /\ status["restart"] = "ready"
          /\ status'["restart"] = status["restart"] /\ status'["ip"] = status["ip"]
      BY <2>3 DEF RestartResume, Goto, At, Runs, notify, socks
    <3>2. CASE pc["restart"] = "resume_can"
      <4>1. /\ pc'["restart"] = "resume_sensor"
            /\ status'["can"] # "suspended" /\ status'["sensor"] = status["sensor"]
        BY <2>3, <3>2 DEF RestartResume, Goto, At
      <4>2. FreshInv => FreshInv'
        BY <3>1, <3>2, <4>1 DEF FreshInv, Resuming, net, ghost
      <4> QED BY <3>1, <4>1, <4>2 DEF RestartInv, Resuming, IpRuns, net, ghost
    <3>3. CASE pc["restart"] = "resume_sensor"
      <4>1. /\ pc'["restart"] = "start"
            /\ status'["sensor"] # "suspended" /\ status'["can"] = status["can"]
        BY <2>3, <3>3 DEF RestartResume, Goto, At
      <4>2. FreshInv => FreshInv'
        BY <3>1, <3>3, <4>1 DEF FreshInv, Resuming, net, ghost
      <4> QED BY <3>1, <4>1, <4>2 DEF RestartInv, IpRuns, net, ghost
    <3> QED BY <2>3, <3>2, <3>3 DEF RestartResume, Goto, At
  <2> QED BY <1>7, <2>1, <2>2, <2>3 DEF RestartTask
<1>8. CASE NetworkUp
  <2> USE <1>t
  <2>1. /\ UNCHANGED <<pc, handle, downs, made, sock, torn>> /\ IpRuns /\ network' = "up"
        /\ \A u \in SockUser \cup {"ip"} : status'[u] = status[u]
    BY <1>8 DEF NetworkUp, Wakes, socks
  <2>2. CASE SockUser \subseteq handle /\ "restart" \in handle
    <3>1. notes' = notes + 1
      BY <1>8, <2>2 DEF NetworkUp
    <3>2. status'["restart"] = "ready"
      BY <1>8, <2>2 DEF NetworkUp, Wakes, RestartInv
    <3>3. FreshInv'
      BY <3>1 DEF FreshInv
    <3> QED BY <2>1, <2>2, <3>1, <3>2, <3>3 DEF RestartInv, IpRuns
  <2>3. CASE SockUser \subseteq handle /\ "restart" \notin handle
    <3>1. notes' = notes /\ (status'["restart"] = "blocked" => status["restart"] = "blocked")
      BY <1>8, <2>3 DEF NetworkUp, Wakes
    <3>2. misNotify'
      BY <1>8, <2>3, Zenon DEF NetworkUp
    <3> QED BY <2>1, <2>3, <3>1, <3>2 DEF RestartInv, IpRuns
  <2>4. CASE ~(SockUser \subseteq handle)
    <3>1. notes' = notes /\ status'["restart"] = status["restart"] /\ downs = 0
      BY <1>8, <2>4 DEF NetworkUp, Wakes, RestartInv
    <3>2. /\ \A s \in Socket : sock[s] \in {downs, NoSock}
          /\ pc["restart"] \in StorePoint => made["restart"] = downs
          /\ \A t \in SockUser : status[t] # "suspended"
      BY <3>1 DEF SocketInv, RestartInv, Creators
    <3>3. FreshInv'
      BY <2>1, <3>2 DEF FreshInv, Socket
    <3> QED BY <2>1, <2>4, <3>1, <3>3 DEF RestartInv, IpRuns
  <2> QED BY <2>2, <2>3, <2>4
<1>9. CASE NetworkDown
  <2> USE <1>t
  <2>1. /\ UNCHANGED <<pc, handle, notes>> /\ IpRuns /\ network' = "down" /\ downs' = downs + 1
        /\ status'["restart"] = status["restart"]
        /\ ~(SockUser \subseteq handle) => status'["ip"] = "suspended"
    BY <1>9 DEF NetworkDown, notify
  <2> QED BY <2>1 DEF RestartInv, IpRuns
<1>10. CASE UNCHANGED vars
  <2>1. FreshInv => FreshInv'
    BY <1>10 DEF vars, tasks, notify, net, socks, ghost, FreshInv
  <2> QED BY <1>10, <2>1 DEF vars, tasks, notify, net, socks, ghost, RestartInv, IpRuns
<1> QED BY <1>1, <1>2, <1>3, <1>4, <1>5, <1>6, <1>7, <1>8, <1>9, <1>10 DEF Next, Step

LEMMA RestartInvariant == Spec => []RestartInv
  BY TypeCorrect, SocketInvariant, RestartInit, RestartStep, PTL DEF Spec

\* A restart handler that waits has left no socket user suspended and no old
\* socket, but those of torn tasks.
LEMMA NothingLeft == RestartInv => RestartCompletes
<1>1. "start" \notin Opening \cup Resuming
  BY DEF Opening, Resuming, OpenPoint, StorePoint
<1> QED BY <1>1 DEF RestartInv, FreshInv, RestartCompletes, SockUser, Uses, Resuming

\* A completed restart leaves running tasks with sockets of the present stack,
\* unless one of them was about to store a socket when the network went down.
THEOREM RestartsAreComplete == Spec => []RestartCompletes
  BY RestartInvariant, NothingLeft, PTL

\* The handler is above the socket users: while it has work they do not run.
LEMMA HandlerFirst ==
  ASSUME TypeOK, NEW t \in SockUser, Runs(t) PROVE status["restart"] # "ready"
<1>1. EffPrio(t) \in {3, 4}
  BY DEF EffPrio, Prio, SockUser
<1>2. holder # "restart"
  BY DEF TypeOK, Nobody
<1>3. EffPrio("restart") = 5
  BY <1>2 DEF EffPrio, Prio
<1> QED BY <1>1, <1>3 DEF Runs, App

\* While the network is up a socket user that runs with its sockets has sockets
\* of the present stack, unless it is torn.
THEOREM SocketsAreFresh == Spec => NoStaleSocketWhenUp
<1> DEFINE Fresh == \A t \in SockUser \ torn :
      (network = "up" /\ pc'[t] # pc[t] /\ status[t] = "ready" /\ ~misNotify
         /\ pc[t] \notin OpenPoint \cup StorePoint /\ "restart" \in handle)
        => \A s \in Uses(t) : sock[s] = downs
<1>1. TypeOK /\ SocketInv /\ RestartInv /\ [Next]_vars => [Fresh]_vars
  <2> SUFFICES ASSUME TypeOK, SocketInv, RestartInv, Next, NEW t \in SockUser \ torn, network = "up",
                      pc'[t] # pc[t], status[t] = "ready", ~misNotify,
                      pc[t] \notin OpenPoint \cup StorePoint, "restart" \in handle, NEW s \in Uses(t)
               PROVE  sock[s] = downs
    OBVIOUS
  <2>t. pc \in [Task -> Point] /\ Task = {"main", "info", "sensor", "can", "restart", "ip"}
        /\ t \in {"sensor", "can"}
    BY DEF TypeOK, Task, App, SockUser
  <2>1. Runs(t)
    <3>1. ~Wake(t) /\ \A u \in App \ {t} : Wake(u) => pc'[t] = pc[t]
      BY <2>t DEF Wake
    <3>2. ~NetworkUp /\ ~NetworkDown
      BY DEF NetworkUp, NetworkDown
    <3>3. MainTask \/ InfoTask \/ RestartTask => pc'[t] = pc[t]
      BY <2>t, Opens DEF MainTask, MainStart, MainWait, MainWaited, MainCreate, Create, MainEnd, InfoTask,
         InfoStart, InfoCopy, InfoGive, InfoGivesUp, InfoPrint, RestartTask, RestartTake, OpenBy,
         RestartResume, Goto
    <3>4. SensorTask => Runs(t)
      BY <2>t, Opens DEF SensorTask, OpenBy, SensorReceive, SensorError, SensorProcess, SensorPublish,
         SensorGive, SensorGivesUp, Goto, At
    <3>5. CanTask => Runs(t)
      BY <2>t, Opens DEF CanTask, OpenBy, CanReceive, CanReply, Goto, At
    <3>6. \A u \in {"sensor", "info"} : TakeMutex(u) => Runs(t)
      BY <2>t DEF TakeMutex, At
    <3> QED BY <3>1, <3>2, <3>3, <3>4, <3>5, <3>6 DEF Next, Step
  <2>2. status["restart"] = "blocked"
    BY <2>1, HandlerFirst DEF RestartInv
  <2>3. sock[s] \in {downs, NoSock}
    BY <2>2, NothingLeft DEF RestartCompletes
  <2>4. sock[s] # NoSock
    BY <2>t DEF SocketInv, Uses, OpenPoint, StorePoint
  <2> QED BY <2>3, <2>4
<1> QED BY <1>1, TypeCorrect, SocketInvariant, RestartInvariant, PTL DEF Spec, NoStaleSocketWhenUp
===============================================================================
