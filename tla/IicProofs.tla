----------------------------- MODULE IicProofs -----------------------------
(***************************************************************************)
(* Proofs about the IIC driver, for any set of tasks, any transfer length  *)
(* and any number of resets.                                               *)
(***************************************************************************)
EXTENDS Iic, TLAPS

-----------------------------------------------------------------------------
(* The inductive invariants *)

\* Whoever is between take and give holds the mutex it took.
HolderInv == \A t \in Tasks : pc[t] \in Critical => holder[call[t].sem] = t

\* What the mutex protects, while the driver has a single user at a time.
OwnerInv(t) ==
  /\ pc[t] \in Critical \cup {"take"} => call[t].sem = mutex
  /\ pc[t] \in {"arm", "send"} => xfer = NoXfer
  /\ pc[t] = "send" => task_handle = t
  /\ pc[t] \in {"send", "wait", "check", "zero", "count"} => trans_len = call[t].len
  /\ pc[t] \in {"wait", "check", "count"} /\ outcome[t] = "error" => Errors # 0
  /\ pc[t] \in {"delay", "reinit"} => t \in Resetters /\ ~irq

BusInv ==
  SingleUser =>
    /\ ~fault
    /\ xfer # NoXfer => task_handle = xfer.owner
    /\ \A t \in Tasks : OwnerInv(t)

\* What a notification means, as long as none came late.
NoticeInv(t) ==
  /\ pending[t] => pc[t] = "wait" /\ xfer = NoXfer
  /\ pc[t] = "wait" => (pending[t] <=> outcome[t] # "none")
  /\ pc[t] \in {"check", "zero", "count"} => outcome[t] # "none" /\ xfer = NoXfer
  /\ pc[t] = "zero" => outcome[t] = "error"
  /\ pc[t] = "count" => outcome[t] = "ok"
  /\ pc[t] = "give" => /\ ret[t] > 0 => outcome[t] = "ok" /\ ret[t] = call[t].len
                       /\ ret[t] = IIC_SLAVE_NO_ACK => outcome[t] = "error"

NoneLate == SingleUser /\ \A u \in Tasks : ~late[u]

LateInv ==
  NoneLate =>
    /\ xfer # NoXfer => pc[xfer.owner] \in {"wait", "reset"} /\ outcome[xfer.owner] = "none"
    /\ Errors # 0 => \E u \in Tasks : pc[u] \in {"wait", "check", "zero"} /\ outcome[u] = "error"
    /\ \A t \in Tasks : NoticeInv(t)

-----------------------------------------------------------------------------
(* Type correctness *)

LEMMA Values ==
  /\ NoTask \notin Tasks
  /\ Critical \subseteq Point
  /\ NoXfer \notin Xfer
BY IicAssumption DEF Critical, Point, NoXfer, Xfer

\* Every step keeps the driver's, the kernel's and the device's state in range.
LEMMA TypeStep == TypeOK /\ [Next]_vars => TypeOK'
<1> SUFFICES ASSUME TypeOK, [Next]_vars PROVE TypeOK'
  OBVIOUS
<1> USE IicAssumption DEF TypeOK, driver, kernel, device, local, ghost,
        Goto, Point, Critical, Length, Dir, Mutex, ReturnCode, ConfigAssert
<1>1. ASSUME NEW t \in Tasks, Call(t) PROVE TypeOK'
  BY <1>1 DEF Call
<1>2. ASSUME NEW t \in Tasks, TakeMutex(t) PROVE TypeOK'
  BY <1>2 DEF TakeMutex
<1>3. ASSUME NEW t \in Tasks, Transfer(t) PROVE TypeOK'
  <2>1. CASE BusIsBusy(t)
    BY <2>1 DEF BusIsBusy
  <2>2. CASE BusIsFree(t)
    BY <2>2 DEF BusIsFree
  <2>3. CASE Arm(t)
    BY <2>3 DEF Arm
  <2>4. CASE MasterStart(t)
    BY <2>4 DEF MasterStart, Xfer
  <2>5. CASE MasterRefuses(t)
    BY <2>5 DEF MasterRefuses
  <2>6. CASE NotifyWaitReturns(t)
    BY <2>6 DEF NotifyWaitReturns
  <2>7. CASE CheckErrors(t)
    BY <2>7 DEF CheckErrors
  <2>8. CASE NotifyWaitTimesOut(t)
    BY <2>8 DEF NotifyWaitTimesOut
  <2>9. CASE ResetAfterTimeout(t)
    BY <2>9 DEF ResetAfterTimeout
  <2>10. CASE GiveMutex(t)
    BY <2>10 DEF GiveMutex
  <2>11. CASE ZeroErrors(t)
    BY <2>11 DEF ZeroErrors
  <2>12. CASE ReturnCount(t)
    BY <2>12 DEF ReturnCount
  <2> QED
    BY <1>3, <2>1, <2>2, <2>3, <2>4, <2>5, <2>6, <2>7, <2>8, <2>9, <2>10, <2>11, <2>12 DEF Transfer
<1>4. ASSUME NEW t \in Tasks, MasterReset(t) PROVE TypeOK'
  <2>1. CASE Stop(t)
    BY <2>1 DEF Stop
  <2>2. CASE Reinit(t)
    BY <2>2 DEF Reinit
  <2>3. CASE Register(t)
    BY <2>3 DEF Register
  <2> QED
    BY <1>4, <2>1, <2>2, <2>3 DEF MasterReset
<1>5. CASE Interrupt
  <2>1. ASSUME xfer # NoXfer PROVE xfer \in Xfer
    BY <2>1
  <2>2. ASSUME NEW n \in 0..MaxLen, RecvHandler(n) PROVE TypeOK'
    <3>1. /\ xfer # NoXfer /\ n < xfer.left
          /\ UNCHANGED <<driver, holder, irq, local>>
      BY <2>2 DEF RecvHandler
    <3>2. CASE n = 0
      <4>1. NotifyTask /\ Ends("ok")
        BY <2>2, <3>2 DEF RecvHandler
      <4> QED
        BY <2>1, <3>1, <4>1 DEF NotifyTask, Ends, Xfer
    <3>3. CASE n # 0
      <4>1. xfer' = [xfer EXCEPT !.left = n] /\ UNCHANGED <<pending, fault, ghost>>
        BY <2>2, <3>3 DEF RecvHandler
      <4>2. n \in Length
        BY <3>3
      <4>3. xfer' \in Xfer
        BY <2>1, <3>1, <4>1, <4>2 DEF Xfer
      <4> QED
        BY <3>1, <4>1, <4>3
    <3> QED
      BY <3>2, <3>3
  <2>3. CASE SendHandler
    BY <2>1, <2>3 DEF SendHandler, NotifyTask, Ends, Xfer
  <2>4. CASE StatusHandler
    BY <2>1, <2>4 DEF StatusHandler, NotifyTask, Ends, Xfer
  <2> QED
    BY <1>5, <2>2, <2>3, <2>4 DEF Interrupt
<1>6. CASE UNCHANGED vars
  BY <1>6 DEF vars
<1> QED
  BY <1>1, <1>2, <1>3, <1>4, <1>5, <1>6 DEF Next

\* The driver's state, the mutexes, the notifications and the device stay in
\* the ranges bsp/iic.c gives them.
THEOREM TypeCorrect == Spec => []TypeOK
<1>1. Init => TypeOK
  <2> SUFFICES ASSUME Init PROVE TypeOK
    OBVIOUS
  <2>1. /\ mutex \in Mutex /\ holder \in [Mutex -> Tasks \cup {NoTask}]
        /\ task_handle \in Tasks \cup {NoTask}
        /\ Errors \in {0, 1} /\ trans_len \in 0..MaxLen
    BY IicAssumption DEF Init, Mutex
  <2>2. /\ xfer \in Xfer \cup {NoXfer} /\ irq \in BOOLEAN /\ fault \in BOOLEAN
        /\ pending \in [Tasks -> BOOLEAN] /\ late \in [Tasks -> BOOLEAN]
        /\ outcome \in [Tasks -> {"none", "ok", "error"}]
    BY DEF Init
  <2>3. pc \in [Tasks -> Point] /\ ret \in [Tasks -> ReturnCode \cup (0..MaxLen)]
    BY IicAssumption DEF Init, Point
  <2>4. call \in [Tasks -> [dir : Dir, len : Length, sem : Mutex]]
    BY IicAssumption DEF Init, Dir, Length, Mutex
  <2> QED
    BY <2>1, <2>2, <2>3, <2>4 DEF TypeOK
<1> QED
  BY <1>1, TypeStep, PTL DEF Spec

-----------------------------------------------------------------------------
(* Mutual exclusion *)

LEMMA HolderStep == TypeOK /\ HolderInv /\ [Next]_vars => HolderInv'
<1> SUFFICES ASSUME TypeOK, HolderInv, [Next]_vars, NEW u \in Tasks, (pc[u] \in Critical)'
             PROVE (holder[call[u].sem] = u)'
  BY DEF HolderInv
<1> USE IicAssumption DEF TypeOK, HolderInv, driver, kernel, device, local, ghost,
        Goto, Point, Critical
<1>1. ASSUME NEW t \in Tasks, Call(t) PROVE (holder[call[u].sem] = u)'
  BY <1>1 DEF Call
<1>2. ASSUME NEW t \in Tasks, TakeMutex(t) PROVE (holder[call[u].sem] = u)'
  BY <1>2 DEF TakeMutex
<1>3. ASSUME NEW t \in Tasks, GiveMutex(t) PROVE (holder[call[u].sem] = u)'
  BY <1>3 DEF GiveMutex
<1>4. ASSUME NEW t \in Tasks, Transfer(t), ~GiveMutex(t) PROVE (holder[call[u].sem] = u)'
  BY <1>4 DEF Transfer, BusIsBusy, BusIsFree, Arm, MasterStart, MasterRefuses,
              NotifyWaitReturns, CheckErrors, ZeroErrors, ReturnCount, NotifyWaitTimesOut, ResetAfterTimeout
<1>5. ASSUME NEW t \in Tasks, MasterReset(t) PROVE (holder[call[u].sem] = u)'
  BY <1>5 DEF MasterReset, Stop, Reinit, Register
<1>6. CASE Interrupt
  BY <1>6 DEF Interrupt, RecvHandler, SendHandler, StatusHandler
<1>7. CASE UNCHANGED vars
  BY <1>7 DEF vars
<1> QED
  BY <1>1, <1>2, <1>3, <1>4, <1>5, <1>6, <1>7 DEF Next

LEMMA HolderCorrect == Spec => []HolderInv
<1>1. Init => HolderInv
  BY DEF Init, HolderInv, Critical
<1> QED
  BY <1>1, HolderStep, TypeCorrect, PTL DEF Spec

\* Two tasks never hold the bus through the same mutex (bsp/iic.c:122,171),
\* whoever resets the driver and however often.
THEOREM BusIsExclusive == Spec => []MutualExclusion
<1>1. HolderInv => MutualExclusion
  BY DEF HolderInv, MutualExclusion
<1> QED
  BY <1>1, HolderCorrect, PTL

-----------------------------------------------------------------------------
(* What the mutex protects *)

\* A single user at a time: the tasks in the critical section are one.
LEMMA OneCritical ==
  ASSUME HolderInv, BusInv, SingleUser, NEW t \in Tasks, NEW u \in Tasks,
         pc[t] \in Critical, pc[u] \in Critical
  PROVE  t = u
BY DEF HolderInv, BusInv, OwnerInv

LEMMA BusStep == TypeOK /\ HolderInv /\ BusInv /\ [Next]_vars => BusInv'
<1> SUFFICES ASSUME TypeOK, HolderInv, BusInv, SingleUser, [Next]_vars
             PROVE /\ ~fault'
                   /\ (xfer # NoXfer => task_handle = xfer.owner)'
                   /\ \A u \in Tasks : OwnerInv(u)'
  BY DEF BusInv
<1> DEFINE Goal == /\ ~fault'
                   /\ (xfer # NoXfer => task_handle = xfer.owner)'
                   /\ \A u \in Tasks : OwnerInv(u)'
<1>1. /\ ~fault
      /\ xfer # NoXfer => task_handle = xfer.owner
      /\ \A u \in Tasks : OwnerInv(u)
  BY DEF BusInv
<1>2. \A t, u \in Tasks : pc[t] \in Critical /\ pc[u] \in Critical => t = u
  BY OneCritical
<1> USE IicAssumption DEF TypeOK, OwnerInv, driver, kernel, device, local, ghost,
        Goto, Point, Critical, ConfigAssert
<1>3. ASSUME NEW t \in Tasks, Call(t) PROVE Goal
  BY <1>1, <1>3 DEF Call
<1>4. ASSUME NEW t \in Tasks, TakeMutex(t) PROVE Goal
  BY <1>1, <1>4 DEF TakeMutex
<1>5. ASSUME NEW t \in Tasks, Transfer(t) PROVE Goal
  <2>1. CASE BusIsBusy(t)
    BY <1>1, <2>1 DEF BusIsBusy
  <2>2. CASE BusIsFree(t)
    BY <1>1, <2>2 DEF BusIsFree
  <2>3. CASE Arm(t)
    BY <1>1, <1>2, <2>3 DEF Arm
  <2>4. CASE MasterStart(t)
    BY <1>1, <1>2, <2>4 DEF MasterStart
  <2>5. CASE MasterRefuses(t)
    BY <1>1, <2>5 DEF MasterRefuses
  <2>6. CASE NotifyWaitReturns(t)
    BY <1>1, <2>6 DEF NotifyWaitReturns
  <2>7. CASE CheckErrors(t)
    BY <1>1, <1>2, <2>7 DEF CheckErrors
  <2>8. CASE NotifyWaitTimesOut(t)
    BY <1>1, <2>8 DEF NotifyWaitTimesOut
  <2>9. CASE ResetAfterTimeout(t)
    BY <1>1, <1>2, <2>9 DEF ResetAfterTimeout
  <2>10. CASE GiveMutex(t)
    <3>1. holder[mutex] = t
      BY <1>1, <2>10 DEF GiveMutex, HolderInv
    <3> QED
      BY <1>1, <2>10, <3>1 DEF GiveMutex
  <2>11. CASE ZeroErrors(t)
    BY <1>1, <1>2, <2>11 DEF ZeroErrors
  <2>12. CASE ReturnCount(t)
    BY <1>1, <2>12 DEF ReturnCount
  <2> QED
    BY <1>5, <2>1, <2>2, <2>3, <2>4, <2>5, <2>6, <2>7, <2>8, <2>9, <2>10, <2>11, <2>12 DEF Transfer
<1>6. ASSUME NEW t \in Tasks, MasterReset(t) PROVE Goal
  <2>1. \A u \in Tasks : u = t
    BY <1>1, <1>6 DEF SingleUser, MasterReset, Stop, Reinit, Register
  <2>2. CASE Stop(t)
    BY <1>1, <2>1, <2>2 DEF Stop
  <2>3. CASE Reinit(t)
    BY <1>1, <2>1, <2>3 DEF Reinit
  <2>4. CASE Register(t)
    BY <1>1, <2>1, <2>4 DEF Register
  <2> QED
    BY <1>6, <2>2, <2>3, <2>4 DEF MasterReset
<1>7. CASE Interrupt
  <2>1. irq /\ xfer # NoXfer /\ UNCHANGED <<mutex, task_handle, trans_len, holder, irq, local>>
    BY <1>7 DEF Interrupt, RecvHandler, SendHandler, StatusHandler
  <2>2. task_handle \in Tasks /\ task_handle = xfer.owner
    BY <1>1, <2>1 DEF Xfer
  <2>3. ASSUME NEW n \in 0..MaxLen, RecvHandler(n), n # 0 PROVE Goal
    <3>1. xfer.owner = xfer'.owner
      BY <2>1, <2>3 DEF RecvHandler, Xfer
    <3> QED
      BY <1>1, <2>1, <2>2, <2>3, <3>1 DEF RecvHandler
  <2>4. CASE (RecvHandler(0) \/ SendHandler)
    BY <1>1, <2>1, <2>2, <2>4 DEF RecvHandler, SendHandler, NotifyTask, Ends
  <2>5. CASE StatusHandler
    BY <1>1, <2>1, <2>2, <2>5 DEF StatusHandler, NotifyTask, Ends
  <2> QED
    BY <1>7, <2>3, <2>4, <2>5 DEF Interrupt
<1>8. CASE UNCHANGED vars
  BY <1>1, <1>8 DEF vars
<1> QED
  BY <1>3, <1>4, <1>5, <1>6, <1>7, <1>8 DEF Next

LEMMA BusCorrect == Spec => []BusInv
<1>1. Init => BusInv
  BY DEF Init, BusInv, OwnerInv
<1> QED
  BY <1>1, BusStep, TypeCorrect, HolderCorrect, PTL DEF Spec

\* The handler's task_handle is always the task whose transfer is on the bus
\* (bsp/iic.c:133, 270, 296, 323), although premature returns do happen.
THEOREM CompletionCorrect == Spec => []CompletionGoesToStarter
<1>1. BusInv => CompletionGoesToStarter
  BY DEF BusInv, CompletionGoesToStarter
<1> QED
  BY <1>1, BusCorrect, PTL

\* No configASSERT of the driver trips (bsp/iic.c:84, 268, 294, 322), nor the
\* kernel's check of who gives a mutex.
THEOREM NeverFaults == Spec => []NoFault
<1>1. BusInv => NoFault
  BY DEF BusInv, NoFault
<1> QED
  BY <1>1, BusCorrect, PTL

\* No error of a transfer is lost, although the handler may write Errors
\* between the task's test of it and the end of the branch (bsp/iic.c:148-161).
THEOREM ErrorsAreReported == Spec => ErrorNeverReportedAsSuccess
<1> DEFINE Kept(t) == (SingleUser /\ outcome[t] = "error" /\ pc[t] \in {"check", "zero", "count"}) =>
                        /\ pc[t] = "check" /\ pc'[t] # "check" => pc'[t] = "zero"
                        /\ pc'[t] = "give" => ret'[t] = IIC_SLAVE_NO_ACK \/ Errors' # 0
<1>1. TypeOK /\ BusInv /\ [Next]_vars => [\A t \in Tasks : Kept(t)]_vars
  <2> SUFFICES ASSUME TypeOK, BusInv, Next, NEW u \in Tasks, SingleUser, outcome[u] = "error",
                      pc[u] \in {"check", "zero", "count"}, pc'[u] # pc[u]
               PROVE  Kept(u)
    OBVIOUS
  <2>1. pc[u] \in {"check", "count"} => Errors # 0
    BY DEF BusInv, OwnerInv
  <2>2. \A t \in Tasks : ~Call(t) /\ ~TakeMutex(t) /\ ~MasterReset(t)
    BY DEF TypeOK, Call, TakeMutex, MasterReset, Stop, Reinit, Register, Goto
  <2>3. ~Interrupt
    BY DEF Interrupt, RecvHandler, SendHandler, StatusHandler, local
  <2>4. PICK t \in Tasks : Transfer(t)
    BY <2>2, <2>3 DEF Next
  <2>5. CheckErrors(u) \/ ZeroErrors(u) \/ ReturnCount(u)
    BY <2>4 DEF TypeOK, Transfer, BusIsBusy, BusIsFree, Arm, MasterStart, MasterRefuses,
                NotifyWaitReturns, CheckErrors, ZeroErrors, ReturnCount, NotifyWaitTimesOut,
                ResetAfterTimeout, GiveMutex, Goto
  <2> QED
    BY <2>1, <2>5 DEF CheckErrors, ZeroErrors, ReturnCount, Goto, driver, TypeOK
<1> QED
  BY <1>1, TypeCorrect, BusCorrect, PTL DEF Spec, ErrorNeverReportedAsSuccess

-----------------------------------------------------------------------------
(* What a return tells the caller *)

LEMMA LateStep == TypeOK /\ HolderInv /\ BusInv /\ LateInv /\ [Next]_vars => LateInv'
<1> SUFFICES ASSUME TypeOK, HolderInv, BusInv, LateInv, [Next]_vars, NoneLate'
             PROVE /\ (xfer # NoXfer => pc[xfer.owner] \in {"wait", "reset"} /\ outcome[xfer.owner] = "none")'
                   /\ (Errors # 0 => \E u \in Tasks : pc[u] \in {"wait", "check", "zero"} /\ outcome[u] = "error")'
                   /\ \A u \in Tasks : NoticeInv(u)'
  BY DEF LateInv
<1> DEFINE XferOK   == xfer # NoXfer => pc[xfer.owner] \in {"wait", "reset"} /\ outcome[xfer.owner] = "none"
           ErrorOK  == Errors # 0 => \E u \in Tasks : pc[u] \in {"wait", "check", "zero"} /\ outcome[u] = "error"
           NoticeOK == \A u \in Tasks : NoticeInv(u)
           Goal     == XferOK' /\ ErrorOK' /\ NoticeOK'
<1>1. NoneLate
  <2>1. ASSUME NEW u \in Tasks, late[u] PROVE late'[u]
    <3>1. CASE NotifyTask
      BY <2>1, <3>1 DEF NotifyTask
    <3>2. CASE ~NotifyTask
      <4>1. late' = late
        BY <3>2 DEF Next, vars, ghost, Call, TakeMutex, Transfer, BusIsBusy, BusIsFree, Arm,
             MasterStart, MasterRefuses, NotifyWaitReturns, CheckErrors, ZeroErrors, ReturnCount, NotifyWaitTimesOut,
             ResetAfterTimeout, GiveMutex, MasterReset, Stop, Reinit, Register,
             Interrupt, RecvHandler, SendHandler, StatusHandler
      <4> QED
        BY <2>1, <4>1
    <3> QED
      BY <3>1, <3>2
  <2> QED
    BY <2>1 DEF NoneLate
<1>2. XferOK /\ ErrorOK /\ NoticeOK
  BY <1>1 DEF LateInv
<1>3. SingleUser /\ (\A u \in Tasks : OwnerInv(u)) /\ (xfer # NoXfer => task_handle = xfer.owner)
  BY <1>1 DEF NoneLate, BusInv
<1>4. \A t, u \in Tasks : pc[t] \in Critical /\ pc[u] \in Critical => t = u
  BY <1>3, OneCritical
<1> USE IicAssumption DEF TypeOK, NoticeInv, driver, kernel, device, local, ghost,
        Goto, Point, Critical
<1>5. ASSUME NEW t \in Tasks, Call(t) PROVE Goal
  BY <1>2, <1>5 DEF Call, Xfer
<1>6. ASSUME NEW t \in Tasks, TakeMutex(t) PROVE Goal
  BY <1>2, <1>6 DEF TakeMutex, Xfer
<1>7. ASSUME NEW t \in Tasks, Transfer(t) PROVE Goal
  <2>1. CASE BusIsBusy(t)
    BY <1>2, <2>1 DEF BusIsBusy, Xfer, IIC_SLAVE_NO_ACK, IIC_BUS_IS_BUSY
  <2>2. CASE BusIsFree(t)
    BY <1>2, <2>2 DEF BusIsFree, Xfer
  <2>3. CASE Arm(t)
    BY <1>2, <2>3 DEF Arm, Xfer
  <2>4. CASE MasterStart(t)
    <3>1. pc[t] = "send" /\ pc' = [pc EXCEPT ![t] = "wait"] /\ ~pending[t] /\ Errors = 0
      BY <1>2, <1>4, <2>4 DEF MasterStart
    <3>2. xfer'.owner = t
      BY <2>4 DEF MasterStart
    <3>3. XferOK' /\ ErrorOK'
      BY <3>1, <3>2, <2>4 DEF MasterStart
    <3>4. ASSUME NEW u \in Tasks PROVE NoticeInv(u)'
      BY <1>2, <1>3, <1>4, <2>4, <3>1 DEF MasterStart, OwnerInv
    <3> QED
      BY <3>3, <3>4
  <2>5. CASE MasterRefuses(t)
    BY <1>2, <2>5 DEF MasterRefuses, Xfer, IIC_SLAVE_NO_ACK,
                      IIC_MASTER_SEND_ERROR, IIC_MASTER_RECV_ERROR
  <2>6. CASE NotifyWaitReturns(t)
    BY <1>2, <2>6 DEF NotifyWaitReturns, Xfer
  <2>7. CASE CheckErrors(t)
    <3>1. pc[t] = "check" /\ xfer = NoXfer
      BY <1>2, <2>7 DEF CheckErrors
    <3>2. Errors # 0 <=> outcome[t] = "error"
      BY <1>2, <1>3, <1>4, <3>1 DEF OwnerInv
    <3>3. outcome[t] \in {"ok", "error"}
      BY <1>2, <3>1
    <3> QED
      BY <1>2, <1>4, <2>7, <3>1, <3>2, <3>3 DEF CheckErrors
  <2>8. CASE NotifyWaitTimesOut(t)
    BY <1>2, <2>8 DEF NotifyWaitTimesOut, Xfer
  <2>9. CASE ResetAfterTimeout(t)
    BY <1>2, <2>9 DEF ResetAfterTimeout, Xfer, IIC_SLAVE_NO_ACK, IIC_TIMEOUT
  <2>10. CASE GiveMutex(t)
    BY <1>2, <2>10 DEF GiveMutex, Xfer
  <2>11. CASE ZeroErrors(t)
    BY <1>2, <1>4, <2>11 DEF ZeroErrors, Xfer, IIC_SLAVE_NO_ACK
  <2>12. CASE ReturnCount(t)
    BY <1>2, <1>3, <2>12 DEF ReturnCount, OwnerInv, Xfer, Length, IIC_SLAVE_NO_ACK
  <2> QED
    BY <1>7, <2>1, <2>2, <2>3, <2>4, <2>5, <2>6, <2>7, <2>8, <2>9, <2>10, <2>11, <2>12 DEF Transfer
<1>8. ASSUME NEW t \in Tasks, MasterReset(t) PROVE Goal
  <2>1. \A u \in Tasks : u = t
    BY <1>3, <1>8 DEF OwnerInv, SingleUser, MasterReset, Stop, Reinit, Register
  <2>2. CASE Stop(t)
    BY <1>2, <2>1, <2>2 DEF Stop
  <2>3. CASE Reinit(t)
    BY <1>2, <2>1, <2>3 DEF Reinit
  <2>4. CASE Register(t)
    BY <1>2, <2>1, <2>4 DEF Register, Xfer
  <2> QED
    BY <1>8, <2>2, <2>3, <2>4 DEF MasterReset
<1>9. CASE Interrupt
  <2>1. xfer # NoXfer /\ UNCHANGED <<mutex, task_handle, trans_len, holder, irq, local>>
    BY <1>9 DEF Interrupt, RecvHandler, SendHandler, StatusHandler
  <2>2. xfer.owner \in Tasks /\ task_handle = xfer.owner
    BY <1>3, <2>1 DEF Xfer
  <2>3. ASSUME NEW n \in 0..MaxLen, RecvHandler(n), n # 0 PROVE Goal
    <3>1. xfer.owner = xfer'.owner
      BY <2>1, <2>3 DEF RecvHandler, Xfer
    <3>2. UNCHANGED <<pending, fault, ghost, Errors>>
      BY <2>3 DEF RecvHandler
    <3> QED
      BY <1>2, <2>1, <2>2, <3>1, <3>2
  <2>4. ASSUME NotifyTask, NEW how \in {"ok", "error"}, Ends(how)
        PROVE  XferOK' /\ NoticeOK'
    <3>1. pc[xfer.owner] = "wait" /\ outcome[xfer.owner] = "none"
      BY <1>2, <2>1, <2>2, <2>4 DEF NotifyTask, NoneLate
    <3> QED
      BY <1>2, <1>4, <2>1, <2>2, <2>4, <3>1 DEF NotifyTask, Ends
  <2>5. CASE (RecvHandler(0) \/ SendHandler)
    <3>1. NotifyTask /\ Ends("ok") /\ Errors' = Errors
      BY <2>5 DEF RecvHandler, SendHandler
    <3>2. ErrorOK'
      BY <1>2, <2>1, <2>2, <3>1 DEF Ends
    <3> QED
      BY <2>4, <3>1, <3>2
  <2>6. CASE StatusHandler
    <3>1. NotifyTask /\ Ends("error")
      BY <2>6 DEF StatusHandler
    <3>2. ErrorOK'
      BY <1>2, <2>1, <2>2, <3>1 DEF Ends, NotifyTask, NoneLate
    <3> QED
      BY <2>4, <3>1, <3>2
  <2> QED
    BY <1>9, <2>3, <2>5, <2>6 DEF Interrupt
<1>10. CASE UNCHANGED vars
  BY <1>2, <1>10 DEF vars
<1> QED
  BY <1>5, <1>6, <1>7, <1>8, <1>9, <1>10 DEF Next

LEMMA LateCorrect == Spec => []LateInv
<1>1. Init => LateInv
  BY DEF Init, LateInv, NoticeInv
<1> QED
  BY <1>1, LateStep, TypeCorrect, HolderCorrect, BusCorrect, PTL DEF Spec

\* What a transfer returns is true of that transfer (bsp/iic.c:145-168), unless
\* an interrupt has fallen between a time-out and the reset that follows it.
THEOREM HonestReturns == Spec => []HonestUnlessLate
<1>1. LateInv => HonestUnlessLate
  BY DEF LateInv, NoneLate, NoticeInv, HonestUnlessLate
<1> QED
  BY <1>1, LateCorrect, PTL
=============================================================================
