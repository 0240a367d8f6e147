-------------------------------- MODULE Iic --------------------------------
(***************************************************************************)
(* The interrupt-driven IIC bus driver, bsp/iic.c.                         *)
(*                                                                         *)
(* Tasks share one bus through a FreeRTOS mutex.  A transfer takes the     *)
(* mutex, starts the Xilinx device, and blocks in xTaskNotifyWait until    *)
(* the interrupt handler notifies it or 500 ms pass; then it gives the     *)
(* mutex back.  iic0_master_reset stops the device, waits 100 ms and runs  *)
(* iic_init again, which allocates a new mutex.  The interrupt handlers    *)
(* run between any two steps of the tasks.                                 *)
(***************************************************************************)
EXTENDS Integers, FiniteSets

CONSTANTS Tasks,      \* the tasks that call the driver
          Resetters,  \* those that also call iic0_master_reset
          NoTask,     \* the NULL task handle, and the holder of a free mutex
          MaxLen,     \* bound: longest transfer, in bytes
          MaxMutex    \* bound: mutexes that iic_init may allocate

ASSUME IicAssumption ==
  /\ Resetters \subseteq Tasks
  /\ NoTask \notin Tasks
  /\ MaxLen \in Nat \ {0}
  /\ MaxMutex \in Nat \ {0}

VARIABLES
  mutex,        \* Iic->mutex: which of the mutexes allocated so far
  holder,       \* kernel: the holder of each mutex
  task_handle,  \* Iic->task_handle
  Errors,       \* Iic->Errors, 0 or the bus status
  trans_len,    \* Iic->trans_len
  xfer,         \* device: the transfer in progress, or NoXfer
  irq,          \* PLIC: the handler is registered and its source enabled
  pending,      \* kernel: a notification is pending for the task
  pc,           \* where each task is in its call
  call,         \* the arguments of the call, and the mutex it waited for
  ret,          \* what the last call returned
  fault,        \* a configASSERT failed: the system has stopped
  outcome,      \* history: how the device ended this call's transfer
  late          \* history: an interrupt hit the task after its timeout

driver == <<mutex, task_handle, Errors, trans_len>>
kernel == <<holder, pending>>
device == <<xfer, irq>>
local  == <<pc, call, ret>>
ghost  == <<outcome, late>>
vars   == <<driver, kernel, device, local, fault, ghost>>

-----------------------------------------------------------------------------
(* Values *)

IIC_TIMEOUT           == -1
IIC_SLAVE_NO_ACK      == -2
IIC_MASTER_SEND_ERROR == -3
IIC_MASTER_RECV_ERROR == -4
IIC_BUS_IS_BUSY       == -5

Length        == 1..MaxLen
Dir        == {"transmit", "receive"}
Mutex      == 1..MaxMutex
ReturnCode == {IIC_TIMEOUT, IIC_SLAVE_NO_ACK, IIC_MASTER_SEND_ERROR,
               IIC_MASTER_RECV_ERROR, IIC_BUS_IS_BUSY}

NoXfer == [owner |-> NoTask, dir |-> "transmit", left |-> 0]
Xfer   == [owner : Tasks, dir : Dir, left : Length]

\* Program points.  "take" to "give" are inside iic_transmit/iic_receive,
\* "delay" and "reinit" inside iic0_master_reset.
Critical == {"busy", "arm", "send", "wait", "check", "zero", "count", "reset", "give"}
Point    == {"idle", "take", "delay", "reinit"} \cup Critical

Goto(t, from, to) == pc[t] = from /\ pc' = [pc EXCEPT ![t] = to]

\* configASSERT of a condition that failed stops the system; the state is
\* otherwise left alone.
ConfigAssert(cond) == fault' = ~cond

-----------------------------------------------------------------------------
(* iic_transmit and iic_receive *)

\* The caller enters and reads the mutex it is going to wait for.
Call(t) ==
  /\ Goto(t, "idle", "take")
  /\ \E d \in Dir, n \in Length : call' = [call EXCEPT ![t] = [dir |-> d, len |-> n, sem |-> mutex]]
  /\ UNCHANGED <<driver, kernel, device, ret, fault, ghost>>

\* Mutant: the mutex is not waited for.
TakeWithoutLock(t) ==
  /\ Goto(t, "take", "busy")
  /\ holder' = [holder EXCEPT ![call[t].sem] = t]
  /\ UNCHANGED <<driver, pending, device, call, ret, fault, ghost>>

TakeMutex(t) ==
  /\ holder[call[t].sem] = NoTask
  /\ Goto(t, "take", "busy")
  /\ holder' = [holder EXCEPT ![call[t].sem] = t]
  /\ UNCHANGED <<driver, pending, device, call, ret, fault, ghost>>

\* Mutant: the early return forgets the mutex.
BusyKeepsMutex(t) ==
  /\ Goto(t, "busy", "idle")
  /\ ret' = [ret EXCEPT ![t] = IIC_BUS_IS_BUSY]
  /\ UNCHANGED <<driver, kernel, device, call, fault, ghost>>

\* The bus is certainly busy while the device runs a transfer of ours; it may
\* also be held by another master.
BusIsBusy(t) ==
  /\ Goto(t, "busy", "give")
  /\ ret' = [ret EXCEPT ![t] = IIC_BUS_IS_BUSY]
  /\ UNCHANGED <<driver, kernel, device, call, fault, ghost>>

BusIsFree(t) ==
  /\ Goto(t, "busy", "arm")
  /\ xfer = NoXfer
  /\ UNCHANGED <<driver, kernel, device, call, ret, fault, ghost>>

\* Mutant: the task does not record itself.
ArmWithoutHandle(t) ==
  /\ Goto(t, "arm", "send")
  /\ trans_len' = call[t].len
  /\ UNCHANGED <<mutex, task_handle, Errors, kernel, device, call, ret, fault, ghost>>

\* The task records itself as the one to notify.
Arm(t) ==
  /\ Goto(t, "arm", "send")
  /\ task_handle' = t
  /\ trans_len' = call[t].len
  /\ UNCHANGED <<mutex, Errors, kernel, device, call, ret, fault, ghost>>

\* XIic_MasterSend/XIic_MasterRecv starts the device ...
MasterStart(t) ==
  /\ Goto(t, "send", "wait")
  /\ xfer' = [owner |-> t, dir |-> call[t].dir, left |-> call[t].len]
  /\ outcome' = [outcome EXCEPT ![t] = "none"]
  /\ UNCHANGED <<driver, kernel, irq, call, ret, fault, late>>

\* ... or refuses.
MasterRefuses(t) ==
  /\ Goto(t, "send", "give")
  /\ ret' = [ret EXCEPT ![t] = IF call[t].dir = "transmit" THEN IIC_MASTER_SEND_ERROR
                                                            ELSE IIC_MASTER_RECV_ERROR]
  /\ UNCHANGED <<driver, kernel, device, call, fault, ghost>>

\* xTaskNotifyWait returns pdTRUE: a notification is pending, whatever sent it
\* and whenever.  Nothing clears it on entry.
NotifyWaitReturns(t) ==
  /\ pending[t]
  /\ Goto(t, "wait", "check")
  /\ pending' = [pending EXCEPT ![t] = FALSE]
  /\ UNCHANGED <<driver, holder, device, call, ret, fault, ghost>>

\* The task tests Errors; from here to the end of its branch, which in the case
\* of an error prints a line first, the handler may still write it.
CheckErrors(t) ==
  /\ Goto(t, "check", IF Errors # 0 THEN "zero" ELSE "count")
  /\ UNCHANGED <<driver, kernel, device, call, ret, fault, ghost>>

\* Mutant: the error variable is not zeroed.
ZeroErrorsKeeps(t) ==
  /\ Goto(t, "zero", "give")
  /\ ret' = [ret EXCEPT ![t] = IIC_SLAVE_NO_ACK]
  /\ UNCHANGED <<driver, kernel, device, call, fault, ghost>>

ZeroErrors(t) ==
  /\ Goto(t, "zero", "give")
  /\ Errors' = 0
  /\ ret' = [ret EXCEPT ![t] = IIC_SLAVE_NO_ACK]
  /\ UNCHANGED <<mutex, task_handle, trans_len, kernel, device, call, fault, ghost>>

\* Mutant: both branches zero the error variable.
ReturnCountZeroes(t) ==
  /\ Goto(t, "count", "give")
  /\ Errors' = 0
  /\ ret' = [ret EXCEPT ![t] = trans_len]
  /\ UNCHANGED <<mutex, task_handle, trans_len, kernel, device, call, fault, ghost>>

ReturnCount(t) ==
  /\ Goto(t, "count", "give")
  /\ ret' = [ret EXCEPT ![t] = trans_len]
  /\ UNCHANGED <<driver, kernel, device, call, fault, ghost>>

\* xTaskNotifyWait returns pdFALSE: 500 ms passed and nothing is pending.
NotifyWaitTimesOut(t) ==
  /\ ~pending[t]
  /\ Goto(t, "wait", "reset")
  /\ UNCHANGED <<driver, kernel, device, call, ret, fault, ghost>>

\* The time-out branch, after its printf: XIic_Reset aborts the transfer.
ResetAfterTimeout(t) ==
  /\ Goto(t, "reset", "give")
  /\ xfer' = NoXfer
  /\ ret' = [ret EXCEPT ![t] = IIC_TIMEOUT]
  /\ UNCHANGED <<driver, kernel, irq, call, fault, ghost>>

\* xSemaphoreGive(Iic->mutex) reads Iic->mutex again.  The holder frees it,
\* giving a free mutex does nothing, and giving a mutex that another task
\* holds trips the kernel's assertion.
GiveMutex(t) ==
  /\ Goto(t, "give", "idle")
  /\ ConfigAssert(holder[mutex] \in {t, NoTask})
  /\ holder' = [holder EXCEPT ![mutex] = IF @ = t THEN NoTask ELSE @]
  /\ UNCHANGED <<driver, pending, device, call, ret, ghost>>

-----------------------------------------------------------------------------
(* iic0_master_reset *)

\* iic_stop: the PLIC source is disabled before the device is stopped.
Stop(t) ==
  /\ t \in Resetters
  /\ mutex < MaxMutex
  /\ Goto(t, "idle", "delay")
  /\ irq' = FALSE
  /\ xfer' = NoXfer
  /\ UNCHANGED <<driver, kernel, call, ret, fault, ghost>>

\* iic_init up to the self-test: a new mutex, a fresh device.
Reinit(t) ==
  /\ Goto(t, "delay", "reinit")
  /\ mutex < MaxMutex
  /\ mutex' = mutex + 1
  /\ task_handle' = NoTask
  /\ Errors' = 0
  /\ xfer' = NoXfer
  /\ UNCHANGED <<trans_len, kernel, irq, call, ret, fault, ghost>>

\* The rest of iic_init: PLIC_register_interrupt_handler returns 0, and the
\* assertion fails, if a handler is there already.
Register(t) ==
  /\ Goto(t, "reinit", "idle")
  /\ ConfigAssert(~irq)
  /\ irq' = TRUE
  /\ UNCHANGED <<driver, kernel, xfer, call, ret, ghost>>

-----------------------------------------------------------------------------
(* Interrupt handlers.  The device runs while it has a transfer; PLIC passes *)
(* its interrupts on while the handler is registered.                        *)

\* vTaskNotifyGiveFromISR to task_handle, behind configASSERT.  An interrupt
\* that finds its task past the time-out is a late one.
NotifyTask ==
  /\ ConfigAssert(task_handle # NoTask)
  /\ pending' = [t \in Tasks |-> pending[t] \/ t = task_handle]
  /\ late' = [t \in Tasks |-> late[t] \/ (t = task_handle /\ pc[t] = "reset")]

\* The device is done with the transfer, in one of two ways.
Ends(how) ==
  /\ xfer' = NoXfer
  /\ outcome' = [outcome EXCEPT ![xfer.owner] = how]

\* Mutant: the last byte is taken for one that is still to come.
RecvHandlerOffByOne(ByteCount) ==
  /\ irq /\ xfer # NoXfer /\ xfer.dir = "receive"
  /\ ByteCount < xfer.left
  /\ xfer' = [xfer EXCEPT !.left = ByteCount]
  /\ UNCHANGED <<pending, fault, ghost, driver, holder, irq, local>>

\* Called with the number of bytes still to come; only 0 notifies the task.
RecvHandler(ByteCount) ==
  /\ irq /\ xfer # NoXfer /\ xfer.dir = "receive"
  /\ ByteCount < xfer.left
  /\ IF ByteCount # 0
     THEN /\ xfer' = [xfer EXCEPT !.left = ByteCount]
          /\ UNCHANGED <<pending, fault, ghost>>
     ELSE /\ NotifyTask
          /\ Ends("ok")
  /\ UNCHANGED <<driver, holder, irq, local>>

\* Its assertion that Status is 0 is one on the device, whose driver calls it
\* with the number of bytes still to send, after the last of them.
SendHandler ==
  /\ irq /\ xfer # NoXfer /\ xfer.dir = "transmit"
  /\ NotifyTask
  /\ Ends("ok")
  /\ UNCHANGED <<driver, holder, irq, local>>

\* The bus status changed: an error ends the transfer.
StatusHandler ==
  /\ irq /\ xfer # NoXfer
  /\ Errors' = 1
  /\ NotifyTask
  /\ Ends("error")
  /\ UNCHANGED <<mutex, task_handle, trans_len, holder, irq, local>>

-----------------------------------------------------------------------------
(* Specification *)

\* After the iic_init that prvSetupHardware runs before the scheduler starts.
Init ==
  /\ mutex = 1
  /\ holder = [m \in Mutex |-> NoTask]
  /\ task_handle = NoTask
  /\ Errors = 0
  /\ trans_len = 0
  /\ xfer = NoXfer
  /\ irq = TRUE
  /\ pending = [t \in Tasks |-> FALSE]
  /\ pc = [t \in Tasks |-> "idle"]
  /\ call = [t \in Tasks |-> [dir |-> "transmit", len |-> 1, sem |-> 1]]
  /\ ret = [t \in Tasks |-> 0]
  /\ fault = FALSE
  /\ outcome = [t \in Tasks |-> "none"]
  /\ late = [t \in Tasks |-> FALSE]

Transfer(t) ==
  \/ BusIsBusy(t) \/ BusIsFree(t) \/ Arm(t)
  \/ MasterStart(t) \/ MasterRefuses(t)
  \/ NotifyWaitReturns(t) \/ CheckErrors(t) \/ ZeroErrors(t) \/ ReturnCount(t)
  \/ NotifyWaitTimesOut(t) \/ ResetAfterTimeout(t)
  \/ GiveMutex(t)

MasterReset(t) == Stop(t) \/ Reinit(t) \/ Register(t)

Interrupt ==
  \/ \E n \in 0..MaxLen : RecvHandler(n)
  \/ SendHandler
  \/ StatusHandler

Next ==
  /\ ~fault
  /\ \/ \E t \in Tasks : Call(t) \/ TakeMutex(t) \/ Transfer(t) \/ MasterReset(t)
     \/ Interrupt

Spec == Init /\ [][Next]_vars

\* A task that can run runs; xTaskNotifyWait returns one way or the other; the
\* kernel hands the mutex over in order among tasks of one priority.  Nothing
\* is assumed of the device.
Fairness ==
  \A t \in Tasks : /\ WF_vars(~fault /\ Transfer(t))
                   /\ SF_vars(~fault /\ TakeMutex(t))
                   /\ WF_vars(~fault /\ (Reinit(t) \/ Register(t)))

FairSpec == Spec /\ Fairness

-----------------------------------------------------------------------------
(* Properties *)

\* Type invariant of the driver's state.
TypeOK ==
  /\ mutex \in Mutex
  /\ holder \in [Mutex -> Tasks \cup {NoTask}]
  /\ task_handle \in Tasks \cup {NoTask}
  /\ Errors \in {0, 1}
  /\ trans_len \in 0..MaxLen
  /\ xfer \in Xfer \cup {NoXfer}
  /\ irq \in BOOLEAN
  /\ pending \in [Tasks -> BOOLEAN]
  /\ pc \in [Tasks -> Point]
  /\ call \in [Tasks -> [dir : Dir, len : Length, sem : Mutex]]
  /\ ret \in [Tasks -> ReturnCode \cup (0..MaxLen)]
  /\ fault \in BOOLEAN
  /\ outcome \in [Tasks -> {"none", "ok", "error"}]
  /\ late \in [Tasks -> BOOLEAN]

\* The driver as this program uses it: either nobody resets it, or its only
\* user does (prvSensorTask).
SingleUser == Resetters = {} \/ \A t, u \in Tasks : t = u

\* "Mutex for bus acquisition" (iic.h:18): two tasks are never between the
\* take and the give of the same mutex, resets or not.
MutualExclusion ==
  \A t, u \in Tasks :
    (pc[t] \in Critical /\ pc[u] \in Critical /\ call[t].sem = call[u].sem) => t = u

\* The handler notifies the task whose transfer the device has just ended,
\* although it only has the shared task_handle to go by.
CompletionGoesToStarter ==
  SingleUser => (xfer # NoXfer => task_handle = xfer.owner)

\* No configASSERT of the driver or of the mutex trips: the handler never
\* finds a NULL task handle, a mutex is never given by another task, the
\* interrupt handler is never registered twice.
NoFault == SingleUser => ~fault

\* A transfer reports a number of bytes only after its own bytes are on the
\* bus, and reports a missing acknowledge only for its own error, as long as
\* no interrupt ever fell between a time-out and the device reset after it.
HonestUnlessLate ==
  (SingleUser /\ \A u \in Tasks : ~late[u]) =>
    \A t \in Tasks : pc[t] = "give" =>
      /\ ret[t] > 0 => outcome[t] = "ok" /\ ret[t] = call[t].len
      /\ ret[t] = IIC_SLAVE_NO_ACK => outcome[t] = "error"

\* "Synchronous API, this function blocks until the transaction ends" (iic.c:109).
Synchronous ==
  \A t \in Tasks : (pc[t] = "give" /\ ret[t] > 0) => outcome[t] = "ok"

\* An error of a transfer is never lost, late interrupts included, wherever it
\* falls between the test of Errors and the end of its branch: one recorded
\* before the test takes the branch of the error, and a task that returns for a
\* transfer that failed either says so or leaves Errors set.
ErrorNeverReportedAsSuccess ==
  [][\A t \in Tasks :
       (SingleUser /\ outcome[t] = "error" /\ pc[t] \in {"check", "zero", "count"}) =>
         /\ pc[t] = "check" /\ pc'[t] # "check" => pc'[t] = "zero"
         /\ pc'[t] = "give" => ret'[t] = IIC_SLAVE_NO_ACK \/ Errors' # 0]_vars

\* Every call returns: a transfer that nothing answers times out, and no path
\* through the call keeps the mutex.
CallReturns ==
  \A t \in Tasks : (pc[t] = "take") ~> (pc[t] = "idle")
=============================================================================
