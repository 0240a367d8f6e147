--------------------------------- MODULE Board ---------------------------------
(***************************************************************************)
(* The interrupt controller driver, bsp/plic_driver.c, the set-up of the   *)
(* board and its external interrupt handler, bsp/bsp.c, composed with the  *)
(* IIC driver that registers its handler through them.                     *)
(*                                                                         *)
(* Registering a handler is a write of the handler table followed by a     *)
(* read and a write of a word of enable bits, unregistering is a read and  *)
(* a write of that word followed by a write of the table; the interrupt    *)
(* handler and the other tasks run between any two of these.  The network  *)
(* driver registers its sources from the IP task, and prvSensorTask, the   *)
(* only user of the bus, is made when the network is up.  Module Iic stops *)
(* and starts the interrupt in one step each; this one has all of theirs,  *)
(* and implements it.                                                      *)
(***************************************************************************)
EXTENDS Integers, FiniteSets

CONSTANTS SensorTask,   \* the task that uses the bus
          IpTask,       \* the task of the TCP stack
          NoTask, MaxLen, MaxMutex,    \* as in Iic
          Sources,      \* the sources of the controller
          IIC0,         \* PLIC_SOURCE_IIC0
          NetSources    \* the sources that the network driver registers

ASSUME BoardAssumption ==
  /\ Cardinality({SensorTask, IpTask, NoTask}) = 3
  /\ MaxLen \in Nat \ {0} /\ MaxMutex \in Nat \ {0}
  /\ IIC0 \in Sources /\ NetSources \subseteq Sources \ {IIC0}

VARIABLES
  mutex, holder, task_handle, Errors, trans_len, xfer, pending,   \* as in Iic
  pc, call, ret, fault, outcome, late,
  started,       \* the scheduler runs: prvSetupHardware is over
  netUp,         \* the network is up, prvSensorTask has been made
  Handler,       \* the sources whose HandlerTable[].Handler is not NULL
  enable,        \* the enable bits
  priority,      \* the sources whose priority is not 0
  driver,        \* where each task is in the PLIC driver, and for which source
  current,       \* the driver's local of that name
  jumped         \* a NULL handler was called

iic  == <<mutex, holder, task_handle, Errors, trans_len, xfer, pending,
          pc, call, ret, fault, outcome, late>>
plic == <<Handler, enable, priority, driver, current, jumped>>
vars == <<iic, plic, started, netUp>>

Users == {SensorTask, IpTask}
Step  == {"none", "enable", "set", "disable", "clear", "null", "stop"}
At(t, step) == driver[t].step = step

\* To module Iic the source is on until the device is stopped, and it begins
\* after prvSetupHardware.
Iic == INSTANCE Iic WITH
         Tasks <- {SensorTask}, Resetters <- {SensorTask},
         irq <- ~started \/ IIC0 \in enable \/ driver[SensorTask].step \in {"null", "stop"}

-----------------------------------------------------------------------------
(* prvSetupHardware, before the scheduler starts *)

\* Mutant: the enable bits are not cleared.
SetupKeepsEnable ==
  /\ ~started
  /\ started' = TRUE
  /\ Handler' = {IIC0}
  /\ enable' = enable \cup {IIC0}
  /\ priority' = priority \cup NetSources \cup {IIC0}
  /\ UNCHANGED <<iic, driver, current, jumped, netUp>>

\* PLIC_init: no handlers, and no source enabled.  Its loop over the
\* priorities stops at once (it begins at PLIC_BASE_ADDR), so they stay as they
\* were at power-on, but for those that are set here.  iic0_init registers the
\* handler of the IIC.
SetupHardware ==
  /\ ~started
  /\ started' = TRUE
  /\ Handler' = {IIC0}
  /\ enable' = {IIC0}
  /\ priority' = priority \cup NetSources \cup {IIC0}
  /\ UNCHANGED <<iic, driver, current, jumped, netUp>>

-----------------------------------------------------------------------------
(* PLIC_register_interrupt_handler, after it has entered a handler for a     *)
(* source that had none (NetRegisters, RegisterBegins)                       *)

\* PLIC_enable_interrupt reads the enable word ...
ReadToEnable(t) ==
  /\ At(t, "enable")
  /\ current' = [current EXCEPT ![t] = enable]
  /\ driver' = [driver EXCEPT ![t].step = "set"]
  /\ UNCHANGED <<Handler, enable, priority, jumped>>

\* Mutant: the bit of the next source is set.
WriteNextEnabled(t) ==
  /\ At(t, "set")
  /\ enable' = current[t] \cup {driver[t].source + 1}
  /\ driver' = [driver EXCEPT ![t].step = "none"]
  /\ UNCHANGED <<Handler, priority, current, jumped>>

\* ... and writes it.
WriteEnabled(t) ==
  /\ At(t, "set")
  /\ enable' = current[t] \cup {driver[t].source}
  /\ driver' = [driver EXCEPT ![t].step = "none"]
  /\ UNCHANGED <<Handler, priority, current, jumped>>

-----------------------------------------------------------------------------
(* PLIC_unregister_interrupt_handler *)

\* Mutant: the handler is removed before the source is disabled.
UnregisterHandlerFirst(t) ==
  /\ At(t, "disable")
  /\ Handler' = Handler \ {driver[t].source}
  /\ current' = [current EXCEPT ![t] = enable]
  /\ driver' = [driver EXCEPT ![t].step = "clear"]
  /\ UNCHANGED <<enable, priority, jumped>>

\* PLIC_disable_interrupt reads the enable word ...
ReadToDisable(t) ==
  /\ At(t, "disable")
  /\ current' = [current EXCEPT ![t] = enable]
  /\ driver' = [driver EXCEPT ![t].step = "clear"]
  /\ UNCHANGED <<Handler, enable, priority, jumped>>

\* ... and writes it.
WriteDisabled(t) ==
  /\ At(t, "clear")
  /\ enable' = current[t] \ {driver[t].source}
  /\ driver' = [driver EXCEPT ![t].step = "null"]
  /\ UNCHANGED <<Handler, priority, current, jumped>>

\* Mutant: the handler stays in the table.
HandlerStays(t) ==
  /\ At(t, "null")
  /\ driver' = [driver EXCEPT ![t].step = "stop"]
  /\ UNCHANGED <<Handler, enable, priority, current, jumped>>

RemoveHandler(t) ==
  /\ At(t, "null")
  /\ Handler' = Handler \ {driver[t].source}
  /\ driver' = [driver EXCEPT ![t].step = "stop"]
  /\ UNCHANGED <<enable, priority, current, jumped>>

-----------------------------------------------------------------------------
(* The network driver, in the IP task *)

\* PLIC_register_interrupt_handler enters a handler into the table.
NetRegisters ==
  /\ started /\ ~netUp /\ At(IpTask, "none")
  /\ \E s \in NetSources \ Handler :
       /\ Handler' = Handler \cup {s}
       /\ driver' = [driver EXCEPT ![IpTask] = [step |-> "enable", source |-> s]]
  /\ UNCHANGED <<iic, enable, priority, current, jumped, started, netUp>>

NetEnables ==
  /\ ReadToEnable(IpTask) \/ WriteEnabled(IpTask)
  /\ UNCHANGED <<iic, started, netUp>>

\* Mutant: the sensor task does not wait for the network.
NetUpEarly ==
  /\ started /\ ~netUp
  /\ netUp' = TRUE
  /\ UNCHANGED <<iic, plic, started>>

\* The network-up event, on which prvMainTask makes prvSensorTask.  When the
\* network comes up again the sources have their handlers, and
\* PLIC_register_interrupt_handler returns without touching the enable word.
NetUp ==
  /\ started /\ ~netUp
  /\ NetSources \subseteq Handler /\ At(IpTask, "none")
  /\ netUp' = TRUE
  /\ UNCHANGED <<iic, plic, started>>

-----------------------------------------------------------------------------
(* prvSensorTask: iic_transmit, iic_receive and iic0_master_reset *)

InTheDriver(step) == netUp /\ At(SensorTask, step) /\ UNCHANGED <<started, netUp>>

Transfer ==
  /\ InTheDriver("none")
  /\ UNCHANGED plic
  /\ Iic!Call(SensorTask) \/ Iic!TakeMutex(SensorTask) \/ Iic!Transfer(SensorTask)

\* iic_stop: the source is unregistered ...
StopBegins ==
  /\ InTheDriver("none")
  /\ pc[SensorTask] = "idle" /\ mutex < MaxMutex
  /\ driver' = [driver EXCEPT ![SensorTask] = [step |-> "disable", source |-> IIC0]]
  /\ UNCHANGED <<iic, Handler, enable, priority, current, jumped>>

Unregisters ==
  /\ UNCHANGED <<iic, started, netUp>>
  /\ ReadToDisable(SensorTask) \/ WriteDisabled(SensorTask) \/ RemoveHandler(SensorTask)

\* ... and then the device stopped.
StopDevice ==
  /\ InTheDriver("stop")
  /\ driver' = [driver EXCEPT ![SensorTask].step = "none"]
  /\ UNCHANGED <<Handler, enable, priority, current, jumped>>
  /\ Iic!Stop(SensorTask)

Reinit ==
  /\ InTheDriver("none")
  /\ UNCHANGED plic
  /\ Iic!Reinit(SensorTask)

\* PLIC_register_interrupt_handler returns 0 if there is a handler already, and
\* the assertion of iic_init stops the system.
RegisterBegins ==
  /\ InTheDriver("none")
  /\ pc[SensorTask] = "reinit"
  /\ Iic!ConfigAssert(IIC0 \notin Handler)
  /\ Handler' = Handler \cup {IIC0}
  /\ driver' = [driver EXCEPT ![SensorTask] = [step |-> "enable", source |-> IIC0]]
  /\ UNCHANGED <<mutex, holder, task_handle, Errors, trans_len, xfer, pending,
                 pc, call, ret, outcome, late, enable, priority, current, jumped>>

RegisterReads == ReadToEnable(SensorTask) /\ UNCHANGED <<iic, started, netUp>>

Registered ==
  /\ UNCHANGED <<started, netUp>>
  /\ WriteEnabled(SensorTask)
  /\ Iic!Register(SensorTask)

-----------------------------------------------------------------------------
(* external_interrupt_handler *)

\* An enabled source whose priority is above the threshold, 0, is claimed, its
\* handler called - nothing asks whether there is one - and completed.
ExternalInterrupt(s) ==
  /\ started /\ UNCHANGED <<started, netUp>>
  /\ s \in enable \cap priority
  /\ jumped' = (jumped \/ s \notin Handler)
  /\ UNCHANGED <<Handler, enable, priority, driver, current>>
  /\ IF s = IIC0 /\ s \in Handler THEN Iic!Interrupt ELSE UNCHANGED iic

-----------------------------------------------------------------------------
(* Specification *)

\* Power-on: the controller's registers may hold anything.
Init ==
  /\ started = FALSE /\ netUp = FALSE
  /\ Handler = {} /\ jumped = FALSE
  /\ enable \in SUBSET Sources /\ priority \in SUBSET Sources
  /\ driver = [t \in Users |-> [step |-> "none", source |-> IIC0]]
  /\ current = [t \in Users |-> {}]
  /\ Iic!Init

IicReset == StopBegins \/ Unregisters \/ StopDevice \/ Reinit
            \/ RegisterBegins \/ RegisterReads \/ Registered

Next ==
  /\ ~fault /\ ~jumped
  /\ \/ SetupHardware
     \/ NetRegisters \/ NetEnables \/ NetUp
     \/ Transfer \/ IicReset
     \/ \E s \in Sources : ExternalInterrupt(s)

Spec == Init /\ [][Next]_vars

-----------------------------------------------------------------------------
(* Properties *)

\* Type invariant of the controller's part of the state.
TypeOK ==
  /\ started \in BOOLEAN /\ netUp \in BOOLEAN /\ jumped \in BOOLEAN
  /\ Handler \subseteq Sources /\ enable \subseteq Sources /\ priority \subseteq Sources
  /\ driver \in [Users -> [step : Step, source : Sources]]
  /\ current \in [Users -> SUBSET Sources]

\* external_interrupt_handler never calls a NULL handler, whatever the enable
\* bits were at power-on and whenever an interrupt falls into a registration.
NoNullHandler == ~jumped

\* Between registrations exactly the sources that have a handler are enabled:
\* no read-modify-write of the enable word undoes another task's.
EnabledAreHandled ==
  (started /\ \A t \in Users : At(t, "none")) => enable = Handler

\* The driver whose interrupt is stopped and started in steps implements the
\* one of module Iic; its properties are therefore this composition's.
ImplementsIic == Iic!Spec
=============================================================================
