------------------------------ MODULE BoardProofs ------------------------------
(***************************************************************************)
(* The interrupt controller driver under the IIC driver, for any sources   *)
(* and any lengths: proofs about module Board.                             *)
(***************************************************************************)
EXTENDS Board, FiniteSetTheorems, TLAPS

\* Between registrations the enabled sources are those with a handler; within
\* one they differ from these in the source that is being registered or
\* unregistered only, and the enable word that was read is the present one.
WordInv ==
  \A t \in Users :
    LET s == driver[t].source
    IN  /\ At(t, "enable") => s \in Handler /\ enable = Handler \ {s}
        /\ At(t, "set") => s \in Handler /\ enable = Handler \ {s} /\ current[t] = enable
        /\ At(t, "disable") => s \in Handler /\ enable = Handler
        /\ At(t, "clear") => s \in Handler /\ enable = Handler /\ current[t] = enable
        /\ At(t, "null") => s \in Handler /\ enable = Handler \ {s}
        /\ At(t, "stop") => enable = Handler

\* The two tasks are in the PLIC driver at different times, before the network
\* is up and after it, and for different sources.
TurnInv ==
  /\ ~started => ~netUp /\ \A t \in Users : At(t, "none")
  /\ driver[IpTask].step \in {"none", "enable", "set"}
  /\ ~At(IpTask, "none") => driver[IpTask].source \in NetSources
  /\ ~At(SensorTask, "none") => driver[SensorTask].source = IIC0
  /\ netUp => At(IpTask, "none") /\ NetSources \subseteq Handler
  /\ ~netUp => At(SensorTask, "none") /\ pc[SensorTask] = "idle"

\* Where the sensor task is in its reset, and whether the bus has a handler.
ResetInv ==
  /\ pc = [t \in {SensorTask} |-> pc[SensorTask]]
  /\ driver[SensorTask].step \in {"disable", "clear", "null", "stop"} => pc[SensorTask] = "idle"
  /\ driver[SensorTask].step \in {"enable", "set"} => pc[SensorTask] = "reinit"
  /\ At(SensorTask, "stop") => IIC0 \notin Handler
  /\ started /\ At(SensorTask, "none") =>
       (IIC0 \notin Handler <=> pc[SensorTask] \in {"delay", "reinit"})

BoardInv == TypeOK /\ NoNullHandler /\ EnabledAreHandled /\ WordInv /\ TurnInv /\ ResetInv

-----------------------------------------------------------------------------
LEMMA BoardInit == Init => BoardInv
<1> SUFFICES ASSUME Init PROVE BoardInv
  OBVIOUS
<1>1. SensorTask \in Users /\ IpTask \in Users /\ IIC0 \in Sources
  BY BoardAssumption DEF BoardAssumption, Users
<1>2. TypeOK
  BY <1>1 DEF Init, TypeOK, Step
<1>3. pc = [t \in {SensorTask} |-> "idle"]
  BY DEF Init, Iic!Init
<1>4. NoNullHandler /\ EnabledAreHandled
  BY DEF Init, NoNullHandler, EnabledAreHandled
<1>5. \A t \in Users : driver[t].step = "none"
  BY DEF Init
<1>6. WordInv /\ TurnInv /\ ResetInv
  BY <1>1, <1>3, <1>5 DEF Init, WordInv, TurnInv, ResetInv, At
<1> QED BY <1>2, <1>4, <1>6 DEF BoardInv

\* Two things are not three.
LEMMA PairIsNotThree == ASSUME NEW a, NEW b PROVE Cardinality({a, b}) # 3
<1>1. IsFiniteSet({a}) /\ Cardinality({a}) = 1
  BY FS_Singleton
<1>2. {a, b} = {a} \cup {b}
  OBVIOUS
<1>3. Cardinality({a} \cup {b}) = 1 \/ Cardinality({a} \cup {b}) = 2
  <2>1. CASE b = a
    BY <1>1, <2>1
  <2>2. CASE b # a
    BY <1>1, <2>2, FS_AddElement
  <2> QED BY <2>1, <2>2
<1> QED BY <1>2, <1>3

\* What is known of the constants.
LEMMA TwoUsers ==
  /\ SensorTask \in Users /\ IpTask \in Users
  /\ SensorTask # IpTask /\ SensorTask # NoTask
  /\ \A t \in Users : t = SensorTask \/ t = IpTask
  /\ IIC0 \in Sources /\ IIC0 \notin NetSources /\ NetSources \subseteq Sources
<1>1. SensorTask # IpTask
  <2> SUFFICES ASSUME SensorTask = IpTask PROVE FALSE
    OBVIOUS
  <2>1. {SensorTask, IpTask, NoTask} = {SensorTask, NoTask}
    OBVIOUS
  <2> QED BY <2>1, PairIsNotThree, BoardAssumption DEF BoardAssumption
<1>2. SensorTask # NoTask
  <2> SUFFICES ASSUME SensorTask = NoTask PROVE FALSE
    OBVIOUS
  <2>1. {SensorTask, IpTask, NoTask} = {SensorTask, IpTask}
    OBVIOUS
  <2> QED BY <2>1, PairIsNotThree, BoardAssumption DEF BoardAssumption
<1> QED BY <1>1, <1>2, BoardAssumption DEF BoardAssumption, Users

-----------------------------------------------------------------------------
(* One lemma per action *)

LEMMA SetupStep == ASSUME BoardInv, SetupHardware PROVE BoardInv'
<1> USE TwoUsers DEF SetupHardware, BoardInv, iic
<1>1. TypeOK'
  BY BoardAssumption DEF BoardAssumption, TypeOK
<1>2. NoNullHandler' /\ EnabledAreHandled'
  BY DEF NoNullHandler, EnabledAreHandled
<1>3. WordInv' /\ TurnInv' /\ ResetInv'
  BY DEF WordInv, TurnInv, ResetInv, At, TypeOK
<1> QED BY <1>1, <1>2, <1>3

LEMMA NetRegistersStep == ASSUME BoardInv, NetRegisters PROVE BoardInv'
<1> USE TwoUsers
<1>1. PICK s \in NetSources \ Handler :
        /\ Handler' = Handler \cup {s}
        /\ driver' = [driver EXCEPT ![IpTask] = [step |-> "enable", source |-> s]]
  BY DEF NetRegisters
<1>2. /\ UNCHANGED <<iic, enable, priority, current, jumped, started, netUp>>
      /\ At(IpTask, "none") /\ started /\ ~netUp
  BY DEF NetRegisters
<1>3. TypeOK'
  BY <1>1, <1>2 DEF BoardInv, TypeOK, Step
<1>4. driver'[IpTask] = [step |-> "enable", source |-> s] /\ driver'[SensorTask] = driver[SensorTask]
  BY <1>1 DEF BoardInv, TypeOK
<1>5. At(SensorTask, "none") /\ enable = Handler
  BY <1>2 DEF BoardInv, TurnInv, EnabledAreHandled
<1>6. NoNullHandler' /\ EnabledAreHandled'
  BY <1>2, <1>4 DEF BoardInv, NoNullHandler, EnabledAreHandled, At
<1>7. WordInv'
  BY <1>1, <1>2, <1>4, <1>5 DEF WordInv, At
<1>8. TurnInv' /\ ResetInv'
  BY <1>1, <1>2, <1>4, <1>5 DEF BoardInv, TurnInv, ResetInv, At, iic
<1> QED BY <1>3, <1>6, <1>7, <1>8 DEF BoardInv

LEMMA NetEnablesStep == ASSUME BoardInv, NetEnables PROVE BoardInv'
<1> USE TwoUsers DEF NetEnables
<1>1. /\ started /\ At(SensorTask, "none") /\ driver[IpTask].source \in NetSources
      /\ driver'[SensorTask] = driver[SensorTask]
  BY DEF BoardInv, TypeOK, TurnInv, At, ReadToEnable, WriteEnabled
<1>2. CASE ReadToEnable(IpTask)
  <2> USE <1>1, <1>2 DEF ReadToEnable
  <2>1. driver'[IpTask] = [driver[IpTask] EXCEPT !.step = "set"] /\ current'[IpTask] = enable
    BY DEF BoardInv, TypeOK
  <2>2. TypeOK' /\ NoNullHandler'
    BY DEF BoardInv, TypeOK, Step, NoNullHandler
  <2>3. EnabledAreHandled' /\ WordInv' /\ TurnInv' /\ ResetInv'
    BY <2>1 DEF BoardInv, TypeOK, EnabledAreHandled, WordInv, TurnInv, ResetInv, At, iic
  <2> QED BY <2>2, <2>3 DEF BoardInv
<1>3. CASE WriteEnabled(IpTask)
  <2> USE <1>1, <1>3 DEF WriteEnabled
  <2>1. driver'[IpTask] = [driver[IpTask] EXCEPT !.step = "none"]
    BY DEF BoardInv, TypeOK
  <2>2. enable' = Handler /\ Handler' = Handler
    BY DEF BoardInv, WordInv, At
  <2>3. TypeOK' /\ NoNullHandler'
    BY <2>2 DEF BoardInv, TypeOK, Step, NoNullHandler
  <2>4. EnabledAreHandled' /\ WordInv' /\ TurnInv' /\ ResetInv'
    BY <2>1, <2>2 DEF BoardInv, TypeOK, EnabledAreHandled, WordInv, TurnInv, ResetInv, At, iic
  <2> QED BY <2>3, <2>4 DEF BoardInv
<1> QED BY <1>2, <1>3

LEMMA NetUpStep == ASSUME BoardInv, NetUp PROVE BoardInv'
  BY TwoUsers DEF NetUp, BoardInv, TypeOK, NoNullHandler, EnabledAreHandled, WordInv,
     TurnInv, ResetInv, At, iic, plic

\* The steps of a transfer do not come near the reset.
LEMMA TransferStays ==
  ASSUME BoardInv,
         Iic!Call(SensorTask) \/ Iic!TakeMutex(SensorTask) \/ Iic!Transfer(SensorTask)
  PROVE  /\ pc' = [t \in {SensorTask} |-> pc'[SensorTask]]
         /\ pc[SensorTask] \notin {"delay", "reinit"}
         /\ pc'[SensorTask] \notin {"delay", "reinit"}
<1>1. \E from, to \in Iic!Point \ {"delay", "reinit"} : Iic!Goto(SensorTask, from, to)
  BY DEF Iic!Call, Iic!TakeMutex, Iic!Transfer, Iic!BusIsBusy, Iic!BusIsFree, Iic!Arm,
     Iic!MasterStart, Iic!MasterRefuses, Iic!NotifyWaitReturns, Iic!CheckErrors,
     Iic!ZeroErrors, Iic!ReturnCount,
     Iic!NotifyWaitTimesOut, Iic!ResetAfterTimeout, Iic!GiveMutex, Iic!Point, Iic!Critical
<1> QED BY <1>1 DEF Iic!Goto, BoardInv, ResetInv

LEMMA TransferStep == ASSUME BoardInv, Transfer PROVE BoardInv'
<1> USE DEF Transfer, InTheDriver, plic
<1>1. /\ pc' = [t \in {SensorTask} |-> pc'[SensorTask]]
      /\ pc[SensorTask] \notin {"delay", "reinit"} /\ pc'[SensorTask] \notin {"delay", "reinit"}
  BY TransferStays
<1>2. TypeOK' /\ NoNullHandler' /\ EnabledAreHandled' /\ WordInv'
  BY DEF BoardInv, TypeOK, NoNullHandler, EnabledAreHandled, WordInv, At
<1>3. TurnInv' /\ ResetInv'
  BY <1>1 DEF BoardInv, TurnInv, ResetInv, At
<1> QED BY <1>2, <1>3 DEF BoardInv

\* While the sensor task is in the PLIC driver the IP task is not.
LEMMA SensorAlone ==
  ASSUME BoardInv, ~At(SensorTask, "none") \/ netUp
  PROVE  /\ netUp /\ started /\ At(IpTask, "none")
         /\ ~At(SensorTask, "none") => driver[SensorTask].source = IIC0
  BY DEF BoardInv, TurnInv, At

LEMMA StopBeginsStep == ASSUME BoardInv, StopBegins PROVE BoardInv'
<1> USE TwoUsers DEF StopBegins, InTheDriver
<1>1. netUp /\ started /\ At(IpTask, "none")
  BY SensorAlone
<1>2. /\ driver'[SensorTask] = [step |-> "disable", source |-> IIC0]
      /\ driver'[IpTask] = driver[IpTask]
  BY DEF BoardInv, TypeOK
<1>3. IIC0 \in Handler /\ enable = Handler
  BY <1>1 DEF BoardInv, ResetInv, EnabledAreHandled
<1>4. TypeOK' /\ NoNullHandler'
  BY DEF BoardInv, TypeOK, Step, NoNullHandler
<1>5. EnabledAreHandled' /\ WordInv' /\ TurnInv' /\ ResetInv'
  BY <1>1, <1>2, <1>3 DEF BoardInv, EnabledAreHandled, WordInv, TurnInv, ResetInv, At, iic
<1> QED BY <1>4, <1>5 DEF BoardInv

LEMMA UnregistersStep == ASSUME BoardInv, Unregisters PROVE BoardInv'
<1> USE TwoUsers DEF Unregisters
<1>1. /\ netUp /\ started /\ At(IpTask, "none") /\ driver[SensorTask].source = IIC0
      /\ driver'[IpTask] = driver[IpTask]
  BY SensorAlone DEF BoardInv, TypeOK, At, ReadToDisable, WriteDisabled, RemoveHandler
<1>2. CASE ReadToDisable(SensorTask)
  <2> USE <1>1, <1>2 DEF ReadToDisable
  <2>1. driver'[SensorTask] = [step |-> "clear", source |-> IIC0] /\ current'[SensorTask] = enable
    BY DEF BoardInv, TypeOK
  <2>2. TypeOK' /\ NoNullHandler'
    BY DEF BoardInv, TypeOK, Step, NoNullHandler
  <2>3. EnabledAreHandled' /\ WordInv' /\ TurnInv' /\ ResetInv'
    BY <2>1 DEF BoardInv, EnabledAreHandled, WordInv, TurnInv, ResetInv, At, iic
  <2> QED BY <2>2, <2>3 DEF BoardInv
<1>3. CASE WriteDisabled(SensorTask)
  <2> USE <1>1, <1>3 DEF WriteDisabled
  <2>1. driver'[SensorTask] = [step |-> "null", source |-> IIC0]
    BY DEF BoardInv, TypeOK
  <2>2. enable' = Handler \ {IIC0} /\ IIC0 \in Handler
    BY DEF BoardInv, WordInv
  <2>3. TypeOK' /\ NoNullHandler'
    BY <2>2 DEF BoardInv, TypeOK, Step, NoNullHandler
  <2>4. EnabledAreHandled' /\ WordInv' /\ TurnInv' /\ ResetInv'
    BY <2>1, <2>2 DEF BoardInv, EnabledAreHandled, WordInv, TurnInv, ResetInv, At, iic
  <2> QED BY <2>3, <2>4 DEF BoardInv
<1>4. CASE RemoveHandler(SensorTask)
  <2> USE <1>1, <1>4 DEF RemoveHandler
  <2>1. driver'[SensorTask] = [step |-> "stop", source |-> IIC0]
    BY DEF BoardInv, TypeOK
  <2>2. enable = Handler'
    BY DEF BoardInv, WordInv
  <2>3. TypeOK' /\ NoNullHandler'
    BY DEF BoardInv, TypeOK, Step, NoNullHandler
  <2>4. EnabledAreHandled' /\ WordInv' /\ TurnInv' /\ ResetInv'
    BY <2>1, <2>2 DEF BoardInv, EnabledAreHandled, WordInv, TurnInv, ResetInv, At, iic
  <2> QED BY <2>3, <2>4 DEF BoardInv
<1> QED BY <1>2, <1>3, <1>4

LEMMA StopDeviceStep == ASSUME BoardInv, StopDevice PROVE BoardInv'
<1> USE TwoUsers DEF StopDevice, InTheDriver
<1>1. /\ netUp /\ started /\ At(IpTask, "none") /\ driver[SensorTask].source = IIC0
      /\ driver'[IpTask] = driver[IpTask]
      /\ driver'[SensorTask] = [step |-> "none", source |-> IIC0]
  BY SensorAlone DEF BoardInv, TypeOK, At
<1>2. pc' = [t \in {SensorTask} |-> "delay"]
  BY DEF BoardInv, ResetInv, Iic!Stop, Iic!Goto
<1>3. TypeOK' /\ NoNullHandler'
  BY DEF BoardInv, TypeOK, Step, NoNullHandler
<1>4. EnabledAreHandled' /\ WordInv'
  BY <1>1 DEF BoardInv, EnabledAreHandled, WordInv, At
<1>5. TurnInv' /\ ResetInv'
  BY <1>1, <1>2 DEF BoardInv, TurnInv, ResetInv, At
<1> QED BY <1>3, <1>4, <1>5 DEF BoardInv

LEMMA ReinitStep == ASSUME BoardInv, Reinit PROVE BoardInv'
<1> USE DEF Reinit, InTheDriver, plic
<1>1. pc[SensorTask] = "delay" /\ pc' = [t \in {SensorTask} |-> "reinit"]
  BY DEF BoardInv, ResetInv, Iic!Reinit, Iic!Goto
<1>2. TypeOK' /\ NoNullHandler' /\ EnabledAreHandled' /\ WordInv'
  BY DEF BoardInv, TypeOK, NoNullHandler, EnabledAreHandled, WordInv, At
<1>3. TurnInv' /\ ResetInv'
  BY <1>1 DEF BoardInv, TurnInv, ResetInv, At
<1> QED BY <1>2, <1>3 DEF BoardInv

LEMMA RegisterBeginsStep == ASSUME BoardInv, RegisterBegins PROVE BoardInv'
<1> USE TwoUsers DEF RegisterBegins, InTheDriver
<1>1. netUp /\ started /\ At(IpTask, "none")
  BY SensorAlone
<1>2. /\ driver'[SensorTask] = [step |-> "enable", source |-> IIC0]
      /\ driver'[IpTask] = driver[IpTask]
  BY DEF BoardInv, TypeOK
<1>3. IIC0 \notin Handler /\ enable = Handler
  BY <1>1 DEF BoardInv, ResetInv, EnabledAreHandled
<1>4. TypeOK' /\ NoNullHandler'
  BY DEF BoardInv, TypeOK, Step, NoNullHandler
<1>5. EnabledAreHandled' /\ WordInv' /\ TurnInv' /\ ResetInv'
  BY <1>1, <1>2, <1>3 DEF BoardInv, EnabledAreHandled, WordInv, TurnInv, ResetInv, At
<1> QED BY <1>4, <1>5 DEF BoardInv

LEMMA RegisterReadsStep == ASSUME BoardInv, RegisterReads PROVE BoardInv'
<1> USE TwoUsers DEF RegisterReads, ReadToEnable
<1>1. /\ netUp /\ started /\ At(IpTask, "none") /\ driver[SensorTask].source = IIC0
      /\ driver'[IpTask] = driver[IpTask]
      /\ driver'[SensorTask] = [step |-> "set", source |-> IIC0] /\ current'[SensorTask] = enable
  BY SensorAlone DEF BoardInv, TypeOK, At
<1>2. TypeOK' /\ NoNullHandler'
  BY DEF BoardInv, TypeOK, Step, NoNullHandler
<1>3. EnabledAreHandled' /\ WordInv' /\ TurnInv' /\ ResetInv'
  BY <1>1 DEF BoardInv, EnabledAreHandled, WordInv, TurnInv, ResetInv, At, iic
<1> QED BY <1>2, <1>3 DEF BoardInv

LEMMA RegisteredStep == ASSUME BoardInv, Registered PROVE BoardInv'
<1> USE TwoUsers DEF Registered, WriteEnabled
<1>1. /\ netUp /\ started /\ At(IpTask, "none") /\ driver[SensorTask].source = IIC0
      /\ driver'[IpTask] = driver[IpTask]
      /\ driver'[SensorTask] = [step |-> "none", source |-> IIC0]
  BY SensorAlone DEF BoardInv, TypeOK, At
<1>2. enable' = Handler /\ IIC0 \in Handler
  BY <1>1 DEF BoardInv, WordInv
<1>3. pc' = [t \in {SensorTask} |-> "idle"]
  BY DEF BoardInv, ResetInv, Iic!Register, Iic!Goto
<1>4. TypeOK' /\ NoNullHandler'
  BY <1>2 DEF BoardInv, TypeOK, Step, NoNullHandler
<1>5. EnabledAreHandled' /\ WordInv'
  BY <1>1, <1>2 DEF EnabledAreHandled, WordInv, At
<1>6. TurnInv' /\ ResetInv'
  BY <1>1, <1>2, <1>3 DEF BoardInv, TurnInv, ResetInv, At
<1> QED BY <1>4, <1>5, <1>6 DEF BoardInv

LEMMA InterruptStep ==
  ASSUME BoardInv, NEW s \in Sources, ExternalInterrupt(s) PROVE BoardInv'
<1> USE TwoUsers DEF ExternalInterrupt
<1>1. enable \subseteq Handler
  BY DEF BoardInv, EnabledAreHandled, WordInv, At, TypeOK, Step
<1>2. pc' = pc
  BY DEF iic, Iic!Interrupt, Iic!RecvHandler, Iic!SendHandler, Iic!StatusHandler, Iic!local
<1>3. NoNullHandler'
  BY <1>1 DEF BoardInv, NoNullHandler
<1>4. TypeOK' /\ EnabledAreHandled' /\ WordInv'
  BY <1>3 DEF BoardInv, TypeOK, NoNullHandler, EnabledAreHandled, WordInv, At
<1>5. TurnInv' /\ ResetInv'
  BY <1>2 DEF BoardInv, TurnInv, ResetInv, At
<1> QED BY <1>3, <1>4, <1>5 DEF BoardInv

-----------------------------------------------------------------------------
LEMMA BoardStep == BoardInv /\ [Next]_vars => BoardInv'
<1> SUFFICES ASSUME BoardInv, [Next]_vars PROVE BoardInv'
  OBVIOUS
<1>1. CASE Next
  BY <1>1, SetupStep, NetRegistersStep, NetEnablesStep, NetUpStep, TransferStep, StopBeginsStep,
     UnregistersStep, StopDeviceStep, ReinitStep, RegisterBeginsStep, RegisterReadsStep,
     RegisteredStep, InterruptStep DEF Next, IicReset
<1>2. CASE UNCHANGED vars
  BY <1>2 DEF vars, iic, plic, BoardInv, TypeOK, NoNullHandler, EnabledAreHandled, WordInv,
     TurnInv, ResetInv, At
<1> QED BY <1>1, <1>2

LEMMA BoardInvariant == Spec => []BoardInv
  BY BoardInit, BoardStep, PTL DEF Spec

\* Type correctness of the controller's part of the state.
THEOREM TypeCorrect == Spec => []TypeOK
  BY BoardInvariant, PTL DEF BoardInv

\* external_interrupt_handler calls no NULL handler, whatever the enable bits
\* are at power-on and wherever interrupts fall.
THEOREM HandlersAreThere == Spec => []NoNullHandler
  BY BoardInvariant, PTL DEF BoardInv

\* No update of the enable word is lost.
THEOREM EnablesAreKept == Spec => []EnabledAreHandled
  BY BoardInvariant, PTL DEF BoardInv

-----------------------------------------------------------------------------
(* The refinement of Iic *)

\* Whether the source of the bus is on for module Iic.
On == ~started \/ IIC0 \in enable \/ driver[SensorTask].step \in {"null", "stop"}

\* Steps that neither touch the state of the driver nor whether it is on.
LEMMA Stutters == ASSUME UNCHANGED iic, On' = On PROVE UNCHANGED Iic!vars
  BY DEF On, iic, Iic!vars, Iic!driver, Iic!kernel, Iic!device, Iic!local, Iic!ghost

\* An assertion has failed or not.
LEMMA FaultStep == fault \in BOOLEAN /\ [Next]_vars => (fault \in BOOLEAN)'
<1> SUFFICES ASSUME fault \in BOOLEAN, [Next]_vars PROVE fault' \in BOOLEAN
  OBVIOUS
<1>1. ASSUME Transfer PROVE fault' \in BOOLEAN
  BY <1>1 DEF Transfer, Iic!Call, Iic!TakeMutex, Iic!Transfer, Iic!BusIsBusy, Iic!BusIsFree,
     Iic!Arm, Iic!MasterStart, Iic!MasterRefuses, Iic!NotifyWaitReturns, Iic!CheckErrors,
     Iic!ZeroErrors, Iic!ReturnCount,
     Iic!NotifyWaitTimesOut, Iic!ResetAfterTimeout, Iic!GiveMutex, Iic!ConfigAssert
<1>2. ASSUME IicReset PROVE fault' \in BOOLEAN
  BY <1>2 DEF IicReset, StopBegins, Unregisters, StopDevice, Reinit, RegisterBegins, RegisterReads,
     Registered, iic, Iic!Stop, Iic!Reinit, Iic!Register, Iic!ConfigAssert
<1>3. ASSUME NEW s \in Sources, ExternalInterrupt(s) PROVE fault' \in BOOLEAN
  BY <1>3 DEF ExternalInterrupt, iic, Iic!Interrupt, Iic!RecvHandler, Iic!SendHandler,
     Iic!StatusHandler, Iic!NotifyTask, Iic!ConfigAssert
<1> QED BY <1>1, <1>2, <1>3 DEF Next, SetupHardware, NetRegisters, NetEnables, NetUp, vars, iic

LEMMA StepRefines == BoardInv /\ fault \in BOOLEAN /\ [Next]_vars => [Iic!Next]_(Iic!vars)
<1> SUFFICES ASSUME BoardInv, fault \in BOOLEAN, [Next]_vars PROVE [Iic!Next]_(Iic!vars)
  OBVIOUS
<1> USE TwoUsers
<1>0. CASE UNCHANGED vars
  BY <1>0, Stutters DEF vars, plic, On
<1>1. ASSUME ~fault, SetupHardware PROVE UNCHANGED Iic!vars
  BY <1>1, Stutters DEF SetupHardware, On
<1>2. ASSUME NetRegisters \/ NetEnables \/ NetUp PROVE UNCHANGED Iic!vars
  <2>1. CASE NetRegisters
    BY <2>1, Stutters DEF NetRegisters, On, BoardInv, TypeOK
  <2>2. CASE NetEnables /\ ReadToEnable(IpTask)
    BY <2>2, Stutters DEF NetEnables, ReadToEnable, On, BoardInv, TypeOK
  <2>3. CASE NetEnables /\ WriteEnabled(IpTask)
    <3>1. /\ driver'[SensorTask] = driver[SensorTask] /\ started' = started /\ UNCHANGED iic
          /\ enable' = enable \cup {driver[IpTask].source} /\ driver[IpTask].source # IIC0
      BY <2>3 DEF NetEnables, WriteEnabled, BoardInv, TypeOK, WordInv, TurnInv, At
    <3> QED BY <3>1, Stutters DEF On
  <2>4. CASE NetUp
    BY <2>4, Stutters DEF NetUp, plic, On
  <2> QED BY <1>2, <2>1, <2>2, <2>3, <2>4 DEF NetEnables
<1>3. ASSUME ~fault, Transfer PROVE Iic!Next
  BY <1>3 DEF Transfer, Iic!Next
<1>4. ASSUME ~fault, StopDevice PROVE Iic!Next
  BY <1>4 DEF StopDevice, Iic!Next, Iic!MasterReset
<1>5. ASSUME ~fault, Reinit PROVE Iic!Next
  BY <1>5 DEF Reinit, Iic!Next, Iic!MasterReset
<1>6. ASSUME ~fault, Registered PROVE Iic!Next
  BY <1>6 DEF Registered, Iic!Next, Iic!MasterReset
<1>7. ASSUME StopBegins PROVE UNCHANGED Iic!vars
  <2>1. On /\ On' /\ UNCHANGED iic
    BY <1>7, SensorAlone DEF StopBegins, InTheDriver, On, BoardInv, ResetInv, EnabledAreHandled, At
  <2> QED BY <2>1, Stutters
<1>8. ASSUME Unregisters PROVE UNCHANGED Iic!vars
  <2>1. UNCHANGED iic /\ SensorTask \in DOMAIN driver
    BY <1>8 DEF Unregisters, BoardInv, TypeOK
  <2>2. On
    BY <1>8 DEF Unregisters, ReadToDisable, WriteDisabled, RemoveHandler, On, BoardInv, WordInv,
       TurnInv, At
  <2>3. On'
    <3>1. CASE ReadToDisable(SensorTask)
      BY <3>1 DEF ReadToDisable, On, BoardInv, WordInv, TurnInv, At
    <3>2. CASE WriteDisabled(SensorTask)
      BY <2>1, <3>2 DEF WriteDisabled, On, BoardInv, TypeOK
    <3>3. CASE RemoveHandler(SensorTask)
      BY <2>1, <3>3 DEF RemoveHandler, On, BoardInv, TypeOK
    <3> QED BY <1>8, <3>1, <3>2, <3>3 DEF Unregisters
  <2> QED BY <2>1, <2>2, <2>3, Stutters
<1>9. ASSUME ~fault, RegisterBegins PROVE UNCHANGED Iic!vars
  <2>1. UNCHANGED iic
    BY <1>9, SensorAlone DEF RegisterBegins, InTheDriver, Iic!ConfigAssert, BoardInv, ResetInv, iic
  <2>2. On' = On
    BY <1>9 DEF RegisterBegins, InTheDriver, On, At, BoardInv, TypeOK
  <2> QED BY <2>1, <2>2, Stutters
<1>10. ASSUME RegisterReads PROVE UNCHANGED Iic!vars
  BY <1>10, Stutters DEF RegisterReads, ReadToEnable, On, At, BoardInv, TypeOK
<1>11. ASSUME ~fault, NEW s \in Sources, ExternalInterrupt(s) PROVE [Iic!Next]_(Iic!vars)
  <2>1. CASE s = IIC0 /\ s \in Handler
    BY <1>11, <2>1 DEF ExternalInterrupt, Iic!Next
  <2>2. CASE ~(s = IIC0 /\ s \in Handler)
    BY <1>11, <2>2, Stutters DEF ExternalInterrupt, On
  <2> QED BY <2>1, <2>2
<1> QED BY <1>0, <1>1, <1>2, <1>3, <1>4, <1>5, <1>6, <1>7, <1>8, <1>9, <1>10, <1>11
        DEF Next, IicReset

\* The driver of the bus with its interrupt stopped and started step by step
\* behaves as the one of module Iic.
THEOREM BoardImplementsIic == Spec => ImplementsIic
<1>1. Init => Iic!Init /\ fault \in BOOLEAN
  BY DEF Init, Iic!Init
<1>2. Spec => [](fault \in BOOLEAN)
  BY <1>1, FaultStep, PTL DEF Spec
<1> QED BY <1>1, <1>2, BoardInvariant, StepRefines, PTL DEF Spec, ImplementsIic, Iic!Spec

-----------------------------------------------------------------------------
(* What module Iic promises holds of the composition *)

Proved == INSTANCE IicProofs WITH
            Tasks <- {SensorTask}, Resetters <- {SensorTask},
            irq <- ~started \/ IIC0 \in enable \/ driver[SensorTask].step \in {"null", "stop"}

\* The two instances of Iic say the same.
LEMMA SameInit == Iic!Init <=> Proved!Init
  BY DEF Iic!Init, Proved!Init, Iic!NoXfer, Proved!NoXfer, Iic!Mutex, Proved!Mutex

LEMMA SameVars == UNCHANGED Iic!vars <=> UNCHANGED Proved!vars
  BY DEF Iic!vars, Proved!vars, Iic!driver, Proved!driver, Iic!kernel, Proved!kernel,
     Iic!device, Proved!device, Iic!local, Proved!local, Iic!ghost, Proved!ghost

LEMMA SameNext == Iic!Next => Proved!Next
<1> USE DEF Iic!driver, Proved!driver, Iic!kernel, Proved!kernel, Iic!device, Proved!device,
     Iic!local, Proved!local, Iic!ghost, Proved!ghost, Iic!IIC_TIMEOUT, Proved!IIC_TIMEOUT,
     Iic!IIC_SLAVE_NO_ACK, Proved!IIC_SLAVE_NO_ACK, Iic!IIC_MASTER_SEND_ERROR,
     Proved!IIC_MASTER_SEND_ERROR, Iic!IIC_MASTER_RECV_ERROR, Proved!IIC_MASTER_RECV_ERROR,
     Iic!IIC_BUS_IS_BUSY, Proved!IIC_BUS_IS_BUSY, Iic!Length, Proved!Length, Iic!Dir,
     Proved!Dir, Iic!Mutex, Proved!Mutex, Iic!NoXfer, Proved!NoXfer, Iic!Goto, Proved!Goto,
     Iic!ConfigAssert, Proved!ConfigAssert
<1>1. ASSUME NEW t, Iic!Call(t) \/ Iic!TakeMutex(t)
      PROVE  Proved!Call(t) \/ Proved!TakeMutex(t)
  BY <1>1 DEF Iic!Call, Proved!Call, Iic!TakeMutex, Proved!TakeMutex
<1>2. ASSUME NEW t, Iic!Transfer(t) PROVE Proved!Transfer(t)
  BY <1>2 DEF Iic!Transfer, Proved!Transfer, Iic!BusIsBusy, Proved!BusIsBusy, Iic!BusIsFree,
     Proved!BusIsFree, Iic!Arm, Proved!Arm, Iic!MasterStart, Proved!MasterStart,
     Iic!MasterRefuses, Proved!MasterRefuses, Iic!NotifyWaitReturns,
     Proved!NotifyWaitReturns, Iic!CheckErrors, Proved!CheckErrors,
     Iic!ZeroErrors, Proved!ZeroErrors, Iic!ReturnCount, Proved!ReturnCount, Iic!NotifyWaitTimesOut,
     Proved!NotifyWaitTimesOut, Iic!ResetAfterTimeout, Proved!ResetAfterTimeout,
     Iic!GiveMutex, Proved!GiveMutex
<1>3. ASSUME NEW t, Iic!MasterReset(t) PROVE Proved!MasterReset(t)
  BY <1>3 DEF Iic!MasterReset, Proved!MasterReset, Iic!Stop, Proved!Stop, Iic!Reinit, Proved!Reinit,
     Iic!Register, Proved!Register
<1>4. Iic!Interrupt => Proved!Interrupt
  BY DEF Iic!Interrupt, Proved!Interrupt, Iic!RecvHandler, Proved!RecvHandler, Iic!SendHandler,
     Proved!SendHandler, Iic!StatusHandler, Proved!StatusHandler, Iic!NotifyTask,
     Proved!NotifyTask, Iic!Ends, Proved!Ends
<1> QED BY <1>1, <1>2, <1>3, <1>4 DEF Iic!Next, Proved!Next

\* No assertion of the driver, and none of the registration, trips.
THEOREM NeverFaults == Spec => []~fault
<1>1. Proved!IicAssumption
  BY TwoUsers, BoardAssumption DEF BoardAssumption, Proved!IicAssumption
<1>2. Spec => Proved!Spec
  BY BoardImplementsIic, SameInit, SameVars, SameNext, PTL DEF ImplementsIic, Iic!Spec, Proved!Spec
<1>3. Proved!Spec => []Proved!NoFault
  BY <1>1, Proved!NeverFaults
<1>4. Proved!NoFault => ~fault
  BY DEF Proved!NoFault, Proved!SingleUser
<1> QED BY <1>2, <1>3, <1>4, PTL
===============================================================================
