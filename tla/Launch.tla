-------------------------------- MODULE Launch --------------------------------
(***************************************************************************)
(* How main.c starts the program it was built for.  The entry function is  *)
(* called before the scheduler starts ("boot": the Makefile's demo types), *)
(* is a task of its own ("root": a waf build), or is called by the loader  *)
(* task with the scheduler suspended ("loader": a waf build with           *)
(* compartments).                                                          *)
(***************************************************************************)
EXTENDS Naturals, FiniteSets, Sequences

VARIABLES
  program,  \* the program that was built
  entry,    \* how its entry function is called
  sched,    \* xTaskGetSchedulerState()
  main,     \* where the entry function is
  halted    \* a configASSERT failed, and nothing runs any more

launch == <<program, entry, sched, main, halted>>

Builds == ({"servers", "peekpoke"} \X {"boot", "root", "loader"})
          \cup ({"ipc_benchmark"} \X {"root", "loader"})
Places == {"none", "begin", "ipinit", "create", "resume", "wait", "returned", "spins", "exited"}

LaunchTypeOK ==
  /\ <<program, entry>> \in Builds
  /\ sched \in {"not_started", "suspended", "running"}
  /\ main \in Places /\ halted \in BOOLEAN

LaunchInit ==
  /\ \E b \in Builds : program = b[1] /\ entry = b[2]
  /\ sched = "not_started" /\ main = "none" /\ halted = FALSE

\* Tasks other than the one that suspended the scheduler run.
TasksRun == sched = "running" /\ ~halted

\* demo_main: the entry function itself, or a task for it, and the scheduler.
StartScheduler ==
  /\ sched = "not_started" /\ (entry = "boot" => main = "returned")
  /\ sched' = "running"
  /\ UNCHANGED <<program, entry, main, halted>>

\* The entry function is called; prvLoader suspends the scheduler for it.
Enter ==
  /\ main = "none" /\ sched = (IF entry = "boot" THEN "not_started" ELSE "running")
  /\ main' = "begin"
  /\ sched' = IF entry = "loader" THEN "suspended" ELSE sched
  /\ UNCHANGED <<program, entry, halted>>

\* prvLoader resumes what is still suspended when the function has returned.
LoaderResumes ==
  /\ entry = "loader" /\ main = "returned" /\ sched = "suspended"
  /\ sched' = "running"
  /\ UNCHANGED <<program, entry, main, halted>>

LaunchNext == StartScheduler \/ Enter \/ LoaderResumes
===============================================================================
