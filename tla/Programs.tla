------------------------------- MODULE Programs -------------------------------
(***************************************************************************)
(* The programs that main.c may be built for, as far as they are modelled  *)
(* here: main_servers, which starts the TFTP server next to the TCP        *)
(* servers, main_peekpoke, and the IPC benchmark.  A behaviour is that of  *)
(* one program, and what belongs to the others does not change.            *)
(***************************************************************************)
EXTENDS ServerBoot, Tftp, Ipc

CONSTANT Traffic   \* bound: how a program is called to which datagrams come

vars == <<launch, boot, tftp, ipc>>

Init == /\ LaunchInit /\ BootInit /\ TftpInit /\ IpcInit
        /\ program # "ipc_benchmark" => xIPCMode = "ALL" /\ VARY_BUFFER_SIZES   \* no matter then

TypeOK == LaunchTypeOK /\ BootTypeOK /\ TftpTypeOK /\ IpcTypeOK

Launched == LaunchNext /\ UNCHANGED <<boot, tftp, ipc>>

\* The hook of main_servers starts the TFTP server's task, which may run before
\* the worker has mounted the disk.
Booting ==
  \/ (EntryStep \/ NetworkDown \/ CreateServers) /\ UNCHANGED <<tftp, ipc>>
  \/ /\ NetworkUp /\ UNCHANGED ipc
     /\ IF program = "servers" /\ ~created THEN StartTask ELSE UNCHANGED tftp
  \/ /\ MakeDisk /\ UNCHANGED ipc
     /\ IF program = "servers" THEN Mount ELSE UNCHANGED tftp

TftpRuns == TasksRun /\ Served /\ UNCHANGED <<launch, boot, ipc>>

\* Datagrams come and go while the network is up; before the TFTP server is there
\* they are lost, and (bound) none are sent when it is dead.
Network == /\ net = "up" /\ tftpd \notin {"off", "dead"} /\ entry \in Traffic
           /\ ClientStep \/ \E d \in wire : Lose(d)
           /\ UNCHANGED <<launch, boot, ipc>>

Benchmark == IpcNext /\ UNCHANGED <<boot, tftp>>

Next == Launched \/ Booting \/ TftpRuns \/ Network \/ Benchmark

Spec == Init /\ [][Next]_vars

\* The scheduler gives every task that is ready its turn: the idle priority is
\* shared in time slices, and the tasks above it wait for something in turn.
Fairness ==
  /\ WF_vars(Launched) /\ WF_vars(Benchmark) /\ WF_vars(TftpRuns)
  /\ WF_vars((EntryStep \/ CreateServers) /\ UNCHANGED <<tftp, ipc>>)
  /\ WF_vars(Booting /\ MakeDisk)

FairSpec == Spec /\ Fairness

-----------------------------------------------------------------------------
\* main_servers.c, main_peekpoke.c, TFTPServer.c: once the network is up the
\* TCP servers are created and work, and the TFTP server comes back to its port
\* from every transfer, whatever its client does; unless main_peekpoke, as a
\* task of its own, was overtaken by the hook, or the TFTP server's task has
\* died of a datagram that it did not receive (ReceiveFails).
Serving == worker = "serving" /\ (program = "servers" => tftpd \in {"listen", "dead"})
ServersServe == (net = "up" /\ ~StartMissed) ~> Serving

\* main_ipc_benchmark.c: every run ends and the program exits, in every mode: no
\* send finds a queue full, and no task waits for what does not come.
BenchmarkEnds == <>(program = "ipc_benchmark" => main = "exited")
===============================================================================
