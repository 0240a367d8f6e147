# TLA+ verification of the FreeRTOS CHERI-RISC-V demos

The repository holds demonstration programs for FreeRTOS on CHERI-RISC-V: a board support
package (`bsp/`), the applications (`demo/`) and TCP/IP protocol servers (`protocols/`).
FreeRTOS itself, FreeRTOS+TCP, FreeRTOS+FAT, the Xilinx device drivers, the CHERI
compartment library and canlib are not in it; they appear here only as the code in `src/`
uses them.

This directory models the parts whose correctness depends on the order in which tasks,
interrupt handlers, callbacks, peers and the network act. Paths below are relative to
`src/`.

Contents: [inventory](#inventory), [plan](#plan), the modules
[Iic](#iic), [Board](#board), [Ecu](#ecu), [TcpServer and TcpRounds](#tcpserver-and-tcprounds),
[FtpTransfer](#ftptransfer), [FtpSession](#ftpsession),
[Launch, ServerBoot and Programs](#launch-serverboot-and-programs), [Tftp](#tftp), [Ipc](#ipc),
[what the runs show](#runs), [proofs](#proofs), [findings](#findings), [limits](#limits),
[not modelled](#not-modelled).

| module | what it is | lines |
|---|---|---|
| `Iic` | the IIC bus driver, `bsp/iic.c` | 402 |
| `IicProofs` | its proofs | 491 |
| `Board` | the interrupt controller driver and the external interrupt handler, composed with `Iic`, which it implements | 282 |
| `BoardProofs` | its proofs | 516 |
| `Ecu` | the cyber-physical application, `demo/cyberphys/main_besspin.c` | 543 |
| `EcuProofs` | its proofs | 881 |
| `TcpRounds` | abstract: what a working cycle of the TCP server promises | 41 |
| `TcpServer` | `protocols/Common/FreeRTOS_TCP_server.c`, implements `TcpRounds` | 323 |
| `TcpServerProofs` | its proofs | 971 |
| `FtpTransfer` | the data transfers of `protocols/FTP/FreeRTOS_FTP_server.c` | 627 |
| `FtpTransferProofs` | its proofs | 5995 |
| `FtpSession` | its sessions: login, commands on files, renaming, LIST | 443 |
| `FtpSessionProofs` | its proofs | 1049 |
| `Launch` | how `main.c` starts the program it was built for | 56 |
| `ServerBoot` | the start of the servers, `demo/main_servers.c` and `demo/main_peekpoke.c` | 113 |
| `Tftp` | the TFTP server, its clients and the network between them | 266 |
| `TftpProofs` | its proofs | 929 |
| `Ipc` | the IPC benchmark, `demo/ipc_benchmark/` | 154 |
| `Programs` | `Launch`, `ServerBoot`, `Tftp` and `Ipc` composed: one program per behaviour | 65 |
| `ProgramsProofs` | its proofs | 959 |
| `MC*` | instances of the above for TLC | |

A definition whose comment begins with "Mutant:" is a plausible mistake in the definition
after it. It is used by no specification; with it in the place of the definition, the
property it was written for fails, which shows that the property depends on that piece of
code.

## Inventory

For each component: its state, its operations, whom it interacts with, what is hard about
it and what makes it correct.

### IIC bus driver (`bsp/iic.c`, `bsp/iic.h`) - modelled in Iic
- State: the `Iic_t` (`mutex`, `task_handle`, `trans_len`, `Errors`), the Xilinx device, the
  registration at the interrupt controller, the notification of each calling task.
- Operations: `iic_init`, `iic_stop`, `iic_transmit`, `iic_receive`, the send, receive and
  status handlers, `iic0_master_reset`.
- Interactions: tasks call it; the PLIC handler calls into the Xilinx interrupt handler,
  which calls the three handlers; a FreeRTOS mutex and direct-to-task notifications.
- Hard: interrupts against time-outs and against the reset; one `task_handle` and one
  `Errors` word for all callers; a reset that replaces the mutex.
- Correct when: one transfer at a time holds the bus, the handler notifies the task whose
  transfer it is, what a call returns is true of its own transfer, no assertion trips,
  every call returns.

### Cyber-physical application (`demo/cyberphys/main_besspin.c`) - modelled in Ecu
- State: five tasks and their handles, notifications, `data_mutex` and what it protects
  (gear, throttle, brake), the raw values it does not, the sockets.
- Operations: `prvMainTask`, `prvSensorTask`, `prvInfoTask`, `prvCanRxTask`,
  `prvIPRestartHandlerTask`, `vApplicationIPNetworkEventHook`.
- Interactions: the hook runs in the IP task, above all others, and suspends, notifies and
  wakes them; the sensor task reads through the IIC driver; CAN frames go over UDP.
- Hard: suspension of a task at any point, the mutex included; network events that overtake
  the restart they caused; notification counts; priorities; creation that fails half-way.
- Correct when: published values are of one sample, the tasks run on sockets of the present
  stack, what is suspended is resumed, a network that comes up starts the sensor.

### TCP server framework (`protocols/Common/FreeRTOS_TCP_server.c`) - modelled in TcpServer
- State: the listening sockets, the socket set, a singly linked list of client records that
  is walked by a pointer to a pointer.
- Operations: `FreeRTOS_TCPServerWork` (select, accept, walk, delete),
  `prvReceiveNewClient`; the work and delete functions of the protocols.
- Hard: unlinking at the pointer of the walk; allocations that fail after accept; peers that
  come and go between any two steps; fairness among clients of one task.
- Correct when: the list holds the allocated records and nothing else, sockets are closed
  and leave the set with their record, every client has its turn.

### FTP server, data transfers (`protocols/FTP/FreeRTOS_FTP_server.c`) - modelled in FtpTransfer
- State: `FTPClient_t` (data socket, two file handles, six flags, restart offset, bytes left
  and counted), the data connection, the file system.
- Operations: the work function; PASV, PORT, REST, RETR, STOR, SIZE; the check of the
  connection, closing of socket and file, the store and retrieve work.
- Hard: the peer may connect, send and close before, between or after the commands and
  between any two looks at the socket; final replies against data in flight; clients that
  start over; flags that say what happened in which order.
- Correct when: no file or socket is lost, 226 is only sent when it is true, transfers end.

### FTP server, session and file commands (same file) - modelled in FtpSession
- State: the login status, the current directory, the name to rename from (`pcFileName`, where
  most commands put theirs) and the flag that it is one, the state of a listing; the files, which
  all sessions and other tasks share.
- Operations: USER, PASS, QUIT, CWD, CDUP, RNFR, RNTO, DELE, MKD, RMD, SIZE, MDTM, PASV, PORT, LIST.
- Hard: sequences of commands, refused ones among them; LIST as an iteration that is resumed
  in every round of work while others change the directory, on a connection that is made before
  the command or after it.
- Correct when: what is renamed is what was named for it, a listing is complete and answered.

### Interrupt controller and external interrupts (`bsp/plic_driver.c`, `bsp/bsp.c`) - modelled in Board
- State: priorities, enable words, the table of handlers.
- Operations: `PLIC_init`, register, unregister, enable, disable, claim, complete;
  `external_interrupt_handler`, `prvSetupHardware`.
- Interactions: the IIC driver and the network driver register through it, from two tasks.
- Hard: read-modify-write of an enable word in tasks against interrupts and each other; the order
  of registration and enabling; registers that hold anything at power-on.
- Correct when: a handler is called only while registered, and no update of the enable word is lost.

### Start of the programs (`main.c`, `demo/main_servers.c`, `demo/main_peekpoke.c`) - modelled in Launch,
ServerBoot, Programs
- State: the scheduler's state, the handle of the worker task, the hook's static flag, the
  worker's notification.
- Operations: the entry functions, `prvLoader`, `vApplicationIPNetworkEventHook`,
  `prvServerWorkTask`.
- Hard: the hook may come before the worker exists and notifies it once only; three ways of
  calling an entry function, which differ in whether the scheduler runs.
- Correct when: the servers start once the network is up; no assertion trips.

### TFTP server (`demo/servers/Common/FreeRTOS_Plus_TCP_Demos/TFTPServer.c`) - modelled in Tftp
- State: one transfer: its client, socket, file, expected block and repetitions; the files.
- Operations: the request, the reception of a block, the time-out, the writing of a block.
- Hard: datagrams that are lost, double, late, or of an earlier transfer on the same port; a block
  is acknowledged before it is written; a client that leaves.
- Correct when: a file holds what one client sent, in order, and what that client knows to be
  acknowledged; the task comes back to its port.

### IPC benchmark (`demo/ipc_benchmark/`) - modelled in Ipc
- State: the notifications and queues of the two tasks of each run, and the main task's.
- Operations: the loops of the sender and the receiver in three modes, the runs of the main task.
- Hard: a queue of one place that the sender never waits for, tasks of the previous run that still
  exist, two functions in two files whose loops must agree; only priorities order them.
- Correct when: every run ends and no send finds the queue full.

### HTTP server and peek/poke (`protocols/HTTP/`) - abstracted by the result of a work function
Requests, replies, the memory commands. Hard: partial sends. Correct when: a reply is
complete or the connection is dropped.

### The rest
See [not modelled](#not-modelled), with a reason for each.

## Plan

In the order of their importance for the programs:

1. `Iic` - done, with proofs. The bus is what the main program's data comes through.
2. `Ecu` - done, with proofs of its safety. It uses `Iic` through `iic_receive`, of which it keeps only
   that the call blocks and ends well or not.
3. `TcpServer` over the abstract `TcpRounds` - done, with proofs of its invariants and of the refinement.
4. `FtpTransfer` - done, with proofs of its safety. `TcpServer` calls its work function.
5. `Board`: the interrupt controller and `Iic` over it, so that `irq` is a defined state; it
   implements `Iic` - done, the refinement proved. The run of the program's own use of the bus is one
   of `Board`.
6. `FtpSession`: login, renaming, LIST and the other commands - done, with proofs of renaming
   and of listings.
7. `Launch` and `ServerBoot`: the hook, the worker task and the start of the servers for two
   programs - done, with a proof that main_servers' assertion holds.
8. `Tftp`: the other server that main_servers starts - done, with a proof that its files are sound.
9. `Ipc`: the IPC benchmark - done, with a proof that no queue is ever full. `Programs` composes 7 to 9.

Every safety invariant, action property and refinement that a passing run checks is proved.

Left:
- Proofs: `FtpTransferProofs` repeats one argument for many calls of the server task; lemmas that
  treat more of them at once would make it shorter.
- Models: the command consoles; the 16-bit scaling of throttle, brake and gear.

## Iic

**State.** `mutex`, `task_handle`, `Errors`, `trans_len` are the fields of `Iic_t`. `mutex` is
a number because `iic_init` allocates another one at every reset; `holder` is the kernel's
holder of each. `xfer` is the device: which task started it, in which direction, how many
bytes are left. `irq` says that the handler is registered and its source enabled at the PLIC;
`Board` says what that is.
`pending[t]` is FreeRTOS' pending notification. `pc`, `call`, `ret` are each task's place,
arguments and result. `fault` is a failed `configASSERT`: it stops everything.

**Actions.** One per shared access of `iic_transmit`/`iic_receive` (the two have the same
control, `call[t].dir` tells them apart):

| action | code |
|---|---|
| `Call`, `TakeMutex` | `xSemaphoreTake(Iic->mutex, portMAX_DELAY)`: reads the mutex, then waits |
| `BusIsBusy`, `BusIsFree` | `XIic_IsIicBusy` and its early exit |
| `Arm` | `Iic->task_handle = ...`, `Iic->trans_len = ...` |
| `MasterStart`, `MasterRefuses` | `XIic_MasterSend/Recv` and the error exit |
| `NotifyWaitReturns`, `NotifyWaitTimesOut` | `xTaskNotifyWait(0, 0, NULL, 500 ms)` |
| `CheckErrors` | the test of `Errors` |
| `ZeroErrors`, `ReturnCount` | the two branches, the first after a `printf`: the reset of `Errors` and the return value, or `trans_len` |
| `ResetAfterTimeout` | the time-out branch, `XIic_Reset` after a `printf` |
| `GiveMutex` | `xSemaphoreGive(Iic->mutex)`, which reads `Iic->mutex` again |
| `Stop`, `Reinit`, `Register` | `iic0_master_reset`: `iic_stop`, then `iic_init` |
| `SendHandler`, `RecvHandler(n)`, `StatusHandler` | the interrupt handlers |

Interrupts run between any two task steps. `xTaskNotifyWait` clears nothing on entry
(`iic.c:145`), which is why an old notification can end a new wait. The device may finish,
report an error or never answer, and the bus may be held by another master. The assertion of the
send handler that its argument is 0 (`iic.c:291`) is one on the Xilinx driver, which calls it after the
last byte; it is left out.

**Histories.** `outcome[t]` is how the device ended the transfer of the task's present call.
`late[t]` records that an interrupt hit the task between its time-out and the reset.

**Who resets.** In the program `prvSensorTask` is the only user of the bus and the one that resets it. With
several users *and* a reset, a reset replaces a mutex under another task's feet: the holder gives the new
mutex back instead of its own, for whose waiters no give ever comes (a `TODO` at `iic.c:97` asks for a
better way than a new mutex per start). The properties about what the mutex protects are therefore stated
for `SingleUser`: either nobody resets the driver or it has one user. `MutualExclusion` (per mutex) and the
types need no such condition.

**Properties.** `MutualExclusion`, `CompletionGoesToStarter`, `NoFault`,
`HonestUnlessLate` (a byte count is returned only after this call's own bytes are on
the bus, a missing acknowledge only for its own error), `ErrorNeverReportedAsSuccess`,
`CallReturns`; `Synchronous` is refuted. `ErrorNeverReportedAsSuccess` covers the time between the test of
`Errors` and the end of its branch (`iic.c:148-161`), in which a late interrupt's handler may still write it.
The assertion about registering twice, part of `NoFault`, is met in `Board`'s run and in the proof only: the
shared run has no reset.

## Board

**State.** The variables of `Iic` but for `irq`; `Handler`, the sources whose entry in
`HandlerTable` is not NULL; `enable` and `priority`, the controller's registers; `driver[t]`, where
a task is in `PLIC_register_interrupt_handler` or `PLIC_unregister_interrupt_handler`, and
`current[t]`, the enable word it has read; `started` and `netUp`. `jumped` records a call
of a NULL handler, and `fault` a failed assertion; both stop everything.

**Processes.** `prvSensorTask`, the user of the bus; the IP task, in which the network driver
registers its sources when the interface comes up; the external interrupt, between any two steps.
`prvMainTask` waits for the network before it makes the sensor task (`netUp`), so the two
registrations do not overlap. That this is what protects the enable word, and not the driver,
is what the mutant `NetUpEarly` shows.

**Actions.** `SetupHardware` is `prvSetupHardware` from registers of any content;
`PLIC_init` leaves the priorities as they are (its loop starts at the base address and ends
at once), but clears the enable bits. `NetRegisters`/`NetEnables` and
`RegisterBegins`/`RegisterReads`/`Registered` write the table, read and write the enable word;
`StopBegins`, `Unregisters` (`ReadToDisable`, `WriteDisabled`, `RemoveHandler`) and
`StopDevice` are the reverse. `ExternalInterrupt(s)` claims an enabled source, calls its
handler and completes it. `Transfer` and `Reinit` are actions of `Iic`.

**Refinement.** `Board` implements `Iic!Spec` (`ImplementsIic`, checked by TLC and proved in
`BoardProofs`) with one user who also
resets, and `irq` on unless the bus's source is disabled and the device about to be registered
again. The properties of `Iic` that are proved in `IicProofs` therefore hold of the driver whose
interrupt is stopped and started in six steps rather than two.

**Properties.** `NoNullHandler`, `EnabledAreHandled`, `ImplementsIic`.

## Ecu

**State.** `status` and `pc` of the tasks; `handle`, the task-handle variables that are not
NULL; FreeRTOS' notifications (`notified` for `prvMainTask`, the count `notes` for the restart
handler); `network`, and `downs`, the number of times the stack went down, which serves as its
generation; `sock[s]`, the generation that each of the three sockets was created in, and `made[t]`, a
socket that task `t` has created and whose handle it has not stored yet; `failed`, the tasks that could
not be created; `holder` of `data_mutex`; `tmp`, `shared` and
`local`, which sample each variable's value is of (samples are counted modulo `Samples`).

**Scheduling.** One hart, preemptive priorities from the code: IP task 8, main and restart
handler 5, sensor 4, CAN 3, info 1, with the priority inheritance of a FreeRTOS mutex
(`EffPrio`). A task makes a step only while no ready task has a higher one (`Runs`). The hook
runs in the IP task and so between any two steps. `Wake` ends a delay or a timed wait. With
equal priorities (main and the restart handler) either may run.

**Actions.** `Main*` waits for the network, creates the four tasks one by one (each creation
may fail), and deletes itself. `Sensor*` reads, processes, publishes under the mutex and
delays; `SensorProcess` writes the raw values outside the lock. `Info*` copies under the
mutex, or gives up after 100 ms and prints what it has. `Can*` calls `process_j1939`.
`Restart*` takes a notification, makes the sockets and resumes the two tasks. A socket is made in
two steps, in the tasks and in the handler alike: `SocketCreate` is `FreeRTOS_socket`, `SocketStore` the
store of its handle (`main_besspin.c:418` and 582-603; `prvSocketCreateCanRx` makes three, the
listening one twice). `NetworkUp` and `NetworkDown` are the two branches of the hook; `vTaskSuspend` of a
NULL handle suspends the caller, the IP task.

A notification through a NULL handle or to a deleted task (`NetworkUp` before `prvMainTask`
has stored its handle, after it has given up, or when the restart handler could not be
created) is recorded in `misNotify`; the
properties about restarts are stated for runs in which it has not happened, since what it
does in the kernel is undefined. `misNotify` therefore is itself worth knowing about: an
initial network-up notifies `xMainTask` without looking (the hook prints an error and goes on).

**Where properties are limited to what the code does.** The hook may suspend a task between `SocketCreate`
and `SocketStore`. Such a task, when the handler has resumed it, stores its socket of the old stack over the
new one, and keeps it until the network goes down again. `torn` records these tasks;
`RestartCompletes` and `NoStaleSocketWhenUp` hold for the others, and without the exception TLC finds this
at once. Both look at all three sockets. What happens to `prvCanRxTask` while it is blocked in a receive on the
listening socket of the old stack is up to the stack: here its wait ends (`Wake`).

**Left out.** Message contents, the scaling of readings, the count of read errors (the error
branch may be taken any number of times; the reset itself is in `Iic`), the IIC mutex
(the sensor task is its only user).

## TcpServer and TcpRounds

**State.** `conn`, `peer`, `inbox` are the TCP stack's view of each connection; `fdset` is
`xSocketSet`; `heap` the allocated client records, `next` their `pxNextClient`, `pxClients` the
head. A record is named by the connection it was made for, so two records never have the same
name, and an access to a record that is not in `heap` is an access to freed memory, which is
recorded (`badAccess`). `ppxClient` is the walk's pointer to a pointer: `Anchor` (the address of
`pxServer->pxClients`) or the record whose `pxNextClient` it points to.

**Actions.** `SelectReturns`/`SelectTimesOut`; per listening socket `AcceptNone`,
`ReceiveNewClient` or `RefuseNewClient` (allocation failed); `StartWalk`; per client `Work`
or `Delete` (unlink, delete function, free); `EndWalk`. `Connect`, `SendRequest`, `PeerLeaves`
are the peers'. FTP's delete function takes the socket out of the set and closes it; HTTP has none.

**Abstract specification.** `TcpRounds` keeps the connections in a sequence, newest first: a
round visits each of those present at its start once, in order, and a connection leaves only
in its own visit. `TcpServer` implements it (`ImplementsRounds`, checked by TLC and proved in
`TcpServerProofs`), with `conns` mapped to the list that is reached from `pxClients` and `todo` to
the one reached from `*ppxClient`. `From(p)` follows the links for as many steps as there are
records and no further, so that it is defined, and too long, for a list that runs in a circle.

**Properties.** `ListSound`, `WatchesOpenSockets`, `FtpConnectionsOwned`, `ImplementsRounds`,
`RequestsAreRead`, `FtpConnectionsEnd`; `DeletedAreClosed` is refuted for HTTP.

## FtpTransfer

**Processes.** The server task, the peer and the TCP stack. The stack's task has a higher priority than the
server's, so the connection may change between any two of the server's calls of it. The server task is
therefore written as a stack of the calls it still has to make (`stack`, the next one in front), and each
action is one call, from one look at a socket to the next: `Recv` calls a command and then `Data`, `Data`
calls `Check` and `Work`, `Work` calls `StoreFileWork` or the retrieve actions and `Worked`, and so on. What
it works on is `pxClient`, the fields of `FTPClient_t` by their names.

**Data.** Files and streams are counted in blocks. One file is read, one written. A data
socket (`sk[s]`) has a state (`bound`, `listen`, `connecting`, `estab`, `lastack`: the peer has
closed, `closed`, `freed`), what waits in its two streams, and `fin` if the server has asked
for its closing (`FREERTOS_SO_CLOSE_AFTER_SEND` or `FreeRTOS_shutdown`); `sent` and `got` count
what the peer sent and got on it. `disk` is the free space, `files` the number of open files.

**The client.** It awaits the answer to PASV and PORT before anything else, and uses each data
connection for one transfer, as FTP clients do; it may start over with a new PASV or PORT at
any time, also during a transfer, send SIZE while uploading, and leave at any time. `talk`
is the history of the transfer as the client sees it. `talk.calm` says that nothing happened
that excuses the server: the client did not start over, leave, refuse or abort the connection or send into a
refused upload, and neither a read of the file nor a send to a connection failed. `talk.rest` is the
client's own account of the offset of its download: what it asked for with REST, or that a refused
transfer may have left one (-1); it is never read from the server's field. `StoredIsSent`, `RetrievedWhole`,
`SocketsOwned` and the two liveness properties are about calm transfers; `FilesOwned` is
about all.

**Where properties are limited to what the code does.** A full disk (`disk = 0`) leaves a socket open and an
upload unanswered: `prvTransferCloseSocket` returns early when data is still waiting
(`FreeRTOS_FTP_server.c:1143`). `StoreEnds` excepts it. `SocketsOwned` does not: a calm client waits for the
answer, which never comes, and while it does so the socket is still the session's. That of a client which
gives up and starts over is lost; no property covers this. A RETR whose file cannot be opened leaves
the offset of a REST set (line 1691), and so does a 425; the next RETR then does not begin at the beginning.
`RetrievedWhole` is about downloads for which the client neither asked for an offset nor was refused one
just before (`talk.rest = 0`); `RetrieveEnds` covers all of them. A read that fails, a `FreeRTOS_send` that fails
on an established connection (lines 1837 and 1906) and a `FreeRTOS_shutdown` that fails since there is no connection
yet (line 1823) end a download early and with 226, since only uploads set `bHadError`. These steps are in the
model (`RetrieveShort`, `RetrieveFails`); after them `RetrievedWhole` promises nothing, and
`FilesOwned` and the sockets are still sound. A RETR of an empty file shuts down a connection
that may not exist yet and then waits for it to end. A RETR restarted by REST has its own property,
`RestartDelivers`, which is refuted; its variant that is sent before the connection is made never ends. All are listed
in the project's hazards, with the property each limits.

**Left out.** PASV when no socket can be created; the aligned variant of `prvStoreFileWork`,
which is not built. LIST and the commands on files are in `FtpSession`.

## FtpSession

**State.** `pxClient[c]` has the session fields of `FTPClient_t`; `conn[c]` the data connection, its
flags and what a listing has done. `tree` is the file system, a function from paths (sequences
of names) to "none", "file" or "dir". `named`, `renamed` and `talk` are histories: what the client has
named with a RNFR just before, that its last command renamed something, and its listing as it sees it.

**Actions.** The server task serves all sessions in turn and each command is done in one call, so a
command of one client is a step (`User` ... `List`), and so is a round of work on a data
connection (`ClientWork`), which sends at most one line of a listing here. `OtherWrites` is
another task that makes a file. `xMakeAbsolute`, `Renames`/`Moved` (`ff_rename` without
replacement), `Entries` (`ff_findfirst`, `ff_findnext`) are the conversions and calls as the code uses them:
the search finds each entry once, those that come or go meanwhile or not. `RenameEnds` is the end
of `prvProcessCommand`, where every command but RNFR clears `bInRename`. `PeerConnects`,
`PeerCloses` and `StackCloses` are the data connection's.

**Where properties are limited to what the code does.** A LIST of an empty root directory sends "total 0"
and no final reply, and its connection stays open; `ListEnds` is stated for directories with entries.
`ff_findnext` may fail otherwise than at the end of the directory (line 2051): the listing then ends
with a 226 as if it were complete (`ListBreaks`, recorded in `talk.broken`). `ListComplete` asks of such a
listing only that the 226 counts the lines sent. Each of the other calls of the file system may fail, too,
on a file or directory that is there.

**Properties.** `RenamesWhatWasNamed` (an action property), `ListComplete`, `ListEnds`.

## Launch, ServerBoot and Programs

**Launch.** `entry` is how the entry function of the program is called: before the scheduler ("boot", in
the Makefile's builds), as a task of its own ("root", waf), or by the loader task with the scheduler suspended
("loader", waf with compartments). `main` is where that function is; `sched` the scheduler's state.

**ServerBoot.** `Begin`, `IPInit`, `CreateWorker` and `Resume` are the entry function, call by call.
`NetworkUp` and `NetworkDown` are the hook, in the IP task, which has a higher priority than all the others
and hence is one step; main_servers notifies the worker through its handle without looking (the kernel
asserts that it is not NULL: `halted`), main_peekpoke only if it is not NULL. `MakeDisk` and `CreateServers`
are `prvServerWorkTask`.

**Programs.** A behaviour is one of main_servers, main_peekpoke or the IPC benchmark. main_servers'
hook also starts the TFTP server, whose volume the worker mounts: these two are joint steps. `Traffic` is a bound
of the run: datagrams come in one of the three ways in which main_servers may be called, since these
differ in the start only.

**Where properties are limited to what the code does.** main_peekpoke does not suspend the scheduler. As a task of
its own it may be overtaken by the hook between `FreeRTOS_IPInit` and `xTaskCreate`; then nothing
ever notifies the worker and no server starts (`StartMissed`). `ServersServe` leaves these states
out; with them TLC finds them at once.

**Properties.** `ServersServe`; the theorems `ServersAreOrdered` and `BenchmarkNeverHalts`.

## Tftp

**State.** `tftpd` is where the task is: waiting for a request, for a block, or about to write one.
`pxClient`, `xPort`, `usExpectedBlockNumber`, `xRetries` are of the transfer, `short` that the block
received is shorter than 512 bytes. `content[f]` is the sequence of blocks in a file, a block being the pair of
the client that sent it and its number; `wire` the datagrams under way; `at`, `block`, `tid` the clients.

**Actions.** `RefuseRequest`, `AcceptRequest`, `ReceiveBlock`, `ReceiveOther`, `ReceiveTimesOut`,
`WriteBlock`, `WriteFails`. A block is acknowledged (`ReceiveBlock`) and then written, and if it is not the
last one acknowledged a second time (`WriteBlock`), as the code does. Anything that is not the next block
from the client ends the transfer, a block that came twice too (`ReceiveOther`): this is strict, and a
reason why clients may fail, but never why a file is wrong. `FreeRTOS_recvfrom` returning 0 is a time-out
(`ReceiveTimesOut`); `ReceiveFails` is a negative result. The clients send a request or the last block again
as often as they like, and give up at any time. The network loses, duplicates, delays and reorders; a port
is given to one transfer after another, so late datagrams reach the wrong one.

**Properties.** `FilesSound` and, through `Programs`, `ServersServe`. That a client whose last block could
not be written has its acknowledgement already is in the history `unwritten`: `FilesSound` promises nothing
to these clients about what they know to be acknowledged.

**Where properties are limited to what the code does.** `TFTPServer.c:339` takes only 0 for a time-out. A
negative result of `FreeRTOS_recvfrom`, which is what `protocols/NTP/NTPDemo.c:470` expects of a time-out, is taken
for the next block, with a buffer pointer that is not set or is that of a buffer given back. What
follows is undefined, and `ReceiveFails` has its outcomes: the task dies, the transfer ends with an error, or
the garbage is acknowledged and written, until that fails. `FilesSound` therefore allows one last piece that no client
sent, and `ServersServe` a task that died (`tftpd = "dead"`). What giving back a buffer twice does to the stack is
not modelled. If the stack's `FreeRTOS_recvfrom` reports time-outs by a negative result, which the repository does not
tell, this is what happens at each; the retries of the code are then never taken.

## Ipc

**State.** `rx[i]` and `tx[i]` count the operations that the receiver and the sender of run `i` have done, of
the sequences `queueReceiveTask` and `queueSendTask` that are read off the loops in the two
files; `notes`, `mainNotes` and `queue` are the kernel's counts.

**Actions.** `CreateTasks` and `RunEnds` are the main task, at the highest priority; then the receivers,
then the senders (`SendersTurn`). A sender that finds a queue full trips its assertion (`halted`). Receivers
and senders of a run that is over still have to delete themselves. The builds are those with
`VARY_QUEUE_SIZES` and `VARY_BUFFER_SIZES` both off, both on (as `demo/ipc_benchmark/wscript` sets them) and
the first alone. The second alone is left out: its loops use queues (`sender_compartment.c:288`) that are
not made (`main_ipc_benchmark.c:139`), beyond the end of an array of one.

**Properties.** `BenchmarkEnds`: this includes that nothing halts, which is also proved (`BenchmarkNeverHalts`).

## Runs

`tlc -config <run>.cfg <module>`; the passing ones take from a few seconds to about three minutes with two
workers: `IicShared` has 332,321 distinct states (1 min), `EcuRestarts` 691,732 (2.5 min), `FtpTransfers` 1,968,747
(3 min), `FtpSession` 344,759 (2.5 min), `Programs` 579,120 (2 min).

| run | module | constants | what it shows |
|---|---|---|---|
| `IicShared` | `MCIic` | 2 tasks, no reset, `MaxLen` 1 | the driver as a shared service: one mutex, one `task_handle`, one `Errors` |
| `IicSensor` | `MCBoard` | 1 task that also resets, `MaxLen` 5, `MaxMutex` 4; 4 interrupt sources, 2 of the network | the program's own use, with the five-byte reads of `prvSensorTask` and three resets, step by step through the PLIC driver; the refinement of `Iic` |
| `IicSynchronous` | `MCIic` | 1 task | violation of `Synchronous` |
| `EcuRestarts` | `MCEcu` | `MaxUp` 3, `MaxDown` 2, `MaxFail` 1, `Samples` 2 | publication and restarts under any network events |
| `EcuSuspend` | `MCEcu` | `MaxUp` 1, `MaxDown` 1 | violation of `SuspendsOnlySocketUsers` |
| `EcuResume` | `MCEcu` | `MaxUp` 2, `MaxDown` 2 | violation of `ResumedAfterRecreation` |
| `TcpServerClients` | `MCTcpServer` | 1 HTTP and 2 FTP connections, `MaxReq` 1 | the list, the set, the sockets, the refinement and the service of all clients |
| `TcpServerHttp` | `MCTcpServer` | the same | violation of `DeletedAreClosed` |
| `FtpTransfers` | `MCFtpTransfer` | 2 data connections; 2 blocks to read, to send and of disk; streams of 1 block | transfers, passive and active, in any order of events |
| `FtpRestart` | `MCFtpTransfer` | the same with streams of 2 blocks and a disk of 3 | violation of `RestartDelivers` |
| `FtpSession` | `MCFtpSession` | 2 clients, three paths (two names, one of them with a name in it) | renaming and listing by two sessions and another writer |
| `Programs` | `MCPrograms` | 2 TFTP clients with files of 2 and 1 blocks, 1 port, 2 datagrams, 1 repetition; 2 runs, `LogSize` 2 | the start of the servers in every build, TFTP, the benchmark in every mode |

**Bounds, and why they are enough.**
- `Tasks`: the driver's tasks interact only through its shared words, and mixing two transfers up
  takes two tasks. The proofs hold for any number.
- `MaxLen`: 1 where only the end of a transfer matters, 5 (the length of the program's reads)
  where the receive handler counts bytes. `MaxMutex`: one more than the resets; two resets are
  needed for a second registration over the first, three leave room for more.
- `MaxUp`, `MaxDown`: the longest races known here take a second network-down during the handling
  of the first restart, and the network-up after it; hence three and two. `MaxFail` 1: the
  reactions to two failed creations are those to each. `Samples` 2: two values suffice to tell
  a torn snapshot, and to have a new sample while an old one is being copied. These events are
  bounded, so the model may come to rest: `CHECK_DEADLOCK FALSE`.
- Connections: three, so that a record can be unlinked at the head, in the middle and at
  the end of the list while another one is added; both kinds occur. Records are not
  used twice, as explained above. `MaxReq` 1 distinguishes "nothing to read" from "something".
- `MaxSock` 2: one transfer may disturb the next through what `FTPClient_t` keeps from it;
  every flag is reset or overwritten within one further transfer. `FileSize` 2 with a window
  of 1: a first and a last chunk, and a stream that is full in between. `MaxSend` 2 and `Disk` 2: two
  uploads overrun the disk, one does not, and either can be cut short. The session may end: `CHECK_DEADLOCK FALSE`.

- `Sources`: the bus's, two of the network, so that one registration can undo the other's, and one
  that nobody registers, which may be enabled at power-on.
- `Paths`: a directory, a name in it and a name beside it: enough to rename across directories, to remove
  the directory one is in, and to have listings of none, one and two lines. `Does`: one client works on
  files, the other walks about and lists; a session disturbs another through the files only. A client does
  not log in while logged in, does not walk about while it waits for a listing, and sends LIST once per data
  connection.
- TFTP: two clients, since a transfer can be disturbed by those before it; two blocks, a full one and a
  short one; one port, so that it is used again at once; two datagrams under way, a current and a late one;
  one repetition instead of six. File sizes are those that `usExpectedBlockNumber` can count (`USHRT_MAX`).
  `Traffic` is the start by the loader. Theorem `FilesAreSound` has none of these bounds but that of the
  sizes.
- The benchmark: two runs, for the tasks left by the first; one warm-up round; a total of 2^2 bytes: three
  queue sizes; three of the four builds (see [Ipc](#ipc)). There is memory for all that the programs create.

**Fairness, and why the code has it.**
- `Iic`: weak fairness of each task's steps (a ready task runs; `xTaskNotifyWait` has a time-out),
  strong fairness of `TakeMutex` (FreeRTOS wakes the waiter of highest priority, and among
  equals the one that waited longest, so a mutex that is given again and again comes to
  each). Nothing is assumed of the device: `CallReturns` holds although it may never answer.
- `Ecu`: weak fairness of `Step` as a whole (the hart runs some ready task of the highest
  priority) and of each `Wake` (delays and timed waits end). It is not assumed that a
  low-priority task runs, nor that the network ever comes up.
- `TcpServer`: weak fairness of the server task, whose loop calls `FreeRTOS_TCPServerWork` again
  and again with a select that times out. Nothing is assumed of peers.
- `FtpTransfer`: weak fairness of the server task, of the peer in connecting to what it was
  offered and in reading what it was sent, and of the stack in ending a connection that both
  sides have closed. It is not assumed that the peer ever sends, closes or issues a command.

- `FtpSession`: weak fairness of the work on each session (the task serves each in its cycle) and of
  the peer in making the data connection. It is not assumed that clients send commands or that others stop writing.
- `Programs`: weak fairness of the launch, of the entry function and worker, of the TFTP task and of the
  benchmark: the tasks at the idle priority share it in time slices, those above wait for something in turn.
  Network events, clients and the wire are not fair.

**Depth.** `ErrorNeverReportedAsSuccess`, `NoStaleSocketWhenUp` and `RenamesWhatWasNamed` are action
properties; `CallReturns`, `SuspendedAreResumed`, `NetworkUpStartsSensor`, `RequestsAreRead`,
`FtpConnectionsEnd`, `StoreEnds`, `RetrieveEnds`, `ListEnds`, `ServersServe` and `BenchmarkEnds` are
liveness properties; `ImplementsRounds` and `ImplementsIic` are refinements. All runs are exhaustive within
their bounds.

## Proofs

`tlapm <module>.tla` proves all the obligations of the eight proof modules, for every value of the
constants that meets the named assumption of the module they are about:
- `IicAssumption` and `TcpAssumption`: the resetters are tasks, null values are not tasks or
  connections, the two kinds of connections are disjoint and bounds are positive numbers.
- `BoardAssumption`: the two tasks and the null value differ, and the bus's source is not the network's.
- `EcuAssumption`: the bounds are numbers and there are two samples at least.
- `FtpAssumption`: the bounds and the disk are numbers; a stream, the file and the number of sockets are not zero.
- `SessionAssumption`: there are finitely many paths, which are sequences; the parent of a path is a path or the
  root; each client has the commands that `Does` gives it.
- `TftpAssumption`: null values differ from the real ones and a file has between 1 and `USHRT_MAX` blocks.
- `IpcAssumption`: the sizes are numbers, and there is one run at least.

`IicProofs` follows one chain of invariants, each inductive relative to those before it:
1. `TypeOK` (`TypeCorrect`).
2. `HolderInv`: a task in its critical section is the kernel's holder of the mutex it waited
   for. `MutualExclusion` is not inductive, since it says nothing about who holds a mutex; it
   follows from `HolderInv` at once (`BusIsExclusive`). It needs no assumption on
   resets, since each mutex has a holder of its own, and that the give of a *wrong*
   mutex cannot free another task's is part of `GiveMutex`.
3. `BusInv`, under `SingleUser`: the mutex of a task in its call is the present one; from
   "arm" to the start no transfer is on the bus; `task_handle` and `trans_len` are
   those of the task between "send" and "check"; an error outcome not yet looked at is in
   `Errors`; while the driver is stopped `irq` is off. It gives `CompletionCorrect`,
   `NeverFaults` and `ErrorsAreReported`: a task
   that is in either branch after the test of `Errors` for a transfer that failed either returns the error or has
   `Errors` set, by a handler that came between, when it returns.
4. `LateInv`, under `NoneLate`: a pending notification belongs to a task in its wait whose transfer
   is over, and every other claim a notification makes about a transfer. It gives `HonestReturns`.
   The hypothesis cannot be dropped: `IicSynchronous` is its counterexample.

`BoardProofs` proves that `BoardInv` is inductive: types, `NoNullHandler`, `EnabledAreHandled` and three
more parts. `EnabledAreHandled` speaks of the moments between registrations only, so `WordInv` says, for
each step within one, by which source the enable word and the table of handlers differ, and that the word a
task has read is still the present one. The latter needs that the two tasks are never in the PLIC driver
together: `TurnInv`, before the network is up it is the IP task's, afterwards the sensor task's. `ResetInv`
ties the steps of `iic0_master_reset` to the bus's entry in the table. They give `TypeCorrect`,
`HandlersAreThere` and `EnablesAreKept`, and are what the refinement needs to see that `irq` is unchanged by
a step that stutters (`StepRefines`, `BoardImplementsIic`). `NeverFaults` then is `IicProofs`' theorem of
that name, instantiated.

`EcuProofs` has five invariants, of which the first is used by all others. `EventInv` is `TypeOK` and that
there are no more notifications than network-up events, without which the count would not be bounded
(`TypeCorrect`). `DataInv`: who is between the take and the give holds `data_mutex`, and the shared values
(the copies) are of one sample except while they are written (copied), which suspension at any point does
not change (`SnapshotsAreConsistent`). `HoldInv`: while the network has not gone down, a sensor task that
has the mutex is ready, so that by the priorities the info task does not run until it has given it
(`InfoGetsTheMutex`). `SocketInv`: who stands between the creation and the store of a socket has made one,
and of the present stack unless it is torn; a task past its sockets has them. `RestartInv`: while the
network is up, for whatever is suspended, and for each of the three sockets that is of an earlier stack and
not of a torn task, the restart handler has a notification to take or stands before the step that repairs
it, and what it is about to store is of the present stack or there is a further notification (`FreshInv`).
It gives `RestartsAreComplete` and, since the handler's priority is above the socket users'
(`HandlerFirst`), `SocketsAreFresh`. A task that creates its own sockets while the handler makes them, too,
does no harm: both are of the present stack (`OwnStores`).

`TcpServerProofs` proves `TypeOK` (`TypeCorrect`), and that `Sockets`, the conjunction of types,
`WatchesOpenSockets` and `FtpConnectionsOwned`, is inductive (`SelectSetSound`, `FtpSocketsOwned`). The two
are not inductive apart: that a socket taken out of the set by the deletion of its client leaves no client
unwatched needs to know which sockets are open, and conversely. For the list itself the invariant is
`ListInv`: there are a sequence `s` of the allocated records, each once, along which `pxNextClient` leads
from `pxClients` to NULL, and a number `k` of records behind the walk, whose pointer is the anchor or in
record `s[k]`. Accepting puts a record in front of `s` (and of the walk, which has not started), unlinking
at the pointer removes `s[k + 1]`, and nothing else changes the links. That following the links computes
this sequence (`ChainIsList`) is an induction, done as the library allows it: by the least step at which the
two differ. `ListIsSound` follows, and `ServerImplementsRounds`: with `s` as `conns` and what is not behind
the walk as `todo`, every action is a step of `TcpRounds` or leaves both (`Moves`).

`FtpTransferProofs` is about the server task's stack of calls, so its first invariant, `BaseInv`, says what
the stack can be: `StackInv`, for each call which others may wait below it (`Under`). From it, and from the
types and `FilesInv` (which call holds the handle that is in no field yet), follow `TypeCorrect` and
`FilesAlwaysOwned`. Three layers stand on it, each inductive with those below:
1. `OwnedInv`, for `SocketsAlwaysOwned`: `OwnInv` says what is true of the sockets, whoever the peer
   is; `PatientInv`, for a calm peer, that the session's socket is the only one not freed, and that the calls which
   make a new socket or end the session have a closing call before them.
2. `SentInv`, for `StoredAlwaysSent`: `AdjacentInv`, what comes directly after a closing call; and for a
   calm peer `RequestInv` (which transfer the calls belong to, and whether it has begun: `Early`),
   `HandleInv` (which handle and flags it has), `LinkInv` (what the flags say of the connection: a closing
   call comes only after the end of the connection or an error) and `UploadInv` (before the transfer begins
   nothing has been taken from the stream; then what is in the file and what is in the stream make what was
   sent). The order of the two looks at the socket, at its state first and at its data afterwards, is what
   makes the step from "drained" to "closing" keep `UploadInv`.
3. `WholeInv`, for `RetrievedAlwaysWhole`: `OffsetInv`, that the server has a restart offset only where REST
   asked for one or a refused transfer may have left one, so that it is 0 for a download with `talk.rest =
   0`; `DownloadInv` says that what the peer has, what is in the stream and what is left of the file make
   the file (`Whole`), that the server ends the connection only with nothing left (`fin`), that the socket
   is closed before the connection has ended only for a download with an offset, and that the connection
   ends only when the stream is empty; `FreshInv` and `KindInv`, that an unused socket has no traffic and
   that a passive one is listened on.
Most steps change a few fields and leave a transfer where it is; these are one case (`SteadyCall`), for
which the layers are kept once and for all (`FlowSteady`, `GotSteady`), and the lemma of an action only
shows that it is one. The actions in which a transfer begins, moves data or ends have proofs of their own.
All the layers were invariants of TLC on the instance of run `FtpTransfers` before they were proved.

`FtpSessionProofs` proves `RenamesWhatWasNamed` for any number of clients, paths and commands (`Renaming`).
The invariant is `NamedInv`: while `bInRename` is set, `pcFileName` is the name of the client's latest RNFR.
It is needed because the property speaks of a step from a state in which the flag is set, and a dozen
commands write `pcFileName`. Lemma `EndsKeeps` does all of those at once: whatever a command puts there, it
clears the flag; RNFR and RNTO remain. For `ListingsComplete` the invariant is `ListInv`: the file system is
a tree (`TreeClosed`: what exists has a parent that is a directory), and of every listing (`ListingOk`) the
lines sent are those of the entries found but the last, one each, and what has been in the directory all the
time has been found or is still there to be found. At the 226 it has all been sent, but where `ff_findnext`
failed. A change by another session or task can only make "all the time" smaller (`ListingKept`), so each
command on files needs only that it leaves a tree: of these renaming a directory, with all below it, is the
one with a long proof (lemma `MovedIsChange`, a fact about the file system rather than the server).
`TypeCorrect` is the types, part of the same invariant.

`TftpProofs` proves `TftpTypeOK` (`TftpTypes`) and `FilesSound` (`FilesAreSound`). `FilesSound` says nothing
of datagrams under way, so `TftpInv` adds: `WireInv`, every acknowledgement on the wire for a client whose
writing has not failed is of a block that is in its file or is being written, and every data block is one of
its sender's file; `PeerInv`, the same of what a client has sent; `TransferInv`, the file of the present
transfer is exactly the client's first `usExpectedBlockNumber` blocks (one less while the last is being
written), and exists. A receive that failed may have left one last piece in the file of a transfer that then
is over (`ReceiveFails`), and its client is among the `unwritten`. The first two only depend on what is in
the files growing, which is stated once (`Kept`) and used for every action that does not write
(`KeptUnlessDropped`, `ServerSends`, `ClientSends`); the third makes `WriteBlock` append the right block.
That two clients never write the same file follows from `AcceptRequest`'s refusal of a file that exists.

`ProgramsProofs` proves that `Programs` implements `Tftp`'s specification (`ProgramsImplementTftp`: every
joint step is a step of `Tftp` or leaves it alone), so that its files are sound there (`ProgramsKeepFiles`),
and that main_servers never trips the assertion of the hook (`ServersAreOrdered`): `OrderInv` says that
until the worker exists either the network has not been initialised or the scheduler does not run. For the
benchmark it proves that no send finds its queue full (`BenchmarkNeverHalts`), for any number of runs,
warm-up runs and sizes: the sender of the present run is at most one operation ahead of its receiver
(`TasksInv`), what is in the queues and the notification values is exactly that operation (`ChannelsInv`),
and the main task goes on only when the receiver of its run is done (`MainInv`). `ProgramTypes` is the types
of all four modules.

Only model-checked is liveness (fairness and ENABLED are out of the prover's reach): `CallReturns`,
`SuspendedAreResumed`, `NetworkUpStartsSensor`, `RequestsAreRead`, `FtpConnectionsEnd`, `StoreEnds`,
`RetrieveEnds`, `ListEnds`, `ServersServe` and `BenchmarkEnds`.

## Findings

| run | where | what |
|---|---|---|
| `IicSynchronous` | `bsp/iic.c:145` | a notification left by a late interrupt makes the next transfer return its byte count while it is still on the bus; `iic.c:109` promises to block until the transaction ends |
| `EcuSuspend` | `demo/cyberphys/main_besspin.c:651` | a network-down event before the two tasks exist suspends the IP task, for good; the comment at :312 speaks of tasks that use sockets |
| `EcuResume` | `demo/cyberphys/main_besspin.c:320` | a network-down event between the new sockets and `vTaskResume` has the tasks resumed with sockets of the previous stack; the comment at :312 says sockets are recreated first |
| `TcpServerHttp` | `protocols/Common/FreeRTOS_TCP_server.c:203` | HTTP clients have no delete function: the socket of a deleted one stays open and in the select set; `protocols/HTTP/FreeRTOS_HTTP_server.c:291` says it is closed (in main_peekpoke; main_servers is linked with [another copy](#not-modelled)) |
| `FtpRestart` | `protocols/FTP/FreeRTOS_FTP_server.c:1733` | the restart offset is reset before it is subtracted: the last chunk of a restarted download is lost and 226 is sent; the reply at :596 announces the restart |

## Limits

- The libraries are modelled by their documented effect on the state that `src/` sees: the
  kernel's mutexes, notifications and suspension, the TCP stack's sockets, the Xilinx device.
- A step is one access to shared state, or a call of the kernel or the stack; memory is
  sequentially consistent (one hart).
- `Iic` has no spurious interrupts: handlers run only for a transfer in progress.
- `Ecu` takes `iic_receive` as a call that blocks and then succeeds or fails; `TcpServer` takes
  the protocols' work functions by their result; `FtpTransfer` takes the working cycle as calling it
  again and again; `FtpSession` takes transfers other than listings as writes of files by others.
- `Board` has the writes of the priorities and of the enable word as single accesses; two
  interrupts do not nest, as in the code.
- `ServerBoot` mounts the disk once. In a waf build of main_servers `main.c`'s `prvCreateDisk` makes one
  before, too, and the worker's takes its place.
- Some behaviours are known from reading and have no property: the raw throttle and brake values are written
  outside `data_mutex`; the scaling in `int16_t` wraps near the ends of its range; `prvSensorTask` may be
  suspended while it holds the bus mutex (it is the only user); two tasks in `htif` may overwrite each
  other's character.

## Not modelled

- Exceptions, compartments and loader: the loader library and the kernel port that switch compartments are not
  in the repository. What `prvLoader` does to the scheduler is in `Launch`.
- The HTTP server and peek/poke: sequential functions of one request; their result is in `TcpServer`.
- The command consoles of main_servers: two tasks over TCP and UDP. They share the static variables of the commands
  on files (`File-related-CLI-commands.c:358`), which is among the hazards, and the TCP console keeps an unfinished
  line, `quit` itself included, for its next session (`TCPCommandConsole.c:149`).
- The start of `demo/main_webserver.c`, which differs from main_servers in what it starts.
- NTP: no program starts it. UDP logging: nothing calls it, since `FreeRTOS_printf` is `printf`. Echo clients and
  servers: main_servers has them switched off.
- The serial port, host interface, random numbers and test device (polled registers), boot code and configuration
  (straight-line start-up; the priorities are used above), blinky and the kernel's tests, build scripts.
- `demo/servers/Common/Demo_IP_Protocols/` holds copies of the TCP and FTP servers, which are what
  main_servers is linked with (main_peekpoke has the framework and the HTTP server of `protocols/`). The
  copy of the FTP server differs in log messages and a preferred write size only, so that `FtpTransfer` and
  `FtpSession` and the finding `FtpRestart` hold for both. The copy of the framework differs in two ways
  that matter. Its HTTP clients have a delete function (`HTTP/FreeRTOS_HTTP_server.c:105`), which closes the
  socket and takes it out of the set, so its clients of either kind end as the FTP clients of `TcpServer`
  do, and the finding `TcpServerHttp` does not hold there. And after an allocation that failed
  `prvReceiveNewClient` reads `pxClient->xSocket` through the NULL pointer for a log message
  (`Common/FreeRTOS_TCP_server.c:217-221`): `RefuseNewClient` is the version of `protocols/`, which does
  not, and in the copy that step traps or reads garbage. `demo/servers/main.c` is a copy of
  main_webserver.c. Much of the source is such copies, web pages or third-party code, which is why the share
  of lines the models stand for is small.
