# BarbaTunnel: a TLA+ verification project

BarbaTunnel carries a computer's VPN traffic inside packets and connections that do not look like a
VPN: UDP packets, plain TCP connections or HTTP requests. A client and a server run the same program
on two Windows machines. A driver captures the packets to tunnel; the program wraps them, sends them
to its peer, and puts the packets it unwraps back into the network.

The program is C++ with Windows threads, events and critical sections, and has no tests. This
project models its threads, protocols and packet path where they meet each other, the network and
failures, checks them with TLC and proves what matters most with TLAPS.

## Inventory

| Component | State | Operations | Interaction and what is hard | What makes it correct |
|---|---|---|---|---|
| Filter driver (`BarbaFilterDriver`, `WinDivertFilterDriver`, `WinpkFilterDriver`) | bounded queue of captured packets, `CaptureEvent`, `StopEvent`, the driver's filter | `AddPacket`, `CaptureThread`, `ProcessCapturedPackets`, `Start`, `Stop`, `Dispose`, building of the filter | capture thread produces, main thread consumes; two events; a full queue drops; the filter must agree with what the program takes | no lost wake-up, every stop is seen, packets are handled in order, what is to be tunnelled is captured |
| Application (`BarbaApp`, `BarbaServerApp`, `BarbaClientApp`, `main`) | started, stopping, restart requested, child process | `Load`, `Initialize`, `Start`, `Stop`, `OnNewCommand`, `Dispose` | commands arrive on another thread at any time, also before `Start`; a restart overlaps two processes | one process runs, a restart goes through, `Dispose` ends |
| Command channel (`BarbaComm`, C# `BarbaComm`), service and monitor | named event, `comm.txt` | open, write a command, set the event, monitoring thread, polling for a running program | the event both carries commands and tells that a program runs; several writers | a command is noticed, at most one program runs |
| Stream courier (`BarbaCourierStream`) | list of messages, `SendEvent`, sockets, threads | `Send`, `ProcessOutgoing`, `ProcessIncoming`, `Delete`, `Dispose` | several workers share one list; writes fail; transfers have a fixed size; deletion has a thread of its own | a message is neither lost nor sent twice, no transfer is overrun, no worker sleeps while there is work |
| TCP and HTTP couriers, request modes | mode, bytes of the transfer, index of `Crypt` | `BeforeSendMessage`, `AfterSendMessage`, `SendPostReply`, `WaitForAcceptPostRequest`, `GetMessage` | both ends must agree on who speaks next, how much, and encrypted from which index, in 32 combinations of mode words | no end waits for the other for ever, what is received is what was sent |
| Datagram courier (`BarbaCourierDatagram`, UDP client and server, `PortManager`) | incomplete messages, message ids, queue of control messages, session, remembered ports | `SendData`, `SendChunkToInbound`, control messages, timeouts | loss, duplication, reordering, restart of the peer | packets are not mixed, control messages arrive |
| Server connections (`BarbaConnectionManager`, `BarbaServerConnectionManager`, `BarbaServerVirtualIpManager`) | list of connections, table of addresses | find, create, time out, remove, dispose | main thread and answer threads share both; only the list has a lock | one connection for a session, one address for a connection |
| Server TCP host (`BarbaServerTcpHost`) | listener and answer sockets and threads | `ListenerWorker`, `AnswerWorker`, `Dispose` | sockets accepted while others are being closed | no thread outlives the host |
| Connection kinds of client and server (redirect, simple UDP, courier) | addresses and ports of the peer | `ProcessPacket`, `ProcessInboundPacket`, `ProcessOutboundPacket`, `ReceiveData` | translations and encryptions of two programs must undo each other, NAT in between, timeouts and restarts | a packet arrives as it was sent, a reply reaches the one that asked |
| Packets, ports, encryption (`PacketHelper`, `BarbaCrypt`, `BarbaPortRange`, `BarbaUtils`) | - | changes of headers, checksums, packets in packets, ranges, `GetTickDiff` | network and host order, width of numbers | used as the models of the packet path |

Left aside for good: the driver bindings (`WinDivert/`, `WinpkFilter/`: third-party declarations and
their loading), the monitor's user interface, installation scripts, logging and documentation.

Every hazard that was found on the way is listed in `PROJECT.json`, at its line, with the property
that covers it or the reason why none does.

## Modules

| Module | Contents |
|---|---|
| `BarbaFilterDriver` | Capture queue, start and stop of the program, with either driver. |
| `CourierDelivery` | Abstract specification: a message waits until it is written, is written at most once, and is thrown away only after the owner deleted the courier. |
| `BarbaCourierStream` | The sending half of the stream courier: the threads that share its list. |
| `BarbaTransfer` | One connection of a stream courier from both ends, in every request mode. |
| `BarbaCourierDatagram` | The two datagram couriers of a UDP tunnel and the network between them. |
| `BarbaServerApp` | The server's connections, addresses, listener, answer and main threads. |
| `BarbaControl` | Processes, the command event and file, their callers, the Windows service. |
| `BarbaPackets` | Operators: addresses, port ranges, filters, packets in packets, encryption. |
| `BarbaRoute` | The way of a packet through both programs and back, for all connection kinds. |
| `MCBarba...` | Values for TLC, one module for a specification that needs them. |
| `BarbaFilterDriver_proofs` | All safety properties of the capture queue. |
| `BarbaCourierStream_proofs` | Types, wake-ups and transfer sizes of the stream courier. |
| `BarbaCourierDelivery_proofs` | Its messages, and that it implements `CourierDelivery`. |
| `BarbaCourierDatagram_proofs` | All safety properties of the datagram courier. |
| `BarbaServerApp_proofs` | All safety properties of the server. |
| `BarbaControl_proofs` | Types, one application at a time, a restart never blocked by its parent. |
| `BarbaTransfer_proofs` | All safety properties of a transfer, in every mode and for any sizes and messages. |
| `BarbaRoute_proofs` | All safety properties of a packet's way, in any mode and for any configuration: nothing is sent in clear, a request reaches the service as it was sent, its reply reaches the client that asked and is accepted there. |

How they fit: a captured packet passes `BarbaFilterDriver`, then the connection that takes it
(`BarbaRoute`), then a courier (`BarbaCourierStream` and `BarbaTransfer`, or `BarbaCourierDatagram`), and
on the server a connection that `BarbaServerApp` found or created. Each module takes what its neighbours show: `BarbaRoute`
processes one packet at a time, which is what `BarbaFilterDriver` guarantees (`HandledInOrder`), and takes a courier to carry
a packet whole (`NeverMixed`, `ReceivedAll`); `BarbaServerApp` takes the deletion of a courier to end, which `DisposeEnds`
of `BarbaCourierStream` shows; `BarbaFilterDriver` and `BarbaControl` share `Start` and `Stop`, the first with the threads inside
a program, the second with several programs.

### BarbaFilterDriver

The capture thread reads packets from the driver and adds them to `CapturePackets`; the main thread
runs `Start`, that is `ProcessCapturedPackets`, and then `BarbaApp::Dispose`; the command thread calls
`BarbaApp::Stop` at any time, and in debug mode so does the main thread in the middle of a packet. `Stop` is one action for
each of its effects (`StopEvent`, `CaptureEvent`, WinDivert's signal), so other threads see every state
between them. `AddPacket` and the reset of `CaptureEvent` hold the list's lock and are one action each.

`Driver` is a variable chosen once, as in the configuration file. The capture loop of WinDivert blocks in
`Recv` and is woken by the signal, a packet of the program's own that also goes through the driver's
queue (`Special`, like the packet that looks for the route). The loop of WinpkFilter waits for an event
of the driver, reads until nothing is left, and resets the event. The driver itself is external: a bounded queue
that loses what does not fit, and an event that is set when a packet arrives.

### BarbaCourierStream

The filter thread calls `Send` for every captured packet; one thread for each outgoing connection (a
worker) opens the connection and runs `ProcessOutgoing`. The variables keep the names of the code
(`Messages`, `SendEvent`, `SendEventCS`, `DisposeEvent`, `sentBytes`, `maxBytes`); the local variables of
a thread are functions of the thread (`pc`, `hand` for `messages`, `outbox` for the list it gives to
`Send`, `packet` for `includeMessages`). A message is a number and a size.

`Messages` is a list with a lock of its own that every operation takes and releases, so an action does
one operation on it, and threads interleave between any two. `Send` and the end of
`ProcessOutgoing`'s loop hold `SendEventCS`, so they are several actions with a critical section around
them: the test of the list and the reset of the event are two steps (`ResetTest`, `ResetClear`). `Dispose`
takes no lock, and its steps fall between any of those. A connection breaks at any time; a write or
a connect then fails.

### BarbaTransfer

The client opens a connection with a request, to send (POST) or to receive (GET); the server learns the
mode and the announced size from it. One end then runs `ProcessOutgoing` and the other
`ProcessIncoming`. The state of an end is a record: where it is (`pc`), the mode as it understands it, the
limit and the count of its loop, and what is left of a payload. The stream in each direction is a sequence of
items: an HTTP header with its `Content-Length`, the fake file header, a message, or a zero of the padding.
Each item carries the index `Crypt` was called with, because encryption depends on it: an item is only read as
it was sent if the reader's index is the same.

`Parse` and `ModeText` are the two directions of the conversion the client and the server make of a mode, with what the
search for a word in a text does to it: `/get` is also found in `/getpayload`. `Pack` is `ProcessOutgoingMessages` with the
limit, the minimum size and the filling with zeros. A write may fail after any part of it. `InStep` fails when
an end meets an item it takes for something else; the action that would garble it is left out, so the
model stops there and the property reports it.

A connection breaks by itself (`Breaks`, recorded in `broken`), or is reset because an end closed it with data unread (`Reset`), which is
the programs' own doing. That happens in a normal POST whose last packet `MinPacketSize` has made longer than the announced file
(`PaddingUnread`): the server reads the file, answers and closes; the zeros beyond it reset the connection, and the client may lose
the answer. `FailsOnlyWhenBroken` names this case, and shows that nothing else is lost in it and that there is no other.

### BarbaCourierDatagram

Both couriers and a network that is a set of chunks: a chunk is taken out or stays (a duplicate may
follow), in any order, or is lost. Everything of one courier runs on one thread, so the handler of a
chunk is one action that includes the timer at its start, the handling of a control message with the
chunks it sends, and the removal of old messages at its end. Whether a timer has elapsed is a choice,
since packets come at any time. A `DataControlManager` method maps a pair of the manager and the chunks
it has sent to the pair after the call; so a handler reads like the sequence of calls it is.

`Restart` is the server's courier being constructed anew, after the program restarted or the
connection was removed for being idle.

### BarbaServerApp

The main thread runs the capture loop and, when it ends, `Dispose`. Listener threads accept sockets
and start an answer thread for each. An answer thread finds or creates the connection of its session.
The list of connections has a lock that `Find...` and `CleanTimeoutConnections` hold for the
call; the main thread holds it from looking for a connection until the new connection got its first packet.
`GetNewIp` reads the table of addresses in one step and writes it in the next.

A thread may use a connection another thread has deleted. Its consequences are undefined, so the model
ends there (`failed`); the properties speak of executions up to that point. `raced` records that two
threads were given one address.

### BarbaControl

A process is `main`: it opens the command event, refuses to run when the event was there, loads and initializes
the application, starts (with the delay of `/delaystart`), and at the end creates the process of a restart suspended,
closes the event, and resumes it. Its monitoring thread waits for the event, reads the command and resets the
event: three actions, since callers write in between. A caller opens the event, writes the command,
sets the event and closes it; the window's timer opens and closes it only to see whether a program runs.
The event exists while anybody has a handle to it (`EventExists`), which is what the program and the timer test.
The service starts programs, stops them by a command, and waits for its own event. A program may crash at several points
(`StartFails`, `InitializeFails`, `MonitorCrashes`), and its handles go with it.

### BarbaPackets and BarbaRoute

A packet is a record of addresses, ports and protocol, with three things that properties ask for: how often it
was encrypted less how often decrypted, which of its checksums are right, and what it carries. Each operation of
`PacketHelper` does to them what the code does: a changed address makes both checksums wrong, a changed port that of the
transport only, `RecalculateChecksum` repairs both. Addresses have two bytes, so that network and host order
differ, and arithmetic has their width.

The actions of `BarbaRoute` follow a packet: `AppSends` (capture by the filter built in `AddClientFilters`, choice or
creation of a connection, and what its kind does), `ServerReceives` (filter, choice, translation, to the service),
`ServiceReplies`, and the way back (`ClientReceives`). Clients may have the same address, one of them behind a NAT. Either program may
be started again, and the server removes connections that were idle for long, at any moment: `CleanTimeoutConnections` looks at the time of
the last packet only, so the service may still owe an answer (`ServerTimeout`). The address is then free for another connection, and a late answer
goes to whichever has it, because `FindByVirtualIp` compares nothing else; the model does that. The history field `kept` of a request at the service says
whether its connection is still listed (`Forget` clears it), and the properties of replies speak of those. A connection keeps at most `MaxPorts` pairs of
ports (`PortManager`). The driver may refuse a long filter, and then gets the short one (`capture`).

## Runs

| Run | Shows | Instance |
|---|---|---|
| `filter_driver` | types and queue bound, no lost wake-up, order, an ended capture thread and an empty list after `Start`, no call of a deleted driver; a stop ends the program, a captured packet leaves the list | 3 packets, 2 in the driver, 2 in the list, 2 stop commands, both drivers |
| `stream_safety` | types, no lost wake-up, one place for a message, no overrun, implements `CourierDelivery`; a message is sent or the courier deleted, and `Dispose` ends | 2 workers, 2 messages of 2 and 3 bytes, transfers of 4, one failure (110,404 states) |
| `transfer` | both ends stay in step, never wait for each other, lose nothing of a complete transfer, fail only with the connection or in a normal POST longer than announced, and end together | both directions, TCP and every HTTP mode, 2 messages an end, transfers of 2 to 4, with and without a file header and a minimum packet size of 3 (114,943 states) |
| `datagram_safety` | types, packets are not mixed, chunks are counted once | packets of 2 and 3 chunks down, one up, 3 chunks under way, one restart, room for 1 incomplete message (539,124 states) |
| `datagram_liveness` | the settings reach the server | one packet each way, 2 control messages a side, 6 chunks under way |
| `server_safety` | types, one connection for a session, addresses accounted for, teardown undisturbed; a stop disposes | 2 sockets of one session, one flow, a refused packet, 2 addresses, 3 connections, one listener (987,727 states) |
| `control` | types, one application at a time, a parent never blocks its restart; a stop ends, a command is noticed | 2 processes; the window with 2 commands, or the service with one stop (332,572 states) |
| `route` | types, nothing in clear, packets arrive intact, the reply of a connection that is still listed reaches the client that asked and is accepted there | 2 clients of the same address, one behind a NAT; 5 flows, 6 configurations of all modes; 2 requests and 2 restarts, or 3 requests of two of the flows (686,268 states) |
| `server_add_socket` | refuted: the connection found is there when it gets its socket | as `server_safety` |
| `control_restart` | refuted: a restarted program is refused only for another program | 2 processes |
| `transfer_tcp` | refuted: an error means that the connection was rejected or broke | as `transfer`, TCP |
| `route_range` | refuted: every address given out is captured | a range of two addresses |

Bounds, and why they are enough to show the interesting cases:

- `filter_driver`: three packets fill the list, make `AddPacket` drop, and fill the driver's queue so that the signal of a
  stop is lost. Two commands let a second one come while the first is in `Stop` or the program disposes.
- `stream_safety`: two workers and the filter thread give every pair of threads that compete for the list, and a worker
  that fails while another succeeds. The sizes are such that two messages never fit together in a transfer of
  4, so one is excluded and brought back. With a minimum packet size liveness has an easier case, since transfers
  fill up sooner; safety for every minimum is proved. Failures are bounded because the
  liveness of the code depends on connections that work in the end.
- `transfer`: of the mode's words, the configurations have each alone, those that payloads need, and all. Two messages an end let
  one be in a packet and one left over, and an answer carry one, two or none. A minimum size of 3 makes the packet of
  one message overshoot a transfer of 2.
- `datagram_safety`: `MaxInFlight` bounds the set of chunks; since a chunk may always be lost, it defers behaviours and cuts
  off none that a longer run of losses would not reach. Two packets of several chunks are
  what a mixture needs. `MaxControls` bounds the queue of a side that never gets an acknowledgement it
  accepts; `MaxId` bounds the ids. The safety properties are proved without these bounds.
- `server_safety`: the two sockets of one session race for a connection, the flow and the refused packet race with
  them for addresses, and three connections are enough for one to be idle, one to be removed and
  one to be created.
- `control`: a restart has two processes at a time. Two commands of the window let one arrive while the program obeys the other.
- `route`: the behaviours are bounded by `Workloads`. Two clients are needed to confuse them, two requests to let a later one change what an earlier
  one left (ports, connections), two restarts for each program to have one. Since the first address of the range is never released, it takes a third
  request for a connection to time out with its answer due and another client to get its address; without the history field `kept`, `AnswersRightClient`
  fails in this run by exactly that. With a port range of one and `MaxPorts` of one, ports are reused at once.

`CHECK_DEADLOCK FALSE` stands in the runs where nothing needs to happen in the end: `filter_driver` (the threads wait for
traffic or a command), the datagram runs (every packet sent, every chunk lost), `control` (no command left
to send), the transfer runs (both ends have finished), the route runs (no more requests in `Workloads`). The other models have an explicit final state.

## Fairness

- Filter driver: weak fairness for each thread. None for packets, commands or failures: a stop
  completes without any further packet. That `Recv` fails is not part of the thread that runs, so that a
  blocked `Recv` is only left when there is a packet. Sending the signal is taken to succeed (a failure throws, see
  the hazards).
- Stream: weak fairness for each thread's steps, as the scheduler of the operating system runs
  every thread, and strong fairness for entering `SendEventCS`, which Windows gives to every thread
  that keeps waiting. No fairness for the filter thread's sending, for `Delete`, or for
  failures.
- Transfer: weak fairness for the thread of each end, and for its reading. None for new messages or failures.
- Datagram: packets of one chunk keep being sent in both directions with elapsed timers (the timers are
  only looked at when there is traffic), and a control message that is sent again and again arrives
  in the end. Acknowledgements may all be lost.
- Server: weak fairness for each thread. A read ends (a receive timeout of 30 seconds), `accept` fails once
  its socket is closed, and a courier's deletion ends, which `DisposeEnds` shows for the stream courier.
- Control: weak fairness for the main and the monitoring thread of each program and for a call that has begun. None for new
  commands, crashes or the service.

## Proofs

All theorems hold for every value of the constants that the module's assumptions allow: any sets
of workers, messages, packets, clients, flows and configurations, any sizes of queues and transfers, any number of processes.

`BarbaFilterDriver_proofs`:

- `TypeCorrect`: `TypeInv` adds that a thread holds a packet where it uses one, and that signals only occur
  in WinDivert's queue. The bound of the list follows although `AddPacket` tests for equality.
- `WakeupCorrect`, `StopsCapturingCorrect`, `NothingLeftCorrect`, `OutlivesCorrect`: `SafetyInv` is the
  conjunction of `SetWhileFilled` (the event is set whenever the list is not empty), `LastPacket` (a
  capture thread that added a packet after the stop is on its way out), `Joined` (the capture thread ended before the
  last emptying) and `CallersGone` (no call of `Stop` after the command thread ended).
- `OrderCorrect`: `OrderInv` orders all places a packet passes: what is handled arrived before what the main
  thread has taken, that before the list, that before what the capture thread has read, that before
  the driver's queue, and each queue is in order itself.

`BarbaCourierStream_proofs` and `BarbaCourierDelivery_proofs`:

- `TypeCorrect`: `TypeOK` is inductive.
- `WakeupCorrect`: `NoLostWakeup` is not inductive. `WakeupInv` adds `CriticalSection` (a thread at a
  label inside the critical section owns it) and `ClearWhileEmpty` (at `clear` the list is
  empty: only the owner of the critical section appends, and it is the worker at `clear`).
- `OverrunCorrect`: `NoOverrun` speaks of three labels. `OverrunInv` adds what each label of
  `ProcessOutgoing` knows about `sentBytes`: the loop is only entered with room in the
  transfer, and a worker on its way through `Send` (`return` says where it is going) keeps its
  packet within that room.
- `PlaceCorrect`: `PlaceInv` adds to `OnePlace` which of a thread's lists are empty at which label, and
  that fresh messages were never sent.
- `DeliveryCorrect`: the initial state maps to the initial state, and each step to a step of
  `CourierDelivery` or a stutter: `SendBegin` to `Accept`, `Transmit` to `Transmit` (a packet of zeros to a
  stutter), `SendDiscards` and `DisposeDrain` to `Discard`, `Delete` to `Delete`. `PlaceInv` is what makes
  the mapped status of a message change only where it should.

`BarbaCourierDatagram_proofs`:

- `TypeCorrect` and `CollectsCorrect`: `CollectInv` types every variable and says of each list that it is
  finite and within its limit (`ListOK`), has one message for an id, and that a message (`IsIncomplete`) counts exactly the chunks it
  holds and has some, but not all. `AddChunkType`, `StoreType` and their neighbours carry it through the
  handling of one chunk; the facts about cardinality come from the library.
- `MixedCorrect`: `NeverMixed` needs that an id other than 0 stands for one packet. `Consistent` says so of the chunks under way and
  of every incomplete message, as long as the server did not restart, and that ids given are at most `LastMessageId`
  of the sender, so that the next id is new. A chunk of id 0 completes its message at once and is never stored.

`BarbaServerApp_proofs`:

- `TypeCorrect`: `TypeInv` adds to the types `SerialInv` (an answer thread is alone in the critical section, main alone with
  the list's lock), `AcceptInv` (a socket is accepted by one listener, and its thread is not running before the listener
  starts it) and `BoundInv` (room for every connection being created). `ControlStep` proves the part about program
  counters and locks by itself; the other invariants use it through what a step that begins a creation, ends one or does
  neither has in common (`BeginFacts`, `EndFacts`, `RestFacts`).
- `OneConnectionCorrect`: `KeyInv` adds that no connection has the key that a thread is creating one for. `SerialInv` keeps
  other answer threads away from it; main's keys are of flows, never of sessions.
- `AddressesCorrect`: `AddressInv` adds that connection ids are unique and at most `LastConnectionId`, so that a removed
  connection was the only owner of the address it releases. An address that is marked had no owner, or the step is a race.
- `TornDownCorrect`: `JoinInv` adds that a running answer thread has its handle in `AnswerThreads`, or its listener is about to put
  it there: so `JoinAnswers` waits for all of them because `JoinListeners` came before.

`BarbaControl_proofs`:

- `TypeCorrect`: `TypeOK` is inductive.
- `OwnerCorrect`: `OwnerInv` says that at most one process owns the event, where an owner is one that runs an application or
  has opened the event without finding it: a later one finds the event, because owners keep it open.
- `ParentCorrect`: `ChildInv` says that the process created for a restart is suspended until its parent has ended, and has
  no other parent.

`BarbaTransfer_proofs`:

- The stream does not say where a packet begins or ends, nor who speaks next; each end knows it from its own counters. `TransferInv`
  therefore gives each end a position in the stream it reads (`At`: what it expects next, what is left of a payload, the
  index of `Crypt`, the number of messages it got), says which item may lie at a position and to which one it leads (`Takes`), and keeps `Linked`: whatever
  lies before an end can be read from its position on, up to the position the other end has written to. If a write failed it is a
  part of that; if the connection was reset the rest is gone.
- `InStepCorrect`: the first item is one that the position admits.
- `NoMutualWaitCorrect`: an end waits only at an empty stream, and by `Linked` its position is then that of the writer. `ReplyInv` says that a
  sender waiting for an answer has been answered or the other end still has something to read; `TurnsInv` that packets and
  answers take turns where an answer follows each packet; `OpeningInv` who speaks first.
- `ReceivedAllCorrect` and `FailsOnlyWhenBrokenCorrect`: `DoneInv` says that an end is done only with the other one at the last
  byte, so that nobody reads from a stream the other has closed. A minimum packet size may carry both counts beyond the announced size together. The receiver of a
  normal POST stops at the file's end instead: `UnreadInv` says that what it leaves unread when it closes is then the padding of a packet longer than announced,
  and that a sender closes with nothing unread, for which `OneHeaderInv` bounds what a sender without answers has to read by one header.
- `Pack` goes through the messages with recursive functions (`Sums`, `Fit`). What the proof needs of them (the messages that fit have the size `Sums` gives and stay within
  the limit) is proved by induction in the form of a set of numbers that contains 0 and successors (`SetInduction`, from the well-founded order
  of the naturals).

`BarbaRoute_proofs`:

- `InClearCorrect`: three facts about operators and one invariant. `GrabbedIsCaptured`: what a configuration grabs passes the filter
  built from it, in each of its forms. `GrabbedIsTaken`: it is then taken by a connection of the
  configuration's mode, an old one or a new one. Each mode encrypts what it sends, except the simple tunnel a packet that is too large.
  `ClearInv` states of all packets under way what `NothingInClear` needs of requests.
- `IntactCorrect`: `ArriveInv` says of a request under way that it is encrypted and on a tunnel port if the mode redirects,
  and is carried as the application sent it otherwise; what is at the service already is intact. `RedirectIsTaken`: the server's filter and
  `IsServerConfigForInboundPacket` accept what a redirect sends; without this the packet would go to the service encrypted.
  `ToServiceIntact`: decryption and translation undo what the client did. The module assumes that the server's
  configuration gives `ServerAddress` as `*` (0, any address) or as its own address (`BarbaConfig.cpp:52-69`).
- `RouteTypeCorrect` and `AnswersCorrect`: `OwnersInv`, inductive together with `ArriveInv`, says at each place of a packet's way whose it is.
  `ClientsInv`: what is in a client's list is of this client and this run. `NetInv`: each packet under way is a request
  or a reply, inside the tunnel or outside, with the address, port and session of the client it is from or for (`OuterIp`, `OuterPort`: as the
  network sees them). `ConnectionsInv`: each of the server's connections belongs to one client, and no two have the same virtual address. `PendingInv`: a request waiting at the service that
  is `kept` has its connection in the list, with its address and its client (`Served`); a connection that is removed, for being idle or with the server, keeps none
  (`Forgotten`), so nothing has to hold back a timeout. `GotInv`: what an application got is its own and valid. By `Apart` no two connections
  share the address, so the one `FindByVirtualIp` finds is that of the request.
- `RepliesCorrect`: `MatchInv` says that the ports and the session of each packet in the tunnel, and of each of the server's
  connections, are those of a connection in the client's list, as long as that client was not started again. Lists only grow while it
  runs (`Grown`), so this survives all other steps. The one exception is an application that itself talks to a tunnel port of a redirect (`Direct`).

The way back rests on two assumptions. `AddressAssumption`: clients differ in their
address or, behind the NAT, in their place there; virtual addresses are not those of clients or of the server, which the
administrator who chooses the range has to see to; and the model's NAT gives each client a hundred ports, so ports are below that number (a real NAT has a
table instead, and never gives two clients the same port). `TunnelPortsApart`: with a redirect, no application talks to a tunnel port from a port
that also has redirected packets. The program cannot tell such a packet from its own: the server would take it for one.

`OwnersInv`, `MatchInv` and the parts of `TransferInv` about what the ends know of each other (`SenderInv`, `ReceiverInv`, `OpeningInv`, `OrderInv`,
`ReplyInv`, `TurnsInv`, `DoneInv`, `UnreadInv`) were checked by TLC on small instances before they were proved.

Every safety invariant a passing run checks is proved, and so is the refinement of `CourierDelivery`. Only model-checked: the
liveness properties (`StopCompletes`, `CapturedIsTaken`, `EventuallySent`, `DisposeEnds`, `BothEnd`, `EventuallyConfigured`,
`StopDisposes`, `StopEnds`, `SignalIsTaken`), since fairness and `ENABLED` are out of the prover's reach, and what the runs refute.

## What the checks found

Refuted by a run:

- `server_add_socket`: an answer thread uses a connection without a lock; another thread may have
  deleted it for being idle.
- `control_restart`: the monitor's poll holds the event that stands for a running program, so the process of a restart may end
  because of it although no program runs.
- `transfer_tcp`: a TCP client announces a random transfer size and counts to the maximum. The server closes first, the client's
  write fails, and what it wrote last is lost.
- `route_range`: the size of the range of virtual addresses subtracts a number in network order, so addresses beyond the range are given
  out, and their packets are not captured.

Met while modelling; the models do what the code does, and no line of the repository states the contrary of what a run would show, or the
properties name the exception:

- Messages brought back to the list are in reverse order (`Transmit`), and `Send` may add messages to a list `Dispose` has emptied; they leak.
- A duplicate of control message 0 is accepted at any time and lowers the last received id. `LastSentId` is never assigned:
  acknowledgements of later ids are ignored, and the second control message of a side is resent until the connection ends.
- WinpkFilter's capture loop resets the driver's event after a read that found nothing, so a packet that arrives in between
  waits in the driver for the next one.
- Without `/post`, one answer is sent for each message of a packet and one read for each packet (`OneAnswerEach`).
- Port and address ranges: the filter's bounds are compared in network order, so of a range whose end is smaller in that order only
  the first address is captured; a range from 128.0.0.0 on gives no address at all, as the numbers are signed. The first address is never released.
- A configuration that grabs the courier's own connections makes a loop (`NoSelfGrab` excludes it).
- A redirect client that uses the short filter grabs every protocol on the real port.
- The UDP server takes a message as long as a keep-alive for one when it is *not* one: the result of `memcmp` is not compared to 0.
- A connection times out although the service still owes it an answer. The answer is then dropped or, when the address was given out again, sent to the
  client that has it now (exception in `AnswersRightClient` and `RepliesAccepted`: the connection is no longer listed).
- In a normal POST the server may leave padding unread and reset the connection, so that the client loses the answer and takes a finished transfer for a
  rejected one (exception `PaddingUnread` in `FailsOnlyWhenBroken`; against the comment at `BarbaCourierHttpClient.cpp:358-359`, like what `transfer_tcp` shows of TCP).
- Both threads that create a connection at a time may get the same address (`raced`); a packet too long for the simple tunnel leaves in clear (`TooLarge`); after a
  restart of the sender chunks of two packets may be put together. The properties except these cases.
- A rest of 2000 bytes and more that is too short for the next message is not filled, and the worker brings the message back for ever; the sizes of `stream_safety` are below that.
- The tunnel port a server remembers is stale after its client restarted (exception in `RepliesAccepted`).
- A command that is written between the monitoring thread's reading and its reset of the event is lost; so is a stop
  during the start's delay.
- `GetTickDiff` is short by one when the clock wraps.

## Not modelled

- The driver bindings, `WinpkFilter`'s static filters, adapters and interface indices: declarations and platform calls without state of this
  program.
- The arithmetic of checksums and of the cipher, Base64, the wording of HTTP headers and the reading of configuration
  files. The models have what these do: valid or not, encrypted with which index, which mode.
- `Sockets_Add`'s eviction of the oldest socket and the keep-alive threads: their hazards are listed, but need threads and socket
  lists that would make `BarbaCourierStream` too large to check.
- The server's routes and the measurement of the MTU on the client, logging and statistics, the monitor's user interface, installation scripts.

## Plan

The plan's modules are written and their safety is proved. What would come next: a module of the server's courier with its socket
lists (eviction at `MaxConnections`, an answer thread that adds its socket to a courier being disposed), whose hazards are listed
without a property, and the proof that each socket has one owner.
