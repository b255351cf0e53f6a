----------------------------- MODULE BarbaServerApp -----------------------------
(***************************************************************************)
(* The tunnel server: its connections, the virtual addresses it gives them *)
(* and the threads that share them.                                        *)
(*   - The main thread runs the capture loop: a packet of a UDP or redirect*)
(*     flow is handed to its connection, which it creates if there is none;*)
(*     a packet for a virtual address is handed to the connection that has *)
(*     it.  When the driver stops, the same thread runs Dispose.           *)
(*   - A listener thread per TCP port accepts sockets and starts an answer *)
(*     thread for each.                                                    *)
(*   - An answer thread reads the request of its socket, finds or creates  *)
(*     the connection of the request's session and gives it the socket.    *)
(*   - A thread per removed TCP or HTTP connection deletes its courier     *)
(*     (module BarbaCourierStream; here it only ends, as DisposeEnds says).*)
(*                                                                         *)
(* Connections is a list with a lock of its own.  Find, Clean and          *)
(* ProcessInboundPacket hold that lock for the whole call, the main thread *)
(* while it creates a connection too.  VirtualIps has no lock: GetNewIp    *)
(* reads it in one step and writes it in the next.                         *)
(*                                                                         *)
(* A thread may use a connection another thread has deleted.  What that    *)
(* does is undefined; the model takes it as the end of the program         *)
(* (failed), so every property speaks of executions up to that point.      *)
(***************************************************************************)
EXTENDS Naturals, FiniteSets

CONSTANTS
  Request,        \* the sockets clients may connect, each carrying one request
  Session,        \* session ids of TCP and HTTP clients
  SessionOf,      \* the session a request names
  Flow,           \* what UDP and redirect connections match: client, port, session
  BadPacket,      \* an inbound packet on a tunnel port that no connection accepts
  Listener,       \* one listener thread for each TCP tunnel port
  Main,           \* the thread of the capture loop
  NoThread,       \* owner of a lock nobody holds
  NoIp,           \* the 0 GetNewIp returns when no address is free
  MaxVirtualIps,  \* number of virtual addresses
  MaxConnections  \* bound on the connections ever created

Thread == Request \cup {Main}
Key == Session \cup Flow \cup {BadPacket}
Address == 0 .. MaxVirtualIps - 1
ConnectionId == 0 .. MaxConnections

ASSUME ConstantsAssumption ==
  /\ SessionOf \in [Request -> Session]
  /\ Session \cap (Flow \cup {BadPacket}) = {}
  /\ BadPacket \notin Flow
  /\ Main \notin Request
  /\ NoThread \notin Thread
  /\ Thread \cap Nat = {}
  /\ MaxVirtualIps \in Nat \ {0}
  /\ NoIp \notin Nat
  /\ MaxConnections \in Nat

Connection == [id : ConnectionId, key : Key, ip : Address \cup {NoIp}]

VARIABLES
  Connections,               \* the list of live connections, in the order of their ids
  idle,                      \* those without traffic for longer than ConnectionTimeout
  ListLock,                  \* owner of its lock (main keeps it over several steps)
  VirtualIps,                \* is the address taken?
  CreateConnectionCS,        \* CreateConnectionCriticalSection of the TCP host
  LastConnectionId,
  pc,                        \* program counter of main and of the answer threads
  newIp,                     \* what GetNewIp returned to the thread
  newKey,                    \* whose connection main is creating
  conn,                      \* the connection pointer the thread holds, as an id
  listener,                  \* program counter of the listener threads
  accepted,                  \* the socket the listener has accepted
  listening,                 \* is the listener's socket open?
  DisposeEvent,              \* the TCP host is disposing
  AnswerSockets,             \* sockets waiting for an answer
  answerOpen,                \* those of all accepted sockets not yet closed by the host
  AnswerThreads,             \* handles of answer threads
  Threads,                   \* couriers whose deleting thread has not ended
  failed,                    \* a deleted connection has been used
  raced                      \* history: two threads were given the same address

connectionVars == <<Connections, idle, ListLock, VirtualIps, CreateConnectionCS, LastConnectionId>>
threadVars == <<pc, newIp, newKey, conn>>
listenerVars == <<listener, accepted, listening>>
hostVars == <<DisposeEvent, AnswerSockets, answerOpen, AnswerThreads>>
otherVars == <<Threads, failed, raced>>
vars == <<connectionVars, threadVars, listenerVars, hostVars, otherVars>>

CreatePC == {"scan", "mark", "add"}
AnswerPC == CreatePC \cup {"none", "read", "lock", "find", "socket", "remove", "done"}
DisposePC == {"closeListeners", "closeAnswers", "joinListeners", "joinAnswers",
              "dispose", "joinThreads", "disposed"}
MainPC == CreatePC \cup DisposePC \cup {"idle", "process", "use"}
ListenerPC == {"loop", "accept", "add", "start", "handle", "done"}

TypeOK ==
  /\ Connections \subseteq Connection
  /\ idle \subseteq {c.id : c \in Connections}
  /\ ListLock \in {Main, NoThread}
  /\ VirtualIps \in [Address -> BOOLEAN]
  /\ CreateConnectionCS \in Request \cup {NoThread}
  /\ LastConnectionId \in ConnectionId
  /\ pc \in [Thread -> AnswerPC \cup MainPC]
  /\ pc[Main] \in MainPC
  /\ \A r \in Request : pc[r] \in AnswerPC
  /\ newIp \in [Thread -> Address \cup {NoIp}]
  /\ newKey \in Flow \cup {BadPacket}
  /\ conn \in [Thread -> ConnectionId]
  /\ listener \in [Listener -> ListenerPC]
  /\ accepted \in [Listener -> Request \cup {NoThread}]
  /\ listening \in [Listener -> BOOLEAN]
  /\ DisposeEvent \in BOOLEAN
  /\ AnswerSockets \subseteq Request
  /\ answerOpen \subseteq Request
  /\ AnswerThreads \subseteq Request
  /\ Threads \subseteq ConnectionId
  /\ failed \in BOOLEAN
  /\ raced \in BOOLEAN

\* The server after Initialize and BarbaServerTcpHost::Start.
Init ==
  /\ Connections = {}
  /\ idle = {}
  /\ ListLock = NoThread
  /\ VirtualIps = [a \in Address |-> FALSE]
  /\ CreateConnectionCS = NoThread
  /\ LastConnectionId = 0
  /\ pc = [t \in Thread |-> IF t = Main THEN "idle" ELSE "none"]
  /\ newIp = [t \in Thread |-> NoIp]
  /\ newKey = BadPacket
  /\ conn = [t \in Thread |-> 0]
  /\ listener = [l \in Listener |-> "loop"]
  /\ accepted = [l \in Listener |-> NoThread]
  /\ listening = [l \in Listener |-> TRUE]
  /\ DisposeEvent = FALSE
  /\ AnswerSockets = {}
  /\ answerOpen = {}
  /\ AnswerThreads = {}
  /\ Threads = {}
  /\ failed = FALSE
  /\ raced = FALSE

Goto(t, label) == pc' = [pc EXCEPT ![t] = label]

Live(id) == \E c \in Connections : c.id = id

-----------------------------------------------------------------------------
(* BarbaServerVirtualIpManager. *)

FreeIps == {a \in Address : ~VirtualIps[a]}

\* Mutant of GetNewIp: the search may end one past the last address.
GetNewIpPastEnd ==
  IF FreeIps = {} THEN MaxVirtualIps
  ELSE CHOOSE a \in FreeIps : \A b \in FreeIps : a <= b

GetNewIp ==
  IF FreeIps = {} THEN NoIp
  ELSE CHOOSE a \in FreeIps : \A b \in FreeIps : a <= b

\* The first address is never released.
ReleaseIp(ips) ==
  VirtualIps' = [a \in Address |-> VirtualIps[a] /\ (a = 0 \/ a \notin ips)]

-----------------------------------------------------------------------------
(* BarbaConnectionManager and BarbaServerConnectionManager. *)

\* Deleting a TCP or HTTP connection starts the thread that deletes its courier.
CouriersOf(conns) == {c.id : c \in {d \in conns : d.key \in Session}}

Before(c) == {d \in Connections : d.id < c.id}

\* CleanTimeoutConnections removes the set gone: the loop runs over a copy of
\* the list, up to the length of the list, which shrinks, so that idle
\* connections at its end may not be looked at.
Cleans(gone) ==
  \A c \in Connections :
    c \in gone <=>
      /\ c.id \in idle
      /\ Cardinality(Before(c)) < Cardinality(Connections) - Cardinality(gone \cap Before(c))

\* Mutant of RemoveConnections: the base class's RemoveConnection, which does
\* not release the address of the removed connection.
RemoveConnectionsKeepingIps(gone, new) ==
  /\ Connections' = (Connections \ gone) \cup new
  /\ idle' = idle \ {c.id : c \in gone}
  /\ Threads' = Threads \cup CouriersOf(gone)
  /\ UNCHANGED VirtualIps

\* RemoveConnection for each of gone, then AddTail for new.
RemoveConnections(gone, new) ==
  /\ Connections' = (Connections \ gone) \cup new
  /\ idle' = idle \ {c.id : c \in gone}
  /\ Threads' = Threads \cup CouriersOf(gone)
  /\ ReleaseIp({c.ip : c \in gone})

\* A connection has no traffic for longer than ConnectionTimeout, a time in which
\* no thread stays between getting a connection and using it.
TimesOut(c) ==
  /\ c.id \notin idle
  /\ \A t \in Thread : pc[t] \in {"socket", "process", "use"} => conn[t] # c.id
  /\ idle' = idle \cup {c.id}
  /\ UNCHANGED <<Connections, ListLock, VirtualIps, CreateConnectionCS, LastConnectionId, threadVars,
                 listenerVars, hostVars, otherVars>>

\* SetWorkingState, for a packet the client sent: by the main thread for a flow,
\* by a courier's thread for a session.
SetWorkingState(c) ==
  /\ c.id \in idle
  /\ c.key \in Flow => pc[Main] = "idle"
  /\ idle' = idle \ {c.id}
  /\ UNCHANGED <<Connections, ListLock, VirtualIps, CreateConnectionCS, LastConnectionId, threadVars,
                 listenerVars, hostVars, otherVars>>

\* Room for one more connection within the bound.
MayCreate ==
  LastConnectionId + Cardinality({t \in Thread : pc[t] \in CreatePC}) < MaxConnections

\* Creating a connection: GetNewIp reads and then writes VirtualIps; AddConnection
\* cleans the list and appends.  Main has the list's lock, an answer thread
\* takes it for AddConnection.
CreateScan(t) ==
  /\ pc[t] = "scan"
  /\ newIp' = [newIp EXCEPT ![t] = GetNewIp]
  /\ Goto(t, "mark")
  /\ UNCHANGED <<connectionVars, newKey, conn, listenerVars, hostVars, otherVars>>

CreateMark(t) ==
  /\ pc[t] = "mark"
  /\ VirtualIps' = [a \in Address |-> VirtualIps[a] \/ a = newIp[t]]
  /\ raced' = (raced \/ (newIp[t] # NoIp /\ VirtualIps[newIp[t]]))
  /\ Goto(t, "add")
  /\ UNCHANGED <<Connections, idle, ListLock, CreateConnectionCS, LastConnectionId, newIp, newKey, conn,
                 listenerVars, hostVars, Threads, failed>>

AddConnection(t) ==
  /\ pc[t] = "add"
  /\ ListLock = (IF t = Main THEN Main ELSE NoThread)
  /\ LastConnectionId' = LastConnectionId + 1
  /\ LET new == [id |-> LastConnectionId + 1,
                 key |-> IF t = Main THEN newKey ELSE SessionOf[t],
                 ip |-> newIp[t]]
     IN  \E gone \in SUBSET Connections :
           Cleans(gone) /\ RemoveConnections(gone, {new})
  /\ conn' = [conn EXCEPT ![t] = LastConnectionId + 1]
  /\ CreateConnectionCS' = IF t = Main THEN CreateConnectionCS ELSE NoThread
  /\ Goto(t, IF t = Main THEN "process" ELSE "socket")
  /\ UNCHANGED <<ListLock, newIp, newKey, listenerVars, hostVars, failed, raced>>

CreateConnection(t) == CreateScan(t) \/ CreateMark(t) \/ AddConnection(t)

-----------------------------------------------------------------------------
(* The main thread: captured packets. *)

\* ProcessInboundPacket takes the list's lock until it returns.  When a
\* connection accepts the packet nothing changes that is modelled.
ProcessInboundPacket(key) ==
  /\ pc[Main] = "idle"
  /\ ListLock = NoThread
  /\ MayCreate
  /\ \A c \in Connections : c.key # key
  /\ ListLock' = Main
  /\ newKey' = key
  /\ Goto(Main, "scan")
  /\ UNCHANGED <<Connections, idle, VirtualIps, CreateConnectionCS, LastConnectionId, newIp, conn,
                 listenerVars, hostVars, otherVars>>

\* The new connection gets its first packet, and is removed if it refuses it.
ProcessFirstPacket ==
  /\ pc[Main] = "process"
  /\ RemoveConnections({c \in Connections : c.id = conn[Main] /\ newKey = BadPacket}, {})
  /\ ListLock' = NoThread
  /\ Goto(Main, "idle")
  /\ UNCHANGED <<CreateConnectionCS, LastConnectionId, newIp, newKey, conn, listenerVars, hostVars,
                 failed, raced>>

\* ProcessOutboundPacket: FindByVirtualIp returns the first connection with the
\* address of the packet and releases the list's lock.
FindByVirtualIp(c) ==
  /\ pc[Main] = "idle"
  /\ ListLock = NoThread
  /\ c.ip # NoIp
  /\ \A d \in Before(c) : d.ip # c.ip
  /\ conn' = [conn EXCEPT ![Main] = c.id]
  /\ Goto(Main, "use")
  /\ UNCHANGED <<connectionVars, newIp, newKey, listenerVars, hostVars, otherVars>>

ProcessOutboundPacket ==
  /\ pc[Main] = "use"
  /\ failed' = ~Live(conn[Main])
  /\ idle' = idle \ {conn[Main]}
  /\ Goto(Main, "idle")
  /\ UNCHANGED <<Connections, ListLock, VirtualIps, CreateConnectionCS, LastConnectionId, newIp, newKey, conn, listenerVars, hostVars, Threads, raced>>

-----------------------------------------------------------------------------
(* The listener threads. *)

GotoL(l, label) == listener' = [listener EXCEPT ![l] = label]

ListenerLoop(l) ==
  /\ listener[l] = "loop"
  /\ GotoL(l, IF DisposeEvent THEN "done" ELSE "accept")
  /\ listening' = [listening EXCEPT ![l] = @ /\ ~DisposeEvent]
  /\ UNCHANGED <<connectionVars, threadVars, accepted, hostVars, otherVars>>

Accept(l, r) ==
  /\ listener[l] = "accept"
  /\ listening[l]
  /\ pc[r] = "none"
  /\ \A k \in Listener : accepted[k] # r
  /\ accepted' = [accepted EXCEPT ![l] = r]
  /\ answerOpen' = answerOpen \cup {r}
  /\ GotoL(l, "add")
  /\ UNCHANGED <<connectionVars, threadVars, listening, DisposeEvent, AnswerSockets, AnswerThreads,
                 otherVars>>

\* Any error of accept ends the listener, whether the socket is closed or not.
AcceptFails(l) ==
  /\ listener[l] = "accept"
  /\ GotoL(l, "done")
  /\ listening' = [listening EXCEPT ![l] = FALSE]
  /\ UNCHANGED <<connectionVars, threadVars, accepted, hostVars, otherVars>>

AddAnswerSocket(l) ==
  /\ listener[l] = "add"
  /\ AnswerSockets' = AnswerSockets \cup {accepted[l]}
  /\ GotoL(l, "start")
  /\ UNCHANGED <<connectionVars, threadVars, accepted, listening, DisposeEvent, answerOpen,
                 AnswerThreads, otherVars>>

StartAnswerThread(l) ==
  /\ listener[l] = "start"
  /\ Goto(accepted[l], "read")
  /\ GotoL(l, "handle")
  /\ UNCHANGED <<connectionVars, newIp, newKey, conn, accepted, listening, hostVars, otherVars>>

\* AnswerThreads.AddTail, and CloseFinishedThreadHandle, whose loop may miss
\* some of the finished threads, as that of CleanTimeoutConnections does.
AddAnswerThread(l) ==
  /\ listener[l] = "handle"
  /\ \E closed \in SUBSET {r \in AnswerThreads : pc[r] = "done"} :
       AnswerThreads' = (AnswerThreads \cup {accepted[l]}) \ closed
  /\ accepted' = [accepted EXCEPT ![l] = NoThread]
  /\ GotoL(l, "loop")
  /\ UNCHANGED <<connectionVars, threadVars, listening, DisposeEvent, AnswerSockets,
                 answerOpen, otherVars>>

-----------------------------------------------------------------------------
(* The answer threads: AnswerWorker. *)

ReadHttpRequest(r) ==
  /\ pc[r] = "read"
  /\ r \in answerOpen
  /\ Goto(r, "lock")
  /\ UNCHANGED <<connectionVars, newIp, newKey, conn, listenerVars, hostVars, otherVars>>

\* Mutant of ReadHttpRequestFails: no receive timeout.
ReadHttpRequestFailsClosed(r) ==
  /\ pc[r] = "read"
  /\ r \notin answerOpen
  /\ Goto(r, "remove")
  /\ UNCHANGED <<connectionVars, newIp, newKey, conn, listenerVars, hostVars, otherVars>>

\* The socket breaks or is closed, the request has no session, or nothing is
\* received for 30 seconds.
ReadHttpRequestFails(r) ==
  /\ pc[r] = "read"
  /\ Goto(r, "remove")
  /\ UNCHANGED <<connectionVars, newIp, newKey, conn, listenerVars, hostVars, otherVars>>

AnswerLock(r) ==
  /\ pc[r] = "lock"
  /\ CreateConnectionCS = NoThread
  /\ CreateConnectionCS' = r
  /\ Goto(r, "find")
  /\ UNCHANGED <<Connections, idle, ListLock, VirtualIps, LastConnectionId, newIp, newKey, conn,
                 listenerVars, hostVars, otherVars>>

\* FindBySessionId finds a connection; the critical section is left.
FindBySessionId(r) ==
  /\ pc[r] = "find"
  /\ ListLock = NoThread
  /\ \E c \in Connections : /\ c.key = SessionOf[r]
                            /\ conn' = [conn EXCEPT ![r] = c.id]
  /\ CreateConnectionCS' = NoThread
  /\ Goto(r, "socket")
  /\ UNCHANGED <<Connections, idle, ListLock, VirtualIps, LastConnectionId, newIp, newKey, listenerVars,
                 hostVars, otherVars>>

\* Mutant of CreateTcpConnection: the critical section covers the search only.
CreateTcpConnectionUnlocked(r) ==
  /\ pc[r] = "find"
  /\ ListLock = NoThread
  /\ MayCreate
  /\ \A c \in Connections : c.key # SessionOf[r]
  /\ CreateConnectionCS' = NoThread
  /\ Goto(r, "scan")
  /\ UNCHANGED <<Connections, idle, ListLock, VirtualIps, LastConnectionId, newIp, newKey, conn,
                 listenerVars, hostVars, otherVars>>

\* It finds none: CreateTcpConnection begins, in the critical section.
CreateTcpConnection(r) ==
  /\ pc[r] = "find"
  /\ ListLock = NoThread
  /\ MayCreate
  /\ \A c \in Connections : c.key # SessionOf[r]
  /\ Goto(r, "scan")
  /\ UNCHANGED <<connectionVars, newIp, newKey, conn, listenerVars, hostVars, otherVars>>

\* It throws: the server does not accept the mode the request asks for.
CreateTcpConnectionRefuses(r) ==
  /\ pc[r] = "find"
  /\ ListLock = NoThread
  /\ \A c \in Connections : c.key # SessionOf[r]
  /\ CreateConnectionCS' = NoThread
  /\ Goto(r, "remove")
  /\ UNCHANGED <<Connections, idle, ListLock, VirtualIps, LastConnectionId, newIp, newKey, conn,
                 listenerVars, hostVars, otherVars>>

\* The connection found or created gets the socket, without any lock.
AddSocket(r) ==
  /\ pc[r] = "socket"
  /\ failed' = ~Live(conn[r])
  /\ Goto(r, "remove")
  /\ UNCHANGED <<connectionVars, newIp, newKey, conn, listenerVars, hostVars, Threads, raced>>

RemoveAnswerSocket(r) ==
  /\ pc[r] = "remove"
  /\ AnswerSockets' = AnswerSockets \ {r}
  /\ Goto(r, "done")
  /\ UNCHANGED <<connectionVars, newIp, newKey, conn, listenerVars, DisposeEvent, answerOpen,
                 AnswerThreads, otherVars>>

-----------------------------------------------------------------------------
(* Dispose, by the main thread after the capture loop: the TCP host, the    *)
(* connections, and the threads that delete couriers.                       *)

Stop ==
  /\ pc[Main] = "idle"
  /\ DisposeEvent' = TRUE
  /\ Goto(Main, "closeListeners")
  /\ UNCHANGED <<connectionVars, newIp, newKey, conn, listenerVars, AnswerSockets, answerOpen,
                 AnswerThreads, otherVars>>

CloseListenerSockets ==
  /\ pc[Main] = "closeListeners"
  /\ listening' = [l \in Listener |-> FALSE]
  /\ Goto(Main, "closeAnswers")
  /\ UNCHANGED <<connectionVars, newIp, newKey, conn, listener, accepted, hostVars, otherVars>>

CloseAnswerSockets ==
  /\ pc[Main] = "closeAnswers"
  /\ answerOpen' = answerOpen \ AnswerSockets
  /\ Goto(Main, "joinListeners")
  /\ UNCHANGED <<connectionVars, newIp, newKey, conn, listenerVars, DisposeEvent, AnswerSockets,
                 AnswerThreads, otherVars>>

\* Mutant of JoinListeners: the listener threads are not waited for, so that one
\* may still start an answer thread.
JoinListenersSkipped ==
  /\ pc[Main] = "joinListeners"
  /\ Goto(Main, "joinAnswers")
  /\ UNCHANGED <<connectionVars, newIp, newKey, conn, listenerVars, hostVars, otherVars>>

JoinListeners ==
  /\ pc[Main] = "joinListeners"
  /\ \A l \in Listener : listener[l] = "done"
  /\ Goto(Main, "joinAnswers")
  /\ UNCHANGED <<connectionVars, newIp, newKey, conn, listenerVars, hostVars, otherVars>>

JoinAnswers ==
  /\ pc[Main] = "joinAnswers"
  /\ \A r \in AnswerThreads : pc[r] = "done"
  /\ AnswerThreads' = {}
  /\ Goto(Main, "dispose")
  /\ UNCHANGED <<connectionVars, newIp, newKey, conn, listenerVars, DisposeEvent, AnswerSockets,
                 answerOpen, otherVars>>

\* ConnectionManager.Dispose removes the head of the list and deletes it,
\* keeping its address; the list is empty when it ends.
DisposeConnection(c) ==
  /\ pc[Main] = "dispose"
  /\ Before(c) = {}
  /\ Connections' = Connections \ {c}
  /\ idle' = idle \ {c.id}
  /\ Threads' = Threads \cup CouriersOf({c})
  /\ UNCHANGED <<ListLock, VirtualIps, CreateConnectionCS, LastConnectionId, threadVars,
                 listenerVars, hostVars, failed, raced>>

DisposedConnections ==
  /\ pc[Main] = "dispose"
  /\ Connections = {}
  /\ Goto(Main, "joinThreads")
  /\ UNCHANGED <<connectionVars, newIp, newKey, conn, listenerVars, hostVars, otherVars>>

CourierDeleted(id) ==
  /\ Threads' = Threads \ {id}
  /\ UNCHANGED <<connectionVars, threadVars, listenerVars, hostVars, failed, raced>>

JoinThreads ==
  /\ pc[Main] = "joinThreads"
  /\ Threads = {}
  /\ Goto(Main, "disposed")
  /\ UNCHANGED <<connectionVars, newIp, newKey, conn, listenerVars, hostVars, otherVars>>

-----------------------------------------------------------------------------

Capture ==
  \/ \E key \in Flow \cup {BadPacket} : ProcessInboundPacket(key)
  \/ \E c \in Connections : FindByVirtualIp(c)
  \/ Stop

MainStep ==
  \/ CreateConnection(Main) \/ ProcessFirstPacket \/ ProcessOutboundPacket
  \/ CloseListenerSockets \/ CloseAnswerSockets \/ JoinListeners \/ JoinAnswers
  \/ (\E c \in Connections : DisposeConnection(c)) \/ DisposedConnections
  \/ JoinThreads

ListenerWorker(l) ==
  ListenerLoop(l) \/ AddAnswerSocket(l) \/ StartAnswerThread(l) \/ AddAnswerThread(l)

AnswerWorker(r) ==
  \/ AnswerLock(r) \/ FindBySessionId(r) \/ CreateTcpConnection(r) \/ CreateConnection(r)
  \/ CreateTcpConnectionRefuses(r) \/ AddSocket(r) \/ RemoveAnswerSocket(r)

Next ==
  \/ /\ ~failed
     /\ \/ Capture \/ MainStep
        \/ \E l \in Listener : ListenerWorker(l) \/ AcceptFails(l) \/ \E r \in Request : Accept(l, r)
        \/ \E r \in Request : AnswerWorker(r) \/ ReadHttpRequest(r) \/ ReadHttpRequestFails(r)
        \/ \E c \in Connections : TimesOut(c) \/ SetWorkingState(c)
        \/ \E id \in Threads : CourierDeleted(id)
  \/ (failed \/ pc[Main] = "disposed") /\ UNCHANGED vars

Spec == Init /\ [][Next]_vars

\* The threads run.  A read ends in time, accept fails once its socket is
\* closed, and a courier's deletion ends (BarbaCourierStream!DisposeEnds).
\* Weak fairness is enough: requests and connections are finitely many, so a
\* lock is not taken for ever.  Nothing obliges clients to connect or the driver to stop.
Fairness ==
  /\ WF_vars(~failed /\ MainStep)
  /\ \A l \in Listener : /\ WF_vars(~failed /\ ListenerWorker(l))
                         /\ WF_vars(~failed /\ ~listening[l] /\ AcceptFails(l))
  /\ \A r \in Request : /\ WF_vars(~failed /\ AnswerWorker(r))
                        /\ WF_vars(~failed /\ ReadHttpRequestFails(r))
  /\ \A id \in ConnectionId : WF_vars(~failed /\ id \in Threads /\ CourierDeleted(id))

FairSpec == Spec /\ Fairness

-----------------------------------------------------------------------------
(* Properties. *)

\* Two sockets of one session never end up in two connections, however their
\* answer threads interleave with each other, with removals and with the
\* main thread: a session, and a flow, has at most one live connection.
OneConnectionPerSession ==
  \A c, d \in Connections : c.key = d.key => c = d

\* Who has an address: a connection of the list, or a thread that has taken it
\* for the connection it creates.
Owners(a) ==
  {c.id : c \in {d \in Connections : d.ip = a}}
    \cup {t \in Thread : pc[t] = "add" /\ newIp[t] = a}

\* Virtual addresses are neither shared nor lost.  As long as the main thread
\* and an answer thread were not given the same address (both read VirtualIps
\* before either wrote it), a taken address has one owner, an owned address is
\* taken, and only the first address can be taken with no owner.
AddressesAccounted ==
  ~raced /\ pc[Main] \notin DisposePC =>
    \A a \in Address :
      /\ \A o, p \in Owners(a) : o = p
      /\ Owners(a) # {} => VirtualIps[a]
      /\ VirtualIps[a] /\ a # 0 => Owners(a) # {}

\* The connections are torn down by the main thread alone: when it starts to
\* delete them no listener and no answer thread is left, and when it ends
\* there is no connection and no courier being deleted.
TornDownAlone ==
  /\ pc[Main] \in {"dispose", "joinThreads", "disposed"} =>
       /\ \A l \in Listener : listener[l] = "done"
       /\ \A r \in Request : pc[r] \in {"none", "done"}
  /\ pc[Main] = "disposed" => Connections = {} /\ Threads = {}

\* Dispose ends, also when a socket was accepted while the sockets were closed.
StopDisposes == DisposeEvent ~> (pc[Main] = "disposed" \/ failed)

-----------------------------------------------------------------------------
(* A statement of the source that a run refutes. *)

\* "add socket to HTTP connection": the connection an answer thread found or
\* created is still there when the thread gives it the socket.
AddsSocketToConnection == \A r \in Request : pc[r] = "socket" => Live(conn[r])
=============================================================================
