------------------------- MODULE BarbaServerApp_proofs -------------------------
(***************************************************************************)
(* The safety properties of BarbaServerApp, for any number of sockets,     *)
(* sessions, flows, listeners and addresses.                               *)
(***************************************************************************)
EXTENDS BarbaServerApp, FiniteSetTheorems, WellFoundedInduction, TLAPS

\* The threads that create a connection.
Creating == {t \in Thread : pc[t] \in CreatePC}

\* An answer thread is alone in the critical section, the main thread alone with
\* the list's lock.
SerialInv ==
  /\ \A r \in Request : CreateConnectionCS = r <=> pc[r] \in CreatePC \cup {"find"}
  /\ ListLock = Main <=> pc[Main] \in CreatePC \cup {"process"}

\* A listener has accepted a socket whose thread it has not started yet.
AcceptInv ==
  /\ \A l \in Listener :
       /\ accepted[l] \in Request <=> listener[l] \in {"add", "start", "handle"}
       /\ listener[l] \in {"add", "start"} => pc[accepted[l]] = "none"
  /\ \A k, l \in Listener : accepted[k] = accepted[l] /\ accepted[l] \in Request => k = l

\* Room is kept for the connections being created.
BoundInv ==
  /\ IsFiniteSet(Creating)
  /\ LastConnectionId + Cardinality(Creating) <= MaxConnections

TypeInv == TypeOK /\ SerialInv /\ AcceptInv /\ BoundInv

\* Everything but the program counters.
OtherTypes ==
  /\ Connections \subseteq Connection
  /\ idle \subseteq {c.id : c \in Connections}
  /\ VirtualIps \in [Address -> BOOLEAN]
  /\ LastConnectionId \in ConnectionId
  /\ newIp \in [Thread -> Address \cup {NoIp}]
  /\ newKey \in Flow \cup {BadPacket}
  /\ conn \in [Thread -> ConnectionId]
  /\ listening \in [Listener -> BOOLEAN]
  /\ DisposeEvent \in BOOLEAN
  /\ AnswerSockets \subseteq Request
  /\ answerOpen \subseteq Request
  /\ AnswerThreads \subseteq Request
  /\ Threads \subseteq ConnectionId
  /\ failed \in BOOLEAN
  /\ raced \in BOOLEAN

ControlTypes ==
  /\ ListLock \in {Main, NoThread}
  /\ CreateConnectionCS \in Request \cup {NoThread}
  /\ pc \in [Thread -> AnswerPC \cup MainPC]
  /\ pc[Main] \in MainPC
  /\ \A r \in Request : pc[r] \in AnswerPC
  /\ listener \in [Listener -> ListenerPC]
  /\ accepted \in [Listener -> Request \cup {NoThread}]

LEMMA ThreadFacts ==
  /\ Main \in Thread /\ Main \notin Request /\ Request \subseteq Thread
  /\ \A t \in Thread : t = Main \/ t \in Request
  /\ NoThread \notin Thread /\ NoThread \notin Request /\ NoThread # Main
BY ConstantsAssumption DEF Thread

\* What Goto does.
LEMMA GotoFacts ==
  ASSUME ControlTypes, NEW t \in Thread, NEW label, Goto(t, label),
         IF t = Main THEN label \in MainPC ELSE label \in AnswerPC
  PROVE  /\ pc' \in [Thread -> AnswerPC \cup MainPC]
         /\ pc'[Main] \in MainPC
         /\ \A r \in Request : pc'[r] \in AnswerPC
         /\ pc'[t] = label
         /\ \A u \in Thread \ {t} : pc'[u] = pc[u]
BY ThreadFacts DEF ControlTypes, Goto

-----------------------------------------------------------------------------
(* Control: program counters and locks. *)

Section == CreatePC \cup {"find"}

ControlInv == ControlTypes /\ SerialInv /\ AcceptInv

\* An answer thread goes on, keeps, enters or leaves the critical section.
LEMMA AnswerMoves ==
  ASSUME ControlInv, NEW r \in Request, NEW label \in AnswerPC \ {"none"}, Goto(r, label),
         pc[r] # "none", UNCHANGED <<ListLock, listener, accepted>>,
         \/ UNCHANGED CreateConnectionCS /\ (pc[r] \in Section <=> label \in Section)
         \/ CreateConnectionCS = NoThread /\ CreateConnectionCS' = r /\ label \in Section
         \/ pc[r] \in Section /\ CreateConnectionCS' = NoThread /\ label \notin Section
  PROVE  ControlInv'
<1>1. r \in Thread /\ r # Main
  BY ThreadFacts
<1>2. /\ pc' \in [Thread -> AnswerPC \cup MainPC]
      /\ pc'[Main] \in MainPC
      /\ \A q \in Request : pc'[q] \in AnswerPC
      /\ pc'[r] = label
      /\ \A u \in Thread \ {r} : pc'[u] = pc[u]
  BY <1>1, GotoFacts DEF ControlInv
<1>3. \A q \in Request : q # r => pc'[q] = pc[q]
  BY <1>2, ThreadFacts
<1>4. pc'[Main] = pc[Main]
  BY <1>1, <1>2, ThreadFacts
<1>5. ControlTypes'
  BY <1>2, ThreadFacts DEF ControlInv, ControlTypes
<1>6. \A q \in Request : CreateConnectionCS' = q <=> pc'[q] \in Section
  <2> SUFFICES ASSUME NEW q \in Request
               PROVE  CreateConnectionCS' = q <=> pc'[q] \in Section
    OBVIOUS
  <2>1. \A u \in Request : CreateConnectionCS = u <=> pc[u] \in Section
    BY DEF ControlInv, SerialInv, Section
  <2>2. NoThread # q /\ NoThread # r
    BY ThreadFacts
  <2>3. CASE UNCHANGED CreateConnectionCS /\ (pc[r] \in Section <=> label \in Section)
    BY <1>2, <1>3, <2>1, <2>3
  <2>4. CASE CreateConnectionCS = NoThread /\ CreateConnectionCS' = r /\ label \in Section
    BY <1>2, <1>3, <2>1, <2>2, <2>4
  <2>5. CASE pc[r] \in Section /\ CreateConnectionCS' = NoThread /\ label \notin Section
    BY <1>2, <1>3, <2>1, <2>2, <2>5
  <2> QED
    BY <2>3, <2>4, <2>5
<1>7. SerialInv'
  BY <1>4, <1>6 DEF ControlInv, SerialInv, Section
<1>8. AcceptInv'
  <2>1. ASSUME NEW l \in Listener, listener[l] \in {"add", "start"}
        PROVE  pc'[accepted[l]] = "none"
    <3>1. accepted[l] \in Request /\ pc[accepted[l]] = "none"
      BY <2>1 DEF ControlInv, AcceptInv
    <3> QED
      BY <1>3, <3>1
  <2> QED
    BY <2>1 DEF ControlInv, AcceptInv
<1> QED
  BY <1>5, <1>7, <1>8 DEF ControlInv

\* The main thread goes on, with or without the list's lock.
LEMMA MainMoves ==
  ASSUME ControlInv, NEW label \in MainPC, Goto(Main, label),
         UNCHANGED <<CreateConnectionCS, listener, accepted>>,
         ListLock' \in {Main, NoThread},
         ListLock' = Main <=> label \in CreatePC \cup {"process"}
  PROVE  ControlInv'
<1>1. Main \in Thread
  BY ThreadFacts
<1>2. /\ pc' \in [Thread -> AnswerPC \cup MainPC]
      /\ pc'[Main] \in MainPC
      /\ \A q \in Request : pc'[q] \in AnswerPC
      /\ pc'[Main] = label
      /\ \A u \in Thread \ {Main} : pc'[u] = pc[u]
  BY <1>1, GotoFacts DEF ControlInv
<1>3. \A q \in Request : pc'[q] = pc[q]
  BY <1>2, ThreadFacts
<1>4. ControlTypes'
  BY <1>2 DEF ControlInv, ControlTypes
<1>5. SerialInv'
  BY <1>2, <1>3 DEF ControlInv, SerialInv
<1>6. AcceptInv'
  BY <1>3 DEF ControlInv, AcceptInv
<1> QED
  BY <1>4, <1>5, <1>6 DEF ControlInv

LEMMA ListenerControl ==
  ASSUME ControlInv, NEW l \in Listener,
         \/ ListenerLoop(l) \/ AcceptFails(l) \/ AddAnswerSocket(l) \/ AddAnswerThread(l)
         \/ \E r \in Request : Accept(l, r)
  PROVE  ControlInv'
<1>1. UNCHANGED <<ListLock, CreateConnectionCS, pc>>
  BY DEF ListenerLoop, AcceptFails, AddAnswerSocket, AddAnswerThread, Accept, connectionVars,
         threadVars
<1>2. SerialInv'
  BY <1>1 DEF ControlInv, SerialInv
<1>3. listener \in [Listener -> ListenerPC] /\ accepted \in [Listener -> Request \cup {NoThread}]
  BY DEF ControlInv, ControlTypes
<1>4. CASE \/ ListenerLoop(l) \/ AcceptFails(l) \/ AddAnswerSocket(l)
  <2>1. PICK label \in ListenerPC :
          /\ listener' = [listener EXCEPT ![l] = label]
          /\ accepted' = accepted
          /\ \/ listener[l] \in {"loop", "accept"} /\ label \in {"accept", "done"}
             \/ listener[l] = "add" /\ label = "start"
    <3>1. CASE ListenerLoop(l)
      BY <3>1 DEF ListenerLoop, GotoL, ListenerPC
    <3>2. CASE AcceptFails(l)
      BY <3>2 DEF AcceptFails, GotoL, ListenerPC
    <3>3. CASE AddAnswerSocket(l)
      BY <3>3 DEF AddAnswerSocket, GotoL, ListenerPC
    <3> QED
      BY <1>4, <3>1, <3>2, <3>3
  <2>2. /\ listener' \in [Listener -> ListenerPC] /\ listener'[l] = label
        /\ \A k \in Listener : k # l => listener'[k] = listener[k]
    BY <1>3, <2>1
  <2>3. AcceptInv'
    BY <1>1, <2>1, <2>2 DEF ControlInv, AcceptInv
  <2> QED
    BY <1>1, <1>2, <2>1, <2>2, <2>3 DEF ControlInv, ControlTypes
<1>5. CASE AddAnswerThread(l)
  <2>1. /\ listener[l] = "handle"
        /\ accepted' = [accepted EXCEPT ![l] = NoThread]
        /\ listener' = [listener EXCEPT ![l] = "loop"]
    BY <1>5 DEF AddAnswerThread, GotoL
  <2>2. /\ listener' \in [Listener -> ListenerPC] /\ listener'[l] = "loop"
        /\ accepted' \in [Listener -> Request \cup {NoThread}] /\ accepted'[l] = NoThread
        /\ \A k \in Listener : k # l => listener'[k] = listener[k] /\ accepted'[k] = accepted[k]
    BY <1>3, <2>1 DEF ListenerPC
  <2>3. AcceptInv'
    BY <1>1, <2>1, <2>2, ThreadFacts DEF ControlInv, AcceptInv
  <2> QED
    BY <1>1, <1>2, <2>2, <2>3 DEF ControlInv, ControlTypes
<1>6. CASE \E r \in Request : Accept(l, r)
  <2>1. PICK r \in Request : Accept(l, r)
    BY <1>6
  <2>2. /\ listener[l] = "accept" /\ pc[r] = "none" /\ \A k \in Listener : accepted[k] # r
        /\ accepted' = [accepted EXCEPT ![l] = r]
        /\ listener' = [listener EXCEPT ![l] = "add"]
    BY <2>1 DEF Accept, GotoL
  <2>3. /\ listener' \in [Listener -> ListenerPC] /\ listener'[l] = "add"
        /\ accepted' \in [Listener -> Request \cup {NoThread}] /\ accepted'[l] = r
        /\ \A k \in Listener : k # l => listener'[k] = listener[k] /\ accepted'[k] = accepted[k]
    BY <1>3, <2>2 DEF ListenerPC
  <2>4. AcceptInv'
    BY <1>1, <2>2, <2>3 DEF ControlInv, AcceptInv
  <2> QED
    BY <1>1, <1>2, <2>3, <2>4 DEF ControlInv, ControlTypes
<1> QED
  BY <1>4, <1>5, <1>6

LEMMA StartControl ==
  ASSUME ControlInv, NEW l \in Listener, StartAnswerThread(l)
  PROVE  /\ ControlInv'
         /\ accepted[l] \in Request /\ pc[accepted[l]] = "none" /\ pc'[accepted[l]] = "read"
         /\ \A u \in Thread : u # accepted[l] => pc'[u] = pc[u]
<1>1. /\ listener[l] = "start" /\ accepted[l] \in Request /\ pc[accepted[l]] = "none"
      /\ Goto(accepted[l], "read") /\ listener' = [listener EXCEPT ![l] = "handle"]
      /\ UNCHANGED <<ListLock, CreateConnectionCS, accepted>>
  BY DEF StartAnswerThread, GotoL, connectionVars, ControlInv, AcceptInv
<1>2. accepted[l] \in Thread /\ accepted[l] # Main
  BY <1>1, ThreadFacts
<1>3. /\ pc' \in [Thread -> AnswerPC \cup MainPC]
      /\ pc'[Main] \in MainPC
      /\ \A q \in Request : pc'[q] \in AnswerPC
      /\ pc'[accepted[l]] = "read"
      /\ \A u \in Thread \ {accepted[l]} : pc'[u] = pc[u]
  <2>1. "read" \in AnswerPC
    BY DEF AnswerPC
  <2> QED
    BY <1>1, <1>2, <2>1, GotoFacts DEF ControlInv
<1>4. /\ listener' \in [Listener -> ListenerPC] /\ listener'[l] = "handle"
      /\ \A k \in Listener : k # l => listener'[k] = listener[k]
  BY <1>1 DEF ControlInv, ControlTypes, ListenerPC
<1>5. ControlTypes'
  BY <1>1, <1>3, <1>4 DEF ControlInv, ControlTypes
<1>6. SerialInv'
  <2>1. \A q \in Request : pc'[q] \in CreatePC \cup {"find"} <=> pc[q] \in CreatePC \cup {"find"}
    BY <1>1, <1>3, ThreadFacts DEF CreatePC
  <2>2. pc'[Main] = pc[Main]
    BY <1>2, <1>3, ThreadFacts
  <2> QED
    BY <1>1, <2>1, <2>2 DEF ControlInv, SerialInv
<1>7. AcceptInv'
  <2>1. \A k \in Listener : k # l /\ accepted[k] \in Request => pc'[accepted[k]] = pc[accepted[k]]
    BY <1>1, <1>3, ThreadFacts DEF ControlInv, AcceptInv
  <2> QED
    BY <1>1, <1>4, <2>1 DEF ControlInv, AcceptInv
<1> QED
  BY <1>1, <1>3, <1>5, <1>6, <1>7 DEF ControlInv

LEMMA Labels ==
  /\ AnswerPC = {"scan", "mark", "add", "none", "read", "lock", "find", "socket", "remove", "done"}
  /\ MainPC = {"scan", "mark", "add", "closeListeners", "closeAnswers", "joinListeners",
               "joinAnswers", "dispose", "joinThreads", "disposed", "idle", "process", "use"}
  /\ Section = {"scan", "mark", "add", "find"}
BY DEF AnswerPC, MainPC, CreatePC, DisposePC, Section

LEMMA AnswerControl ==
  ASSUME ControlInv, NEW r \in Request,
         AnswerWorker(r) \/ ReadHttpRequest(r) \/ ReadHttpRequestFails(r)
  PROVE  ControlInv'
<1>0. r # Main /\ r \in Thread
  BY ThreadFacts
<1>1. CASE \/ CreateScan(r) \/ CreateMark(r) \/ ReadHttpRequest(r) \/ ReadHttpRequestFails(r)
           \/ CreateTcpConnection(r) \/ AddSocket(r) \/ RemoveAnswerSocket(r)
  <2>1. PICK label \in AnswerPC \ {"none"} :
          /\ Goto(r, label) /\ pc[r] # "none" /\ (pc[r] \in Section <=> label \in Section)
    <3>1. CASE CreateScan(r)
      BY <3>1, Labels DEF CreateScan
    <3>2. CASE CreateMark(r)
      BY <3>2, Labels DEF CreateMark
    <3>3. CASE ReadHttpRequest(r) \/ ReadHttpRequestFails(r)
      BY <3>3, Labels DEF ReadHttpRequest, ReadHttpRequestFails
    <3>4. CASE CreateTcpConnection(r)
      BY <3>4, Labels DEF CreateTcpConnection
    <3>5. CASE AddSocket(r) \/ RemoveAnswerSocket(r)
      BY <3>5, Labels DEF AddSocket, RemoveAnswerSocket
    <3> QED
      BY <1>1, <3>1, <3>2, <3>3, <3>4, <3>5
  <2>2. UNCHANGED <<ListLock, listener, accepted, CreateConnectionCS>>
    BY <1>1 DEF CreateScan, CreateMark, ReadHttpRequest, ReadHttpRequestFails,
       CreateTcpConnection, AddSocket, RemoveAnswerSocket, connectionVars, listenerVars
  <2> QED
    BY <2>1, <2>2, AnswerMoves
<1>2. CASE AnswerLock(r)
  <2>1. /\ Goto(r, "find") /\ pc[r] = "lock" /\ UNCHANGED <<ListLock, listener, accepted>>
        /\ CreateConnectionCS = NoThread /\ CreateConnectionCS' = r
    BY <1>2 DEF AnswerLock, listenerVars
  <2> QED
    BY <2>1, AnswerMoves, Labels
<1>3. CASE FindBySessionId(r) \/ CreateTcpConnectionRefuses(r) \/ AddConnection(r)
  <2>1. PICK label \in {"socket", "remove"} :
          /\ Goto(r, label) /\ pc[r] \in {"find", "add"} /\ CreateConnectionCS' = NoThread
          /\ UNCHANGED <<ListLock, listener, accepted>>
    BY <1>0, <1>3 DEF FindBySessionId, CreateTcpConnectionRefuses, AddConnection, listenerVars
  <2> QED
    BY <2>1, AnswerMoves, Labels
<1> QED
  BY <1>1, <1>2, <1>3 DEF AnswerWorker, CreateConnection

\* What the main thread does outside of its creation of connections.
MainOther ==
  \/ ProcessOutboundPacket \/ (\E c \in Connections : FindByVirtualIp(c)) \/ Stop
  \/ CloseListenerSockets \/ CloseAnswerSockets \/ JoinListeners \/ JoinAnswers
  \/ DisposedConnections \/ JoinThreads

LEMMA MainOtherControl ==
  ASSUME ControlInv, MainOther
  PROVE  /\ ControlInv'
         /\ pc[Main] \notin CreatePC \cup {"process"}
         /\ pc'[Main] \notin CreatePC \cup {"process"}
         /\ \A r \in Request : pc'[r] = pc[r]
<1>1. PICK label \in MainPC :
        /\ Goto(Main, label) /\ label \notin CreatePC \cup {"process"}
        /\ pc[Main] \notin CreatePC \cup {"process"}
  <2>1. CASE ProcessOutboundPacket
    BY <2>1, Labels DEF ProcessOutboundPacket, CreatePC
  <2>2. CASE \E c \in Connections : FindByVirtualIp(c)
    BY <2>2, Labels DEF FindByVirtualIp, CreatePC
  <2>3. CASE Stop
    BY <2>3, Labels DEF Stop, CreatePC
  <2>4. CASE CloseListenerSockets \/ CloseAnswerSockets
    BY <2>4, Labels DEF CloseListenerSockets, CloseAnswerSockets, CreatePC
  <2>5. CASE JoinListeners \/ JoinAnswers
    BY <2>5, Labels DEF JoinListeners, JoinAnswers, CreatePC
  <2>6. CASE DisposedConnections \/ JoinThreads
    BY <2>6, Labels DEF DisposedConnections, JoinThreads, CreatePC
  <2> QED
    BY <2>1, <2>2, <2>3, <2>4, <2>5, <2>6 DEF MainOther
<1>2. UNCHANGED <<ListLock, listener, accepted, CreateConnectionCS>>
  <2>1. CASE ProcessOutboundPacket \/ \E c \in Connections : FindByVirtualIp(c)
    BY <2>1 DEF ProcessOutboundPacket, FindByVirtualIp, connectionVars, listenerVars
  <2>2. CASE Stop \/ CloseListenerSockets \/ CloseAnswerSockets
    BY <2>2 DEF Stop, CloseListenerSockets, CloseAnswerSockets, connectionVars, listenerVars
  <2>3. CASE JoinListeners \/ JoinAnswers \/ DisposedConnections \/ JoinThreads
    BY <2>3 DEF JoinListeners, JoinAnswers, DisposedConnections, JoinThreads, connectionVars,
       listenerVars
  <2> QED
    BY <2>1, <2>2, <2>3 DEF MainOther
<1>3. ListLock # Main /\ ListLock \in {Main, NoThread}
  BY <1>1 DEF ControlInv, SerialInv, ControlTypes
<1>4. ControlInv'
  BY <1>1, <1>2, <1>3, MainMoves
<1>5. pc'[Main] = label /\ \A u \in Thread \ {Main} : pc'[u] = pc[u]
  BY <1>1, ThreadFacts, GotoFacts DEF ControlInv
<1> QED
  BY <1>1, <1>4, <1>5, ThreadFacts

LEMMA MainCreateControl ==
  ASSUME ControlInv,
         \/ CreateScan(Main) \/ CreateMark(Main) \/ AddConnection(Main) \/ ProcessFirstPacket
         \/ \E key \in Flow \cup {BadPacket} : ProcessInboundPacket(key)
  PROVE  ControlInv'
<1>1. PICK label \in {"scan", "mark", "add", "process", "idle"} :
        /\ Goto(Main, label)
        /\ \/ pc[Main] \in CreatePC /\ ListLock' = ListLock /\ label # "idle"
           \/ pc[Main] = "process" /\ ListLock' = NoThread /\ label = "idle"
           \/ ListLock' = Main /\ label = "scan"
  <2>1. CASE CreateScan(Main) \/ CreateMark(Main)
    BY <2>1 DEF CreateScan, CreateMark, CreatePC, connectionVars
  <2>2. CASE AddConnection(Main)
    BY <2>2 DEF AddConnection, CreatePC
  <2>3. CASE ProcessFirstPacket
    BY <2>3 DEF ProcessFirstPacket
  <2>4. CASE \E key \in Flow \cup {BadPacket} : ProcessInboundPacket(key)
    BY <2>4 DEF ProcessInboundPacket
  <2> QED
    BY <2>1, <2>2, <2>3, <2>4
<1>2. UNCHANGED <<listener, accepted, CreateConnectionCS>>
  <2>1. CASE CreateScan(Main) \/ CreateMark(Main)
    BY <2>1 DEF CreateScan, CreateMark, connectionVars, listenerVars
  <2>2. CASE AddConnection(Main)
    BY <2>2 DEF AddConnection, listenerVars
  <2>3. CASE ProcessFirstPacket \/ \E key \in Flow \cup {BadPacket} : ProcessInboundPacket(key)
    BY <2>3 DEF ProcessFirstPacket, ProcessInboundPacket, listenerVars
  <2> QED
    BY <2>1, <2>2, <2>3
<1>3. /\ ListLock' \in {Main, NoThread}
      /\ ListLock' = Main <=> label \in CreatePC \cup {"process"}
  BY <1>1, ThreadFacts DEF ControlInv, SerialInv, ControlTypes, CreatePC
<1>4. label \in MainPC
  BY Labels
<1> QED
  BY <1>1, <1>2, <1>3, <1>4, MainMoves

\* Steps that move no thread.
Quiet ==
  \/ \E c \in Connections : TimesOut(c) \/ SetWorkingState(c) \/ DisposeConnection(c)
  \/ \E id \in Threads : CourierDeleted(id)
  \/ UNCHANGED vars

LEMMA QuietControl ==
  ASSUME ControlInv, Quiet
  PROVE  /\ ControlInv' /\ UNCHANGED <<ListLock, CreateConnectionCS, pc, listener, accepted>>
<1>1. UNCHANGED <<ListLock, CreateConnectionCS, pc, listener, accepted>>
  BY DEF Quiet, TimesOut, SetWorkingState, DisposeConnection, CourierDeleted, vars,
     connectionVars, threadVars, listenerVars
<1> QED
  BY <1>1 DEF ControlInv, ControlTypes, SerialInv, AcceptInv

\* The steps by the thread that takes them.
LEMMA StepCases ==
  ASSUME [Next]_vars
  PROVE  \/ \E l \in Listener :
              \/ ListenerLoop(l) \/ AcceptFails(l) \/ AddAnswerSocket(l) \/ AddAnswerThread(l)
              \/ \E r \in Request : Accept(l, r)
         \/ \E l \in Listener : StartAnswerThread(l)
         \/ \E r \in Request : AnswerWorker(r) \/ ReadHttpRequest(r) \/ ReadHttpRequestFails(r)
         \/ MainOther
         \/ CreateScan(Main) \/ CreateMark(Main) \/ AddConnection(Main) \/ ProcessFirstPacket
         \/ \E key \in Flow \cup {BadPacket} : ProcessInboundPacket(key)
         \/ Quiet
BY DEF Next, Capture, MainStep, CreateConnection, ListenerWorker, MainOther, Quiet

LEMMA ControlStep ==
  ASSUME ControlInv, [Next]_vars
  PROVE  ControlInv'
BY StepCases, ListenerControl, StartControl, AnswerControl, MainOtherControl,
   MainCreateControl, QuietControl

-----------------------------------------------------------------------------
(* Creating connections: the steps that begin it, that end it, and the rest. *)

BeginsCreation(t) ==
  \/ t \in Request /\ CreateTcpConnection(t)
  \/ t = Main /\ \E key \in Flow \cup {BadPacket} : ProcessInboundPacket(key)

EndsCreation(t) == AddConnection(t)

LEMMA BeginFacts ==
  ASSUME ControlInv, NEW t \in Thread, BeginsCreation(t)
  PROVE  /\ pc[t] \notin CreatePC /\ pc'[t] \in CreatePC
         /\ \A u \in Thread : u # t => pc'[u] = pc[u]
         /\ MayCreate
         /\ UNCHANGED <<Connections, VirtualIps, LastConnectionId, raced, newIp>>
         /\ pc'[t] = "scan" /\ ListLock = NoThread
         /\ t \in Request => /\ UNCHANGED newKey /\ pc[t] = "find"
                             /\ \A c \in Connections : c.key # SessionOf[t]
         /\ t = Main => \A c \in Connections : c.key # newKey'
<1>1. CASE t \in Request /\ CreateTcpConnection(t)
  <2>1. /\ Goto(t, "scan") /\ pc[t] = "find" /\ MayCreate /\ ListLock = NoThread
        /\ UNCHANGED <<Connections, VirtualIps, LastConnectionId, raced, newIp, newKey>>
        /\ \A c \in Connections : c.key # SessionOf[t]
    BY <1>1 DEF CreateTcpConnection, connectionVars, otherVars
  <2>2. pc'[t] = "scan" /\ \A u \in Thread \ {t} : pc'[u] = pc[u]
    BY <1>1, <2>1, ThreadFacts, GotoFacts, Labels DEF ControlInv
  <2> QED
    BY <1>1, <2>1, <2>2, ThreadFacts DEF CreatePC
<1>2. CASE t = Main /\ \E key \in Flow \cup {BadPacket} : ProcessInboundPacket(key)
  <2>1. PICK key \in Flow \cup {BadPacket} : ProcessInboundPacket(key)
    BY <1>2
  <2>2. /\ Goto(Main, "scan") /\ pc[Main] = "idle" /\ MayCreate /\ ListLock = NoThread
        /\ UNCHANGED <<Connections, VirtualIps, LastConnectionId, raced, newIp>>
        /\ newKey' = key /\ \A c \in Connections : c.key # key
    BY <2>1 DEF ProcessInboundPacket, otherVars
  <2>3. pc'[Main] = "scan" /\ \A u \in Thread \ {Main} : pc'[u] = pc[u]
    BY <2>2, ThreadFacts, GotoFacts, Labels DEF ControlInv
  <2> QED
    BY <1>2, <2>2, <2>3, ThreadFacts DEF CreatePC
<1> QED
  BY <1>1, <1>2 DEF BeginsCreation

NewConnection(t) ==
  [id |-> LastConnectionId + 1, key |-> IF t = Main THEN newKey ELSE SessionOf[t],
   ip |-> newIp[t]]

LEMMA EndFacts ==
  ASSUME ControlInv, NEW t \in Thread, EndsCreation(t)
  PROVE  /\ pc[t] = "add" /\ pc'[t] \in {"process", "socket"}
         /\ \A u \in Thread : u # t => pc'[u] = pc[u]
         /\ LastConnectionId' = LastConnectionId + 1
         /\ UNCHANGED <<newIp, newKey, raced>>
         /\ \E gone \in SUBSET Connections : RemoveConnections(gone, {NewConnection(t)})
<1> DEFINE label == IF t = Main THEN "process" ELSE "socket"
<1>1. Goto(t, label) /\ pc[t] = "add"
  BY DEF EndsCreation, AddConnection
<1>2. IF t = Main THEN label \in MainPC ELSE label \in AnswerPC
  BY Labels
<1> HIDE DEF label
<1>3. pc'[t] = label /\ \A u \in Thread \ {t} : pc'[u] = pc[u]
  BY <1>1, <1>2, GotoFacts DEF ControlInv
<1>4. label \in {"process", "socket"}
  BY DEF label
<1> QED
  BY <1>1, <1>3, <1>4 DEF EndsCreation, AddConnection, NewConnection

\* The rest: no thread begins or ends to create, and connections are only removed.
LEMMA RestFacts ==
  ASSUME ControlInv, [Next]_vars,
         \A t \in Thread : ~BeginsCreation(t) /\ ~EndsCreation(t)
  PROVE  /\ \A t \in Thread : pc'[t] \in CreatePC <=> pc[t] \in CreatePC
         /\ UNCHANGED <<LastConnectionId, newKey>>
         /\ Connections' \subseteq Connections
<1> DEFINE Goal == /\ \A t \in Thread : pc'[t] \in CreatePC <=> pc[t] \in CreatePC
                   /\ UNCHANGED <<LastConnectionId, newKey>>
                   /\ Connections' \subseteq Connections
<1>0. ASSUME NEW t \in Thread, NEW label, Goto(t, label),
             IF t = Main THEN label \in MainPC ELSE label \in AnswerPC,
             label \in CreatePC <=> pc[t] \in CreatePC
      PROVE  \A u \in Thread : pc'[u] \in CreatePC <=> pc[u] \in CreatePC
  BY <1>0, GotoFacts DEF ControlInv
<1>1. ASSUME NEW l \in Listener,
             \/ ListenerLoop(l) \/ AcceptFails(l) \/ AddAnswerSocket(l) \/ AddAnswerThread(l)
             \/ \E r \in Request : Accept(l, r)
      PROVE  Goal
  BY <1>1 DEF ListenerLoop, AcceptFails, AddAnswerSocket, AddAnswerThread, Accept, connectionVars,
     threadVars
<1>2. ASSUME NEW l \in Listener, StartAnswerThread(l)
      PROVE  Goal
  <2>1. /\ pc[accepted[l]] = "none" /\ pc'[accepted[l]] = "read"
        /\ \A u \in Thread : u # accepted[l] => pc'[u] = pc[u]
    BY <1>2, StartControl
  <2>2. UNCHANGED <<LastConnectionId, newKey, Connections>>
    BY <1>2 DEF StartAnswerThread, connectionVars
  <2> QED
    BY <2>1, <2>2 DEF CreatePC
<1>3. ASSUME NEW r \in Request,
             AnswerWorker(r) \/ ReadHttpRequest(r) \/ ReadHttpRequestFails(r)
      PROVE  Goal
  <2>0. r \in Thread /\ r # Main /\ ~CreateTcpConnection(r) /\ ~AddConnection(r)
    BY ThreadFacts DEF BeginsCreation, EndsCreation
  <2>1. PICK label \in AnswerPC : Goto(r, label) /\ (label \in CreatePC <=> pc[r] \in CreatePC)
    <3>1. CASE CreateScan(r) \/ CreateMark(r)
      BY <3>1, Labels DEF CreateScan, CreateMark, CreatePC
    <3>2. CASE ReadHttpRequest(r) \/ ReadHttpRequestFails(r)
      BY <3>2, Labels DEF ReadHttpRequest, ReadHttpRequestFails, CreatePC
    <3>3. CASE AddSocket(r) \/ RemoveAnswerSocket(r)
      BY <3>3, Labels DEF AddSocket, RemoveAnswerSocket, CreatePC
    <3>4. CASE AnswerLock(r) \/ FindBySessionId(r) \/ CreateTcpConnectionRefuses(r)
      BY <3>4, Labels DEF AnswerLock, FindBySessionId, CreateTcpConnectionRefuses, CreatePC
    <3> QED
      BY <1>3, <2>0, <3>1, <3>2, <3>3, <3>4 DEF AnswerWorker, CreateConnection
  <2>2. UNCHANGED <<LastConnectionId, newKey, Connections>>
    <3>1. CASE CreateScan(r) \/ CreateMark(r) \/ ReadHttpRequest(r) \/ ReadHttpRequestFails(r)
               \/ AddSocket(r) \/ RemoveAnswerSocket(r)
      BY <3>1 DEF CreateScan, CreateMark, ReadHttpRequest, ReadHttpRequestFails, AddSocket,
         RemoveAnswerSocket, connectionVars
    <3>2. CASE AnswerLock(r) \/ FindBySessionId(r) \/ CreateTcpConnectionRefuses(r)
      BY <3>2 DEF AnswerLock, FindBySessionId, CreateTcpConnectionRefuses
    <3> QED
      BY <1>3, <2>0, <3>1, <3>2 DEF AnswerWorker, CreateConnection
  <2> QED
    BY <1>0, <2>0, <2>1, <2>2
<1>4. ASSUME MainOther
      PROVE  Goal
  <2>1. \A t \in Thread : pc'[t] \in CreatePC <=> pc[t] \in CreatePC
    BY <1>4, MainOtherControl, ThreadFacts
  <2>2. UNCHANGED <<LastConnectionId, newKey, Connections>>
    <3>1. CASE ProcessOutboundPacket \/ \E c \in Connections : FindByVirtualIp(c)
      BY <3>1 DEF ProcessOutboundPacket, FindByVirtualIp, connectionVars
    <3>2. CASE Stop \/ CloseListenerSockets \/ CloseAnswerSockets
      BY <3>2 DEF Stop, CloseListenerSockets, CloseAnswerSockets, connectionVars
    <3>3. CASE JoinListeners \/ JoinAnswers \/ DisposedConnections \/ JoinThreads
      BY <3>3 DEF JoinListeners, JoinAnswers, DisposedConnections, JoinThreads, connectionVars
    <3> QED
      BY <1>4, <3>1, <3>2, <3>3 DEF MainOther
  <2> QED
    BY <2>1, <2>2
<1>5. ASSUME CreateScan(Main) \/ CreateMark(Main)
      PROVE  Goal
  <2>1. PICK label \in CreatePC : Goto(Main, label) /\ pc[Main] \in CreatePC
    BY <1>5 DEF CreateScan, CreateMark, CreatePC
  <2>2. \A u \in Thread : pc'[u] \in CreatePC <=> pc[u] \in CreatePC
    BY <1>0, <2>1, ThreadFacts DEF MainPC
  <2> QED
    BY <1>5, <2>2 DEF CreateScan, CreateMark, connectionVars
<1>6. ASSUME ProcessFirstPacket
      PROVE  Goal
  <2>1. Goto(Main, "idle") /\ pc[Main] = "process"
    BY <1>6 DEF ProcessFirstPacket
  <2>2. \A u \in Thread : pc'[u] \in CreatePC <=> pc[u] \in CreatePC
    <3>1. "idle" \in MainPC /\ ("idle" \in CreatePC <=> pc[Main] \in CreatePC)
      BY <2>1, Labels DEF CreatePC
    <3> QED
      BY <1>0, <2>1, <3>1, ThreadFacts
  <2> QED
    BY <1>6, <2>2 DEF ProcessFirstPacket, RemoveConnections
<1>7. ASSUME Quiet
      PROVE  Goal
  <2>1. UNCHANGED pc
    BY <1>7, QuietControl
  <2>2. UNCHANGED <<LastConnectionId, newKey>> /\ Connections' \subseteq Connections
    BY <1>7 DEF Quiet, TimesOut, SetWorkingState, DisposeConnection, CourierDeleted, vars,
       connectionVars, threadVars
  <2> QED
    BY <2>1, <2>2
<1>8. ~AddConnection(Main) /\ \A key \in Flow \cup {BadPacket} : ~ProcessInboundPacket(key)
  BY ThreadFacts DEF BeginsCreation, EndsCreation
<1> QED
  BY <1>1, <1>2, <1>3, <1>4, <1>5, <1>6, <1>7, <1>8, StepCases

LEMMA BoundStep ==
  ASSUME TypeInv, ControlInv, [Next]_vars
  PROVE  BoundInv'
<1>0. /\ IsFiniteSet(Creating) /\ Cardinality(Creating) \in Nat
      /\ LastConnectionId \in Nat /\ MaxConnections \in Nat
      /\ LastConnectionId + Cardinality(Creating) <= MaxConnections
  <2>1. LastConnectionId \in Nat
    BY ConstantsAssumption DEF TypeInv, TypeOK, ConnectionId
  <2> QED
    BY <2>1, FS_CardinalityType, ConstantsAssumption DEF TypeInv, BoundInv
<1>1. ASSUME NEW t \in Thread, BeginsCreation(t)
      PROVE  BoundInv'
  <2>1. Creating' = Creating \cup {t} /\ t \notin Creating
    BY <1>1, BeginFacts DEF Creating
  <2>2. LastConnectionId' = LastConnectionId
        /\ LastConnectionId + Cardinality(Creating) < MaxConnections
    BY <1>1, BeginFacts DEF Creating, MayCreate
  <2>3. IsFiniteSet(Creating') /\ Cardinality(Creating') = Cardinality(Creating) + 1
    BY <1>0, <2>1, FS_AddElement
  <2>4. LastConnectionId' + Cardinality(Creating') <= MaxConnections
    BY <1>0, <2>2, <2>3, SMT
  <2> QED
    BY <2>3, <2>4 DEF BoundInv
<1>2. ASSUME NEW t \in Thread, EndsCreation(t)
      PROVE  BoundInv'
  <2>1. Creating' = Creating \ {t} /\ t \in Creating
    BY <1>2, EndFacts DEF Creating, CreatePC
  <2>2. LastConnectionId' = LastConnectionId + 1
    BY <1>2, EndFacts
  <2>3. IsFiniteSet(Creating') /\ Cardinality(Creating') = Cardinality(Creating) - 1
    BY <1>0, <2>1, FS_RemoveElement
  <2>4. LastConnectionId' + Cardinality(Creating') <= MaxConnections
    BY <1>0, <2>2, <2>3, SMT
  <2> QED
    BY <2>3, <2>4 DEF BoundInv
<1>3. ASSUME \A t \in Thread : ~BeginsCreation(t) /\ ~EndsCreation(t)
      PROVE  BoundInv'
  <2>1. Creating' = Creating /\ LastConnectionId' = LastConnectionId
    BY <1>3, RestFacts DEF Creating
  <2> QED
    BY <1>0, <2>1 DEF BoundInv
<1> QED
  BY <1>1, <1>2, <1>3

-----------------------------------------------------------------------------
(* Types of the rest. *)

LEMMA TypesSplit == TypeOK <=> OtherTypes /\ ControlTypes
BY DEF TypeOK, OtherTypes, ControlTypes

\* A finite set of numbers has a least one.
LEMMA LeastAddress ==
  ASSUME NEW S, S # {}, S \subseteq Nat
  PROVE  \E a \in S : \A b \in S : a <= b
<1>1. PICK a \in S : \A b \in S : ~(<<b, a>> \in OpToRel(<, Nat))
  BY WFMin, NatLessThanWellFounded
<1>2. \A b \in S : ~(b < a)
  BY <1>1 DEF OpToRel
<1> QED
  BY <1>2

LEMMA NewIpType ==
  ASSUME OtherTypes
  PROVE  GetNewIp \in Address \cup {NoIp}
<1>1. CASE FreeIps = {}
  BY <1>1 DEF GetNewIp
<1>2. CASE FreeIps # {}
  <2> DEFINE first == CHOOSE a \in FreeIps : \A b \in FreeIps : a <= b
  <2>1. \E a \in FreeIps : \A b \in FreeIps : a <= b
    <3>1. FreeIps \subseteq 0 .. MaxVirtualIps - 1 /\ MaxVirtualIps \in Nat
      BY ConstantsAssumption DEF FreeIps, Address
    <3>2. FreeIps \subseteq Nat
      BY <3>1
    <3> QED
      BY <1>2, <3>2, LeastAddress
  <2>2. first \in FreeIps
    BY <2>1
  <2> QED
    BY <1>2, <2>2 DEF GetNewIp, FreeIps
<1> QED
  BY <1>1, <1>2

LEMMA RemoveTypes ==
  ASSUME OtherTypes, NEW gone \in SUBSET Connections, NEW new \in SUBSET Connection,
         RemoveConnections(gone, new)
  PROVE  /\ Connections' \subseteq Connection
         /\ idle' \subseteq {c.id : c \in Connections'}
         /\ Threads' \subseteq ConnectionId
         /\ VirtualIps' \in [Address -> BOOLEAN]
<1>1. Connections' = (Connections \ gone) \cup new /\ Connections \subseteq Connection
  BY DEF RemoveConnections, OtherTypes
<1>2. idle' \subseteq {c.id : c \in Connections'}
  BY <1>1 DEF RemoveConnections, OtherTypes
<1>3. Threads' \subseteq ConnectionId
  BY <1>1 DEF RemoveConnections, OtherTypes, CouriersOf, Connection
<1>4. VirtualIps' \in [Address -> BOOLEAN]
  BY DEF RemoveConnections, ReleaseIp
<1> QED
  BY <1>1, <1>2, <1>3, <1>4

LEMMA CreateTypes ==
  ASSUME TypeInv, ControlInv, NEW t \in Thread, CreateConnection(t)
  PROVE  OtherTypes'
<1>0. OtherTypes
  BY TypesSplit DEF TypeInv
<1>1. CASE CreateScan(t)
  <2>1. newIp' \in [Thread -> Address \cup {NoIp}]
    BY <1>0, <1>1, NewIpType DEF CreateScan, OtherTypes
  <2>2. UNCHANGED <<Connections, idle, VirtualIps, LastConnectionId, newKey, conn, listening,
                    DisposeEvent, AnswerSockets, answerOpen, AnswerThreads, Threads, failed,
                    raced>>
    BY <1>1 DEF CreateScan, connectionVars, listenerVars, hostVars, otherVars
  <2> QED
    BY <1>0, <2>1, <2>2 DEF OtherTypes
<1>2. CASE CreateMark(t)
  <2>1. VirtualIps' \in [Address -> BOOLEAN]
    <3>1. VirtualIps' = [a \in Address |-> VirtualIps[a] \/ a = newIp[t]]
      BY <1>2 DEF CreateMark
    <3> QED
      BY <3>1
  <2>2. raced' \in BOOLEAN
    <3>1. raced' = (raced \/ (newIp[t] # NoIp /\ VirtualIps[newIp[t]]))
      BY <1>2 DEF CreateMark
    <3> QED
      BY <3>1
  <2>3. UNCHANGED <<Connections, idle, LastConnectionId, newIp, newKey, conn, listening,
                    DisposeEvent, AnswerSockets, answerOpen, AnswerThreads, Threads, failed>>
    BY <1>2 DEF CreateMark, listenerVars, hostVars
  <2> QED
    BY <1>0, <2>1, <2>2, <2>3 DEF OtherTypes
<1>3. CASE AddConnection(t)
  <2>1. LastConnectionId + 1 \in ConnectionId
    <3>1. t \in Creating
      BY <1>3 DEF AddConnection, Creating, CreatePC
    <3>2. IsFiniteSet(Creating) /\ Cardinality(Creating) \in Nat /\ Cardinality(Creating) # 0
      BY <3>1, FS_CardinalityType, FS_EmptySet DEF TypeInv, BoundInv
    <3>3. LastConnectionId \in Nat /\ MaxConnections \in Nat
          /\ LastConnectionId + Cardinality(Creating) <= MaxConnections
      BY ConstantsAssumption DEF TypeInv, BoundInv, TypeOK, ConnectionId
    <3> QED
      BY <3>2, <3>3 DEF ConnectionId
  <2>2. PICK gone \in SUBSET Connections : RemoveConnections(gone, {NewConnection(t)})
    BY <1>3, EndFacts DEF EndsCreation
  <2>3. NewConnection(t) \in Connection
    <3>1. (IF t = Main THEN newKey ELSE SessionOf[t]) \in Key
      BY <1>0, ConstantsAssumption DEF OtherTypes, Key, Thread
    <3>2. newIp[t] \in Address \cup {NoIp}
      BY <1>0 DEF OtherTypes
    <3> QED
      BY <2>1, <3>1, <3>2 DEF NewConnection, Connection
  <2>4. /\ Connections' \subseteq Connection
        /\ idle' \subseteq {c.id : c \in Connections'}
        /\ Threads' \subseteq ConnectionId
        /\ VirtualIps' \in [Address -> BOOLEAN]
    BY <1>0, <2>2, <2>3, RemoveTypes
  <2>5. conn' \in [Thread -> ConnectionId] /\ LastConnectionId' \in ConnectionId
    BY <1>0, <1>3, <2>1 DEF AddConnection, OtherTypes
  <2>6. UNCHANGED <<newIp, newKey, listening, DisposeEvent, AnswerSockets, answerOpen,
                    AnswerThreads, failed, raced>>
    BY <1>3 DEF AddConnection, listenerVars, hostVars
  <2> QED
    BY <1>0, <2>4, <2>5, <2>6 DEF OtherTypes
<1> QED
  BY <1>1, <1>2, <1>3 DEF CreateConnection

LEMMA ListenerTypes ==
  ASSUME TypeInv, NEW l \in Listener,
         \/ ListenerLoop(l) \/ AcceptFails(l) \/ AddAnswerSocket(l) \/ AddAnswerThread(l)
         \/ StartAnswerThread(l) \/ \E r \in Request : Accept(l, r)
  PROVE  OtherTypes'
<1>0. OtherTypes
  BY TypesSplit DEF TypeInv
<1>1. UNCHANGED <<Connections, idle, VirtualIps, LastConnectionId, newIp, newKey, conn,
                  DisposeEvent, Threads, failed, raced>>
  BY DEF ListenerLoop, AcceptFails, AddAnswerSocket, AddAnswerThread, StartAnswerThread, Accept,
     connectionVars, threadVars, hostVars, otherVars
<1>2. listening' \in [Listener -> BOOLEAN]
  BY <1>0 DEF ListenerLoop, AcceptFails, AddAnswerSocket, AddAnswerThread, StartAnswerThread,
     Accept, listenerVars, OtherTypes
<1>3. /\ AnswerSockets' \subseteq AnswerSockets \cup {accepted[l]}
      /\ AnswerThreads' \subseteq AnswerThreads \cup {accepted[l]}
      /\ listener[l] \notin {"add", "handle"} => UNCHANGED <<AnswerSockets, AnswerThreads>>
  BY DEF ListenerLoop, AcceptFails, AddAnswerSocket, AddAnswerThread, StartAnswerThread,
     Accept, hostVars
<1>4. answerOpen' \subseteq Request
  BY <1>0 DEF ListenerLoop, AcceptFails, AddAnswerSocket, AddAnswerThread, StartAnswerThread,
     Accept, hostVars, OtherTypes
<1>5. AnswerSockets' \subseteq Request /\ AnswerThreads' \subseteq Request
  <2>1. listener[l] \in {"add", "handle"} => accepted[l] \in Request
    BY DEF TypeInv, AcceptInv
  <2> QED
    BY <1>0, <1>3, <2>1 DEF OtherTypes
<1> QED
  BY <1>0, <1>1, <1>2, <1>4, <1>5 DEF OtherTypes

LEMMA AnswerTypes ==
  ASSUME TypeInv, ControlInv, NEW r \in Request,
         AnswerWorker(r) \/ ReadHttpRequest(r) \/ ReadHttpRequestFails(r)
  PROVE  OtherTypes'
<1>0. OtherTypes
  BY TypesSplit DEF TypeInv
<1>1. CASE CreateConnection(r)
  BY <1>1, CreateTypes, ThreadFacts
<1>2. CASE ~CreateConnection(r)
  <2>1. UNCHANGED <<Connections, idle, VirtualIps, LastConnectionId, newIp, newKey, listening,
                    DisposeEvent, answerOpen, AnswerThreads, Threads, raced>>
    BY <1>2 DEF AnswerWorker, AnswerLock, FindBySessionId, CreateTcpConnection,
       CreateTcpConnectionRefuses, AddSocket, RemoveAnswerSocket, ReadHttpRequest,
       ReadHttpRequestFails, connectionVars, listenerVars, hostVars, otherVars
  <2>2. conn' \in [Thread -> ConnectionId]
    <3>1. CASE FindBySessionId(r)
      <4>1. PICK c \in Connections : conn' = [conn EXCEPT ![r] = c.id]
        BY <3>1 DEF FindBySessionId
      <4>2. c.id \in ConnectionId
        BY <1>0 DEF OtherTypes, Connection
      <4> QED
        BY <1>0, <4>1, <4>2 DEF OtherTypes
    <3>2. CASE ~FindBySessionId(r)
      BY <1>0, <1>2, <3>2 DEF AnswerWorker, AnswerLock, CreateTcpConnection,
         CreateTcpConnectionRefuses, AddSocket, RemoveAnswerSocket, ReadHttpRequest,
         ReadHttpRequestFails, OtherTypes
    <3> QED
      BY <3>1, <3>2
  <2>3. failed' \in BOOLEAN /\ AnswerSockets' \subseteq Request
    <3>1. CASE AddSocket(r)
      BY <1>0, <3>1 DEF AddSocket, hostVars, OtherTypes
    <3>2. CASE ~AddSocket(r)
      BY <1>0, <1>2, <3>2 DEF AnswerWorker, AnswerLock, FindBySessionId, CreateTcpConnection,
         CreateTcpConnectionRefuses, RemoveAnswerSocket, ReadHttpRequest,
         ReadHttpRequestFails, hostVars, otherVars, OtherTypes
    <3> QED
      BY <3>1, <3>2
  <2> QED
    BY <1>0, <2>1, <2>2, <2>3 DEF OtherTypes
<1> QED
  BY <1>1, <1>2

LEMMA MainTypes ==
  ASSUME TypeInv, MainOther
  PROVE  OtherTypes'
<1>0. OtherTypes /\ Main \in Thread
  BY TypesSplit, ThreadFacts DEF TypeInv
<1>1. CASE ProcessOutboundPacket
  <2>1. failed' \in BOOLEAN
    BY <1>1 DEF ProcessOutboundPacket
  <2>2. idle' \subseteq idle
    BY <1>1 DEF ProcessOutboundPacket
  <2>3. UNCHANGED <<Connections, VirtualIps, LastConnectionId, newIp, newKey, conn, listening,
                    DisposeEvent, AnswerSockets, answerOpen, AnswerThreads, Threads, raced>>
    BY <1>1 DEF ProcessOutboundPacket, listenerVars, hostVars
  <2> QED
    BY <1>0, <2>1, <2>2, <2>3 DEF OtherTypes
<1>2. CASE \E c \in Connections : FindByVirtualIp(c)
  <2>1. PICK c \in Connections : FindByVirtualIp(c)
    BY <1>2
  <2>2. conn' = [conn EXCEPT ![Main] = c.id] /\ c.id \in ConnectionId
    BY <1>0, <2>1 DEF FindByVirtualIp, OtherTypes, Connection
  <2>3. conn' \in [Thread -> ConnectionId]
    BY <1>0, <2>2 DEF OtherTypes
  <2>4. UNCHANGED <<Connections, idle, VirtualIps, LastConnectionId, newIp, newKey, listening,
                    DisposeEvent, AnswerSockets, answerOpen, AnswerThreads, Threads, failed,
                    raced>>
    BY <2>1 DEF FindByVirtualIp, connectionVars, listenerVars, hostVars, otherVars
  <2> QED
    BY <1>0, <2>3, <2>4 DEF OtherTypes
<1>3. CASE \/ Stop \/ CloseListenerSockets \/ CloseAnswerSockets \/ JoinListeners \/ JoinAnswers
           \/ DisposedConnections \/ JoinThreads
  <2>1. UNCHANGED <<Connections, idle, VirtualIps, LastConnectionId, newIp, newKey, conn,
                    AnswerSockets, Threads, failed, raced>>
    BY <1>3 DEF Stop, CloseListenerSockets, CloseAnswerSockets, JoinListeners, JoinAnswers,
       DisposedConnections, JoinThreads, connectionVars, hostVars, otherVars
  <2>2. /\ DisposeEvent' \in BOOLEAN /\ listening' \in [Listener -> BOOLEAN]
        /\ answerOpen' \subseteq answerOpen /\ AnswerThreads' \subseteq AnswerThreads
    BY <1>0, <1>3 DEF Stop, CloseListenerSockets, CloseAnswerSockets, JoinListeners, JoinAnswers,
       DisposedConnections, JoinThreads, hostVars, listenerVars, OtherTypes
  <2> QED
    BY <1>0, <2>1, <2>2 DEF OtherTypes
<1> QED
  BY <1>1, <1>2, <1>3 DEF MainOther

LEMMA ProcessTypes ==
  ASSUME TypeInv,
         ProcessFirstPacket \/ \E key \in Flow \cup {BadPacket} : ProcessInboundPacket(key)
  PROVE  OtherTypes'
<1>0. OtherTypes
  BY TypesSplit DEF TypeInv
<1>1. CASE ProcessFirstPacket
  <2>1. /\ Connections' \subseteq Connection
        /\ idle' \subseteq {c.id : c \in Connections'}
        /\ Threads' \subseteq ConnectionId
        /\ VirtualIps' \in [Address -> BOOLEAN]
    <3>1. PICK gone \in SUBSET Connections : RemoveConnections(gone, {})
      BY <1>1 DEF ProcessFirstPacket
    <3> QED
      BY <1>0, <3>1, RemoveTypes
  <2>2. UNCHANGED <<LastConnectionId, newIp, newKey, conn, listening, DisposeEvent,
                    AnswerSockets, answerOpen, AnswerThreads, failed, raced>>
    BY <1>1 DEF ProcessFirstPacket, listenerVars, hostVars
  <2> QED
    BY <1>0, <2>1, <2>2 DEF OtherTypes
<1>2. CASE \E key \in Flow \cup {BadPacket} : ProcessInboundPacket(key)
  <2>1. PICK key \in Flow \cup {BadPacket} : ProcessInboundPacket(key)
    BY <1>2
  <2>2. UNCHANGED <<Connections, idle, VirtualIps, LastConnectionId, newIp, conn, listening,
                    DisposeEvent, AnswerSockets, answerOpen, AnswerThreads, Threads, failed,
                    raced>>
    BY <2>1 DEF ProcessInboundPacket, listenerVars, hostVars, otherVars
  <2>3. newKey' = key
    BY <2>1 DEF ProcessInboundPacket
  <2> QED
    BY <1>0, <2>2, <2>3 DEF OtherTypes
<1> QED
  BY <1>1, <1>2

LEMMA QuietTypes ==
  ASSUME TypeInv, Quiet
  PROVE  OtherTypes'
<1>0. OtherTypes
  BY TypesSplit DEF TypeInv
<1>1. UNCHANGED <<VirtualIps, LastConnectionId, newIp, newKey, conn, listening, DisposeEvent,
                  AnswerSockets, answerOpen, AnswerThreads, failed, raced>>
  BY DEF Quiet, TimesOut, SetWorkingState, DisposeConnection, CourierDeleted, vars,
     connectionVars, threadVars, listenerVars, hostVars, otherVars
<1>2. /\ Connections' \subseteq Connection
      /\ idle' \subseteq {c.id : c \in Connections'}
      /\ Threads' \subseteq ConnectionId
  <2>1. ASSUME NEW c \in Connections, TimesOut(c) \/ SetWorkingState(c)
        PROVE  /\ Connections' \subseteq Connection
               /\ idle' \subseteq {d.id : d \in Connections'}
               /\ Threads' \subseteq ConnectionId
    BY <1>0, <2>1 DEF TimesOut, SetWorkingState, otherVars, OtherTypes
  <2>2. ASSUME NEW c \in Connections, DisposeConnection(c)
        PROVE  /\ Connections' \subseteq Connection
               /\ idle' \subseteq {d.id : d \in Connections'}
               /\ Threads' \subseteq ConnectionId
    BY <1>0, <2>2 DEF DisposeConnection, CouriersOf, Connection, OtherTypes
  <2>3. CASE (\E id \in Threads : CourierDeleted(id)) \/ UNCHANGED vars
    BY <1>0, <2>3 DEF CourierDeleted, connectionVars, otherVars, vars, OtherTypes
  <2> QED
    BY <2>1, <2>2, <2>3 DEF Quiet
<1> QED
  BY <1>0, <1>1, <1>2 DEF OtherTypes

LEMMA TypeInit == Init => TypeInv
<1> SUFFICES ASSUME Init PROVE TypeInv
  OBVIOUS
<1>1. OtherTypes
  <2>1. LastConnectionId \in ConnectionId /\ 0 \in ConnectionId
    BY ConstantsAssumption DEF Init, ConnectionId
  <2>2. conn \in [Thread -> ConnectionId]
    BY <2>1 DEF Init
  <2>3. VirtualIps \in [Address -> BOOLEAN]
    BY DEF Init
  <2>4. newIp \in [Thread -> Address \cup {NoIp}]
    BY DEF Init
  <2>5. listening \in [Listener -> BOOLEAN]
    BY DEF Init
  <2> QED
    BY <2>1, <2>2, <2>3, <2>4, <2>5 DEF Init, OtherTypes
<1>2. /\ pc = [t \in Thread |-> IF t = Main THEN "idle" ELSE "none"]
      /\ pc[Main] = "idle" /\ \A r \in Request : pc[r] = "none"
  BY ThreadFacts DEF Init
<1>3. ControlTypes
  <2>1. pc \in [Thread -> AnswerPC \cup MainPC]
    BY <1>2, Labels
  <2>2. pc[Main] \in MainPC /\ \A r \in Request : pc[r] \in AnswerPC
    BY <1>2, Labels
  <2>3. listener \in [Listener -> ListenerPC] /\ accepted \in [Listener -> Request \cup {NoThread}]
    BY DEF Init, ListenerPC
  <2> QED
    BY <2>1, <2>2, <2>3 DEF Init, ControlTypes
<1>4. SerialInv
  BY <1>2, ThreadFacts DEF Init, SerialInv, CreatePC
<1>5. AcceptInv
  BY ThreadFacts DEF Init, AcceptInv
<1>6. BoundInv
  <2>1. Creating = {}
    BY <1>2, ThreadFacts DEF Creating, CreatePC
  <2>2. LastConnectionId = 0 /\ MaxConnections \in Nat
    BY ConstantsAssumption DEF Init
  <2> QED
    BY <2>1, <2>2, FS_EmptySet DEF BoundInv
<1> QED
  BY <1>1, <1>3, <1>4, <1>5, <1>6, TypesSplit DEF TypeInv

LEMMA TypeStep ==
  ASSUME TypeInv, [Next]_vars
  PROVE  TypeInv' /\ ControlInv
<1>1. ControlInv
  BY TypesSplit DEF TypeInv, ControlInv
<1>2. ControlInv' /\ BoundInv'
  BY <1>1, ControlStep, BoundStep
<1>3. OtherTypes'
  <2>1. CASE \E t \in {Main} : CreateScan(t) \/ CreateMark(t) \/ AddConnection(t)
    BY <1>1, <2>1, CreateTypes, ThreadFacts DEF CreateConnection
  <2> QED
    BY <1>1, <2>1, StepCases, ListenerTypes, AnswerTypes, MainTypes, ProcessTypes, QuietTypes
<1>4. TypeOK' <=> OtherTypes' /\ ControlTypes'
  BY DEF TypeOK, OtherTypes, ControlTypes
<1> QED
  BY <1>1, <1>2, <1>3, <1>4 DEF TypeInv, ControlInv

LEMMA TypeInvariant == Spec => []TypeInv
<1>1. TypeInv /\ [Next]_vars => TypeInv'
  BY TypeStep
<1> QED
  BY <1>1, TypeInit, PTL DEF Spec

\* The variables of BarbaServerApp keep their types, and no more connections are
\* created than the bound allows.
THEOREM TypeCorrect == Spec => []TypeOK
<1>1. TypeInv => TypeOK
  BY DEF TypeInv
<1> QED
  BY <1>1, TypeInvariant, PTL

-----------------------------------------------------------------------------
(* One connection for a session. *)

\* A thread that creates a connection has looked for one, and the lock it holds
\* keeps others from adding it: the critical section the answer threads from one
\* another; main creates connections of flows only.
KeyInv ==
  /\ OneConnectionPerSession
  /\ \A r \in Request : pc[r] \in CreatePC => \A c \in Connections : c.key # SessionOf[r]
  /\ pc[Main] \in CreatePC => \A c \in Connections : c.key # newKey

LEMMA KeyStep ==
  ASSUME TypeInv, KeyInv, [Next]_vars
  PROVE  KeyInv'
<1>0. ControlInv /\ newKey \in Flow \cup {BadPacket}
  BY TypeStep DEF TypeInv, TypeOK
<1>1. ASSUME NEW t \in Thread, BeginsCreation(t)
      PROVE  KeyInv'
  <2>1. /\ \A u \in Thread : u # t => pc'[u] = pc[u]
        /\ UNCHANGED Connections
    BY <1>0, <1>1, BeginFacts
  <2>2. CASE t = Main
    <3>1. \A c \in Connections : c.key # newKey'
      BY <1>0, <1>1, <2>2, BeginFacts
    <3>2. \A r \in Request : pc'[r] = pc[r]
      BY <2>1, <2>2, ThreadFacts
    <3> QED
      BY <2>1, <3>1, <3>2 DEF KeyInv, OneConnectionPerSession
  <2>3. CASE t \in Request
    <3>1. UNCHANGED newKey /\ \A c \in Connections : c.key # SessionOf[t]
      BY <1>0, <1>1, <2>3, BeginFacts
    <3>2. pc'[Main] = pc[Main] /\ \A r \in Request : r # t => pc'[r] = pc[r]
      BY <2>1, <2>3, ThreadFacts
    <3> QED
      BY <2>1, <3>1, <3>2 DEF KeyInv, OneConnectionPerSession
  <2> QED
    BY <2>2, <2>3, ThreadFacts
<1>2. ASSUME NEW t \in Thread, EndsCreation(t)
      PROVE  KeyInv'
  <2> DEFINE new == NewConnection(t)
  <2>1. /\ pc[t] \in CreatePC /\ pc'[t] \notin CreatePC
        /\ \A u \in Thread : u # t => pc'[u] = pc[u]
        /\ UNCHANGED newKey
    BY <1>0, <1>2, EndFacts DEF CreatePC
  <2>2. Connections' \subseteq Connections \cup {new}
    <3>1. PICK gone \in SUBSET Connections : RemoveConnections(gone, {new})
      BY <1>0, <1>2, EndFacts
    <3> QED
      BY <3>1 DEF RemoveConnections
  <2>3. \A c \in Connections : c.key # new.key
    BY <2>1, ThreadFacts DEF KeyInv, NewConnection
  <2>4. OneConnectionPerSession'
    <3>1. \A c, d \in Connections : c.key = d.key => c = d
      BY DEF KeyInv, OneConnectionPerSession
    <3> HIDE DEF new
    <3>2. \A c, d \in Connections' : c.key = d.key => c = d
      BY <2>2, <2>3, <3>1
    <3> QED
      BY <3>2 DEF OneConnectionPerSession
  <2>5. ASSUME NEW r \in Request, pc'[r] \in CreatePC
        PROVE  \A c \in Connections' : c.key # SessionOf[r]
    <3>1. r # t /\ pc[r] \in CreatePC
      BY <2>1, <2>5, ThreadFacts
    <3>2. t = Main
      BY <1>0, <2>1, <3>1, ThreadFacts DEF ControlInv, SerialInv
    <3>3. new.key = newKey /\ newKey # SessionOf[r]
      <4>1. SessionOf[r] \in Session
        BY ConstantsAssumption
      <4>2. newKey \notin Session
        BY <1>0, ConstantsAssumption
      <4> QED
        BY <3>2, <4>1, <4>2 DEF NewConnection
    <3> QED
      BY <2>2, <3>1, <3>3 DEF KeyInv
  <2>6. ASSUME pc'[Main] \in CreatePC
        PROVE  \A c \in Connections' : c.key # newKey'
    <3>1. t # Main /\ t \in Request /\ pc[Main] \in CreatePC
      BY <2>1, <2>6, ThreadFacts
    <3>2. new.key = SessionOf[t]
      BY <3>1 DEF NewConnection
    <3>3. SessionOf[t] # newKey
      <4>1. SessionOf[t] \in Session
        BY <3>1, ConstantsAssumption
      <4>2. newKey \notin Session
        BY <1>0, ConstantsAssumption
      <4> QED
        BY <4>1, <4>2
    <3> HIDE DEF new
    <3> QED
      BY <2>1, <2>2, <3>1, <3>2, <3>3 DEF KeyInv
  <2> QED
    BY <2>4, <2>5, <2>6 DEF KeyInv
<1>3. ASSUME \A t \in Thread : ~BeginsCreation(t) /\ ~EndsCreation(t)
      PROVE  KeyInv'
  <2>1. /\ \A t \in Thread : pc'[t] \in CreatePC <=> pc[t] \in CreatePC
        /\ UNCHANGED newKey
        /\ Connections' \subseteq Connections
    BY <1>0, <1>3, RestFacts
  <2> QED
    BY <2>1, ThreadFacts DEF KeyInv, OneConnectionPerSession
<1> QED
  BY <1>1, <1>2, <1>3

\* However the answer threads of FindBySessionId and CreateTcpConnection interleave
\* with each other, with the capture loop and with removals, a session has at most
\* one connection, for any number of sockets, sessions and flows.
THEOREM OneConnectionCorrect == Spec => []OneConnectionPerSession
<1>1. Init => KeyInv
  BY ThreadFacts DEF Init, KeyInv, OneConnectionPerSession, CreatePC
<1>2. TypeInv /\ KeyInv /\ [Next]_vars => KeyInv'
  BY KeyStep
<1>3. KeyInv => OneConnectionPerSession
  BY DEF KeyInv
<1> QED
  BY <1>1, <1>2, <1>3, TypeInvariant, PTL DEF Spec

-----------------------------------------------------------------------------
(* Tearing down. *)

Joined == {"dispose", "joinThreads", "disposed"}

\* A running answer thread has its handle in AnswerThreads, or its listener is
\* about to put it there; JoinListeners comes before JoinAnswers, so that the
\* latter waits for all of them.
JoinInv ==
  /\ pc[Main] \in Joined \cup {"joinAnswers"} => \A l \in Listener : listener[l] = "done"
  /\ \A r \in Request : pc[r] \notin {"none", "done"} =>
       r \in AnswerThreads \/ \E l \in Listener : listener[l] = "handle" /\ accepted[l] = r
  /\ pc[Main] \in Joined => \A r \in Request : pc[r] \in {"none", "done"}
  /\ pc[Main] \in {"joinThreads", "disposed"} => Connections = {}
  /\ pc[Main] = "disposed" => Threads = {}

LEMMA ListenerJoin ==
  ASSUME ControlInv, JoinInv, NEW l \in Listener,
         \/ ListenerLoop(l) \/ AcceptFails(l) \/ AddAnswerSocket(l) \/ AddAnswerThread(l)
         \/ \E r \in Request : Accept(l, r)
  PROVE  JoinInv'
<1>1. UNCHANGED pc /\ listener[l] # "done"
  BY DEF ListenerLoop, AcceptFails, AddAnswerSocket, AddAnswerThread, Accept, threadVars
<1>2. pc[Main] \notin Joined \cup {"joinAnswers"}
  BY <1>1 DEF JoinInv
<1>3. ASSUME NEW r \in Request, pc[r] \notin {"none", "done"}
      PROVE  r \in AnswerThreads' \/ \E k \in Listener : listener'[k] = "handle" /\ accepted'[k] = r
  <2>0. listener \in [Listener -> ListenerPC] /\ accepted \in [Listener -> Request \cup {NoThread}]
    BY DEF ControlInv, ControlTypes
  <2>1. CASE AddAnswerThread(l)
    <3>1. /\ r \in AnswerThreads \/ accepted[l] = r => r \in AnswerThreads'
          /\ \A k \in Listener : k # l => listener'[k] = listener[k] /\ accepted'[k] = accepted[k]
      BY <1>3, <2>0, <2>1 DEF AddAnswerThread, GotoL
    <3> QED
      BY <1>3, <3>1 DEF JoinInv
  <2>2. CASE ~AddAnswerThread(l)
    <3>1. /\ AnswerThreads' = AnswerThreads /\ listener[l] # "handle"
          /\ \A k \in Listener : k # l => listener'[k] = listener[k] /\ accepted'[k] = accepted[k]
      BY <2>0, <2>2 DEF ListenerLoop, AcceptFails, AddAnswerSocket, Accept, GotoL, hostVars
    <3> QED
      BY <1>3, <3>1 DEF JoinInv
  <2> QED
    BY <2>1, <2>2
<1> QED
  BY <1>1, <1>2, <1>3 DEF JoinInv, Joined

LEMMA StartJoin ==
  ASSUME ControlInv, JoinInv, NEW l \in Listener, StartAnswerThread(l)
  PROVE  JoinInv'
<1>1. /\ accepted[l] \in Request /\ pc[accepted[l]] = "none" /\ pc'[accepted[l]] = "read"
      /\ \A u \in Thread : u # accepted[l] => pc'[u] = pc[u]
  BY StartControl
<1>2. /\ listener[l] = "start" /\ listener' = [listener EXCEPT ![l] = "handle"]
      /\ UNCHANGED <<accepted, AnswerThreads>>
  BY DEF StartAnswerThread, GotoL, hostVars
<1>3. pc'[Main] = pc[Main] /\ pc[Main] \notin Joined \cup {"joinAnswers"}
  BY <1>1, <1>2, ThreadFacts DEF JoinInv
<1>4. listener'[l] = "handle" /\ \A k \in Listener : k # l => listener'[k] = listener[k]
  BY <1>2 DEF ControlInv, ControlTypes
<1>5. ASSUME NEW r \in Request, pc'[r] \notin {"none", "done"}
      PROVE  r \in AnswerThreads' \/ \E k \in Listener : listener'[k] = "handle" /\ accepted'[k] = r
  BY <1>1, <1>2, <1>4, <1>5, ThreadFacts DEF JoinInv
<1> QED
  BY <1>3, <1>5 DEF JoinInv, Joined

LEMMA AnswerJoin ==
  ASSUME ControlInv, JoinInv, NEW r \in Request,
         AnswerWorker(r) \/ ReadHttpRequest(r) \/ ReadHttpRequestFails(r)
  PROVE  JoinInv'
<1>1. pc[r] \notin {"none", "done"}
  BY DEF AnswerWorker, CreateConnection, CreateScan, CreateMark, AddConnection, AnswerLock,
     FindBySessionId, CreateTcpConnection, CreateTcpConnectionRefuses, AddSocket,
     RemoveAnswerSocket, ReadHttpRequest, ReadHttpRequestFails
<1>2. PICK label : Goto(r, label)
  <2>0. r # Main
    BY ThreadFacts
  <2> QED
    BY DEF AnswerWorker, CreateConnection, CreateScan, CreateMark, AddConnection, AnswerLock,
       FindBySessionId, CreateTcpConnection, CreateTcpConnectionRefuses, AddSocket,
       RemoveAnswerSocket, ReadHttpRequest, ReadHttpRequestFails
<1>3. UNCHANGED <<listener, accepted, AnswerThreads>>
  <2>1. CASE CreateConnection(r)
    BY <2>1 DEF CreateConnection, CreateScan, CreateMark, AddConnection, listenerVars, hostVars
  <2>2. CASE ~CreateConnection(r)
    BY <2>2 DEF AnswerWorker, AnswerLock, FindBySessionId, CreateTcpConnection,
       CreateTcpConnectionRefuses, AddSocket, RemoveAnswerSocket, ReadHttpRequest,
       ReadHttpRequestFails, listenerVars, hostVars
  <2> QED
    BY <2>1, <2>2
<1>4. pc[Main] \notin Joined
  BY <1>1 DEF JoinInv
<1>5. /\ pc'[Main] = pc[Main]
      /\ \A q \in Request : q # r => pc'[q] = pc[q]
  BY <1>2, ThreadFacts DEF Goto, ControlInv, ControlTypes
<1> QED
  BY <1>1, <1>3, <1>4, <1>5 DEF JoinInv, Joined

LEMMA MainJoin ==
  ASSUME ControlInv, JoinInv, MainOther
  PROVE  JoinInv'
<1>1. \A r \in Request : pc'[r] = pc[r]
  BY MainOtherControl
<1>2. UNCHANGED <<listener, accepted>>
  BY DEF MainOther, ProcessOutboundPacket, FindByVirtualIp, Stop, CloseListenerSockets,
     CloseAnswerSockets, JoinListeners, JoinAnswers, DisposedConnections, JoinThreads, listenerVars
<1>3. ASSUME NEW label, Goto(Main, label) PROVE pc'[Main] = label
  BY <1>3, ThreadFacts DEF Goto, ControlInv, ControlTypes
<1>4. CASE \/ ProcessOutboundPacket \/ (\E c \in Connections : FindByVirtualIp(c)) \/ Stop
           \/ CloseListenerSockets \/ CloseAnswerSockets
  <2>1. /\ pc'[Main] \in {"idle", "use", "closeListeners", "closeAnswers", "joinListeners"}
        /\ UNCHANGED AnswerThreads
    BY <1>3, <1>4 DEF ProcessOutboundPacket, FindByVirtualIp, Stop, CloseListenerSockets,
       CloseAnswerSockets, hostVars
  <2> QED
    BY <1>1, <1>2, <2>1 DEF JoinInv, Joined
<1>5. CASE JoinListeners
  <2>1. /\ pc'[Main] = "joinAnswers" /\ UNCHANGED AnswerThreads
        /\ \A l \in Listener : listener[l] = "done"
    BY <1>3, <1>5 DEF JoinListeners, hostVars
  <2> QED
    BY <1>1, <1>2, <2>1 DEF JoinInv, Joined
<1>6. CASE JoinAnswers
  <2>1. /\ pc[Main] = "joinAnswers" /\ pc'[Main] = "dispose"
        /\ \A r \in AnswerThreads : pc[r] = "done"
    BY <1>3, <1>6 DEF JoinAnswers
  <2>2. \A l \in Listener : listener[l] = "done"
    BY <2>1 DEF JoinInv
  <2>3. \A r \in Request : pc[r] \in {"none", "done"}
    BY <2>1, <2>2 DEF JoinInv
  <2> QED
    BY <1>1, <1>2, <2>1, <2>2, <2>3 DEF JoinInv, Joined
<1>7. CASE DisposedConnections \/ JoinThreads
  <2>1. /\ UNCHANGED <<AnswerThreads, Connections, Threads>>
        /\ \/ pc[Main] = "dispose" /\ pc'[Main] = "joinThreads" /\ Connections = {}
           \/ pc[Main] = "joinThreads" /\ pc'[Main] = "disposed" /\ Threads = {}
    BY <1>3, <1>7 DEF DisposedConnections, JoinThreads, connectionVars, hostVars, otherVars
  <2> QED
    BY <1>1, <1>2, <2>1 DEF JoinInv, Joined
<1> QED
  BY <1>4, <1>5, <1>6, <1>7 DEF MainOther

LEMMA MainCreateJoin ==
  ASSUME ControlInv, JoinInv,
         \/ CreateScan(Main) \/ CreateMark(Main) \/ AddConnection(Main) \/ ProcessFirstPacket
         \/ \E key \in Flow \cup {BadPacket} : ProcessInboundPacket(key)
  PROVE  JoinInv'
<1>1. PICK label \in {"scan", "mark", "add", "process", "idle"} : Goto(Main, label)
  BY DEF CreateScan, CreateMark, AddConnection, ProcessFirstPacket, ProcessInboundPacket
<1>2. pc'[Main] = label /\ \A r \in Request : pc'[r] = pc[r]
  BY <1>1, ThreadFacts DEF Goto, ControlInv, ControlTypes
<1>3. UNCHANGED <<listener, accepted, AnswerThreads>>
  BY DEF CreateScan, CreateMark, AddConnection, ProcessFirstPacket, ProcessInboundPacket,
     listenerVars, hostVars
<1> QED
  BY <1>2, <1>3 DEF JoinInv, Joined

LEMMA QuietJoin ==
  ASSUME ControlInv, JoinInv, Quiet
  PROVE  JoinInv'
<1>1. UNCHANGED <<pc, listener, accepted>>
  BY QuietControl
<1>2. UNCHANGED AnswerThreads
  BY DEF Quiet, TimesOut, SetWorkingState, DisposeConnection, CourierDeleted, vars, hostVars
<1>3. /\ Connections' \subseteq Connections
      /\ pc[Main] # "disposed" \/ Threads' \subseteq Threads
  BY DEF Quiet, TimesOut, SetWorkingState, DisposeConnection, CourierDeleted, vars,
     connectionVars, otherVars
<1> QED
  BY <1>1, <1>2, <1>3 DEF JoinInv

\* BarbaServerTcpHost::Dispose and BarbaServerApp::Dispose leave no thread behind:
\* connections are deleted by main alone, after every listener and answer thread
\* has ended, and when it returns none is left, for any number of threads.
THEOREM TornDownCorrect == Spec => []TornDownAlone
<1>1. Init => JoinInv
  BY ThreadFacts DEF Init, JoinInv, Joined
<1>2. TypeInv /\ JoinInv /\ [Next]_vars => JoinInv'
  <2> SUFFICES ASSUME TypeInv, JoinInv, [Next]_vars PROVE JoinInv'
    OBVIOUS
  <2>1. ControlInv
    BY TypeStep
  <2> QED
    BY <2>1, StepCases, ListenerJoin, StartJoin, AnswerJoin, MainJoin, MainCreateJoin, QuietJoin
<1>3. JoinInv => TornDownAlone
  BY DEF JoinInv, TornDownAlone, Joined
<1> QED
  BY <1>1, <1>2, <1>3, TypeInvariant, PTL DEF Spec

-----------------------------------------------------------------------------
(* Virtual addresses. *)

Accounted(a) ==
  /\ \A o, p \in Owners(a) : o = p
  /\ Owners(a) # {} => VirtualIps[a]
  /\ VirtualIps[a] /\ a # 0 => Owners(a) # {}

IdInv ==
  /\ \A c \in Connections : c.id <= LastConnectionId
  /\ \A c, d \in Connections : c.id = d.id => c = d

Takes(t, a) == pc[t] = "add" /\ newIp[t] = a

\* A step that concerns no address.
Keeps ==
  /\ UNCHANGED <<Connections, VirtualIps, LastConnectionId, raced>>
  /\ \A t \in Thread, a \in Address : Takes(t, a)' <=> Takes(t, a)

LEMMA OwnerFacts ==
  /\ \A o : \A a : o \in Owners(a) <=>
       \/ \E c \in Connections : c.ip = a /\ o = c.id
       \/ o \in Thread /\ Takes(o, a)
  /\ \A o : \A a : o \in Owners(a)' <=>
       \/ \E c \in Connections' : c.ip = a /\ o = c.id
       \/ o \in Thread /\ Takes(o, a)'
BY DEF Owners, Takes

LEMMA AddressCases ==
  ASSUME ControlInv, [Next]_vars
  PROVE  \/ \E t \in Thread : CreateMark(t) \/ AddConnection(t)
         \/ ProcessFirstPacket
         \/ \E c \in Connections : DisposeConnection(c)
         \/ Keeps
<1> DEFINE Goal == \/ \E t \in Thread : CreateMark(t) \/ AddConnection(t)
                   \/ ProcessFirstPacket
                   \/ \E c \in Connections : DisposeConnection(c)
                   \/ Keeps
<1>0. ASSUME NEW t \in Thread, NEW label, Goto(t, label),
             label # "add", pc[t] # "add", \A u \in Thread : u # t => newIp'[u] = newIp[u]
      PROVE  \A u \in Thread, a \in Address : Takes(u, a)' <=> Takes(u, a)
  <2>1. pc'[t] = label /\ \A u \in Thread : u # t => pc'[u] = pc[u]
    BY <1>0 DEF Goto, ControlInv, ControlTypes
  <2> QED
    BY <1>0, <2>1 DEF Takes
<1>1. ASSUME NEW l \in Listener,
             \/ ListenerLoop(l) \/ AcceptFails(l) \/ AddAnswerSocket(l) \/ AddAnswerThread(l)
             \/ \E r \in Request : Accept(l, r)
      PROVE  Goal
  BY <1>1 DEF ListenerLoop, AcceptFails, AddAnswerSocket, AddAnswerThread, Accept, connectionVars,
     threadVars, otherVars, Keeps, Takes
<1>2. ASSUME NEW l \in Listener, StartAnswerThread(l)
      PROVE  Goal
  <2>1. /\ pc[accepted[l]] = "none" /\ pc'[accepted[l]] = "read"
        /\ \A u \in Thread : u # accepted[l] => pc'[u] = pc[u]
    BY <1>2, StartControl
  <2>2. UNCHANGED <<Connections, VirtualIps, LastConnectionId, raced, newIp>>
    BY <1>2 DEF StartAnswerThread, connectionVars, otherVars
  <2> QED
    BY <2>1, <2>2 DEF Keeps, Takes
<1>3. ASSUME NEW t \in Thread, CreateScan(t)
      PROVE  Goal
  <2>1. /\ Goto(t, "mark") /\ pc[t] = "scan"
        /\ newIp' = [newIp EXCEPT ![t] = GetNewIp]
        /\ UNCHANGED <<Connections, VirtualIps, LastConnectionId, raced>>
    BY <1>3 DEF CreateScan, connectionVars, otherVars
  <2>2. pc'[t] = "mark" /\ \A u \in Thread : u # t => pc'[u] = pc[u]
    BY <2>1 DEF Goto, ControlInv, ControlTypes
  <2> QED
    BY <1>0, <2>1, <2>2 DEF Keeps
<1>4. ASSUME NEW r \in Request,
             AnswerWorker(r) \/ ReadHttpRequest(r) \/ ReadHttpRequestFails(r)
      PROVE  Goal
  <2>0. r \in Thread
    BY ThreadFacts
  <2>1. CASE CreateConnection(r)
    BY <1>3, <2>0, <2>1 DEF CreateConnection
  <2>2. CASE ~CreateConnection(r)
    <3>1. PICK label \in {"lock", "remove", "find", "socket", "scan", "done"} :
            Goto(r, label) /\ pc[r] # "add"
      BY <1>4, <2>2 DEF AnswerWorker, AnswerLock, FindBySessionId, CreateTcpConnection,
         CreateTcpConnectionRefuses, AddSocket, RemoveAnswerSocket, ReadHttpRequest,
         ReadHttpRequestFails
    <3>2. UNCHANGED <<Connections, VirtualIps, LastConnectionId, newIp, raced>>
      BY <1>4, <2>2 DEF AnswerWorker, AnswerLock, FindBySessionId, CreateTcpConnection,
         CreateTcpConnectionRefuses, AddSocket, RemoveAnswerSocket, ReadHttpRequest,
         ReadHttpRequestFails, connectionVars, otherVars
    <3> QED
      BY <1>0, <2>0, <3>1, <3>2 DEF Keeps
  <2> QED
    BY <2>1, <2>2
<1>5. ASSUME MainOther
      PROVE  Goal
  <2>1. /\ pc[Main] \notin CreatePC /\ pc'[Main] \notin CreatePC
        /\ \A r \in Request : pc'[r] = pc[r]
    BY <1>5, MainOtherControl
  <2>2. UNCHANGED <<Connections, VirtualIps, LastConnectionId, newIp, raced>>
    BY <1>5 DEF MainOther, ProcessOutboundPacket, FindByVirtualIp, Stop, CloseListenerSockets,
       CloseAnswerSockets, JoinListeners, JoinAnswers, DisposedConnections, JoinThreads,
       connectionVars, otherVars
  <2> QED
    BY <2>1, <2>2, ThreadFacts DEF Keeps, Takes, CreatePC
<1>6. ASSUME NEW key \in Flow \cup {BadPacket}, ProcessInboundPacket(key)
      PROVE  Goal
  <2>1. /\ Goto(Main, "scan") /\ pc[Main] = "idle"
        /\ UNCHANGED <<Connections, VirtualIps, LastConnectionId, newIp, raced>>
    BY <1>6 DEF ProcessInboundPacket, otherVars
  <2> QED
    BY <1>0, <2>1, ThreadFacts DEF Keeps
<1>7. ASSUME Quiet
      PROVE  Goal
  BY <1>7 DEF Quiet, TimesOut, SetWorkingState, CourierDeleted, vars, connectionVars,
     threadVars, otherVars, Keeps, Takes
<1> QED
  BY <1>1, <1>2, <1>3, <1>4, <1>5, <1>6, <1>7, StepCases, ThreadFacts

\* Main does not come back from Dispose.
LEMMA DisposeStays ==
  ASSUME ControlInv, [Next]_vars, pc[Main] \in DisposePC
  PROVE  pc'[Main] \in DisposePC
<1>0. ASSUME NEW label, Goto(Main, label) PROVE pc'[Main] = label
  BY <1>0, ThreadFacts DEF Goto, ControlInv, ControlTypes
<1>1. CASE UNCHANGED pc
  BY <1>1
<1>2. ASSUME NEW t \in Thread, NEW label, Goto(t, label), t # Main
      PROVE  pc'[Main] = pc[Main]
  BY <1>2, ThreadFacts DEF Goto, ControlInv, ControlTypes
<1>3. ASSUME NEW l \in Listener,
             \/ ListenerLoop(l) \/ AcceptFails(l) \/ AddAnswerSocket(l) \/ AddAnswerThread(l)
             \/ \E r \in Request : Accept(l, r)
      PROVE  UNCHANGED pc
  BY <1>3 DEF ListenerLoop, AcceptFails, AddAnswerSocket, AddAnswerThread, Accept, threadVars
<1>4. ASSUME NEW l \in Listener, StartAnswerThread(l)
      PROVE  pc'[Main] = pc[Main]
  BY <1>4, StartControl, ThreadFacts
<1>5. ASSUME NEW r \in Request,
             AnswerWorker(r) \/ ReadHttpRequest(r) \/ ReadHttpRequestFails(r)
      PROVE  pc'[Main] = pc[Main]
  <2>1. r # Main /\ r \in Thread
    BY ThreadFacts
  <2>2. PICK label : Goto(r, label)
    BY <1>5, <2>1 DEF AnswerWorker, CreateConnection, CreateScan, CreateMark, AddConnection,
       AnswerLock, FindBySessionId, CreateTcpConnection, CreateTcpConnectionRefuses, AddSocket,
       RemoveAnswerSocket, ReadHttpRequest, ReadHttpRequestFails
  <2> QED
    BY <1>2, <2>1, <2>2
<1>6. ASSUME MainOther
      PROVE  pc'[Main] \in DisposePC
  <2>1. CASE ProcessOutboundPacket \/ (\E c \in Connections : FindByVirtualIp(c)) \/ Stop
    BY <2>1 DEF ProcessOutboundPacket, FindByVirtualIp, Stop, DisposePC
  <2>2. CASE CloseListenerSockets \/ CloseAnswerSockets \/ JoinListeners \/ JoinAnswers
    BY <1>0, <2>2 DEF CloseListenerSockets, CloseAnswerSockets, JoinListeners, JoinAnswers,
       DisposePC
  <2>3. CASE DisposedConnections \/ JoinThreads
    BY <1>0, <2>3 DEF DisposedConnections, JoinThreads, DisposePC
  <2> QED
    BY <1>6, <2>1, <2>2, <2>3 DEF MainOther
<1>7. ~ \/ CreateScan(Main) \/ CreateMark(Main) \/ AddConnection(Main) \/ ProcessFirstPacket
        \/ \E key \in Flow \cup {BadPacket} : ProcessInboundPacket(key)
  BY DEF CreateScan, CreateMark, AddConnection, ProcessFirstPacket, ProcessInboundPacket, DisposePC
<1> QED
  BY <1>1, <1>3, <1>4, <1>5, <1>6, <1>7, StepCases, QuietControl

\* Removing connections releases their addresses and no other.
LEMMA RemoveAddress ==
  ASSUME TypeInv, IdInv, NEW a \in Address, Accounted(a),
         NEW gone \in SUBSET Connections, NEW new, RemoveConnections(gone, new),
         \A n \in new : n.ip # a,
         \A t \in Thread : Takes(t, a)' <=> Takes(t, a)
  PROVE  Accounted(a)'
<1>1. /\ Connections' = (Connections \ gone) \cup new
      /\ VirtualIps'[a] <=> VirtualIps[a] /\ (a = 0 \/ \A c \in gone : c.ip # a)
  BY DEF RemoveConnections, ReleaseIp
<1>2. \A c \in Connections : c.ip = a /\ c \in Connections' <=> c.ip = a /\ c \notin gone
  BY <1>1
<1>3. \A o : o \in Owners(a)' <=> \/ \E c \in Connections \ gone : c.ip = a /\ o = c.id
                                  \/ o \in Thread /\ Takes(o, a)
  BY <1>1, OwnerFacts
<1>4. \A c \in Connections : c.ip = a => c.id \in Owners(a) /\ c.id \notin Thread
  <2>1. \A c \in Connections : c.id \in Nat
    BY ConstantsAssumption DEF TypeInv, TypeOK, Connection, ConnectionId
  <2>2. Thread \cap Nat = {}
    BY ConstantsAssumption
  <2> QED
    BY <2>1, <2>2, OwnerFacts
<1>5. \A o \in Owners(a)' : o \in Owners(a)
  BY <1>3, OwnerFacts
<1>6. ASSUME NEW o \in Owners(a)', NEW c \in gone, c.ip = a
      PROVE  FALSE
  <2>1. o = c.id /\ o \notin Thread
    BY <1>4, <1>5, <1>6 DEF Accounted
  <2>2. PICK d \in Connections \ gone : o = d.id
    BY <1>3, <2>1
  <2> QED
    BY <2>1, <2>2 DEF IdInv
<1>7. Owners(a)' # {} => VirtualIps'[a]
  BY <1>1, <1>5, <1>6 DEF Accounted
<1>8. VirtualIps'[a] /\ a # 0 => Owners(a)' # {}
  <2> SUFFICES ASSUME VirtualIps'[a], a # 0
               PROVE  Owners(a)' # {}
    OBVIOUS
  <2>1. PICK o : o \in Owners(a)
    BY <1>1 DEF Accounted
  <2>2. \A c \in gone : c.ip # a
    BY <1>1
  <2>3. o \in Owners(a)'
    BY <1>3, <2>1, <2>2, OwnerFacts
  <2> QED
    BY <2>3
<1>9. \A o, p \in Owners(a)' : o = p
  BY <1>5 DEF Accounted
<1> QED
  BY <1>7, <1>8, <1>9 DEF Accounted

AddressInv == IdInv /\ AddressesAccounted

LEMMA IdStep ==
  ASSUME TypeInv, IdInv, [Next]_vars
  PROVE  IdInv'
<1>0. ControlInv
  BY TypeStep
<1>1. \A c \in Connections : c.id \in Nat
  BY ConstantsAssumption DEF TypeInv, TypeOK, Connection, ConnectionId
<1>2. LastConnectionId \in Nat
  BY ConstantsAssumption DEF TypeInv, TypeOK, ConnectionId
<1>3. ASSUME NEW t \in Thread, EndsCreation(t)
      PROVE  IdInv'
  <2>1. PICK gone \in SUBSET Connections : RemoveConnections(gone, {NewConnection(t)})
    BY <1>0, <1>3, EndFacts
  <2>2. LastConnectionId' = LastConnectionId + 1
    BY <1>0, <1>3, EndFacts
  <2>3. Connections' \subseteq Connections \cup {NewConnection(t)}
    BY <2>1 DEF RemoveConnections
  <2>4. NewConnection(t).id = LastConnectionId + 1
    BY DEF NewConnection
  <2>5. \A c \in Connections : c.id <= LastConnectionId + 1 /\ c.id # LastConnectionId + 1
    BY <1>1, <1>2 DEF IdInv
  <2>6. \A c \in Connections' : c.id <= LastConnectionId'
    BY <1>2, <2>2, <2>3, <2>4, <2>5
  <2>7. \A c, d \in Connections' : c.id = d.id => c = d
    BY <2>3, <2>4, <2>5 DEF IdInv
  <2> QED
    BY <2>6, <2>7 DEF IdInv
<1>4. ASSUME \A t \in Thread : ~EndsCreation(t)
      PROVE  IdInv'
  <2>1. UNCHANGED LastConnectionId /\ Connections' \subseteq Connections
    BY <1>0, <1>4, BeginFacts, RestFacts
  <2> QED
    BY <2>1 DEF IdInv
<1> QED
  BY <1>3, <1>4

LEMMA AddressStep ==
  ASSUME TypeInv, AddressInv, [Next]_vars
  PROVE  AddressesAccounted'
<1>0. ControlInv /\ IdInv /\ raced \in BOOLEAN
  BY TypeStep DEF AddressInv, TypeInv, TypeOK
<1> SUFFICES ASSUME ~raced', pc'[Main] \notin DisposePC, NEW a \in Address
             PROVE  Accounted(a)'
  BY DEF AddressesAccounted, Accounted
<1>1. pc[Main] \notin DisposePC
  BY <1>0, DisposeStays
<1>2. ASSUME ~raced PROVE Accounted(a)
  BY <1>1, <1>2 DEF AddressInv, AddressesAccounted, Accounted
<1>3. ASSUME NEW t \in Thread, CreateMark(t)
      PROVE  Accounted(a)'
  <2>1. /\ pc[t] = "mark" /\ Goto(t, "add")
        /\ VirtualIps' = [b \in Address |-> VirtualIps[b] \/ b = newIp[t]]
        /\ raced' = (raced \/ (newIp[t] # NoIp /\ VirtualIps[newIp[t]]))
        /\ UNCHANGED <<Connections, newIp>>
    BY <1>3 DEF CreateMark
  <2>2. pc'[t] = "add" /\ \A u \in Thread : u # t => pc'[u] = pc[u]
    BY <2>1 DEF Goto, ControlInv, ControlTypes, TypeInv, TypeOK
  <2>3. ~raced /\ ~(newIp[t] # NoIp /\ VirtualIps[newIp[t]])
    BY <2>1
  <2>4. \A o : o \in Owners(a)' <=> o \in Owners(a) \/ (o = t /\ newIp[t] = a)
    BY <2>1, <2>2, OwnerFacts DEF Takes
  <2>5. VirtualIps'[a] <=> VirtualIps[a] \/ a = newIp[t]
    BY <2>1
  <2>6. CASE newIp[t] = a
    <3>1. a # NoIp
      BY ConstantsAssumption DEF Address
    <3>2. Owners(a) = {}
      BY <1>2, <2>3, <2>6, <3>1 DEF Accounted
    <3> QED
      BY <2>4, <2>5, <2>6, <3>2 DEF Accounted
  <2>7. CASE newIp[t] # a
    <3>1. \A o : o \in Owners(a)' <=> o \in Owners(a)
      BY <2>4, <2>7
    <3> QED
      BY <1>2, <2>3, <2>5, <2>7, <3>1 DEF Accounted
  <2> QED
    BY <2>6, <2>7
<1>4. ASSUME NEW t \in Thread, AddConnection(t)
      PROVE  Accounted(a)'
  <2> DEFINE new == NewConnection(t)
  <2>1. /\ pc[t] = "add" /\ pc'[t] # "add"
        /\ \A u \in Thread : u # t => pc'[u] = pc[u]
        /\ UNCHANGED <<newIp, raced>>
    BY <1>0, <1>4, EndFacts DEF EndsCreation
  <2>2. PICK gone \in SUBSET Connections : RemoveConnections(gone, {new})
    BY <1>0, <1>4, EndFacts DEF EndsCreation
  <2>3. new.ip = newIp[t]
    BY DEF NewConnection
  <2> HIDE DEF new
  <2>4. Accounted(a)
    BY <1>2, <2>1
  <2>5. CASE newIp[t] # a
    BY <1>0, <2>1, <2>2, <2>3, <2>4, <2>5, RemoveAddress DEF Takes
  <2>6. CASE newIp[t] = a
    <3>1. t \in Owners(a) /\ VirtualIps[a] /\ \A o \in Owners(a) : o = t
      BY <2>1, <2>4, <2>6, OwnerFacts DEF Takes, Accounted
    <3>2. \A c \in Connections : c.ip # a
      <4>1. \A c \in Connections : c.id \in Nat
        BY ConstantsAssumption DEF TypeInv, TypeOK, Connection, ConnectionId
      <4>2. t \notin Nat
        BY ConstantsAssumption
      <4> QED
        BY <3>1, <4>1, <4>2, OwnerFacts
    <3>3. /\ Connections' = (Connections \ gone) \cup {new}
          /\ VirtualIps'[a] <=> VirtualIps[a] /\ (a = 0 \/ \A c \in gone : c.ip # a)
      BY <2>2 DEF RemoveConnections, ReleaseIp
    <3>4. \A o : o \in Owners(a)' <=> o = new.id
      <4>1. \A u \in Thread : ~Takes(u, a)'
        BY <2>1, <3>1, OwnerFacts DEF Takes
      <4> QED
        BY <2>3, <2>6, <3>2, <3>3, <4>1, OwnerFacts
    <3> QED
      BY <3>1, <3>2, <3>3, <3>4 DEF Accounted
  <2> QED
    BY <2>5, <2>6
<1>5. CASE ProcessFirstPacket
  <2>1. /\ pc[Main] = "process" /\ Goto(Main, "idle") /\ UNCHANGED <<newIp, raced>>
        /\ \E gone \in SUBSET Connections : RemoveConnections(gone, {})
    BY <1>5 DEF ProcessFirstPacket
  <2>2. pc'[Main] = "idle" /\ \A u \in Thread : u # Main => pc'[u] = pc[u]
    BY <1>0, <2>1, ThreadFacts DEF Goto, ControlInv, ControlTypes
  <2>3. \A u \in Thread : Takes(u, a)' <=> Takes(u, a)
    BY <2>1, <2>2 DEF Takes
  <2> QED
    BY <1>0, <1>2, <2>1, <2>3, RemoveAddress
<1>6. ASSUME NEW c \in Connections, DisposeConnection(c)
      PROVE  FALSE
  BY <1>1, <1>6 DEF DisposeConnection, DisposePC
<1>7. CASE Keeps
  <2>1. UNCHANGED <<VirtualIps, raced>> /\ \A o : o \in Owners(a)' <=> o \in Owners(a)
    BY <1>7, OwnerFacts DEF Keeps
  <2> QED
    BY <1>2, <2>1 DEF Accounted
<1> QED
  BY <1>0, <1>3, <1>4, <1>5, <1>6, <1>7, AddressCases

\* GetNewIp and ReleaseIp, as the connection manager calls them, neither give an
\* address twice nor lose one, as long as GetNewIp's read and write of VirtualIps
\* have not been interleaved with another thread's, for any number of addresses.
THEOREM AddressesCorrect == Spec => []AddressesAccounted
<1>1. Init => AddressInv
  <2> SUFFICES ASSUME Init PROVE AddressInv
    OBVIOUS
  <2>1. Connections = {} /\ \A a \in Address : ~VirtualIps[a]
    BY DEF Init
  <2>2. \A t \in Thread : pc[t] # "add"
    BY DEF Init
  <2>3. \A a \in Address : Owners(a) = {}
    BY <2>1, <2>2, OwnerFacts DEF Takes
  <2> QED
    BY <2>1, <2>3 DEF AddressInv, IdInv, AddressesAccounted
<1>2. TypeInv /\ AddressInv /\ [Next]_vars => AddressInv'
  BY IdStep, AddressStep DEF AddressInv
<1>3. AddressInv => AddressesAccounted
  BY DEF AddressInv
<1> QED
  BY <1>1, <1>2, <1>3, TypeInvariant, PTL DEF Spec
=============================================================================
