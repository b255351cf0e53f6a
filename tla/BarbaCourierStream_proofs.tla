---------------------- MODULE BarbaCourierStream_proofs ----------------------
(***************************************************************************)
(* Proofs about BarbaCourierStream for any set of messages and any number  *)
(* of connections.                                                         *)
(***************************************************************************)
EXTENDS BarbaCourierStream, SequenceTheorems, TLAPS

(***************************************************************************)
(* The sub-actions of Next, each with its parameters bound.                *)
(***************************************************************************)
LEMMA NextCases ==
  ASSUME [Next]_vars
  PROVE  \/ \E m \in Message : SendBegin(m)
         \/ \E t \in Thread : Send(t)
         \/ \E w \in Worker : ClientWorker(w)
         \/ \E w \in Worker : ProcessOutgoing(w)
         \/ \E w \in Worker : Environment(w)
         \/ Delete
         \/ Dispose
         \/ UNCHANGED vars
  BY DEF Next, Terminated

-----------------------------------------------------------------------------

\* The initial states have the right types.
LEMMA InitTypeOK == Init => TypeOK
  <1> SUFFICES ASSUME Init PROVE TypeOK
    OBVIOUS
  <1> USE ConstantsAssumption DEF Init, Thread
  <1>1. /\ Messages \in Seq(Message)
        /\ outbox \in [Thread -> Seq(Message)]
        /\ hand \in [Worker -> Seq(Message)]
        /\ packet \in [Worker -> Seq(Message)]
    BY EmptySeq
  <1>2. /\ pc \in [Thread -> FilterPC \cup WorkerPC]
        /\ pc[Filter] \in FilterPC
        /\ \A w \in Worker : pc[w] \in WorkerPC
        /\ return \in [Thread -> {"idle", "transmit", "exit"}]
        /\ return[Filter] = "idle"
        /\ \A w \in Worker : return[w] # "idle"
    BY DEF FilterPC, WorkerPC
  <1>3. /\ packetSize \in [Worker -> Nat]
        /\ sentBytes \in [Worker -> Nat]
        /\ maxBytes \in [Worker -> TransferSizes]
        /\ isOpen \in [Worker -> BOOLEAN]
        /\ sentCount \in [Message -> Nat]
    OBVIOUS
  <1>4. QED
    BY <1>1, <1>2, <1>3 DEF TypeOK, DisposerPC

\* No step of the program leads out of the types.
LEMMA StepTypeOK == TypeOK /\ [Next]_vars => TypeOK'
  <1> SUFFICES ASSUME TypeOK, [Next]_vars PROVE TypeOK'
    OBVIOUS
  <1> USE ConstantsAssumption
      DEF TypeOK, Thread, FilterPC, WorkerPC, Goto, queueVars, disposeVars, controlVars,
          localVars, socketVars, historyVars
  <1>1. ASSUME NEW m \in Message, SendBegin(m) PROVE TypeOK'
    BY <1>1 DEF SendBegin
  <1>2. ASSUME NEW t \in Thread, Send(t) PROVE TypeOK'
    <2>1. CASE SendDiscards(t)
      BY <2>1, EmptySeq DEF SendDiscards
    <2>2. CASE SendChecked(t)
      BY <2>2 DEF SendChecked
    <2>3. CASE SendEnter(t)
      BY <2>3 DEF SendEnter
    <2>4. CASE SendAdd(t)
      <3>1. outbox[t] \in Seq(Message) /\ outbox[t] # <<>>
        BY <2>4 DEF SendAdd
      <3>2. Head(outbox[t]) \in Message /\ Tail(outbox[t]) \in Seq(Message)
        BY <3>1, HeadTailProperties
      <3>3. /\ Append(Messages, Head(outbox[t])) \in Seq(Message)
            /\ <<Head(outbox[t])>> \o Messages \in Seq(Message)
        BY <3>2, AppendProperties, ConcatProperties
      <3>4. QED
        BY <2>4, <3>2, <3>3 DEF SendAdd
    <2>5. CASE SendLeave(t)
      BY <2>5 DEF SendLeave
    <2>6. QED
      BY <1>2, <2>1, <2>2, <2>3, <2>4, <2>5 DEF Send
  <1>3. ASSUME NEW w \in Worker, ClientWorker(w) PROVE TypeOK'
    <2>1. CASE ClientWorkerLoop(w)
      BY <2>1 DEF ClientWorkerLoop
    <2>2. CASE Connect(w)
      BY <2>2 DEF Connect
    <2>3. CASE RemoveSocket(w)
      BY <2>3 DEF RemoveSocket
    <2>4. QED
      BY <1>3, <2>1, <2>2, <2>3 DEF ClientWorker
  <1>4. ASSUME NEW w \in Worker, ProcessOutgoing(w) PROVE TypeOK'
    <2>1. CASE OutgoingLoop(w) \/ WaitSignalled(w) \/ WaitTimeout(w) \/ GetMessagesEnd(w)
      BY <2>1 DEF OutgoingLoop, WaitSignalled, WaitTimeout, GetMessagesEnd
    <2>2. CASE GetMessage(w)
      <3>1. Head(Messages) \in Message /\ Tail(Messages) \in Seq(Message)
        BY <2>2, HeadTailProperties DEF GetMessage
      <3>2. Append(hand[w], Head(Messages)) \in Seq(Message)
        BY <3>1, AppendProperties
      <3>3. QED
        BY <2>2, <3>1, <3>2 DEF GetMessage
    <2>3. CASE IncludeMessage(w)
      <3>1. Head(hand[w]) \in Message /\ Tail(hand[w]) \in Seq(Message)
        BY <2>3, HeadTailProperties DEF IncludeMessage
      <3>2. Append(packet[w], Head(hand[w])) \in Seq(Message)
        BY <3>1, AppendProperties
      <3>3. packetSize[w] + Size[Head(hand[w])] \in Nat
        <4>1. Size[Head(hand[w])] \in Nat /\ packetSize[w] \in Nat
          BY <3>1
        <4>2. QED
          BY <4>1
      <3>4. QED
        BY <2>3, <3>1, <3>2, <3>3 DEF IncludeMessage
    <2>4. CASE ExcludeMessage(w)
      <3>1. Head(hand[w]) \in Message /\ Tail(hand[w]) \in Seq(Message)
        BY <2>4, HeadTailProperties DEF ExcludeMessage
      <3>2. Append(outbox[w], Head(hand[w])) \in Seq(Message)
        BY <3>1, AppendProperties
      <3>3. QED
        BY <2>4, <3>1, <3>2 DEF ExcludeMessage
    <2>5. CASE PackEnd(w)
      BY <2>5 DEF PackEnd
    <2>6. CASE Transmit(w)
      <3>1. TransferCount(w) \in Nat
        BY DEF TransferCount, MaxPacketSize
      <3>2. sentBytes' \in [Worker -> Nat]
        BY <2>6, <3>1 DEF Transmit
      <3>3. sentCount' \in [Message -> Nat]
        BY <2>6 DEF Transmit
      <3>4. QED
        BY <2>6, <3>2, <3>3, EmptySeq DEF Transmit
    <2>7. CASE TransmitFails(w)
      BY <2>7, EmptySeq DEF TransmitFails
    <2>8. CASE AfterSendMessage(w)
      BY <2>8 DEF AfterSendMessage
    <2>9. CASE ResetEnter(w) \/ ResetTest(w) \/ ResetSkip(w) \/ ResetClear(w)
      BY <2>9 DEF ResetEnter, ResetTest, ResetSkip, ResetClear
    <2>10. QED
      BY <1>4, <2>1, <2>2, <2>3, <2>4, <2>5, <2>6, <2>7, <2>8, <2>9 DEF ProcessOutgoing
  <1>5. ASSUME NEW w \in Worker, Environment(w) PROVE TypeOK'
    <2>1. CASE ConnectFails(w)
      <3>1. failures' \in Nat
        BY <2>1 DEF ConnectFails
      <3>2. /\ pc' \in [Thread -> FilterPC \cup WorkerPC]
            /\ pc'[Filter] \in FilterPC
            /\ \A v \in Worker : pc'[v] \in WorkerPC
        BY <2>1 DEF ConnectFails
      <3>3. QED
        BY <2>1, <3>1, <3>2 DEF ConnectFails
    <2>2. CASE SocketBreaks(w)
      BY <2>2 DEF SocketBreaks
    <2>3. CASE AfterSendMessageFails(w)
      BY <2>3 DEF AfterSendMessageFails
    <2>4. QED
      BY <1>5, <2>1, <2>2, <2>3 DEF Environment
  <1>6. CASE Delete
    BY <1>6 DEF Delete, DisposerPC
  <1>7. CASE Dispose
    <2>1. CASE DisposeDrain
      BY <2>1, HeadTailProperties DEF DisposeDrain
    <2>2. CASE DisposeClose \/ DisposeDrained \/ DisposePulse \/ DisposeJoin
      BY <2>2 DEF DisposeClose, DisposeDrained, DisposePulse, DisposeJoin, DisposerPC
    <2>3. QED
      BY <1>7, <2>1, <2>2 DEF Dispose
  <1>8. CASE UNCHANGED vars
    BY <1>8 DEF vars
  <1>9. QED
    BY <1>1, <1>2, <1>3, <1>4, <1>5, <1>6, <1>7, <1>8, NextCases

\* Every variable keeps its type, whatever the messages, the workers and their
\* interleaving: in particular the filter thread never leaves Send by a
\* worker's path, and no list ever holds anything but messages.
THEOREM TypeCorrect == Spec => []TypeOK
  <1>1. QED
    BY InitTypeOK, StepTypeOK, PTL DEF Spec

-----------------------------------------------------------------------------
(* The wake-up protocol of SendEvent. *)

\* SendEventCS is owned by the one thread that is inside it.
CriticalSection ==
  \A t \in Thread : pc[t] \in {"add", "locked", "clear"} <=> SendEventCS = t

\* Between the test for an empty list and SendEvent.Reset nothing is added.
ClearWhileEmpty == \A w \in Worker : pc[w] = "clear" => Messages = <<>>

\* The inductive strengthening of NoLostWakeup.
WakeupInv == CriticalSection /\ ClearWhileEmpty /\ NoLostWakeup

\* Nothing waits in the beginning, and nobody is in the critical section.
LEMMA InitWakeupInv == Init => WakeupInv
  BY ConstantsAssumption
     DEF Init, Thread, WakeupInv, CriticalSection, ClearWhileEmpty, NoLostWakeup

\* A step that leaves the list, the event and the critical section alone, moves
\* one thread, and neither enters nor leaves the section, keeps the protocol.
LEMMA WakeupFrame ==
  ASSUME TypeOK, WakeupInv, NEW t \in Thread, NEW label,
         UNCHANGED queueVars, Goto(t, label),
         pc[t] \notin {"add", "locked", "clear"}, label \notin {"add", "locked", "clear"}
  PROVE  WakeupInv'
  <1>1. /\ pc'[t] = label
        /\ \A u \in Thread \ {t} : pc'[u] = pc[u]
        /\ Messages' = Messages /\ SendEvent' = SendEvent /\ SendEventCS' = SendEventCS
    BY DEF Goto, TypeOK, queueVars
  <1>2. CriticalSection'
    BY <1>1 DEF WakeupInv, CriticalSection
  <1>3. ClearWhileEmpty'
    BY <1>1 DEF WakeupInv, ClearWhileEmpty, Thread
  <1>4. NoLostWakeup'
    BY <1>1 DEF WakeupInv, NoLostWakeup
  <1>5. QED
    BY <1>2, <1>3, <1>4 DEF WakeupInv

\* Send keeps the invariant: SendAdd is in the critical section, SendLeave signals.
LEMMA WakeupSend ==
  ASSUME TypeOK, WakeupInv, NEW t \in Thread, Send(t)
  PROVE  WakeupInv'
  <1> USE ConstantsAssumption DEF Goto, queueVars, controlVars
  <1>1. /\ pc \in [Thread -> FilterPC \cup WorkerPC]
        /\ return[t] \in {"idle", "transmit", "exit"}
        /\ NoThread \notin Thread
        /\ Worker \subseteq Thread
    BY DEF TypeOK, Thread
  <1>2. CASE SendDiscards(t)
    BY <1>1, <1>2, WakeupFrame DEF SendDiscards
  <1>3. CASE SendChecked(t)
    BY <1>1, <1>3, WakeupFrame DEF SendChecked
  <1>4. CASE SendEnter(t)
    BY <1>1, <1>4 DEF SendEnter, WakeupInv, CriticalSection, ClearWhileEmpty, NoLostWakeup
  <1>5. CASE SendAdd(t)
    <2>1. SendEventCS = t /\ pc[t] = "add" /\ SendEventCS' = SendEventCS /\ pc' = pc
      BY <1>5 DEF SendAdd, WakeupInv, CriticalSection
    <2>2. \A w \in Worker : pc[w] # "clear"
      BY <1>1, <2>1 DEF WakeupInv, CriticalSection
    <2>3. QED
      BY <2>1, <2>2 DEF WakeupInv, CriticalSection, ClearWhileEmpty, NoLostWakeup
  <1>6. CASE SendLeave(t)
    BY <1>1, <1>6 DEF SendLeave, WakeupInv, CriticalSection, ClearWhileEmpty, NoLostWakeup
  <1>7. QED
    BY <1>2, <1>3, <1>4, <1>5, <1>6 DEF Send

\* ProcessOutgoing keeps it: the list is still empty when SendEvent is reset.
LEMMA WakeupProcessOutgoing ==
  ASSUME TypeOK, WakeupInv, NEW w \in Worker, ProcessOutgoing(w)
  PROVE  WakeupInv'
  <1> USE ConstantsAssumption DEF Goto, queueVars, controlVars
  <1>1. /\ pc \in [Thread -> FilterPC \cup WorkerPC]
        /\ NoThread \notin Thread
        /\ Worker \subseteq Thread
        /\ w \in Thread
    BY DEF TypeOK, Thread
  <1>2. CASE OutgoingLoop(w)
    BY <1>1, <1>2, WakeupFrame DEF OutgoingLoop
  <1>3. CASE WaitSignalled(w)
    BY <1>1, <1>3, WakeupFrame DEF WaitSignalled
  <1>4. CASE WaitTimeout(w)
    BY <1>1, <1>4, WakeupFrame DEF WaitTimeout
  <1>5. CASE GetMessage(w)
    <2>1. Messages # <<>> /\ UNCHANGED <<SendEvent, SendEventCS, pc>>
      BY <1>5 DEF GetMessage
    <2>2. QED
      BY <2>1 DEF WakeupInv, CriticalSection, ClearWhileEmpty, NoLostWakeup
  <1>6. CASE GetMessagesEnd(w)
    BY <1>1, <1>6, WakeupFrame DEF GetMessagesEnd
  <1>7. CASE IncludeMessage(w) \/ ExcludeMessage(w)
    BY <1>7 DEF IncludeMessage, ExcludeMessage, WakeupInv, CriticalSection, ClearWhileEmpty,
                NoLostWakeup
  <1>8. CASE PackEnd(w)
    BY <1>1, <1>8, WakeupFrame DEF PackEnd
  <1>9. CASE Transmit(w)
    BY <1>1, <1>9, WakeupFrame DEF Transmit
  <1>10. CASE TransmitFails(w)
    BY <1>1, <1>10, WakeupFrame DEF TransmitFails
  <1>11. CASE AfterSendMessage(w)
    BY <1>1, <1>11, WakeupFrame DEF AfterSendMessage
  <1>12. CASE ResetEnter(w)
    BY <1>1, <1>12 DEF ResetEnter, WakeupInv, CriticalSection, ClearWhileEmpty, NoLostWakeup
  <1>13. CASE ResetTest(w)
    BY <1>1, <1>13 DEF ResetTest, WakeupInv, CriticalSection, ClearWhileEmpty, NoLostWakeup
  <1>14. CASE ResetSkip(w)
    BY <1>1, <1>14 DEF ResetSkip, WakeupInv, CriticalSection, ClearWhileEmpty, NoLostWakeup
  <1>15. CASE ResetClear(w)
    BY <1>1, <1>15 DEF ResetClear, WakeupInv, CriticalSection, ClearWhileEmpty, NoLostWakeup
  <1>16. QED
    BY <1>2, <1>3, <1>4, <1>5, <1>6, <1>7, <1>8, <1>9, <1>10, <1>11, <1>12, <1>13, <1>14,
       <1>15 DEF ProcessOutgoing

\* Every step keeps the invariant of the wake-up.
LEMMA StepWakeupInv == TypeOK /\ WakeupInv /\ [Next]_vars => WakeupInv'
  <1> SUFFICES ASSUME TypeOK, WakeupInv, [Next]_vars PROVE WakeupInv'
    OBVIOUS
  <1>1. \A w \in Worker : w \in Thread
    BY DEF Thread
  <1>2. ASSUME NEW m \in Message, SendBegin(m) PROVE WakeupInv'
    BY <1>2, WakeupFrame DEF SendBegin, Thread
  <1>3. ASSUME NEW w \in Worker, ClientWorker(w) PROVE WakeupInv'
    <2>1. CASE ClientWorkerLoop(w)
      BY <1>1, <2>1, WakeupFrame DEF ClientWorkerLoop
    <2>2. CASE Connect(w)
      BY <1>1, <2>2, WakeupFrame DEF Connect
    <2>3. CASE RemoveSocket(w)
      BY <1>1, <2>3, WakeupFrame DEF RemoveSocket
    <2>4. QED
      BY <1>3, <2>1, <2>2, <2>3 DEF ClientWorker
  <1>4. ASSUME NEW w \in Worker, Environment(w) PROVE WakeupInv'
    <2>1. CASE ConnectFails(w)
      BY <1>1, <2>1, WakeupFrame DEF ConnectFails
    <2>2. CASE SocketBreaks(w)
      BY <2>2 DEF SocketBreaks, queueVars, controlVars, WakeupInv, CriticalSection,
                  ClearWhileEmpty, NoLostWakeup
    <2>3. CASE AfterSendMessageFails(w)
      BY <1>1, <2>3, WakeupFrame DEF AfterSendMessageFails
    <2>4. QED
      BY <1>4, <2>1, <2>2, <2>3 DEF Environment
  <1>5. CASE Delete
    BY <1>5 DEF Delete, queueVars, controlVars, WakeupInv, CriticalSection, ClearWhileEmpty,
                NoLostWakeup
  <1>6. CASE Dispose
    <2>1. CASE DisposeDrain
      <3>1. Messages # <<>> /\ UNCHANGED <<SendEvent, SendEventCS, pc>>
        BY <2>1 DEF DisposeDrain, controlVars
      <3>2. QED
        BY <3>1 DEF WakeupInv, CriticalSection, ClearWhileEmpty, NoLostWakeup
    <2>2. CASE DisposeClose \/ DisposeDrained \/ DisposePulse \/ DisposeJoin
      BY <2>2 DEF DisposeClose, DisposeDrained, DisposePulse, DisposeJoin, queueVars,
                  controlVars, WakeupInv, CriticalSection, ClearWhileEmpty, NoLostWakeup
    <2>3. QED
      BY <1>6, <2>1, <2>2 DEF Dispose
  <1>7. CASE UNCHANGED vars
    BY <1>7 DEF vars, queueVars, controlVars, WakeupInv, CriticalSection, ClearWhileEmpty,
                NoLostWakeup
  <1>8. QED
    BY <1>2, <1>3, <1>4, <1>5, <1>6, <1>7, WakeupSend, WakeupProcessOutgoing, NextCases

\* A waiting message always has a signalled event, or an adder that will signal
\* it: the reset at the end of ProcessOutgoing never swallows a Send.
THEOREM WakeupCorrect == Spec => []NoLostWakeup
  <1>1. Init => WakeupInv
    BY InitWakeupInv
  <1>2. WakeupInv => NoLostWakeup
    BY DEF WakeupInv
  <1>3. QED
    BY <1>1, <1>2, TypeCorrect, StepWakeupInv, PTL DEF Spec

-----------------------------------------------------------------------------
(* The accounting of transfer sizes. *)

\* Is the worker between the test of the transfer size and the write?
InTransfer(w) ==
  \/ pc[w] \in {"wait", "take", "pack", "transmit"}
  \/ pc[w] \in {"check", "enter", "add"} /\ return[w] = "transmit"

\* The inductive strengthening of NoOverrun: MaxPacketSize is never 0 (which
\* would mean no limit) while messages are packed, and a packet starts empty.
TransferOK(w) ==
  /\ InTransfer(w) => /\ sentBytes[w] < maxBytes[w]
                      /\ sentBytes[w] + packetSize[w] <= maxBytes[w]
  /\ packetSize[w] > 0 => InTransfer(w) /\ pc[w] \notin {"wait", "take"}

OverrunInv == \A w \in Worker : TransferOK(w)

\* No worker is inside a transfer in the beginning.
LEMMA InitOverrunInv == Init => OverrunInv
  BY ConstantsAssumption DEF Init, Thread, OverrunInv, TransferOK, InTransfer

\* A thread's step leaves the transfers of the other workers alone.
LEMMA OverrunFrame ==
  ASSUME TypeOK, OverrunInv, NEW t \in Thread,
         t \in Worker => TransferOK(t)',
         \A u \in Worker \ {t} : /\ pc'[u] = pc[u] /\ return'[u] = return[u]
                                 /\ packetSize'[u] = packetSize[u]
                                 /\ sentBytes'[u] = sentBytes[u] /\ maxBytes'[u] = maxBytes[u]
  PROVE  OverrunInv'
  <1> SUFFICES ASSUME NEW u \in Worker, u # t PROVE TransferOK(u)'
    BY DEF OverrunInv
  <1>1. TransferOK(u)
    BY DEF OverrunInv
  <1>2. QED
    BY <1>1 DEF TransferOK, InTransfer

\* Send does not touch the transfer; it returns to "transmit" with the packet as it was.
LEMMA OverrunSend ==
  ASSUME TypeOK, OverrunInv, NEW t \in Thread, Send(t)
  PROVE  OverrunInv'
  <1>1. /\ UNCHANGED <<return, packetSize, sentBytes, maxBytes>>
        /\ \A u \in Thread \ {t} : pc'[u] = pc[u]
        /\ pc[t] \in {"check", "enter", "add"}
        /\ pc'[t] \in {"check", "enter", "add", return[t]}
    BY DEF Send, SendDiscards, SendChecked, SendEnter, SendAdd, SendLeave, Goto, TypeOK,
           controlVars, localVars, socketVars
  <1>2. ASSUME t \in Worker PROVE TransferOK(t)'
    <2>1. TransferOK(t) /\ return[t] \in {"transmit", "exit"}
      BY <1>2 DEF OverrunInv, TypeOK
    <2>2. InTransfer(t)' <=> InTransfer(t)
      BY <1>1, <2>1 DEF InTransfer
    <2>3. pc'[t] \notin {"wait", "take"} /\ pc[t] \notin {"wait", "take"}
      BY <1>1, <2>1
    <2>4. QED
      BY <1>1, <2>1, <2>2, <2>3 DEF TransferOK
  <1>3. QED
    BY <1>1, <1>2, OverrunFrame DEF Thread

\* ProcessOutgoing packs no more than what is left of the transfer.
LEMMA OverrunProcessOutgoing ==
  ASSUME TypeOK, OverrunInv, NEW w \in Worker, ProcessOutgoing(w)
  PROVE  OverrunInv'
  <1> DEFINE Others == \A u \in Worker \ {w} :
                         /\ pc'[u] = pc[u] /\ return'[u] = return[u]
                         /\ packetSize'[u] = packetSize[u]
                         /\ sentBytes'[u] = sentBytes[u] /\ maxBytes'[u] = maxBytes[u]
  <1> SUFFICES Others /\ TransferOK(w)'
    BY OverrunFrame DEF Thread
  <1>1. /\ pc \in [Thread -> FilterPC \cup WorkerPC]
        /\ return \in [Thread -> {"idle", "transmit", "exit"}]
        /\ packetSize \in [Worker -> Nat]
        /\ sentBytes \in [Worker -> Nat]
        /\ maxBytes \in [Worker -> Nat]
        /\ Worker \subseteq Thread
    BY ConstantsAssumption DEF TypeOK, Thread
  <1>2. TransferOK(w)
    BY DEF OverrunInv
  <1> USE DEF Goto, TransferOK, InTransfer, localVars, controlVars, socketVars
  <1>3. CASE OutgoingLoop(w)
    BY <1>1, <1>2, <1>3 DEF OutgoingLoop, TransferFinish
  <1>4. CASE WaitSignalled(w) \/ WaitTimeout(w) \/ GetMessagesEnd(w)
    BY <1>1, <1>2, <1>4 DEF WaitSignalled, WaitTimeout, GetMessagesEnd
  <1>5. CASE GetMessage(w) \/ ExcludeMessage(w)
    BY <1>1, <1>2, <1>5 DEF GetMessage, ExcludeMessage
  <1>6. CASE IncludeMessage(w)
    <2>1. Head(hand[w]) \in Message
      BY <1>6, HeadTailProperties DEF IncludeMessage, TypeOK
    <2>2. Size[Head(hand[w])] \in Nat
      BY <2>1, ConstantsAssumption
    <2>3. sentBytes[w] < maxBytes[w] /\ pc[w] = "pack"
      BY <1>2, <1>6 DEF IncludeMessage
    <2>4. packetSize[w] + Size[Head(hand[w])] <= maxBytes[w] - sentBytes[w]
      BY <1>1, <1>6, <2>3 DEF IncludeMessage, Fits, MaxPacketSize
    <2>5. sentBytes[w] + (packetSize[w] + Size[Head(hand[w])]) <= maxBytes[w]
      BY <1>1, <2>2, <2>4
    <2>6. /\ packetSize'[w] = packetSize[w] + Size[Head(hand[w])]
          /\ UNCHANGED <<pc, return, sentBytes, maxBytes>>
          /\ \A u \in Worker \ {w} : packetSize'[u] = packetSize[u]
      BY <1>1, <1>6 DEF IncludeMessage
    <2>7. QED
      BY <2>3, <2>5, <2>6
  <1>7. CASE PackEnd(w)
    BY <1>1, <1>2, <1>7 DEF PackEnd
  <1>8. CASE Transmit(w)
    <2>1. \A u \in Worker \ {w} : sentBytes'[u] = sentBytes[u] /\ packetSize'[u] = packetSize[u]
      BY <1>1, <1>8 DEF Transmit
    <2>2. packetSize'[w] = 0 /\ pc'[w] = "after"
      BY <1>1, <1>8 DEF Transmit
    <2>3. QED
      BY <1>1, <1>8, <2>1, <2>2 DEF Transmit
  <1>9. CASE TransmitFails(w)
    BY <1>1, <1>2, <1>9 DEF TransmitFails
  <1>10. CASE AfterSendMessage(w)
    BY <1>1, <1>2, <1>10 DEF AfterSendMessage, TransferFinish
  <1>11. CASE ResetEnter(w) \/ ResetTest(w) \/ ResetSkip(w) \/ ResetClear(w)
    BY <1>1, <1>2, <1>11 DEF ResetEnter, ResetTest, ResetSkip, ResetClear
  <1>12. QED
    BY <1>3, <1>4, <1>5, <1>6, <1>7, <1>8, <1>9, <1>10, <1>11 DEF ProcessOutgoing

\* Every step keeps the invariant of the transfer.
LEMMA StepOverrunInv == TypeOK /\ OverrunInv /\ [Next]_vars => OverrunInv'
  <1> SUFFICES ASSUME TypeOK, OverrunInv, [Next]_vars PROVE OverrunInv'
    OBVIOUS
  <1> USE ConstantsAssumption DEF Goto, localVars, controlVars, socketVars
  <1>1. /\ pc \in [Thread -> FilterPC \cup WorkerPC]
        /\ sentBytes \in [Worker -> Nat]
        /\ maxBytes \in [Worker -> Nat]
        /\ Filter \in Thread /\ Filter \notin Worker
        /\ Worker \subseteq Thread
    BY DEF TypeOK, Thread
  <1>2. ASSUME NEW m \in Message, SendBegin(m) PROVE OverrunInv'
    BY <1>1, <1>2, OverrunFrame DEF SendBegin
  <1>3. ASSUME NEW w \in Worker, ClientWorker(w) PROVE OverrunInv'
    <2>1. TransferOK(w)
      BY DEF OverrunInv
    <2>2. TransferOK(w)'
      BY <1>1, <1>3, <2>1 DEF ClientWorker, ClientWorkerLoop, Connect, RemoveSocket, TransferOK,
                              InTransfer
    <2>3. \A u \in Worker \ {w} :
            /\ pc'[u] = pc[u] /\ return'[u] = return[u]
            /\ packetSize'[u] = packetSize[u]
            /\ sentBytes'[u] = sentBytes[u] /\ maxBytes'[u] = maxBytes[u]
      BY <1>1, <1>3 DEF ClientWorker, ClientWorkerLoop, Connect, RemoveSocket
    <2>4. QED
      BY <1>1, <2>2, <2>3, OverrunFrame
  <1>4. ASSUME NEW w \in Worker, Environment(w) PROVE OverrunInv'
    <2>1. TransferOK(w)
      BY DEF OverrunInv
    <2>2. TransferOK(w)'
      BY <1>1, <1>4, <2>1 DEF Environment, ConnectFails, SocketBreaks, AfterSendMessageFails,
                              TransferOK, InTransfer
    <2>3. \A u \in Worker \ {w} :
            /\ pc'[u] = pc[u] /\ return'[u] = return[u]
            /\ packetSize'[u] = packetSize[u]
            /\ sentBytes'[u] = sentBytes[u] /\ maxBytes'[u] = maxBytes[u]
      BY <1>1, <1>4 DEF Environment, ConnectFails, SocketBreaks, AfterSendMessageFails
    <2>4. QED
      BY <1>1, <2>2, <2>3, OverrunFrame
  <1>5. CASE Delete \/ Dispose
    BY <1>5 DEF Delete, Dispose, DisposeClose, DisposeDrain, DisposeDrained, DisposePulse,
                DisposeJoin, OverrunInv, TransferOK, InTransfer
  <1>6. CASE UNCHANGED vars
    BY <1>6 DEF vars, OverrunInv, TransferOK, InTransfer
  <1>7. QED
    BY <1>2, <1>3, <1>4, <1>5, <1>6, OverrunSend, OverrunProcessOutgoing, NextCases

\* No connection is given more message bytes than the transfer size it was
\* opened with, for any message sizes, padding limits and transfer sizes.
THEOREM OverrunCorrect == Spec => []NoOverrun
  <1>1. OverrunInv => NoOverrun
    BY DEF OverrunInv, TransferOK, InTransfer, NoOverrun
  <1>2. QED
    BY <1>1, InitOverrunInv, TypeCorrect, StepOverrunInv, PTL DEF Spec
=============================================================================
