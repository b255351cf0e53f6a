----------------------- MODULE BarbaFilterDriver_proofs -----------------------
(***************************************************************************)
(* Proofs about BarbaFilterDriver for queues of any size and any number of *)
(* packets and stop commands.                                              *)
(***************************************************************************)
EXTENDS BarbaFilterDriver, SequenceTheorems, TLAPS

(***************************************************************************)
(* Types.                                                                  *)
(***************************************************************************)

\* The capacity of either queue is kept when a packet is added to a queue
\* that is not full or taken from one that is not empty.
LEMMA QueueStep ==
  ASSUME NEW S, NEW q \in Seq(S), NEW n \in Nat, Len(q) <= n
  PROVE  /\ \A e \in S : Len(q) # n =>
              /\ Append(q, e) \in Seq(S)
              /\ Len(Append(q, e)) <= n
         /\ q # <<>> => /\ Head(q) \in S
                        /\ Tail(q) \in Seq(S)
                        /\ Len(Tail(q)) <= n
  <1>1. ASSUME NEW e \in S, Len(q) # n
        PROVE  Append(q, e) \in Seq(S) /\ Len(Append(q, e)) <= n
    <2>1. Append(q, e) \in Seq(S) /\ Len(Append(q, e)) = Len(q) + 1 /\ Len(q) \in Nat
      BY AppendProperties, LenProperties
    <2>2. QED
      BY <2>1, <1>1
  <1>2. ASSUME q # <<>>
        PROVE  Head(q) \in S /\ Tail(q) \in Seq(S) /\ Len(Tail(q)) <= n
    <2>1. Head(q) \in S /\ Tail(q) \in Seq(S) /\ Len(Tail(q)) = Len(q) - 1 /\ Len(q) \in Nat
      BY <1>2, HeadTailProperties, LenProperties
    <2>2. QED
      BY <2>1
  <1>3. QED
    BY <1>1, <1>2

\* What the types rest on: a thread that uses a packet has one, and signals
\* are only in the queue of WinDivert, whose capture loop knows them.
HoldsPacket ==
  /\ capturePc = "add" => capturePacket \in Packet
  /\ mainPc = "process" => mainPacket \in Packet

SignalsKnown ==
  /\ capturePc = "receive" => Driver = "WinDivert"
  /\ capturePc \in {"wait", "read", "resetPacketEvent"} => Driver = "WinpkFilter"
  /\ Driver = "WinpkFilter" => /\ DriverQueue \in Seq(Packet)
                               /\ \A t \in Caller : stopPc[t] # "signal"

TypeInv == TypeOK /\ HoldsPacket /\ SignalsKnown

\* The initial states have the right types.
LEMMA InitTypeInv == Init => TypeInv
  <1> SUFFICES ASSUME Init PROVE TypeInv
    OBVIOUS
  <1>1. <<>> \in Seq(0 .. MaxPackets) /\ <<>> \in Seq(Packet) /\ Len(<<>>) = 0
    OBVIOUS
  <1>2. 0 \in 0 .. MaxPackets /\ 0 \in 0 .. MaxCommands /\ 0 <= DriverCapacity
        /\ 0 <= MaxCaptureMessageQueue
    BY ConstantsAssumption
  <1>3. stopPc \in [Caller -> {"idle", "stopEvent", "captureEvent", "signal"}]
    BY DEF Init
  <1>4. /\ DriverQueue \in Seq(0 .. MaxPackets) /\ Len(DriverQueue) <= DriverCapacity
        /\ CapturePackets \in Seq(Packet) /\ Len(CapturePackets) <= MaxCaptureMessageQueue
        /\ handled \in Seq(Packet)
    BY <1>1, <1>2 DEF Init
  <1>5. TypeOK
    BY <1>2, <1>3, <1>4 DEF Init, TypeOK, None
  <1>6. QED
    BY <1>1, <1>5 DEF Init, TypeInv, HoldsPacket, SignalsKnown

\* What the driver's queue is after a packet of the program was sent to it.
LEMMA SendSpecialType ==
  ASSUME TypeOK, SendSpecial
  PROVE  DriverQueue' \in Seq(0 .. MaxPackets) /\ Len(DriverQueue') <= DriverCapacity
  <1>1. Special \in 0 .. MaxPackets
    BY ConstantsAssumption DEF Special
  <1>2. CASE Len(DriverQueue) < DriverCapacity
    BY <1>1, <1>2, QueueStep, ConstantsAssumption DEF TypeOK, SendSpecial
  <1>3. CASE ~(Len(DriverQueue) < DriverCapacity)
    BY <1>3 DEF TypeOK, SendSpecial
  <1>4. QED
    BY <1>2, <1>3

\* A packet arrives.
LEMMA DivertType == ASSUME TypeInv, Divert PROVE TypeInv'
  <1>1. arrived + 1 \in Packet /\ arrived + 1 \in 0 .. MaxPackets
    BY ConstantsAssumption DEF TypeInv, TypeOK, Divert, Packet
  <1>2. /\ DriverQueue' \in Seq(0 .. MaxPackets) /\ Len(DriverQueue') <= DriverCapacity
        /\ Driver = "WinpkFilter" => DriverQueue' \in Seq(Packet)
    <2>1. CASE Len(DriverQueue) < DriverCapacity
      <3>1. /\ Append(DriverQueue, arrived + 1) \in Seq(0 .. MaxPackets)
            /\ Len(Append(DriverQueue, arrived + 1)) <= DriverCapacity
        BY <1>1, <2>1, QueueStep, ConstantsAssumption DEF TypeInv, TypeOK
      <3>2. Driver = "WinpkFilter" => Append(DriverQueue, arrived + 1) \in Seq(Packet)
        BY <1>1, AppendProperties DEF TypeInv, SignalsKnown
      <3>3. QED
        BY <2>1, <3>1, <3>2 DEF Divert
    <2>2. CASE ~(Len(DriverQueue) < DriverCapacity)
      BY <2>2 DEF Divert, TypeInv, TypeOK, SignalsKnown
    <2>3. QED
      BY <2>1, <2>2
  <1>3. QED
    BY <1>1, <1>2 DEF Divert, TypeInv, TypeOK, HoldsPacket, SignalsKnown, captureVars,
                      mainVars, commandVars, history

\* A step of Stop.
LEMMA StopType == ASSUME TypeInv, NEW t \in Caller, Stop(t) PROVE TypeInv'
  <1> USE DEF TypeInv, TypeOK, HoldsPacket, SignalsKnown, captureVars, mainVars, commandVars,
              driverVars, history
  <1>1. CASE StopSetsStopEvent(t)
    BY <1>1 DEF StopSetsStopEvent
  <1>2. CASE StopSetsCaptureEvent(t)
    BY <1>2 DEF StopSetsCaptureEvent
  <1>3. CASE StopSendsSignal(t)
    <2>1. DriverQueue' \in Seq(0 .. MaxPackets) /\ Len(DriverQueue') <= DriverCapacity
      BY <1>3, SendSpecialType DEF StopSendsSignal
    <2>2. Driver = "WinDivert"
      BY <1>3 DEF StopSendsSignal
    <2>3. QED
      BY <1>3, <2>1, <2>2 DEF StopSendsSignal
  <1>4. QED
    BY <1>1, <1>2, <1>3 DEF Stop

\* A step of the capture thread.
LEMMA CaptureType == ASSUME TypeInv, CaptureThread \/ ReceiveFails PROVE TypeInv'
  <1> USE DEF TypeInv, TypeOK, HoldsPacket, SignalsKnown, captureVars, mainVars, commandVars,
              driverVars, history, CaptureGoes
  <1>1. CASE CaptureBegins
    <2>1. CASE Driver = "WinDivert"
      <3>1. DriverQueue' \in Seq(0 .. MaxPackets) /\ Len(DriverQueue') <= DriverCapacity
        BY <1>1, <2>1, SendSpecialType DEF CaptureBegins
      <3>2. QED
        BY <1>1, <2>1, <3>1 DEF CaptureBegins
    <2>2. CASE Driver = "WinpkFilter"
      BY <1>1, <2>2 DEF CaptureBegins
    <2>3. QED
      BY <2>1, <2>2
  <1>2. CASE CaptureThrows
    BY <1>2 DEF CaptureThrows
  <1>3. CASE CaptureLoop
    BY <1>3 DEF CaptureLoop
  <1>4. CASE Receive
    <2>1. /\ Head(DriverQueue) \in 0 .. MaxPackets
          /\ Tail(DriverQueue) \in Seq(0 .. MaxPackets)
          /\ Len(Tail(DriverQueue)) <= DriverCapacity
      BY <1>4, QueueStep, ConstantsAssumption DEF Receive
    <2>2. Head(DriverQueue) # Special => Head(DriverQueue) \in Packet
      BY <2>1, ConstantsAssumption DEF Special, Packet
    <2>3. QED
      BY <1>4, <2>1, <2>2 DEF Receive
  <1>5. CASE ReceiveFails
    BY <1>5 DEF ReceiveFails
  <1>6. CASE WaitForDriver
    BY <1>6 DEF WaitForDriver
  <1>7. CASE ReadPacket
    <2>1. /\ Head(DriverQueue) \in 0 .. MaxPackets
          /\ Tail(DriverQueue) \in Seq(0 .. MaxPackets)
          /\ Len(Tail(DriverQueue)) <= DriverCapacity
      BY <1>7, QueueStep, ConstantsAssumption DEF ReadPacket
    <2>2. Head(DriverQueue) \in Packet /\ Tail(DriverQueue) \in Seq(Packet)
      BY <1>7, HeadTailProperties DEF ReadPacket
    <2>3. QED
      BY <1>7, <2>1, <2>2 DEF ReadPacket
  <1>8. CASE ReadPacketFails
    BY <1>8 DEF ReadPacketFails
  <1>9. CASE ResetPacketEvent
    BY <1>9 DEF ResetPacketEvent
  <1>10. CASE AddPacket
    <2>1. /\ Append(CapturePackets, capturePacket) \in Seq(Packet)
          /\ Len(Append(CapturePackets, capturePacket)) <= MaxCaptureMessageQueue
      BY <1>10, QueueStep, ConstantsAssumption DEF AddPacket, AddReturns, IsFull
    <2>2. None \in 0 .. MaxPackets
      BY ConstantsAssumption DEF None
    <2>3. QED
      BY <1>10, <2>1, <2>2 DEF AddPacket, AddReturns, AddTail
  <1>11. CASE DropPacket
    <2>1. None \in 0 .. MaxPackets
      BY ConstantsAssumption DEF None
    <2>2. QED
      BY <1>11, <2>1 DEF DropPacket, AddReturns
  <1>12. CASE CaptureEnds
    BY <1>12 DEF CaptureEnds
  <1>13. QED
    BY <1>1, <1>2, <1>3, <1>4, <1>5, <1>6, <1>7, <1>8, <1>9, <1>10, <1>11, <1>12
    DEF CaptureThread

\* A step of the main thread.
LEMMA MainType == ASSUME TypeInv, MainThread PROVE TypeInv'
  <1> USE DEF TypeInv, TypeOK, HoldsPacket, SignalsKnown, captureVars, mainVars, commandVars,
              driverVars, history, MainGoes
  <1>0. None \in 0 .. MaxPackets
    BY ConstantsAssumption DEF None
  <1>1. CASE Start
    BY <1>1 DEF Start
  <1>2. CASE StartCaptureThread
    BY <1>2 DEF StartCaptureThread
  <1>3. CASE ProcessLoop
    BY <1>3 DEF ProcessLoop
  <1>4. CASE WaitForPacket
    BY <1>4 DEF WaitForPacket
  <1>5. CASE RemoveHead
    <2>1. CASE CapturePackets = <<>>
      BY <1>5, <2>1 DEF RemoveHead
    <2>2. CASE CapturePackets # <<>>
      <3>1. /\ Head(CapturePackets) \in Packet
            /\ Tail(CapturePackets) \in Seq(Packet)
            /\ Len(Tail(CapturePackets)) <= MaxCaptureMessageQueue
        BY <2>2, QueueStep, ConstantsAssumption
      <3>2. Head(CapturePackets) \in 0 .. MaxPackets
        BY <3>1 DEF Packet
      <3>3. /\ mainPc' = "process"
            /\ mainPacket' = Head(CapturePackets)
            /\ CapturePackets' = Tail(CapturePackets)
            /\ UNCHANGED <<Driver, driverVars, CaptureEvent, StopEvent, IsStarted,
                           captureVars, commandVars, stopPc, history>>
        BY <1>5, <2>2 DEF RemoveHead
      <3>4. QED
        BY <3>1, <3>2, <3>3
    <2>3. QED
      BY <2>1, <2>2
  <1>6. CASE ProcessPacket
    <2>1. Append(handled, mainPacket) \in Seq(Packet)
      BY <1>6, AppendProperties DEF ProcessPacket
    <2>2. QED
      BY <1>0, <1>6, <2>1 DEF ProcessPacket
  <1>7. CASE ProcessPacketThrows
    BY <1>0, <1>7 DEF ProcessPacketThrows
  <1>8. CASE TerminateCommand
    <2>1. Append(handled, mainPacket) \in Seq(Packet)
      BY <1>8, AppendProperties DEF TerminateCommand
    <2>2. /\ stopPc' \in [Caller -> {"idle", "stopEvent", "captureEvent", "signal"}]
          /\ \A t \in Caller : stopPc'[t] = "signal" => stopPc[t] = "signal"
      BY <1>8 DEF TerminateCommand, AppStop, DriverStop
    <2>3. QED
      BY <1>0, <1>8, <2>1, <2>2 DEF TerminateCommand
  <1>9. CASE ResetCaptureEvent
    BY <1>9 DEF ResetCaptureEvent
  <1>10. CASE JoinCaptureThread
    BY <1>10 DEF JoinCaptureThread
  <1>11. CASE Drain
    <2>1. <<>> \in Seq(Packet) /\ Len(<<>>) <= MaxCaptureMessageQueue
      BY ConstantsAssumption
    <2>2. QED
      BY <1>11, <2>1 DEF Drain
  <1>12. CASE AppDispose
    BY <1>12 DEF AppDispose, AppStop, DriverStop
  <1>13. CASE JoinCommandThread
    BY <1>13 DEF JoinCommandThread
  <1>14. CASE DisposeDriver
    BY <1>14 DEF DisposeDriver
  <1>15. QED
    BY <1>1, <1>2, <1>3, <1>4, <1>5, <1>6, <1>7, <1>8, <1>9, <1>10, <1>11, <1>12, <1>13,
       <1>14 DEF MainThread

\* No step of the program leads out of the types.
LEMMA StepTypeInv == TypeInv /\ [Next]_vars => TypeInv'
  <1> SUFFICES ASSUME TypeInv, [Next]_vars PROVE TypeInv'
    OBVIOUS
  <1> USE DEF TypeInv, TypeOK, HoldsPacket, SignalsKnown, captureVars, mainVars, commandVars,
              driverVars, history
  <1>1. CASE StopCommand
    BY <1>1, ConstantsAssumption DEF StopCommand, AppStop, DriverStop
  <1>2. CASE CommandThreadEnds
    BY <1>2 DEF CommandThreadEnds
  <1>3. CASE UNCHANGED vars
    BY <1>3 DEF vars
  <1>4. QED
    BY <1>1, <1>2, <1>3, DivertType, StopType, CaptureType, MainType DEF Next, Disposed

\* Every variable keeps its type and the list its bound, for queues of any
\* size: AddPacket's test for equality is enough.
THEOREM TypeCorrect == Spec => []TypeOK
  <1>1. TypeInv => TypeOK
    BY DEF TypeInv
  <1>2. QED
    BY <1>1, InitTypeInv, StepTypeInv, PTL DEF Spec

(***************************************************************************)
(* Wake-ups and the end of the program.                                    *)
(***************************************************************************)

\* CaptureEvent is set whenever the list holds a packet.
SetWhileFilled == CapturePackets # <<>> => CaptureEvent

\* Before Start there is no capture thread, and nothing was captured.
NotStarted ==
  mainPc \in {"initialized", "startThread"} => capturePc = "none" /\ late = 0

\* The capture thread that has added its last packet after StopEvent was set is
\* on its way out, since it looks at the event before it reads again.
LastPacket ==
  /\ ~StopEvent => late = 0
  /\ Driver = "WinDivert" => /\ late <= 1
                             /\ late = 1 => capturePc \in {"loop", "ending", "ended"}

\* The capture thread ends before the list is emptied for the last time.
Joined ==
  /\ mainPc \in {"drain", "stopped", "joinCommand", "disposeDriver", "disposed"}
       => capturePc = "ended"
  /\ mainPc \in {"stopped", "joinCommand", "disposeDriver", "disposed"}
       => CapturePackets = <<>>

\* No call of Stop is left when the command thread has ended.
CallersGone ==
  /\ commandPc = "ended" => stopPc["command"] = "idle"
  /\ mainPc \in {"disposeDriver", "disposed"}
       => commandPc = "ended" /\ stopPc["main"] = "idle"

SafetyInv == SetWhileFilled /\ NotStarted /\ LastPacket /\ Joined /\ CallersGone

\* It holds at the start.
LEMMA InitSafetyInv == Init => SafetyInv
  BY DEF Init, SafetyInv, SetWhileFilled, NotStarted, LastPacket, Joined, CallersGone, Caller

\* Every step keeps it.
LEMMA StepSafetyInv == TypeInv /\ SafetyInv /\ [Next]_vars => SafetyInv'
  <1> SUFFICES ASSUME TypeOK, SignalsKnown, SafetyInv, [Next]_vars PROVE SafetyInv'
    BY DEF TypeInv
  <1> USE DEF TypeOK, SafetyInv, SetWhileFilled, NotStarted, LastPacket, Joined, CallersGone,
              Caller, captureVars, mainVars, commandVars, driverVars, history
  <1>1. CASE Divert
    BY <1>1 DEF Divert
  <1>2. ASSUME NEW t \in Caller, Stop(t) PROVE SafetyInv'
    <2>1. CASE StopSetsStopEvent(t)
      BY <2>1 DEF StopSetsStopEvent
    <2>2. CASE StopSetsCaptureEvent(t)
      BY <2>2 DEF StopSetsCaptureEvent
    <2>3. CASE StopSendsSignal(t)
      BY <2>3 DEF StopSendsSignal
    <2>4. QED
      BY <1>2, <2>1, <2>2, <2>3 DEF Stop
  <1>3. CASE StopCommand
    BY <1>3 DEF StopCommand, AppStop, DriverStop
  <1>4. CASE CommandThreadEnds
    BY <1>4 DEF CommandThreadEnds
  <1>5. CASE CaptureThread \/ ReceiveFails
    <2> USE DEF CaptureGoes, SignalsKnown
    <2>1. CASE CaptureBegins
      BY <2>1 DEF CaptureBegins
    <2>2. CASE CaptureThrows
      BY <2>2 DEF CaptureThrows
    <2>3. CASE CaptureLoop
      BY <2>3 DEF CaptureLoop
    <2>4. CASE Receive
      BY <2>4 DEF Receive
    <2>5. CASE ReceiveFails
      BY <2>5 DEF ReceiveFails
    <2>6. CASE WaitForDriver
      BY <2>6 DEF WaitForDriver
    <2>7. CASE ReadPacket
      BY <2>7 DEF ReadPacket
    <2>8. CASE ReadPacketFails
      BY <2>8 DEF ReadPacketFails
    <2>9. CASE ResetPacketEvent
      BY <2>9 DEF ResetPacketEvent
    <2>10. CASE AddPacket
      BY <2>10 DEF AddPacket, AddReturns
    <2>11. CASE DropPacket
      BY <2>11 DEF DropPacket, AddReturns
    <2>12. CASE CaptureEnds
      BY <2>12 DEF CaptureEnds
    <2>13. QED
      BY <1>5, <2>1, <2>2, <2>3, <2>4, <2>5, <2>6, <2>7, <2>8, <2>9, <2>10, <2>11, <2>12
      DEF CaptureThread
  <1>6. CASE MainThread
    <2> USE DEF MainGoes
    <2>1. CASE Start
      BY <2>1 DEF Start
    <2>2. CASE StartCaptureThread
      BY <2>2 DEF StartCaptureThread
    <2>3. CASE ProcessLoop
      BY <2>3 DEF ProcessLoop
    <2>4. CASE WaitForPacket
      BY <2>4 DEF WaitForPacket
    <2>5. CASE RemoveHead
      BY <2>5 DEF RemoveHead
    <2>6. CASE ProcessPacket
      BY <2>6 DEF ProcessPacket
    <2>7. CASE ProcessPacketThrows
      BY <2>7 DEF ProcessPacketThrows
    <2>8. CASE TerminateCommand
      BY <2>8 DEF TerminateCommand, AppStop, DriverStop
    <2>9. CASE ResetCaptureEvent
      BY <2>9 DEF ResetCaptureEvent
    <2>10. CASE JoinCaptureThread
      BY <2>10 DEF JoinCaptureThread
    <2>11. CASE Drain
      BY <2>11 DEF Drain
    <2>12. CASE AppDispose
      BY <2>12 DEF AppDispose, AppStop, DriverStop
    <2>13. CASE JoinCommandThread
      BY <2>13 DEF JoinCommandThread
    <2>14. CASE DisposeDriver
      BY <2>14 DEF DisposeDriver
    <2>15. QED
      BY <1>6, <2>1, <2>2, <2>3, <2>4, <2>5, <2>6, <2>7, <2>8, <2>9, <2>10, <2>11, <2>12,
         <2>13, <2>14 DEF MainThread
  <1>7. CASE UNCHANGED vars
    BY <1>7 DEF vars
  <1>8. QED
    BY <1>1, <1>2, <1>3, <1>4, <1>5, <1>6, <1>7 DEF Next, Disposed

LEMMA SafetyInvariant == Spec => [](TypeInv /\ SafetyInv)
  BY InitTypeInv, StepTypeInv, InitSafetyInv, StepSafetyInv, PTL DEF Spec

\* The main thread never sleeps on a packet.
THEOREM WakeupCorrect == Spec => []NoLostWakeup
  <1>1. SafetyInv => NoLostWakeup
    BY DEF SafetyInv, SetWhileFilled, NoLostWakeup
  <1>2. QED
    BY <1>1, SafetyInvariant, PTL

\* WinDivert's capture thread adds at most one packet after StopEvent was set.
THEOREM StopsCapturingCorrect == Spec => []StopsCapturing
  <1>1. SafetyInv => StopsCapturing
    BY DEF SafetyInv, LastPacket, StopsCapturing
  <1>2. QED
    BY <1>1, SafetyInvariant, PTL

\* The list is empty for good when Start returns.
THEOREM NothingLeftCorrect == Spec => []NothingLeftBehind
  <1>1. SafetyInv => NothingLeftBehind
    BY DEF SafetyInv, Joined, NothingLeftBehind
  <1>2. QED
    BY <1>1, SafetyInvariant, PTL

\* The driver object is deleted after the last call of it has returned.
THEOREM OutlivesCorrect == Spec => []OutlivesItsCallers
  <1>1. SafetyInv => OutlivesItsCallers
    BY DEF SafetyInv, Joined, CallersGone, OutlivesItsCallers, Caller
  <1>2. QED
    BY <1>1, SafetyInvariant, PTL

(***************************************************************************)
(* The order of packets, on their way from the driver to the main thread.  *)
(***************************************************************************)

\* The packets of a queue, signals left out.
Packets(q) == {q[i] : i \in 1 .. Len(q)} \ {0}

\* A queue whose packets are in the order of their arrival.
Ordered(q) ==
  \A i, j \in 1 .. Len(q) : i < j /\ q[i] # 0 /\ q[j] # 0 => q[i] < q[j]

\* Everything in S arrived before everything in T.
Before(S, T) == \A s \in S, t \in T : s < t

\* The places a packet may be in, from the first to the last.
Driven == Packets(DriverQueue)
Captured == {capturePacket} \ {0}
Listed == Packets(CapturePackets)
Taken == {mainPacket} \ {0}
Handled == Packets(handled)

OrderInv ==
  /\ Ordered(DriverQueue) /\ Ordered(CapturePackets) /\ Ordered(handled)
  /\ Before(Driven \cup Captured \cup Listed \cup Taken \cup Handled, {arrived + 1})
  /\ Before(Captured \cup Listed \cup Taken \cup Handled, Driven)
  /\ Before(Listed \cup Taken \cup Handled, Captured)
  /\ Before(Taken \cup Handled, Listed)
  /\ Before(Handled, Taken)

orderVars == <<DriverQueue, arrived, capturePacket, CapturePackets, mainPacket, handled>>

\* Adding the latest packet, or a signal, keeps a queue in order.
LEMMA AppendOrdered ==
  ASSUME NEW q \in Seq(0 .. MaxPackets), NEW e \in 0 .. MaxPackets, Ordered(q),
         e # 0 => Before(Packets(q), {e})
  PROVE  /\ Ordered(Append(q, e))
         /\ Packets(Append(q, e)) = Packets(q) \cup ({e} \ {0})
  <1> DEFINE r == Append(q, e)
  <1>1. /\ Len(q) \in Nat
        /\ Len(r) = Len(q) + 1
        /\ \A i \in 1 .. Len(q) : r[i] = q[i] /\ q[i] \in 0 .. MaxPackets
        /\ r[Len(q) + 1] = e
    <2>1. \A i \in 1 .. Len(q) : q[i] \in 0 .. MaxPackets
      BY ElementOfSeq
    <2>2. Len(q) \in Nat
      BY LenProperties
    <2>3. Len(r) = Len(q) + 1 /\ r[Len(q) + 1] = e /\ \A i \in 1 .. Len(q) : r[i] = q[i]
      BY AppendProperties
    <2>4. QED
      BY <2>1, <2>2, <2>3
  <1> HIDE DEF r
  <1>2. ASSUME NEW i \in 1 .. Len(r), NEW j \in 1 .. Len(r), i < j, r[i] # 0, r[j] # 0
        PROVE  r[i] < r[j]
    <2>1. i \in 1 .. Len(q)
      BY <1>1, <1>2
    <2>2. CASE j \in 1 .. Len(q)
      BY <1>1, <1>2, <2>1, <2>2 DEF Ordered
    <2>3. CASE j = Len(q) + 1
      <3>1. q[i] \in Packets(q)
        BY <1>1, <1>2, <2>1 DEF Packets
      <3>2. QED
        BY <1>1, <1>2, <2>1, <2>3, <3>1 DEF Before
    <2>4. QED
      BY <1>1, <2>2, <2>3
  <1>3. Ordered(r)
    BY <1>2 DEF Ordered
  <1>4. Packets(r) = Packets(q) \cup ({e} \ {0})
    <2>1. 1 .. Len(r) = 1 .. Len(q) \cup {Len(q) + 1}
      BY <1>1
    <2>2. QED
      BY <1>1, <2>1 DEF Packets
  <1>5. QED
    BY <1>3, <1>4 DEF r

\* Taking the first packet leaves a queue in order, and all of it later.
LEMMA TailOrdered ==
  ASSUME NEW q \in Seq(0 .. MaxPackets), q # <<>>, Ordered(q)
  PROVE  /\ Ordered(Tail(q))
         /\ Packets(Tail(q)) \subseteq Packets(q)
         /\ Head(q) # 0 => /\ Head(q) \in Packets(q)
                           /\ Before({Head(q)}, Packets(Tail(q)))
  <1> DEFINE r == Tail(q)
  <1>1. /\ Len(q) \in Nat \ {0}
        /\ Len(r) = Len(q) - 1
        /\ \A i \in 1 .. Len(r) : r[i] = q[i + 1]
        /\ Head(q) = q[1]
    BY HeadTailProperties, LenProperties, EmptySeq
  <1> HIDE DEF r
  <1>2. \A i \in 1 .. Len(r) : i + 1 \in 1 .. Len(q) /\ 1 < i + 1
    BY <1>1
  <1>3. Ordered(r)
    <2>1. ASSUME NEW i \in 1 .. Len(r), NEW j \in 1 .. Len(r), i < j, r[i] # 0, r[j] # 0
          PROVE  r[i] < r[j]
      BY <1>1, <1>2, <2>1 DEF Ordered
    <2>2. QED
      BY <2>1 DEF Ordered
  <1>4. Packets(r) \subseteq Packets(q)
    BY <1>1, <1>2 DEF Packets
  <1>5. ASSUME Head(q) # 0
        PROVE  Head(q) \in Packets(q) /\ Before({Head(q)}, Packets(r))
    <2>1. 1 \in 1 .. Len(q)
      BY <1>1
    <2>2. Head(q) \in Packets(q)
      BY <1>1, <1>5, <2>1 DEF Packets
    <2>3. ASSUME NEW t \in Packets(r) PROVE Head(q) < t
      <3>1. PICK i \in 1 .. Len(r) : t = r[i] /\ t # 0
        BY DEF Packets
      <3>2. QED
        BY <1>1, <1>2, <1>5, <2>1, <3>1 DEF Ordered
    <2>4. QED
      BY <2>2, <2>3 DEF Before
  <1>6. QED
    BY <1>3, <1>4, <1>5 DEF r

\* The packets of a queue are numbers.
LEMMA PacketsType ==
  ASSUME NEW q \in Seq(0 .. MaxPackets)
  PROVE  Packets(q) \subseteq 0 .. MaxPackets
  BY ElementOfSeq DEF Packets

\* The packets of an empty queue.
LEMMA EmptyOrdered == Ordered(<<>>) /\ Packets(<<>>) = {}
  BY DEF Ordered, Packets

\* The initial states are in order.
LEMMA InitOrderInv == Init => OrderInv
  BY EmptyOrdered DEF Init, OrderInv, Driven, Captured, Listed, Taken, Handled, Before, None

\* A signal does not disturb the order.
LEMMA SendSpecialOrder ==
  ASSUME TypeOK, OrderInv, SendSpecial,
         UNCHANGED <<arrived, capturePacket, CapturePackets, mainPacket, handled>>
  PROVE  OrderInv'
  <1>1. Ordered(DriverQueue') /\ Packets(DriverQueue') = Packets(DriverQueue)
    <2>1. CASE Len(DriverQueue) < DriverCapacity
      <3>1. 0 \in 0 .. MaxPackets
        BY ConstantsAssumption
      <3>2. /\ Ordered(Append(DriverQueue, 0))
            /\ Packets(Append(DriverQueue, 0)) = Packets(DriverQueue) \cup ({0} \ {0})
        BY <3>1, AppendOrdered DEF TypeOK, OrderInv
      <3>3. QED
        BY <2>1, <3>2 DEF SendSpecial, Special
    <2>2. CASE ~(Len(DriverQueue) < DriverCapacity)
      BY <2>2 DEF SendSpecial, OrderInv
    <2>3. QED
      BY <2>1, <2>2
  <1>2. QED
    BY <1>1 DEF OrderInv, Driven, Captured, Listed, Taken, Handled

\* Every step keeps the order.
LEMMA StepOrderInv == TypeInv /\ OrderInv /\ [Next]_vars => OrderInv'
  <1> SUFFICES ASSUME TypeInv, OrderInv, [Next]_vars PROVE OrderInv'
    OBVIOUS
  <1>0. /\ CapturePackets \in Seq(0 .. MaxPackets)
        /\ handled \in Seq(0 .. MaxPackets)
        /\ DriverQueue \in Seq(0 .. MaxPackets)
        /\ arrived \in 0 .. MaxPackets
        /\ capturePacket \in 0 .. MaxPackets /\ mainPacket \in 0 .. MaxPackets
        /\ capturePc = "add" => capturePacket # 0
        /\ mainPc = "process" => mainPacket # 0
    <2>1. \A S : S \in SUBSET (0 .. MaxPackets) => Seq(S) \subseteq Seq(0 .. MaxPackets)
      BY SeqMonotonic
    <2>2. Packet \subseteq 0 .. MaxPackets /\ 0 \notin Packet
      BY ConstantsAssumption DEF Packet
    <2>3. QED
      BY <2>1, <2>2 DEF TypeInv, TypeOK, HoldsPacket
  <1>a. Driven \cup Captured \cup Listed \cup Taken \cup Handled \subseteq 0 .. MaxPackets
    BY <1>0, PacketsType DEF Driven, Captured, Listed, Taken, Handled
  <1>1. CASE UNCHANGED orderVars
    BY <1>1 DEF orderVars, OrderInv, Driven, Captured, Listed, Taken, Handled
  <1>2. CASE Divert
    <2>0. /\ arrived' = arrived + 1
          /\ UNCHANGED <<CapturePackets, handled>>
          /\ Captured' = Captured /\ Listed' = Listed /\ Taken' = Taken /\ Handled' = Handled
      BY <1>2 DEF Divert, Captured, Listed, Taken, Handled, captureVars, mainVars, history
    <2>1. CASE Len(DriverQueue) < DriverCapacity
      <3>1. arrived + 1 \in 0 .. MaxPackets /\ arrived + 1 # 0
        BY <1>0, <1>2, ConstantsAssumption DEF Divert
      <3>2. /\ Ordered(Append(DriverQueue, arrived + 1))
            /\ Packets(Append(DriverQueue, arrived + 1)) = Driven \cup {arrived + 1}
        BY <1>0, <3>1, AppendOrdered DEF OrderInv, Before, Driven
      <3>3. Ordered(DriverQueue') /\ Driven' = Driven \cup {arrived + 1}
        BY <1>2, <2>1, <3>2 DEF Divert, Driven
      <3>4. QED
        BY <1>0, <1>a, <2>0, <3>3 DEF OrderInv, Before
    <2>2. CASE ~(Len(DriverQueue) < DriverCapacity)
      <3>1. DriverQueue' = DriverQueue /\ Driven' = Driven
        BY <1>2, <2>2 DEF Divert, Driven
      <3>2. QED
        BY <1>0, <1>a, <2>0, <3>1 DEF OrderInv, Before
    <2>3. QED
      BY <2>1, <2>2
  <1>3. ASSUME NEW t \in Caller, Stop(t) PROVE OrderInv'
    <2>1. CASE StopSendsSignal(t)
      BY <2>1, SendSpecialOrder DEF StopSendsSignal, TypeInv, captureVars, mainVars, history
    <2>2. CASE StopSetsStopEvent(t) \/ StopSetsCaptureEvent(t)
      BY <1>1, <2>2 DEF StopSetsStopEvent, StopSetsCaptureEvent, orderVars, driverVars,
                        captureVars, mainVars, history
    <2>3. QED
      BY <1>3, <2>1, <2>2 DEF Stop
  <1>4. CASE StopCommand \/ CommandThreadEnds \/ UNCHANGED vars
    BY <1>1, <1>4 DEF StopCommand, CommandThreadEnds, vars, orderVars, driverVars,
                      captureVars, mainVars, history
  <1>5. CASE CaptureThread \/ ReceiveFails
    <2>1. CASE CaptureBegins
      <3>1. CASE Driver = "WinDivert"
        BY <2>1, <3>1, SendSpecialOrder DEF CaptureBegins, TypeInv, mainVars, history
      <3>2. CASE Driver # "WinDivert"
        BY <1>1, <2>1, <3>2 DEF CaptureBegins, orderVars, mainVars, history
      <3>3. QED
        BY <3>1, <3>2
    <2>2. CASE Receive \/ ReadPacket
      <3>1. /\ DriverQueue # <<>>
            /\ DriverQueue' = Tail(DriverQueue)
            /\ \/ capturePacket' = Head(DriverQueue)
               \/ Head(DriverQueue) = 0 /\ UNCHANGED capturePacket
            /\ UNCHANGED <<arrived, CapturePackets, mainPacket, handled>>
        BY <2>2 DEF Receive, ReadPacket, CaptureGoes, Special, mainVars, history
      <3>2. /\ Ordered(Tail(DriverQueue))
            /\ Driven' \subseteq Driven
            /\ Head(DriverQueue) # 0 => /\ Head(DriverQueue) \in Driven
                                        /\ Before({Head(DriverQueue)}, Driven')
        BY <1>0, <3>1, TailOrdered DEF OrderInv, Driven
      <3>3. Captured' \subseteq {Head(DriverQueue)} \ {0} \/ Captured' = Captured
        BY <3>1 DEF Captured
      <3>4. Listed' = Listed /\ Taken' = Taken /\ Handled' = Handled
        BY <3>1 DEF Listed, Taken, Handled
      <3>5. QED
        BY <3>1, <3>2, <3>3, <3>4 DEF OrderInv, Before
    <2>3. CASE AddPacket
      <3>1. /\ capturePacket # 0
            /\ CapturePackets' = Append(CapturePackets, capturePacket)
            /\ capturePacket' = 0
            /\ UNCHANGED <<DriverQueue, arrived, mainPacket, handled>>
        BY <1>0, <2>3 DEF AddPacket, AddReturns, CaptureGoes, AddTail, None, driverVars,
                          mainVars
      <3>2. /\ Ordered(Append(CapturePackets, capturePacket))
            /\ Packets(Append(CapturePackets, capturePacket)) = Listed \cup Captured
        BY <1>0, <3>1, AppendOrdered DEF OrderInv, Before, Listed, Captured
      <3>3. Listed' = Listed \cup Captured /\ Captured' = {}
        BY <3>1, <3>2 DEF Listed, Captured
      <3>4. Driven' = Driven /\ Taken' = Taken /\ Handled' = Handled
        BY <3>1 DEF Driven, Taken, Handled
      <3>5. QED
        BY <3>1, <3>2, <3>3, <3>4 DEF OrderInv, Before
    <2>4. CASE DropPacket
      <3>1. capturePacket' = 0 /\ UNCHANGED <<DriverQueue, arrived, CapturePackets,
                                              mainPacket, handled>>
        BY <2>4 DEF DropPacket, AddReturns, None, driverVars, mainVars, history
      <3>2. Captured' = {} /\ Driven' = Driven /\ Listed' = Listed /\ Taken' = Taken
            /\ Handled' = Handled
        BY <3>1 DEF Driven, Captured, Listed, Taken, Handled
      <3>3. QED
        BY <3>1, <3>2 DEF OrderInv, Before
    <2>5. CASE \/ CaptureThrows \/ CaptureLoop \/ ReceiveFails \/ WaitForDriver
               \/ ReadPacketFails \/ ResetPacketEvent \/ CaptureEnds
      BY <1>1, <2>5 DEF CaptureThrows, CaptureLoop, ReceiveFails, WaitForDriver,
                        ReadPacketFails, ResetPacketEvent, CaptureEnds, orderVars,
                        driverVars, mainVars, history
    <2>6. QED
      BY <1>5, <2>1, <2>2, <2>3, <2>4, <2>5 DEF CaptureThread
  <1>6. CASE MainThread
    <2>1. CASE RemoveHead
      <3>1. CASE CapturePackets = <<>>
        BY <1>1, <2>1, <3>1 DEF RemoveHead, orderVars, driverVars, captureVars, history
      <3>2. CASE CapturePackets # <<>>
        <4>1. /\ CapturePackets' = Tail(CapturePackets)
              /\ mainPacket' = Head(CapturePackets)
              /\ UNCHANGED <<DriverQueue, arrived, capturePacket, handled>>
          BY <2>1, <3>2 DEF RemoveHead, driverVars, captureVars, history
        <4>2. /\ Ordered(Tail(CapturePackets))
              /\ Listed' \subseteq Listed
              /\ Head(CapturePackets) # 0 => /\ Head(CapturePackets) \in Listed
                                             /\ Before({Head(CapturePackets)}, Listed')
          BY <1>0, <3>2, <4>1, TailOrdered DEF OrderInv, Listed
        <4>3. /\ Taken' = {Head(CapturePackets)} \ {0}
              /\ Driven' = Driven /\ Captured' = Captured /\ Handled' = Handled
          BY <4>1 DEF Driven, Captured, Taken, Handled
        <4>4. QED
          BY <4>1, <4>2, <4>3 DEF OrderInv, Before
      <3>3. QED
        BY <3>1, <3>2
    <2>2. CASE ProcessPacket \/ TerminateCommand
      <3>1. /\ mainPacket # 0
            /\ handled' = Append(handled, mainPacket)
            /\ mainPacket' = 0
            /\ UNCHANGED <<DriverQueue, arrived, capturePacket, CapturePackets>>
        BY <1>0, <2>2 DEF ProcessPacket, TerminateCommand, MainGoes, None, driverVars,
                          captureVars
      <3>2. /\ Ordered(Append(handled, mainPacket))
            /\ Packets(Append(handled, mainPacket)) = Handled \cup Taken
        BY <1>0, <3>1, AppendOrdered DEF OrderInv, Before, Handled, Taken
      <3>3. Handled' = Handled \cup Taken /\ Taken' = {}
        BY <3>1, <3>2 DEF Handled, Taken
      <3>4. Driven' = Driven /\ Captured' = Captured /\ Listed' = Listed
        BY <3>1 DEF Driven, Captured, Listed
      <3>5. QED
        BY <3>1, <3>2, <3>3, <3>4 DEF OrderInv, Before
    <2>3. CASE ProcessPacketThrows
      <3>1. mainPacket' = 0 /\ UNCHANGED <<DriverQueue, arrived, capturePacket,
                                           CapturePackets, handled>>
        BY <2>3 DEF ProcessPacketThrows, None, driverVars, captureVars, history
      <3>2. Taken' = {} /\ Driven' = Driven /\ Captured' = Captured /\ Listed' = Listed
            /\ Handled' = Handled
        BY <3>1 DEF Driven, Captured, Listed, Taken, Handled
      <3>3. QED
        BY <3>1, <3>2 DEF OrderInv, Before
    <2>4. CASE Drain
      <3>1. CapturePackets' = <<>> /\ UNCHANGED <<DriverQueue, arrived, capturePacket,
                                                  mainPacket, handled>>
        BY <2>4 DEF Drain, driverVars, captureVars, history
      <3>2. Listed' = {} /\ Driven' = Driven /\ Captured' = Captured /\ Taken' = Taken
            /\ Handled' = Handled
        BY <3>1, EmptyOrdered DEF Driven, Captured, Listed, Taken, Handled
      <3>3. QED
        BY <3>1, <3>2, EmptyOrdered DEF OrderInv, Before
    <2>5. CASE \/ Start \/ StartCaptureThread \/ ProcessLoop \/ WaitForPacket
               \/ ResetCaptureEvent \/ JoinCaptureThread \/ AppDispose
               \/ JoinCommandThread \/ DisposeDriver
      BY <1>1, <2>5 DEF Start, StartCaptureThread, ProcessLoop, WaitForPacket,
                        ResetCaptureEvent, JoinCaptureThread, AppDispose,
                        JoinCommandThread, DisposeDriver, orderVars, driverVars,
                        captureVars, history
    <2>6. QED
      BY <1>6, <2>1, <2>2, <2>3, <2>4, <2>5 DEF MainThread
  <1>7. QED
    BY <1>2, <1>3, <1>4, <1>5, <1>6 DEF Next, Disposed

\* Packets are processed in the order of capture, each at most once.
THEOREM OrderCorrect == Spec => []HandledInOrder
  <1>1. TypeInv /\ OrderInv => HandledInOrder
    <2> SUFFICES ASSUME TypeInv, OrderInv,
                        NEW i \in 1 .. Len(handled), NEW j \in 1 .. Len(handled), i < j
                 PROVE  handled[i] < handled[j]
      BY DEF HandledInOrder
    <2>1. handled[i] \in Packet /\ handled[j] \in Packet
      BY ElementOfSeq DEF TypeInv, TypeOK
    <2>2. handled[i] # 0 /\ handled[j] # 0
      BY <2>1, ConstantsAssumption DEF Packet
    <2>3. QED
      BY <2>2 DEF OrderInv, Ordered
  <1>2. QED
    BY <1>1, InitTypeInv, StepTypeInv, InitOrderInv, StepOrderInv, PTL DEF Spec
=============================================================================
