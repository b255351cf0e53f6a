--------------------------- MODULE BarbaFilterDriver ---------------------------
(***************************************************************************)
(* The capture queue of the program, and how it starts and stops.          *)
(*   - The driver of the operating system (external) diverts packets into  *)
(*     a queue of its own.                                                 *)
(*   - The capture thread reads them from the driver and adds them to      *)
(*     CapturePackets, a bounded list with a lock of its own.              *)
(*   - The main thread starts the capture thread, takes the packets from   *)
(*     the list and processes them until it is told to stop; then it waits *)
(*     for the capture thread and disposes the application.                *)
(*   - The command thread calls BarbaApp::Stop at any time.  In debug mode *)
(*     so does the main thread, while it processes a packet.               *)
(*                                                                         *)
(* Two drivers can be configured.  The capture loop of WinDivert blocks in *)
(* the driver, and Stop wakes it with a packet it sends (the signal).  The *)
(* loop of WinpkFilter waits for an event of the driver or for StopEvent.  *)
(***************************************************************************)
EXTENDS Naturals, Sequences

CONSTANTS
  MaxPackets,              \* bound on the packets the driver diverts
  DriverCapacity,          \* what the driver's own queue holds
  MaxCaptureMessageQueue,  \* what CapturePackets holds
  MaxCommands              \* bound on the stop commands received

ASSUME ConstantsAssumption ==
  /\ MaxPackets \in Nat
  /\ DriverCapacity \in Nat \ {0}
  /\ MaxCaptureMessageQueue \in Nat \ {0}
  /\ MaxCommands \in Nat

\* A diverted packet is its number in the order of arrival.
Packet == 1 .. MaxPackets
\* The packets WinDivert's capture loop recognises and deletes: the one it
\* sends to find the route, and the signal of Stop.
Special == 0
None == 0

VARIABLES
  Driver,          \* "WinDivert" or "WinpkFilter", as configured
  DriverQueue,     \* packets in the driver
  arrived,         \* number of packets diverted so far
  PacketEvent,     \* WinpkPacketEvent, which the driver sets
  CapturePackets,  \* the list of captured packets
  CaptureEvent,
  StopEvent,
  IsStarted,
  capturePc, capturePacket,  \* the capture thread, and the packet it has read
  mainPc, mainPacket,        \* the main thread, and the packet it processes
  commandPc, commands,       \* the command thread, and the commands so far
  stopPc,          \* how far a thread is in BarbaFilterDriver::Stop
  handled,         \* history: the packets processed, in that order
  late             \* history: packets added to the list after StopEvent was set

captureVars == <<capturePc, capturePacket>>
mainVars == <<mainPc, mainPacket>>
commandVars == <<commandPc, commands>>
driverVars == <<DriverQueue, arrived, PacketEvent>>
history == <<handled, late>>
vars == <<Driver, driverVars, CapturePackets, CaptureEvent, StopEvent, IsStarted,
          captureVars, mainVars, commandVars, stopPc, history>>

Caller == {"main", "command"}

Init ==
  /\ Driver \in {"WinDivert", "WinpkFilter"}
  /\ DriverQueue = <<>> /\ arrived = 0 /\ PacketEvent = FALSE
  /\ CapturePackets = <<>>
  /\ CaptureEvent = TRUE
  /\ StopEvent = FALSE
  /\ IsStarted = FALSE
  /\ capturePc = "none" /\ capturePacket = None
  /\ mainPc = "initialized" /\ mainPacket = None
  /\ commandPc = "wait" /\ commands = 0
  /\ stopPc = [t \in Caller |-> "idle"]
  /\ handled = <<>> /\ late = 0

-----------------------------------------------------------------------------
(* The driver of the operating system. *)

\* A packet that matches the filter arrives; a full queue loses it.
Divert ==
  /\ arrived < MaxPackets
  /\ mainPc # "disposed"
  /\ arrived' = arrived + 1
  /\ DriverQueue' = IF Len(DriverQueue) < DriverCapacity
                    THEN Append(DriverQueue, arrived + 1) ELSE DriverQueue
  /\ PacketEvent' = TRUE
  /\ UNCHANGED <<Driver, CapturePackets, CaptureEvent, StopEvent, IsStarted, captureVars,
                 mainVars, commandVars, stopPc, history>>

\* A packet the program sends to be diverted back to it.
SendSpecial ==
  DriverQueue' = IF Len(DriverQueue) < DriverCapacity
                 THEN Append(DriverQueue, Special) ELSE DriverQueue

-----------------------------------------------------------------------------
(* Stop.  BarbaFilterDriver::Stop sets both events, one after the other;   *)
(* WinDivert's then sends the signal.                                      *)

DriverStop(t) == stopPc' = [stopPc EXCEPT ![t] = "stopEvent"]

\* BarbaApp::Stop.
AppStop(t) ==
  IF StopEvent \/ ~IsStarted THEN UNCHANGED stopPc ELSE DriverStop(t)

StopSetsStopEvent(t) ==
  /\ stopPc[t] = "stopEvent"
  /\ StopEvent' = TRUE
  /\ stopPc' = [stopPc EXCEPT ![t] = "captureEvent"]
  /\ UNCHANGED <<Driver, driverVars, CapturePackets, CaptureEvent, IsStarted, captureVars,
                 mainVars, commandVars, history>>

\* Mutant of StopSetsCaptureEvent: WinDivert does not override Stop.
StopSetsCaptureEventOnly(t) ==
  /\ stopPc[t] = "captureEvent"
  /\ CaptureEvent' = TRUE
  /\ stopPc' = [stopPc EXCEPT ![t] = "idle"]
  /\ UNCHANGED <<Driver, driverVars, CapturePackets, StopEvent, IsStarted, captureVars,
                 mainVars, commandVars, history>>

StopSetsCaptureEvent(t) ==
  /\ stopPc[t] = "captureEvent"
  /\ CaptureEvent' = TRUE
  /\ stopPc' = [stopPc EXCEPT ![t] = IF Driver = "WinDivert" THEN "signal" ELSE "idle"]
  /\ UNCHANGED <<Driver, driverVars, CapturePackets, StopEvent, IsStarted, captureVars,
                 mainVars, commandVars, history>>

StopSendsSignal(t) ==
  /\ stopPc[t] = "signal"
  /\ SendSpecial
  /\ stopPc' = [stopPc EXCEPT ![t] = "idle"]
  /\ UNCHANGED <<Driver, arrived, PacketEvent, CapturePackets, CaptureEvent, StopEvent,
                 IsStarted, captureVars, mainVars, commandVars, history>>

Stop(t) == StopSetsStopEvent(t) \/ StopSetsCaptureEvent(t) \/ StopSendsSignal(t)

-----------------------------------------------------------------------------
(* The command thread, which is there before the driver is started.        *)

StopCommand ==
  /\ commandPc # "ended"
  /\ stopPc["command"] = "idle"
  /\ commands < MaxCommands
  /\ commands' = commands + 1
  /\ AppStop("command")
  /\ UNCHANGED <<Driver, driverVars, CapturePackets, CaptureEvent, StopEvent, IsStarted,
                 captureVars, mainVars, commandPc, history>>

CommandThreadEnds ==
  /\ commandPc = "disposing"
  /\ stopPc["command"] = "idle"
  /\ commandPc' = "ended"
  /\ UNCHANGED <<Driver, driverVars, CapturePackets, CaptureEvent, StopEvent, IsStarted,
                 captureVars, mainVars, commands, stopPc, history>>

-----------------------------------------------------------------------------
(* The capture thread.                                                     *)

CaptureGoes(from, to) == capturePc = from /\ capturePc' = to

\* WinDivert first sends a packet to find the route.
CaptureBegins ==
  /\ CaptureGoes("begin", "loop")
  /\ IF Driver = "WinDivert" THEN SendSpecial ELSE UNCHANGED DriverQueue
  /\ UNCHANGED <<Driver, arrived, PacketEvent, CapturePackets, CaptureEvent, StopEvent,
                 IsStarted, capturePacket, mainVars, commandVars, stopPc, history>>

\* The socket or the driver throws.
CaptureThrows ==
  /\ Driver = "WinDivert"
  /\ CaptureGoes("begin", "ending")
  /\ UNCHANGED <<Driver, driverVars, CapturePackets, CaptureEvent, StopEvent, IsStarted,
                 capturePacket, mainVars, commandVars, stopPc, history>>

\* Mutant of CaptureLoop: WinDivert's loop does not look at StopEvent.
CaptureLoopForEver ==
  /\ CaptureGoes("loop", IF Driver = "WinDivert" THEN "receive"
                         ELSE IF StopEvent THEN "ending" ELSE "wait")
  /\ UNCHANGED <<Driver, driverVars, CapturePackets, CaptureEvent, StopEvent, IsStarted,
                 capturePacket, mainVars, commandVars, stopPc, history>>

CaptureLoop ==
  /\ CaptureGoes("loop", IF StopEvent THEN "ending"
                         ELSE IF Driver = "WinDivert" THEN "receive" ELSE "wait")
  /\ UNCHANGED <<Driver, driverVars, CapturePackets, CaptureEvent, StopEvent, IsStarted,
                 capturePacket, mainVars, commandVars, stopPc, history>>

\* WinDivert: Recv blocks while the driver has no packet.
Receive ==
  /\ DriverQueue # <<>>
  /\ DriverQueue' = Tail(DriverQueue)
  /\ IF Head(DriverQueue) = Special
     THEN CaptureGoes("receive", "loop") /\ UNCHANGED capturePacket
     ELSE CaptureGoes("receive", "add") /\ capturePacket' = Head(DriverQueue)
  /\ UNCHANGED <<Driver, arrived, PacketEvent, CapturePackets, CaptureEvent, StopEvent,
                 IsStarted, mainVars, commandVars, stopPc, history>>

ReceiveFails ==
  /\ CaptureGoes("receive", "loop")
  /\ UNCHANGED <<Driver, driverVars, CapturePackets, CaptureEvent, StopEvent, IsStarted,
                 capturePacket, mainVars, commandVars, stopPc, history>>

\* WinpkFilter: wait for the driver's event or for StopEvent.
WaitForDriver ==
  /\ \/ PacketEvent /\ CaptureGoes("wait", "read")
     \/ ~PacketEvent /\ StopEvent /\ CaptureGoes("wait", "loop")
  /\ UNCHANGED <<Driver, driverVars, CapturePackets, CaptureEvent, StopEvent, IsStarted,
                 capturePacket, mainVars, commandVars, stopPc, history>>

ReadPacket ==
  /\ DriverQueue # <<>>
  /\ CaptureGoes("read", "add")
  /\ DriverQueue' = Tail(DriverQueue)
  /\ capturePacket' = Head(DriverQueue)
  /\ UNCHANGED <<Driver, arrived, PacketEvent, CapturePackets, CaptureEvent, StopEvent,
                 IsStarted, mainVars, commandVars, stopPc, history>>

ReadPacketFails ==
  /\ DriverQueue = <<>>
  /\ CaptureGoes("read", "resetPacketEvent")
  /\ UNCHANGED <<Driver, driverVars, CapturePackets, CaptureEvent, StopEvent, IsStarted,
                 capturePacket, mainVars, commandVars, stopPc, history>>

ResetPacketEvent ==
  /\ CaptureGoes("resetPacketEvent", "loop")
  /\ PacketEvent' = FALSE
  /\ UNCHANGED <<Driver, DriverQueue, arrived, CapturePackets, CaptureEvent, StopEvent,
                 IsStarted, capturePacket, mainVars, commandVars, stopPc, history>>

\* Mutant of IsFull: one packet too many fits.
IsFullLate == Len(CapturePackets) = MaxCaptureMessageQueue + 1

IsFull == Len(CapturePackets) = MaxCaptureMessageQueue

\* Mutant of AddTail: the packet is added to the head of the list.
AddHead(p) == CapturePackets' = <<p>> \o CapturePackets

AddTail(p) == CapturePackets' = Append(CapturePackets, p)

\* Where AddPacket is called from.
AddReturns ==
  /\ CaptureGoes("add", IF Driver = "WinDivert" THEN "loop" ELSE "read")
  /\ capturePacket' = None

\* AddPacket, in the list's lock.
AddPacket ==
  /\ ~IsFull
  /\ AddReturns
  /\ AddTail(capturePacket)
  /\ CaptureEvent' = TRUE
  /\ late' = IF StopEvent THEN late + 1 ELSE late
  /\ UNCHANGED <<Driver, driverVars, StopEvent, IsStarted, mainVars, commandVars, stopPc,
                 handled>>

\* AddPacket drops a packet with a wrong checksum, and any packet when the
\* list is full.
DropPacket ==
  /\ AddReturns
  /\ UNCHANGED <<Driver, driverVars, CapturePackets, CaptureEvent, StopEvent, IsStarted,
                 mainVars, commandVars, stopPc, history>>

CaptureEnds ==
  /\ CaptureGoes("ending", "ended")
  /\ StopEvent' = TRUE
  /\ UNCHANGED <<Driver, driverVars, CapturePackets, CaptureEvent, IsStarted, capturePacket,
                 mainVars, commandVars, stopPc, history>>

CaptureThread ==
  \/ CaptureBegins \/ CaptureThrows \/ CaptureLoop \/ Receive \/ WaitForDriver
  \/ ReadPacket \/ ReadPacketFails \/ ResetPacketEvent \/ AddPacket \/ DropPacket
  \/ CaptureEnds

-----------------------------------------------------------------------------
(* The main thread.                                                        *)

MainGoes(from, to) == stopPc["main"] = "idle" /\ mainPc = from /\ mainPc' = to

Start ==
  /\ MainGoes("initialized", "startThread")
  /\ IsStarted' = TRUE
  /\ UNCHANGED <<Driver, driverVars, CapturePackets, CaptureEvent, StopEvent, captureVars,
                 mainPacket, commandVars, stopPc, history>>

StartCaptureThread ==
  /\ MainGoes("startThread", "loop")
  /\ capturePc' = "begin"
  /\ UNCHANGED <<Driver, driverVars, CapturePackets, CaptureEvent, StopEvent, IsStarted,
                 capturePacket, mainPacket, commandVars, stopPc, history>>

ProcessLoop ==
  /\ MainGoes("loop", IF StopEvent THEN "joinCapture" ELSE "wait")
  /\ UNCHANGED <<Driver, driverVars, CapturePackets, CaptureEvent, StopEvent, IsStarted,
                 captureVars, mainPacket, commandVars, stopPc, history>>

WaitForPacket ==
  /\ CaptureEvent \/ StopEvent
  /\ MainGoes("wait", "remove")
  /\ UNCHANGED <<Driver, driverVars, CapturePackets, CaptureEvent, StopEvent, IsStarted,
                 captureVars, mainPacket, commandVars, stopPc, history>>

RemoveHead ==
  /\ IF CapturePackets = <<>>
     THEN MainGoes("remove", "reset") /\ UNCHANGED <<CapturePackets, mainPacket>>
     ELSE /\ MainGoes("remove", "process")
          /\ mainPacket' = Head(CapturePackets)
          /\ CapturePackets' = Tail(CapturePackets)
  /\ UNCHANGED <<Driver, driverVars, CaptureEvent, StopEvent, IsStarted, captureVars,
                 commandVars, stopPc, history>>

\* ProcessFilterDriverPacket, and sending the packet on if it is not taken.
ProcessPacket ==
  /\ MainGoes("process", "remove")
  /\ handled' = Append(handled, mainPacket)
  /\ mainPacket' = None
  /\ UNCHANGED <<Driver, driverVars, CapturePackets, CaptureEvent, StopEvent, IsStarted,
                 captureVars, commandVars, stopPc, late>>

\* Mutant of ProcessPacketThrows: the exception leaves the loop.
ProcessPacketThrowsOut ==
  /\ MainGoes("process", "joinCapture")
  /\ mainPacket' = None
  /\ UNCHANGED <<Driver, driverVars, CapturePackets, CaptureEvent, StopEvent, IsStarted,
                 captureVars, commandVars, stopPc, history>>

\* It throws: the packet is deleted, the others stay in the list.
ProcessPacketThrows ==
  /\ MainGoes("process", "reset")
  /\ mainPacket' = None
  /\ UNCHANGED <<Driver, driverVars, CapturePackets, CaptureEvent, StopEvent, IsStarted,
                 captureVars, commandVars, stopPc, history>>

\* In debug mode an echo of a certain size is a command to stop.
TerminateCommand ==
  /\ MainGoes("process", "remove")
  /\ handled' = Append(handled, mainPacket)
  /\ mainPacket' = None
  /\ AppStop("main")
  /\ UNCHANGED <<Driver, driverVars, CapturePackets, CaptureEvent, StopEvent, IsStarted,
                 captureVars, commandVars, late>>

\* Mutant of ResetCaptureEvent: the list is not looked at again.
ResetCaptureEventAlways ==
  /\ MainGoes("reset", "loop")
  /\ CaptureEvent' = FALSE
  /\ UNCHANGED <<Driver, driverVars, CapturePackets, StopEvent, IsStarted, captureVars,
                 mainPacket, commandVars, stopPc, history>>

\* In the list's lock.
ResetCaptureEvent ==
  /\ MainGoes("reset", "loop")
  /\ CaptureEvent' = IF CapturePackets = <<>> THEN FALSE ELSE CaptureEvent
  /\ UNCHANGED <<Driver, driverVars, CapturePackets, StopEvent, IsStarted, captureVars,
                 mainPacket, commandVars, stopPc, history>>

\* Mutant of JoinCaptureThread: the list is emptied at once.
JoinCaptureThreadSkipped ==
  /\ MainGoes("joinCapture", "drain")
  /\ UNCHANGED <<Driver, driverVars, CapturePackets, CaptureEvent, StopEvent, IsStarted,
                 captureVars, mainPacket, commandVars, stopPc, history>>

JoinCaptureThread ==
  /\ capturePc = "ended"
  /\ MainGoes("joinCapture", "drain")
  /\ UNCHANGED <<Driver, driverVars, CapturePackets, CaptureEvent, StopEvent, IsStarted,
                 captureVars, mainPacket, commandVars, stopPc, history>>

\* Nobody else uses the list, so deleting the packets that are left is one step.
Drain ==
  /\ MainGoes("drain", "stopped")
  /\ CapturePackets' = <<>>
  /\ IsStarted' = FALSE
  /\ UNCHANGED <<Driver, driverVars, CaptureEvent, StopEvent, captureVars, mainPacket,
                 commandVars, stopPc, history>>

\* BarbaApp::Dispose tells the command thread to end,
AppDispose ==
  /\ MainGoes("stopped", "joinCommand")
  /\ AppStop("main")
  /\ commandPc' = "disposing"
  /\ UNCHANGED <<Driver, driverVars, CapturePackets, CaptureEvent, StopEvent, IsStarted,
                 captureVars, mainPacket, commands, history>>

\* Mutant of JoinCommandThread: the driver is deleted at once.
JoinCommandThreadSkipped ==
  /\ MainGoes("joinCommand", "disposeDriver")
  /\ UNCHANGED <<Driver, driverVars, CapturePackets, CaptureEvent, StopEvent, IsStarted,
                 captureVars, mainPacket, commandVars, stopPc, history>>

\* waits for it,
JoinCommandThread ==
  /\ commandPc = "ended"
  /\ MainGoes("joinCommand", "disposeDriver")
  /\ UNCHANGED <<Driver, driverVars, CapturePackets, CaptureEvent, StopEvent, IsStarted,
                 captureVars, mainPacket, commandVars, stopPc, history>>

\* and disposes and deletes the driver, which is not started any more.
DisposeDriver ==
  /\ ~IsStarted
  /\ capturePc = "ended"
  /\ MainGoes("disposeDriver", "disposed")
  /\ UNCHANGED <<Driver, driverVars, CapturePackets, CaptureEvent, StopEvent, IsStarted,
                 captureVars, mainPacket, commandVars, stopPc, history>>

MainThread ==
  \/ Start \/ StartCaptureThread \/ ProcessLoop \/ WaitForPacket \/ RemoveHead
  \/ ProcessPacket \/ ProcessPacketThrows \/ TerminateCommand \/ ResetCaptureEvent
  \/ JoinCaptureThread \/ Drain \/ AppDispose \/ JoinCommandThread \/ DisposeDriver

Disposed == mainPc = "disposed" /\ UNCHANGED vars

Next ==
  \/ Divert \/ StopCommand \/ CommandThreadEnds \/ MainThread
  \/ CaptureThread \/ ReceiveFails
  \/ \E t \in Caller : Stop(t)
  \/ Disposed

Spec == Init /\ [][Next]_vars

\* Every thread that can run does; packets and commands need never come, and
\* nothing need ever fail.
FairSpec ==
  /\ Spec
  /\ WF_vars(MainThread) /\ WF_vars(CaptureThread) /\ WF_vars(CommandThreadEnds)
  /\ \A t \in Caller : WF_vars(Stop(t))

-----------------------------------------------------------------------------
(* Properties.                                                             *)

\* Types; the list never holds more than MaxCaptureMessageQueue packets,
\* although AddPacket compares its length with = and not with <.
TypeOK ==
  /\ Driver \in {"WinDivert", "WinpkFilter"}
  /\ DriverQueue \in Seq(0 .. MaxPackets) /\ Len(DriverQueue) <= DriverCapacity
  /\ arrived \in 0 .. MaxPackets
  /\ CapturePackets \in Seq(Packet) /\ Len(CapturePackets) <= MaxCaptureMessageQueue
  /\ PacketEvent \in BOOLEAN /\ CaptureEvent \in BOOLEAN
  /\ StopEvent \in BOOLEAN /\ IsStarted \in BOOLEAN
  /\ capturePc \in {"none", "begin", "loop", "receive", "wait", "read",
                    "resetPacketEvent", "add", "ending", "ended"}
  /\ capturePacket \in 0 .. MaxPackets
  /\ mainPc \in {"initialized", "startThread", "loop", "wait", "remove", "process", "reset",
                 "joinCapture", "drain", "stopped", "joinCommand", "disposeDriver", "disposed"}
  /\ mainPacket \in 0 .. MaxPackets
  /\ commandPc \in {"wait", "disposing", "ended"}
  /\ commands \in 0 .. MaxCommands
  /\ stopPc \in [Caller -> {"idle", "stopEvent", "captureEvent", "signal"}]
  /\ handled \in Seq(Packet)
  /\ late \in Nat

\* The main thread never waits for CaptureEvent while a packet is in the
\* list, although it resets the event and the capture thread sets it.
NoLostWakeup == mainPc = "wait" /\ CapturePackets # <<>> => CaptureEvent

\* Packets are processed in the order the driver captured them, and none
\* twice, whatever is dropped or fails on the way.
HandledInOrder == \A i, j \in 1 .. Len(handled) : i < j => handled[i] < handled[j]

\* ProcessCapturedPackets does not look at StopEvent before the list is
\* empty.  That ends because WinDivert's capture thread adds at most one more
\* packet once StopEvent is set.
StopsCapturing == Driver = "WinDivert" => late <= 1

\* When Start returns, the capture thread has ended and the list is empty:
\* no packet is added to it afterwards, and none leaks.
NothingLeftBehind ==
  mainPc \in {"stopped", "joinCommand", "disposeDriver", "disposed"}
    => capturePc = "ended" /\ CapturePackets = <<>>

\* Nobody is in a call of the driver object when BarbaApp::Dispose deletes it,
\* neither the capture thread nor a stop command that came late.
OutlivesItsCallers ==
  mainPc = "disposed" => /\ capturePc = "ended" /\ commandPc = "ended"
                         /\ \A t \in Caller : stopPc[t] = "idle"

\* Once a thread has called Stop or the capture thread has failed, the program
\* disposes, even if no further packet arrives, and if the signal is lost
\* because the driver's queue is full.
StopCompletes ==
  (StopEvent \/ \E t \in Caller : stopPc[t] # "idle") ~> (mainPc = "disposed")

\* A packet in the list does not stay there.
CapturedIsTaken ==
  \A p \in Packet :
    (\E i \in 1 .. Len(CapturePackets) : CapturePackets[i] = p)
      ~> ~(\E i \in 1 .. Len(CapturePackets) : CapturePackets[i] = p)
=============================================================================
