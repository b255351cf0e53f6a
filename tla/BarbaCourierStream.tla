-------------------------- MODULE BarbaCourierStream --------------------------
(***************************************************************************)
(* The sending half of a TCP or HTTP courier, as the tunnel client runs it.*)
(* The filter thread hands captured packets to Send; one thread per        *)
(* outgoing connection (a worker) runs ProcessOutgoing, which empties the  *)
(* shared list Messages, packs what fits in the rest of its transfer, puts *)
(* the others back, writes the packet, and brings the packet back if the   *)
(* write fails.  Workers sleep on the manual-reset event SendEvent.  A     *)
(* thread of its own runs Dispose after Delete.                            *)
(*                                                                         *)
(* Granularity.  Messages is a list with a lock of its own, taken for each *)
(* operation, so an action does at most one operation on it.  Only Send    *)
(* and the end of ProcessOutgoing's loop hold SendEventCS.                 *)
(*                                                                         *)
(* Left out: the trimming of Messages to MaxMessageBuffer, which is        *)
(* INFINITE and never assigned again, and the refusal of messages longer   *)
(* than 0xFFFF bytes, which no IP packet reaches.                          *)
(***************************************************************************)
EXTENDS Naturals, Sequences, Functions

CONSTANTS
  Message,        \* messages, numbered in the order the filter thread sends them
  Worker,         \* threads serving the outgoing connections
  Filter,         \* the thread that processes captured packets
  NoThread,       \* owner of a critical section nobody is in
  Size,           \* bytes a message takes in a packet, its 3 header bytes included
  TransferSizes,  \* the maxBytes a connection may be opened with
  MinPacket,      \* min(BARBA_MinPacketSizeLimit, MinPacketSize)
  FillLimit,      \* the 2000 below which the rest of a transfer is filled with zeros
  MaxFailures     \* bound on broken connections and refused connects

Thread == Worker \cup {Filter}

ASSUME ConstantsAssumption ==
  /\ Message \subseteq Nat
  /\ Filter \notin Worker
  /\ NoThread \notin Thread
  /\ Size \in [Message -> Nat \ {0}]
  /\ TransferSizes \subseteq Nat \ {0}
  /\ TransferSizes # {}
  /\ MinPacket \in Nat
  /\ FillLimit \in Nat
  /\ MaxFailures \in Nat

VARIABLES
  Messages,       \* the shared list of messages waiting for a connection
  SendEvent,      \* manual-reset event, signalled while there may be messages
  SendEventCS,    \* owner of the critical section
  DisposeEvent,   \* set by Delete
  disposer,       \* program counter of Delete and of the thread running Dispose
  pc,             \* program counter of each thread
  return,         \* where the thread continues after Send
  outbox,         \* the list the thread gave to Send, not yet in Messages
  hand,           \* the worker's local array of messages
  packet,         \* includeMessages: what the next packet will carry
  packetSize,     \* its size
  sentBytes,      \* bytes written to the worker's connection
  maxBytes,       \* transfer size of the worker's connection
  isOpen,         \* is the worker's socket usable?
  failures,       \* failures so far (bound)
  fresh,          \* messages not yet given to Send
  sentCount       \* history: successful writes that contained the message

queueVars == <<Messages, SendEvent, SendEventCS>>
disposeVars == <<DisposeEvent, disposer>>
controlVars == <<pc, return>>
localVars == <<outbox, hand, packet, packetSize>>
socketVars == <<sentBytes, maxBytes, isOpen, failures>>
historyVars == <<fresh, sentCount>>
vars == <<queueVars, disposeVars, controlVars, localVars, socketVars, historyVars>>

FilterPC == {"idle", "check", "enter", "add"}
WorkerPC == {"connect", "connecting", "loop", "wait", "take", "pack", "check", "enter",
             "add", "transmit", "after", "reset", "locked", "clear", "exit", "done"}
DisposerPC == {"live", "close", "drain", "pulse", "join", "deleted"}

TypeOK ==
  /\ Messages \in Seq(Message)
  /\ SendEvent \in BOOLEAN
  /\ SendEventCS \in Thread \cup {NoThread}
  /\ DisposeEvent \in BOOLEAN
  /\ disposer \in DisposerPC
  /\ pc \in [Thread -> FilterPC \cup WorkerPC]
  /\ pc[Filter] \in FilterPC
  /\ \A w \in Worker : pc[w] \in WorkerPC
  /\ return \in [Thread -> {"idle", "transmit", "exit"}]
  /\ return[Filter] = "idle"
  /\ \A w \in Worker : return[w] # "idle"
  /\ outbox \in [Thread -> Seq(Message)]
  /\ hand \in [Worker -> Seq(Message)]
  /\ packet \in [Worker -> Seq(Message)]
  /\ packetSize \in [Worker -> Nat]
  /\ sentBytes \in [Worker -> Nat]
  /\ maxBytes \in [Worker -> TransferSizes]
  /\ isOpen \in [Worker -> BOOLEAN]
  /\ failures \in Nat
  /\ fresh \subseteq Message
  /\ sentCount \in [Message -> Nat]

\* The constructor and StartClientThreads.
Init ==
  /\ Messages = <<>>
  /\ SendEvent = TRUE
  /\ SendEventCS = NoThread
  /\ DisposeEvent = FALSE
  /\ disposer = "live"
  /\ pc = [t \in Thread |-> IF t = Filter THEN "idle" ELSE "connect"]
  /\ return = [t \in Thread |-> IF t = Filter THEN "idle" ELSE "exit"]
  /\ outbox = [t \in Thread |-> <<>>]
  /\ hand = [w \in Worker |-> <<>>]
  /\ packet = [w \in Worker |-> <<>>]
  /\ packetSize = [w \in Worker |-> 0]
  /\ sentBytes = [w \in Worker |-> 0]
  /\ maxBytes \in [Worker -> TransferSizes]
  /\ isOpen = [w \in Worker |-> FALSE]
  /\ failures = 0
  /\ fresh = Message
  /\ sentCount = [m \in Message |-> 0]

Goto(t, label) == pc' = [pc EXCEPT ![t] = label]

-----------------------------------------------------------------------------
(* Send(messages, highPriority): the filter thread appends (AddTail), the   *)
(* workers bring messages back to the head (AddHead), one by one.           *)

\* The filter thread sends the next captured packet.  It is also the thread
\* that calls Delete, after which it does not use the courier.
SendBegin(m) ==
  /\ pc[Filter] = "idle"
  /\ ~DisposeEvent
  /\ m \in fresh
  /\ \A n \in fresh : m <= n
  /\ fresh' = fresh \ {m}
  /\ outbox' = [outbox EXCEPT ![Filter] = <<m>>]
  /\ Goto(Filter, "check")
  /\ UNCHANGED <<queueVars, disposeVars, return, hand, packet, packetSize, socketVars, sentCount>>

\* A disposing courier deletes what it is asked to send.
SendDiscards(t) ==
  /\ pc[t] = "check"
  /\ DisposeEvent
  /\ outbox' = [outbox EXCEPT ![t] = <<>>]
  /\ Goto(t, return[t])
  /\ UNCHANGED <<queueVars, disposeVars, return, hand, packet, packetSize, socketVars, historyVars>>

SendChecked(t) ==
  /\ pc[t] = "check"
  /\ ~DisposeEvent
  /\ Goto(t, "enter")
  /\ UNCHANGED <<queueVars, disposeVars, return, localVars, socketVars, historyVars>>

SendEnter(t) ==
  /\ pc[t] = "enter"
  /\ SendEventCS = NoThread
  /\ SendEventCS' = t
  /\ Goto(t, "add")
  /\ UNCHANGED <<Messages, SendEvent, disposeVars, return, localVars, socketVars, historyVars>>

SendAdd(t) ==
  /\ pc[t] = "add"
  /\ outbox[t] # <<>>
  /\ Messages' = IF t = Filter THEN Append(Messages, Head(outbox[t]))
                               ELSE <<Head(outbox[t])>> \o Messages
  /\ outbox' = [outbox EXCEPT ![t] = Tail(@)]
  /\ UNCHANGED <<SendEvent, SendEventCS, disposeVars, controlVars, hand, packet, packetSize,
                 socketVars, historyVars>>

\* Mutant of SendLeave: the thread ends its loop whatever it sent for.
SendLeaveToExit(t) ==
  /\ pc[t] = "add"
  /\ outbox[t] = <<>>
  /\ SendEvent' = TRUE
  /\ SendEventCS' = NoThread
  /\ Goto(t, "exit")
  /\ UNCHANGED <<Messages, disposeVars, return, localVars, socketVars, historyVars>>

\* SendEvent.Set, and the critical section is left.
SendLeave(t) ==
  /\ pc[t] = "add"
  /\ outbox[t] = <<>>
  /\ SendEvent' = TRUE
  /\ SendEventCS' = NoThread
  /\ Goto(t, return[t])
  /\ UNCHANGED <<Messages, disposeVars, return, localVars, socketVars, historyVars>>

-----------------------------------------------------------------------------
(* ClientWorker: open a connection, run ProcessOutgoing on it, remove the   *)
(* socket, and start again until the courier is disposing.                  *)

ClientWorkerLoop(w) ==
  /\ pc[w] = "connect"
  /\ Goto(w, IF DisposeEvent THEN "done" ELSE "connecting")
  /\ UNCHANGED <<queueVars, disposeVars, return, localVars, socketVars, historyVars>>

Connect(w) ==
  /\ pc[w] = "connecting"
  /\ \E size \in TransferSizes : maxBytes' = [maxBytes EXCEPT ![w] = size]
  /\ sentBytes' = [sentBytes EXCEPT ![w] = 0]
  /\ isOpen' = [isOpen EXCEPT ![w] = TRUE]
  /\ Goto(w, "loop")
  /\ UNCHANGED <<queueVars, disposeVars, return, localVars, failures, historyVars>>

ConnectFails(w) ==
  /\ pc[w] = "connecting"
  /\ failures < MaxFailures
  /\ failures' = failures + 1
  /\ Goto(w, "connect")
  /\ UNCHANGED <<queueVars, disposeVars, return, localVars, sentBytes, maxBytes, isOpen, historyVars>>

\* The connection breaks, or its peer closes it, at any time.
SocketBreaks(w) ==
  /\ isOpen[w]
  /\ failures < MaxFailures
  /\ failures' = failures + 1
  /\ isOpen' = [isOpen EXCEPT ![w] = FALSE]
  /\ UNCHANGED <<queueVars, disposeVars, controlVars, localVars, sentBytes, maxBytes, historyVars>>

\* Sockets_Remove, which also deletes the socket.
RemoveSocket(w) ==
  /\ pc[w] = "exit"
  /\ isOpen' = [isOpen EXCEPT ![w] = FALSE]
  /\ Goto(w, "connect")
  /\ UNCHANGED <<queueVars, disposeVars, return, localVars, sentBytes, maxBytes, failures, historyVars>>

-----------------------------------------------------------------------------
(* ProcessOutgoing(barbaSocket, maxBytes).                                  *)

\* Mutant of TransferFinish: a full transfer is used once more.
TransferFinishLate(w) == sentBytes[w] > maxBytes[w]

TransferFinish(w) == sentBytes[w] >= maxBytes[w]

OutgoingLoop(w) ==
  /\ pc[w] = "loop"
  /\ Goto(w, IF DisposeEvent \/ TransferFinish(w) THEN "exit" ELSE "wait")
  /\ UNCHANGED <<queueVars, disposeVars, return, localVars, socketVars, historyVars>>

WaitSignalled(w) ==
  /\ pc[w] = "wait"
  /\ SendEvent
  /\ Goto(w, "take")
  /\ UNCHANGED <<queueVars, disposeVars, return, localVars, socketVars, historyVars>>

\* Mutant of WaitTimeout: SendEvent.Wait(INFINITE).
WaitForever(w) == pc[w] = "wait" /\ SendEvent /\ UNCHANGED vars

\* Two seconds without the event: leave if the socket is not writable.
WaitTimeout(w) ==
  /\ pc[w] = "wait"
  /\ ~SendEvent
  /\ Goto(w, IF isOpen[w] THEN "take" ELSE "exit")
  /\ UNCHANGED <<queueVars, disposeVars, return, localVars, socketVars, historyVars>>

\* GetMessages: RemoveHead until the list is empty, without SendEventCS.
GetMessage(w) ==
  /\ pc[w] = "take"
  /\ Messages # <<>>
  /\ hand' = [hand EXCEPT ![w] = Append(@, Head(Messages))]
  /\ Messages' = Tail(Messages)
  /\ UNCHANGED <<SendEvent, SendEventCS, disposeVars, controlVars, outbox, packet, packetSize,
                 socketVars, historyVars>>

GetMessagesEnd(w) ==
  /\ pc[w] = "take"
  /\ Messages = <<>>
  /\ Goto(w, IF hand[w] = <<>> THEN "reset" ELSE "pack")
  /\ UNCHANGED <<queueVars, disposeVars, return, localVars, socketVars, historyVars>>

\* ProcessOutgoingMessages: maxPacketSize is what is left of the transfer, and
\* 0 stands for no limit.
MaxPacketSize(w) == maxBytes[w] - sentBytes[w]

Fits(w, m) ==
  \/ MaxPacketSize(w) = 0
  \/ packetSize[w] + Size[m] <= MaxPacketSize(w)

IncludeMessage(w) ==
  /\ pc[w] = "pack"
  /\ hand[w] # <<>>
  /\ Fits(w, Head(hand[w]))
  /\ packet' = [packet EXCEPT ![w] = Append(@, Head(hand[w]))]
  /\ packetSize' = [packetSize EXCEPT ![w] = @ + Size[Head(hand[w])]]
  /\ hand' = [hand EXCEPT ![w] = Tail(@)]
  /\ UNCHANGED <<queueVars, disposeVars, controlVars, outbox, socketVars, historyVars>>

ExcludeMessage(w) ==
  /\ pc[w] = "pack"
  /\ hand[w] # <<>>
  /\ ~Fits(w, Head(hand[w]))
  /\ outbox' = [outbox EXCEPT ![w] = Append(@, Head(hand[w]))]
  /\ hand' = [hand EXCEPT ![w] = Tail(@)]
  /\ UNCHANGED <<queueVars, disposeVars, controlVars, packet, packetSize, socketVars, historyVars>>

\* Send(excludeMessages, true), which returns at once for an empty list.
PackEnd(w) ==
  /\ pc[w] = "pack"
  /\ hand[w] = <<>>
  /\ return' = [return EXCEPT ![w] = "transmit"]
  /\ Goto(w, IF outbox[w] = <<>> THEN "transmit" ELSE "check")
  /\ UNCHANGED <<queueVars, disposeVars, localVars, socketVars, historyVars>>

\* Mutant of TransferCount: no filling of a transfer nothing fits in.
TransferCountNoFill(w) == IF packetSize[w] < MinPacket THEN MinPacket ELSE packetSize[w]

\* Zeros are added up to the minimum size, or to the end of the transfer when
\* no message fits in what is left of it.
TransferCount(w) ==
  LET fill == packet[w] = <<>> /\ MaxPacketSize(w) \in 1 .. FillLimit - 1
      least == IF fill THEN MaxPacketSize(w) ELSE MinPacket
  IN  IF packetSize[w] < least THEN least ELSE packetSize[w]

Transmit(w) ==
  /\ pc[w] = "transmit"
  /\ isOpen[w]
  /\ sentBytes' = [sentBytes EXCEPT ![w] = @ + TransferCount(w)]
  /\ sentCount' = [m \in Message |-> IF m \in Range(packet[w]) THEN sentCount[m] + 1
                                                              ELSE sentCount[m]]
  /\ packet' = [packet EXCEPT ![w] = <<>>]
  /\ packetSize' = [packetSize EXCEPT ![w] = 0]
  /\ Goto(w, "after")
  /\ UNCHANGED <<queueVars, disposeVars, return, outbox, hand, maxBytes, isOpen, failures, fresh>>

\* Mutants of TransmitFails: the packet's messages are not brought back; or they
\* are, and stay in the packet.
TransmitFailsLosing(w) ==
  /\ pc[w] = "transmit"
  /\ ~isOpen[w]
  /\ packet' = [packet EXCEPT ![w] = <<>>]
  /\ packetSize' = [packetSize EXCEPT ![w] = 0]
  /\ return' = [return EXCEPT ![w] = "exit"]
  /\ Goto(w, "exit")
  /\ UNCHANGED <<queueVars, disposeVars, outbox, hand, socketVars, historyVars>>

TransmitFailsKeeping(w) ==
  /\ pc[w] = "transmit"
  /\ ~isOpen[w]
  /\ outbox' = [outbox EXCEPT ![w] = packet[w]]
  /\ return' = [return EXCEPT ![w] = "exit"]
  /\ Goto(w, IF packet[w] = <<>> THEN "exit" ELSE "check")
  /\ UNCHANGED <<queueVars, disposeVars, hand, packet, packetSize, socketVars, historyVars>>

\* The write throws: the packet's messages are brought back and the worker
\* leaves ProcessOutgoing.
TransmitFails(w) ==
  /\ pc[w] = "transmit"
  /\ ~isOpen[w]
  /\ outbox' = [outbox EXCEPT ![w] = packet[w]]
  /\ packet' = [packet EXCEPT ![w] = <<>>]
  /\ packetSize' = [packetSize EXCEPT ![w] = 0]
  /\ return' = [return EXCEPT ![w] = "exit"]
  /\ Goto(w, IF packet[w] = <<>> THEN "exit" ELSE "check")
  /\ UNCHANGED <<queueVars, disposeVars, hand, socketVars, historyVars>>

AfterSendMessage(w) ==
  /\ pc[w] = "after"
  /\ Goto(w, IF TransferFinish(w) THEN "reset" ELSE "take")
  /\ UNCHANGED <<queueVars, disposeVars, return, localVars, socketVars, historyVars>>

\* AfterSendMessage of an HTTP courier reads from the socket and may throw;
\* the array of messages is already empty, so nothing is brought back.
AfterSendMessageFails(w) ==
  /\ pc[w] = "after"
  /\ ~isOpen[w]
  /\ Goto(w, "exit")
  /\ UNCHANGED <<queueVars, disposeVars, return, localVars, socketVars, historyVars>>

\* Mutant of ResetEnter: the test and the reset without the critical section.
ResetEnterUnlocked(w) ==
  /\ pc[w] = "reset"
  /\ SendEventCS' = w
  /\ Goto(w, "locked")
  /\ UNCHANGED <<Messages, SendEvent, disposeVars, return, localVars, socketVars, historyVars>>

ResetEnter(w) ==
  /\ pc[w] = "reset"
  /\ SendEventCS = NoThread
  /\ SendEventCS' = w
  /\ Goto(w, "locked")
  /\ UNCHANGED <<Messages, SendEvent, disposeVars, return, localVars, socketVars, historyVars>>

ResetTest(w) ==
  /\ pc[w] = "locked"
  /\ Messages = <<>>
  /\ ~DisposeEvent
  /\ Goto(w, "clear")
  /\ UNCHANGED <<queueVars, disposeVars, return, localVars, socketVars, historyVars>>

ResetSkip(w) ==
  /\ pc[w] = "locked"
  /\ Messages # <<>> \/ DisposeEvent
  /\ SendEventCS' = NoThread
  /\ Goto(w, "loop")
  /\ UNCHANGED <<Messages, SendEvent, disposeVars, return, localVars, socketVars, historyVars>>

ResetClear(w) ==
  /\ pc[w] = "clear"
  /\ SendEvent' = FALSE
  /\ SendEventCS' = NoThread
  /\ Goto(w, "loop")
  /\ UNCHANGED <<Messages, disposeVars, return, localVars, socketVars, historyVars>>

-----------------------------------------------------------------------------
(* Delete and Dispose.  Delete is called from the filter thread, so no Send *)
(* of that thread is under way; the workers are anywhere.                   *)

Delete ==
  /\ disposer = "live"
  /\ pc[Filter] = "idle"
  /\ DisposeEvent' = TRUE
  /\ disposer' = "close"
  /\ UNCHANGED <<queueVars, controlVars, localVars, socketVars, historyVars>>

\* CloseSocketsList(&OutgoingSockets): a socket is in the list from
\* Sockets_Add (Connect) until Sockets_Remove (RemoveSocket).
DisposeClose ==
  /\ disposer = "close"
  /\ isOpen' = [w \in Worker |-> FALSE]
  /\ disposer' = "drain"
  /\ UNCHANGED <<queueVars, DisposeEvent, controlVars, localVars, sentBytes, maxBytes, failures, historyVars>>

DisposeDrain ==
  /\ disposer = "drain"
  /\ Messages # <<>>
  /\ Messages' = Tail(Messages)
  /\ UNCHANGED <<SendEvent, SendEventCS, disposeVars, controlVars, localVars, socketVars, historyVars>>

DisposeDrained ==
  /\ disposer = "drain"
  /\ Messages = <<>>
  /\ disposer' = "pulse"
  /\ UNCHANGED <<queueVars, DisposeEvent, controlVars, localVars, socketVars, historyVars>>

DisposePulse ==
  /\ disposer = "pulse"
  /\ SendEvent' = TRUE
  /\ disposer' = "join"
  /\ UNCHANGED <<Messages, SendEventCS, DisposeEvent, controlVars, localVars, socketVars, historyVars>>

DisposeJoin ==
  /\ disposer = "join"
  /\ \A w \in Worker : pc[w] = "done"
  /\ disposer' = "deleted"
  /\ UNCHANGED <<queueVars, DisposeEvent, controlVars, localVars, socketVars, historyVars>>

\* The object is gone and its threads have ended: nothing is left to happen.
Terminated ==
  /\ disposer = "deleted"
  /\ UNCHANGED vars

-----------------------------------------------------------------------------

Send(t) ==
  SendDiscards(t) \/ SendChecked(t) \/ SendEnter(t) \/ SendAdd(t) \/ SendLeave(t)

ClientWorker(w) ==
  ClientWorkerLoop(w) \/ Connect(w) \/ RemoveSocket(w)

ProcessOutgoing(w) ==
  \/ OutgoingLoop(w) \/ WaitSignalled(w) \/ WaitTimeout(w)
  \/ GetMessage(w) \/ GetMessagesEnd(w)
  \/ IncludeMessage(w) \/ ExcludeMessage(w) \/ PackEnd(w)
  \/ Transmit(w) \/ TransmitFails(w)
  \/ AfterSendMessage(w)
  \/ ResetEnter(w) \/ ResetTest(w) \/ ResetSkip(w) \/ ResetClear(w)

Environment(w) ==
  ConnectFails(w) \/ SocketBreaks(w) \/ AfterSendMessageFails(w)

Dispose ==
  DisposeClose \/ DisposeDrain \/ DisposeDrained \/ DisposePulse \/ DisposeJoin

Next ==
  \/ \E m \in Message : SendBegin(m)
  \/ \E t \in Thread : Send(t)
  \/ \E w \in Worker : ClientWorker(w) \/ ProcessOutgoing(w) \/ Environment(w)
  \/ Delete
  \/ Dispose
  \/ Terminated

Spec == Init /\ [][Next]_vars

\* The threads run, and Windows hands a contended critical section to every
\* thread that keeps waiting for it.  Nothing obliges the filter thread to
\* send or delete, nor a connection to break.
Fairness ==
  /\ \A t \in Thread : WF_vars(Send(t)) /\ SF_vars(SendEnter(t))
  /\ \A w \in Worker : /\ WF_vars(ClientWorker(w))
                       /\ WF_vars(ProcessOutgoing(w))
                       /\ SF_vars(ResetEnter(w))
  /\ WF_vars(Dispose)

FairSpec == Spec /\ Fairness

-----------------------------------------------------------------------------
(* Properties. *)

\* No lost wake-up: whenever a message waits in the list, the workers' event is
\* signalled, or the thread that is adding messages has yet to signal it before
\* it leaves the critical section.
NoLostWakeup ==
  Messages # <<>> =>
    \/ SendEvent
    \/ \E t \in Thread : SendEventCS = t /\ pc[t] = "add"

\* Everything a message can be held in.
HeldBy(t) ==
  Range(outbox[t]) \cup (IF t \in Worker THEN Range(hand[t]) \cup Range(packet[t]) ELSE {})

Held == Range(Messages) \cup UNION {HeldBy(t) : t \in Thread}

\* Each message is in one place: no list holds a message twice, two threads
\* never hold the same message (it would be deleted twice, or sent twice), none
\* holds one that is still in the shared list, and none holds or queues a
\* message that was already written.
OnePlace ==
  /\ IsInjective(Messages)
  /\ \A t \in Thread : IsInjective(outbox[t])
  /\ \A w \in Worker : /\ IsInjective(hand[w])
                       /\ IsInjective(packet[w])
                       /\ Range(hand[w]) \cap Range(packet[w]) = {}
                       /\ Range(hand[w]) \cap Range(outbox[w]) = {}
                       /\ Range(packet[w]) \cap Range(outbox[w]) = {}
  /\ \A t \in Thread : HeldBy(t) \cap Range(Messages) = {}
  /\ \A t, u \in Thread : t # u => HeldBy(t) \cap HeldBy(u) = {}
  /\ \A m \in Held : sentCount[m] = 0 /\ m \notin fresh

\* A connection never carries message bytes beyond the transfer size its peer
\* reads: what is packed fits in what is left, also after padding overshot.
NoOverrun ==
  \A w \in Worker :
    pc[w] \in {"take", "pack", "transmit"} =>
      sentBytes[w] + packetSize[w] <= maxBytes[w]

\* The courier as its owner sees it.
Status ==
  [m \in Message |-> IF m \in Held THEN "pending"
                     ELSE IF sentCount[m] > 0 THEN "sent"
                     ELSE IF m \in fresh THEN "new"
                     ELSE "dropped"]

Delivery == INSTANCE CourierDelivery WITH status <- Status, disposing <- DisposeEvent

\* A message given to Send is never lost while the courier lives, whatever
\* connections break, and it is written at most once: the courier implements
\* CourierDelivery.
ImplementsDelivery == Delivery!Spec

\* A message given to Send is eventually written, unless the owner deletes the
\* courier, although connections break (finitely often), a worker may not have
\* room for it, and workers sleep.
EventuallySent ==
  \A m \in Message : m \in Held ~> (sentCount[m] > 0 \/ DisposeEvent)

\* Dispose terminates: every worker sees DisposeEvent and ends, even one that
\* opens a connection after the sockets were closed or one that clears
\* SendEvent after Dispose signalled it.
DisposeEnds == DisposeEvent ~> disposer = "deleted"
=============================================================================
