------------------------------ MODULE BarbaTransfer ------------------------------
(***************************************************************************)
(* One TCP connection of a stream courier, seen from both ends, in every   *)
(* request mode.  The client opens it, to send (a POST) or to receive (a   *)
(* GET), and announces the size of the transfer.  One end then runs        *)
(* ProcessOutgoing and the other ProcessIncoming until both have counted   *)
(* that many bytes.  In the Bombard modes each packet is an HTTP message   *)
(* with a header, and is answered; the answer may carry messages of the    *)
(* other direction (the payload).                                          *)
(*                                                                         *)
(* The stream is a sequence of items: an HTTP header with its              *)
(* Content-Length, a fake file header, a message, or a zero byte.  Sizes   *)
(* are in units of the transfer, small numbers here.  Crypt depends on an  *)
(* index into the transfer: an item carries the index it was encrypted     *)
(* with, and is read correctly only at that index.                         *)
(***************************************************************************)
EXTENDS Integers, Sequences, SequencesExt

CONSTANTS
  Configs,           \* the configurations [tunnel, words] of the client
  MaxTransferSize,
  FileHeaderSizes,   \* sizes of the fake file header
  MinPacketSizes,
  MessageSizes       \* the sizes of the messages each end produces, in order

ASSUME ConstantsAssumption ==
  /\ MaxTransferSize \in Nat \ {0}
  /\ FileHeaderSizes \subseteq 0 .. MaxTransferSize - 1
  /\ MinPacketSizes \subseteq Nat
  /\ MessageSizes \in [{"sender", "receiver"} -> Seq(Nat \ {0})]

End == {"sender", "receiver"}
Peer(x) == IF x = "sender" THEN "receiver" ELSE "sender"

VARIABLES
  outgoing,     \* the client sends (POST) or receives (GET)
  tunnel,       \* "TCP" or "HTTP"
  minPacketSize, fileHeaderSize,
  transferSize, \* as announced by the client
  end,          \* each end's thread
  wire,         \* what each end can read
  Messages,     \* each end's list of messages to send
  produced,     \* number of messages each end was given
  sent,         \* history: messages each end wrote or tried to write
  received,     \* messages each end received
  broken        \* history: the connection failed by itself

choices == <<outgoing, tunnel, minPacketSize, fileHeaderSize, transferSize>>
vars == <<choices, end, wire, Messages, produced, sent, received, broken>>

-----------------------------------------------------------------------------
(* Request modes.  A mode is written as a set of words. *)

\* Parse.  "/get" is looked for without a blank after it, so that
\* "/getpayload" has it too.
Parse(words) ==
  LET full == words = {"bombard"}
      get == full \/ words \cap {"/get", "/getpayload"} # {}
      getPayload == full \/ "/getpayload" \in words
      post == full \/ "/post" \in words
      reply == full \/ "/postreply" \in words
      replyPayload == full \/ "/postreplypayload" \in words
  IN [Mode |-> IF get \/ getPayload \/ post \/ reply \/ replyPayload THEN "Bombard"
               ELSE IF words = {"normal"} THEN "Normal" ELSE "None",
      get |-> get, getPayload |-> getPayload,
      post |-> post, reply |-> reply, replyPayload |-> replyPayload]

IsFullBombard(m) == m.get /\ m.getPayload /\ m.post /\ m.reply /\ m.replyPayload

ModeText(m) ==
  CASE m.Mode = "None" -> {"none"}
    [] m.Mode = "Normal" -> {"normal"}
    [] IsFullBombard(m) -> {"bombard"}
    [] OTHER -> (IF m.get THEN {"/get"} ELSE {}) \cup
                (IF m.getPayload THEN {"/getpayload"} ELSE {}) \cup
                (IF m.post THEN {"/post"} ELSE {}) \cup
                (IF m.reply THEN {"/postreply"} ELSE {}) \cup
                (IF m.replyPayload THEN {"/postreplypayload"} ELSE {})

\* BarbaClientConfig::LoadFile: the mode the client uses.
ClientMode(config) ==
  LET m == Parse(config.words)
  IN IF config.tunnel = "HTTP" /\ m.Mode = "None" THEN [m EXCEPT !.Mode = "Normal"] ELSE m

\* Only an HTTP client writes its mode into the request.
ServerMode(m) == Parse(IF tunnel = "HTTP" THEN ModeText(m) ELSE {})

\* What a mode asks for in the direction of this transfer.
Chunked(m) == IF outgoing THEN m.post ELSE m.get
Answered(m) == IF outgoing THEN m.reply ELSE m.get
WithPayload(m) == IF outgoing THEN m.replyPayload ELSE m.getPayload
\* The transfer is one file: a normal POST or GET.
OneFile(m) == tunnel = "HTTP" /\ ~Chunked(m) /\ ~Answered(m)

-----------------------------------------------------------------------------
(* The stream *)

Header(len) == [kind |-> "header", len |-> len]
FileHeader == IF fileHeaderSize = 0 THEN <<>> ELSE <<[kind |-> "file"]>>
SizeOf(x, m) == MessageSizes[x][m]

\* The sizes of the first messages together, for every number of them.
Sums(x, messages) ==
  LET sum[n \in 0 .. Len(messages)] ==
        IF n = 0 THEN 0 ELSE sum[n - 1] + SizeOf(x, messages[n])
  IN sum
TotalSize(x, messages) == Sums(x, messages)[Len(messages)]

\* The content of a packet of end x: messages, then zeros, encrypted from index.
Content(x, messages, zeros, index) ==
  LET sum == Sums(x, messages)
  IN [i \in 1 .. Len(messages) |-> [kind |-> "message", id |-> messages[i],
                                    index |-> index + sum[i - 1]]]
     \o [i \in 1 .. zeros |-> [kind |-> "zero",
                               index |-> index + sum[Len(messages)] + i - 1]]

AtLeast(a, b) == IF a < b THEN b ELSE a

\* Mutant of Pack: the limit is left out.
PackAll(x, messages, room) ==
  [in |-> messages, out |-> <<>>, zeros |-> 0, size |-> TotalSize(x, messages)]

\* ProcessOutgoingMessages, with a limit: the messages that fit, those that do
\* not, and the zeros that fill a packet which is too small.  A packet without
\* messages fills the rest of the transfer (below 2000 bytes, as here).
Fit(x, messages, room) ==
  LET fit[n \in 0 .. Len(messages)] ==
        IF n = 0 THEN [in |-> <<>>, out |-> <<>>, size |-> 0]
        ELSE LET size == fit[n - 1].size + SizeOf(x, messages[n])
             IN IF size <= room
                THEN [fit[n - 1] EXCEPT !.in = Append(@, messages[n]), !.size = size]
                ELSE [fit[n - 1] EXCEPT !.out = Append(@, messages[n])]
  IN fit[Len(messages)]
Pack(x, messages, room) ==
  LET fit == Fit(x, messages, room)
      minimum == IF fit.in = <<>> THEN room ELSE minPacketSize
  IN [in |-> fit.in, out |-> fit.out, zeros |-> AtLeast(0, minimum - fit.size),
      size |-> AtLeast(minimum, fit.size)]

\* Mutant of PayloadIndex: the payload continues the index of the transfer.
PayloadIndexOfTransfer(x) == end[x].count

\* The payload of an answer has no limit and an index of its own.
PayloadIndex(x) == 0

Payload(x) ==
  LET size == TotalSize(x, Messages[x])
      zeros == IF Messages[x] = <<>> THEN 0 ELSE AtLeast(0, minPacketSize - size)
  IN [size |-> size + zeros, items |-> Content(x, Messages[x], zeros, PayloadIndex(x))]

Ended(x) == end[x].pc \in {"done", "failed"}
\* What is written to an end that has closed its socket is lost.
Write(x, items) ==
  wire' = IF Ended(Peer(x)) THEN wire ELSE [wire EXCEPT ![Peer(x)] = @ \o items]

Goes(x, pc) == end' = [end EXCEPT ![x].pc = pc]

-----------------------------------------------------------------------------
Idle(mode) == [pc |-> "start", mode |-> mode, max |-> 0, count |-> 0,
               left |-> 0, all |-> FALSE, offset |-> 0]

Init ==
  /\ outgoing \in BOOLEAN
  /\ minPacketSize \in MinPacketSizes
  /\ fileHeaderSize \in FileHeaderSizes
  /\ transferSize \in AtLeast(MaxTransferSize \div 2, fileHeaderSize + 1) .. MaxTransferSize
  /\ \E config \in Configs :
       /\ tunnel = IF config.tunnel = "HTTP" \/ Parse(config.words).Mode # "None"
                   THEN "HTTP" ELSE "TCP"
       /\ end = [x \in End |-> Idle(ClientMode(config))]
  /\ wire = [x \in End |-> <<>>]
  /\ Messages = [x \in End |-> <<>>]
  /\ produced = [x \in End |-> 0]
  /\ sent = [x \in End |-> <<>>]
  /\ received = [x \in End |-> <<>>]
  /\ broken = FALSE

\* Send: a message for this end.
Produce(x) ==
  /\ produced[x] < Len(MessageSizes[x])
  /\ produced' = [produced EXCEPT ![x] = @ + 1]
  /\ Messages' = [Messages EXCEPT ![x] = Append(@, produced[x] + 1)]
  /\ UNCHANGED <<choices, end, wire, sent, received, broken>>

-----------------------------------------------------------------------------
(* Opening *)

\* What is left of a file after its header.
FileRest == transferSize - fileHeaderSize

\* The client sends its request.  A TCP client counts to another size than it
\* announces.  The header of the request is followed by that of the file.
ClientStartsPost ==
  /\ outgoing /\ end["sender"].pc = "start"
  /\ LET m == end["sender"].mode
     IN /\ Write("sender", <<Header(0)>> \o (IF OneFile(m) THEN FileHeader ELSE <<>>))
        /\ end' = [end EXCEPT
             !["sender"].pc = IF tunnel = "TCP" \/ OneFile(m) THEN "sending" ELSE "reply",
             !["sender"].max = IF tunnel = "TCP" THEN MaxTransferSize
                               ELSE IF OneFile(m) THEN FileRest ELSE transferSize]
  /\ UNCHANGED <<choices, Messages, produced, sent, received, broken>>

ClientStartsGet ==
  /\ ~outgoing /\ end["receiver"].pc = "start"
  /\ Write("receiver", <<Header(0)>>)
  /\ LET m == end["receiver"].mode
     IN end' = [end EXCEPT !["receiver"].pc = IF OneFile(m) THEN "getReply" ELSE "receiving",
                           !["receiver"].max = transferSize]
  /\ UNCHANGED <<choices, Messages, produced, sent, received, broken>>

\* The server reads the request, and with it the mode.
ServerStartsPost ==
  /\ outgoing /\ end["receiver"].pc = "start"
  /\ wire["receiver"] # <<>>
  /\ LET m == ServerMode(end["sender"].mode)
         accept == IF tunnel = "HTTP" /\ ~OneFile(m) THEN <<Header(0)>> ELSE <<>>
     IN /\ wire' = [wire EXCEPT !["receiver"] = Tail(@),
                                !["sender"] = IF Ended("sender") THEN @ ELSE @ \o accept]
        /\ end' = [end EXCEPT
             !["receiver"].mode = m,
             !["receiver"].pc = IF OneFile(m) /\ fileHeaderSize > 0 THEN "file" ELSE "receiving",
             !["receiver"].max = IF OneFile(m) THEN FileRest ELSE transferSize]
  /\ UNCHANGED <<choices, Messages, produced, sent, received, broken>>

ServerStartsGet ==
  /\ ~outgoing /\ end["sender"].pc = "start"
  /\ wire["sender"] # <<>>
  /\ LET m == ServerMode(end["receiver"].mode)
         reply == IF OneFile(m) THEN <<Header(0)>> \o FileHeader ELSE <<>>
     IN /\ wire' = [wire EXCEPT !["sender"] = Tail(@),
                                !["receiver"] = IF Ended("receiver") THEN @ ELSE @ \o reply]
        /\ end' = [end EXCEPT !["sender"].mode = m, !["sender"].pc = "sending",
                              !["sender"].max = IF OneFile(m) THEN FileRest ELSE transferSize]
  /\ UNCHANGED <<choices, Messages, produced, sent, received, broken>>

-----------------------------------------------------------------------------
(* Reading *)

Next1(x) == Head(wire[x])
\* The item at the head is the one this end expects.
Expected(x) ==
  LET item == Next1(x) e == end[x]
  IN CASE e.pc \in {"reply", "last", "getReply", "receiving"} -> item.kind = "header"
       [] e.pc = "file" -> item.kind = "file"
       [] e.pc = "payload" -> item.kind \in {"message", "zero"} /\ item.index = e.offset
       [] e.pc = "body" -> item.kind \in {"message", "zero"} /\ item.index = e.count

\* This end blocks in Receive until there is something to read.  What it takes
\* for something else is garbled; the model stops there (InStep).
Reading(x) ==
  \/ end[x].pc \in {"reply", "last", "getReply", "file", "payload", "body"}
  \/ /\ end[x].pc = "receiving" /\ end[x].count < end[x].max /\ Chunked(end[x].mode)
  \/ end[x].pc = "start" /\ (outgoing <=> x = "receiver")

CanRead(x, pc) == end[x].pc = pc /\ wire[x] # <<>> /\ Expected(x)
Consume(x) == wire' = [wire EXCEPT ![x] = Tail(@)]

ItemSize(x, item) == IF item.kind = "zero" THEN 1 ELSE SizeOf(Peer(x), item.id)
Receive(x, item) ==
  received' = IF item.kind = "zero" THEN received
              ELSE [received EXCEPT ![x] = Append(@, item.id)]

-----------------------------------------------------------------------------
(* The sender: ProcessOutgoing *)

AfterOutgoing == IF outgoing /\ OneFile(end["sender"].mode) THEN "last" ELSE "done"

\* transferFinish
Finished(count, max) == count >= max
TransferFinish(count) == Finished(count, end["sender"].max)

PacketItems(p) ==
  (IF Chunked(end["sender"].mode) THEN <<Header(p.size)>> ELSE <<>>)
    \o Content("sender", p.in, p.zeros, end["sender"].count)

\* One packet with all messages that fit; the others return to the list, the
\* last one first.
Transmit ==
  /\ end["sender"].pc = "sending" /\ Messages["sender"] # <<>>
  /\ LET e == end["sender"]
         p == Pack("sender", Messages["sender"], e.max - e.count)
     IN /\ Write("sender", PacketItems(p))
        /\ Messages' = [Messages EXCEPT !["sender"] = Reverse(p.out)]
        /\ sent' = [sent EXCEPT !["sender"] = @ \o p.in]
        /\ end' = [end EXCEPT
             !["sender"].count = @ + p.size,
             !["sender"].pc = IF TransferFinish(e.count + p.size) THEN AfterOutgoing
                              ELSE IF Answered(e.mode) THEN "reply" ELSE "sending"]
  /\ UNCHANGED <<choices, produced, received, broken>>

\* Send fails after it wrote a part; the messages return to the list.
TransmitFails ==
  /\ end["sender"].pc = "sending" /\ Messages["sender"] # <<>>
  /\ LET e == end["sender"]
         p == Pack("sender", Messages["sender"], e.max - e.count)
     IN /\ \E k \in 0 .. Len(PacketItems(p)) : Write("sender", SubSeq(PacketItems(p), 1, k))
        /\ Messages' = [Messages EXCEPT !["sender"] = Reverse(p.in) \o Reverse(p.out)]
        /\ sent' = [sent EXCEPT !["sender"] = @ \o p.in]
  /\ Goes("sender", "failed")
  /\ broken' = (broken \/ ~Ended("receiver"))
  /\ UNCHANGED <<choices, produced, received>>

\* Mutant of OutgoingStops: SendEvent is waited for without a timeout.
OutgoingStopsNever ==
  /\ FALSE
  /\ UNCHANGED vars

\* SendEvent was not set for two seconds and the socket is not writable.
OutgoingStops ==
  /\ end["sender"].pc = "sending" /\ Messages["sender"] = <<>>
  /\ Ended("receiver")
  /\ Goes("sender", AfterOutgoing)
  /\ UNCHANGED <<choices, wire, Messages, produced, sent, received, broken>>

\* AfterSendMessage and WaitForAcceptPostRequest: the header of the answer ...
ReadReply ==
  /\ CanRead("sender", "reply") /\ Consume("sender")
  /\ LET len == Next1("sender").len
     IN end' = [end EXCEPT !["sender"].pc = IF len > 0 THEN "payload" ELSE "sending",
                           !["sender"].left = len, !["sender"].offset = 0]
  /\ UNCHANGED <<choices, Messages, produced, sent, received, broken>>

\* ... and its payload.
ReadPayload ==
  /\ CanRead("sender", "payload") /\ Consume("sender")
  /\ LET item == Next1("sender")
         e == end["sender"]
         size == ItemSize("sender", item)
     IN /\ Receive("sender", item)
        /\ end' = [end EXCEPT !["sender"].left = AtLeast(0, @ - size),
                              !["sender"].offset = @ + size,
                              !["sender"].pc = IF e.left > size THEN "payload" ELSE "sending"]
  /\ UNCHANGED <<choices, Messages, produced, sent, broken>>

\* The answer to a normal POST.
ReadLast ==
  /\ CanRead("sender", "last") /\ Consume("sender")
  /\ Goes("sender", "done")
  /\ UNCHANGED <<choices, Messages, produced, sent, received, broken>>

-----------------------------------------------------------------------------
(* The receiver: ProcessIncoming *)

\* Mutant of ReadGetReply: the size of the file header is not subtracted.
ReadGetReplyWholeFile ==
  /\ CanRead("receiver", "getReply") /\ Consume("receiver")
  /\ Goes("receiver", IF fileHeaderSize > 0 THEN "file" ELSE "receiving")
  /\ UNCHANGED <<choices, Messages, produced, sent, received, broken>>

\* The answer to a normal GET, with the size of the file header.
ReadGetReply ==
  /\ CanRead("receiver", "getReply") /\ Consume("receiver")
  /\ end' = [end EXCEPT !["receiver"].pc = IF fileHeaderSize > 0 THEN "file" ELSE "receiving",
                        !["receiver"].max = FileRest]
  /\ UNCHANGED <<choices, Messages, produced, sent, received, broken>>

\* WaitForIncomingFileHeader
ReadFileHeader ==
  /\ CanRead("receiver", "file") /\ Consume("receiver")
  /\ Goes("receiver", "receiving")
  /\ UNCHANGED <<choices, Messages, produced, sent, received, broken>>

\* The receiver waits for the next packet: with a length, the whole chunk is
\* processed; otherwise one message of what is left of the transfer.
BeforeReceiveMessage ==
  /\ end["receiver"].count < end["receiver"].max
  /\ LET e == end["receiver"]
         read == Chunked(e.mode)
         len == IF read THEN Next1("receiver").len ELSE 0
     IN /\ IF read THEN CanRead("receiver", "receiving") /\ Consume("receiver")
           ELSE e.pc = "receiving" /\ UNCHANGED wire
        /\ end' = [end EXCEPT !["receiver"].pc = "body",
                              !["receiver"].all = len # 0,
                              !["receiver"].left = IF len # 0 THEN len ELSE e.max - e.count]
  /\ UNCHANGED <<choices, Messages, produced, sent, received, broken>>

\* Mutant of AnswerDue: the last packet is answered too.
AnswerDueAlways(count) == Answered(end["receiver"].mode)

\* AfterReceiveMessage
AnswerDue(count) == Answered(end["receiver"].mode) /\ ~Finished(count, end["receiver"].max)

ReadBody ==
  /\ CanRead("receiver", "body") /\ Consume("receiver")
  /\ LET item == Next1("receiver")
         e == end["receiver"]
         size == ItemSize("receiver", item)
         more == e.left > size /\ (item.kind = "zero" \/ e.all)
     IN /\ Receive("receiver", item)
        /\ end' = [end EXCEPT
             !["receiver"].count = @ + size,
             !["receiver"].left = AtLeast(0, @ - size),
             !["receiver"].pc = IF more THEN "body"
                                ELSE IF AnswerDue(e.count + size) THEN "answer" ELSE "receiving"]
  /\ UNCHANGED <<choices, Messages, produced, sent, broken>>

\* Mutant of Answer: an answer without payload is left out.
AnswerWithPayloadOnly ==
  /\ end["receiver"].pc = "answer"
  /\ IF WithPayload(end["receiver"].mode) /\ Messages["receiver"] # <<>>
     THEN /\ Write("receiver", <<Header(Payload("receiver").size)>> \o Payload("receiver").items)
          /\ sent' = [sent EXCEPT !["receiver"] = @ \o Messages["receiver"]]
          /\ Messages' = [Messages EXCEPT !["receiver"] = <<>>]
     ELSE UNCHANGED <<wire, sent, Messages>>
  /\ Goes("receiver", "receiving")
  /\ UNCHANGED <<choices, produced, received, broken>>

\* The next GET request, or the reply to a POST, with all messages of the list.
Answer ==
  /\ end["receiver"].pc = "answer"
  /\ IF WithPayload(end["receiver"].mode)
     THEN /\ Write("receiver", <<Header(Payload("receiver").size)>> \o Payload("receiver").items)
          /\ sent' = [sent EXCEPT !["receiver"] = @ \o Messages["receiver"]]
          /\ Messages' = [Messages EXCEPT !["receiver"] = <<>>]
     ELSE Write("receiver", <<Header(0)>>) /\ UNCHANGED <<sent, Messages>>
  /\ Goes("receiver", "receiving")
  /\ UNCHANGED <<choices, produced, received, broken>>

\* The answer cannot be sent; its messages return to the list.
AnswerFails ==
  /\ end["receiver"].pc = "answer"
  /\ Messages' = [Messages EXCEPT !["receiver"] =
                    IF WithPayload(end["receiver"].mode) THEN Reverse(@) ELSE @]
  /\ Goes("receiver", "failed")
  /\ broken' = (broken \/ ~Ended("sender"))
  /\ UNCHANGED <<choices, wire, produced, sent, received>>

\* The transfer is complete; a normal POST is answered at its end.
IncomingEnds ==
  /\ end["receiver"].pc = "receiving"
  /\ Finished(end["receiver"].count, end["receiver"].max)
  /\ IF outgoing /\ OneFile(end["receiver"].mode) THEN Write("receiver", <<Header(0)>>)
     ELSE UNCHANGED wire
  /\ Goes("receiver", "done")
  /\ UNCHANGED <<choices, Messages, produced, sent, received, broken>>

-----------------------------------------------------------------------------
(* Failures *)

\* The other end has closed its socket and everything it wrote is read.
ReadsEnd(x) ==
  /\ Reading(x) /\ wire[x] = <<>> /\ Ended(Peer(x))
  /\ Goes(x, "failed")
  /\ UNCHANGED <<choices, wire, Messages, produced, sent, received, broken>>

\* A timeout or an error while this end reads.
Breaks(x) ==
  /\ Reading(x)
  /\ Goes(x, "failed")
  /\ broken' = TRUE
  /\ UNCHANGED <<choices, wire, Messages, produced, sent, received>>

\* Closing a socket with unread data resets the connection: the other end may
\* lose what it has not read yet.  The connection did not fail by itself.
Reset(x) ==
  /\ Ended(x) /\ wire[x] # <<>> /\ ~Ended(Peer(x)) /\ wire[Peer(x)] # <<>>
  /\ wire' = [wire EXCEPT ![Peer(x)] = <<>>]
  /\ UNCHANGED <<choices, end, Messages, produced, sent, received, broken>>

-----------------------------------------------------------------------------
Sender == ClientStartsPost \/ ServerStartsGet \/ Transmit \/ OutgoingStops \/ ReadReply
            \/ ReadPayload \/ ReadLast
Receiver == ClientStartsGet \/ ServerStartsPost \/ ReadGetReply \/ ReadFileHeader
              \/ BeforeReceiveMessage \/ ReadBody \/ Answer \/ IncomingEnds

Next ==
  \/ Sender \/ Receiver \/ TransmitFails \/ AnswerFails
  \/ \E x \in End : Produce(x) \/ ReadsEnd(x) \/ Breaks(x) \/ Reset(x)

Spec == Init /\ [][Next]_vars

\* Both threads run; nothing else need happen.
Fairness ==
  /\ WF_vars(Sender) /\ WF_vars(Receiver)
  /\ \A x \in End : WF_vars(ReadsEnd(x))

FairSpec == Spec /\ Fairness

-----------------------------------------------------------------------------
(* Properties *)

\* Types.  An end counts past the end of the transfer by less than the minimal
\* packet size.  Over TCP that is the end the sending client counts to.
TypeOK ==
  /\ outgoing \in BOOLEAN /\ tunnel \in {"TCP", "HTTP"}
  /\ minPacketSize \in MinPacketSizes /\ fileHeaderSize \in FileHeaderSizes
  /\ transferSize \in 1 .. MaxTransferSize
  /\ \A x \in End :
       /\ end[x].pc \in {"start", "sending", "reply", "payload", "last", "getReply", "file",
                         "receiving", "body", "answer", "done", "failed"}
       /\ end[x].max \in 0 .. MaxTransferSize
       /\ LET max == IF tunnel = "TCP" /\ outgoing THEN MaxTransferSize ELSE end[x].max
          IN end[x].count \in 0 .. max + AtLeast(0, minPacketSize - 1)
       /\ {end[x].left, end[x].offset} \subseteq Nat
       /\ end[x].all \in BOOLEAN
       /\ produced[x] \in 0 .. Len(MessageSizes[x])
       /\ \A s \in {Messages[x], sent[x], received[Peer(x)]} : Range(s) \subseteq 1 .. produced[x]
  /\ broken \in BOOLEAN

\* HttpClient, HttpServer, BarbaCourierStream: in every request mode the two
\* ends agree on what comes next in the stream and at which index it was
\* encrypted, also when a write fails in the middle or the connection breaks.
InStep ==
  \A x \in End :
    Reading(x) /\ end[x].pc # "start" /\ wire[x] # <<>> => Expected(x)

\* The two ends never wait for each other.
NoMutualWait ==
  ~ \A x \in End : Reading(x) /\ wire[x] = <<>>

\* The modes in which the number of answers is that of the packets: without
\* /post, a reply is sent for each message of a packet.
OneAnswerEach(m) == outgoing /\ m.reply => m.post

\* ProcessOutgoing, ProcessIncoming and their hooks: what was received is a
\* prefix of what was sent, and all of it when the transfer is complete.
ReceivedAll ==
  \A x \in End :
    /\ IsPrefix(received[Peer(x)], sent[x])
    /\ (tunnel = "HTTP" /\ ~broken /\ OneAnswerEach(end["sender"].mode)
          /\ \A y \in End : end[y].pc = "done")
         => received[Peer(x)] = sent[x]

\* A normal POST whose last packet a minimal packet size has made longer than
\* announced: the server answers and closes with the rest unread.  All messages
\* were received, and the client still waits for the answer, or it has failed.
PaddingUnread ==
  /\ outgoing /\ OneFile(end["sender"].mode)
  /\ end["sender"].count > end["sender"].max
  /\ end["receiver"].pc = "done" /\ wire["receiver"] # <<>>
  /\ received["receiver"] = sent["sender"] /\ wire["sender"] = <<>>

\* ClientWorker, ServerWorker: while the connection does not fail by itself, no
\* end fails but the client of a normal POST that was longer than announced:
\* it can lose the answer, and then it loses nothing else.
FailsOnlyWhenBroken ==
  tunnel = "HTTP" /\ ~broken /\ OneAnswerEach(end["sender"].mode)
    => /\ end["receiver"].pc # "failed"
       /\ end["sender"].pc = "failed" => PaddingUnread

\* When one end has finished or failed, the other one ends too.
BothEnd == \A x \in End : Ended(x) ~> Ended(Peer(x))

\* The ClientWorkers of BarbaCourierTcpClient and BarbaCourierHttpClient take an
\* error for a rejected connection, and no error for a finished transfer.  So
\* without a failure of the connection, and once it was accepted, there is no
\* error.  (The code of both violates it, for HTTP see PaddingUnread.)
ErrorMeansRejected ==
  ~broken => \A x \in End : end[x].pc # "failed"
=============================================================================
