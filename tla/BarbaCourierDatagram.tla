------------------------- MODULE BarbaCourierDatagram -------------------------
(***************************************************************************)
(* One UDP tunnel: the client's and the server's BarbaCourierDatagram with *)
(* a network between them that loses, duplicates and reorders chunks.      *)
(*                                                                         *)
(* A courier cuts a packet into chunks and its peer collects them by       *)
(* message id; a chunk that completes its message delivers it.  Control    *)
(* messages carry an id and are resent until they are acknowledged: the    *)
(* server asks each new session for its settings (UdpInit), the client     *)
(* answers.  Everything of one courier runs on the filter thread, so the   *)
(* handler of a chunk is one action.                                       *)
(*                                                                         *)
(* Time is abstract: a message grows old at any time, and whether a        *)
(* handler finds its timers elapsed is a choice, tick for the 500 ms of    *)
(* DoTimer with the four seconds of a resend, clean for the period of      *)
(* RemoveTimeoutMessages.  The tick is taken at the beginning of a handler:*)
(* a later one would resend the same message.  Control messages fit in a   *)
(* chunk, and a side only ever queues copies of one command, so the queue  *)
(* Datas is its length.  Left out: keep-alive chunks, which the peer drops *)
(* for being shorter than 13 bytes, and the ports chunks travel on.        *)
(***************************************************************************)
EXTENDS Naturals, FiniteSets, Functions

CONSTANTS
  Client,
  Server,
  Packet,            \* IP packets to tunnel
  Sender,            \* the side each packet is sent from
  ChunksCount,       \* the number of chunks each packet is cut into
  MaxMessagesCount,  \* limit of the list of incomplete messages
  MaxControls,       \* bound on the control messages a side queues
  MaxId,             \* bound on the ids of control messages
  MaxInFlight,       \* bound on the chunks under way
  MaxRestarts        \* bound on the restarts of the server

Endpoint == {Client, Server}

ASSUME ConstantsAssumption ==
  /\ Client # Server
  /\ Sender \in [Packet -> Endpoint]
  /\ ChunksCount \in [Packet -> Nat \ {0}]
  /\ MaxMessagesCount \in Nat \ {0}
  /\ MaxControls \in Nat
  /\ MaxId \in Nat
  /\ MaxInFlight \in Nat
  /\ MaxRestarts \in Nat

Peer(e) == IF e = Client THEN Server ELSE Client

VARIABLES
  manager,        \* each side's DataControlManager
  Messages,       \* each side's incomplete messages
  LastMessageId,  \* ids given to messages of several chunks (a message of one
                  \* chunk sends no id, so its id is not counted)
  session,        \* has the server's courier learnt the session id?
  configured,     \* has it received the client's settings?
  unsent,         \* packets not sent yet (those of several chunks are sent once)
  net,            \* chunks under way; one remains there while copies may arrive
  mixed,          \* history: sides that were handed chunks of different packets
  restarts

tables == <<Messages, LastMessageId>>
vars == <<manager, tables, session, configured, unsent, net, mixed, restarts>>

\* The DataControlManager of a courier that was just constructed.
NewManager == [NextId |-> 0, LastReceivedId |-> 0, Datas |-> 0]

LastSentId == 0     \* never assigned after construction

Control(e, n) == [to |-> Peer(e), type |-> "control", id |-> n]
Ack(e, n) == [to |-> Peer(e), type |-> "ack", id |-> n]
Data(e, n, p, i) == [to |-> Peer(e), type |-> "data", id |-> n, packet |-> p, index |-> i]

\* Mutant of DataChunks: the loop counts from 1.
DataChunksFromOne(e, n, p) == {Data(e, n, p, i) : i \in 1 .. ChunksCount[p]}

DataChunks(e, n, p) == {Data(e, n, p, i) : i \in 0 .. ChunksCount[p] - 1}

\* A message being collected: Chunks maps the chunks that arrived to the packet
\* each was cut from.
NewMessage(n, size) ==
  [Id |-> n, size |-> size, Chunks |-> <<>>, AddedChunksCount |-> 0, old |-> FALSE]

TypeOK ==
  /\ manager \in [Endpoint -> [NextId : Nat, LastReceivedId : Nat, Datas : Nat]]
  /\ \A e \in Endpoint : \A m \in Messages[e] :
       /\ m.Id \in Nat /\ m.size \in Nat /\ m.AddedChunksCount \in Nat /\ m.old \in BOOLEAN
       /\ DOMAIN m.Chunks \subseteq 0 .. m.size - 1
       /\ Range(m.Chunks) \subseteq Packet
  /\ LastMessageId \in [Endpoint -> Nat]
  /\ session \in BOOLEAN
  /\ configured \in BOOLEAN
  /\ unsent \subseteq Packet
  /\ \A c \in net :
       /\ c.to \in Endpoint /\ c.type \in {"control", "ack", "data"} /\ c.id \in Nat
       /\ c.type = "data" => c.packet \in Packet /\ c.index \in 0 .. ChunksCount[c.packet] - 1
  /\ mixed \subseteq Endpoint
  /\ restarts \in Nat

Init ==
  /\ manager = [e \in Endpoint |-> NewManager]
  /\ Messages = [e \in Endpoint |-> {}]
  /\ LastMessageId = [e \in Endpoint |-> 0]
  /\ session = FALSE
  /\ configured = FALSE
  /\ unsent = Packet
  /\ net = {}
  /\ mixed = {}
  /\ restarts = 0

-----------------------------------------------------------------------------
(* DataControlManager.  Its methods change the manager and send chunks; they *)
(* map a pair of both, r, to the pair after the call.                        *)

\* Process sends the head of the queue, if its timer elapsed or it is forced to.
Process(e, r, force) ==
  [r EXCEPT !.out = @ \cup (IF force /\ r.m.Datas > 0 THEN {Control(e, r.m.NextId)} ELSE {})]

DoTimer(e, tick) == Process(e, [m |-> manager[e], out |-> {}], tick)

\* DataControlManager::Send: a command that is alone in the queue is sent at once.
SendDataControl(e, r) ==
  Process(e, [r EXCEPT !.m.Datas = @ + 1], r.m.Datas = 0)

SendAck(e, r, n) == [r EXCEPT !.out = @ \cup {Ack(e, n)}]

\* PreReceiveDataControl: the client answers UdpInit with its settings.  (The
\* server stores them.)
PreReceiveDataControl(e, r) == IF e = Client THEN SendDataControl(e, r) ELSE r

\* Mutant of AlreadyReceived: the first message, whose id is 0, counts as received.
AlreadyReceivedFirst(m, n) == n <= m.LastReceivedId

AlreadyReceived(m, n) == n <= m.LastReceivedId /\ n # 0

AcceptControl(e, r, n) ==
  IF AlreadyReceived(r.m, n)
  THEN SendAck(e, r, n)
  ELSE SendAck(e, PreReceiveDataControl(e, [r EXCEPT !.m.LastReceivedId = n]), n)

\* An acknowledged message leaves the queue and the next is sent.
AcceptAck(e, r, n) ==
  IF n = LastSentId
  THEN Process(e, [r EXCEPT !.m.Datas = IF @ = 0 THEN 0 ELSE @ - 1, !.m.NextId = @ + 1], TRUE)
  ELSE r

-----------------------------------------------------------------------------
(* Collecting chunks. *)

\* Mutant of AddChunk: a chunk that comes twice is counted twice.
AddChunkCountingAll(m, i, p) ==
  [m EXCEPT !.Chunks = [j \in DOMAIN m.Chunks \cup {i} |-> IF j = i THEN p ELSE m.Chunks[j]],
            !.AddedChunksCount = @ + 1,
            !.old = FALSE]

AddChunk(m, i, p) ==
  [m EXCEPT !.Chunks = [j \in DOMAIN m.Chunks \cup {i} |-> IF j = i THEN p ELSE m.Chunks[j]],
            !.AddedChunksCount = IF i \in DOMAIN m.Chunks THEN @ ELSE @ + 1,
            !.old = FALSE]

InRange(m, i) == i < m.size

IsCompleted(m) == m.AddedChunksCount = m.size

RemoveTimeoutMessages(S, clean) == IF clean THEN {m \in S : ~m.old} ELSE S

\* The message of S a chunk with this id belongs to; a new one if there is none.
MessageOf(S, n, size) ==
  IF \E m \in S : m.Id = n THEN CHOOSE m \in S : m.Id = n ELSE NewMessage(n, size)

-----------------------------------------------------------------------------
(* Actions. *)

\* The chunks under way become S.
Carry(S) == Cardinality(S) <= MaxInFlight /\ net' = S

\* A server's courier that meets its session starts by requesting the settings.
SendInitRequest(e, r) == IF e = Server /\ ~session THEN SendDataControl(e, r) ELSE r

\* The end of the handler of chunk c, which may come again (kept).
Commit(e, r, c, kept) ==
  /\ manager' = [manager EXCEPT ![e] = r.m]
  /\ session' = (session \/ e = Server)
  /\ Carry((IF kept THEN net ELSE net \ {c}) \cup r.out)

\* Of the client the packets tell the session; the server does not send before.
MaySend(e) == e = Client \/ session

\* Mutant of GetNewMessageId: the last id is returned and not incremented.
GetNewMessageIdStuck(e) == LastMessageId[e]

GetNewMessageId(e) == LastMessageId[e] + 1

\* SendData of a captured packet.
SendData(e, p, tick) ==
  LET r == DoTimer(e, tick)
      several == ChunksCount[p] > 1
      n == IF several THEN GetNewMessageId(e) ELSE 0
  IN  /\ MaySend(e)
      /\ Sender[p] = e
      /\ p \in unsent
      /\ manager' = [manager EXCEPT ![e] = r.m]
      /\ Carry(net \cup r.out \cup DataChunks(e, n, p))
      /\ unsent' = IF several THEN unsent \ {p} ELSE unsent
      /\ LastMessageId' = [LastMessageId EXCEPT ![e] = IF several THEN n ELSE @]
      /\ UNCHANGED <<Messages, session, configured, mixed, restarts>>

\* SendChunkToInbound of a chunk that is a control message.
ReceiveControl(e, c, tick, clean, kept) ==
  LET d == DoTimer(e, tick)
      r == SendInitRequest(e, AcceptControl(e, d, c.id))
  IN  /\ c \in net /\ c.to = e /\ c.type = "control"
      /\ r.m.Datas <= MaxControls
      /\ Commit(e, r, c, kept)
      /\ Messages' = [Messages EXCEPT ![e] = RemoveTimeoutMessages(@, clean)]
      /\ configured' = (configured \/ (e = Server /\ ~AlreadyReceived(d.m, c.id)))
      /\ UNCHANGED <<LastMessageId, unsent, mixed, restarts>>

ReceiveAck(e, c, tick, clean, kept) ==
  LET r == SendInitRequest(e, AcceptAck(e, DoTimer(e, tick), c.id))
  IN  /\ c \in net /\ c.to = e /\ c.type = "ack"
      /\ r.m.NextId <= MaxId /\ r.m.Datas <= MaxControls
      /\ Commit(e, r, c, kept)
      /\ Messages' = [Messages EXCEPT ![e] = RemoveTimeoutMessages(@, clean)]
      /\ UNCHANGED <<LastMessageId, configured, unsent, mixed, restarts>>

\* The list of incomplete messages after m got a chunk and became added.
Store(S, m, added) ==
  IF IsCompleted(added) THEN S \ {m}
  ELSE IF m \in S THEN (S \ {m}) \cup {added}
  ELSE IF Cardinality(S) < MaxMessagesCount THEN S \cup {added}
  ELSE S

\* SendChunkToInbound of a chunk of a packet, which is delivered when complete.
ReceiveChunk(e, c, tick, clean, kept) ==
  LET r == SendInitRequest(e, DoTimer(e, tick))
      m == MessageOf(Messages[e], c.id, ChunksCount[c.packet])
      added == AddChunk(m, c.index, c.packet)
  IN  /\ c \in net /\ c.to = e /\ c.type = "data"
      /\ InRange(m, c.index)
      /\ r.m.Datas <= MaxControls
      /\ Commit(e, r, c, kept)
      /\ Messages' = [Messages EXCEPT ![e] = RemoveTimeoutMessages(Store(@, m, added), clean)]
      /\ mixed' = IF IsCompleted(added) /\ Cardinality(Range(added.Chunks)) > 1
                  THEN mixed \cup {e} ELSE mixed
      /\ UNCHANGED <<LastMessageId, configured, unsent, restarts>>

\* AddChunk throws when the chunk has no place in the message of its id; the
\* filter thread catches it, and what followed in the handler is not done.
ReceiveChunkThrows(e, c, tick, kept) ==
  LET r == DoTimer(e, tick)
  IN  /\ c \in net /\ c.to = e /\ c.type = "data"
      /\ ~InRange(MessageOf(Messages[e], c.id, ChunksCount[c.packet]), c.index)
      /\ Commit(e, r, c, kept)
      /\ UNCHANGED <<tables, configured, unsent, mixed, restarts>>

\* MessageTimeout passed since an incomplete message got a chunk.
MessageAges(e, m) ==
  /\ m \in Messages[e]
  /\ Messages' = [Messages EXCEPT ![e] = (@ \ {m}) \cup {[m EXCEPT !.old = TRUE]}]
  /\ UNCHANGED <<manager, LastMessageId, session, configured, unsent, net, mixed, restarts>>

Lose(c) ==
  /\ c \in net
  /\ net' = net \ {c}
  /\ UNCHANGED <<manager, tables, session, configured, unsent, mixed, restarts>>

\* The server restarts, or deletes a connection it believes to be idle: the
\* next chunk meets a courier that was just constructed.
Restart ==
  /\ restarts < MaxRestarts
  /\ restarts' = restarts + 1
  /\ manager' = [manager EXCEPT ![Server] = NewManager]
  /\ Messages' = [Messages EXCEPT ![Server] = {}]
  /\ LastMessageId' = [LastMessageId EXCEPT ![Server] = 0]
  /\ session' = FALSE
  /\ configured' = FALSE
  /\ UNCHANGED <<unsent, net, mixed>>

-----------------------------------------------------------------------------

Receive(e, c, tick, clean, kept) ==
  \/ ReceiveControl(e, c, tick, clean, kept)
  \/ ReceiveAck(e, c, tick, clean, kept)
  \/ ReceiveChunk(e, c, tick, clean, kept)
  \/ ReceiveChunkThrows(e, c, tick, kept)

\* Elapsed timers make a difference only to a queued or an old message.
Ticks(e) == {tick \in BOOLEAN : tick => manager[e].Datas > 0}
Cleans(e) == {clean \in BOOLEAN : clean => \E m \in Messages[e] : m.old}

Next ==
  \/ \E e \in Endpoint :
       \/ \E p \in Packet, tick \in Ticks(e) : SendData(e, p, tick)
       \/ \E c \in net, tick \in Ticks(e), clean \in Cleans(e), kept \in BOOLEAN :
            Receive(e, c, tick, clean, kept)
       \/ \E m \in Messages[e] : MessageAges(e, m)
  \/ \E c \in net : Lose(c)
  \/ Restart

Spec == Init /\ [][Next]_vars

\* Traffic goes on in both directions, so that elapsed timers are noticed, and a
\* control message that is sent again and again arrives.  Acknowledgements may
\* all be lost.
Fairness ==
  \A e \in Endpoint :
    /\ WF_vars(\E p \in Packet : ChunksCount[p] = 1 /\ SendData(e, p, TRUE))
    /\ \A n \in 0 .. MaxId :
         SF_vars(\E tick, clean, kept \in BOOLEAN :
                   ReceiveControl(Peer(e), Control(e, n), tick, clean, kept))

FairSpec == Spec /\ Fairness

-----------------------------------------------------------------------------
(* Properties. *)

\* Chunks of different packets are never put together, although chunks are lost,
\* come late, twice and in any order and messages time out, unless the sender
\* restarted: then its ids start again while chunks of the old ones are around.
NeverMixed == mixed # {} => restarts > 0

\* The list of incomplete messages has one entry for an id, and its counter of
\* chunks counts each chunk once, whatever is received twice: a message is only
\* delivered when every chunk is there.
CollectsEachOnce ==
  \A e \in Endpoint :
    /\ \A m, k \in Messages[e] : m.Id = k.Id => m = k
    /\ \A m \in Messages[e] : /\ m.AddedChunksCount = Cardinality(DOMAIN m.Chunks)
                              /\ m.AddedChunksCount \in 1 .. m.size - 1
    /\ Cardinality(Messages[e]) <= MaxMessagesCount

\* The settings of the client reach the server of a session, although the
\* request, the answer and their acknowledgements are lost or come twice.
EventuallyConfigured == session ~> configured
=============================================================================
