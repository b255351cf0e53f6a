----------------------- MODULE BarbaCourierDatagram_proofs -----------------------
(***************************************************************************)
(* TypeOK, CollectsEachOnce and NeverMixed of BarbaCourierDatagram, for    *)
(* any packets and numbers of chunks, whatever is lost, duplicated or      *)
(* reordered.                                                              *)
(***************************************************************************)
EXTENDS BarbaCourierDatagram, FiniteSetTheorems, TLAPS

LEMMA EndpointFacts ==
  /\ Client \in Endpoint /\ Server \in Endpoint
  /\ \A e \in Endpoint : Peer(e) \in Endpoint /\ Peer(e) # e /\ Peer(Peer(e)) = e
BY ConstantsAssumption DEF Endpoint, Peer

-----------------------------------------------------------------------------
(* DataControlManager: its methods send control messages and               *)
(* acknowledgements only.                                                  *)

Managers == [NextId : Nat, LastReceivedId : Nat, Datas : Nat]
ControlChunks == [to : Endpoint, type : {"control", "ack"}, id : Nat]
Pairs == [m : Managers, out : SUBSET ControlChunks]

LEMMA ControlTypes ==
  ASSUME NEW e \in Endpoint, NEW n \in Nat
  PROVE  Control(e, n) \in ControlChunks /\ Ack(e, n) \in ControlChunks
BY EndpointFacts DEF Control, Ack, ControlChunks

LEMMA ProcessType ==
  ASSUME NEW e \in Endpoint, NEW r \in Pairs, NEW force
  PROVE  Process(e, r, force) \in Pairs /\ Process(e, r, force).m = r.m
<1>1. r.m.NextId \in Nat
  BY DEF Pairs, Managers
<1>2. Control(e, r.m.NextId) \in ControlChunks
  BY <1>1, ControlTypes
<1> QED
  BY <1>2 DEF Process, Pairs

LEMMA SendDataControlType ==
  ASSUME NEW e \in Endpoint, NEW r \in Pairs
  PROVE  SendDataControl(e, r) \in Pairs
<1>1. [r EXCEPT !.m.Datas = @ + 1] \in Pairs
  BY DEF Pairs, Managers
<1> QED
  BY <1>1, ProcessType DEF SendDataControl

LEMMA SendAckType ==
  ASSUME NEW e \in Endpoint, NEW r \in Pairs, NEW n \in Nat
  PROVE  SendAck(e, r, n) \in Pairs
BY ControlTypes DEF SendAck, Pairs

LEMMA AcceptControlType ==
  ASSUME NEW e \in Endpoint, NEW r \in Pairs, NEW n \in Nat
  PROVE  AcceptControl(e, r, n) \in Pairs
<1>1. [r EXCEPT !.m.LastReceivedId = n] \in Pairs
  BY DEF Pairs, Managers
<1>2. PreReceiveDataControl(e, [r EXCEPT !.m.LastReceivedId = n]) \in Pairs
  BY <1>1, SendDataControlType DEF PreReceiveDataControl
<1> QED
  BY <1>2, SendAckType DEF AcceptControl

LEMMA AcceptAckType ==
  ASSUME NEW e \in Endpoint, NEW r \in Pairs, NEW n \in Nat
  PROVE  AcceptAck(e, r, n) \in Pairs
<1> DEFINE q == [r EXCEPT !.m.Datas = IF @ = 0 THEN 0 ELSE @ - 1, !.m.NextId = @ + 1]
<1>1. r.m.Datas \in Nat /\ r.m.NextId \in Nat
  BY DEF Pairs, Managers
<1>2. (IF r.m.Datas = 0 THEN 0 ELSE r.m.Datas - 1) \in Nat /\ r.m.NextId + 1 \in Nat
  BY <1>1, SMT
<1>3. q \in Pairs
  BY <1>2 DEF Pairs, Managers
<1> QED
  BY <1>3, ProcessType DEF AcceptAck

LEMMA SendInitRequestType ==
  ASSUME NEW e \in Endpoint, NEW r \in Pairs
  PROVE  SendInitRequest(e, r) \in Pairs
BY SendDataControlType DEF SendInitRequest

LEMMA DoTimerType ==
  ASSUME manager \in [Endpoint -> Managers], NEW e \in Endpoint, NEW tick
  PROVE  DoTimer(e, tick) \in Pairs /\ DoTimer(e, tick).m = manager[e]
<1>1. [m |-> manager[e], out |-> {}] \in Pairs
  BY DEF Pairs
<1> QED
  BY <1>1, ProcessType DEF DoTimer

-----------------------------------------------------------------------------
(* Collecting chunks *)

\* A message as the code keeps it: only what the constructor and AddChunk make.
IsMessage(m) ==
  /\ m = [Id |-> m.Id, size |-> m.size, Chunks |-> m.Chunks,
          AddedChunksCount |-> m.AddedChunksCount, old |-> m.old]
  /\ m.Id \in Nat /\ m.size \in Nat /\ m.AddedChunksCount \in Nat /\ m.old \in BOOLEAN
  /\ DOMAIN m.Chunks \subseteq 0 .. m.size - 1
  /\ \A j \in DOMAIN m.Chunks : m.Chunks[j] \in Packet
  /\ m.AddedChunksCount = Cardinality(DOMAIN m.Chunks)

LEMMA NewMessageType ==
  ASSUME NEW n \in Nat, NEW size \in Nat
  PROVE  IsMessage(NewMessage(n, size)) /\ DOMAIN NewMessage(n, size).Chunks = {}
<1>1. DOMAIN << >> = {}
  OBVIOUS
<1>2. Cardinality({}) = 0
  BY FS_EmptySet
<1> QED
  BY <1>1, <1>2 DEF NewMessage, IsMessage

\* AddChunk counts a chunk that is new, and no other.
LEMMA AddChunkType ==
  ASSUME NEW m, IsMessage(m), NEW i \in 0 .. m.size - 1, NEW p \in Packet
  PROVE  /\ IsMessage(AddChunk(m, i, p))
         /\ AddChunk(m, i, p).Id = m.Id /\ AddChunk(m, i, p).size = m.size
         /\ DOMAIN AddChunk(m, i, p).Chunks = DOMAIN m.Chunks \cup {i}
         /\ \A j \in DOMAIN m.Chunks \cup {i} :
              AddChunk(m, i, p).Chunks[j] = IF j = i THEN p ELSE m.Chunks[j]
<1> DEFINE chunks == [j \in DOMAIN m.Chunks \cup {i} |-> IF j = i THEN p ELSE m.Chunks[j]]
           count == IF i \in DOMAIN m.Chunks THEN m.AddedChunksCount ELSE m.AddedChunksCount + 1
<1>0. AddChunk(m, i, p) = [m EXCEPT !.Chunks = chunks, !.AddedChunksCount = count, !.old = FALSE]
  BY DEF AddChunk
<1>1. AddChunk(m, i, p) = [Id |-> m.Id, size |-> m.size, Chunks |-> chunks,
                           AddedChunksCount |-> count, old |-> FALSE]
  <2>1. PICK a, b, c, d, o : m = [Id |-> a, size |-> b, Chunks |-> c, AddedChunksCount |-> d,
                                  old |-> o]
    BY DEF IsMessage
  <2> HIDE DEF chunks, count
  <2> QED
    BY <1>0, <2>1
<1>2. DOMAIN chunks = DOMAIN m.Chunks \cup {i}
  OBVIOUS
<1>3. IsFiniteSet(DOMAIN m.Chunks)
  <2>1. IsFiniteSet(0 .. m.size - 1)
    <3>1. 0 \in Int /\ m.size - 1 \in Int
      BY DEF IsMessage
    <3> QED
      BY <3>1, FS_Interval
  <2> QED
    BY <2>1, FS_Subset DEF IsMessage
<1>4. count = Cardinality(DOMAIN m.Chunks \cup {i})
  BY <1>3, FS_AddElement DEF IsMessage
<1>5. count \in Nat
  BY DEF IsMessage
<1>6. \A j \in DOMAIN chunks : chunks[j] \in Packet
  BY DEF IsMessage
<1> HIDE DEF chunks, count
<1>7. IsMessage(AddChunk(m, i, p))
  BY <1>1, <1>2, <1>4, <1>5, <1>6 DEF IsMessage
<1> QED
  BY <1>1, <1>2, <1>7 DEF chunks

\* A stored message: some of its chunks are there, and some are not.
IsIncomplete(m) == IsMessage(m) /\ m.AddedChunksCount \in 1 .. m.size - 1

\* The list of incomplete messages.
ListOK(S) ==
  /\ IsFiniteSet(S) /\ Cardinality(S) <= MaxMessagesCount
  /\ \A m \in S : IsIncomplete(m)
  /\ \A m, k \in S : m.Id = k.Id => m = k

LEMMA EmptyList == ListOK({})
<1>1. Cardinality({}) = 0 /\ IsFiniteSet({})
  BY FS_EmptySet
<1>2. MaxMessagesCount \in Nat
  BY ConstantsAssumption
<1> QED
  BY <1>1, <1>2 DEF ListOK

LEMMA SmallerList ==
  ASSUME NEW S, ListOK(S), NEW T \in SUBSET S
  PROVE  ListOK(T)
<1>1. /\ IsFiniteSet(T) /\ Cardinality(T) <= Cardinality(S)
      /\ Cardinality(T) \in Nat /\ Cardinality(S) \in Nat
  BY FS_Subset, FS_CardinalityType DEF ListOK
<1>2. MaxMessagesCount \in Nat /\ Cardinality(S) <= MaxMessagesCount
  BY ConstantsAssumption DEF ListOK
<1>3. Cardinality(T) <= MaxMessagesCount
  BY <1>1, <1>2, SMT
<1> QED
  BY <1>1, <1>3 DEF ListOK

\* A message is replaced by one with the same id.
LEMMA ReplacedInList ==
  ASSUME NEW S, ListOK(S), NEW m \in S, NEW k, IsIncomplete(k), k.Id = m.Id
  PROVE  ListOK((S \ {m}) \cup {k})
<1>1. /\ IsFiniteSet(S \ {m}) /\ Cardinality(S \ {m}) = Cardinality(S) - 1
      /\ Cardinality(S) \in Nat
  BY FS_RemoveElement, FS_CardinalityType DEF ListOK
<1>2. /\ IsFiniteSet((S \ {m}) \cup {k})
      /\ \/ Cardinality((S \ {m}) \cup {k}) = Cardinality(S \ {m})
         \/ Cardinality((S \ {m}) \cup {k}) = Cardinality(S \ {m}) + 1
  BY <1>1, FS_AddElement
<1>3. MaxMessagesCount \in Nat /\ Cardinality(S) <= MaxMessagesCount
  BY ConstantsAssumption DEF ListOK
<1>4. Cardinality((S \ {m}) \cup {k}) <= MaxMessagesCount
  BY <1>1, <1>2, <1>3, SMT
<1>5. \A a \in (S \ {m}) \cup {k} : IsIncomplete(a)
  BY DEF ListOK
<1>6. \A a, b \in (S \ {m}) \cup {k} : a.Id = b.Id => a = b
  BY DEF ListOK
<1> QED
  BY <1>2, <1>4, <1>5, <1>6 DEF ListOK

\* A message with a new id is added.
LEMMA AddedToList ==
  ASSUME NEW S, ListOK(S), Cardinality(S) < MaxMessagesCount, NEW k, IsIncomplete(k),
         \A m \in S : m.Id # k.Id
  PROVE  ListOK(S \cup {k})
<1>1. /\ IsFiniteSet(S \cup {k}) /\ Cardinality(S) \in Nat /\ MaxMessagesCount \in Nat
      /\ \/ Cardinality(S \cup {k}) = Cardinality(S)
         \/ Cardinality(S \cup {k}) = Cardinality(S) + 1
  BY FS_AddElement, FS_CardinalityType, ConstantsAssumption DEF ListOK
<1>2. Cardinality(S \cup {k}) <= MaxMessagesCount
  BY <1>1, SMT
<1>3. \A a \in S \cup {k} : IsIncomplete(a)
  BY DEF ListOK
<1>4. \A a, b \in S \cup {k} : a.Id = b.Id => a = b
  BY DEF ListOK
<1> QED
  BY <1>1, <1>2, <1>3, <1>4 DEF ListOK

LEMMA MessageOfType ==
  ASSUME NEW S, ListOK(S), NEW n \in Nat, NEW size \in Nat
  PROVE  /\ IsMessage(MessageOf(S, n, size)) /\ MessageOf(S, n, size).Id = n
         /\ \/ MessageOf(S, n, size) \in S
            \/ /\ \A k \in S : k.Id # n
               /\ DOMAIN MessageOf(S, n, size).Chunks = {}
<1>1. CASE \E k \in S : k.Id = n
  <2>1. MessageOf(S, n, size) = CHOOSE k \in S : k.Id = n
    BY <1>1 DEF MessageOf
  <2>2. MessageOf(S, n, size) \in S /\ MessageOf(S, n, size).Id = n
    BY <1>1, <2>1
  <2> QED
    BY <2>2 DEF ListOK, IsIncomplete
<1>2. CASE \A k \in S : k.Id # n
  <2>1. MessageOf(S, n, size) = NewMessage(n, size)
    BY <1>2 DEF MessageOf
  <2>2. NewMessage(n, size).Id = n
    BY DEF NewMessage
  <2> QED
    BY <1>2, <2>1, <2>2, NewMessageType
<1> QED
  BY <1>1, <1>2

\* A message that has a chunk and is not complete.
LEMMA NotCompleted ==
  ASSUME NEW m, IsMessage(m), DOMAIN m.Chunks # {}, ~IsCompleted(m)
  PROVE  IsIncomplete(m)
<1>1. 0 \in Int /\ m.size - 1 \in Int /\ m.size \in Nat /\ m.AddedChunksCount \in Nat
  BY DEF IsMessage
<1>2. IsFiniteSet(0 .. m.size - 1) /\ Cardinality(0 .. m.size - 1) = m.size
  <2>1. /\ IsFiniteSet(0 .. m.size - 1)
        /\ Cardinality(0 .. m.size - 1) = IF 0 > m.size - 1 THEN 0 ELSE m.size - 1 - 0 + 1
    BY <1>1, FS_Interval
  <2> QED
    BY <1>1, <2>1, SMT
<1>3. /\ IsFiniteSet(DOMAIN m.Chunks)
      /\ Cardinality(DOMAIN m.Chunks) <= Cardinality(0 .. m.size - 1)
  BY <1>2, FS_Subset DEF IsMessage
<1>4. Cardinality(DOMAIN m.Chunks) # 0
  BY <1>3, FS_EmptySet
<1>5. m.AddedChunksCount # 0 /\ m.AddedChunksCount <= m.size
  BY <1>2, <1>3, <1>4 DEF IsMessage
<1>6. m.AddedChunksCount # m.size
  BY DEF IsCompleted
<1>7. m.AddedChunksCount \in 1 .. m.size - 1
  BY <1>1, <1>5, <1>6, SMT
<1> QED
  BY <1>7 DEF IsIncomplete

\* The list after a chunk was added to one of its messages, or to a new one.
LEMMA StoreType ==
  ASSUME NEW S, ListOK(S), NEW m, NEW added,
         IsMessage(added), DOMAIN added.Chunks # {}, added.Id = m.Id,
         m \in S \/ \A k \in S : k.Id # m.Id
  PROVE  /\ ListOK(Store(S, m, added))
         /\ Store(S, m, added) \subseteq S \cup {added}
<1>1. CASE IsCompleted(added)
  BY <1>1, SmallerList DEF Store
<1>2. CASE ~IsCompleted(added) /\ m \in S
  BY <1>2, NotCompleted, ReplacedInList DEF Store
<1>3. CASE ~IsCompleted(added) /\ m \notin S
  BY <1>3, NotCompleted, AddedToList DEF Store
<1> QED
  BY <1>1, <1>2, <1>3

LEMMA CleanedType ==
  ASSUME NEW S, ListOK(S), NEW clean
  PROVE  /\ ListOK(RemoveTimeoutMessages(S, clean))
         /\ RemoveTimeoutMessages(S, clean) \subseteq S
BY SmallerList DEF RemoveTimeoutMessages

-----------------------------------------------------------------------------
(* Types, and the lists of incomplete messages *)

DataChunk ==
  {c \in [to : Endpoint, type : {"data"}, id : Nat, packet : Packet, index : Nat] :
     c.index \in 0 .. ChunksCount[c.packet] - 1}

CollectInv ==
  /\ manager \in [Endpoint -> Managers]
  /\ Messages = [e \in Endpoint |-> Messages[e]]
  /\ \A e \in Endpoint : ListOK(Messages[e])
  /\ LastMessageId \in [Endpoint -> Nat]
  /\ session \in BOOLEAN
  /\ configured \in BOOLEAN
  /\ unsent \subseteq Packet
  /\ net \subseteq ControlChunks \cup DataChunk
  /\ mixed \subseteq Endpoint
  /\ restarts \in Nat

\* Without a restart of the server, an id other than 0 stands for one packet.
Consistent ==
  /\ mixed = {}
  /\ \A c \in net \cap DataChunk :
       IF ChunksCount[c.packet] > 1 THEN c.id \in 1 .. LastMessageId[Peer(c.to)] ELSE c.id = 0
  /\ \A c, d \in net \cap DataChunk :
       c.to = d.to /\ c.id = d.id /\ c.id # 0 => c.packet = d.packet
  /\ \A e \in Endpoint : \A m \in Messages[e] :
       /\ m.Id \in 1 .. LastMessageId[Peer(e)]
       /\ \A i, j \in DOMAIN m.Chunks : m.Chunks[i] = m.Chunks[j]
       /\ \A c \in net \cap DataChunk :
            c.to = e /\ c.id = m.Id => \A j \in DOMAIN m.Chunks : m.Chunks[j] = c.packet

MixedInv == restarts = 0 => Consistent

-----------------------------------------------------------------------------
(* CollectInv is inductive. *)

LEMMA DataTypes ==
  ASSUME NEW e \in Endpoint, NEW n \in Nat, NEW p \in Packet
  PROVE  DataChunks(e, n, p) \subseteq DataChunk
<1> SUFFICES ASSUME NEW i \in 0 .. ChunksCount[p] - 1
             PROVE  Data(e, n, p, i) \in DataChunk
  BY DEF DataChunks
<1>1. i \in Nat
  BY ConstantsAssumption
<1> QED
  BY <1>1, EndpointFacts DEF Data, DataChunk

LEMMA ChunkFacts ==
  ASSUME NEW c \in ControlChunks \cup DataChunk
  PROVE  /\ c.to \in Endpoint /\ c.type \in {"control", "ack", "data"} /\ c.id \in Nat
         /\ c.type = "data" <=> c \in DataChunk
         /\ c.type = "data" => /\ c.packet \in Packet
                               /\ c.index \in 0 .. ChunksCount[c.packet] - 1
BY DEF ControlChunks, DataChunk

LEMMA InitCollect == Init => CollectInv
<1> SUFFICES ASSUME Init PROVE CollectInv
  OBVIOUS
<1>1. manager \in [Endpoint -> Managers]
  BY DEF Init, NewManager, Managers
<1>2. /\ Messages = [e \in Endpoint |-> Messages[e]]
      /\ \A e \in Endpoint : Messages[e] = {}
  BY DEF Init
<1>3. LastMessageId \in [Endpoint -> Nat]
  BY DEF Init
<1> QED
  BY <1>1, <1>2, <1>3, EmptyList DEF Init, CollectInv

\* The end of a handler: only control chunks are added to the network.
LEMMA CommitTypes ==
  ASSUME CollectInv, NEW e \in Endpoint, NEW r \in Pairs, NEW c, NEW kept, Commit(e, r, c, kept)
  PROVE  /\ manager' \in [Endpoint -> Managers]
         /\ session' \in BOOLEAN
         /\ net' \subseteq ControlChunks \cup DataChunk
         /\ net' \cap DataChunk \subseteq net
<1>1. r.m \in Managers /\ r.out \subseteq ControlChunks
  BY DEF Pairs
<1>2. manager' \in [Endpoint -> Managers]
  BY <1>1 DEF CollectInv, Commit
<1>3. net' \subseteq net \cup r.out
  BY DEF Commit, Carry
<1>4. ControlChunks \cap DataChunk = {}
  BY DEF ControlChunks, DataChunk
<1>5. session' \in BOOLEAN
  BY DEF Commit, CollectInv
<1> QED
  BY <1>1, <1>2, <1>3, <1>4, <1>5 DEF CollectInv

\* One side's list is replaced.
LEMMA ListChanges ==
  ASSUME CollectInv, NEW e \in Endpoint, NEW S, ListOK(S), Messages' = [Messages EXCEPT ![e] = S]
  PROVE  /\ Messages' = [x \in Endpoint |-> Messages'[x]]
         /\ \A x \in Endpoint : ListOK(Messages'[x])
         /\ Messages'[e] = S /\ \A x \in Endpoint \ {e} : Messages'[x] = Messages[x]
<1>1. Messages' = [x \in Endpoint |-> IF x = e THEN S ELSE Messages[x]]
  BY DEF CollectInv
<1>2. \A x \in Endpoint : Messages'[x] = IF x = e THEN S ELSE Messages[x]
  BY <1>1
<1>3. Messages' = [x \in Endpoint |-> Messages'[x]]
  BY <1>1, <1>2
<1> QED
  BY <1>2, <1>3 DEF CollectInv

\* The message a chunk belongs to, and what it becomes.
LEMMA ChunkAdded ==
  ASSUME CollectInv, NEW e \in Endpoint, NEW c \in DataChunk,
         InRange(MessageOf(Messages[e], c.id, ChunksCount[c.packet]), c.index)
  PROVE  LET m == MessageOf(Messages[e], c.id, ChunksCount[c.packet])
             added == AddChunk(m, c.index, c.packet)
         IN  /\ IsMessage(m) /\ m.Id = c.id
             /\ \/ m \in Messages[e]
                \/ (\A k \in Messages[e] : k.Id # c.id) /\ DOMAIN m.Chunks = {}
             /\ IsMessage(added) /\ added.Id = c.id /\ added.size = m.size
             /\ DOMAIN added.Chunks = DOMAIN m.Chunks \cup {c.index}
             /\ \A j \in DOMAIN added.Chunks :
                  added.Chunks[j] = IF j = c.index THEN c.packet ELSE m.Chunks[j]
             /\ ListOK(Store(Messages[e], m, added))
             /\ Store(Messages[e], m, added) \subseteq Messages[e] \cup {added}
<1> DEFINE m == MessageOf(Messages[e], c.id, ChunksCount[c.packet])
           added == AddChunk(m, c.index, c.packet)
<1>1. c.packet \in Packet /\ c.id \in Nat /\ c.index \in Nat
  BY DEF DataChunk
<1>2. ListOK(Messages[e]) /\ ChunksCount[c.packet] \in Nat
  BY <1>1, ConstantsAssumption DEF CollectInv
<1>3. /\ IsMessage(m) /\ m.Id = c.id
      /\ \/ m \in Messages[e]
         \/ (\A k \in Messages[e] : k.Id # c.id) /\ DOMAIN m.Chunks = {}
  BY <1>1, <1>2, MessageOfType
<1>4. c.index \in 0 .. m.size - 1
  <2>1. m.size \in Nat /\ c.index < m.size
    BY <1>3 DEF IsMessage, InRange
  <2> QED
    BY <1>1, <2>1, SMT
<1> HIDE DEF m
<1>5. /\ IsMessage(added) /\ added.Id = m.Id /\ added.size = m.size
      /\ DOMAIN added.Chunks = DOMAIN m.Chunks \cup {c.index}
      /\ \A j \in DOMAIN m.Chunks \cup {c.index} :
           added.Chunks[j] = IF j = c.index THEN c.packet ELSE m.Chunks[j]
  BY <1>1, <1>3, <1>4, AddChunkType
<1> HIDE DEF added
<1>6. /\ ListOK(Store(Messages[e], m, added))
      /\ Store(Messages[e], m, added) \subseteq Messages[e] \cup {added}
  BY <1>2, <1>3, <1>5, StoreType
<1> QED
  BY <1>3, <1>5, <1>6 DEF m, added

LEMMA SendDataCollect ==
  ASSUME CollectInv, NEW e \in Endpoint, NEW p \in Packet, NEW tick, SendData(e, p, tick)
  PROVE  CollectInv'
<1> DEFINE r == DoTimer(e, tick)
           n == IF ChunksCount[p] > 1 THEN GetNewMessageId(e) ELSE 0
<1>1. r \in Pairs /\ r.m = manager[e]
  BY DoTimerType DEF CollectInv
<1>2. n \in Nat
  BY DEF CollectInv, GetNewMessageId
<1>3. DataChunks(e, n, p) \subseteq DataChunk
  BY <1>2, DataTypes
<1>4. /\ manager' = [manager EXCEPT ![e] = r.m]
      /\ net' = net \cup r.out \cup DataChunks(e, n, p)
      /\ unsent' \subseteq unsent
      /\ LastMessageId' = [LastMessageId EXCEPT ![e] = IF ChunksCount[p] > 1 THEN n ELSE @]
      /\ UNCHANGED <<Messages, session, configured, mixed, restarts>>
  BY DEF SendData, Carry
<1> HIDE DEF r, n
<1>5. manager' \in [Endpoint -> Managers]
  BY <1>1, <1>4 DEF CollectInv, Pairs
<1>6. LastMessageId' \in [Endpoint -> Nat]
  BY <1>2, <1>4 DEF CollectInv
<1>7. net' \subseteq ControlChunks \cup DataChunk
  BY <1>1, <1>3, <1>4 DEF CollectInv, Pairs
<1>8. Messages' = [x \in Endpoint |-> Messages'[x]] /\ \A x \in Endpoint : ListOK(Messages'[x])
  BY <1>4 DEF CollectInv
<1> QED
  BY <1>4, <1>5, <1>6, <1>7, <1>8 DEF CollectInv

\* The handlers of control messages and acknowledgements.
LEMMA ControlCollect ==
  ASSUME CollectInv, NEW e \in Endpoint, NEW c \in net, NEW tick, NEW clean, NEW kept,
         ReceiveControl(e, c, tick, clean, kept) \/ ReceiveAck(e, c, tick, clean, kept)
  PROVE  /\ CollectInv'
         /\ net' \cap DataChunk \subseteq net
         /\ \A x \in Endpoint : Messages'[x] \subseteq Messages[x]
         /\ UNCHANGED <<LastMessageId, mixed, restarts>>
<1> DEFINE d == DoTimer(e, tick)
<1>1. d \in Pairs /\ c.id \in Nat
  BY DoTimerType, ChunkFacts DEF CollectInv
<1>2. /\ SendInitRequest(e, AcceptControl(e, d, c.id)) \in Pairs
      /\ SendInitRequest(e, AcceptAck(e, d, c.id)) \in Pairs
  BY <1>1, AcceptControlType, AcceptAckType, SendInitRequestType
<1>3. PICK r \in Pairs : Commit(e, r, c, kept)
  BY <1>2 DEF ReceiveControl, ReceiveAck
<1>4. /\ Messages' = [Messages EXCEPT ![e] = RemoveTimeoutMessages(Messages[e], clean)]
      /\ UNCHANGED <<LastMessageId, unsent, mixed, restarts>>
      /\ configured' \in BOOLEAN
  <2>1. Messages' = [Messages EXCEPT ![e] = RemoveTimeoutMessages(Messages[e], clean)]
    BY DEF ReceiveControl, ReceiveAck
  <2>2. UNCHANGED <<LastMessageId, unsent, mixed, restarts>>
    BY DEF ReceiveControl, ReceiveAck
  <2>3. configured' \in BOOLEAN
    BY DEF ReceiveControl, ReceiveAck, CollectInv
  <2> QED
    BY <2>1, <2>2, <2>3
<1>5. /\ ListOK(RemoveTimeoutMessages(Messages[e], clean))
      /\ RemoveTimeoutMessages(Messages[e], clean) \subseteq Messages[e]
  BY CleanedType DEF CollectInv
<1>6. /\ Messages' = [x \in Endpoint |-> Messages'[x]]
      /\ \A x \in Endpoint : ListOK(Messages'[x])
      /\ \A x \in Endpoint : Messages'[x] \subseteq Messages[x]
  BY <1>4, <1>5, ListChanges
<1>7. /\ manager' \in [Endpoint -> Managers]
      /\ session' \in BOOLEAN
      /\ net' \subseteq ControlChunks \cup DataChunk
      /\ net' \cap DataChunk \subseteq net
  BY <1>3, CommitTypes
<1>8. CollectInv'
  BY <1>4, <1>6, <1>7 DEF CollectInv
<1> QED
  BY <1>4, <1>6, <1>7, <1>8

LEMMA ThrowsCollect ==
  ASSUME CollectInv, NEW e \in Endpoint, NEW c \in net, NEW tick, NEW kept,
         ReceiveChunkThrows(e, c, tick, kept)
  PROVE  CollectInv' /\ net' \cap DataChunk \subseteq net
<1>1. DoTimer(e, tick) \in Pairs
  BY DoTimerType DEF CollectInv
<1>2. /\ Commit(e, DoTimer(e, tick), c, kept)
      /\ UNCHANGED <<Messages, LastMessageId, configured, unsent, mixed, restarts>>
  BY DEF ReceiveChunkThrows, tables
<1>3. /\ manager' \in [Endpoint -> Managers]
      /\ session' \in BOOLEAN
      /\ net' \subseteq ControlChunks \cup DataChunk
      /\ net' \cap DataChunk \subseteq net
  BY <1>1, <1>2, CommitTypes
<1> QED
  BY <1>2, <1>3 DEF CollectInv

LEMMA ChunkCollect ==
  ASSUME CollectInv, NEW e \in Endpoint, NEW c \in net, NEW tick, NEW clean, NEW kept,
         ReceiveChunk(e, c, tick, clean, kept)
  PROVE  /\ CollectInv'
         /\ net' \cap DataChunk \subseteq net
         /\ c \in DataChunk
<1> DEFINE m == MessageOf(Messages[e], c.id, ChunksCount[c.packet])
           added == AddChunk(m, c.index, c.packet)
           stored == Store(Messages[e], m, added)
<1>1. c \in DataChunk /\ c.id \in Nat
  BY ChunkFacts DEF CollectInv, ReceiveChunk
<1>2. SendInitRequest(e, DoTimer(e, tick)) \in Pairs
  BY DoTimerType, SendInitRequestType DEF CollectInv
<1>3. /\ InRange(m, c.index)
      /\ Commit(e, SendInitRequest(e, DoTimer(e, tick)), c, kept)
      /\ Messages' = [Messages EXCEPT ![e] = RemoveTimeoutMessages(stored, clean)]
      /\ mixed' \subseteq mixed \cup {e}
      /\ UNCHANGED <<LastMessageId, configured, unsent, restarts>>
  BY DEF ReceiveChunk
<1>4. ListOK(stored)
  BY <1>1, <1>3, ChunkAdded
<1> HIDE DEF stored
<1>5. ListOK(RemoveTimeoutMessages(stored, clean))
  BY <1>4, CleanedType
<1>6. /\ Messages' = [x \in Endpoint |-> Messages'[x]]
      /\ \A x \in Endpoint : ListOK(Messages'[x])
  BY <1>3, <1>5, ListChanges
<1>7. /\ manager' \in [Endpoint -> Managers]
      /\ session' \in BOOLEAN
      /\ net' \subseteq ControlChunks \cup DataChunk
      /\ net' \cap DataChunk \subseteq net
  BY <1>2, <1>3, CommitTypes
<1>8. CollectInv'
  BY <1>3, <1>6, <1>7 DEF CollectInv
<1> QED
  BY <1>1, <1>7, <1>8

LEMMA AgedMessage ==
  ASSUME NEW m, IsIncomplete(m), NEW k, k = [m EXCEPT !.old = TRUE]
  PROVE  IsIncomplete(k) /\ k.Id = m.Id /\ k.Chunks = m.Chunks
<1>1. PICK a, b, c, d, o : m = [Id |-> a, size |-> b, Chunks |-> c, AddedChunksCount |-> d,
                                old |-> o]
  BY DEF IsIncomplete, IsMessage
<1>2. k = [Id |-> a, size |-> b, Chunks |-> c, AddedChunksCount |-> d, old |-> TRUE]
  BY <1>1
<1> QED
  BY <1>1, <1>2 DEF IsIncomplete, IsMessage

LEMMA AgesCollect ==
  ASSUME CollectInv, NEW e \in Endpoint, NEW m \in Messages[e], MessageAges(e, m)
  PROVE  /\ CollectInv'
         /\ \A x \in Endpoint : \A k \in Messages'[x] :
              \E l \in Messages[x] : k.Id = l.Id /\ k.Chunks = l.Chunks
<1> DEFINE k == [m EXCEPT !.old = TRUE]
<1>1. ListOK(Messages[e]) /\ IsIncomplete(m)
  BY DEF CollectInv, ListOK
<1>2. k = [m EXCEPT !.old = TRUE]
  OBVIOUS
<1> HIDE DEF k
<1>3. IsIncomplete(k) /\ k.Id = m.Id /\ k.Chunks = m.Chunks
  BY <1>1, <1>2, AgedMessage
<1>4. ListOK((Messages[e] \ {m}) \cup {k})
  BY <1>1, <1>3, ReplacedInList
<1>5. /\ Messages' = [Messages EXCEPT ![e] = (Messages[e] \ {m}) \cup {k}]
      /\ UNCHANGED <<manager, LastMessageId, session, configured, unsent, net, mixed, restarts>>
  BY <1>2 DEF MessageAges
<1>6. /\ Messages' = [x \in Endpoint |-> Messages'[x]]
      /\ \A x \in Endpoint : ListOK(Messages'[x])
      /\ Messages'[e] = (Messages[e] \ {m}) \cup {k}
      /\ \A x \in Endpoint \ {e} : Messages'[x] = Messages[x]
  BY <1>4, <1>5, ListChanges
<1>7. CollectInv'
  BY <1>5, <1>6 DEF CollectInv
<1> QED
  BY <1>3, <1>6, <1>7

LEMMA RestartCollect ==
  ASSUME CollectInv, Restart
  PROVE  CollectInv'
<1>1. Messages' = [Messages EXCEPT ![Server] = {}] /\ Server \in Endpoint
  BY EndpointFacts DEF Restart
<1>2. /\ Messages' = [x \in Endpoint |-> Messages'[x]]
      /\ \A x \in Endpoint : ListOK(Messages'[x])
  BY <1>1, EmptyList, ListChanges
<1>3. NewManager \in Managers
  BY DEF NewManager, Managers
<1>4. manager' \in [Endpoint -> Managers]
  BY <1>3 DEF CollectInv, Restart
<1>5. LastMessageId' \in [Endpoint -> Nat]
  BY DEF CollectInv, Restart
<1>6. restarts' \in Nat
  BY DEF CollectInv, Restart
<1> QED
  BY <1>2, <1>4, <1>5, <1>6 DEF CollectInv, Restart

LEMMA NextCollect == CollectInv /\ [Next]_vars => CollectInv'
<1> SUFFICES ASSUME CollectInv, [Next]_vars PROVE CollectInv'
  OBVIOUS
<1>1. ASSUME NEW e \in Endpoint, NEW p \in Packet, NEW tick \in Ticks(e), SendData(e, p, tick)
      PROVE  CollectInv'
  BY <1>1, SendDataCollect
<1>2. ASSUME NEW e \in Endpoint, NEW c \in net, NEW tick \in Ticks(e), NEW clean \in Cleans(e),
             NEW kept \in BOOLEAN, Receive(e, c, tick, clean, kept)
      PROVE  CollectInv'
  <2>1. CASE ReceiveControl(e, c, tick, clean, kept)
    BY <2>1, ControlCollect
  <2>2. CASE ReceiveAck(e, c, tick, clean, kept)
    BY <2>2, ControlCollect
  <2>3. CASE ReceiveChunk(e, c, tick, clean, kept)
    BY <2>3, ChunkCollect
  <2>4. CASE ReceiveChunkThrows(e, c, tick, kept)
    BY <2>4, ThrowsCollect
  <2> QED
    BY <1>2, <2>1, <2>2, <2>3, <2>4 DEF Receive
<1>3. ASSUME NEW e \in Endpoint, NEW m \in Messages[e], MessageAges(e, m)
      PROVE  CollectInv'
  BY <1>3, AgesCollect
<1>4. ASSUME NEW c \in net, Lose(c)
      PROVE  CollectInv'
  BY <1>4 DEF CollectInv, Lose, tables
<1>5. CASE Restart
  BY <1>5, RestartCollect
<1>6. CASE UNCHANGED vars
  BY <1>6 DEF CollectInv, vars, tables
<1> QED
  BY <1>1, <1>2, <1>3, <1>4, <1>5, <1>6 DEF Next

LEMMA CollectInvariant == Spec => []CollectInv
BY InitCollect, NextCollect, PTL DEF Spec

LEMMA CollectImplies == CollectInv => TypeOK /\ CollectsEachOnce
<1> SUFFICES ASSUME CollectInv PROVE TypeOK /\ CollectsEachOnce
  OBVIOUS
<1>1. \A e \in Endpoint : \A m \in Messages[e] : IsIncomplete(m)
  BY DEF CollectInv, ListOK
<1>2. \A e \in Endpoint : \A m \in Messages[e] :
        /\ m.Id \in Nat /\ m.size \in Nat /\ m.AddedChunksCount \in Nat /\ m.old \in BOOLEAN
        /\ DOMAIN m.Chunks \subseteq 0 .. m.size - 1
        /\ Range(m.Chunks) \subseteq Packet
  BY <1>1 DEF IsIncomplete, IsMessage, Range
<1>3. \A c \in net :
        /\ c.to \in Endpoint /\ c.type \in {"control", "ack", "data"} /\ c.id \in Nat
        /\ c.type = "data" => c.packet \in Packet /\ c.index \in 0 .. ChunksCount[c.packet] - 1
  BY ChunkFacts DEF CollectInv
<1>4. TypeOK
  BY <1>2, <1>3 DEF TypeOK, CollectInv, Managers
<1>5. CollectsEachOnce
  BY <1>1 DEF CollectsEachOnce, CollectInv, ListOK, IsIncomplete, IsMessage
<1> QED
  BY <1>4, <1>5

\* The variables keep their types: the control messages, the lists of incomplete
\* messages and the chunks under way of BarbaCourierDatagram.
THEOREM TypeCorrect == Spec => []TypeOK
BY CollectInvariant, CollectImplies, PTL

\* Whatever is lost, reordered or received twice, an incomplete message has one
\* entry and counts each of its chunks once (Message::AddChunk), so a message is
\* delivered when all its chunks are there, and the list keeps its limit.
THEOREM CollectsCorrect == Spec => []CollectsEachOnce
BY CollectInvariant, CollectImplies, PTL

-----------------------------------------------------------------------------
(* NeverMixed: as long as the server does not restart, ids are not reused. *)

\* Steps that add no chunk of a packet, no message and no chunk to a message.
LEMMA ConsistentKept ==
  ASSUME Consistent, mixed' = mixed, LastMessageId' = LastMessageId,
         net' \cap DataChunk \subseteq net,
         \A e \in Endpoint : \A m \in Messages'[e] :
           \E k \in Messages[e] : m.Id = k.Id /\ m.Chunks = k.Chunks
  PROVE  Consistent'
<1>1. ASSUME NEW c \in net' \cap DataChunk
      PROVE  IF ChunksCount[c.packet] > 1 THEN c.id \in 1 .. LastMessageId'[Peer(c.to)]
             ELSE c.id = 0
  BY <1>1 DEF Consistent
<1>2. \A c, d \in net' \cap DataChunk :
        c.to = d.to /\ c.id = d.id /\ c.id # 0 => c.packet = d.packet
  BY DEF Consistent
<1>3. ASSUME NEW e \in Endpoint, NEW m \in Messages'[e]
      PROVE  /\ m.Id \in 1 .. LastMessageId'[Peer(e)]
             /\ \A i, j \in DOMAIN m.Chunks : m.Chunks[i] = m.Chunks[j]
             /\ \A c \in net' \cap DataChunk :
                  c.to = e /\ c.id = m.Id => \A j \in DOMAIN m.Chunks : m.Chunks[j] = c.packet
  <2>1. PICK k \in Messages[e] : m.Id = k.Id /\ m.Chunks = k.Chunks
    BY <1>3
  <2> QED
    BY <2>1 DEF Consistent
<1>4. mixed' = {}
  BY DEF Consistent
<1>5. DataChunk' = DataChunk
  BY DEF DataChunk
<1> QED
  BY <1>1, <1>2, <1>3, <1>4, <1>5 DEF Consistent

\* A packet of several chunks gets an id that nothing has.
LEMMA SendDataConsistent ==
  ASSUME CollectInv, Consistent, NEW e \in Endpoint, NEW p \in Packet, NEW tick,
         SendData(e, p, tick)
  PROVE  Consistent'
<1> DEFINE n == IF ChunksCount[p] > 1 THEN GetNewMessageId(e) ELSE 0
<1>1. /\ LastMessageId \in [Endpoint -> Nat] /\ LastMessageId[e] \in Nat
      /\ \A x \in Endpoint : LastMessageId[x] \in Nat
  BY DEF CollectInv
<1>2. /\ LastMessageId' = [LastMessageId EXCEPT ![e] = IF ChunksCount[p] > 1 THEN n ELSE @]
      /\ net' = net \cup DoTimer(e, tick).out \cup DataChunks(e, n, p)
      /\ Messages' = Messages /\ mixed' = mixed
  BY DEF SendData, Carry
<1>3. net' \cap DataChunk \subseteq net \cup DataChunks(e, n, p)
  <2>1. DoTimer(e, tick).out \subseteq ControlChunks
    BY DoTimerType DEF CollectInv, Pairs
  <2>2. ControlChunks \cap DataChunk = {}
    BY DEF ControlChunks, DataChunk
  <2> QED
    BY <1>2, <2>1, <2>2
<1>4. IF ChunksCount[p] > 1 THEN n = LastMessageId[e] + 1 /\ n # 0 ELSE n = 0
  BY <1>1 DEF GetNewMessageId
<1>5. \A x \in Endpoint : LastMessageId'[x] = IF x = e /\ ChunksCount[p] > 1 THEN n
                                            ELSE LastMessageId[x]
  BY <1>1, <1>2
<1> HIDE DEF n
<1>6. \A x \in Endpoint : 1 .. LastMessageId[x] \subseteq 1 .. LastMessageId'[x]
  BY <1>1, <1>4, <1>5
<1>7. \A c \in DataChunks(e, n, p) : c.to = Peer(e) /\ c.id = n /\ c.packet = p
  BY DEF DataChunks, Data
<1>8. Peer(e) \in Endpoint /\ Peer(Peer(e)) = e
  BY EndpointFacts
<1>9. \A c \in net \cap DataChunk : c.to = Peer(e) /\ c.id # 0 => c.id # n
  <2> SUFFICES ASSUME NEW c \in net \cap DataChunk, c.to = Peer(e), c.id # 0
               PROVE  c.id # n
    OBVIOUS
  <2>1. c.id \in 1 .. LastMessageId[e]
    BY <1>8 DEF Consistent
  <2> QED
    BY <1>1, <1>4, <2>1
<1>10. ASSUME NEW c \in net' \cap DataChunk
       PROVE  IF ChunksCount[c.packet] > 1 THEN c.id \in 1 .. LastMessageId'[Peer(c.to)]
              ELSE c.id = 0
  <2>1. CASE c \in net
    <3>1. Peer(c.to) \in Endpoint
      BY EndpointFacts DEF DataChunk
    <3>2. IF ChunksCount[c.packet] > 1 THEN c.id \in 1 .. LastMessageId[Peer(c.to)]
          ELSE c.id = 0
      BY <1>10, <2>1 DEF Consistent
    <3> QED
      BY <1>6, <3>1, <3>2
  <2>2. CASE c \in DataChunks(e, n, p)
    <3>1. c.to = Peer(e) /\ c.id = n /\ c.packet = p /\ Peer(c.to) = e
      BY <1>7, <1>8, <2>2
    <3>2. CASE ChunksCount[p] > 1
      <4>1. LastMessageId'[e] = n /\ n = LastMessageId[e] + 1
        BY <1>4, <1>5, <3>2
      <4>2. n \in 1 .. n
        BY <1>1, <4>1
      <4> QED
        BY <3>1, <3>2, <4>1, <4>2
    <3>3. CASE ~(ChunksCount[p] > 1)
      BY <1>4, <3>1, <3>3
    <3> QED
      BY <3>2, <3>3
  <2> QED
    BY <1>3, <1>10, <2>1, <2>2
<1>11. ASSUME NEW c \in net' \cap DataChunk, NEW d \in net' \cap DataChunk,
              c.to = d.to, c.id = d.id, c.id # 0
       PROVE  c.packet = d.packet
  <2>1. CASE c \in net /\ d \in net
    BY <1>11, <2>1 DEF Consistent
  <2>2. CASE c \in DataChunks(e, n, p) /\ d \in DataChunks(e, n, p)
    BY <1>7, <2>2
  <2>3. CASE c \in net /\ d \in DataChunks(e, n, p)
    BY <1>7, <1>9, <1>11, <2>3
  <2>4. CASE c \in DataChunks(e, n, p) /\ d \in net
    BY <1>7, <1>9, <1>11, <2>4
  <2> QED
    BY <1>3, <2>1, <2>2, <2>3, <2>4
<1>12. ASSUME NEW x \in Endpoint, NEW m \in Messages'[x]
       PROVE  /\ m.Id \in 1 .. LastMessageId'[Peer(x)]
              /\ \A i, j \in DOMAIN m.Chunks : m.Chunks[i] = m.Chunks[j]
              /\ \A c \in net' \cap DataChunk :
                   c.to = x /\ c.id = m.Id => \A j \in DOMAIN m.Chunks : m.Chunks[j] = c.packet
  <2>1. /\ m.Id \in 1 .. LastMessageId[Peer(x)]
        /\ \A i, j \in DOMAIN m.Chunks : m.Chunks[i] = m.Chunks[j]
        /\ \A c \in net \cap DataChunk :
             c.to = x /\ c.id = m.Id => \A j \in DOMAIN m.Chunks : m.Chunks[j] = c.packet
    BY <1>2, <1>12 DEF Consistent
  <2>2. m.Id \in 1 .. LastMessageId'[Peer(x)]
    BY <1>6, <2>1, EndpointFacts
  <2>3. \A c \in DataChunks(e, n, p) : ~(c.to = x /\ c.id = m.Id)
    <3> SUFFICES ASSUME Peer(e) = x, m.Id = n PROVE FALSE
      BY <1>7
    <3>1. m.Id \in 1 .. LastMessageId[e]
      BY <1>8, <2>1
    <3> QED
      BY <1>1, <1>4, <3>1
  <2> QED
    BY <1>3, <2>1, <2>2, <2>3
<1>13. mixed' = {}
  BY <1>2 DEF Consistent
<1>14. DataChunk' = DataChunk
  BY DEF DataChunk
<1> QED
  BY <1>10, <1>11, <1>12, <1>13, <1>14 DEF Consistent

\* A chunk comes to a message of chunks of its own packet.
LEMMA ChunkConsistent ==
  ASSUME CollectInv, Consistent, NEW e \in Endpoint, NEW c \in net, NEW tick, NEW clean, NEW kept,
         ReceiveChunk(e, c, tick, clean, kept)
  PROVE  Consistent'
<1> DEFINE m == MessageOf(Messages[e], c.id, ChunksCount[c.packet])
           added == AddChunk(m, c.index, c.packet)
           stored == Store(Messages[e], m, added)
<1>1. c \in DataChunk /\ c.to = e /\ net' \cap DataChunk \subseteq net
  BY ChunkCollect DEF ReceiveChunk
<1>2. /\ InRange(m, c.index)
      /\ Messages' = [Messages EXCEPT ![e] = RemoveTimeoutMessages(stored, clean)]
      /\ mixed' = IF IsCompleted(added) /\ Cardinality(Range(added.Chunks)) > 1
                  THEN mixed \cup {e} ELSE mixed
      /\ LastMessageId' = LastMessageId
  BY DEF ReceiveChunk
<1>3. /\ m \in Messages[e] \/ DOMAIN m.Chunks = {}
      /\ m.Id = c.id /\ IsMessage(m)
      /\ IsMessage(added) /\ added.Id = c.id
      /\ DOMAIN added.Chunks = DOMAIN m.Chunks \cup {c.index}
      /\ \A j \in DOMAIN added.Chunks :
           added.Chunks[j] = IF j = c.index THEN c.packet ELSE m.Chunks[j]
      /\ stored \subseteq Messages[e] \cup {added} /\ ListOK(stored)
  BY <1>1, <1>2, ChunkAdded
<1>4. \A j \in DOMAIN m.Chunks : m.Chunks[j] = c.packet
  BY <1>1, <1>3 DEF Consistent
<1> HIDE DEF m
<1>5. \A j \in DOMAIN added.Chunks : added.Chunks[j] = c.packet
  BY <1>3, <1>4
<1>6. added \in stored => added.Id \in 1 .. LastMessageId[Peer(e)]
  <2>1. CASE ChunksCount[c.packet] > 1
    BY <1>1, <1>3, <2>1 DEF Consistent
  <2>2. CASE ~(ChunksCount[c.packet] > 1)
    <3>1. c.id = 0
      BY <1>1, <2>2 DEF Consistent
    <3>2. m \notin Messages[e]
      <4>1. 0 \notin 1 .. LastMessageId[Peer(e)]
        OBVIOUS
      <4> QED
        BY <1>3, <3>1, <4>1 DEF Consistent
    <3>3. m = NewMessage(0, ChunksCount[c.packet]) /\ m.size = ChunksCount[c.packet]
      BY <3>1, <3>2 DEF m, MessageOf, NewMessage
    <3>4. ChunksCount[c.packet] = 1
      <4>1. c.packet \in Packet
        BY <1>1 DEF DataChunk
      <4>2. ChunksCount[c.packet] \in Nat \ {0}
        BY <4>1, ConstantsAssumption
      <4> QED
        BY <2>2, <4>2
    <3>5. added.size = 1
      BY <1>1, <1>2, <3>3, <3>4, ChunkAdded DEF m
    <3>6. ~IsIncomplete(added)
      BY <3>5 DEF IsIncomplete
    <3> QED
      BY <1>3, <3>6 DEF ListOK
  <2> QED
    BY <2>1, <2>2
<1> HIDE DEF added
<1>7. Range(added.Chunks) \subseteq {c.packet}
  BY <1>5 DEF Range
<1>8. ~(Cardinality(Range(added.Chunks)) > 1)
  <2>1. IsFiniteSet({c.packet}) /\ Cardinality({c.packet}) = 1
    BY FS_Singleton
  <2>2. /\ Cardinality(Range(added.Chunks)) <= Cardinality({c.packet})
        /\ IsFiniteSet(Range(added.Chunks))
    BY <1>7, <2>1, FS_Subset
  <2>3. Cardinality(Range(added.Chunks)) \in Nat
    BY <2>2, FS_CardinalityType
  <2> QED
    BY <2>1, <2>2, <2>3, SMT
<1>9. mixed' = {}
  BY <1>2, <1>8 DEF Consistent
<1> HIDE DEF stored
<1>10. ASSUME NEW x \in Endpoint, NEW k \in Messages'[x]
       PROVE  k \in Messages[x] \/ (x = e /\ k = added /\ added \in stored)
  <2>1. /\ ListOK(RemoveTimeoutMessages(stored, clean))
        /\ RemoveTimeoutMessages(stored, clean) \subseteq stored
    BY <1>3, CleanedType
  <2>2. /\ Messages'[e] = RemoveTimeoutMessages(stored, clean)
        /\ \A y \in Endpoint \ {e} : Messages'[y] = Messages[y]
    BY <1>2, <2>1, ListChanges
  <2>3. Messages'[e] \subseteq stored /\ stored \subseteq Messages[e] \cup {added}
    BY <1>3, <2>1, <2>2
  <2>4. CASE x = e
    BY <1>10, <2>3, <2>4
  <2>5. CASE x # e
    BY <1>10, <2>2, <2>5
  <2> QED
    BY <2>4, <2>5
<1>11. ASSUME NEW a \in net' \cap DataChunk
       PROVE  IF ChunksCount[a.packet] > 1 THEN a.id \in 1 .. LastMessageId'[Peer(a.to)]
              ELSE a.id = 0
  BY <1>1, <1>2, <1>11 DEF Consistent
<1>12. \A a, b \in net' \cap DataChunk :
         a.to = b.to /\ a.id = b.id /\ a.id # 0 => a.packet = b.packet
  BY <1>1 DEF Consistent
<1>13. ASSUME NEW x \in Endpoint, NEW k \in Messages'[x]
       PROVE  /\ k.Id \in 1 .. LastMessageId'[Peer(x)]
              /\ \A i, j \in DOMAIN k.Chunks : k.Chunks[i] = k.Chunks[j]
              /\ \A a \in net' \cap DataChunk :
                   a.to = x /\ a.id = k.Id => \A j \in DOMAIN k.Chunks : k.Chunks[j] = a.packet
  <2>1. CASE k \in Messages[x]
    BY <1>1, <1>2, <2>1 DEF Consistent
  <2>2. CASE x = e /\ k = added /\ added \in stored
    <3>1. k.Id \in 1 .. LastMessageId'[Peer(x)]
      BY <1>2, <1>6, <2>2
    <3>2. ASSUME NEW a \in net' \cap DataChunk, a.to = x, a.id = k.Id
          PROVE  a.packet = c.packet
      <4>1. a.id # 0
        BY <3>1, <3>2
      <4> QED
        BY <1>1, <1>3, <2>2, <3>2, <4>1 DEF Consistent
    <3> QED
      BY <1>5, <2>2, <3>1, <3>2
  <2> QED
    BY <1>10, <1>13, <2>1, <2>2
<1>14. DataChunk' = DataChunk
  BY DEF DataChunk
<1> QED
  BY <1>9, <1>11, <1>12, <1>13, <1>14 DEF Consistent

LEMMA InitMixed == Init => MixedInv
<1> SUFFICES ASSUME Init PROVE Consistent
  BY DEF MixedInv
<1>1. net = {} /\ mixed = {} /\ \A e \in Endpoint : Messages[e] = {}
  BY DEF Init
<1> QED
  BY <1>1 DEF Consistent

LEMMA NextMixed == CollectInv /\ MixedInv /\ [Next]_vars => MixedInv'
<1> SUFFICES ASSUME CollectInv, MixedInv, [Next]_vars, restarts' = 0
             PROVE  Consistent'
  BY DEF MixedInv
<1>1. restarts \in Nat
  BY DEF CollectInv
<1>2. CASE Restart
  BY <1>1, <1>2 DEF Restart
<1>3. ASSUME NEW e \in Endpoint, NEW p \in Packet, NEW tick \in Ticks(e), SendData(e, p, tick)
      PROVE  Consistent'
  <2>1. Consistent
    BY <1>3 DEF SendData, MixedInv
  <2> QED
    BY <1>3, <2>1, SendDataConsistent
<1>4. ASSUME NEW e \in Endpoint, NEW c \in net, NEW tick \in Ticks(e), NEW clean \in Cleans(e),
             NEW kept \in BOOLEAN, Receive(e, c, tick, clean, kept)
      PROVE  Consistent'
  <2>1. CASE ReceiveControl(e, c, tick, clean, kept) \/ ReceiveAck(e, c, tick, clean, kept)
    <3>1. /\ net' \cap DataChunk \subseteq net
          /\ \A x \in Endpoint : Messages'[x] \subseteq Messages[x]
          /\ UNCHANGED <<LastMessageId, mixed, restarts>>
      BY <2>1, ControlCollect
    <3>2. Consistent
      BY <3>1 DEF MixedInv
    <3> QED
      BY <3>1, <3>2, ConsistentKept
  <2>2. CASE ReceiveChunk(e, c, tick, clean, kept)
    <3>1. Consistent
      BY <2>2 DEF ReceiveChunk, MixedInv
    <3> QED
      BY <2>2, <3>1, ChunkConsistent
  <2>3. CASE ReceiveChunkThrows(e, c, tick, kept)
    <3>1. net' \cap DataChunk \subseteq net
      BY <2>3, ThrowsCollect
    <3>2. UNCHANGED <<Messages, LastMessageId, mixed, restarts>>
      BY <2>3 DEF ReceiveChunkThrows, tables
    <3>3. Consistent
      BY <3>2 DEF MixedInv
    <3> QED
      BY <3>1, <3>2, <3>3, ConsistentKept
  <2> QED
    BY <1>4, <2>1, <2>2, <2>3 DEF Receive
<1>5. ASSUME NEW e \in Endpoint, NEW m \in Messages[e], MessageAges(e, m)
      PROVE  Consistent'
  <2>1. \A x \in Endpoint : \A k \in Messages'[x] :
          \E l \in Messages[x] : k.Id = l.Id /\ k.Chunks = l.Chunks
    BY <1>5, AgesCollect
  <2>2. UNCHANGED <<LastMessageId, net, mixed, restarts>>
    BY <1>5 DEF MessageAges
  <2>3. Consistent
    BY <2>2 DEF MixedInv
  <2> QED
    BY <2>1, <2>2, <2>3, ConsistentKept
<1>6. CASE (\E c \in net : Lose(c)) \/ UNCHANGED vars
  <2>1. net' \subseteq net /\ UNCHANGED <<Messages, LastMessageId, mixed, restarts>>
    BY <1>6 DEF Lose, tables, vars
  <2>2. Consistent
    BY <2>1 DEF MixedInv
  <2> QED
    BY <2>1, <2>2, ConsistentKept
<1> QED
  BY <1>2, <1>3, <1>4, <1>5, <1>6 DEF Next

\* Without a restart, no packet is put together from the chunks of two, however
\* chunks are lost, late and duplicated and messages dropped (AddChunk of
\* BarbaCourierDatagram::Message, GetNewMessageId).
THEOREM MixedCorrect == Spec => []NeverMixed
<1>1. CollectInv /\ MixedInv => NeverMixed
  <2> SUFFICES ASSUME CollectInv, MixedInv PROVE NeverMixed
    OBVIOUS
  <2>1. restarts = 0 \/ restarts > 0
    BY DEF CollectInv
  <2> QED
    BY <2>1 DEF MixedInv, Consistent, NeverMixed
<1>2. Spec => []MixedInv
  <2>1. Init => MixedInv
    BY InitMixed
  <2>2. CollectInv /\ MixedInv /\ [Next]_vars => MixedInv'
    BY NextMixed
  <2> QED
    BY <2>1, <2>2, CollectInvariant, PTL DEF Spec
<1> QED
  BY <1>1, <1>2, CollectInvariant, PTL
=============================================================================
