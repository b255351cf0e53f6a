--------------------- MODULE BarbaCourierDelivery_proofs ---------------------
(***************************************************************************)
(* Proofs that the courier keeps each message in one place and implements  *)
(* CourierDelivery, for any set of messages and any number of connections. *)
(***************************************************************************)
EXTENDS BarbaCourierStream_proofs

-----------------------------------------------------------------------------
(* Lists without duplicates. *)

\* The empty list holds nothing, and nothing twice.
LEMMA EmptyList == Range(<<>>) = {} /\ IsInjective(<<>>)
  BY DEF Range, IsInjective

\* A list without repetition that loses its head holds one element less.
LEMMA RemoveHead ==
  ASSUME NEW S, NEW s \in Seq(S), s # <<>>, IsInjective(s)
  PROVE  /\ Head(s) \in Range(s)
         /\ Range(Tail(s)) = Range(s) \ {Head(s)}
         /\ IsInjective(Tail(s))
  <1>1. /\ Len(s) \in Nat \ {0} /\ DOMAIN s = 1 .. Len(s) /\ Head(s) = s[1]
        /\ Tail(s) \in Seq(S) /\ Len(Tail(s)) = Len(s) - 1
        /\ \A i \in 1 .. Len(Tail(s)) : Tail(s)[i] = s[i + 1]
    BY HeadTailProperties, EmptySeq
  <1>2. DOMAIN Tail(s) = 1 .. Len(s) - 1
    BY <1>1
  <1>3. \A i, j \in 1 .. Len(s) : s[i] = s[j] => i = j
    BY <1>1 DEF IsInjective
  <1>4. IsInjective(Tail(s))
    BY <1>1, <1>2, <1>3 DEF IsInjective
  <1>5. Head(s) \in Range(s)
    BY <1>1 DEF Range
  <1>6. ASSUME NEW x \in Range(Tail(s)) PROVE x \in Range(s) /\ x # Head(s)
    <2>1. PICK i \in 1 .. Len(s) - 1 : x = s[i + 1]
      BY <1>1, <1>2 DEF Range
    <2>2. i + 1 \in 1 .. Len(s) /\ i + 1 # 1
      BY <1>1
    <2>3. QED
      BY <1>1, <1>3, <2>1, <2>2 DEF Range
  <1>7. ASSUME NEW x \in Range(s), x # Head(s) PROVE x \in Range(Tail(s))
    <2>1. PICK i \in 1 .. Len(s) : x = s[i]
      BY <1>1 DEF Range
    <2>2. i - 1 \in 1 .. Len(s) - 1 /\ (i - 1) + 1 = i
      BY <1>1, <1>7, <2>1
    <2>3. Tail(s)[i - 1] = x
      BY <1>1, <2>1, <2>2
    <2>4. QED
      BY <1>2, <2>2, <2>3 DEF Range
  <1>8. QED
    BY <1>4, <1>5, <1>6, <1>7

\* A list that gets a new element at its tail holds it too, once.
LEMMA AddTail ==
  ASSUME NEW S, NEW s \in Seq(S), NEW e \in S, IsInjective(s), e \notin Range(s)
  PROVE  Range(Append(s, e)) = Range(s) \cup {e} /\ IsInjective(Append(s, e))
  <1>1. /\ Len(s) \in Nat /\ DOMAIN s = 1 .. Len(s)
        /\ DOMAIN Append(s, e) = 1 .. Len(s) + 1
        /\ \A i \in 1 .. Len(s) : Append(s, e)[i] = s[i]
        /\ Append(s, e)[Len(s) + 1] = e
    BY AppendProperties
  <1>2. \A i \in 1 .. Len(s) + 1 : i \in 1 .. Len(s) \/ i = Len(s) + 1
    BY <1>1
  <1>3. \A i \in 1 .. Len(s) : s[i] \in Range(s)
    BY <1>1 DEF Range
  <1>4. IsInjective(Append(s, e))
    BY <1>1, <1>2, <1>3 DEF IsInjective
  <1>5. \A x \in Range(Append(s, e)) : x \in Range(s) \/ x = e
    BY <1>1, <1>2, <1>3 DEF Range
  <1>6. Range(s) \subseteq Range(Append(s, e)) /\ e \in Range(Append(s, e))
    BY <1>1 DEF Range
  <1>7. QED
    BY <1>4, <1>5, <1>6

\* A list that gets a new element at its head holds it too, once.
LEMMA AddHead ==
  ASSUME NEW S, NEW s \in Seq(S), NEW e \in S, IsInjective(s), e \notin Range(s)
  PROVE  Range(<<e>> \o s) = Range(s) \cup {e} /\ IsInjective(<<e>> \o s)
  <1> DEFINE c == <<e>> \o s
  <1>1. /\ Len(s) \in Nat /\ DOMAIN s = 1 .. Len(s)
        /\ DOMAIN c = 1 .. Len(s) + 1
        /\ c[1] = e
        /\ \A i \in 2 .. Len(s) + 1 : c[i] = s[i - 1]
    <2>1. <<e>> \in Seq(S) /\ Len(<<e>>) = 1 /\ <<e>>[1] = e
      OBVIOUS
    <2>2. /\ c \in Seq(S) /\ Len(c) = 1 + Len(s)
          /\ \A i \in 1 .. 1 + Len(s) : c[i] = IF i <= 1 THEN <<e>>[i] ELSE s[i - 1]
      BY <2>1, ConcatProperties
    <2>3. Len(s) \in Nat
      OBVIOUS
    <2>4. QED
      BY <2>1, <2>2, <2>3
  <1> HIDE DEF c
  <1>2. \A i \in 1 .. Len(s) + 1 : i = 1 \/ (i \in 2 .. Len(s) + 1 /\ i - 1 \in 1 .. Len(s))
    BY <1>1
  <1>3. \A i \in 1 .. Len(s) : s[i] \in Range(s) /\ i + 1 \in 2 .. Len(s) + 1 /\ c[i + 1] = s[i]
    BY <1>1 DEF Range
  <1>4. IsInjective(c)
    <2>1. SUFFICES ASSUME NEW i \in 1 .. Len(s) + 1, NEW j \in 1 .. Len(s) + 1, c[i] = c[j]
                   PROVE  i = j
      BY <1>1 DEF IsInjective
    <2>2. CASE i = 1 /\ j # 1
      BY <1>1, <1>2, <1>3, <2>1, <2>2
    <2>3. CASE j = 1 /\ i # 1
      BY <1>1, <1>2, <1>3, <2>1, <2>3
    <2>4. CASE i # 1 /\ j # 1
      <3>1. s[i - 1] = s[j - 1] /\ i - 1 \in DOMAIN s /\ j - 1 \in DOMAIN s
        BY <1>1, <1>2, <2>1, <2>4
      <3>2. i - 1 = j - 1
        BY <3>1 DEF IsInjective
      <3>3. QED
        BY <3>2
    <2>5. QED
      BY <2>2, <2>3, <2>4
  <1>5. ASSUME NEW x \in Range(c) PROVE x \in Range(s) \cup {e}
    <2>1. PICK i \in DOMAIN c : x = c[i]
      BY DEF Range
    <2>2. CASE i = 1
      BY <1>1, <2>1, <2>2
    <2>3. CASE i # 1
      <3>1. i - 1 \in 1 .. Len(s) /\ c[i] = s[i - 1]
        BY <1>1, <1>2, <2>1, <2>3
      <3>2. QED
        BY <1>3, <2>1, <3>1
    <2>4. QED
      BY <2>2, <2>3
  <1>6. ASSUME NEW x \in Range(s) PROVE x \in Range(c)
    <2>1. PICK i \in 1 .. Len(s) : x = s[i]
      BY <1>1 DEF Range
    <2>2. i + 1 \in DOMAIN c /\ c[i + 1] = x
      BY <1>1, <1>3, <2>1
    <2>3. QED
      BY <2>2 DEF Range
  <1>7. e \in Range(c)
    <2>1. 1 \in DOMAIN c
      BY <1>1
    <2>2. QED
      BY <1>1, <2>1 DEF Range
  <1>8. QED
    BY <1>4, <1>5, <1>6, <1>7 DEF c

-----------------------------------------------------------------------------
(* Where messages are. *)

\* A list is empty when the code overwrites it or throws it away.
ListsEmpty ==
  /\ pc[Filter] = "idle" => outbox[Filter] = <<>>
  /\ \A w \in Worker : pc[w] \notin {"pack", "check", "enter", "add"} => outbox[w] = <<>>

\* Only a deleted courier is being disposed.
DisposeAfterDelete == disposer # "live" => DisposeEvent

\* The inductive strengthening of OnePlace.
PlaceInv ==
  /\ OnePlace
  /\ ListsEmpty
  /\ DisposeAfterDelete
  /\ \A m \in fresh : sentCount[m] = 0

\* The part of OnePlace about one thread's own lists.
OneThread(t) ==
  /\ IsInjective(outbox[t])
  /\ t \in Worker => /\ IsInjective(hand[t])
                     /\ IsInjective(packet[t])
                     /\ Range(hand[t]) \cap Range(packet[t]) = {}
                     /\ Range(hand[t]) \cap Range(outbox[t]) = {}
                     /\ Range(packet[t]) \cap Range(outbox[t]) = {}

\* The messages a step of t can touch.
Reach(t) == Range(Messages) \cup HeldBy(t)

\* What a step of t does to the places of messages: it takes the messages added
\* from the captured ones, removes others, and moves the rest between the shared
\* list and its own lists without doubling one.
Moves(t, added, removed) ==
  /\ \A u \in Thread \ {t} : outbox'[u] = outbox[u]
  /\ \A u \in Worker \ {t} : hand'[u] = hand[u] /\ packet'[u] = packet[u]
  /\ IsInjective(Messages)'
  /\ OneThread(t)'
  /\ HeldBy(t)' \cap Range(Messages)' = {}
  /\ Reach(t)' = (Reach(t) \cup added) \ removed
  /\ added \subseteq fresh
  /\ fresh' = fresh \ added
  /\ removed \subseteq Reach(t)

\* A write counts the messages it carried.
Counts(S) == [m \in Message |-> IF m \in S THEN sentCount[m] + 1 ELSE sentCount[m]]

\* OnePlace speaks of the lists and of what each thread holds; both forms agree.
LEMMA OnePlaceParts ==
  OnePlace <=>
    /\ IsInjective(Messages)
    /\ \A t \in Thread : OneThread(t)
    /\ \A t \in Thread : HeldBy(t) \cap Range(Messages) = {}
    /\ \A t, u \in Thread : t # u => HeldBy(t) \cap HeldBy(u) = {}
    /\ \A m \in Held : sentCount[m] = 0 /\ m \notin fresh
  BY DEF OnePlace, OneThread, Thread

\* Whatever a thread moves stays in one place, and the messages the courier holds
\* change by what was added and removed only.
LEMMA MovesKeepPlace ==
  ASSUME TypeOK, PlaceInv, NEW t \in Thread, NEW added, NEW removed,
         Moves(t, added, removed),
         sentCount' = sentCount \/ sentCount' = Counts(removed)
  PROVE  /\ OnePlace'
         /\ Held' = (Held \cup added) \ removed
         /\ \A m \in fresh' : sentCount'[m] = 0
  <1> DEFINE Others == UNION {HeldBy(u) : u \in Thread \ {t}}
  <1>1. ASSUME NEW u \in Thread, u # t PROVE HeldBy(u)' = HeldBy(u) /\ (OneThread(u)' <=> OneThread(u))
    BY <1>1 DEF Moves, HeldBy, OneThread
  <1>2. Held = Reach(t) \cup Others /\ Held' = Reach(t)' \cup Others'
    BY DEF Held, Reach
  <1>3. Others' = Others
    BY <1>1
  <1>4. /\ IsInjective(Messages)
        /\ \A u \in Thread : OneThread(u)
        /\ \A u \in Thread : HeldBy(u) \cap Range(Messages) = {}
        /\ \A u, v \in Thread : u # v => HeldBy(u) \cap HeldBy(v) = {}
        /\ \A m \in Held : sentCount[m] = 0 /\ m \notin fresh
        /\ \A m \in fresh : sentCount[m] = 0
    BY OnePlaceParts DEF PlaceInv
  <1>5. Others \cap Reach(t) = {}
    BY <1>4 DEF Reach
  <1>6. /\ Reach(t)' = (Reach(t) \cup added) \ removed
        /\ added \subseteq fresh /\ removed \subseteq Reach(t) /\ fresh' = fresh \ added
        /\ HeldBy(t)' \cap Range(Messages)' = {}
        /\ HeldBy(t)' \subseteq Reach(t)' /\ Range(Messages)' \subseteq Reach(t)'
    BY DEF Moves, Reach
  <1>7. Held' = (Held \cup added) \ removed
    BY <1>2, <1>3, <1>4, <1>5, <1>6
  <1>8. \A m : m \notin removed => sentCount'[m] = sentCount[m] \/ m \notin Message
    BY DEF Counts
  <1>9. fresh \subseteq Message /\ fresh \cap Held = {}
    BY <1>4 DEF TypeOK
  <1>10. \A m \in fresh : sentCount'[m] = 0
    BY <1>2, <1>4, <1>6, <1>8, <1>9
  <1>11. Held \subseteq Message
    <2>1. Range(Messages) \subseteq Message
      BY RangeOfSeq DEF TypeOK
    <2>2. ASSUME NEW u \in Thread PROVE HeldBy(u) \subseteq Message
      BY RangeOfSeq DEF HeldBy, TypeOK
    <2>3. QED
      BY <2>1, <2>2 DEF Held
  <1>12. \A m \in Held' : sentCount'[m] = 0 /\ m \notin fresh'
    BY <1>4, <1>6, <1>7, <1>8, <1>9, <1>10, <1>11
  <1>13. \A u \in Thread : OneThread(u)'
    BY <1>1, <1>4 DEF Moves
  <1>14. \A u \in Thread \ {t} : HeldBy(u)' \cap Reach(t)' = {}
    <2>1. SUFFICES ASSUME NEW u \in Thread \ {t}, NEW m \in HeldBy(u), m \in Reach(t)'
                   PROVE  FALSE
      BY <1>1
    <2>2. m \in Held /\ m \in Others
      BY <1>2
    <2>3. m \in Reach(t) \/ m \in fresh
      BY <1>6, <2>1
    <2>4. QED
      BY <1>5, <1>9, <2>2, <2>3
  <1>15. \A u \in Thread : HeldBy(u)' \cap Range(Messages)' = {}
    BY <1>6, <1>14
  <1>16. \A u, v \in Thread : u # v => HeldBy(u)' \cap HeldBy(v)' = {}
    <2>1. SUFFICES ASSUME NEW u \in Thread, NEW v \in Thread, u # v
                   PROVE  HeldBy(u)' \cap HeldBy(v)' = {}
      OBVIOUS
    <2>2. CASE u = t
      BY <1>6, <1>14, <2>1, <2>2
    <2>3. CASE v = t
      BY <1>6, <1>14, <2>1, <2>3
    <2>4. CASE u # t /\ v # t
      BY <1>1, <1>4, <2>1, <2>4
    <2>5. QED
      BY <2>2, <2>3, <2>4
  <1>17. IsInjective(Messages)'
    BY DEF Moves
  <1>18. OnePlace'
    BY <1>12, <1>13, <1>15, <1>16, <1>17 DEF OnePlace, OneThread, Thread
  <1>19. QED
    BY <1>6, <1>7, <1>10, <1>18

-----------------------------------------------------------------------------
(* What each action moves. *)

placeVars == <<Messages, outbox, hand, packet, fresh, sentCount>>

\* A step that leaves every list alone moves no message.
LEMMA NothingMoves ==
  ASSUME PlaceInv, NEW t \in Thread, UNCHANGED placeVars
  PROVE  Moves(t, {}, {})
  <1>1. OneThread(t) /\ IsInjective(Messages) /\ HeldBy(t) \cap Range(Messages) = {}
    BY OnePlaceParts DEF PlaceInv
  <1>2. QED
    BY <1>1 DEF placeVars, Moves, Reach, OneThread, HeldBy

\* SendBegin moves a fresh message into the outbox of the filter thread.
LEMMA SendBeginMoves ==
  ASSUME TypeOK, PlaceInv, NEW m \in Message, SendBegin(m)
  PROVE  Moves(Filter, {m}, {}) /\ UNCHANGED sentCount
  <1>1. /\ outbox[Filter] = <<>> /\ outbox' = [outbox EXCEPT ![Filter] = <<m>>]
        /\ m \in fresh /\ fresh' = fresh \ {m}
        /\ UNCHANGED <<Messages, hand, packet, sentCount>>
        /\ Filter \in Thread /\ Filter \notin Worker
        /\ outbox \in [Thread -> Seq(Message)]
    BY ConstantsAssumption DEF SendBegin, PlaceInv, ListsEmpty, queueVars, TypeOK, Thread
  <1>2. Range(<<m>>) = {m} /\ IsInjective(<<m>>)
    BY DEF Range, IsInjective
  <1>3. outbox'[Filter] = <<m>> /\ \A u \in Thread \ {Filter} : outbox'[u] = outbox[u]
    BY <1>1
  <1>4. /\ HeldBy(Filter) = {} /\ HeldBy(Filter)' = {m}
    BY <1>1, <1>2, <1>3, EmptyList DEF HeldBy
  <1>5. m \notin Range(Messages) /\ IsInjective(Messages)
    BY <1>1, OnePlaceParts DEF PlaceInv, Held
  <1>6. OneThread(Filter)'
    BY <1>1, <1>2, <1>3 DEF OneThread
  <1>7. QED
    BY <1>1, <1>3, <1>4, <1>5, <1>6 DEF Moves, Reach

\* SendDiscards deletes what is in the outbox of the thread.
LEMMA SendDiscardsMoves ==
  ASSUME TypeOK, PlaceInv, NEW t \in Thread, SendDiscards(t)
  PROVE  Moves(t, {}, Range(outbox[t])) /\ UNCHANGED sentCount
  <1>1. /\ outbox' = [outbox EXCEPT ![t] = <<>>]
        /\ UNCHANGED <<Messages, hand, packet, fresh, sentCount>>
        /\ outbox \in [Thread -> Seq(Message)]
    BY DEF SendDiscards, queueVars, historyVars, TypeOK
  <1>2. outbox'[t] = <<>> /\ \A u \in Thread \ {t} : outbox'[u] = outbox[u]
    BY <1>1
  <1>3. /\ OneThread(t) /\ IsInjective(Messages) /\ HeldBy(t) \cap Range(Messages) = {}
    BY OnePlaceParts DEF PlaceInv
  <1>4. OneThread(t)'
    BY <1>1, <1>2, <1>3, EmptyList DEF OneThread
  <1>5. HeldBy(t)' = HeldBy(t) \ Range(outbox[t]) /\ Range(outbox[t]) \subseteq HeldBy(t)
    BY <1>1, <1>2, <1>3, EmptyList DEF HeldBy, OneThread
  <1>6. QED
    BY <1>1, <1>2, <1>3, <1>4, <1>5 DEF Moves, Reach

\* SendAdd moves the head of the outbox to one end of Messages.
LEMMA SendAddMoves ==
  ASSUME TypeOK, PlaceInv, NEW t \in Thread, SendAdd(t)
  PROVE  Moves(t, {}, {}) /\ UNCHANGED sentCount
  <1> DEFINE e == Head(outbox[t])
  <1>1. /\ outbox[t] \in Seq(Message) /\ outbox[t] # <<>>
        /\ outbox' = [outbox EXCEPT ![t] = Tail(@)]
        /\ Messages' = IF t = Filter THEN Append(Messages, e) ELSE <<e>> \o Messages
        /\ UNCHANGED <<hand, packet, fresh, sentCount>>
        /\ outbox \in [Thread -> Seq(Message)]
        /\ Messages \in Seq(Message)
    BY DEF SendAdd, historyVars, TypeOK
  <1>2. outbox'[t] = Tail(outbox[t]) /\ \A u \in Thread \ {t} : outbox'[u] = outbox[u]
    BY <1>1
  <1>3. /\ OneThread(t) /\ IsInjective(Messages) /\ HeldBy(t) \cap Range(Messages) = {}
    BY OnePlaceParts DEF PlaceInv
  <1>4. /\ e \in Message /\ e \in Range(outbox[t])
        /\ Range(outbox[t])' = Range(outbox[t]) \ {e}
        /\ IsInjective(outbox[t])'
    BY <1>1, <1>2, <1>3, HeadTailProperties, RemoveHead DEF OneThread
  <1>5. Range(outbox[t]) \subseteq HeldBy(t)
    BY DEF HeldBy
  <1>6. Range(Messages)' = Range(Messages) \cup {e} /\ IsInjective(Messages)'
    BY <1>1, <1>3, <1>4, <1>5, AddTail, AddHead
  <1>7. OneThread(t)'
    BY <1>1, <1>3, <1>4 DEF OneThread
  <1>8. HeldBy(t)' = HeldBy(t) \ {e}
    BY <1>1, <1>3, <1>4 DEF HeldBy, OneThread
  <1>9. QED
    BY <1>1, <1>2, <1>3, <1>4, <1>5, <1>6, <1>7, <1>8 DEF Moves, Reach

\* GetMessage moves the head of Messages into the hand of the worker.
LEMMA GetMessageMoves ==
  ASSUME TypeOK, PlaceInv, NEW w \in Worker, GetMessage(w)
  PROVE  Moves(w, {}, {}) /\ UNCHANGED sentCount
  <1> DEFINE e == Head(Messages)
  <1>1. /\ hand[w] \in Seq(Message) /\ Messages \in Seq(Message) /\ Messages # <<>>
        /\ hand' = [hand EXCEPT ![w] = Append(@, e)]
        /\ Messages' = Tail(Messages)
        /\ UNCHANGED <<outbox, packet, fresh, sentCount>>
        /\ hand \in [Worker -> Seq(Message)]
        /\ w \in Thread
    BY DEF GetMessage, historyVars, TypeOK, Thread
  <1>2. hand'[w] = Append(hand[w], e) /\ \A u \in Worker \ {w} : hand'[u] = hand[u]
    BY <1>1
  <1>3. /\ OneThread(w) /\ IsInjective(Messages) /\ HeldBy(w) \cap Range(Messages) = {}
    BY <1>1, OnePlaceParts DEF PlaceInv
  <1>4. /\ e \in Message /\ e \in Range(Messages)
        /\ Range(Messages)' = Range(Messages) \ {e}
        /\ IsInjective(Messages)'
    BY <1>1, <1>3, HeadTailProperties, RemoveHead
  <1>5. HeldBy(w) = Range(outbox[w]) \cup Range(hand[w]) \cup Range(packet[w])
    BY DEF HeldBy
  <1>6. Range(hand[w])' = Range(hand[w]) \cup {e} /\ IsInjective(hand[w])'
    BY <1>1, <1>2, <1>3, <1>4, <1>5, AddTail DEF OneThread
  <1>7. HeldBy(w)' = HeldBy(w) \cup {e}
    BY <1>1, <1>5, <1>6 DEF HeldBy
  <1>8. OneThread(w)'
    BY <1>1, <1>3, <1>4, <1>5, <1>6 DEF OneThread
  <1>9. QED
    BY <1>1, <1>2, <1>3, <1>4, <1>7, <1>8 DEF Moves, Reach

\* IncludeMessage moves the head of the hand into the packet.
LEMMA IncludeMessageMoves ==
  ASSUME TypeOK, PlaceInv, NEW w \in Worker, IncludeMessage(w)
  PROVE  Moves(w, {}, {}) /\ UNCHANGED sentCount
  <1> DEFINE e == Head(hand[w])
  <1>1. /\ hand[w] \in Seq(Message) /\ hand[w] # <<>> /\ packet[w] \in Seq(Message)
        /\ hand' = [hand EXCEPT ![w] = Tail(@)]
        /\ packet' = [packet EXCEPT ![w] = Append(@, e)]
        /\ UNCHANGED <<Messages, outbox, fresh, sentCount>>
        /\ hand \in [Worker -> Seq(Message)]
        /\ packet \in [Worker -> Seq(Message)]
        /\ w \in Thread
    BY DEF IncludeMessage, queueVars, historyVars, TypeOK, Thread
  <1>2. /\ hand'[w] = Tail(hand[w]) /\ packet'[w] = Append(packet[w], e)
        /\ \A u \in Worker \ {w} : hand'[u] = hand[u] /\ packet'[u] = packet[u]
    BY <1>1
  <1>3. /\ OneThread(w) /\ IsInjective(Messages) /\ HeldBy(w) \cap Range(Messages) = {}
    BY <1>1, OnePlaceParts DEF PlaceInv
  <1>4. /\ e \in Message /\ e \in Range(hand[w])
        /\ Range(hand[w])' = Range(hand[w]) \ {e}
        /\ IsInjective(hand[w])'
    BY <1>1, <1>2, <1>3, HeadTailProperties, RemoveHead DEF OneThread
  <1>5. Range(packet[w])' = Range(packet[w]) \cup {e} /\ IsInjective(packet[w])'
    BY <1>1, <1>2, <1>3, <1>4, AddTail DEF OneThread
  <1>6. HeldBy(w)' = HeldBy(w)
    BY <1>1, <1>4, <1>5 DEF HeldBy
  <1>7. OneThread(w)'
    BY <1>1, <1>3, <1>4, <1>5 DEF OneThread
  <1>8. QED
    BY <1>1, <1>2, <1>3, <1>6, <1>7 DEF Moves, Reach

\* ExcludeMessage moves the head of the hand into the outbox.
LEMMA ExcludeMessageMoves ==
  ASSUME TypeOK, PlaceInv, NEW w \in Worker, ExcludeMessage(w)
  PROVE  Moves(w, {}, {}) /\ UNCHANGED sentCount
  <1> DEFINE e == Head(hand[w])
  <1>1. /\ hand[w] \in Seq(Message) /\ hand[w] # <<>> /\ outbox[w] \in Seq(Message)
        /\ hand' = [hand EXCEPT ![w] = Tail(@)]
        /\ outbox' = [outbox EXCEPT ![w] = Append(@, e)]
        /\ UNCHANGED <<Messages, packet, fresh, sentCount>>
        /\ hand \in [Worker -> Seq(Message)]
        /\ outbox \in [Thread -> Seq(Message)]
        /\ w \in Thread
    BY DEF ExcludeMessage, queueVars, historyVars, TypeOK, Thread
  <1>2. /\ hand'[w] = Tail(hand[w]) /\ outbox'[w] = Append(outbox[w], e)
        /\ \A u \in Worker \ {w} : hand'[u] = hand[u]
        /\ \A u \in Thread \ {w} : outbox'[u] = outbox[u]
    BY <1>1
  <1>3. /\ OneThread(w) /\ IsInjective(Messages) /\ HeldBy(w) \cap Range(Messages) = {}
    BY <1>1, OnePlaceParts DEF PlaceInv
  <1>4. /\ e \in Message /\ e \in Range(hand[w])
        /\ Range(hand[w])' = Range(hand[w]) \ {e}
        /\ IsInjective(hand[w])'
    BY <1>1, <1>2, <1>3, HeadTailProperties, RemoveHead DEF OneThread
  <1>5. Range(outbox[w])' = Range(outbox[w]) \cup {e} /\ IsInjective(outbox[w])'
    BY <1>1, <1>2, <1>3, <1>4, AddTail DEF OneThread
  <1>6. HeldBy(w)' = HeldBy(w)
    BY <1>1, <1>4, <1>5 DEF HeldBy
  <1>7. OneThread(w)'
    BY <1>1, <1>3, <1>4, <1>5 DEF OneThread
  <1>8. QED
    BY <1>1, <1>2, <1>3, <1>6, <1>7 DEF Moves, Reach

\* Transmit takes the messages of the packet out of the courier and counts them.
LEMMA TransmitMoves ==
  ASSUME TypeOK, PlaceInv, NEW w \in Worker, Transmit(w)
  PROVE  Moves(w, {}, Range(packet[w])) /\ sentCount' = Counts(Range(packet[w]))
  <1>1. /\ packet' = [packet EXCEPT ![w] = <<>>]
        /\ UNCHANGED <<Messages, outbox, hand, fresh>>
        /\ sentCount' = Counts(Range(packet[w]))
        /\ packet \in [Worker -> Seq(Message)]
        /\ w \in Thread
    BY DEF Transmit, Counts, queueVars, TypeOK, Thread
  <1>2. packet'[w] = <<>> /\ \A u \in Worker \ {w} : packet'[u] = packet[u]
    BY <1>1
  <1>3. /\ OneThread(w) /\ IsInjective(Messages) /\ HeldBy(w) \cap Range(Messages) = {}
    BY <1>1, OnePlaceParts DEF PlaceInv
  <1>4. OneThread(w)'
    BY <1>1, <1>2, <1>3, EmptyList DEF OneThread
  <1>5. HeldBy(w)' = HeldBy(w) \ Range(packet[w]) /\ Range(packet[w]) \subseteq HeldBy(w)
    BY <1>1, <1>2, <1>3, EmptyList DEF HeldBy, OneThread
  <1>6. QED
    BY <1>1, <1>2, <1>3, <1>4, <1>5 DEF Moves, Reach

\* Bringing a packet back loses nothing because the list it overwrites is empty.
LEMMA TransmitFailsMoves ==
  ASSUME TypeOK, PlaceInv, NEW w \in Worker, TransmitFails(w)
  PROVE  Moves(w, {}, {}) /\ UNCHANGED sentCount
  <1>1. /\ outbox[w] = <<>>
        /\ outbox' = [outbox EXCEPT ![w] = packet[w]]
        /\ packet' = [packet EXCEPT ![w] = <<>>]
        /\ UNCHANGED <<Messages, hand, fresh, sentCount>>
        /\ packet \in [Worker -> Seq(Message)]
        /\ outbox \in [Thread -> Seq(Message)]
        /\ w \in Thread
    BY DEF TransmitFails, PlaceInv, ListsEmpty, queueVars, historyVars, TypeOK, Thread
  <1>2. /\ packet'[w] = <<>> /\ outbox'[w] = packet[w]
        /\ \A u \in Worker \ {w} : packet'[u] = packet[u]
        /\ \A u \in Thread \ {w} : outbox'[u] = outbox[u]
    BY <1>1
  <1>3. /\ OneThread(w) /\ IsInjective(Messages) /\ HeldBy(w) \cap Range(Messages) = {}
    BY <1>1, OnePlaceParts DEF PlaceInv
  <1>4. OneThread(w)'
    BY <1>1, <1>2, <1>3, EmptyList DEF OneThread
  <1>5. HeldBy(w)' = HeldBy(w)
    BY <1>1, <1>2, EmptyList DEF HeldBy
  <1>6. QED
    BY <1>1, <1>2, <1>3, <1>4, <1>5 DEF Moves, Reach

\* DisposeDrain deletes the head of Messages.
LEMMA DisposeDrainMoves ==
  ASSUME TypeOK, PlaceInv, DisposeDrain
  PROVE  Moves(Filter, {}, {Head(Messages)}) /\ UNCHANGED sentCount
  <1>1. /\ Messages \in Seq(Message) /\ Messages # <<>> /\ Messages' = Tail(Messages)
        /\ UNCHANGED <<outbox, hand, packet, fresh, sentCount>>
        /\ Filter \in Thread
    BY DEF DisposeDrain, localVars, historyVars, TypeOK, Thread
  <1>2. /\ OneThread(Filter) /\ IsInjective(Messages)
        /\ HeldBy(Filter) \cap Range(Messages) = {}
    BY <1>1, OnePlaceParts DEF PlaceInv
  <1>3. /\ Head(Messages) \in Range(Messages)
        /\ Range(Messages)' = Range(Messages) \ {Head(Messages)}
        /\ IsInjective(Messages)'
    BY <1>1, <1>2, RemoveHead
  <1>4. HeldBy(Filter)' = HeldBy(Filter) /\ OneThread(Filter)'
    BY <1>1, <1>2 DEF HeldBy, OneThread
  <1>5. QED
    BY <1>1, <1>2, <1>3, <1>4 DEF Moves, Reach

-----------------------------------------------------------------------------
(* Every step, as the owner of the courier sees it. *)

Accepts == \E m \in Message : Moves(Filter, {m}, {}) /\ UNCHANGED <<sentCount, DisposeEvent>>

Shuffles == \E t \in Thread : Moves(t, {}, {}) /\ UNCHANGED <<sentCount, DisposeEvent>>

Deletes == DisposeEvent' = TRUE /\ \E t \in Thread : Moves(t, {}, {}) /\ UNCHANGED sentCount

Writes == \E t \in Thread, S \in SUBSET Message :
            Moves(t, {}, S) /\ sentCount' = Counts(S) /\ UNCHANGED DisposeEvent

Discards == /\ DisposeEvent
            /\ \E t \in Thread, S \in SUBSET Message :
                 Moves(t, {}, S) /\ UNCHANGED <<sentCount, DisposeEvent>>

\* A step accepts one message, writes or discards some, deletes the courier, or
\* only moves messages about.
LEMMA StepMoves ==
  ASSUME TypeOK, PlaceInv, [Next]_vars
  PROVE  Accepts \/ Shuffles \/ Deletes \/ Writes \/ Discards
  <1> USE DEF disposeVars
  <1>1. Filter \in Thread /\ \A w \in Worker : w \in Thread
    BY DEF Thread
  <1>2. ASSUME NEW m \in Message, SendBegin(m) PROVE Accepts
    BY <1>2, SendBeginMoves DEF Accepts, SendBegin
  <1>3. ASSUME NEW t \in Thread, Send(t) PROVE Shuffles \/ Discards
    <2>1. CASE SendDiscards(t)
      <3>1. Range(outbox[t]) \in SUBSET Message
        BY RangeOfSeq DEF TypeOK
      <3>2. DisposeEvent /\ UNCHANGED DisposeEvent
        BY <2>1 DEF SendDiscards
      <3>3. Moves(t, {}, Range(outbox[t])) /\ UNCHANGED sentCount
        BY <2>1, SendDiscardsMoves
      <3>4. QED
        BY <3>1, <3>2, <3>3 DEF Discards
    <2>2. CASE SendAdd(t)
      BY <2>2, SendAddMoves DEF Shuffles, SendAdd
    <2>3. CASE SendChecked(t) \/ SendEnter(t) \/ SendLeave(t)
      <3>1. UNCHANGED placeVars /\ UNCHANGED DisposeEvent
        BY <2>3 DEF SendChecked, SendEnter, SendLeave, placeVars, queueVars, localVars, historyVars
      <3>2. QED
        BY <3>1, NothingMoves DEF Shuffles, placeVars
    <2>4. QED
      BY <1>3, <2>1, <2>2, <2>3 DEF Send
  <1>4. ASSUME NEW w \in Worker, ClientWorker(w) \/ Environment(w) PROVE Shuffles
    <2>1. UNCHANGED placeVars /\ UNCHANGED DisposeEvent
      BY <1>4 DEF ClientWorker, ClientWorkerLoop, Connect, RemoveSocket, Environment, ConnectFails,
                  SocketBreaks, AfterSendMessageFails, placeVars, queueVars, localVars, historyVars
    <2>2. QED
      BY <1>1, <2>1, NothingMoves DEF Shuffles, placeVars
  <1>5. ASSUME NEW w \in Worker, ProcessOutgoing(w) PROVE Shuffles \/ Writes
    <2>1. CASE GetMessage(w)
      BY <1>1, <2>1, GetMessageMoves DEF Shuffles, GetMessage
    <2>2. CASE IncludeMessage(w)
      BY <1>1, <2>2, IncludeMessageMoves DEF Shuffles, IncludeMessage
    <2>3. CASE ExcludeMessage(w)
      BY <1>1, <2>3, ExcludeMessageMoves DEF Shuffles, ExcludeMessage
    <2>4. CASE Transmit(w)
      <3>1. Range(packet[w]) \in SUBSET Message
        BY RangeOfSeq DEF TypeOK
      <3>2. UNCHANGED DisposeEvent
        BY <2>4 DEF Transmit
      <3>3. QED
        BY <1>1, <2>4, <3>1, <3>2, TransmitMoves DEF Writes
    <2>5. CASE TransmitFails(w)
      BY <1>1, <2>5, TransmitFailsMoves DEF Shuffles, TransmitFails
    <2>6. CASE \/ OutgoingLoop(w) \/ WaitSignalled(w) \/ WaitTimeout(w) \/ GetMessagesEnd(w)
               \/ PackEnd(w) \/ AfterSendMessage(w)
               \/ ResetEnter(w) \/ ResetTest(w) \/ ResetSkip(w) \/ ResetClear(w)
      <3>1. UNCHANGED placeVars /\ UNCHANGED DisposeEvent
        BY <2>6 DEF OutgoingLoop, WaitSignalled, WaitTimeout, GetMessagesEnd, PackEnd,
                    AfterSendMessage, ResetEnter, ResetTest, ResetSkip, ResetClear, placeVars,
                    queueVars, localVars, historyVars
      <3>2. QED
        BY <1>1, <3>1, NothingMoves DEF Shuffles, placeVars
    <2>7. QED
      BY <1>5, <2>1, <2>2, <2>3, <2>4, <2>5, <2>6 DEF ProcessOutgoing
  <1>6. CASE Delete
    <2>1. UNCHANGED placeVars /\ DisposeEvent' = TRUE
      BY <1>6 DEF Delete, placeVars, queueVars, localVars, historyVars
    <2>2. QED
      BY <1>1, <2>1, NothingMoves DEF Deletes, placeVars
  <1>7. CASE Dispose
    <2>1. CASE DisposeDrain
      <3>1. Head(Messages) \in Message
        BY <2>1, HeadTailProperties DEF DisposeDrain, TypeOK
      <3>2. DisposeEvent /\ UNCHANGED DisposeEvent
        BY <2>1 DEF DisposeDrain, PlaceInv, DisposeAfterDelete
      <3>3. QED
        BY <1>1, <2>1, <3>1, <3>2, DisposeDrainMoves DEF Discards
    <2>2. CASE DisposeClose \/ DisposeDrained \/ DisposePulse \/ DisposeJoin
      <3>1. UNCHANGED placeVars /\ UNCHANGED DisposeEvent
        BY <2>2 DEF DisposeClose, DisposeDrained, DisposePulse, DisposeJoin, placeVars, queueVars,
                    localVars, historyVars
      <3>2. QED
        BY <1>1, <3>1, NothingMoves DEF Shuffles, placeVars
    <2>3. QED
      BY <1>7, <2>1, <2>2 DEF Dispose
  <1>8. CASE UNCHANGED vars
    <2>1. UNCHANGED placeVars /\ UNCHANGED DisposeEvent
      BY <1>8 DEF vars, placeVars, queueVars, localVars, historyVars
    <2>2. QED
      BY <1>1, <2>1, NothingMoves DEF Shuffles, placeVars
  <1>9. QED
    BY <1>2, <1>3, <1>4, <1>5, <1>6, <1>7, <1>8, NextCases

\* Every step keeps each message in one place.
LEMMA StepOnePlace ==
  ASSUME TypeOK, PlaceInv, [Next]_vars
  PROVE  OnePlace' /\ \A m \in fresh' : sentCount'[m] = 0
  BY StepMoves, MovesKeepPlace DEF Accepts, Shuffles, Deletes, Writes, Discards, Thread

\* A thread that is not at work on a list has left it empty.
LEMMA StepListsEmpty ==
  ASSUME TypeOK, PlaceInv, [Next]_vars
  PROVE  ListsEmpty'
  <1> USE DEF Goto, localVars, controlVars
  <1>1. /\ pc \in [Thread -> FilterPC \cup WorkerPC]
        /\ outbox \in [Thread -> Seq(Message)]
        /\ return \in [Thread -> {"idle", "transmit", "exit"}]
        /\ return[Filter] = "idle"
        /\ \A w \in Worker : return[w] \in {"transmit", "exit"}
        /\ Filter \in Thread /\ Filter \notin Worker /\ Worker \subseteq Thread
    BY ConstantsAssumption DEF TypeOK, Thread
  <1>2. ListsEmpty
    BY DEF PlaceInv
  <1>3. ASSUME NEW m \in Message, SendBegin(m) PROVE ListsEmpty'
    BY <1>1, <1>2, <1>3 DEF SendBegin, ListsEmpty
  <1>4. ASSUME NEW t \in Thread, Send(t) PROVE ListsEmpty'
    <2>1. CASE SendDiscards(t)
      BY <1>1, <1>2, <2>1 DEF SendDiscards, ListsEmpty
    <2>2. CASE SendChecked(t) \/ SendEnter(t)
      BY <1>1, <1>2, <2>2 DEF SendChecked, SendEnter, ListsEmpty, Thread
    <2>3. CASE SendAdd(t)
      BY <1>1, <1>2, <2>3 DEF SendAdd, ListsEmpty, Thread
    <2>4. CASE SendLeave(t)
      BY <1>1, <1>2, <2>4 DEF SendLeave, ListsEmpty, Thread
    <2>5. QED
      BY <1>4, <2>1, <2>2, <2>3, <2>4 DEF Send
  <1>5. ASSUME NEW w \in Worker, ClientWorker(w) \/ Environment(w) PROVE ListsEmpty'
    BY <1>1, <1>2, <1>5 DEF ClientWorker, ClientWorkerLoop, Connect, RemoveSocket, Environment,
                            ConnectFails, SocketBreaks, AfterSendMessageFails, ListsEmpty
  <1>6. ASSUME NEW w \in Worker, ProcessOutgoing(w) PROVE ListsEmpty'
    <2>1. CASE \/ OutgoingLoop(w) \/ WaitSignalled(w) \/ WaitTimeout(w) \/ GetMessagesEnd(w)
               \/ AfterSendMessage(w)
               \/ ResetEnter(w) \/ ResetTest(w) \/ ResetSkip(w) \/ ResetClear(w)
      BY <1>1, <1>2, <2>1
         DEF OutgoingLoop, WaitSignalled, WaitTimeout, GetMessagesEnd, AfterSendMessage,
             ResetEnter, ResetTest, ResetSkip, ResetClear, ListsEmpty
    <2>2. CASE GetMessage(w) \/ IncludeMessage(w)
      BY <1>1, <1>2, <2>2 DEF GetMessage, IncludeMessage, ListsEmpty
    <2>3. CASE ExcludeMessage(w)
      BY <1>1, <1>2, <2>3 DEF ExcludeMessage, ListsEmpty
    <2>4. CASE PackEnd(w)
      BY <1>1, <1>2, <2>4 DEF PackEnd, ListsEmpty
    <2>5. CASE Transmit(w)
      BY <1>1, <1>2, <2>5 DEF Transmit, ListsEmpty
    <2>6. CASE TransmitFails(w)
      BY <1>1, <1>2, <2>6 DEF TransmitFails, ListsEmpty
    <2>7. QED
      BY <1>6, <2>1, <2>2, <2>3, <2>4, <2>5, <2>6 DEF ProcessOutgoing
  <1>7. CASE Delete \/ Dispose
    BY <1>2, <1>7 DEF Delete, Dispose, DisposeClose, DisposeDrain, DisposeDrained, DisposePulse,
                      DisposeJoin, ListsEmpty
  <1>8. CASE UNCHANGED vars
    BY <1>2, <1>8 DEF vars, ListsEmpty
  <1>9. QED
    BY <1>3, <1>4, <1>5, <1>6, <1>7, <1>8, NextCases

\* Dispose begins after Delete has set DisposeEvent.
LEMMA StepDisposeAfterDelete ==
  ASSUME TypeOK, PlaceInv, [Next]_vars
  PROVE  DisposeAfterDelete'
  <1>1. DisposeAfterDelete
    BY DEF PlaceInv
  <1>2. CASE UNCHANGED disposeVars
    BY <1>1, <1>2 DEF disposeVars, DisposeAfterDelete
  <1>3. CASE Delete \/ Dispose
    BY <1>1, <1>3 DEF Delete, Dispose, DisposeClose, DisposeDrain, DisposeDrained, DisposePulse,
                      DisposeJoin, disposeVars, DisposeAfterDelete
  <1>4. ASSUME NEW m \in Message, SendBegin(m) PROVE UNCHANGED disposeVars
    BY <1>4 DEF SendBegin
  <1>5. ASSUME NEW t \in Thread, Send(t) PROVE UNCHANGED disposeVars
    BY <1>5 DEF Send, SendDiscards, SendChecked, SendEnter, SendAdd, SendLeave
  <1>6. ASSUME NEW w \in Worker, ClientWorker(w) \/ Environment(w) PROVE UNCHANGED disposeVars
    BY <1>6 DEF ClientWorker, ClientWorkerLoop, Connect, RemoveSocket, Environment, ConnectFails,
                SocketBreaks, AfterSendMessageFails
  <1>7. ASSUME NEW w \in Worker, ProcessOutgoing(w) PROVE UNCHANGED disposeVars
    BY <1>7 DEF ProcessOutgoing, OutgoingLoop, WaitSignalled, WaitTimeout, GetMessage,
                GetMessagesEnd, IncludeMessage, ExcludeMessage, PackEnd, Transmit, TransmitFails,
                AfterSendMessage, ResetEnter, ResetTest, ResetSkip, ResetClear
  <1>8. UNCHANGED vars => UNCHANGED disposeVars
    BY DEF vars
  <1>9. QED
    BY <1>2, <1>3, <1>4, <1>5, <1>6, <1>7, <1>8, NextCases

\* Nothing is held in the beginning.
LEMMA InitEmpty ==
  ASSUME Init
  PROVE  /\ Messages = <<>> /\ Held = {}
         /\ \A t \in Thread : HeldBy(t) = {}
         /\ \A t \in Thread : OneThread(t)
  <1>1. /\ Messages = <<>>
        /\ \A t \in Thread : outbox[t] = <<>>
        /\ \A w \in Worker : hand[w] = <<>> /\ packet[w] = <<>>
    BY DEF Init
  <1>2. \A t \in Thread : HeldBy(t) = {} /\ OneThread(t)
    BY <1>1, EmptyList DEF HeldBy, OneThread, Thread
  <1>3. QED
    BY <1>1, <1>2, EmptyList DEF Held

\* The inductive invariant holds in the beginning.
LEMMA InitPlaceInv == Init => PlaceInv
  <1> SUFFICES ASSUME Init PROVE PlaceInv
    OBVIOUS
  <1>1. OnePlace
    BY InitEmpty, EmptyList, OnePlaceParts
  <1>2. ListsEmpty /\ DisposeAfterDelete
    BY DEF Init, ListsEmpty, DisposeAfterDelete, Thread
  <1>3. \A m \in fresh : sentCount[m] = 0
    BY DEF Init
  <1>4. QED
    BY <1>1, <1>2, <1>3 DEF PlaceInv

\* Every step keeps the inductive invariant.
LEMMA StepPlaceInv == TypeOK /\ PlaceInv /\ [Next]_vars => PlaceInv'
  BY StepOnePlace, StepListsEmpty, StepDisposeAfterDelete DEF PlaceInv

\* A message is never in two lists, nor twice in one, nor queued again after it
\* was written: each is deleted once and written once, whichever worker takes it
\* and however often its connection breaks.
THEOREM PlaceCorrect == Spec => []OnePlace
  <1>1. PlaceInv => OnePlace
    BY DEF PlaceInv
  <1>2. QED
    BY <1>1, InitPlaceInv, TypeCorrect, StepPlaceInv, PTL DEF Spec

-----------------------------------------------------------------------------
(* The courier implements CourierDelivery. *)

\* The initial states of the courier map to those of CourierDelivery.
LEMMA InitDelivery == Init => Delivery!Init
  <1> SUFFICES ASSUME Init PROVE Delivery!Init
    OBVIOUS
  <1>1. Held = {} /\ fresh = Message /\ sentCount = [m \in Message |-> 0] /\ DisposeEvent = FALSE
    BY InitEmpty DEF Init
  <1>2. Status = [m \in Message |-> "new"]
    BY <1>1 DEF Status
  <1>3. QED
    BY <1>1, <1>2 DEF Delivery!Init

\* Every step of the courier maps to a step of CourierDelivery, or to none.
LEMMA StepDelivery ==
  ASSUME TypeOK, PlaceInv, [Next]_vars
  PROVE  [Delivery!Next]_(Delivery!vars)
  <1>1. /\ \A m \in Held : sentCount[m] = 0 /\ m \notin fresh
        /\ \A m \in fresh : sentCount[m] = 0
        /\ fresh \subseteq Message
        /\ sentCount \in [Message -> Nat]
    BY OnePlaceParts DEF PlaceInv, TypeOK
  <1>3. \A t \in Thread : Reach(t) \subseteq Held
    BY DEF Reach, Held
  <1>4. CASE Accepts
    <2>1. PICK m \in Message : Moves(Filter, {m}, {}) /\ UNCHANGED <<sentCount, DisposeEvent>>
      BY <1>4 DEF Accepts
    <2>2. Held' = Held \cup {m}
      BY <2>1, MovesKeepPlace DEF Thread
    <2>3. m \in fresh /\ fresh' = fresh \ {m}
      BY <2>1 DEF Moves
    <2>4. Status[m] = "new"
      BY <1>1, <2>3 DEF Status
    <2>5. Status' = Delivery!Become({m}, "pending")
      BY <2>1, <2>2, <2>3 DEF Status, Delivery!Become
    <2>6. Delivery!Accept(m)
      BY <2>1, <2>4, <2>5 DEF Delivery!Accept
    <2>7. QED
      BY <2>6 DEF Delivery!Next
  <1>5. ASSUME NEW t \in Thread, Moves(t, {}, {}), UNCHANGED sentCount PROVE UNCHANGED Status
    <2>1. Held' = Held /\ fresh' = fresh
      <3>1. Held' = (Held \cup {}) \ {}
        BY <1>5, MovesKeepPlace
      <3>2. fresh' = fresh \ {}
        BY <1>5 DEF Moves
      <3>3. QED
        BY <3>1, <3>2
    <2>2. QED
      BY <1>5, <2>1 DEF Status
  <1>6. CASE Shuffles
    BY <1>5, <1>6 DEF Shuffles, Delivery!vars
  <1>7. CASE Deletes
    <2>1. Delivery!Delete
      BY <1>5, <1>7 DEF Deletes, Delivery!Delete
    <2>2. QED
      BY <2>1 DEF Delivery!Next
  <1>8. CASE Writes
    <2>1. PICK t \in Thread, S \in SUBSET Message :
            Moves(t, {}, S) /\ sentCount' = Counts(S) /\ UNCHANGED DisposeEvent
      BY <1>8 DEF Writes
    <2>2. Held' = Held \ S /\ fresh' = fresh /\ S \subseteq Held
      <3>1. Held' = (Held \cup {}) \ S
        BY <2>1, MovesKeepPlace
      <3>2. fresh' = fresh \ {} /\ S \subseteq Reach(t)
        BY <2>1 DEF Moves
      <3>3. QED
        BY <1>3, <3>1, <3>2
    <2>3. CASE S = {}
      <3>1. sentCount' = sentCount
        BY <1>1, <2>1, <2>3 DEF Counts
      <3>2. Status' = Status
        BY <2>2, <2>3, <3>1 DEF Status
      <3>3. QED
        BY <2>1, <3>1, <3>2 DEF Delivery!vars
    <2>4. CASE S # {}
      <3>1. \A m \in S : Status[m] = "pending"
        BY <2>2 DEF Status
      <3>2. \A m \in Message : sentCount'[m] = IF m \in S THEN sentCount[m] + 1 ELSE sentCount[m]
        BY <2>1 DEF Counts
      <3>3. \A m \in S : m \notin Held' /\ sentCount'[m] > 0
        BY <1>1, <2>2, <3>2
      <3>4. \A m \in Message \ S : (m \in Held' <=> m \in Held) /\ sentCount'[m] = sentCount[m]
        BY <2>2, <3>2
      <3>5. Status' = Delivery!Become(S, "sent")
        BY <2>2, <3>3, <3>4 DEF Status, Delivery!Become
      <3>6. Delivery!Transmit(S)
        BY <2>1, <2>4, <3>1, <3>5 DEF Delivery!Transmit, Counts
      <3>7. QED
        BY <3>6 DEF Delivery!Next
    <2>5. QED
      BY <2>3, <2>4
  <1>9. CASE Discards
    <2>1. PICK t \in Thread, S \in SUBSET Message :
            Moves(t, {}, S) /\ UNCHANGED <<sentCount, DisposeEvent>>
      BY <1>9 DEF Discards
    <2>2. Held' = Held \ S /\ fresh' = fresh /\ S \subseteq Held
      <3>1. Held' = (Held \cup {}) \ S
        BY <2>1, MovesKeepPlace
      <3>2. fresh' = fresh \ {} /\ S \subseteq Reach(t)
        BY <2>1 DEF Moves
      <3>3. QED
        BY <1>3, <3>1, <3>2
    <2>3. \A m \in S : Status[m] = "pending"
      BY <2>2 DEF Status
    <2>4. \A m \in S : m \notin Held' /\ sentCount'[m] = 0 /\ m \notin fresh'
      BY <1>1, <2>1, <2>2
    <2>5. Status' = Delivery!Become(S, "dropped")
      BY <2>1, <2>2, <2>4 DEF Status, Delivery!Become
    <2>6. Delivery!Discard(S)
      BY <1>9, <2>1, <2>3, <2>5 DEF Discards, Delivery!Discard
    <2>7. QED
      BY <2>6 DEF Delivery!Next
  <1>10. QED
    BY <1>4, <1>6, <1>7, <1>8, <1>9, StepMoves

\* The courier implements its delivery specification: a message given to Send is
\* never lost while the owner keeps the courier, and is written once at most.
THEOREM DeliveryCorrect == Spec => ImplementsDelivery
  <1>1. Init => Delivery!Init
    BY InitDelivery
  <1>2. TypeOK /\ PlaceInv /\ [Next]_vars => [Delivery!Next]_(Delivery!vars)
    BY StepDelivery
  <1>3. Spec => []TypeOK
    BY TypeCorrect
  <1>4. Spec => []PlaceInv
    BY InitPlaceInv, TypeCorrect, StepPlaceInv, PTL DEF Spec
  <1>5. QED
    BY <1>1, <1>2, <1>3, <1>4, PTL DEF Spec, ImplementsDelivery, Delivery!Spec

=============================================================================
