---------------------------- MODULE BarbaTransfer_proofs ----------------------------
(***************************************************************************)
(* The properties of a transfer, for all sizes, modes and messages.  An    *)
(* end reads a stream that the other end wrote as packets, answers and     *)
(* openings, each with the same counters; neither says in the stream where *)
(* a message ends.  So the proof gives each end a position in its stream   *)
(* (At), says what may lie there (Takes) and keeps that whatever lies      *)
(* before an end can be read up to the position the other end has written  *)
(* to (Linked).                                                            *)
(***************************************************************************)
EXTENDS BarbaTransfer, WellFoundedInduction, SequenceTheorems, TLAPS

-----------------------------------------------------------------------------
(* Sums, sequences and packets *)

\* Induction on the naturals, for a set of them.
LEMMA SetInduction ==
  ASSUME NEW S, 0 \in S, \A n \in Nat : n \in S => n + 1 \in S
  PROVE  Nat \subseteq S
<1> SUFFICES ASSUME Nat \ S # {} PROVE FALSE
  OBVIOUS
<1>1. PICK n \in Nat \ S : \A k \in Nat \ S : ~(<<k, n>> \in OpToRel(<, Nat))
  BY WFMin, NatLessThanWellFounded
<1>2. \A k \in Nat \ S : ~(k < n)
  BY <1>1 DEF OpToRel
<1>3. n # 0 /\ n - 1 \in Nat
  OBVIOUS
<1>4. n - 1 \in S
  BY <1>2, <1>3
<1>5. (n - 1) + 1 \in S
  BY <1>3, <1>4
<1> QED
  BY <1>5

\* A sequence over a set is one over any larger set.
LEMMA SeqOfSubset ==
  ASSUME NEW S, NEW T \in SUBSET S, NEW s \in Seq(T)
  PROVE  s \in Seq(S)
BY SeqMonotonic

\* f is what g makes of base in n steps.
Steps(f, n, base, g) == f[0] = base /\ \A i \in 1 .. n : f[i] = g[<<f[i - 1], i>>]

\* A function defined by recursion up to N exists.
LEMMA RecursionExists ==
  ASSUME NEW N \in Nat, NEW V, NEW base \in V, NEW g \in [V \X (1 .. N) -> V]
  PROVE  \E f \in [0 .. N -> V] : Steps(f, N, base, g)
<1> USE DEF Steps
<1> DEFINE Good(n) == n <= N => \E f \in [0 .. n -> V] :
                        f[0] = base /\ \A i \in 1 .. n : f[i] = g[<<f[i - 1], i>>]
           S == {n \in Nat : Good(n)}
<1>1. 0 \in S
  <2> DEFINE f == [i \in 0 .. 0 |-> base]
  <2>1. f \in [0 .. 0 -> V] /\ f[0] = base /\ \A i \in 1 .. 0 : f[i] = g[<<f[i - 1], i>>]
    OBVIOUS
  <2> QED
    BY <2>1
<1>2. ASSUME NEW n \in Nat, n \in S PROVE n + 1 \in S
  <2> SUFFICES ASSUME n + 1 <= N
               PROVE  \E f \in [0 .. n + 1 -> V] :
                        f[0] = base /\ \A i \in 1 .. n + 1 : f[i] = g[<<f[i - 1], i>>]
    OBVIOUS
  <2>1. PICK f \in [0 .. n -> V] :
               f[0] = base /\ \A i \in 1 .. n : f[i] = g[<<f[i - 1], i>>]
    BY <1>2
  <2> DEFINE h == [i \in 0 .. n + 1 |-> IF i = n + 1 THEN g[<<f[n], n + 1>>] ELSE f[i]]
  <2>2. g[<<f[n], n + 1>>] \in V
    OBVIOUS
  <2>3. h \in [0 .. n + 1 -> V] /\ h[0] = base
    BY <2>1, <2>2
  <2>4. ASSUME NEW i \in 1 .. n + 1 PROVE h[i] = g[<<h[i - 1], i>>]
    <3>1. CASE i = n + 1
      <4>1. h[i - 1] = f[n] /\ h[i] = g[<<f[n], n + 1>>]
        BY <3>1
      <4> QED
        BY <3>1, <4>1
    <3>2. CASE i # n + 1
      <4>1. h[i - 1] = f[i - 1] /\ h[i] = f[i] /\ i \in 1 .. n
        BY <3>2
      <4> QED
        BY <2>1, <4>1
    <3> QED
      BY <3>1, <3>2
  <2> QED
    BY <2>3, <2>4
<1>3. N \in S
  <2> HIDE DEF S
  <2> QED
    BY <1>1, <1>2, SetInduction
<1> QED
  BY <1>3

\* Sums: the recursion that defines it.
LEMMA SumsFacts ==
  ASSUME NEW x \in End, NEW messages \in Seq(1 .. Len(MessageSizes[x]))
  PROVE  LET sum == Sums(x, messages) IN
         /\ sum \in [0 .. Len(messages) -> Nat]
         /\ sum[0] = 0
         /\ \A n \in 1 .. Len(messages) : sum[n] = sum[n - 1] + SizeOf(x, messages[n])
         /\ \A n \in 1 .. Len(messages) : SizeOf(x, messages[n]) \in Nat \ {0}
<1> DEFINE N == Len(messages)
           g == [v \in Nat \X (1 .. N) |-> v[1] + SizeOf(x, messages[v[2]])]
           D(f) == [n \in 0 .. N |-> IF n = 0 THEN 0 ELSE f[n - 1] + SizeOf(x, messages[n])]
<1>1. \A n \in 1 .. N : SizeOf(x, messages[n]) \in Nat \ {0}
  BY ConstantsAssumption DEF SizeOf, End
<1>2. g \in [Nat \X (1 .. N) -> Nat]
  BY <1>1
<1>3. PICK f \in [0 .. N -> Nat] : f[0] = 0 /\ \A i \in 1 .. N : f[i] = g[<<f[i - 1], i>>]
  <2> DEFINE V == Nat
         base == 0
  <2>1. N \in Nat /\ base \in V /\ g \in [V \X (1 .. N) -> V]
    BY <1>2
  <2> HIDE DEF g, N, V, base
  <2>2. \E f \in [0 .. N -> V] : Steps(f, N, base, g)
    BY <2>1, RecursionExists
  <2> QED
    BY <2>2 DEF V, base, Steps
<1>4. f = D(f)
  <2>1. ASSUME NEW i \in 1 .. N PROVE f[i] = f[i - 1] + SizeOf(x, messages[i])
    <3>1. f[i - 1] \in Nat
      <4>1. i - 1 \in 0 .. N /\ f \in [0 .. N -> Nat]
        BY <1>1
      <4> HIDE DEF g, N
      <4> QED
        BY <4>1
    <3>2. g[<<f[i - 1], i>>] = f[i - 1] + SizeOf(x, messages[i])
      BY <3>1
    <3> HIDE DEF g
    <3> QED
      BY <1>3, <3>2
  <2> QED
    BY <1>3, <2>1
<1>5. Sums(x, messages) = CHOOSE sum : sum = D(sum)
  BY DEF Sums
<1>6. Sums(x, messages) = D(Sums(x, messages))
  <2> HIDE DEF D
  <2> QED
    BY <1>4, <1>5
<1>7. \A n \in 0 .. N : Sums(x, messages)[n] \in Nat
  <2> DEFINE S == {n \in Nat : n <= N => Sums(x, messages)[n] \in Nat}
  <2>1. 0 \in S
    BY <1>6
  <2>2. ASSUME NEW n \in Nat, n \in S PROVE n + 1 \in S
    <3>1. SUFFICES ASSUME n + 1 <= N PROVE Sums(x, messages)[n + 1] \in Nat
      OBVIOUS
    <3>2. n + 1 \in 1 .. N /\ (n + 1) - 1 = n /\ Sums(x, messages)[n] \in Nat
      BY <2>2, <3>1
    <3>3. Sums(x, messages)[n + 1] = Sums(x, messages)[n] + SizeOf(x, messages[n + 1])
      BY <1>6, <3>2
    <3>4. SizeOf(x, messages[n + 1]) \in Nat
      BY <1>1, <3>2
    <3> QED
      BY <3>2, <3>3, <3>4
  <2> HIDE DEF S
  <2>3. Nat \subseteq S
    BY <2>1, <2>2, SetInduction
  <2> USE DEF S
  <2> QED
    BY <2>3
<1>8. /\ Sums(x, messages)[0] = 0
      /\ \A n \in 1 .. N : Sums(x, messages)[n] = Sums(x, messages)[n - 1] + SizeOf(x, messages[n])
  BY <1>6
<1>9. Sums(x, messages) \in [0 .. N -> Nat]
  <2> DEFINE sum == Sums(x, messages)
  <2>1. sum = [n \in 0 .. N |-> sum[n]]
    BY <1>6
  <2> HIDE DEF sum
  <2> QED
    BY <1>7, <2>1 DEF sum
<1> QED
  BY <1>1, <1>8, <1>9

\* The sum over the first messages depends on them only.
LEMMA SumsPrefix ==
  ASSUME NEW x \in End, NEW messages \in Seq(1 .. Len(MessageSizes[x])),
         NEW more \in Seq(1 .. Len(MessageSizes[x])),
         NEW k \in Nat, k <= Len(messages), k <= Len(more),
         \A i \in 1 .. k : messages[i] = more[i]
  PROVE  Sums(x, messages)[k] = Sums(x, more)[k]
<1> DEFINE a == Sums(x, messages)
           b == Sums(x, more)
           S == {n \in Nat : n <= k => a[n] = b[n]}
<1>1. /\ a \in [0 .. Len(messages) -> Nat] /\ b \in [0 .. Len(more) -> Nat]
      /\ a[0] = 0 /\ b[0] = 0
      /\ \A n \in 1 .. Len(messages) : a[n] = a[n - 1] + SizeOf(x, messages[n])
      /\ \A n \in 1 .. Len(more) : b[n] = b[n - 1] + SizeOf(x, more[n])
  BY SumsFacts
<1> HIDE DEF a, b
<1>2. 0 \in S
  BY <1>1
<1>3. ASSUME NEW n \in Nat, n \in S PROVE n + 1 \in S
  BY <1>1, <1>3
<1> HIDE DEF S
<1>4. k \in S
  BY <1>2, <1>3, SetInduction
<1> QED
  BY <1>4 DEF S, a, b

\* Each message has a size, so the sums grow.
LEMMA SumsGrow ==
  ASSUME NEW x \in End, NEW messages \in Seq(1 .. Len(MessageSizes[x])),
         NEW j \in 0 .. Len(messages)
  PROVE  /\ j <= Sums(x, messages)[j]
         /\ Sums(x, messages)[j] <= TotalSize(x, messages)
<1> DEFINE N == Len(messages)
           a == Sums(x, messages)
           L == {n \in Nat : n <= N => n <= a[n]}
           G == {n \in Nat : j + n <= N => a[j] <= a[j + n]}
<1>1. /\ N \in Nat /\ a \in [0 .. N -> Nat] /\ a[0] = 0
      /\ \A n \in 1 .. N : a[n] = a[n - 1] + SizeOf(x, messages[n])
      /\ \A n \in 1 .. N : SizeOf(x, messages[n]) \in Nat \ {0}
  BY SumsFacts
<1>0. TotalSize(x, messages) = a[N]
  BY DEF TotalSize
<1> HIDE DEF a, N
<1>2. 0 \in L /\ 0 \in G
  <2>1. j + 0 = j /\ j \in 0 .. N
    BY DEF N
  <2> QED
    BY <1>1, <2>1
<1>3. ASSUME NEW n \in Nat, n \in L PROVE n + 1 \in L
  <2>1. SUFFICES ASSUME n + 1 <= N PROVE n + 1 <= a[n + 1]
    OBVIOUS
  <2>2. n + 1 \in 1 .. N /\ (n + 1) - 1 = n /\ n \in 0 .. N
    BY <1>1, <2>1
  <2>3. n <= a[n] /\ a[n] \in Nat /\ SizeOf(x, messages[n + 1]) \in Nat \ {0}
    BY <1>1, <1>3, <2>2
  <2>4. a[n + 1] = a[n] + SizeOf(x, messages[n + 1])
    BY <1>1, <2>2
  <2> QED
    BY <2>3, <2>4
<1>4. ASSUME NEW n \in Nat, n \in G PROVE n + 1 \in G
  <2>1. SUFFICES ASSUME j + (n + 1) <= N PROVE a[j] <= a[j + (n + 1)]
    OBVIOUS
  <2>2. j + n + 1 \in 1 .. N /\ (j + n + 1) - 1 = j + n /\ j + (n + 1) = j + n + 1
    BY <1>1, <2>1 DEF N
  <2>3. a[j] <= a[j + n] /\ a[j] \in Nat /\ a[j + n] \in Nat
    <3>1. j + n \in 0 .. N /\ j \in 0 .. N
      BY <1>1, <2>1 DEF N
    <3>2. j + n <= N
      BY <3>1
    <3> QED
      BY <1>1, <1>4, <3>1, <3>2
  <2>4. a[j + n + 1] = a[j + n] + SizeOf(x, messages[j + n + 1])
    BY <1>1, <2>2
  <2>5. SizeOf(x, messages[j + n + 1]) \in Nat
    BY <1>1, <2>2
  <2> QED
    BY <2>2, <2>3, <2>4, <2>5
<1> HIDE DEF L, G
<1>5. Nat \subseteq L /\ Nat \subseteq G
  BY <1>2, <1>3, <1>4, SetInduction
<1>6. N - j \in Nat /\ j \in Nat /\ j <= N
  BY DEF N
<1>7. j \in L /\ N - j \in G
  BY <1>5, <1>6
<1>8. j + (N - j) = N
  BY <1>6, <1>1
<1> QED
  BY <1>0, <1>6, <1>7, <1>8 DEF L, G, a

\* TotalSize: nothing for no messages, and no less than their number.
LEMMA TotalSizeFacts ==
  ASSUME NEW x \in End, NEW messages \in Seq(1 .. Len(MessageSizes[x]))
  PROVE  /\ TotalSize(x, messages) \in Nat
         /\ Len(messages) <= TotalSize(x, messages)
         /\ messages = <<>> => TotalSize(x, messages) = 0
<1> DEFINE n == Len(messages)
           sum == Sums(x, messages)
<1>1. n \in Nat /\ n \in 0 .. n /\ (messages = <<>> => n = 0)
  OBVIOUS
<1>2. sum \in [0 .. n -> Nat] /\ sum[0] = 0
  BY SumsFacts
<1>3. n <= sum[n]
  BY <1>1, SumsGrow
<1>4. TotalSize(x, messages) = sum[n]
  BY DEF TotalSize
<1> HIDE DEF n, sum
<1> QED
  BY <1>1, <1>2, <1>3, <1>4 DEF n

\* TotalSize: one message more.
LEMMA TotalSizeAppend ==
  ASSUME NEW x \in End, NEW messages \in Seq(1 .. Len(MessageSizes[x])),
         NEW m \in 1 .. Len(MessageSizes[x])
  PROVE  TotalSize(x, Append(messages, m)) = TotalSize(x, messages) + SizeOf(x, m)
<1> DEFINE more == Append(messages, m)
           n == Len(messages)
<1>1. /\ more \in Seq(1 .. Len(MessageSizes[x])) /\ n \in Nat
      /\ Len(more) = n + 1 /\ more[n + 1] = m
      /\ \A i \in 1 .. n : messages[i] = more[i]
  OBVIOUS
<1> HIDE DEF more
<1>2. Sums(x, messages)[n] = Sums(x, more)[n]
  <2> HIDE DEF n
  <2>1. n <= Len(messages) /\ n <= Len(more)
    BY <1>1 DEF n
  <2> QED
    BY <1>1, <2>1, SumsPrefix
<1>3. Sums(x, more)[Len(more)] = Sums(x, more)[Len(more) - 1] + SizeOf(x, more[Len(more)])
  <2>1. Len(more) \in 1 .. Len(more)
    BY <1>1
  <2> QED
    BY <1>1, <2>1, SumsFacts
<1>4. Len(more) - 1 = Len(messages)
  BY <1>1
<1> QED
  BY <1>1, <1>2, <1>3, <1>4 DEF TotalSize, more

\* Fit: what it keeps and what it leaves.
LEMMA FitFacts ==
  ASSUME NEW x \in End, NEW T \in SUBSET (1 .. Len(MessageSizes[x])), NEW messages \in Seq(T),
         NEW room \in Nat
  PROVE  /\ Fit(x, messages, room) \in [in : Seq(T), out : Seq(T), size : Nat]
         /\ Fit(x, messages, room).size = TotalSize(x, Fit(x, messages, room).in)
         /\ Fit(x, messages, room).size <= room
<1> DEFINE N == Len(messages)
           V == [in : Seq(T), out : Seq(T), size : Nat]
           base == [in |-> <<>>, out |-> <<>>, size |-> 0]
           G(v, m) == LET size == v.size + SizeOf(x, m) IN
                      IF size <= room THEN [v EXCEPT !.in = Append(@, m), !.size = size]
                      ELSE [v EXCEPT !.out = Append(@, m)]
           g == [v \in V \X (1 .. N) |-> G(v[1], messages[v[2]])]
           D(f) == [n \in 0 .. N |-> IF n = 0 THEN base ELSE G(f[n - 1], messages[n])]
           OK == {v \in V : v.size = TotalSize(x, v.in) /\ v.size <= room}
<1>1. N \in Nat /\ base \in V /\ \A n \in 1 .. N : messages[n] \in T
  OBVIOUS
<1>2. \A m \in T : SizeOf(x, m) \in Nat \ {0}
  BY ConstantsAssumption DEF SizeOf, End
<1>3. ASSUME NEW v \in V, NEW m \in T PROVE G(v, m) \in V
  <2>1. Append(v.in, m) \in Seq(T) /\ Append(v.out, m) \in Seq(T) /\ v.size + SizeOf(x, m) \in Nat
    BY <1>2
  <2> QED
    BY <2>1
<1>4. g \in [V \X (1 .. N) -> V]
  <2> HIDE DEF V, G
  <2> QED
    BY <1>1, <1>3
<1>5. PICK f \in [0 .. N -> V] : Steps(f, N, base, g)
  <2> HIDE DEF V, g, N, base
  <2> QED
    BY <1>1, <1>4, RecursionExists
<1>6. f = D(f)
  <2> HIDE DEF V, G, base, N
  <2>1. ASSUME NEW i \in 1 .. N PROVE f[i] = G(f[i - 1], messages[i])
    <3>1. f[i - 1] \in V
      BY <1>1
    <3>2. g[<<f[i - 1], i>>] = G(f[i - 1], messages[i])
      BY <3>1
    <3> HIDE DEF g
    <3> QED
      BY <1>5, <3>2 DEF Steps
  <2>2. f[0] = base
    BY <1>5 DEF Steps
  <2> QED
    BY <2>1, <2>2
<1> DEFINE fit == CHOOSE h : h = D(h)
<1>7. Fit(x, messages, room) = fit[N]
  BY DEF Fit
<1>8. fit = D(fit)
  <2> HIDE DEF D
  <2> QED
    BY <1>6
<1> HIDE DEF fit
<1>9. \A n \in 0 .. N : fit[n] \in OK
  <2> DEFINE S == {n \in Nat : n <= N => fit[n] \in OK}
  <2>1. 0 \in S
    <3>1. <<>> \in Seq(1 .. Len(MessageSizes[x]))
      OBVIOUS
    <3>2. TotalSize(x, <<>>) = 0
      BY <3>1, TotalSizeFacts
    <3>3. base \in OK
      BY <3>2
    <3>4. fit[0] = base
      <4> HIDE DEF base, G
      <4> QED
        BY <1>1, <1>8
    <3> QED
      BY <3>3, <3>4
  <2>2. ASSUME NEW n \in Nat, n \in S PROVE n + 1 \in S
    <3> SUFFICES ASSUME n + 1 <= N PROVE fit[n + 1] \in OK
      OBVIOUS
    <3>1. fit[n] \in OK /\ n + 1 \in 1 .. N /\ messages[n + 1] \in T
      BY <2>2, <1>1
    <3>2. fit[n + 1] = G(fit[n], messages[n + 1])
      <4>1. (n + 1) - 1 = n /\ n + 1 # 0 /\ n + 1 \in 0 .. N
        BY <3>1
      <4>2. D(fit)[n + 1] = G(fit[n], messages[n + 1])
        <5> HIDE DEF G, base
        <5> QED
          BY <4>1
      <4> QED
        BY <1>8, <4>2
    <3>3. ASSUME NEW v \in OK, NEW m \in T PROVE G(v, m) \in OK
      <4>1. v.in \in Seq(1 .. Len(MessageSizes[x])) /\ m \in 1 .. Len(MessageSizes[x])
        BY SeqOfSubset
      <4>2. TotalSize(x, Append(v.in, m)) = v.size + SizeOf(x, m)
        BY <4>1, TotalSizeAppend
      <4> QED
        BY <4>2, <1>2, <1>3
    <3> HIDE DEF G, OK
    <3> QED
      BY <3>1, <3>2, <3>3
  <2> HIDE DEF S
  <2>3. Nat \subseteq S
    BY <2>1, <2>2, SetInduction
  <2> QED
    BY <2>3, <1>1 DEF S
<1> QED
  BY <1>1, <1>7, <1>9

\* Pack: a packet has room for its messages; it goes past the end of the transfer
\* only with zeros, and a packet without messages ends it.
LEMMA PackFacts ==
  ASSUME NEW x \in End, NEW T \in SUBSET (1 .. Len(MessageSizes[x])), NEW messages \in Seq(T),
         NEW room \in Nat \ {0}, minPacketSize \in Nat
  PROVE  LET p == Pack(x, messages, room) IN
         /\ p.in \in Seq(T) /\ p.out \in Seq(T) /\ p.zeros \in Nat /\ p.size \in Nat \ {0}
         /\ p.size = TotalSize(x, p.in) + p.zeros
         /\ TotalSize(x, p.in) <= room
         /\ p.size <= room + AtLeast(0, minPacketSize - 1)
         /\ p.in = <<>> => p.size = room
<1> DEFINE fit == Fit(x, messages, room)
           p == Pack(x, messages, room)
<1>1. /\ fit.in \in Seq(T) /\ fit.out \in Seq(T) /\ fit.size \in Nat
      /\ fit.size = TotalSize(x, fit.in) /\ fit.size <= room
  BY FitFacts
<1>2. fit.in \in Seq(1 .. Len(MessageSizes[x]))
  <2> HIDE DEF fit
  <2> QED
    BY <1>1, SeqOfSubset
<1>3. Len(fit.in) <= fit.size
  BY <1>1, <1>2, TotalSizeFacts
<1>4. /\ p.in = fit.in /\ p.out = fit.out
      /\ p = [in |-> p.in, out |-> p.out, zeros |-> p.zeros, size |-> p.size]
      /\ fit.in = <<>> => /\ p.zeros = AtLeast(0, room - fit.size)
                          /\ p.size = AtLeast(room, fit.size)
      /\ fit.in # <<>> => /\ p.zeros = AtLeast(0, minPacketSize - fit.size)
                          /\ p.size = AtLeast(minPacketSize, fit.size)
  BY DEF Pack
<1>5. fit.in # <<>> => Len(fit.in) > 0
  BY <1>1
<1> HIDE DEF fit, p
<1>6. /\ p.zeros \in Nat /\ p.size \in Nat \ {0} /\ p.size = fit.size + p.zeros
      /\ p.size <= room + AtLeast(0, minPacketSize - 1)
      /\ fit.in = <<>> => p.size = room
  <2>1. CASE fit.in = <<>>
    BY <1>1, <1>4, <2>1 DEF AtLeast
  <2>2. CASE fit.in # <<>>
    BY <1>1, <1>3, <1>4, <1>5, <2>2 DEF AtLeast
  <2> QED
    BY <2>1, <2>2
<1> QED
  BY <1>1, <1>4, <1>6 DEF p

-----------------------------------------------------------------------------
(* What an end reads *)

\* The messages an end may be given.
Id(x) == 1 .. Len(MessageSizes[x])
\* What the model puts on the wire: see Header, FileHeader and Content.
Item == [kind : {"header"}, len : Nat] \cup [kind : {"file"}]
          \cup [kind : {"message"}, id : Nat, index : Nat] \cup [kind : {"zero"}, index : Nat]

\* What the reader of a stream knows of the transfer: who writes, whether a file
\* header is expected, whether each packet has a header with its length, where
\* the last message and the last zero end.
StreamRecord == [from : End, file : BOOLEAN, chunks : BOOLEAN, last : Nat, end : Nat]

\* Where it is: what comes next, what is left of the packet, the index of Crypt,
\* the number of messages read.
Position == [phase : {"open", "file", "data"}, rest : Nat, index : Nat, got : Nat]
Pos(phase, rest, index, got) == [phase |-> phase, rest |-> rest, index |-> index, got |-> got]

\* The header of the connection, or that of a packet; in the answers, each
\* payload has an index of its own.
TakesHeader(c, s, item, t) ==
  /\ item.kind = "header"
  /\ \/ /\ s.phase = "open"
        /\ t = Pos(IF c.file THEN "file" ELSE "data", s.rest, s.index, s.got)
     \/ /\ s.phase = "data" /\ c.chunks /\ s.rest = 0
        /\ c.from = "sender" => item.len > 0
        /\ t = Pos("data", item.len, IF c.from = "sender" THEN s.index ELSE 0, s.got)

TakesFile(c, s, item, t) ==
  /\ item.kind = "file"
  /\ s.phase = "file"
  /\ t = Pos("data", s.rest, s.index, s.got)

\* The position after a part of a packet, of some size, with so many messages.
After(c, s, size, messages) ==
  Pos(s.phase, IF c.chunks THEN s.rest - size ELSE s.rest, s.index + size, s.got + messages)

TakesPart(c, s, item, size, messages, t) ==
  /\ s.phase = "data" /\ item.index = s.index
  /\ c.chunks => size <= s.rest
  /\ t = After(c, s, size, messages)

TakesMessage(c, written, s, item, t) ==
  /\ item.kind = "message"
  /\ s.got < Len(written) /\ item.id = written[s.got + 1]
  /\ TakesPart(c, s, item, SizeOf(c.from, item.id), 1, t)
  /\ c.from = "sender" => t.index <= c.last

TakesZero(c, s, item, t) ==
  /\ item.kind = "zero"
  /\ TakesPart(c, s, item, 1, 0, t)
  /\ c.from = "sender" => t.index <= c.end

\* The reader takes item for what the writer of these messages meant, and is at
\* t then.
Takes(c, written, s, item, t) ==
  \/ TakesHeader(c, s, item, t)
  \/ TakesFile(c, s, item, t)
  \/ TakesMessage(c, written, s, item, t)
  \/ TakesZero(c, s, item, t)

\* So it reads all of w, by the positions at, from s to t.
ReadsBy(c, written, w, at, s, t) ==
  /\ at \in [0 .. Len(w) -> Position]
  /\ at[0] = s /\ at[Len(w)] = t
  /\ \A i \in 1 .. Len(w) : Takes(c, written, at[i - 1], w[i], at[i])
Reads(c, written, w, s, t) == \E at : ReadsBy(c, written, w, at, s, t)

NoHeader(w) == \A i \in 1 .. Len(w) : w[i].kind # "header"

\* No message is empty.
LEMMA SizePositive ==
  ASSUME NEW x \in End, NEW m \in Id(x)
  PROVE  SizeOf(x, m) \in Nat \ {0}
BY ConstantsAssumption DEF SizeOf, End, Id

\* Reading nothing goes nowhere.
LEMMA ReadsNothing ==
  ASSUME NEW c, NEW written, NEW s \in Position, NEW t
  PROVE  Reads(c, written, <<>>, s, t) <=> s = t
<1>1. ASSUME s = t PROVE Reads(c, written, <<>>, s, t)
  <2> DEFINE at == [i \in 0 .. 0 |-> s]
  <2>1. ReadsBy(c, written, <<>>, at, s, t)
    BY <1>1 DEF ReadsBy
  <2> QED
    BY <2>1 DEF Reads
<1>2. ASSUME Reads(c, written, <<>>, s, t) PROVE s = t
  BY <1>2 DEF Reads, ReadsBy
<1> QED
  BY <1>1, <1>2

\* Reading one item is taking it.
LEMMA ReadsOne ==
  ASSUME NEW c, NEW written, NEW s \in Position, NEW t \in Position, NEW item,
         Takes(c, written, s, item, t)
  PROVE  Reads(c, written, <<item>>, s, t)
<1> DEFINE at == [i \in 0 .. 1 |-> IF i = 0 THEN s ELSE t]
<1>1. at \in [0 .. 1 -> Position] /\ at[0] = s /\ at[1] = t
  OBVIOUS
<1>2. Len(<<item>>) = 1 /\ <<item>>[1] = item
  OBVIOUS
<1> HIDE DEF at
<1>3. \A i \in 1 .. 1 : i = 1 /\ i - 1 = 0
  OBVIOUS
<1>4. ReadsBy(c, written, <<item>>, at, s, t)
  BY <1>1, <1>2, <1>3 DEF ReadsBy
<1> QED
  BY <1>4 DEF Reads

\* What can be read begins with an item that can be taken, and the rest can be read after it.
LEMMA ReadsHead ==
  ASSUME NEW c, NEW written, NEW I, NEW w \in Seq(I), NEW s, NEW t,
         w # <<>>, Reads(c, written, w, s, t)
  PROVE  \E u \in Position : /\ Takes(c, written, s, Head(w), u)
                             /\ Reads(c, written, Tail(w), u, t)
<1>1. PICK at : ReadsBy(c, written, w, at, s, t)
  BY DEF Reads
<1> DEFINE n == Len(w)
           after == [i \in 0 .. n - 1 |-> at[i + 1]]
<1>2. /\ n \in Nat \ {0} /\ Head(w) = w[1] /\ Len(Tail(w)) = n - 1
      /\ \A i \in 1 .. n - 1 : Tail(w)[i] = w[i + 1]
  OBVIOUS
<1>3. /\ at \in [0 .. n -> Position] /\ at[0] = s /\ at[n] = t
      /\ \A i \in 1 .. n : Takes(c, written, at[i - 1], w[i], at[i])
  BY <1>1 DEF ReadsBy
<1> HIDE DEF n
<1>4. at[1] \in Position /\ Takes(c, written, at[0], w[1], at[1])
  <2>1. 1 \in 1 .. n /\ 1 - 1 = 0 /\ 1 \in 0 .. n
    BY <1>2
  <2> QED
    BY <2>1, <1>3
<1>5. /\ after \in [0 .. n - 1 -> Position] /\ after[0] = at[1] /\ after[n - 1] = t
  <2>1. \A i \in 0 .. n - 1 : i + 1 \in 0 .. n
    BY <1>2
  <2>2. 0 \in 0 .. n - 1 /\ n - 1 \in 0 .. n - 1 /\ 0 + 1 = 1 /\ (n - 1) + 1 = n
    BY <1>2
  <2> QED
    BY <1>3, <2>1, <2>2
<1>6. ASSUME NEW i \in 1 .. n - 1 PROVE Takes(c, written, after[i - 1], Tail(w)[i], after[i])
  <2>1. i + 1 \in 1 .. n /\ (i + 1) - 1 = i /\ i - 1 \in 0 .. n - 1 /\ (i - 1) + 1 = i
    BY <1>2
  <2>2. after[i - 1] = at[i] /\ after[i] = at[i + 1]
    BY <2>1
  <2>3. Takes(c, written, at[i], w[i + 1], at[i + 1])
    BY <1>3, <2>1
  <2> QED
    BY <1>2, <2>2, <2>3
<1> HIDE DEF after
<1>7. ReadsBy(c, written, Tail(w), after, at[1], t)
  BY <1>2, <1>5, <1>6 DEF ReadsBy
<1> QED
  BY <1>2, <1>3, <1>4, <1>7 DEF Reads

\* What can be read in two parts can be read in one.
LEMMA ReadsConcat ==
  ASSUME NEW c, NEW written, NEW I, NEW v \in Seq(I), NEW w \in Seq(I), NEW s, NEW u, NEW t,
         Reads(c, written, v, s, u), Reads(c, written, w, u, t)
  PROVE  Reads(c, written, v \o w, s, t)
<1>1. PICK a : ReadsBy(c, written, v, a, s, u)
  BY DEF Reads
<1>2. PICK b : ReadsBy(c, written, w, b, u, t)
  BY DEF Reads
<1> DEFINE m == Len(v)
           n == Len(w)
           at == [i \in 0 .. m + n |-> IF i <= m THEN a[i] ELSE b[i - m]]
<1>3. /\ m \in Nat /\ n \in Nat /\ Len(v \o w) = m + n
      /\ \A i \in 1 .. m + n : (v \o w)[i] = IF i <= m THEN v[i] ELSE w[i - m]
  OBVIOUS
<1>4. /\ a \in [0 .. m -> Position] /\ a[0] = s /\ a[m] = u
      /\ \A i \in 1 .. m : Takes(c, written, a[i - 1], v[i], a[i])
      /\ b \in [0 .. n -> Position] /\ b[0] = u /\ b[n] = t
      /\ \A i \in 1 .. n : Takes(c, written, b[i - 1], w[i], b[i])
  BY <1>1, <1>2 DEF ReadsBy
<1> HIDE DEF m, n
<1>5. at \in [0 .. m + n -> Position]
  <2>1. ASSUME NEW i \in 0 .. m + n PROVE (IF i <= m THEN a[i] ELSE b[i - m]) \in Position
    <3>1. CASE i <= m
      BY <1>3, <1>4, <3>1
    <3>2. CASE ~(i <= m)
      <4>1. i - m \in 0 .. n
        BY <1>3, <3>2
      <4> QED
        BY <1>4, <3>2, <4>1
    <3> QED
      BY <3>1, <3>2
  <2> QED
    BY <2>1
<1>6. at[0] = s /\ at[m + n] = t
  <2>1. 0 \in 0 .. m + n /\ m + n \in 0 .. m + n /\ 0 <= m
    BY <1>3
  <2>2. at[0] = s
    BY <1>4, <2>1
  <2>3. n = 0 => m + n = m /\ m + n <= m
    BY <1>3
  <2>4. n # 0 => ~(m + n <= m) /\ (m + n) - m = n
    BY <1>3
  <2> QED
    BY <1>4, <2>1, <2>2, <2>3, <2>4
<1>7. ASSUME NEW i \in 1 .. m + n PROVE Takes(c, written, at[i - 1], (v \o w)[i], at[i])
  <2>1. CASE i <= m
    <3>1. i \in 1 .. m /\ i - 1 <= m /\ i \in 0 .. m + n /\ i - 1 \in 0 .. m + n
      BY <1>3, <2>1
    <3>2. at[i - 1] = a[i - 1] /\ at[i] = a[i]
      BY <2>1, <3>1
    <3> QED
      BY <1>3, <1>4, <2>1, <3>1, <3>2
  <2>2. CASE ~(i <= m)
    <3>1. i - m \in 1 .. n /\ i \in 0 .. m + n /\ i - 1 \in 0 .. m + n /\ (i - 1) - m = (i - m) - 1
      BY <1>3, <2>2
    <3>2. at[i] = b[i - m]
      BY <2>2, <3>1
    <3>3. at[i - 1] = b[(i - m) - 1]
      <4>1. CASE i - 1 <= m
        <5>1. i - 1 = m /\ (i - m) - 1 = 0
          BY <1>3, <2>2, <4>1
        <5> QED
          BY <1>4, <3>1, <4>1, <5>1
      <4>2. CASE ~(i - 1 <= m)
        BY <3>1, <4>2
      <4> QED
        BY <4>1, <4>2
    <3>4. (v \o w)[i] = w[i - m]
      BY <1>3, <2>2
    <3> QED
      BY <1>4, <3>1, <3>2, <3>3, <3>4
  <2> QED
    BY <2>1, <2>2
<1> HIDE DEF at
<1>8. ReadsBy(c, written, v \o w, at, s, t)
  BY <1>3, <1>5, <1>6, <1>7 DEF ReadsBy
<1> QED
  BY <1>8 DEF Reads

\* What can be read when fewer messages were written can still be read now.
LEMMA ReadsPrefix ==
  ASSUME NEW c, NEW written, NEW I, NEW w \in Seq(I), NEW s, NEW t, NEW k \in 0 .. Len(w),
         Reads(c, written, w, s, t)
  PROVE  \E u \in Position : Reads(c, written, SubSeq(w, 1, k), s, u)
<1>1. PICK at : ReadsBy(c, written, w, at, s, t)
  BY DEF Reads
<1> DEFINE n == Len(w)
           v == SubSeq(w, 1, k)
           a == [i \in 0 .. k |-> at[i]]
<1>2. n \in Nat /\ k <= n /\ k \in Nat /\ Len(v) = k /\ \A i \in 1 .. k : v[i] = w[i]
  OBVIOUS
<1>3. /\ at \in [0 .. n -> Position] /\ at[0] = s
      /\ \A i \in 1 .. n : Takes(c, written, at[i - 1], w[i], at[i])
  BY <1>1 DEF ReadsBy
<1> HIDE DEF n, v
<1>4. a \in [0 .. k -> Position] /\ a[0] = s /\ at[k] \in Position /\ a[k] = at[k]
  BY <1>2, <1>3
<1>5. ASSUME NEW i \in 1 .. k PROVE Takes(c, written, a[i - 1], v[i], a[i])
  <2>1. i \in 1 .. n /\ i \in 0 .. k /\ i - 1 \in 0 .. k
    BY <1>2
  <2>2. a[i] = at[i] /\ a[i - 1] = at[i - 1]
    BY <2>1
  <2> QED
    BY <1>2, <1>3, <2>1, <2>2
<1> HIDE DEF a
<1>6. ReadsBy(c, written, v, a, s, at[k])
  BY <1>2, <1>4, <1>5 DEF ReadsBy
<1> QED
  BY <1>4, <1>6 DEF Reads, v

\* More messages written change nothing for what is in the stream.
LEMMA ReadsMore ==
  ASSUME NEW c, NEW I, NEW written \in Seq(I), NEW more \in Seq(I), NEW w, NEW s, NEW t,
         Reads(c, written, w, s, t), Len(w) \in Nat
  PROVE  Reads(c, written \o more, w, s, t)
<1>1. PICK at : ReadsBy(c, written, w, at, s, t)
  BY DEF Reads
<1>2. /\ Len(written) \in Nat /\ Len(written) <= Len(written \o more)
      /\ \A i \in 1 .. Len(written) : (written \o more)[i] = written[i]
      /\ Len(written \o more) \in Nat
  OBVIOUS
<1>3. ASSUME NEW a \in Position, NEW b, NEW item, Takes(c, written, a, item, b)
      PROVE  Takes(c, written \o more, a, item, b)
  <2>1. ASSUME TakesMessage(c, written, a, item, b) PROVE TakesMessage(c, written \o more, a, item, b)
    <3>1. a.got \in Nat /\ a.got < Len(written)
      BY <2>1 DEF Position, TakesMessage
    <3>2. a.got < Len(written \o more) /\ (written \o more)[a.got + 1] = written[a.got + 1]
      BY <3>1, <1>2
    <3> QED
      BY <2>1, <3>2 DEF TakesMessage
  <2> QED
    BY <1>3, <2>1 DEF Takes
<1>4. \A i \in 1 .. Len(w) : i - 1 \in 0 .. Len(w)
  OBVIOUS
<1>5. ReadsBy(c, written \o more, w, at, s, t)
  BY <1>1, <1>3, <1>4 DEF ReadsBy
<1> QED
  BY <1>5 DEF Reads

\* Sums and differences regroup.
LEMMA Regroup ==
  ASSUME NEW i \in Nat, NEW u \in Nat, NEW d \in Nat
  PROVE  i + (u + d) = (i + u) + d /\ i - (u + d) = (i - u) - d
OBVIOUS

\* The reader is further in the transfer, or in a packet that has just begun.
Further(s, t) == s.index < t.index \/ (s.index = t.index /\ s.rest < t.rest)

\* Further: an order on the positions.
LEMMA FurtherFacts ==
  ASSUME NEW r \in Position, NEW s \in Position, NEW t \in Position
  PROVE  /\ Further(r, s) => r.index <= s.index
         /\ Further(r, s) /\ Further(s, t) => Further(r, t)
<1>1. /\ r.index \in Nat /\ r.rest \in Nat /\ s.index \in Nat /\ s.rest \in Nat
      /\ t.index \in Nat /\ t.rest \in Nat
  BY DEF Position
<1> DEFINE i == r.index
           j == s.index
           k == t.index
           a == r.rest
           b == s.rest
           d == t.rest
<1> HIDE DEF i, j, k, a, b, d
<1>2. /\ i < j \/ (i = j /\ a < b) => i <= j
      /\ (i < j \/ (i = j /\ a < b)) /\ (j < k \/ (j = k /\ b < d)) => (i < k \/ (i = k /\ a < d))
  BY <1>1 DEF i, j, k, a, b, d
<1> QED
  BY <1>2 DEF Further, i, j, k, a, b, d

\* Taking an item goes forward.
LEMMA TakesForward ==
  ASSUME NEW c \in StreamRecord, c.from = "sender", NEW written \in Seq(Id("sender")),
         NEW s \in Position, NEW t \in Position, NEW item,
         s.phase = "data", Takes(c, written, s, item, t)
  PROVE  /\ t.phase = "data" /\ Further(s, t) /\ s.got <= t.got
         /\ s.index >= c.last => t.got = s.got
<1>1. CASE TakesHeader(c, s, item, t)
  <2>1. s.rest = 0 /\ item.len > 0 /\ t = Pos("data", item.len, s.index, s.got)
    BY <1>1 DEF TakesHeader, Position
  <2>2. t.rest = item.len /\ t.index = s.index /\ t.got = s.got /\ t.phase = s.phase
    BY <2>1 DEF Pos
  <2> QED
    BY <2>1, <2>2 DEF Further, Position
<1>2. CASE TakesFile(c, s, item, t)
  BY <1>2 DEF TakesFile
<1>3. CASE TakesMessage(c, written, s, item, t)
  <2>1. item.id \in Id("sender")
    BY <1>3 DEF TakesMessage, Position
  <2>2. SizeOf(c.from, item.id) \in Nat \ {0}
    BY <2>1, SizePositive DEF End
  <2>3. /\ t.index = s.index + SizeOf(c.from, item.id) /\ t.got = s.got + 1 /\ t.phase = s.phase
        /\ t.index <= c.last
    BY <1>3 DEF TakesMessage, TakesPart, After, Pos
  <2>4. s.index \in Nat /\ s.got \in Nat /\ c.last \in Nat
    BY DEF Position, StreamRecord
  <2> HIDE DEF Id
  <2> QED
    BY <2>2, <2>3, <2>4 DEF Further
<1>4. CASE TakesZero(c, s, item, t)
  <2>1. t.index = s.index + 1 /\ t.got = s.got /\ t.phase = s.phase
    BY <1>4 DEF TakesZero, TakesPart, After, Pos, Position
  <2>2. s.index \in Nat /\ s.got \in Nat
    BY DEF Position
  <2> QED
    BY <2>1, <2>2 DEF Further
<1> QED
  BY <1>1, <1>2, <1>3, <1>4 DEF Takes

\* The receiver never goes back, and gets no message past the end of the transfer.
LEMMA ReadsForward ==
  ASSUME NEW c \in StreamRecord, c.from = "sender", NEW written \in Seq(Id("sender")),
         NEW I, NEW w \in Seq(I), NEW s \in Position, NEW t,
         s.phase = "data", Reads(c, written, w, s, t)
  PROVE  /\ t \in Position /\ t.phase = "data" /\ s.index <= t.index /\ s.got <= t.got
         /\ w # <<>> => Further(s, t)
         /\ s.index >= c.last => t.got = s.got
<1>1. PICK at : ReadsBy(c, written, w, at, s, t)
  BY DEF Reads
<1> DEFINE n == Len(w)
           Good(i) == /\ at[i].phase = "data" /\ s.got <= at[i].got
                      /\ i > 0 => Further(s, at[i])
                      /\ s.index >= c.last => at[i].got = s.got
           S == {i \in Nat : i <= n => Good(i)}
<1>2. /\ n \in Nat /\ at \in [0 .. n -> Position] /\ at[0] = s /\ at[n] = t
      /\ \A i \in 1 .. n : Takes(c, written, at[i - 1], w[i], at[i])
  BY <1>1 DEF ReadsBy
<1>3. w # <<>> => n > 0
  OBVIOUS
<1> HIDE DEF n
<1>4. 0 \in S
  BY <1>2 DEF Position
<1>5. ASSUME NEW i \in Nat, i \in S PROVE i + 1 \in S
  <2> SUFFICES ASSUME i + 1 <= n PROVE Good(i + 1)
    OBVIOUS
  <2>1. i + 1 \in 1 .. n /\ i \in 0 .. n /\ i + 1 \in 0 .. n /\ (i + 1) - 1 = i /\ i <= n
    BY <1>2
  <2>2. at[i] \in Position /\ at[i + 1] \in Position /\ Takes(c, written, at[i], w[i + 1], at[i + 1])
    BY <1>2, <2>1
  <2>3. Good(i)
    BY <1>5, <2>1
  <2>4. /\ at[i + 1].phase = "data" /\ Further(at[i], at[i + 1]) /\ at[i].got <= at[i + 1].got
        /\ at[i].index >= c.last => at[i + 1].got = at[i].got
    BY <2>2, <2>3, TakesForward
  <2> DEFINE a == at[i]
             b == at[i + 1]
  <2>0. /\ s.index \in Nat /\ s.rest \in Nat /\ s.got \in Nat
        /\ a.index \in Nat /\ a.rest \in Nat /\ a.got \in Nat
        /\ b.index \in Nat /\ b.rest \in Nat /\ b.got \in Nat /\ c.last \in Nat
    BY <2>2 DEF Position, StreamRecord
  <2>9. /\ i = 0 => a = s
        /\ i > 0 => Further(s, a)
        /\ s.got <= a.got /\ (s.index >= c.last => a.got = s.got)
    BY <1>2, <2>3
  <2>10. Further(a, b) /\ a.got <= b.got /\ (a.index >= c.last => b.got = a.got)
    BY <2>4
  <2> HIDE DEF a, b
  <2>5. s.index <= a.index
    <3>1. CASE i = 0
      BY <2>0, <2>9, <3>1
    <3>2. CASE i > 0
      BY <2>2, <2>9, <3>2, FurtherFacts DEF a
    <3> QED
      BY <3>1, <3>2
  <2>6. s.got <= b.got
    BY <2>0, <2>9, <2>10
  <2>7. Further(s, b)
    <3>1. CASE i = 0
      BY <2>9, <2>10, <3>1
    <3>2. CASE i > 0
      <4>1. Further(s, a)
        BY <2>9, <3>2
      <4> QED
        BY <2>2, <2>10, <4>1, FurtherFacts DEF a, b
    <3> QED
      BY <3>1, <3>2
  <2>8. s.index >= c.last => b.got = s.got
    BY <2>0, <2>5, <2>9, <2>10
  <2> QED
    BY <2>4, <2>6, <2>7, <2>8 DEF b
<1> HIDE DEF S
<1>6. n \in S
  BY <1>2, <1>4, <1>5, SetInduction
<1>7. Good(n)
  BY <1>2, <1>6 DEF S
<1>8. n \in 0 .. n
  BY <1>2
<1>9. t \in Position
  BY <1>2, <1>8
<1>10. s.index <= t.index
  <2>1. CASE n = 0
    BY <1>2, <2>1 DEF Position
  <2>2. CASE n > 0
    BY <1>2, <1>7, <1>9, <2>2, FurtherFacts
  <2> QED
    BY <1>2, <2>1, <2>2
<1> QED
  BY <1>2, <1>3, <1>7, <1>9, <1>10

\* At the end of a packet, all that can follow is a header.
LEMMA PacketEnds ==
  ASSUME NEW c \in StreamRecord, NEW written \in Seq(Id(c.from)),
         NEW I, NEW w \in Seq(I), NEW s \in Position, NEW t,
         c.chunks, s.phase = "data", s.rest = 0, Reads(c, written, w, s, t), NoHeader(w)
  PROVE  w = <<>>
<1> SUFFICES ASSUME w # <<>> PROVE FALSE
  OBVIOUS
<1>1. PICK u \in Position : Takes(c, written, s, Head(w), u)
  BY ReadsHead
<1>2. 1 \in 1 .. Len(w) /\ Head(w) = w[1]
  OBVIOUS
<1>3. Head(w).kind # "header"
  BY <1>2 DEF NoHeader
<1>4. c.from \in End
  BY DEF StreamRecord
<1>5. CASE TakesMessage(c, written, s, Head(w), u)
  <2>1. Head(w).id \in Id(c.from)
    BY <1>5 DEF TakesMessage, Position
  <2>2. SizeOf(c.from, Head(w).id) \in Nat \ {0}
    BY <1>4, <2>1, SizePositive
  <2> QED
    BY <1>5, <2>2 DEF TakesMessage, TakesPart
<1> QED
  BY <1>1, <1>3, <1>5 DEF Takes, TakesHeader, TakesFile, TakesZero, TakesPart

\* After: the position is one of the stream, and the messages are counted.
LEMMA AfterFacts ==
  ASSUME NEW c \in StreamRecord, NEW s \in Position, NEW size \in Nat, NEW messages \in Nat,
         c.chunks => size <= s.rest
  PROVE  /\ After(c, s, size, messages) \in Position
         /\ After(c, s, 0, 0) = s
<1>1. /\ s.index + size \in Nat /\ s.got + messages \in Nat
      /\ (IF c.chunks THEN s.rest - size ELSE s.rest) \in Nat
      /\ s.phase \in {"open", "file", "data"}
  BY DEF Position
<1>2. After(c, s, size, messages) \in Position
  BY <1>1 DEF After, Pos, Position
<1>3. /\ s = [phase |-> s.phase, rest |-> s.rest, index |-> s.index, got |-> s.got]
      /\ (IF c.chunks THEN s.rest - 0 ELSE s.rest) = s.rest
      /\ s.index + 0 = s.index /\ s.got + 0 = s.got
  BY DEF Position
<1>4. After(c, s, 0, 0) = s
  BY <1>3 DEF After, Pos
<1> QED
  BY <1>2, <1>4

\* The messages of a packet are read one after the other.
LEMMA MessagesRead ==
  ASSUME NEW c \in StreamRecord, NEW written \in Seq(Id(c.from)), NEW messages \in Seq(Id(c.from)),
         NEW s \in Position, s.phase = "data",
         s.got + Len(messages) <= Len(written),
         \A i \in 1 .. Len(messages) : written[s.got + i] = messages[i],
         c.chunks => TotalSize(c.from, messages) <= s.rest,
         c.from = "sender" => s.index + TotalSize(c.from, messages) <= c.last
  PROVE  LET sum == Sums(c.from, messages)
             items == [i \in 1 .. Len(messages) |->
                         [kind |-> "message", id |-> messages[i], index |-> s.index + sum[i - 1]]]
         IN Reads(c, written, items, s, After(c, s, TotalSize(c.from, messages), Len(messages)))
<1> DEFINE x == c.from
           n == Len(messages)
           sum == Sums(x, messages)
           items == [i \in 1 .. n |->
                       [kind |-> "message", id |-> messages[i], index |-> s.index + sum[i - 1]]]
           at == [i \in 0 .. n |-> After(c, s, sum[i], i)]
<1>1. x \in End /\ n \in Nat /\ \A i \in 1 .. n : messages[i] \in Id(x)
  BY DEF StreamRecord
<1>2. /\ sum \in [0 .. n -> Nat] /\ sum[0] = 0
      /\ \A i \in 1 .. n : sum[i] = sum[i - 1] + SizeOf(x, messages[i])
      /\ \A i \in 1 .. n : SizeOf(x, messages[i]) \in Nat \ {0}
  BY <1>1, SumsFacts DEF Id
<1>3. \A i \in 0 .. n : sum[i] <= TotalSize(x, messages)
  BY <1>1, SumsGrow DEF Id
<1>4. TotalSize(x, messages) = sum[n] /\ sum[n] \in Nat
  BY <1>1, <1>2 DEF TotalSize
<1>5. Len(items) = n
  BY <1>1
<1>6. ASSUME NEW i \in 0 .. n
      PROVE  /\ After(c, s, sum[i], i) \in Position
             /\ After(c, s, sum[i], i).phase = "data"
             /\ After(c, s, sum[i], i).rest = IF c.chunks THEN s.rest - sum[i] ELSE s.rest
             /\ After(c, s, sum[i], i).index = s.index + sum[i]
             /\ After(c, s, sum[i], i).got = s.got + i
  <2> HIDE DEF sum, n, x
  <2>1. sum[i] \in Nat /\ i \in Nat /\ sum[i] <= sum[n]
    BY <1>1, <1>2, <1>3, <1>4
  <2>2. c.chunks => sum[i] <= s.rest
    <3>1. c.chunks => sum[n] <= s.rest
      BY <1>4 DEF x
    <3> QED
      BY <2>1, <3>1, <1>4 DEF Position
  <2>3. After(c, s, sum[i], i) \in Position
    BY <2>1, <2>2, AfterFacts
  <2> QED
    BY <2>3 DEF After, Pos
<1>7. at \in [0 .. n -> Position]
  BY <1>6
<1>8. After(c, s, 0, 0) = s
  <2>1. c.chunks => 0 <= s.rest
    BY DEF Position
  <2> QED
    BY <2>1, AfterFacts
<1> HIDE DEF sum, n
<1>9. ASSUME NEW i \in 1 .. n PROVE Takes(c, written, at[i - 1], items[i], at[i])
  <2> DEFINE a == After(c, s, sum[i - 1], i - 1)
             b == After(c, s, sum[i], i)
             item == [kind |-> "message", id |-> messages[i], index |-> s.index + sum[i - 1]]
  <2>1. i - 1 \in 0 .. n /\ i \in 0 .. n /\ i \in Nat
    BY <1>1
  <2>2. at[i - 1] = a /\ at[i] = b /\ items[i] = item
    BY <2>1
  <2>3. /\ a \in Position /\ a.phase = "data" /\ a.index = s.index + sum[i - 1] /\ a.got = s.got + (i - 1)
        /\ a.rest = IF c.chunks THEN s.rest - sum[i - 1] ELSE s.rest
        /\ b \in Position /\ b.phase = "data" /\ b.index = s.index + sum[i] /\ b.got = s.got + i
        /\ b.rest = IF c.chunks THEN s.rest - sum[i] ELSE s.rest
    BY <2>1, <1>6
  <2>4. /\ sum[i] = sum[i - 1] + SizeOf(x, messages[i]) /\ sum[i] <= sum[n]
        /\ sum[i] \in Nat /\ sum[i - 1] \in Nat /\ sum[n] \in Nat /\ SizeOf(x, messages[i]) \in Nat \ {0}
    BY <1>1, <1>2, <1>3, <1>4, <2>1
  <2> HIDE DEF a, b
  <2>5. a.got < Len(written) /\ written[a.got + 1] = messages[i]
    <3>1. s.got \in Nat /\ Len(written) \in Nat /\ n \in Nat
      BY <1>1 DEF Position
    <3>2. a.got + 1 = s.got + i /\ s.got + i <= Len(written)
      BY <2>1, <2>3, <3>1 DEF n
    <3> QED
      BY <2>3, <3>1, <3>2 DEF n
  <2> DEFINE size == SizeOf(x, messages[i])
  <2>0. s.index \in Nat /\ s.rest \in Nat /\ s.got \in Nat /\ c.last \in Nat
    BY DEF Position, StreamRecord
  <2> HIDE DEF size, x
  <2>6. c.chunks => size <= a.rest
    <3>1. SUFFICES ASSUME c.chunks PROVE size <= a.rest
      OBVIOUS
    <3>2. sum[n] <= s.rest
      BY <1>4, <3>1 DEF x
    <3>3. /\ sum[i] = sum[i - 1] + size /\ sum[i] <= sum[n]
          /\ sum[i] \in Nat /\ sum[i - 1] \in Nat /\ sum[n] \in Nat /\ size \in Nat
      BY <2>4 DEF size
    <3>4. a.rest = s.rest - sum[i - 1] /\ s.rest \in Nat
      BY <2>0, <2>3, <3>1
    <3> HIDE DEF item, items, at
    <3> QED
      BY <3>2, <3>3, <3>4
  <2>7. b = After(c, a, size, 1)
    <3>1. /\ sum[i] = sum[i - 1] + size /\ s.got + i = (s.got + (i - 1)) + 1
          /\ s.index + sum[i] = (s.index + sum[i - 1]) + size
          /\ s.rest - sum[i] = (s.rest - sum[i - 1]) - size
      <4>1. sum[i] = sum[i - 1] + size /\ sum[i - 1] \in Nat /\ size \in Nat
        BY <2>4 DEF size
      <4> DEFINE u == sum[i - 1]
                 v == sum[i]
      <4>2. /\ s.index + v = (s.index + u) + size
            /\ s.rest - v = (s.rest - u) - size
        <5>1. v = u + size /\ u \in Nat /\ size \in Nat
          BY <4>1
        <5> HIDE DEF u, v
        <5> QED
          BY <2>0, <5>1, Regroup
      <4> QED
        BY <2>0, <2>1, <4>1, <4>2
    <3>2. b = [phase |-> b.phase, rest |-> b.rest, index |-> b.index, got |-> b.got]
      BY DEF b, After, Pos
    <3> QED
      BY <2>3, <3>1, <3>2 DEF After, Pos
  <2>8. c.from = "sender" => b.index <= c.last
    <3>1. c.from = "sender" => s.index + sum[n] <= c.last
      BY <1>4 DEF x
    <3>2. b.index = s.index + sum[i] /\ sum[i] \in Nat /\ sum[n] \in Nat /\ sum[i] <= sum[n]
      BY <2>3, <2>4
    <3>3. s.index + sum[i] <= s.index + sum[n]
      BY <2>0, <3>2
    <3> QED
      BY <2>0, <3>1, <3>2, <3>3
  <2> USE DEF size, x
  <2>9. TakesMessage(c, written, a, item, b)
    BY <2>3, <2>5, <2>6, <2>7, <2>8 DEF TakesMessage, TakesPart
  <2> QED
    BY <2>2, <2>9 DEF Takes
<1>10. at[0] = s /\ at[n] = After(c, s, TotalSize(x, messages), n)
  BY <1>1, <1>2, <1>4, <1>8
<1> HIDE DEF at, items
<1>11. ReadsBy(c, written, items, at, s, After(c, s, TotalSize(x, messages), n))
  BY <1>5, <1>7, <1>9, <1>10 DEF ReadsBy
<1>12. Reads(c, written, items, s, After(c, s, TotalSize(x, messages), n))
  BY <1>11 DEF Reads
<1> QED
  BY <1>12 DEF items, n, sum

\* The zeros of a packet are read to its end.
LEMMA ZerosRead ==
  ASSUME NEW c \in StreamRecord, NEW written, NEW zeros \in Nat,
         NEW s \in Position, s.phase = "data",
         c.chunks => zeros <= s.rest,
         c.from = "sender" => s.index + zeros <= c.end
  PROVE  LET items == [i \in 1 .. zeros |-> [kind |-> "zero", index |-> s.index + i - 1]]
         IN Reads(c, written, items, s, After(c, s, zeros, 0))
<1> DEFINE items == [i \in 1 .. zeros |-> [kind |-> "zero", index |-> s.index + i - 1]]
           at == [i \in 0 .. zeros |-> After(c, s, i, 0)]
<1>1. Len(items) = zeros
  OBVIOUS
<1>2. ASSUME NEW i \in 0 .. zeros
      PROVE  /\ After(c, s, i, 0) \in Position
             /\ After(c, s, i, 0).phase = "data"
             /\ After(c, s, i, 0).rest = IF c.chunks THEN s.rest - i ELSE s.rest
             /\ After(c, s, i, 0).index = s.index + i
             /\ After(c, s, i, 0).got = s.got
  <2>1. i \in Nat /\ (c.chunks => i <= s.rest)
    BY DEF Position
  <2>2. After(c, s, i, 0) \in Position
    BY <2>1, AfterFacts
  <2> QED
    BY <2>2 DEF After, Pos, Position
<1>3. at \in [0 .. zeros -> Position]
  BY <1>2
<1>4. After(c, s, 0, 0) = s
  <2>1. c.chunks => 0 <= s.rest
    BY DEF Position
  <2> QED
    BY <2>1, AfterFacts
<1>5. ASSUME NEW i \in 1 .. zeros PROVE Takes(c, written, at[i - 1], items[i], at[i])
  <2> DEFINE a == After(c, s, i - 1, 0)
             b == After(c, s, i, 0)
  <2>1. i - 1 \in 0 .. zeros /\ i \in 0 .. zeros /\ i \in Nat
    OBVIOUS
  <2>2. at[i - 1] = a /\ at[i] = b /\ items[i] = [kind |-> "zero", index |-> s.index + i - 1]
    BY <2>1
  <2>3. /\ a \in Position /\ a.phase = "data" /\ a.index = s.index + (i - 1) /\ a.got = s.got
        /\ a.rest = IF c.chunks THEN s.rest - (i - 1) ELSE s.rest
        /\ b \in Position /\ b.phase = "data" /\ b.index = s.index + i /\ b.got = s.got
        /\ b.rest = IF c.chunks THEN s.rest - i ELSE s.rest
    BY <2>1, <1>2
  <2> HIDE DEF a, b
  <2>4. c.chunks => 1 <= a.rest
    BY <2>1, <2>3 DEF Position
  <2>0. s.index \in Nat /\ s.rest \in Nat /\ s.got \in Nat /\ c.end \in Nat
    BY DEF Position, StreamRecord
  <2>5. b = After(c, a, 1, 0)
    <3>1. /\ s.got = s.got + 0 /\ s.index + i = (s.index + (i - 1)) + 1
          /\ s.rest - i = (s.rest - (i - 1)) - 1
      BY <2>0, <2>1
    <3>2. b = [phase |-> b.phase, rest |-> b.rest, index |-> b.index, got |-> b.got]
      BY DEF b, After, Pos
    <3> QED
      BY <2>3, <3>1, <3>2 DEF After, Pos
  <2>6. c.from = "sender" => b.index <= c.end
    BY <2>0, <2>1, <2>3
  <2>7. s.index + i - 1 = a.index
    BY <2>1, <2>3 DEF Position
  <2>8. TakesZero(c, a, [kind |-> "zero", index |-> s.index + i - 1], b)
    BY <2>3, <2>4, <2>5, <2>6, <2>7 DEF TakesZero, TakesPart
  <2> QED
    BY <2>2, <2>8 DEF Takes
<1>6. at[0] = s /\ at[zeros] = After(c, s, zeros, 0)
  BY <1>4
<1> HIDE DEF at, items
<1>7. ReadsBy(c, written, items, at, s, After(c, s, zeros, 0))
  BY <1>1, <1>3, <1>5, <1>6 DEF ReadsBy
<1>8. Reads(c, written, items, s, After(c, s, zeros, 0))
  BY <1>7 DEF Reads
<1> QED
  BY <1>8 DEF items

\* Content: the items of a packet, each of its kind.
LEMMA ContentFacts ==
  ASSUME NEW x \in End, NEW messages \in Seq(Id(x)), NEW zeros \in Nat, NEW index \in Nat
  PROVE  /\ Content(x, messages, zeros, index) \in Seq(Item)
         /\ NoHeader(Content(x, messages, zeros, index))
<1> DEFINE sum == Sums(x, messages)
           n == Len(messages)
           m == [i \in 1 .. n |-> [kind |-> "message", id |-> messages[i], index |-> index + sum[i - 1]]]
           z == [i \in 1 .. zeros |-> [kind |-> "zero", index |-> index + sum[n] + i - 1]]
<1>1. n \in Nat /\ \A i \in 1 .. n : messages[i] \in Nat
  BY DEF Id
<1>2. sum \in [0 .. n -> Nat]
  BY SumsFacts DEF Id
<1> HIDE DEF sum
<1>3. \A i \in 1 .. n : sum[i - 1] \in Nat
  BY <1>1, <1>2
<1>4. sum[n] \in Nat
  BY <1>1, <1>2
<1> HIDE DEF n
<1>5. m \in Seq(Item)
  <2> DEFINE item(i) == [kind |-> "message", id |-> messages[i], index |-> index + sum[i - 1]]
  <2>1. ASSUME NEW i \in 1 .. n PROVE item(i) \in Item
    <3>1. messages[i] \in Nat /\ index + sum[i - 1] \in Nat
      BY <1>1, <1>3
    <3> QED
      BY <3>1 DEF Item
  <2>2. m = [i \in 1 .. n |-> item(i)] /\ n \in Nat
    BY <1>1
  <2> HIDE DEF item, n, m
  <2> QED
    BY <2>1, <2>2
<1>6. z \in Seq(Item)
  <2>1. ASSUME NEW i \in 1 .. zeros
        PROVE  [kind |-> "zero", index |-> index + sum[n] + i - 1] \in Item
    <3>1. index + sum[n] + i - 1 \in Nat
      BY <1>4
    <3> QED
      BY <3>1 DEF Item
  <2> QED
    BY <2>1
<1>7. Content(x, messages, zeros, index) = m \o z
  BY DEF Content, sum, n
<1>8. Len(m) = n /\ \A i \in 1 .. n : m[i].kind = "message"
  BY <1>1
<1>9. Len(z) = zeros /\ \A i \in 1 .. zeros : z[i].kind = "zero"
  OBVIOUS
<1> HIDE DEF m, z
<1>10. \A i \in 1 .. Len(m \o z) : (m \o z)[i].kind # "header"
  <2>1. /\ Len(m \o z) = n + zeros
        /\ \A i \in 1 .. n + zeros : (m \o z)[i] = IF i <= n THEN m[i] ELSE z[i - n]
    <3> DEFINE N == n
    <3>1. m \in Seq(Item) /\ z \in Seq(Item) /\ Len(m) = N /\ Len(z) = zeros
      BY <1>5, <1>6, <1>8, <1>9
    <3> HIDE DEF N
    <3> QED
      BY <3>1, ConcatProperties DEF N
  <2>2. \A i \in 1 .. n + zeros : i <= n => i \in 1 .. n
    BY <1>1
  <2>3. \A i \in 1 .. n + zeros : ~(i <= n) => i - n \in 1 .. zeros
    BY <1>1
  <2> QED
    BY <1>8, <1>9, <2>1, <2>2, <2>3
<1>11. m \o z \in Seq(Item)
  BY <1>5, <1>6
<1> QED
  BY <1>7, <1>10, <1>11 DEF NoHeader

\* The content of a packet can be read where its header says.
LEMMA ContentRead ==
  ASSUME NEW c \in StreamRecord, NEW written \in Seq(Id(c.from)), NEW messages \in Seq(Id(c.from)),
         NEW zeros \in Nat, NEW s \in Position, s.phase = "data",
         s.got + Len(messages) <= Len(written),
         \A i \in 1 .. Len(messages) : written[s.got + i] = messages[i],
         c.chunks => TotalSize(c.from, messages) + zeros <= s.rest,
         c.from = "sender" => /\ s.index + TotalSize(c.from, messages) <= c.last
                              /\ s.index + TotalSize(c.from, messages) + zeros <= c.end
  PROVE  Reads(c, written, Content(c.from, messages, zeros, s.index), s,
               After(c, s, TotalSize(c.from, messages) + zeros, Len(messages)))
<1> DEFINE x == c.from
           sum == Sums(x, messages)
           n == Len(messages)
           size == TotalSize(x, messages)
           u == After(c, s, size, n)
           t == After(c, s, size + zeros, n)
           m == [i \in 1 .. n |-> [kind |-> "message", id |-> messages[i], index |-> s.index + sum[i - 1]]]
           z == [i \in 1 .. zeros |-> [kind |-> "zero", index |-> u.index + i - 1]]
<1>1. x \in End /\ n \in Nat
  BY DEF StreamRecord
<1>2. size \in Nat /\ size = sum[n]
  BY <1>1, TotalSizeFacts DEF TotalSize, Id
<1>3. s.index \in Nat /\ s.rest \in Nat /\ s.got \in Nat /\ c.last \in Nat /\ c.end \in Nat
  BY DEF Position, StreamRecord
<1>4. c.chunks => size + zeros <= s.rest
  OBVIOUS
<1>5. c.from = "sender" => s.index + size <= c.last /\ s.index + size + zeros <= c.end
  OBVIOUS
<1>6. Reads(c, written, m, s, u)
  <2>1. c.chunks => size <= s.rest
    BY <1>2, <1>3, <1>4
  <2> QED
    BY <2>1, <1>5, MessagesRead
<1> HIDE DEF size, n
<1>7. /\ u \in Position /\ u.phase = "data" /\ u.index = s.index + size /\ u.got = s.got + n
      /\ u.rest = IF c.chunks THEN s.rest - size ELSE s.rest
  <2>1. c.chunks => size <= s.rest
    BY <1>2, <1>3, <1>4
  <2>2. u \in Position
    BY <1>1, <1>2, <2>1, AfterFacts
  <2> QED
    BY <2>2 DEF After, Pos
<1>8. After(c, u, zeros, 0) = t
  <2>1. /\ s.rest - (size + zeros) = (s.rest - size) - zeros
        /\ s.index + (size + zeros) = (s.index + size) + zeros
        /\ s.got + n = (s.got + n) + 0
    <3>1. s.rest - (size + zeros) = (s.rest - size) - zeros
      BY <1>2, <1>3, Regroup
    <3>2. s.index + (size + zeros) = (s.index + size) + zeros
      BY <1>2, <1>3, Regroup
    <3>3. s.got + n = (s.got + n) + 0
      BY <1>1, <1>3
    <3> QED
      BY <3>1, <3>2, <3>3
  <2>2. /\ u.index + zeros = s.index + (size + zeros) /\ u.got + 0 = s.got + n
        /\ c.chunks => u.rest - zeros = s.rest - (size + zeros)
        /\ ~c.chunks => u.rest = s.rest
    BY <1>7, <2>1
  <2> HIDE DEF u
  <2> QED
    BY <2>2, <1>7 DEF After, Pos
<1> HIDE DEF u
<1>9. Reads(c, written, z, u, t)
  <2>1. c.chunks => zeros <= u.rest
    BY <1>2, <1>3, <1>4, <1>7
  <2>2. c.from = "sender" => u.index + zeros <= c.end
    BY <1>2, <1>3, <1>5, <1>7
  <2> HIDE DEF t
  <2> QED
    BY <1>7, <1>8, <2>1, <2>2, ZerosRead
<1>10. Content(x, messages, zeros, s.index) = m \o z
  BY <1>2, <1>7 DEF Content, n, size
<1>11. m \in Seq(Item) /\ z \in Seq(Item)
  <2>1. /\ sum \in [0 .. n -> Nat] /\ \A i \in 1 .. n : messages[i] \in Nat
    BY <1>1, SumsFacts DEF Id, n
  <2> HIDE DEF sum
  <2>2. ASSUME NEW i \in 1 .. n
        PROVE  [kind |-> "message", id |-> messages[i], index |-> s.index + sum[i - 1]] \in Item
    <3>1. sum[i - 1] \in Nat
      BY <1>1, <2>1
    <3>2. messages[i] \in Nat /\ s.index + sum[i - 1] \in Nat
      BY <1>3, <2>1, <3>1
    <3> QED
      BY <3>2 DEF Item
  <2>3. m \in Seq(Item)
    BY <1>1, <2>2
  <2>4. ASSUME NEW i \in 1 .. zeros PROVE [kind |-> "zero", index |-> u.index + i - 1] \in Item
    <3>1. u.index + i - 1 \in Nat
      BY <1>7 DEF Position
    <3> QED
      BY <3>1 DEF Item
  <2>5. z \in Seq(Item)
    BY <2>4
  <2> QED
    BY <2>3, <2>5
<1> HIDE DEF m, z, t
<1>12. Reads(c, written, m \o z, s, t)
  BY <1>6, <1>9, <1>11, ReadsConcat
<1> QED
  BY <1>10, <1>12 DEF t, n, size, x

\* A packet, or an answer: its header, where there is one, and its content.
LEMMA PacketRead ==
  ASSUME NEW c \in StreamRecord, NEW written \in Seq(Id(c.from)), NEW messages \in Seq(Id(c.from)),
         NEW zeros \in Nat, NEW t \in Position, t.phase = "data", t.rest = 0, t.got = Len(written),
         NEW size, size = TotalSize(c.from, messages) + zeros,
         c.from = "sender" => /\ size > 0
                              /\ t.index + TotalSize(c.from, messages) <= c.last
                              /\ t.index + size <= c.end
  PROVE  LET items == (IF c.chunks THEN <<Header(size)>> ELSE <<>>)
                        \o Content(c.from, messages, zeros, IF c.chunks /\ c.from # "sender" THEN 0 ELSE t.index)
         IN /\ items \in Seq(Item)
            /\ \E u \in Position :
                 /\ Reads(c, written \o messages, items, t, u)
                 /\ u.phase = "data" /\ u.rest = 0 /\ u.got = Len(written \o messages)
                 /\ c.from = "sender" => u.index = t.index + size
<1> DEFINE x == c.from
           index == IF c.chunks /\ c.from # "sender" THEN 0 ELSE t.index
           s == IF c.chunks THEN Pos("data", size, index, t.got) ELSE t
           all == written \o messages
           head == IF c.chunks THEN <<Header(size)>> ELSE <<>>
           content == Content(x, messages, zeros, index)
           u == After(c, s, size, Len(messages))
<1>1. x \in End /\ c.last \in Nat /\ c.end \in Nat /\ c.chunks \in BOOLEAN
  BY DEF StreamRecord
<1>2. TotalSize(x, messages) \in Nat /\ Len(messages) \in Nat /\ size \in Nat
  BY <1>1, TotalSizeFacts DEF Id
<1>3. t.index \in Nat /\ t.got \in Nat /\ t = [phase |-> t.phase, rest |-> t.rest, index |-> t.index, got |-> t.got]
  BY DEF Position
<1>4. index \in Nat
  BY <1>3
<1>5. /\ s \in Position /\ s.phase = "data" /\ s.index = index /\ s.got = t.got
      /\ s.rest = IF c.chunks THEN size ELSE 0
  <2>1. ~c.chunks => index = t.index
    OBVIOUS
  <2> HIDE DEF index
  <2>2. CASE c.chunks
    BY <1>2, <1>3, <1>4, <2>2 DEF Position, Pos
  <2>3. CASE ~c.chunks
    BY <2>1, <2>3
  <2> QED
    BY <2>2, <2>3
<1>6. /\ all \in Seq(Id(c.from)) /\ t.got + Len(messages) = Len(all)
      /\ \A i \in 1 .. Len(messages) : all[t.got + i] = messages[i]
  OBVIOUS
<1>7. content \in Seq(Item)
  BY <1>1, <1>4, ContentFacts
<1>8. head \in Seq(Item) /\ Header(size) \in Item
  <2>1. Header(size) \in Item
    BY <1>2 DEF Item, Header
  <2> QED
    BY <2>1
<1>9. Reads(c, all, head, t, s)
  <2>1. CASE c.chunks
    <3>1. c.from # "sender" => index = 0
      BY <2>1
    <3>2. c.from = "sender" => index = t.index
      OBVIOUS
    <3>3. s = Pos("data", size, IF c.from = "sender" THEN t.index ELSE 0, t.got)
      BY <2>1, <3>1, <3>2
    <3>4. Header(size).kind = "header" /\ Header(size).len = size
      BY DEF Header
    <3>5. TakesHeader(c, t, Header(size), s)
      <4> HIDE DEF s
      <4> QED
        BY <2>1, <3>3, <3>4 DEF TakesHeader
    <3>6. Reads(c, all, <<Header(size)>>, t, s)
      <4> HIDE DEF s, all
      <4> QED
        BY <1>5, <3>5, ReadsOne DEF Takes
    <3> QED
      BY <2>1, <3>6
  <2>2. CASE ~c.chunks
    <3>1. Reads(c, all, <<>>, t, t)
      BY ReadsNothing
    <3> QED
      BY <2>2, <3>1
  <2> QED
    BY <2>1, <2>2
<1>10. Reads(c, all, content, s, u)
  <2>1. c.chunks => TotalSize(x, messages) + zeros <= s.rest
    BY <1>2, <1>5
  <2>2. c.from = "sender" => /\ s.index + TotalSize(c.from, messages) <= c.last
                             /\ s.index + TotalSize(c.from, messages) + zeros <= c.end
    BY <1>2, <1>3, <1>5
  <2>3. s.got + Len(messages) <= Len(all) /\ \A i \in 1 .. Len(messages) : all[s.got + i] = messages[i]
    <3> HIDE DEF s, all, index
    <3> QED
      BY <1>5, <1>6
  <2> HIDE DEF s, all, index
  <2>4. Reads(c, all, Content(c.from, messages, zeros, s.index), s,
              After(c, s, TotalSize(c.from, messages) + zeros, Len(messages)))
    BY <1>5, <1>6, <2>1, <2>2, <2>3, ContentRead
  <2> QED
    BY <1>5, <2>4
<1>11. Reads(c, all, head \o content, t, u)
  <2> HIDE DEF s, all, head, content, u
  <2> QED
    BY <1>7, <1>8, <1>9, <1>10, ReadsConcat
<1>12. u \in Position /\ u.phase = "data" /\ u.rest = 0 /\ u.got = Len(all) /\ u.index = index + size
  <2>1. c.chunks => size <= s.rest
    BY <1>2, <1>5
  <2>2. s.rest = IF c.chunks THEN size ELSE 0
    BY <1>5
  <2> HIDE DEF s, index
  <2>3. u \in Position
    BY <1>2, <1>5, <2>1, AfterFacts
  <2>4. size - size = 0
    BY <1>2
  <2> QED
    BY <1>5, <1>6, <2>2, <2>3, <2>4 DEF After, Pos
<1>13. c.from = "sender" => u.index = t.index + size
  BY <1>12
<1>14. head \o content \in Seq(Item)
  BY <1>7, <1>8
<1> HIDE DEF u, content, head, all
<1> QED
  BY <1>11, <1>12, <1>13, <1>14 DEF content, head, all

-----------------------------------------------------------------------------
(* The invariant *)

\* The mode, which both ends have (ModesAgree), and what it means for this
\* transfer: packets with headers, answered packets, one file.
TheMode == end["sender"].mode
InPackets == Chunked(TheMode)
WithAnswers == Answered(TheMode)
IsFile == OneFile(TheMode)
HasFile == IsFile /\ fileHeaderSize > 0
\* The stream to the receiver begins with the header of the connection.
Opens == outgoing \/ IsFile

\* Where the loops of the two ends end, and where the last zero does.
SenderMax == IF tunnel = "TCP" /\ outgoing THEN MaxTransferSize
             ELSE IF IsFile THEN FileRest ELSE transferSize
ReceiverMax == IF IsFile THEN FileRest ELSE transferSize
CountMax == SenderMax + AtLeast(0, minPacketSize - 1)

ModeRecord == [Mode : {"None", "Normal", "Bombard"}, get : BOOLEAN, getPayload : BOOLEAN,
               post : BOOLEAN, reply : BOOLEAN, replyPayload : BOOLEAN]
Pc == {"start", "sending", "reply", "payload", "last", "getReply", "file", "receiving", "body",
       "answer", "done", "failed"}
EndRecord == [pc : Pc, mode : ModeRecord, max : Nat, count : Nat, left : Nat,
              all : BOOLEAN, offset : Nat]

\* The types of the variables.
Types ==
  /\ outgoing \in BOOLEAN /\ tunnel \in {"TCP", "HTTP"} /\ broken \in BOOLEAN
  /\ minPacketSize \in MinPacketSizes /\ fileHeaderSize \in FileHeaderSizes
  /\ transferSize \in fileHeaderSize + 1 .. MaxTransferSize
  /\ end \in [End -> EndRecord] /\ wire \in [End -> Seq(Item)]
  /\ Messages \in [End -> Seq(Nat)] /\ sent \in [End -> Seq(Nat)] /\ received \in [End -> Seq(Nat)]
  /\ produced \in [End -> Nat]

\* Every message in a list is one the end was given.
Given(x) ==
  /\ produced[x] <= Len(MessageSizes[x])
  /\ Messages[x] \in Seq(1 .. produced[x])
  /\ sent[x] \in Seq(1 .. produced[x])

\* Both ends have the mode the client chose; over TCP without headers or answers.
ModesAgree ==
  /\ end["receiver"].mode = TheMode /\ ServerMode(TheMode) = TheMode
  /\ tunnel = "TCP" => ~InPackets /\ ~WithAnswers

\* The sender: where it is and how far it has counted.
SenderInv ==
  LET e == end["sender"] IN
  /\ e.pc \in {"start", "sending", "reply", "payload", "last", "done", "failed"}
  /\ e.pc = "start" => e.count = 0 /\ e.offset = 0 /\ sent["sender"] = <<>>
  /\ e.pc \notin {"start", "failed"} => e.max = SenderMax
  /\ e.pc \in {"sending", "reply", "payload"} => e.count < SenderMax
  /\ e.pc \in {"reply", "payload"} => tunnel = "HTTP" /\ ~IsFile
  /\ e.pc = "payload" => e.left > 0
  /\ e.pc = "last" => outgoing /\ IsFile
  /\ e.pc \in {"last", "done"} => e.count >= SenderMax \/ Ended("receiver")
  /\ e.count = 0 \/ e.max = SenderMax
  /\ e.max <= SenderMax /\ e.count <= CountMax

\* The receiver: where it is and how far it has counted.
ReceiverInv ==
  LET e == end["receiver"] IN
  /\ e.pc \in {"start", "getReply", "file", "receiving", "body", "answer", "done", "failed"}
  /\ e.pc \in {"start", "getReply", "file"} => e.count = 0
  /\ e.pc = "getReply" => ~outgoing /\ IsFile
  /\ e.pc = "file" => HasFile
  /\ e.pc \in {"file", "receiving", "body", "answer", "done"} => e.max = ReceiverMax
  /\ e.pc = "body" => /\ e.left > 0
                      /\ e.all = InPackets
                      /\ InPackets \/ e.left = ReceiverMax - e.count
  /\ e.pc = "answer" => WithAnswers /\ e.count < ReceiverMax
  /\ e.pc = "done" => e.count >= ReceiverMax
  /\ e.count = 0 \/ e.max = ReceiverMax
  /\ e.max <= transferSize /\ e.count <= CountMax

\* Before the server has read the request.
OpeningInv ==
  LET s == end["sender"].pc r == end["receiver"].pc IN
  /\ outgoing /\ r = "start" => wire["sender"] = <<>>
  /\ outgoing /\ s = "start" => r \in {"start", "failed"} /\ wire["receiver"] = <<>>
  /\ ~outgoing /\ r = "start" => s \in {"start", "failed"} /\ wire["sender"] = <<>>
  /\ ~outgoing /\ s = "start" =>
       /\ wire["receiver"] = <<>> /\ end["receiver"].count = 0
       /\ r = "start" \/ wire["sender"] = <<Header(0)>>
       /\ r \in {"start", "failed"} \/ r = (IF IsFile THEN "getReply" ELSE "receiving")
            \/ (r = "body" /\ ~InPackets)

\* What arrives is a prefix of what the other end sent; no answers unless the mode has them.
OrderInv ==
  /\ \A x \in End : IsPrefix(received[Peer(x)], sent[x])
  /\ ~WithAnswers => sent["receiver"] = <<>>

\* The stream each end reads.
Stream(x) == [from |-> Peer(x), file |-> HasFile, chunks |-> (x = "sender" \/ InPackets),
              last |-> SenderMax, end |-> CountMax]

\* Where each end is in it.
SenderAt ==
  LET e == end["sender"] IN
  Pos("data", IF e.pc = "payload" THEN e.left ELSE 0, e.offset, Len(received["sender"]))
ReceiverAt ==
  LET e == end["receiver"] IN
  Pos(IF e.pc \in {"start", "getReply"} THEN (IF Opens THEN "open" ELSE "data")
      ELSE IF e.pc = "file" THEN "file" ELSE "data",
      IF e.pc = "body" /\ InPackets THEN e.left ELSE 0, e.count, Len(received["receiver"]))
At(x) == IF x = "sender" THEN SenderAt ELSE ReceiverAt

\* The position after everything the other end wrote.
AtEnd(x, t) ==
  /\ t.phase = (IF x = "receiver" /\ end["sender"].pc = "start" /\ Opens THEN "open" ELSE "data")
  /\ t.rest = 0 /\ t.got = Len(sent[Peer(x)])
  /\ x = "receiver" => t.index = end["sender"].count

\* The connection failed, or this end closed its socket with unread data.
Resets(x) == broken \/ wire[x] # <<>>

\* An end that has not finished can read what it has got; and that is all the
\* other end wrote, unless a write failed or the connection was reset.
Linked(x) ==
  ~Ended(x) =>
    \E t \in Position :
      /\ Reads(Stream(x), sent[Peer(x)], wire[x], At(x), t)
      /\ \/ end[Peer(x)].pc = "failed"
         \/ wire[x] = <<>> /\ Resets(Peer(x)) /\ Ended(Peer(x))
         \/ AtEnd(x, t)

\* A sender that waits for an answer will get it.
ReplyInv ==
  end["sender"].pc = "reply" /\ ~Ended("receiver") =>
    \/ wire["sender"] # <<>>
    \/ end["receiver"].pc \in {"start", "answer"}
    \/ WithAnswers /\ InPackets /\ end["receiver"].count < end["sender"].count
    \/ WithAnswers /\ ~InPackets /\ Len(received["receiver"]) < Len(sent["sender"])

\* The receiver has read all packets, and waits for the next.
Caught ==
  /\ end["receiver"].pc = "receiving" /\ wire["receiver"] = <<>>
  /\ end["receiver"].count = end["sender"].count

\* Packets and answers take turns.
TurnsInv ==
  WithAnswers /\ InPackets /\ ~Ended("receiver") =>
    LET pc == end["sender"].pc r == end["receiver"].pc IN
    /\ pc = "sending" => wire["sender"] = <<>> /\ Caught
    /\ pc = "payload" => NoHeader(wire["sender"]) /\ Caught
    /\ pc = "reply" /\ wire["sender"] # <<>> => NoHeader(Tail(wire["sender"])) /\ Caught
    /\ pc \in {"reply", "done"} =>
         /\ r = "receiving" /\ wire["receiver"] # <<>> => NoHeader(Tail(wire["receiver"]))
         /\ r = "body" => NoHeader(wire["receiver"])
         /\ r = "answer" => /\ wire["receiver"] = <<>> /\ pc = "reply"
                            /\ end["receiver"].count = end["sender"].count
         /\ r = "start" => wire["receiver"] = <<Header(0)>> /\ end["sender"].count = 0

\* The connection did not fail, in a mode with as many answers as packets.
Sound == tunnel = "HTTP" /\ ~broken /\ OneAnswerEach(TheMode)

\* An end that is done has got everything.
DoneInv ==
  Sound =>
    /\ end["receiver"].pc = "done" /\ end["sender"].pc # "failed" =>
         /\ end["sender"].pc \in {"last", "done"} /\ end["sender"].count >= SenderMax
         /\ Len(received["receiver"]) = Len(sent["sender"])
         /\ end["sender"].pc = "last" => wire["sender"] # <<>> \/ wire["receiver"] # <<>>
    /\ end["sender"].pc = "done" /\ end["receiver"].pc # "failed" /\ WithAnswers /\ InPackets =>
         Len(received["sender"]) = Len(sent["receiver"])

\* Without answers, the sender has at most one header to read: the request of a
\* GET, the acceptance of a POST, or the answer after a normal POST.
OneHeaderInv ==
  ~WithAnswers =>
    /\ wire["sender"] \in {<<>>, <<Header(0)>>}
    /\ wire["sender"] # <<>> => end["sender"].pc \in {"start", "reply", "last"}
    /\ outgoing /\ IsFile /\ end["receiver"].pc # "done" => wire["sender"] = <<>>
    /\ outgoing /\ ~IsFile /\ end["receiver"].pc = "start" => end["sender"].pc \in {"start", "reply"}

\* What is unread when an end closes: nothing for the sender, who reads an answer
\* before it goes on; for the receiver, the padding of a last packet that was
\* longer than announced.
UnreadInv ==
  Sound =>
    /\ OneHeaderInv
    /\ Ended("sender") => wire["sender"] = <<>>
    /\ end["receiver"].pc = "done" /\ wire["receiver"] # <<>> =>
         end["sender"].pc = "done" \/ end["sender"].count > SenderMax

\* The inductive invariant.
TransferInv ==
  /\ Types /\ ModesAgree /\ SenderInv /\ ReceiverInv /\ OpeningInv /\ OrderInv
  /\ \A x \in End : Given(x) /\ Linked(x)
  /\ ReplyInv /\ TurnsInv /\ DoneInv /\ UnreadInv /\ FailsOnlyWhenBroken

\* The two ends are each other's peers.
LEMMA Ends ==
  /\ End = {"sender", "receiver"}
  /\ Peer("sender") = "receiver" /\ Peer("receiver") = "sender"
  /\ \A x \in End : Peer(x) \in End /\ Peer(Peer(x)) = x
BY DEF End, Peer

\* The fields of an end.
LEMMA EndTypes ==
  ASSUME Types, NEW x \in End
  PROVE  /\ end[x].pc \in Pc /\ end[x].mode \in ModeRecord /\ end[x].all \in BOOLEAN
         /\ end[x].max \in Nat /\ end[x].count \in Nat /\ end[x].left \in Nat
         /\ end[x].offset \in Nat
BY DEF Types, EndRecord

\* The sizes at which the loops of the ends stop.
LEMMA Bounds ==
  ASSUME Types
  PROVE  /\ transferSize \in Nat \ {0} /\ fileHeaderSize \in Nat /\ minPacketSize \in Nat
         /\ SenderMax \in Nat \ {0} /\ ReceiverMax \in Nat \ {0} /\ CountMax \in Nat
         /\ ReceiverMax <= transferSize /\ ReceiverMax <= SenderMax
         /\ SenderMax <= MaxTransferSize /\ transferSize <= MaxTransferSize
         /\ CountMax = SenderMax + AtLeast(0, minPacketSize - 1)
         /\ AtLeast(0, minPacketSize - 1) \in Nat
         /\ tunnel = "HTTP" => ReceiverMax = SenderMax
<1>1. /\ MaxTransferSize \in Nat \ {0} /\ fileHeaderSize \in 0 .. MaxTransferSize - 1
      /\ minPacketSize \in Nat /\ transferSize \in fileHeaderSize + 1 .. MaxTransferSize
  BY ConstantsAssumption DEF Types
<1>2. /\ fileHeaderSize \in Nat /\ transferSize \in Nat \ {0} /\ transferSize <= MaxTransferSize
      /\ FileRest \in Nat \ {0} /\ FileRest <= transferSize
  BY <1>1 DEF FileRest
<1>3. AtLeast(0, minPacketSize - 1) \in Nat
  BY <1>1 DEF AtLeast
<1>4. /\ ReceiverMax \in Nat \ {0} /\ ReceiverMax <= transferSize
  BY <1>2 DEF ReceiverMax
<1>5. /\ SenderMax \in Nat \ {0} /\ SenderMax <= MaxTransferSize
  BY <1>1, <1>2 DEF SenderMax
<1>6. tunnel = "HTTP" => ReceiverMax = SenderMax
  BY DEF ReceiverMax, SenderMax
<1>7. ReceiverMax <= SenderMax
  BY <1>1, <1>2, <1>4, <1>5 DEF ReceiverMax, SenderMax
<1> QED
  BY <1>1, <1>2, <1>3, <1>4, <1>5, <1>6, <1>7 DEF CountMax

\* Stream: its fields.
LEMMA StreamTypes ==
  ASSUME Types, NEW x \in End
  PROVE  /\ Stream(x) \in StreamRecord
         /\ Stream(x).from = Peer(x) /\ Stream(x).file = HasFile
         /\ Stream(x).chunks = (x = "sender" \/ InPackets)
         /\ Stream(x).last = SenderMax /\ Stream(x).end = CountMax
<1>1. TheMode \in ModeRecord
  BY Ends DEF Types, EndRecord, TheMode
<1>2. InPackets \in BOOLEAN
  BY <1>1 DEF InPackets, Chunked, ModeRecord
<1>3. HasFile \in BOOLEAN
  BY DEF HasFile
<1>4. (x = "sender" \/ InPackets) \in BOOLEAN
  BY <1>2
<1> QED
  BY <1>3, <1>4, Ends, Bounds DEF Stream, StreamRecord

\* What a transfer does not change.
LEMMA Frame ==
  ASSUME UNCHANGED choices, TheMode' = TheMode
  PROVE  /\ InPackets' = InPackets /\ WithAnswers' = WithAnswers /\ IsFile' = IsFile
         /\ HasFile' = HasFile /\ Opens' = Opens
         /\ SenderMax' = SenderMax /\ ReceiverMax' = ReceiverMax /\ CountMax' = CountMax
         /\ FileRest' = FileRest
         /\ outgoing' = outgoing /\ tunnel' = tunnel /\ minPacketSize' = minPacketSize
         /\ fileHeaderSize' = fileHeaderSize /\ transferSize' = transferSize
         /\ OneAnswerEach(TheMode)' = OneAnswerEach(TheMode)
         /\ \A x \in End : Stream(x)' = Stream(x)
<1>1. /\ outgoing' = outgoing /\ tunnel' = tunnel /\ minPacketSize' = minPacketSize
      /\ fileHeaderSize' = fileHeaderSize /\ transferSize' = transferSize
  BY DEF choices
<1>2. InPackets' = InPackets /\ WithAnswers' = WithAnswers
  BY <1>1 DEF InPackets, WithAnswers, Chunked, Answered
<1>3. IsFile' = IsFile
  BY <1>1 DEF IsFile, OneFile, Chunked, Answered
<1>4. HasFile' = HasFile /\ Opens' = Opens /\ FileRest' = FileRest
  BY <1>1, <1>3 DEF HasFile, Opens, FileRest
<1>5. SenderMax' = SenderMax /\ ReceiverMax' = ReceiverMax
  BY <1>1, <1>3, <1>4 DEF SenderMax, ReceiverMax
<1>6. CountMax' = CountMax
  BY <1>1, <1>5 DEF CountMax
<1>7. OneAnswerEach(TheMode)' = OneAnswerEach(TheMode)
  BY <1>1 DEF OneAnswerEach
<1>8. \A x \in End : Stream(x)' = Stream(x)
  BY <1>2, <1>4, <1>5, <1>6 DEF Stream
<1> QED
  BY <1>1, <1>2, <1>3, <1>4, <1>5, <1>6, <1>7, <1>8

\* At: its fields.
LEMMA AtTypes ==
  ASSUME Types, NEW x \in End
  PROVE  /\ At(x) \in Position
         /\ x = "sender" =>
              /\ At(x).phase = "data"
              /\ At(x).rest = (IF end["sender"].pc = "payload" THEN end["sender"].left ELSE 0)
              /\ At(x).index = end["sender"].offset /\ At(x).got = Len(received["sender"])
         /\ x = "receiver" =>
              /\ At(x).phase = (IF end["receiver"].pc \in {"start", "getReply"}
                                THEN (IF Opens THEN "open" ELSE "data")
                                ELSE IF end["receiver"].pc = "file" THEN "file" ELSE "data")
              /\ At(x).rest = (IF end["receiver"].pc = "body" /\ InPackets THEN end["receiver"].left ELSE 0)
              /\ At(x).index = end["receiver"].count /\ At(x).got = Len(received["receiver"])
<1>1. /\ \A y \in End : end[y] \in EndRecord /\ Len(received[y]) \in Nat
  BY DEF Types
<1>2. \A y \in End : end[y].left \in Nat /\ end[y].count \in Nat /\ end[y].offset \in Nat
  BY <1>1 DEF EndRecord
<1>3. CASE x = "sender"
  <2>1. (IF end["sender"].pc = "payload" THEN end["sender"].left ELSE 0) \in Nat
    BY <1>2, Ends
  <2> QED
    BY <1>1, <1>2, <1>3, <2>1, Ends DEF At, SenderAt, Pos, Position
<1>4. CASE x = "receiver"
  <2>1. (IF end["receiver"].pc = "body" /\ InPackets THEN end["receiver"].left ELSE 0) \in Nat
    BY <1>2, Ends
  <2> QED
    BY <1>1, <1>2, <1>4, <2>1, Ends DEF At, ReceiverAt, Pos, Position
<1> QED
  BY <1>3, <1>4, Ends

\* The lists hold messages of the end.
LEMMA GivenIds ==
  ASSUME Types, NEW x \in End, Given(x)
  PROVE  /\ 1 .. produced[x] \in SUBSET Id(x)
         /\ Messages[x] \in Seq(Id(x)) /\ sent[x] \in Seq(Id(x))
<1>1. produced[x] \in Nat /\ Len(MessageSizes[x]) \in Nat
  BY ConstantsAssumption DEF Types, End
<1>2. 1 .. produced[x] \in SUBSET Id(x)
  BY <1>1 DEF Given, Id
<1> QED
  BY <1>2, SeqOfSubset DEF Given

-----------------------------------------------------------------------------
(* What the steps of the ends do to Linked *)

\* End x reads nothing, and the other end writes nothing.
LEMMA LinkedKept ==
  ASSUME NEW x \in End, Linked(x),
         Stream(x)' = Stream(x), wire'[x] = wire[x], sent'[Peer(x)] = sent[Peer(x)],
         Ended(x) => Ended(x)', ~Ended(x)' => At(x)' = At(x),
         broken => broken', Ended(Peer(x)) => Ended(Peer(x))',
         Ended(Peer(x)) => wire'[Peer(x)] = wire[Peer(x)],
         \/ end'[Peer(x)].pc = "failed"
         \/ /\ end[Peer(x)].pc # "failed"
            /\ \A t \in Position : AtEnd(x, t) => AtEnd(x, t)'
  PROVE  Linked(x)'
<1> SUFFICES ASSUME ~Ended(x)'
             PROVE  \E t \in Position :
                      /\ Reads(Stream(x), sent[Peer(x)], wire[x], At(x), t)
                      /\ \/ end'[Peer(x)].pc = "failed"
                         \/ wire[x] = <<>> /\ Resets(Peer(x))' /\ Ended(Peer(x))'
                         \/ AtEnd(x, t)'
  BY DEF Linked
<1>1. PICK t \in Position :
             /\ Reads(Stream(x), sent[Peer(x)], wire[x], At(x), t)
             /\ \/ end[Peer(x)].pc = "failed"
                \/ wire[x] = <<>> /\ Resets(Peer(x)) /\ Ended(Peer(x))
                \/ AtEnd(x, t)
  BY DEF Linked
<1>2. Ended(Peer(x)) /\ Resets(Peer(x)) => Resets(Peer(x))'
  BY DEF Resets
<1> QED
  BY <1>1, <1>2

\* End x reads an item.
LEMMA LinkedTakes ==
  ASSUME NEW x \in End, Linked(x), Types, ~Ended(x), wire[x] # <<>>,
         Stream(x)' = Stream(x), wire'[x] = Tail(wire[x]), sent'[Peer(x)] = sent[Peer(x)],
         end'[Peer(x)] = end[Peer(x)], Opens' = Opens,
         \A u \in Position : Takes(Stream(x), sent[Peer(x)], At(x), Head(wire[x]), u) => At(x)' = u
  PROVE  Linked(x)'
<1>1. PICK t \in Position :
             /\ Reads(Stream(x), sent[Peer(x)], wire[x], At(x), t)
             /\ \/ end[Peer(x)].pc = "failed"
                \/ AtEnd(x, t)
  BY DEF Linked
<1>2. wire[x] \in Seq(Item)
  BY DEF Types
<1>3. PICK u \in Position : /\ Takes(Stream(x), sent[Peer(x)], At(x), Head(wire[x]), u)
                            /\ Reads(Stream(x), sent[Peer(x)], Tail(wire[x]), u, t)
  BY <1>1, <1>2, ReadsHead
<1>4. AtEnd(x, t) => AtEnd(x, t)'
  BY Ends DEF AtEnd
<1> QED
  BY <1>1, <1>3, <1>4 DEF Linked

\* The other end writes, and has written more messages.
LEMMA LinkedWrites ==
  ASSUME NEW x \in End, Linked(x), Types, sent[Peer(x)] \in Seq(Id(Peer(x))), ~Ended(Peer(x)),
         NEW items \in Seq(Item), NEW more \in Seq(Id(Peer(x))),
         Stream(x)' = Stream(x), wire'[x] = (IF Ended(x) THEN wire[x] ELSE wire[x] \o items),
         sent'[Peer(x)] = sent[Peer(x)] \o more, end'[x] = end[x], At(x)' = At(x),
         \A t \in Position : AtEnd(x, t) =>
           \E u \in Position :
             /\ Reads(Stream(x), sent[Peer(x)] \o more, items, t, u)
             /\ end'[Peer(x)].pc = "failed" \/ AtEnd(x, u)'
  PROVE  Linked(x)'
<1> SUFFICES ASSUME ~Ended(x)' PROVE Linked(x)'
  BY DEF Linked
<1>1. ~Ended(x)
  BY DEF Ended
<1>2. PICK t \in Position : Reads(Stream(x), sent[Peer(x)], wire[x], At(x), t) /\ AtEnd(x, t)
  BY <1>1 DEF Linked, Ended
<1>3. wire[x] \in Seq(Item)
  BY DEF Types
<1>4. Reads(Stream(x), sent[Peer(x)] \o more, wire[x], At(x), t)
  BY <1>2, <1>3, ReadsMore
<1>5. PICK u \in Position :
             /\ Reads(Stream(x), sent[Peer(x)] \o more, items, t, u)
             /\ end'[Peer(x)].pc = "failed" \/ AtEnd(x, u)'
  BY <1>2
<1>6. Reads(Stream(x), sent[Peer(x)] \o more, wire[x] \o items, At(x), u)
  BY <1>3, <1>4, <1>5, ReadsConcat
<1> QED
  BY <1>1, <1>5, <1>6 DEF Linked

\* What an end that has something to read finds there.
LEMMA NextItem ==
  ASSUME NEW x \in End, Linked(x), Types, ~Ended(x), wire[x] # <<>>
  PROVE  \E t, u \in Position :
           /\ Takes(Stream(x), sent[Peer(x)], At(x), Head(wire[x]), u)
           /\ Reads(Stream(x), sent[Peer(x)], Tail(wire[x]), u, t)
           /\ end[Peer(x)].pc = "failed" \/ AtEnd(x, t)
<1>1. PICK t \in Position :
             /\ Reads(Stream(x), sent[Peer(x)], wire[x], At(x), t)
             /\ \/ end[Peer(x)].pc = "failed"
                \/ AtEnd(x, t)
  BY DEF Linked
<1>2. wire[x] \in Seq(Item)
  BY DEF Types
<1> QED
  BY <1>1, <1>2, ReadsHead

-----------------------------------------------------------------------------
(* What a step leaves alone *)

\* A step that keeps the modes keeps what both ends know of them.
LEMMA ModesKept ==
  ASSUME ModesAgree, UNCHANGED choices, TheMode' = TheMode,
         end'["receiver"].mode = end["receiver"].mode
  PROVE  ModesAgree'
<1>1. ServerMode(TheMode)' = ServerMode(TheMode)
  BY Frame DEF ServerMode
<1> QED
  BY <1>1, Frame DEF ModesAgree

\* The part of the sender depends on what the sender has, and on the receiver being finished.
LEMMA SenderKept ==
  ASSUME SenderInv, UNCHANGED choices, TheMode' = TheMode, end'["sender"] = end["sender"],
         sent'["sender"] = sent["sender"], Ended("receiver") => Ended("receiver")'
  PROVE  SenderInv'
BY Frame DEF SenderInv

\* The part of the receiver depends on what the receiver has.
LEMMA ReceiverKept ==
  ASSUME ReceiverInv, UNCHANGED choices, TheMode' = TheMode, end'["receiver"] = end["receiver"]
  PROVE  ReceiverInv'
BY Frame DEF ReceiverInv

\* Given depends on the lists and on what was produced.
LEMMA GivenKept ==
  ASSUME NEW x \in End, Given(x), UNCHANGED <<produced, Messages, sent>>
  PROVE  Given(x)'
BY DEF Given

\* OrderInv depends on the lists only.
LEMMA OrderKept ==
  ASSUME OrderInv, UNCHANGED choices, TheMode' = TheMode, UNCHANGED <<sent, received>>
  PROVE  OrderInv'
BY Frame DEF OrderInv

\* What is sound after a step was sound before.
LEMMA SoundKept ==
  ASSUME UNCHANGED choices, TheMode' = TheMode, broken => broken'
  PROVE  Sound' => Sound
BY Frame DEF Sound

\* No end that did not fail before has failed; when both had ended, nothing happened.
LEMMA FailsKept ==
  ASSUME FailsOnlyWhenBroken, UNCHANGED choices, TheMode' = TheMode, broken => broken',
         \A x \in End : end'[x].pc = "failed" => end[x].pc = "failed",
         \/ ~Ended("sender") \/ ~Ended("receiver")
         \/ UNCHANGED <<end, wire, sent, received>>
  PROVE  FailsOnlyWhenBroken'
<1> SUFFICES ASSUME Sound'
             PROVE  /\ end'["receiver"].pc # "failed"
                    /\ end'["sender"].pc = "failed" => PaddingUnread'
  BY DEF FailsOnlyWhenBroken, Sound, TheMode
<1>1. Sound
  BY SoundKept
<1>2. end["receiver"].pc # "failed" /\ (end["sender"].pc = "failed" => PaddingUnread)
  BY <1>1 DEF FailsOnlyWhenBroken, Sound, TheMode
<1>3. PaddingUnread /\ end["sender"].pc = "failed" => Ended("sender") /\ Ended("receiver")
  BY DEF PaddingUnread, Ended
<1>4. PaddingUnread /\ UNCHANGED <<end, wire, sent, received>> => PaddingUnread'
  BY Frame DEF PaddingUnread, IsFile, TheMode
<1> QED
  BY <1>2, <1>3, <1>4, Ends

\* Where the ends of a sound connection are.
LEMMA SoundEnds ==
  ASSUME TransferInv, Sound
  PROVE  /\ end["receiver"].pc # "failed"
         /\ end["sender"].pc = "failed" =>
              PaddingUnread /\ outgoing /\ IsFile /\ end["receiver"].pc = "done"
         /\ end["sender"].pc \in {"start", "sending", "reply", "payload"} => ~Ended("receiver")
         /\ WithAnswers => InPackets
         /\ end["sender"].pc = "sending" => wire["sender"] = <<>>
<1> USE DEF TransferInv
<1>1. end["receiver"].pc # "failed" /\ (end["sender"].pc = "failed" => PaddingUnread)
  BY DEF FailsOnlyWhenBroken, Sound, TheMode
<1>2. PaddingUnread => outgoing /\ IsFile /\ end["receiver"].pc = "done"
  BY DEF PaddingUnread, IsFile, TheMode
<1>3. end["sender"].pc \in {"start", "sending", "reply", "payload"} => ~Ended("receiver")
  BY <1>1 DEF DoneInv, Ended
<1>4. WithAnswers => InPackets
  BY DEF Sound, WithAnswers, InPackets, Answered, Chunked, OneAnswerEach
<1>5. end["sender"].pc = "sending" => wire["sender"] = <<>>
  <2>1. CASE WithAnswers
    BY <1>3, <1>4, <2>1 DEF TurnsInv
  <2>2. CASE ~WithAnswers
    BY <2>2 DEF UnreadInv, OneHeaderInv
  <2> QED
    BY <2>1, <2>2
<1> QED
  BY <1>1, <1>2, <1>3, <1>4, <1>5

\* The sender has nothing unread, and the receiver has not finished.
LEMMA UnreadKept ==
  ASSUME UnreadInv, UNCHANGED choices, TheMode' = TheMode, broken => broken',
         end'["sender"] = end["sender"], wire'["sender"] = wire["sender"],
         end'["receiver"].pc = "start" => end["receiver"].pc = "start",
         end["receiver"].pc = "done" <=> end'["receiver"].pc = "done",
         end["receiver"].pc = "done" => wire'["receiver"] = wire["receiver"]
  PROVE  UnreadInv'
<1>1. OneHeaderInv => OneHeaderInv'
  BY Frame DEF OneHeaderInv
<1> QED
  BY <1>1, SoundKept, Frame DEF UnreadInv, Ended

\* The sender reads or writes, and the receiver has not finished.
LEMMA UnreadSends ==
  ASSUME TransferInv, end["sender"].pc \in {"start", "sending", "reply", "payload"},
         UNCHANGED choices, TheMode' = TheMode, broken => broken',
         end'["receiver"] = end["receiver"],
         Sound => OneHeaderInv' /\ (Ended("sender")' => wire'["sender"] = <<>>)
  PROVE  UnreadInv'
<1>1. Sound => end'["receiver"].pc # "done"
  BY SoundEnds DEF Ended
<1> QED
  BY <1>1, SoundKept DEF UnreadInv

\* What an end reads next, and what is left of the stream.
LEMMA TailTypes ==
  ASSUME Types, NEW x \in End, wire[x] # <<>>
  PROVE  /\ Head(wire[x]) \in Item /\ Tail(wire[x]) \in Seq(Item)
         /\ NoHeader(wire[x]) => NoHeader(Tail(wire[x]))
<1>1. wire[x] \in Seq(Item)
  BY DEF Types
<1>2. Head(wire[x]) \in Item /\ Tail(wire[x]) \in Seq(Item)
  BY <1>1
<1>3. ASSUME NoHeader(wire[x]) PROVE NoHeader(Tail(wire[x]))
  <2>1. \A i \in 1 .. Len(Tail(wire[x])) : Tail(wire[x])[i] = wire[x][i + 1] /\ i + 1 \in 1 .. Len(wire[x])
    BY <1>1
  <2> QED
    BY <1>3, <2>1 DEF NoHeader
<1> QED
  BY <1>2, <1>3

\* The items of the wire.
LEMMA ItemFacts ==
  ASSUME NEW item \in Item
  PROVE  /\ item.kind \in {"header", "file", "message", "zero"}
         /\ item.kind = "header" => item.len \in Nat
         /\ item.kind = "message" => item.id \in Nat
BY DEF Item

\* A prefix has no other elements, and is all of a sequence of its length.
LEMMA PrefixRange ==
  ASSUME NEW S, NEW T, NEW s \in Seq(S), NEW w \in Seq(S), w \in Seq(T), IsPrefix(s, w)
  PROVE  /\ Len(s) <= Len(w) /\ \A i \in 1 .. Len(s) : s[i] = w[i]
         /\ Range(s) \subseteq T
         /\ Len(s) = Len(w) => s = w
<1>1. Len(s) \in Nat /\ Len(w) \in Nat /\ Len(s) <= Len(w) /\ SubSeq(s, 1, Len(s)) = SubSeq(w, 1, Len(s))
  BY DEF IsPrefix
<1>2. \A i \in 1 .. Len(s) : s[i] = w[i]
  <2>1. \A i \in 1 .. Len(s) : SubSeq(s, 1, Len(s))[i] = s[i] /\ SubSeq(w, 1, Len(s))[i] = w[i]
    BY <1>1
  <2> QED
    BY <1>1, <2>1
<1>3. \A i \in 1 .. Len(s) : s[i] \in T
  BY <1>1, <1>2
<1>4. Range(s) \subseteq T
  BY <1>3 DEF Range
<1>5. Len(s) = Len(w) => s = w
  BY <1>2
<1> QED
  BY <1>1, <1>2, <1>4, <1>5

\* The next message of a list.
LEMMA PrefixNext ==
  ASSUME NEW S, NEW s \in Seq(S), NEW w \in Seq(S), IsPrefix(s, w), Len(s) < Len(w)
  PROVE  IsPrefix(Append(s, w[Len(s) + 1]), w)
<1> DEFINE n == Len(s)
           a == Append(s, w[n + 1])
<1>1. n \in Nat /\ n < Len(w) /\ Len(w) \in Nat /\ SubSeq(s, 1, n) = SubSeq(w, 1, n)
  BY DEF IsPrefix
<1>2. w[n + 1] \in S
  BY <1>1
<1>3. /\ a \in Seq(S) /\ Len(a) = n + 1
      /\ \A i \in 1 .. n + 1 : a[i] = IF i <= n THEN s[i] ELSE w[n + 1]
  BY <1>1, <1>2
<1>4. \A i \in 1 .. n : s[i] = w[i]
  <2>1. \A i \in 1 .. n : SubSeq(s, 1, n)[i] = s[i] /\ SubSeq(w, 1, n)[i] = w[i]
    BY <1>1
  <2> QED
    BY <1>1, <2>1
<1>5. \A i \in 1 .. n + 1 : a[i] = w[i]
  BY <1>1, <1>3, <1>4
<1> HIDE DEF a, n
<1>6. SubSeq(a, 1, n + 1) = SubSeq(w, 1, n + 1)
  <2>1. /\ SubSeq(a, 1, n + 1) = [i \in 1 .. n + 1 |-> a[i]]
        /\ SubSeq(w, 1, n + 1) = [i \in 1 .. n + 1 |-> w[i]]
    BY <1>1, <1>3
  <2> QED
    BY <1>5, <2>1
<1> QED
  BY <1>1, <1>3, <1>6 DEF IsPrefix, a, n

-----------------------------------------------------------------------------
(* The steps of the sender *)

\* ReadLast: the sender of a file reads the answer of the receiver.
LEMMA ReadLastStep ==
  ASSUME TransferInv, ReadLast
  PROVE  TransferInv'
<1> USE Ends DEF TransferInv
<1>1. /\ end["sender"].pc = "last" /\ wire["sender"] # <<>>
      /\ wire' = [wire EXCEPT !["sender"] = Tail(@)]
      /\ end' = [end EXCEPT !["sender"].pc = "done"]
      /\ UNCHANGED choices /\ UNCHANGED <<Messages, produced, sent, received, broken>>
  BY DEF ReadLast, CanRead, Consume, Goes
<1>2. /\ end'["sender"] = [end["sender"] EXCEPT !.pc = "done"]
      /\ end'["receiver"] = end["receiver"] /\ end["sender"] \in EndRecord
      /\ wire'["sender"] = Tail(wire["sender"]) /\ wire'["receiver"] = wire["receiver"]
  BY <1>1 DEF Types
<1>3. /\ end'["sender"].pc = "done" /\ end'["sender"].max = end["sender"].max
      /\ end'["sender"].count = end["sender"].count /\ end'["sender"].mode = end["sender"].mode
      /\ TheMode' = TheMode
  BY <1>2 DEF EndRecord, TheMode
<1>4. outgoing /\ IsFile /\ ~WithAnswers /\ ~InPackets
  BY <1>1 DEF SenderInv, IsFile, OneFile, WithAnswers, InPackets
<1>5. Types'
  <2>1. end'["sender"] \in EndRecord
    BY <1>2 DEF EndRecord, Pc
  <2> QED
    BY <1>1, <1>2, <2>1, TailTypes DEF Types, choices
<1>6. ModesAgree'
  BY <1>1, <1>2, <1>3, ModesKept
<1>7. SenderInv'
  BY <1>1, <1>2, <1>3, Frame DEF SenderInv, Ended
<1>8. ReceiverInv'
  BY <1>1, <1>2, <1>3, ReceiverKept
<1>9. OpeningInv'
  BY <1>1, <1>2, <1>3, <1>4, Frame DEF OpeningInv
<1>10. OrderInv'
  BY <1>1, <1>3, OrderKept
<1>11. ASSUME NEW x \in End PROVE Given(x)'
  BY <1>1, GivenKept
<1>12. Linked("sender")'
  BY <1>3 DEF Linked, Ended
<1>13. Linked("receiver")'
  <2>1. \A t \in Position : AtEnd("receiver", t) => AtEnd("receiver", t)'
    BY <1>1, <1>3, Frame DEF AtEnd
  <2>2. At("receiver")' = At("receiver")
    BY <1>1, <1>2, <1>3, Frame DEF At, ReceiverAt
  <2> QED
    BY <1>1, <1>2, <1>3, <2>1, <2>2, Frame, LinkedKept DEF Ended
<1>14. ReplyInv'
  BY <1>3 DEF ReplyInv
<1>15. TurnsInv'
  BY <1>1, <1>3, <1>4, Frame DEF TurnsInv
<1>16. DoneInv'
  BY <1>1, <1>2, <1>3, <1>4, Frame DEF DoneInv, Sound
<1>17. FailsOnlyWhenBroken'
  BY <1>1, <1>2, <1>3, FailsKept DEF Ended
<1>18. UnreadInv'
  <2>1. UnreadInv => (Sound => wire["sender"] = <<Header(0)>>)
    BY <1>1, <1>4 DEF UnreadInv, OneHeaderInv
  <2>2. Sound => wire'["sender"] = <<>>
    <3>1. Tail(<<Header(0)>>) = <<>>
      OBVIOUS
    <3> QED
      BY <1>2, <2>1, <3>1
  <2>3. Sound => OneHeaderInv'
    BY <1>1, <1>2, <1>3, <1>4, <2>2, Frame DEF OneHeaderInv
  <2> QED
    BY <1>1, <1>3, <2>2, <2>3, SoundKept DEF UnreadInv
<1> QED
  BY <1>5, <1>6, <1>7, <1>8, <1>9, <1>10, <1>11, <1>12, <1>13, <1>14, <1>15, <1>16, <1>17, <1>18

\* OutgoingStops: the loop of the sender ends.
LEMMA OutgoingStopsStep ==
  ASSUME TransferInv, OutgoingStops
  PROVE  TransferInv'
<1> USE Ends DEF TransferInv
<1>1. /\ end["sender"].pc = "sending" /\ Ended("receiver")
      /\ end' = [end EXCEPT !["sender"].pc = AfterOutgoing]
      /\ UNCHANGED choices /\ UNCHANGED <<wire, Messages, produced, sent, received, broken>>
  BY DEF OutgoingStops, Goes
<1>2. AfterOutgoing = (IF outgoing /\ IsFile THEN "last" ELSE "done")
  BY DEF AfterOutgoing, IsFile, TheMode
<1>3. /\ end'["sender"] = [end["sender"] EXCEPT !.pc = AfterOutgoing]
      /\ end'["receiver"] = end["receiver"] /\ end["sender"] \in EndRecord
  BY <1>1 DEF Types
<1>4. /\ end'["sender"].pc = AfterOutgoing /\ end'["sender"].max = end["sender"].max
      /\ end'["sender"].count = end["sender"].count /\ end'["sender"].mode = end["sender"].mode
      /\ end'["sender"].offset = end["sender"].offset
      /\ TheMode' = TheMode
  BY <1>3 DEF EndRecord, TheMode
<1>5. Types'
  <2>1. end'["sender"] \in EndRecord
    BY <1>2, <1>3 DEF EndRecord, Pc
  <2> QED
    BY <1>1, <1>3, <2>1 DEF Types, choices
<1>6. ModesAgree'
  BY <1>1, <1>3, <1>4, ModesKept
<1>7. SenderInv'
  BY <1>1, <1>2, <1>3, <1>4, Frame DEF SenderInv, Ended
<1>8. ReceiverInv'
  BY <1>1, <1>3, <1>4, ReceiverKept
<1>9. OpeningInv'
  BY <1>1, <1>2, <1>3, <1>4, Frame DEF OpeningInv, Ended
<1>10. OrderInv'
  BY <1>1, <1>4, OrderKept
<1>11. ASSUME NEW x \in End PROVE Given(x)'
  BY <1>1, GivenKept
<1>12. Linked("sender")'
  <2>1. \A t \in Position : AtEnd("sender", t) => AtEnd("sender", t)'
    BY <1>1, <1>4, Frame DEF AtEnd
  <2>2. At("sender")' = At("sender")
    BY <1>1, <1>2, <1>3, <1>4, Frame DEF At, SenderAt
  <2> QED
    BY <1>1, <1>3, <1>4, <2>1, <2>2, Frame, LinkedKept DEF Ended
<1>13. Linked("receiver")'
  BY <1>1, <1>3 DEF Linked, Ended
<1>14. ReplyInv'
  BY <1>2, <1>4 DEF ReplyInv
<1>15. TurnsInv'
  BY <1>1, <1>3 DEF TurnsInv, Ended
<1>16. DoneInv'
  BY <1>1, <1>2, <1>3, <1>4, Frame DEF DoneInv, Sound, Ended
<1>17. FailsOnlyWhenBroken'
  BY <1>1, <1>2, <1>3, <1>4, FailsKept DEF Ended
<1>18. UnreadInv'
  <2>1. ~Sound
    BY <1>1, SoundEnds
  <2> QED
    BY <1>1, <1>4, <2>1, SoundKept DEF UnreadInv
<1> QED
  BY <1>5, <1>6, <1>7, <1>8, <1>9, <1>10, <1>11, <1>12, <1>13, <1>14, <1>15, <1>16, <1>17, <1>18

\* ReadReply: the sender reads the header of an answer.
LEMMA ReadReplyStep ==
  ASSUME TransferInv, ReadReply
  PROVE  TransferInv'
<1> USE Ends DEF TransferInv
<1> DEFINE item == Head(wire["sender"])
           len == item.len
           pc == IF len > 0 THEN "payload" ELSE "sending"
<1>1. /\ end["sender"].pc = "reply" /\ wire["sender"] # <<>> /\ item.kind = "header"
      /\ wire' = [wire EXCEPT !["sender"] = Tail(@)]
      /\ end' = [end EXCEPT !["sender"].pc = pc, !["sender"].left = len, !["sender"].offset = 0]
      /\ UNCHANGED choices /\ UNCHANGED <<Messages, produced, sent, received, broken>>
  BY DEF ReadReply, CanRead, Consume, Expected, Next1
<1>2. item \in Item /\ len \in Nat /\ Tail(wire["sender"]) \in Seq(Item)
  BY <1>1, TailTypes, ItemFacts
<1> HIDE DEF len
<1>3. /\ end'["sender"] = [end["sender"] EXCEPT !.pc = pc, !.left = len, !.offset = 0]
      /\ end'["receiver"] = end["receiver"] /\ end["sender"] \in EndRecord
      /\ wire'["sender"] = Tail(wire["sender"]) /\ wire'["receiver"] = wire["receiver"]
  BY <1>1 DEF Types
<1>4. /\ end'["sender"].pc = pc /\ end'["sender"].max = end["sender"].max
      /\ end'["sender"].count = end["sender"].count /\ end'["sender"].mode = end["sender"].mode
      /\ end'["sender"].offset = 0 /\ end'["sender"].left = len
      /\ TheMode' = TheMode
  BY <1>3 DEF EndRecord, TheMode
<1>5. Types'
  <2>1. pc \in Pc
    BY DEF Pc
  <2>2. end'["sender"] \in EndRecord
    <3> HIDE DEF pc
    <3>1. end["sender"] \in EndRecord /\ len \in Nat /\ 0 \in Nat
      BY <1>2, <1>3
    <3>2. [end["sender"] EXCEPT !.pc = pc, !.left = len, !.offset = 0] \in EndRecord
      BY <2>1, <3>1 DEF EndRecord
    <3> QED
      BY <1>3, <3>2
  <2> QED
    BY <1>1, <1>2, <1>3, <2>2 DEF Types, choices
<1>6. ModesAgree'
  BY <1>1, <1>3, <1>4, ModesKept
<1>7. SenderInv'
  BY <1>1, <1>2, <1>3, <1>4, Frame DEF SenderInv
<1>8. ReceiverInv'
  BY <1>1, <1>3, <1>4, ReceiverKept
<1>9. OpeningInv'
  BY <1>1, <1>3, <1>4, Frame DEF OpeningInv
<1>10. OrderInv'
  BY <1>1, <1>4, OrderKept
<1>11. ASSUME NEW x \in End PROVE Given(x)'
  BY <1>1, GivenKept
<1>12. ASSUME NEW u, Takes(Stream("sender"), sent["receiver"], At("sender"), item, u)
       PROVE  u = Pos("data", len, 0, Len(received["sender"]))
  <2>1. TakesHeader(Stream("sender"), At("sender"), item, u)
    BY <1>1, <1>12 DEF Takes, TakesFile, TakesMessage, TakesZero
  <2> QED
    BY <2>1, AtTypes, StreamTypes DEF TakesHeader, len
<1>13. Linked("sender")'
  <2>1. At("sender")' = Pos("data", len, 0, Len(received["sender"]))
    BY <1>1, <1>2, <1>4 DEF At, SenderAt
  <2> QED
    BY <1>1, <1>3, <1>4, <1>12, <2>1, Frame, LinkedTakes DEF Ended
<1>14. Linked("receiver")'
  <2>1. \A t \in Position : AtEnd("receiver", t) => AtEnd("receiver", t)'
    BY <1>1, <1>4, Frame DEF AtEnd
  <2>2. At("receiver")' = At("receiver")
    BY <1>1, <1>3, <1>4, Frame DEF At, ReceiverAt
  <2> QED
    BY <1>1, <1>3, <1>4, <2>1, <2>2, Frame, LinkedKept DEF Ended
<1>15. ReplyInv'
  BY <1>4 DEF ReplyInv
<1>16. TurnsInv'
  <2> SUFFICES ASSUME WithAnswers, InPackets, ~Ended("receiver")
               PROVE  /\ pc = "sending" => wire'["sender"] = <<>>
                      /\ NoHeader(wire'["sender"]) /\ Caught
    <3>1. /\ WithAnswers' = WithAnswers /\ InPackets' = InPackets
          /\ Ended("receiver")' = Ended("receiver") /\ Caught' = Caught
      BY <1>1, <1>3, <1>4, Frame DEF Ended, Caught
    <3> QED
      BY <1>4, <3>1 DEF TurnsInv
  <2>1. NoHeader(Tail(wire["sender"])) /\ Caught
    BY <1>1 DEF TurnsInv
  <2>2. ASSUME pc = "sending" PROVE Tail(wire["sender"]) = <<>>
    <3>1. PICK t, u \in Position :
                 /\ Takes(Stream("sender"), sent["receiver"], At("sender"), item, u)
                 /\ Reads(Stream("sender"), sent["receiver"], Tail(wire["sender"]), u, t)
      BY <1>1, NextItem DEF Ended
    <3>2. u.phase = "data" /\ u.rest = 0
      BY <1>2, <1>12, <2>2, <3>1 DEF Pos
    <3>3. sent["receiver"] \in Seq(Id("receiver"))
      BY GivenIds
    <3> QED
      BY <1>2, <2>1, <3>1, <3>2, <3>3, StreamTypes, PacketEnds
  <2> QED
    BY <1>3, <2>1, <2>2
<1>17. DoneInv'
  <2>1. Sound' => Sound /\ end'["receiver"].pc # "done" /\ pc # "done"
    BY <1>1, <1>3, <1>4, SoundKept, SoundEnds DEF Ended
  <2> QED
    BY <1>1, <1>3, <1>4, <2>1 DEF DoneInv
<1>18. FailsOnlyWhenBroken'
  BY <1>1, <1>3, <1>4, FailsKept DEF Ended
<1>19. UnreadInv'
  <2>1. ASSUME Sound, ~WithAnswers
        PROVE  wire'["sender"] = <<>> /\ pc = "sending" /\ (outgoing => end["receiver"].pc # "start")
    <3>1. wire["sender"] = <<Header(0)>>
      BY <1>1, <2>1 DEF UnreadInv, OneHeaderInv
    <3>2. len = 0
      BY <3>1 DEF len, Header
    <3> QED
      BY <1>1, <1>3, <3>1, <3>2 DEF OpeningInv
  <2>2. Sound => OneHeaderInv'
    BY <1>1, <1>3, <1>4, <2>1, Frame DEF OneHeaderInv
  <2> QED
    BY <1>1, <1>3, <1>4, <2>2, UnreadSends DEF Ended
<1> QED
  BY <1>5, <1>6, <1>7, <1>8, <1>9, <1>10, <1>11, <1>13, <1>14, <1>15, <1>16, <1>17, <1>18, <1>19

\* ReadPayload: the sender reads the messages of an answer.
LEMMA ReadPayloadStep ==
  ASSUME TransferInv, ReadPayload
  PROVE  TransferInv'
<1> USE Ends DEF TransferInv
<1> DEFINE item == Head(wire["sender"])
           e == end["sender"]
           size == ItemSize("sender", item)
           pc == IF e.left > size THEN "payload" ELSE "sending"
           left == AtLeast(0, e.left - size)
           got == IF item.kind = "zero" THEN received["sender"] ELSE Append(received["sender"], item.id)
<1>1. /\ end["sender"].pc = "payload" /\ wire["sender"] # <<>> /\ item.kind \in {"message", "zero"}
      /\ wire' = [wire EXCEPT !["sender"] = Tail(@)]
      /\ end' = [end EXCEPT !["sender"].left = left, !["sender"].offset = @ + size, !["sender"].pc = pc]
      /\ received' = [received EXCEPT !["sender"] = got]
      /\ UNCHANGED choices /\ UNCHANGED <<Messages, produced, sent, broken>>
  <2>1. end["sender"].pc = "payload" /\ wire["sender"] # <<>> /\ item.kind \in {"message", "zero"}
    BY DEF ReadPayload, CanRead, Expected, Next1
  <2>2. received' = [received EXCEPT !["sender"] = got]
    BY DEF ReadPayload, Receive, Next1, Types
  <2>3. wire' = [wire EXCEPT !["sender"] = Tail(@)]
    BY DEF ReadPayload, Consume
  <2>4. end' = [end EXCEPT !["sender"].left = left, !["sender"].offset = @ + size, !["sender"].pc = pc]
    BY DEF ReadPayload, Next1
  <2> QED
    BY <2>1, <2>2, <2>3, <2>4 DEF ReadPayload
<1>2. PICK t, u \in Position :
             /\ Takes(Stream("sender"), sent["receiver"], At("sender"), item, u)
             /\ Reads(Stream("sender"), sent["receiver"], Tail(wire["sender"]), u, t)
  BY <1>1, NextItem DEF Ended
<1>3. /\ e \in EndRecord /\ e.left \in Nat /\ e.offset \in Nat
      /\ item \in Item /\ Tail(wire["sender"]) \in Seq(Item)
      /\ sent["receiver"] \in Seq(Id("receiver")) /\ received["sender"] \in Seq(Nat)
  BY <1>1, TailTypes, GivenIds DEF Types, EndRecord
\* What is read.
<1>5. ASSUME NEW v \in Position, Takes(Stream("sender"), sent["receiver"], At("sender"), item, v)
      PROVE  /\ size \in Nat \ {0} /\ size <= e.left /\ got \in Seq(Nat)
             /\ v = Pos("data", e.left - size, e.offset + size, Len(got))
             /\ IsPrefix(got, sent["receiver"])
  <2>1. /\ At("sender").rest = e.left /\ At("sender").index = e.offset /\ At("sender").phase = "data"
        /\ At("sender").got = Len(received["sender"])
        /\ Stream("sender").from = "receiver" /\ Stream("sender").chunks
    BY <1>1, AtTypes, StreamTypes
  <2>2. CASE item.kind = "zero"
    <3>1. TakesZero(Stream("sender"), At("sender"), item, v)
      BY <1>5, <2>2 DEF Takes, TakesHeader, TakesFile, TakesMessage
    <3>2. size = 1 /\ got = received["sender"]
      BY <2>2 DEF ItemSize
    <3>3. 1 <= e.left /\ v = Pos("data", e.left - 1, e.offset + 1, Len(received["sender"]) + 0)
      BY <2>1, <3>1 DEF TakesZero, TakesPart, After
    <3>4. Len(received["sender"]) + 0 = Len(received["sender"])
      BY <1>3
    <3>5. IsPrefix(received["sender"], sent["receiver"])
      BY DEF OrderInv
    <3> HIDE DEF size, got
    <3> QED
      BY <1>3, <3>2, <3>3, <3>4, <3>5
  <2>3. CASE item.kind = "message"
    <3>1. TakesMessage(Stream("sender"), sent["receiver"], At("sender"), item, v)
      BY <1>5, <2>3 DEF Takes, TakesHeader, TakesFile, TakesZero
    <3>2. size = SizeOf("receiver", item.id) /\ got = Append(received["sender"], item.id)
      BY <2>3 DEF ItemSize
    <3>3. Len(received["sender"]) < Len(sent["receiver"]) /\ item.id = sent["receiver"][Len(received["sender"]) + 1]
      BY <2>1, <3>1 DEF TakesMessage
    <3>4. item.id \in Id("receiver") /\ size \in Nat \ {0}
      BY <1>3, <3>2, <3>3, SizePositive
    <3>5. got \in Seq(Nat) /\ Len(got) = Len(received["sender"]) + 1
      BY <1>3, <3>2, <3>4 DEF Id
    <3>6. size <= e.left /\ v = Pos("data", e.left - size, e.offset + size, Len(got))
      BY <2>1, <3>1, <3>2, <3>5 DEF TakesMessage, TakesPart, After
    <3>7. IsPrefix(got, sent["receiver"])
      <4>1. IsPrefix(received["sender"], sent["receiver"])
        BY DEF OrderInv
      <4>2. sent["receiver"] \in Seq(Nat)
        BY DEF Types
      <4> QED
        BY <1>3, <3>2, <3>3, <4>1, <4>2, PrefixNext
    <3> QED
      BY <3>4, <3>5, <3>6, <3>7
  <2> QED
    BY <1>1, <2>2, <2>3
<1>6. /\ size \in Nat \ {0} /\ size <= e.left /\ got \in Seq(Nat)
      /\ u = Pos("data", e.left - size, e.offset + size, Len(got))
      /\ IsPrefix(got, sent["receiver"])
  BY <1>2, <1>5
<1>7. left = e.left - size /\ left \in Nat /\ e.offset + size \in Nat
  BY <1>3, <1>6 DEF AtLeast
<1> HIDE DEF size, got, left
<1>8. /\ end'["sender"] = [e EXCEPT !.left = left, !.offset = e.offset + size, !.pc = pc]
      /\ end'["receiver"] = end["receiver"]
      /\ wire'["sender"] = Tail(wire["sender"]) /\ wire'["receiver"] = wire["receiver"]
      /\ received'["sender"] = got /\ received'["receiver"] = received["receiver"]
  BY <1>1 DEF Types
<1>9. /\ end'["sender"].pc = pc /\ end'["sender"].max = e.max
      /\ end'["sender"].count = e.count /\ end'["sender"].mode = e.mode
      /\ end'["sender"].offset = e.offset + size /\ end'["sender"].left = left
      /\ TheMode' = TheMode
  BY <1>3, <1>8 DEF EndRecord, TheMode
<1>10. Types'
  <2>1. [e EXCEPT !.left = left, !.offset = e.offset + size, !.pc = pc] \in EndRecord
    <3>1. pc \in Pc
      BY DEF Pc
    <3> HIDE DEF pc
    <3> QED
      BY <1>3, <1>7, <3>1 DEF EndRecord
  <2> QED
    BY <1>1, <1>3, <1>6, <1>8, <2>1 DEF Types, choices
<1>11. ModesAgree'
  BY <1>1, <1>8, <1>9, ModesKept
<1>12. SenderInv'
  <2>1. /\ SenderMax' = SenderMax /\ CountMax' = CountMax /\ IsFile' = IsFile
        /\ tunnel' = tunnel /\ outgoing' = outgoing /\ sent' = sent
        /\ Ended("receiver")' = Ended("receiver")
    BY <1>1, <1>8, <1>9, Frame DEF Ended
  <2>2. pc \in {"payload", "sending"} /\ (pc = "payload" => left > 0)
    BY <1>3, <1>6, <1>7
  <2>3. /\ e.max = SenderMax /\ e.count < SenderMax /\ tunnel = "HTTP" /\ ~IsFile
        /\ e.max <= SenderMax /\ e.count <= CountMax
    BY <1>1, <1>3 DEF SenderInv
  <2> HIDE DEF TransferInv, e, pc
  <2> QED
    BY <1>9, <2>1, <2>2, <2>3 DEF SenderInv
<1>13. ReceiverInv'
  BY <1>1, <1>8, <1>9, ReceiverKept
<1>14. OpeningInv'
  BY <1>1, <1>8, <1>9, Frame DEF OpeningInv
<1>15. OrderInv'
  BY <1>1, <1>6, <1>8, <1>9, Frame DEF OrderInv
<1>16. ASSUME NEW x \in End PROVE Given(x)'
  BY <1>1, GivenKept
<1>17. Linked("sender")'
  <2>1. At("sender")' = Pos("data", e.left - size, e.offset + size, Len(got))
    BY <1>3, <1>6, <1>7, <1>8, <1>9 DEF At, SenderAt
  <2> QED
    BY <1>1, <1>5, <1>8, <1>9, <2>1, Frame, LinkedTakes DEF Ended
<1>18. Linked("receiver")'
  <2>1. \A v \in Position : AtEnd("receiver", v) => AtEnd("receiver", v)'
    BY <1>1, <1>9, Frame DEF AtEnd
  <2>2. At("receiver")' = At("receiver")
    BY <1>1, <1>8, <1>9, Frame DEF At, ReceiverAt
  <2> QED
    BY <1>1, <1>8, <1>9, <2>1, <2>2, Frame, LinkedKept DEF Ended
<1>19. ReplyInv'
  BY <1>9 DEF ReplyInv
<1>20. TurnsInv'
  <2> SUFFICES ASSUME WithAnswers, InPackets, ~Ended("receiver")
               PROVE  /\ pc = "sending" => wire'["sender"] = <<>>
                      /\ NoHeader(wire'["sender"]) /\ Caught
    <3>1. /\ WithAnswers' = WithAnswers /\ InPackets' = InPackets
          /\ Ended("receiver")' = Ended("receiver") /\ Caught' = Caught
      BY <1>1, <1>8, <1>9, Frame DEF Ended, Caught
    <3> QED
      BY <1>9, <3>1 DEF TurnsInv
  <2>1. NoHeader(Tail(wire["sender"])) /\ Caught
    BY <1>1, TailTypes DEF TurnsInv
  <2>2. ASSUME pc = "sending" PROVE Tail(wire["sender"]) = <<>>
    <3>1. u.phase = "data" /\ u.rest = 0
      BY <1>3, <1>6, <2>2 DEF Pos
    <3> QED
      BY <1>2, <1>3, <2>1, <3>1, StreamTypes, PacketEnds
  <2> QED
    BY <1>8, <2>1, <2>2
<1>21. DoneInv'
  <2>1. Sound' => Sound /\ end'["receiver"].pc # "done" /\ pc # "done"
    BY <1>1, <1>8, <1>9, SoundKept, SoundEnds DEF Ended
  <2> QED
    BY <1>1, <1>8, <1>9, <2>1 DEF DoneInv
<1>22. FailsOnlyWhenBroken'
  BY <1>1, <1>8, <1>9, FailsKept DEF Ended
<1>23. UnreadInv'
  <2>1. Sound => WithAnswers
    BY <1>1 DEF UnreadInv, OneHeaderInv
  <2>2. Sound => OneHeaderInv'
    BY <1>1, <1>9, <2>1, Frame DEF OneHeaderInv
  <2> QED
    BY <1>1, <1>8, <1>9, <2>2, UnreadSends DEF Ended
<1> QED
  BY <1>10, <1>11, <1>12, <1>13, <1>14, <1>15, <1>16, <1>17, <1>18, <1>19, <1>20, <1>21, <1>22, <1>23

-----------------------------------------------------------------------------
(* Steps of either end *)

\* An end fails, whatever the reason.
LEMMA EndFails ==
  ASSUME TransferInv, NEW x \in End, Reading(x),
         end' = [end EXCEPT ![x].pc = "failed"],
         UNCHANGED choices, UNCHANGED <<wire, Messages, produced, sent, received>>,
         broken' \in BOOLEAN, broken => broken',
         FailsOnlyWhenBroken'
  PROVE  TransferInv'
<1> USE Ends DEF TransferInv
<1>1. /\ end'[x] = [end[x] EXCEPT !.pc = "failed"] /\ end'[Peer(x)] = end[Peer(x)]
      /\ end[x] \in EndRecord /\ Peer(x) # x
  BY DEF Types
<1>2. /\ end'[x].pc = "failed" /\ end'[x].max = end[x].max
      /\ end'[x].count = end[x].count /\ end'[x].mode = end[x].mode
  BY <1>1 DEF EndRecord
<1>3. /\ TheMode' = TheMode /\ end'["receiver"].mode = end["receiver"].mode
      /\ \A y \in End : end'[y].pc = (IF y = x THEN "failed" ELSE end[y].pc)
      /\ \A y \in End : end'[y].count = end[y].count /\ end'[y].max = end[y].max
  BY <1>1, <1>2 DEF TheMode
<1>4. Ended(x)' /\ (Ended(Peer(x))' <=> Ended(Peer(x)))
  BY <1>1, <1>2 DEF Ended
<1>5. Types'
  <2>1. [end[x] EXCEPT !.pc = "failed"] \in EndRecord
    BY <1>1 DEF EndRecord, Pc
  <2> QED
    BY <2>1 DEF Types, choices
<1>6. ModesAgree'
  BY <1>3, ModesKept
<1>7. SenderInv'
  <2>1. CASE x = "sender"
    BY <1>2, <1>3, <1>4, <2>1, Frame DEF SenderInv
  <2>2. CASE x = "receiver"
    BY <1>1, <1>3, <1>4, <2>2, SenderKept
  <2> QED
    BY <2>1, <2>2
<1>8. ReceiverInv'
  <2>1. CASE x = "receiver"
    BY <1>2, <1>3, <1>4, <2>1, Frame DEF ReceiverInv
  <2>2. CASE x = "sender"
    BY <1>1, <1>3, <2>2, ReceiverKept
  <2> QED
    BY <2>1, <2>2
<1>9. OpeningInv'
  <2>1. x = "receiver" /\ end["receiver"].pc = "start" => outgoing
    BY DEF Reading
  <2> QED
    BY <1>3, <2>1, Frame DEF OpeningInv
<1>10. OrderInv'
  BY <1>3, OrderKept
<1>11. ASSUME NEW y \in End PROVE Given(y)'
  BY GivenKept
<1>12. ASSUME NEW y \in End PROVE Linked(y)'
  <2>1. CASE y = x
    BY <1>4, <2>1 DEF Linked
  <2>2. CASE y # x
    <3>1. y = Peer(x) /\ Peer(y) = x
      BY <2>2
    <3>2. At(y)' = At(y)
      BY <1>1, <1>3, <3>1, Frame DEF At, SenderAt, ReceiverAt
    <3> QED
      BY <1>2, <1>3, <1>4, <3>1, <3>2, Frame, LinkedKept
  <2> QED
    BY <2>1, <2>2
<1>13. ReplyInv'
  BY <1>3, <1>4, Frame DEF ReplyInv, Ended
<1>14. TurnsInv'
  <2>1. CASE x = "receiver"
    BY <1>4, <2>1 DEF TurnsInv
  <2>2. CASE x = "sender"
    BY <1>2, <2>2 DEF TurnsInv
  <2> QED
    BY <2>1, <2>2
<1>15. DoneInv'
  BY <1>3, Frame DEF DoneInv, Sound, Ended
<1>16. UnreadInv'
  <2> SUFFICES ASSUME Sound' PROVE UnreadInv'
    BY DEF UnreadInv
  <2>1. x = "sender" /\ PaddingUnread' /\ Sound
    BY <1>2, <1>3, SoundKept DEF FailsOnlyWhenBroken, Sound, TheMode
  <2>2. end'["receiver"].pc = "done" /\ wire'["sender"] = <<>>
    BY <2>1 DEF PaddingUnread
  <2>3. OneHeaderInv'
    BY <2>2 DEF OneHeaderInv
  <2>4. end["sender"].pc # "done" /\ end'["receiver"] = end["receiver"]
    BY <1>1, <2>1 DEF Reading
  <2>5. end["receiver"].pc = "done" /\ wire["receiver"] # <<>> => end'["sender"].count > SenderMax
    BY <1>3, <2>1, <2>4 DEF UnreadInv
  <2> QED
    BY <1>3, <2>2, <2>3, <2>4, <2>5, Frame DEF UnreadInv
<1> QED
  BY <1>5, <1>6, <1>7, <1>8, <1>9, <1>10, <1>11, <1>12, <1>13, <1>14, <1>15, <1>16

\* Breaks: the connection breaks.
LEMMA BreaksStep ==
  ASSUME TransferInv, NEW x \in End, Breaks(x)
  PROVE  TransferInv'
<1>1. /\ Reading(x) /\ end' = [end EXCEPT ![x].pc = "failed"]
      /\ UNCHANGED choices /\ UNCHANGED <<wire, Messages, produced, sent, received>>
      /\ broken' = TRUE
  BY DEF Breaks, Goes
<1>2. FailsOnlyWhenBroken'
  BY <1>1 DEF FailsOnlyWhenBroken
<1> QED
  BY <1>1, <1>2, EndFails

\* Reset: what was on its way is lost.
LEMMA ResetStep ==
  ASSUME TransferInv, NEW x \in End, Reset(x)
  PROVE  TransferInv'
<1> USE Ends DEF TransferInv
<1>1. /\ Ended(x) /\ wire[x] # <<>> /\ ~Ended(Peer(x)) /\ wire[Peer(x)] # <<>>
      /\ wire' = [wire EXCEPT ![Peer(x)] = <<>>]
      /\ UNCHANGED choices /\ UNCHANGED <<end, Messages, produced, sent, received, broken>>
  BY DEF Reset
<1>2. /\ wire'[Peer(x)] = <<>> /\ wire'[x] = wire[x] /\ Peer(x) # x
      /\ TheMode' = TheMode /\ \A y \in End : Ended(y)' <=> Ended(y)
  BY <1>1 DEF Types, TheMode, Ended
<1>3. Types'
  BY <1>1 DEF Types, choices
<1>4. ModesAgree' /\ SenderInv' /\ ReceiverInv' /\ OrderInv'
  BY <1>1, <1>2, ModesKept, SenderKept, ReceiverKept, OrderKept
<1>5. OpeningInv'
  <2>1. CASE x = "receiver"
    BY <1>1, <1>2, <2>1, Frame DEF OpeningInv, Ended
  <2>2. CASE x = "sender"
    BY <1>1, <1>2, <2>2, Frame DEF OpeningInv, Ended
  <2> QED
    BY <2>1, <2>2
<1>6. ASSUME NEW y \in End PROVE Given(y)'
  BY <1>1, GivenKept
<1>7. Linked(x)'
  BY <1>1, <1>2 DEF Linked
<1>8. Linked(Peer(x))'
  <2> DEFINE y == Peer(x)
  <2>1. y \in End /\ Peer(y) = x
    OBVIOUS
  <2> HIDE DEF y
  <2>2. At(y)' = At(y) /\ At(y) \in Position
    BY <1>1, <1>2, <2>1, Frame, AtTypes DEF At, SenderAt, ReceiverAt
  <2>3. Reads(Stream(y)', sent'[Peer(y)], wire'[y], At(y)', At(y))
    BY <1>2, <2>1, <2>2, ReadsNothing DEF y
  <2> QED
    BY <1>1, <1>2, <2>1, <2>2, <2>3 DEF Linked, Resets, y
<1>9. ASSUME NEW y \in End PROVE Linked(y)'
  BY <1>7, <1>8
<1>10. ReplyInv'
  BY <1>1, <1>2, Frame DEF ReplyInv, Ended
<1>11. TurnsInv'
  <2>1. CASE x = "receiver"
    BY <1>1, <1>2, <2>1 DEF TurnsInv
  <2>2. CASE x = "sender"
    <3>1. end["sender"].pc \in {"done", "failed"} /\ end'["sender"].pc = end["sender"].pc
      BY <1>1, <2>2 DEF Ended
    <3>2. end["receiver"].pc = "start" => end["sender"].pc # "done"
      BY <1>1, <2>2, <3>1 DEF OpeningInv, Types
    <3>3. wire'["receiver"] = <<>> /\ NoHeader(<<>>)
      BY <1>2, <2>2 DEF NoHeader
    <3>4. /\ WithAnswers' = WithAnswers /\ InPackets' = InPackets
          /\ Ended("receiver")' = Ended("receiver") /\ end' = end
      BY <1>1, <1>2, Frame DEF Ended
    <3>5. WithAnswers /\ InPackets /\ ~Ended("receiver") /\ end["sender"].pc = "done" =>
            end["receiver"].pc \notin {"answer", "start"}
      BY <3>2 DEF TurnsInv
    <3> QED
      BY <3>1, <3>3, <3>4, <3>5 DEF TurnsInv
  <2> QED
    BY <2>1, <2>2
\* Only the receiver of a sound connection leaves something unread.
<1>12. ASSUME Sound PROVE x = "receiver" /\ end["sender"].pc # "failed"
  BY <1>1, <1>12 DEF UnreadInv, Ended
<1>13. DoneInv'
  BY <1>1, <1>2, <1>12, SoundKept, Frame DEF DoneInv
<1>14. UnreadInv'
  <2>1. Sound => OneHeaderInv'
    BY <1>1, <1>2, <1>12, Frame DEF UnreadInv, OneHeaderInv
  <2> QED
    BY <1>1, <1>2, <1>12, <2>1, SoundKept, Frame DEF UnreadInv
<1>15. FailsOnlyWhenBroken'
  BY <1>1, <1>2, FailsKept
<1> QED
  BY <1>3, <1>4, <1>5, <1>6, <1>9, <1>10, <1>11, <1>13, <1>14, <1>15

\* Produce: an end is given a message.
LEMMA ProduceStep ==
  ASSUME TransferInv, NEW x \in End, Produce(x)
  PROVE  TransferInv'
<1> USE Ends DEF TransferInv
<1> DEFINE n == produced[x] + 1
<1>1. /\ produced[x] < Len(MessageSizes[x])
      /\ produced' = [produced EXCEPT ![x] = n]
      /\ Messages' = [Messages EXCEPT ![x] = Append(@, n)]
      /\ UNCHANGED choices /\ UNCHANGED <<end, wire, sent, received, broken>>
  BY DEF Produce
<1>2. produced[x] \in Nat /\ n \in Nat /\ Messages[x] \in Seq(Nat) /\ TheMode' = TheMode
  <2>1. produced[x] \in Nat /\ Messages[x] \in Seq(Nat)
    BY DEF Types
  <2> QED
    BY <1>1, <2>1 DEF TheMode
<1>3. Types'
  <2>1. Append(Messages[x], n) \in Seq(Nat)
    BY <1>2
  <2> HIDE DEF n
  <2>2. Messages' \in [End -> Seq(Nat)]
    BY <1>1, <2>1 DEF Types
  <2>3. produced' \in [End -> Nat]
    BY <1>1, <1>2 DEF Types
  <2>4. /\ outgoing' = outgoing /\ tunnel' = tunnel /\ broken' = broken
        /\ minPacketSize' = minPacketSize /\ fileHeaderSize' = fileHeaderSize
        /\ transferSize' = transferSize /\ end' = end /\ wire' = wire
        /\ sent' = sent /\ received' = received
    BY <1>1 DEF choices
  <2> QED
    BY <2>2, <2>3, <2>4 DEF Types
<1>4. ModesAgree' /\ SenderInv' /\ ReceiverInv' /\ OrderInv' /\ FailsOnlyWhenBroken'
  BY <1>1, <1>2, ModesKept, SenderKept, ReceiverKept, OrderKept, FailsKept DEF Ended
<1>5. OpeningInv' /\ ReplyInv' /\ DoneInv'
  BY <1>1, <1>2, Frame DEF OpeningInv, ReplyInv, DoneInv, Sound, Ended
<1>6. TurnsInv'
  BY <1>1, <1>2, Frame DEF TurnsInv, Ended, Caught
<1>7. ASSUME NEW y \in End PROVE Given(y)'
  <2>1. CASE y # x
    BY <1>1, <2>1 DEF Given, Types
  <2>2. CASE y = x
    <3>1. /\ produced'[x] = n /\ Messages'[x] = Append(Messages[x], n) /\ sent'[x] = sent[x]
          /\ n <= Len(MessageSizes[x])
      <4>1. Len(MessageSizes[x]) \in Nat
        BY ConstantsAssumption DEF End
      <4>2. n <= Len(MessageSizes[x]) /\ sent'[x] = sent[x]
        BY <1>1, <1>2, <4>1
      <4>3. produced'[x] = n /\ Messages'[x] = Append(Messages[x], n)
        <5>1. produced \in [End -> Nat] /\ Messages \in [End -> Seq(Nat)]
          BY DEF Types
        <5> HIDE DEF n
        <5> QED
          BY <1>1, <5>1
      <4> QED
        BY <4>2, <4>3
    <3>2. 1 .. produced[x] \in SUBSET (1 .. n) /\ n \in 1 .. n
      BY <1>2
    <3>3. Messages[x] \in Seq(1 .. n) /\ sent[x] \in Seq(1 .. n)
      BY <3>2, SeqOfSubset DEF Given
    <3>4. Append(Messages[x], n) \in Seq(1 .. n)
      BY <3>2, <3>3
    <3> QED
      BY <2>2, <3>1, <3>3, <3>4 DEF Given
  <2> QED
    BY <2>1, <2>2
<1>8. ASSUME NEW y \in End PROVE Linked(y)'
  <2>1. At(y)' = At(y)
    BY <1>1, <1>2, Frame DEF At, SenderAt, ReceiverAt
  <2>2. \A t \in Position : AtEnd(y, t) => AtEnd(y, t)'
    BY <1>1, <1>2, Frame DEF AtEnd
  <2> QED
    BY <1>1, <1>2, <2>1, <2>2, Frame, LinkedKept DEF Ended
<1>9. UnreadInv'
  BY <1>1, <1>2, UnreadKept
<1> QED
  BY <1>3, <1>4, <1>5, <1>6, <1>7, <1>8, <1>9

\* An end that has nothing to read, while the other one has not failed, has read
\* everything the other one wrote.
LEMMA NothingLeft ==
  ASSUME NEW x \in End, Types, Linked(x), ~Ended(x), wire[x] = <<>>,
         end[Peer(x)].pc # "failed", ~Resets(Peer(x)) \/ ~Ended(Peer(x))
  PROVE  AtEnd(x, At(x))
<1>1. PICK t \in Position : Reads(Stream(x), sent[Peer(x)], <<>>, At(x), t) /\ AtEnd(x, t)
  BY DEF Linked
<1> QED
  BY <1>1, AtTypes, ReadsNothing

\* ReadsEnd: an end finds its stream closed, which only a finished peer leaves.
LEMMA ReadsEndStep ==
  ASSUME TransferInv, NEW x \in End, ReadsEnd(x)
  PROVE  TransferInv'
<1> USE Ends DEF TransferInv
<1>1. /\ Reading(x) /\ wire[x] = <<>> /\ Ended(Peer(x))
      /\ end' = [end EXCEPT ![x].pc = "failed"]
      /\ UNCHANGED choices /\ UNCHANGED <<wire, Messages, produced, sent, received, broken>>
  BY DEF ReadsEnd, Goes
<1>2. ~Ended(x)
  BY <1>1 DEF Reading, Ended
<1>3. FailsOnlyWhenBroken'
  <2>1. end'["sender"].mode = end["sender"].mode /\ end'[x].pc = "failed" /\ end'[Peer(x)] = end[Peer(x)]
    <3>1. end[x] \in EndRecord /\ end' = [end EXCEPT ![x] = [end[x] EXCEPT !.pc = "failed"]]
      BY <1>1 DEF Types
    <3>2. end'[x] = [end[x] EXCEPT !.pc = "failed"] /\ end'[Peer(x)] = end[Peer(x)]
      BY <1>1, <3>1 DEF Types
    <3>3. [end[x] EXCEPT !.pc = "failed"].pc = "failed" /\ [end[x] EXCEPT !.pc = "failed"].mode = end[x].mode
      BY <3>1 DEF EndRecord
    <3> QED
      BY <3>2, <3>3
  <2> SUFFICES ASSUME Sound PROVE x = "sender" /\ PaddingUnread'
    <3>1. TheMode' = TheMode
      BY <2>1 DEF TheMode
    <3>2. Sound' => Sound
      BY <1>1, <3>1, SoundKept
    <3>3. Sound => end["receiver"].pc # "failed"
      BY SoundEnds
    <3> QED
      BY <2>1, <3>2, <3>3 DEF FailsOnlyWhenBroken, Sound, TheMode
  <2>2. end[Peer(x)].pc = "done" /\ end[x].pc # "failed"
    BY <1>1, <1>2, SoundEnds DEF Ended
  <2>3. CASE x = "sender"
    <3>1. /\ end["sender"].pc = "last" /\ end["sender"].count >= SenderMax
          /\ Len(received["receiver"]) = Len(sent["sender"]) /\ wire["receiver"] # <<>>
      BY <1>1, <2>2, <2>3 DEF DoneInv, Reading
    <3>2. outgoing /\ IsFile /\ end["sender"].count > SenderMax /\ end["sender"].max = SenderMax
      BY <2>2, <2>3, <3>1 DEF UnreadInv, SenderInv
    <3>3. received["receiver"] = sent["sender"]
      BY <3>1, PrefixRange DEF OrderInv, Types
    <3>4. TheMode' = TheMode /\ end'["sender"].count = end["sender"].count
          /\ end'["sender"].max = end["sender"].max
      BY <1>1, <2>1, <2>3 DEF Types, EndRecord, TheMode
    <3>5. IsFile' /\ outgoing'
      BY <1>1, <3>2, <3>4, Frame
    <3> QED
      BY <1>1, <2>1, <2>2, <2>3, <3>1, <3>2, <3>3, <3>4, <3>5 DEF PaddingUnread, IsFile, TheMode
  <2>4. CASE x = "receiver"
    <3>1. AtEnd("receiver", At("receiver"))
      <4>1. ~Resets("sender")
        BY <1>1, <2>4 DEF UnreadInv, Resets, Sound
      <4> QED
        BY <1>1, <1>2, <2>2, <2>4, <4>1, NothingLeft
    <3>2. /\ At("receiver").phase = "data" /\ At("receiver").rest = 0
          /\ At("receiver").index = end["sender"].count
      BY <2>2, <2>4, <3>1 DEF AtEnd
    <3>3. end["sender"].count >= SenderMax /\ ReceiverMax = SenderMax
      <4>1. end["sender"].pc = "done" /\ ~Ended("receiver")
        BY <1>2, <2>2, <2>4
      <4> QED
        BY <4>1, Bounds DEF SenderInv, Sound
    <3>4. /\ end["receiver"].count = end["sender"].count
          /\ end["receiver"].pc \notin {"start", "getReply", "file"}
          /\ end["receiver"].pc = "body" => ~InPackets
      <4>1. end["receiver"].count = end["sender"].count
        BY <3>2, AtTypes
      <4>2. end["receiver"].pc = "start" => outgoing
        BY <1>1, <2>4 DEF Reading
      <4>3. end["receiver"].pc \in {"start", "getReply"} => Opens
        BY <4>2 DEF Opens, ReceiverInv
      <4>4. end["receiver"].pc \notin {"start", "getReply", "file"}
        BY <3>2, <4>3, AtTypes
      <4>5. end["receiver"].pc = "body" => ~InPackets
        <5>1. end["receiver"].pc = "body" /\ InPackets => end["receiver"].left = 0
          BY <3>2, AtTypes
        <5>2. end["receiver"].pc = "body" => end["receiver"].left > 0
          BY DEF ReceiverInv
        <5>3. end["receiver"].left \in Nat
          BY EndTypes
        <5> QED
          BY <5>1, <5>2, <5>3
      <4> QED
        BY <4>1, <4>4, <4>5
    <3>5. end["receiver"].count \in Nat /\ ReceiverMax \in Nat
      BY Bounds DEF Types, EndRecord
    <3>6. CASE end["receiver"].pc = "body"
      BY <3>3, <3>4, <3>5, <3>6 DEF ReceiverInv
    <3>7. CASE end["receiver"].pc = "receiving"
      BY <1>1, <2>4, <3>3, <3>4, <3>5, <3>7 DEF ReceiverInv, Reading
    <3> QED
      BY <1>1, <2>4, <3>4, <3>6, <3>7 DEF Reading, ReceiverInv
  <2> QED
    BY <2>3, <2>4
<1>4. broken' \in BOOLEAN /\ (broken => broken')
  BY <1>1 DEF Types
<1> QED
  BY <1>1, <1>3, <1>4, EndFails

-----------------------------------------------------------------------------
(* The steps of the receiver *)

\* An answer without payload.
LEMMA EmptyAnswer ==
  ASSUME Types, NEW written, NEW t \in Position, AtEnd("sender", t)
  PROVE  \E u \in Position : /\ Reads(Stream("sender"), written, <<Header(0)>>, t, u)
                             /\ u.phase = "data" /\ u.rest = 0 /\ u.got = t.got
<1> DEFINE u == Pos("data", 0, 0, t.got)
<1>1. Stream("sender").chunks /\ Stream("sender").from # "sender"
  BY StreamTypes, Ends
<1>2. t.phase = "data" /\ t.rest = 0
  BY DEF AtEnd
<1>3. u \in Position /\ u.phase = "data" /\ u.rest = 0 /\ u.got = t.got
  BY DEF Position, Pos
<1>4. TakesHeader(Stream("sender"), t, Header(0), u)
  BY <1>1, <1>2 DEF TakesHeader, Header
<1>5. Reads(Stream("sender"), written, <<Header(0)>>, t, u)
  BY <1>3, <1>4, ReadsOne DEF Takes
<1> QED
  BY <1>3, <1>5

\* The header of an opening is an item.
LEMMA HeaderItem == Header(0) \in Item /\ <<Header(0)>> \in Seq(Item) /\ NoHeader(<<>>)
BY DEF Item, Header, NoHeader

\* ClientStartsGet: the client asks for the stream it will read.
LEMMA ClientStartsGetStep ==
  ASSUME TransferInv, ClientStartsGet
  PROVE  TransferInv'
<1> USE Ends DEF TransferInv
<1> DEFINE e == end["receiver"]
           pc == IF IsFile THEN "getReply" ELSE "receiving"
<1>1. /\ ~outgoing /\ e.pc = "start"
      /\ wire' = (IF Ended("sender") THEN wire ELSE [wire EXCEPT !["sender"] = @ \o <<Header(0)>>])
      /\ end' = [end EXCEPT !["receiver"].pc = pc, !["receiver"].max = transferSize]
      /\ UNCHANGED choices /\ UNCHANGED <<Messages, produced, sent, received, broken>>
  <2>1. OneFile(e.mode) = IsFile
    BY DEF ModesAgree, IsFile
  <2> QED
    BY <2>1 DEF ClientStartsGet, Write
<1>2. end["sender"].pc \in {"start", "failed"} /\ wire["sender"] = <<>>
  BY <1>1 DEF OpeningInv
<1>3. /\ end'["receiver"] = [e EXCEPT !.pc = pc, !.max = transferSize]
      /\ end'["sender"] = end["sender"] /\ e \in EndRecord /\ transferSize \in Nat
      /\ wire'["receiver"] = wire["receiver"]
      /\ wire'["sender"] = (IF Ended("sender") THEN wire["sender"] ELSE wire["sender"] \o <<Header(0)>>)
  BY <1>1, Bounds DEF Types
<1>4. /\ end'["receiver"].pc = pc /\ end'["receiver"].max = transferSize
      /\ end'["receiver"].count = e.count /\ end'["receiver"].mode = e.mode
      /\ end'["receiver"].left = e.left /\ end'["receiver"].all = e.all
      /\ TheMode' = TheMode
  BY <1>3 DEF EndRecord, TheMode
<1>5. Types'
  <2>1. pc \in Pc
    BY DEF Pc
  <2>2. [e EXCEPT !.pc = pc, !.max = transferSize] \in EndRecord
    <3> HIDE DEF pc
    <3> QED
      BY <1>3, <2>1 DEF EndRecord
  <2>3. wire["sender"] \o <<Header(0)>> \in Seq(Item)
    BY HeaderItem DEF Types
  <2> QED
    BY <1>1, <1>3, <2>2, <2>3 DEF Types, choices
<1>6. ModesAgree'
  BY <1>1, <1>4, ModesKept
<1>7. SenderInv'
  BY <1>1, <1>3, <1>4, SenderKept DEF Ended
<1>8. ReceiverInv'
  BY <1>1, <1>3, <1>4, Frame, Bounds DEF ReceiverInv, ReceiverMax
<1>9. OpeningInv'
  <2>1. ~Ended("sender") => wire'["sender"] = <<Header(0)>>
    BY <1>2, <1>3
  <2> QED
    BY <1>1, <1>2, <1>3, <1>4, <2>1, Frame DEF OpeningInv, ReceiverInv, Ended
<1>10. OrderInv'
  BY <1>1, <1>4, OrderKept
<1>11. ASSUME NEW x \in End PROVE Given(x)'
  BY <1>1, GivenKept
<1>12. Linked("sender")'
  <2>1. ASSUME NEW t \in Position, AtEnd("sender", t)
        PROVE  \E u \in Position :
                 /\ Reads(Stream("sender"), sent["receiver"] \o <<>>, <<Header(0)>>, t, u)
                 /\ AtEnd("sender", u)'
    <3>1. PICK u \in Position :
                 /\ Reads(Stream("sender"), sent["receiver"] \o <<>>, <<Header(0)>>, t, u)
                 /\ u.phase = "data" /\ u.rest = 0 /\ u.got = t.got
      BY <2>1, EmptyAnswer
    <3>2. AtEnd("sender", u)'
      BY <1>1, <2>1, <3>1 DEF AtEnd
    <3> QED
      BY <3>1, <3>2
  <2>2. /\ At("sender")' = At("sender") /\ ~Ended("receiver")
        /\ sent["receiver"] \in Seq(Id("receiver")) /\ sent' = sent
    BY <1>1, <1>3, GivenIds DEF At, SenderAt, Ended
  <2>3. sent'["receiver"] = sent["receiver"] \o <<>> /\ <<>> \in Seq(Id("receiver"))
    BY <2>2
  <2> QED
    BY <1>1, <1>3, <1>4, <2>1, <2>2, <2>3, Frame, HeaderItem, LinkedWrites
<1>13. Linked("receiver")'
  <2>1. \A t \in Position : AtEnd("receiver", t) => AtEnd("receiver", t)'
    BY <1>1, <1>3, <1>4, Frame DEF AtEnd
  <2>2. At("receiver")' = At("receiver")
    BY <1>1, <1>3, <1>4, Frame DEF At, ReceiverAt, Opens
  <2> QED
    BY <1>1, <1>3, <1>4, <2>1, <2>2, Frame, LinkedKept DEF Ended
<1>14. ReplyInv' /\ TurnsInv' /\ DoneInv'
  BY <1>2, <1>3, <1>4 DEF ReplyInv, TurnsInv, DoneInv
<1>15. FailsOnlyWhenBroken'
  BY <1>1, <1>3, <1>4, FailsKept DEF Ended
<1>16. UnreadInv'
  <2> SUFFICES ASSUME Sound PROVE OneHeaderInv' /\ ~Ended("sender")'
    BY <1>1, <1>4, SoundKept DEF UnreadInv
  <2>1. end["sender"].pc = "start"
    BY <1>1, <1>2, SoundEnds
  <2>2. wire'["sender"] = <<Header(0)>>
    BY <1>2, <1>3, <2>1 DEF Ended
  <2> QED
    BY <1>1, <1>3, <1>4, <2>1, <2>2, Frame DEF OneHeaderInv, Ended
<1> QED
  BY <1>5, <1>6, <1>7, <1>8, <1>9, <1>10, <1>11, <1>12, <1>13, <1>14, <1>15, <1>16

\* ReadGetReply: the client reads the answer to its request.
LEMMA ReadGetReplyStep ==
  ASSUME TransferInv, ReadGetReply
  PROVE  TransferInv'
<1> USE Ends DEF TransferInv
<1> DEFINE e == end["receiver"]
           item == Head(wire["receiver"])
           pc == IF fileHeaderSize > 0 THEN "file" ELSE "receiving"
<1>1. /\ e.pc = "getReply" /\ wire["receiver"] # <<>> /\ item.kind = "header"
      /\ wire' = [wire EXCEPT !["receiver"] = Tail(@)]
      /\ end' = [end EXCEPT !["receiver"].pc = pc, !["receiver"].max = FileRest]
      /\ UNCHANGED choices /\ UNCHANGED <<Messages, produced, sent, received, broken>>
  BY DEF ReadGetReply, CanRead, Consume, Expected, Next1
<1>2. /\ ~outgoing /\ IsFile /\ Opens /\ e.count = 0 /\ ~WithAnswers /\ ~InPackets
      /\ FileRest = ReceiverMax /\ FileRest \in Nat /\ (fileHeaderSize > 0 <=> HasFile)
  BY <1>1, Bounds DEF ReceiverInv, Opens, ReceiverMax, HasFile, IsFile, OneFile, WithAnswers, InPackets
<1>3. /\ end'["receiver"] = [e EXCEPT !.pc = pc, !.max = FileRest]
      /\ end'["sender"] = end["sender"] /\ e \in EndRecord
      /\ wire'["receiver"] = Tail(wire["receiver"]) /\ wire'["sender"] = wire["sender"]
  BY <1>1 DEF Types
<1>4. /\ end'["receiver"].pc = pc /\ end'["receiver"].max = FileRest
      /\ end'["receiver"].count = e.count /\ end'["receiver"].mode = e.mode
      /\ TheMode' = TheMode
  BY <1>3 DEF EndRecord, TheMode
<1>5. Types'
  <2>1. pc \in Pc
    BY DEF Pc
  <2>2. [e EXCEPT !.pc = pc, !.max = FileRest] \in EndRecord
    <3> HIDE DEF pc
    <3> QED
      BY <1>2, <1>3, <2>1 DEF EndRecord
  <2> QED
    BY <1>1, <1>3, <2>2, TailTypes DEF Types, choices
<1>6. ModesAgree'
  BY <1>1, <1>4, ModesKept
<1>7. SenderInv'
  BY <1>1, <1>3, <1>4, SenderKept DEF Ended
<1>8. ReceiverInv'
  BY <1>1, <1>2, <1>3, <1>4, Frame, Bounds DEF ReceiverInv
<1>9. OpeningInv'
  BY <1>1, <1>2, <1>3, <1>4, Frame DEF OpeningInv
<1>10. OrderInv'
  BY <1>1, <1>4, OrderKept
<1>11. ASSUME NEW x \in End PROVE Given(x)'
  BY <1>1, GivenKept
<1>12. Linked("sender")'
  <2>1. \A t \in Position : AtEnd("sender", t) => AtEnd("sender", t)'
    BY <1>1 DEF AtEnd
  <2>2. At("sender")' = At("sender")
    BY <1>1, <1>3 DEF At, SenderAt
  <2> QED
    BY <1>1, <1>3, <1>4, <2>1, <2>2, Frame, LinkedKept DEF Ended
<1>13. Linked("receiver")'
  <2>1. At("receiver")' = Pos(IF HasFile THEN "file" ELSE "data", 0, e.count, Len(received["receiver"]))
    BY <1>1, <1>2, <1>4, Frame DEF At, ReceiverAt
  <2>2. ASSUME NEW u, Takes(Stream("receiver"), sent["sender"], At("receiver"), item, u)
        PROVE  u = Pos(IF HasFile THEN "file" ELSE "data", 0, e.count, Len(received["receiver"]))
    <3>1. TakesHeader(Stream("receiver"), At("receiver"), item, u)
      BY <1>1, <2>2 DEF Takes, TakesFile, TakesMessage, TakesZero
    <3> QED
      BY <1>1, <1>2, <3>1, AtTypes, StreamTypes DEF TakesHeader
  <2> QED
    BY <1>1, <1>3, <1>4, <2>1, <2>2, Frame, LinkedTakes DEF Ended
<1>14. ReplyInv'
  BY <1>1, <1>2, <1>3, <1>4 DEF ReplyInv, SenderInv
<1>15. TurnsInv' /\ DoneInv'
  BY <1>1, <1>2, <1>3, <1>4, Frame DEF TurnsInv, DoneInv, Sound
<1>16. FailsOnlyWhenBroken'
  BY <1>1, <1>3, <1>4, FailsKept DEF Ended
<1>17. UnreadInv'
  BY <1>1, <1>3, <1>4, UnreadKept DEF Ended
<1> QED
  BY <1>5, <1>6, <1>7, <1>8, <1>9, <1>10, <1>11, <1>12, <1>13, <1>14, <1>15, <1>16, <1>17

\* ReadFileHeader: the receiver reads the header of the file.
LEMMA ReadFileHeaderStep ==
  ASSUME TransferInv, ReadFileHeader
  PROVE  TransferInv'
<1> USE Ends DEF TransferInv
<1> DEFINE e == end["receiver"]
           item == Head(wire["receiver"])
<1>1. /\ e.pc = "file" /\ wire["receiver"] # <<>> /\ item.kind = "file"
      /\ wire' = [wire EXCEPT !["receiver"] = Tail(@)]
      /\ end' = [end EXCEPT !["receiver"].pc = "receiving"]
      /\ UNCHANGED choices /\ UNCHANGED <<Messages, produced, sent, received, broken>>
  BY DEF ReadFileHeader, CanRead, Consume, Expected, Next1, Goes
<1>2. IsFile /\ e.count = 0 /\ ~WithAnswers /\ ~InPackets
  BY <1>1, Bounds DEF ReceiverInv, HasFile, IsFile, OneFile, WithAnswers, InPackets
<1>3. /\ end'["receiver"] = [e EXCEPT !.pc = "receiving"]
      /\ end'["sender"] = end["sender"] /\ e \in EndRecord
      /\ wire'["receiver"] = Tail(wire["receiver"]) /\ wire'["sender"] = wire["sender"]
  BY <1>1 DEF Types
<1>4. /\ end'["receiver"].pc = "receiving" /\ end'["receiver"].max = e.max
      /\ end'["receiver"].count = e.count /\ end'["receiver"].mode = e.mode
      /\ TheMode' = TheMode
  BY <1>3 DEF EndRecord, TheMode
<1>5. Types'
  <2>1. [e EXCEPT !.pc = "receiving"] \in EndRecord
    BY <1>3 DEF EndRecord, Pc
  <2> QED
    BY <1>1, <1>3, <2>1, TailTypes DEF Types, choices
<1>6. ModesAgree'
  BY <1>1, <1>4, ModesKept
<1>7. SenderInv'
  BY <1>1, <1>3, <1>4, SenderKept DEF Ended
<1>8. ReceiverInv'
  BY <1>1, <1>2, <1>3, <1>4, Frame, Bounds DEF ReceiverInv
<1>9. OpeningInv'
  BY <1>1, <1>2, <1>3, <1>4, Frame DEF OpeningInv
<1>10. OrderInv'
  BY <1>1, <1>4, OrderKept
<1>11. ASSUME NEW x \in End PROVE Given(x)'
  BY <1>1, GivenKept
<1>12. Linked("sender")'
  <2>1. \A t \in Position : AtEnd("sender", t) => AtEnd("sender", t)'
    BY <1>1 DEF AtEnd
  <2>2. At("sender")' = At("sender")
    BY <1>1, <1>3 DEF At, SenderAt
  <2> QED
    BY <1>1, <1>3, <1>4, <2>1, <2>2, Frame, LinkedKept DEF Ended
<1>13. Linked("receiver")'
  <2>1. At("receiver")' = Pos("data", 0, e.count, Len(received["receiver"]))
    BY <1>1, <1>2, <1>4, Frame DEF At, ReceiverAt
  <2>2. ASSUME NEW u, Takes(Stream("receiver"), sent["sender"], At("receiver"), item, u)
        PROVE  u = Pos("data", 0, e.count, Len(received["receiver"]))
    <3>1. TakesFile(Stream("receiver"), At("receiver"), item, u)
      BY <1>1, <2>2 DEF Takes, TakesHeader, TakesMessage, TakesZero
    <3> QED
      BY <1>1, <3>1, AtTypes DEF TakesFile
  <2> QED
    BY <1>1, <1>3, <1>4, <2>1, <2>2, Frame, LinkedTakes DEF Ended
<1>14. ReplyInv'
  BY <1>1, <1>2, <1>3, <1>4 DEF ReplyInv, SenderInv
<1>15. TurnsInv' /\ DoneInv'
  BY <1>1, <1>2, <1>3, <1>4, Frame DEF TurnsInv, DoneInv, Sound
<1>16. FailsOnlyWhenBroken'
  BY <1>1, <1>3, <1>4, FailsKept DEF Ended
<1>17. UnreadInv'
  BY <1>1, <1>3, <1>4, UnreadKept DEF Ended
<1> QED
  BY <1>5, <1>6, <1>7, <1>8, <1>9, <1>10, <1>11, <1>12, <1>13, <1>14, <1>15, <1>16, <1>17

\* A receiver that has counted all of the transfer has got all messages.
LEMMA AllCounted ==
  ASSUME TransferInv, end["receiver"].pc = "receiving", end["receiver"].count >= ReceiverMax,
         Sound
  PROVE  /\ end["sender"].pc \in {"last", "done"} /\ end["sender"].count >= SenderMax
         /\ Len(received["receiver"]) = Len(sent["sender"])
         /\ wire["receiver"] # <<>> => end["sender"].count > SenderMax
<1> USE Ends DEF TransferInv
<1>1. PICK t \in Position :
             /\ Reads(Stream("receiver"), sent["sender"], wire["receiver"], At("receiver"), t)
             /\ AtEnd("receiver", t)
  <2>1. ~Ended("receiver") /\ end["sender"].pc # "failed" /\ ~(Resets("sender") /\ Ended("sender"))
    BY SoundEnds DEF UnreadInv, Resets, Sound, Ended
  <2> QED
    BY <2>1 DEF Linked
<1>2. /\ At("receiver") \in Position /\ At("receiver").phase = "data"
      /\ At("receiver").index = end["receiver"].count
      /\ At("receiver").got = Len(received["receiver"])
  BY AtTypes
<1>3. /\ wire["receiver"] \in Seq(Item) /\ sent["sender"] \in Seq(Id("sender"))
      /\ Stream("receiver") \in StreamRecord /\ Stream("receiver").from = "sender"
      /\ Stream("receiver").last = SenderMax /\ ReceiverMax = SenderMax
      /\ SenderMax \in Nat \ {0}
  BY GivenIds, StreamTypes, Bounds DEF Types, Sound
<1>4. t.got = Len(received["receiver"]) /\ t.index >= end["receiver"].count
  BY <1>1, <1>2, <1>3, ReadsForward
<1>5. t.got = Len(sent["sender"]) /\ t.index = end["sender"].count
  BY <1>1 DEF AtEnd
<1>6. end["sender"].count >= SenderMax /\ end["sender"].count \in Nat
  <2>1. end["sender"].count \in Nat /\ end["receiver"].count \in Nat
    BY EndTypes
  <2>2. end["receiver"].count >= SenderMax
    BY <1>3
  <2> QED
    BY <1>3, <1>4, <1>5, <2>1, <2>2
<1>7. end["sender"].pc \in {"last", "done"}
  <2>1. end["sender"].pc \notin {"start", "failed"}
    BY <1>3, <1>6, SoundEnds DEF SenderInv
  <2>2. ~(end["sender"].count < SenderMax)
    BY <1>3, <1>6
  <2> QED
    BY <2>1, <2>2 DEF SenderInv
<1>8. wire["receiver"] # <<>> => end["sender"].count > SenderMax
  <2>1. wire["receiver"] # <<>> => Further(At("receiver"), t)
    BY <1>1, <1>2, <1>3, ReadsForward
  <2>2. end["sender"].pc \in {"last", "done"} /\ At("receiver").rest = 0
    BY <1>7, AtTypes
  <2>3. At("receiver").rest = 0 /\ t.rest = 0
    BY <1>1, <2>2, AtTypes DEF AtEnd
  <2>4. end["receiver"].count \in Nat /\ end["receiver"].count >= SenderMax
    BY <1>3, EndTypes
  <2> QED
    BY <1>2, <1>3, <1>5, <1>6, <2>1, <2>3, <2>4 DEF Further
<1> QED
  BY <1>4, <1>5, <1>6, <1>7, <1>8

\* IncomingEnds: the loop of the receiver ends.
LEMMA IncomingEndsStep ==
  ASSUME TransferInv, IncomingEnds
  PROVE  TransferInv'
<1> USE Ends DEF TransferInv
<1> DEFINE e == end["receiver"]
<1>1. /\ e.pc = "receiving" /\ e.count >= e.max
      /\ wire' = (IF outgoing /\ IsFile /\ ~Ended("sender")
                  THEN [wire EXCEPT !["sender"] = @ \o <<Header(0)>>] ELSE wire)
      /\ end' = [end EXCEPT !["receiver"].pc = "done"]
      /\ UNCHANGED choices /\ UNCHANGED <<Messages, produced, sent, received, broken>>
  <2>1. OneFile(e.mode) = IsFile
    BY DEF ModesAgree, IsFile
  <2> QED
    BY <2>1 DEF IncomingEnds, Write, Finished, Goes
<1>2. e.max = ReceiverMax /\ ReceiverMax \in Nat \ {0} /\ e.count >= ReceiverMax /\ ~Ended("receiver")
  BY <1>1, Bounds DEF ReceiverInv, Ended
<1>3. /\ end'["receiver"] = [e EXCEPT !.pc = "done"]
      /\ end'["sender"] = end["sender"] /\ e \in EndRecord
      /\ wire'["receiver"] = wire["receiver"] /\ wire["sender"] \in Seq(Item)
      /\ wire'["sender"] = (IF outgoing /\ IsFile /\ ~Ended("sender")
                            THEN wire["sender"] \o <<Header(0)>> ELSE wire["sender"])
  BY <1>1 DEF Types
<1>4. /\ end'["receiver"].pc = "done" /\ end'["receiver"].max = e.max
      /\ end'["receiver"].count = e.count /\ end'["receiver"].mode = e.mode
      /\ TheMode' = TheMode /\ Ended("receiver")'
  BY <1>3 DEF EndRecord, TheMode, Ended
<1>5. Types'
  <2>1. [e EXCEPT !.pc = "done"] \in EndRecord
    BY <1>3 DEF EndRecord, Pc
  <2>2. wire["sender"] \o <<Header(0)>> \in Seq(Item)
    BY HeaderItem DEF Types
  <2> QED
    BY <1>1, <1>3, <2>1, <2>2 DEF Types, choices
<1>6. ModesAgree'
  BY <1>1, <1>4, ModesKept
<1>7. SenderInv'
  BY <1>1, <1>2, <1>3, <1>4, SenderKept
<1>8. ReceiverInv'
  BY <1>1, <1>2, <1>3, <1>4, Frame DEF ReceiverInv
<1>9. OpeningInv'
  <2>1. end["sender"].pc # "start"
    BY <1>1, <1>2 DEF OpeningInv, Types
  <2> QED
    BY <1>3, <1>4, <2>1 DEF OpeningInv
<1>10. OrderInv'
  BY <1>1, <1>4, OrderKept
<1>11. ASSUME NEW x \in End PROVE Given(x)'
  BY <1>1, GivenKept
<1>12. Linked("sender")'
  <2>1. At("sender")' = At("sender")
    BY <1>1, <1>3 DEF At, SenderAt
  <2>2. CASE outgoing /\ IsFile
    <3>1. ASSUME NEW t \in Position, AtEnd("sender", t)
          PROVE  \E u \in Position :
                   /\ Reads(Stream("sender"), sent["receiver"] \o <<>>, <<Header(0)>>, t, u)
                   /\ AtEnd("sender", u)'
      <4>1. PICK u \in Position :
                   /\ Reads(Stream("sender"), sent["receiver"] \o <<>>, <<Header(0)>>, t, u)
                   /\ u.phase = "data" /\ u.rest = 0 /\ u.got = t.got
        BY <3>1, EmptyAnswer
      <4>2. AtEnd("sender", u)'
        BY <1>1, <3>1, <4>1 DEF AtEnd
      <4> QED
        BY <4>1, <4>2
    <3>2. /\ sent["receiver"] \in Seq(Id("receiver")) /\ sent' = sent
          /\ wire'["sender"] = (IF Ended("sender") THEN wire["sender"] ELSE wire["sender"] \o <<Header(0)>>)
      BY <1>1, <1>3, <2>2, GivenIds
    <3>3. sent'["receiver"] = sent["receiver"] \o <<>> /\ <<>> \in Seq(Id("receiver"))
      BY <3>2
    <3> QED
      BY <1>1, <1>2, <1>3, <1>4, <2>1, <3>1, <3>2, <3>3, Frame, HeaderItem, LinkedWrites
  <2>3. CASE ~(outgoing /\ IsFile)
    <3>1. \A t \in Position : AtEnd("sender", t) => AtEnd("sender", t)'
      BY <1>1 DEF AtEnd
    <3> QED
      BY <1>1, <1>3, <1>4, <2>1, <2>3, <3>1, Frame, LinkedKept DEF Ended
  <2> QED
    BY <2>2, <2>3
<1>13. Linked("receiver")'
  BY <1>4 DEF Linked
<1>14. ReplyInv' /\ TurnsInv'
  BY <1>4 DEF ReplyInv, TurnsInv
<1>15. DoneInv' /\ UnreadInv'
  <2> SUFFICES ASSUME Sound PROVE DoneInv' /\ UnreadInv'
    BY <1>1, <1>4, SoundKept DEF DoneInv, UnreadInv
  <2>1. /\ end["sender"].pc \in {"last", "done"} /\ end["sender"].count >= SenderMax
        /\ Len(received["receiver"]) = Len(sent["sender"])
        /\ wire["receiver"] # <<>> => end["sender"].count > SenderMax
    BY <1>1, <1>2, AllCounted
  <2>2. ASSUME end["sender"].pc = "last"
        PROVE  outgoing /\ IsFile /\ ~WithAnswers /\ wire'["sender"] = <<Header(0)>>
    <3>1. outgoing /\ IsFile /\ ~WithAnswers
      BY <2>2 DEF SenderInv, IsFile, OneFile, WithAnswers
    <3>2. wire["sender"] = <<>>
      BY <1>1, <3>1 DEF UnreadInv, OneHeaderInv
    <3>3. wire'["sender"] = <<>> \o <<Header(0)>>
      BY <1>3, <2>2, <3>1, <3>2 DEF Ended
    <3> QED
      BY <3>1, <3>3
  <2>3. end["sender"].pc = "done" => wire'["sender"] = <<>>
    BY <1>3 DEF UnreadInv, Ended
  <2>4. DoneInv'
    <3>1. /\ WithAnswers' = WithAnswers /\ InPackets' = InPackets /\ SenderMax' = SenderMax
          /\ sent' = sent /\ received' = received
      BY <1>1, <1>4, Frame
    <3>2. <<Header(0)>> # <<>>
      OBVIOUS
    <3>3. WithAnswers /\ InPackets /\ end["sender"].pc = "done" =>
            Len(received["sender"]) = Len(sent["receiver"])
      BY <1>1 DEF DoneInv
    <3> QED
      BY <1>3, <2>1, <2>2, <3>1, <3>2, <3>3 DEF DoneInv
  <2>5. OneHeaderInv'
    BY <1>1, <1>3, <1>4, <2>1, <2>2, <2>3, Frame DEF OneHeaderInv
  <2> QED
    BY <1>1, <1>3, <1>4, <2>1, <2>3, <2>4, <2>5, Frame DEF UnreadInv, Ended
<1>16. FailsOnlyWhenBroken'
  BY <1>1, <1>3, <1>4, FailsKept DEF Ended
<1> QED
  BY <1>5, <1>6, <1>7, <1>8, <1>9, <1>10, <1>11, <1>12, <1>13, <1>14, <1>15, <1>16

\* Reverse keeps the elements.
LEMMA ReverseFacts ==
  ASSUME NEW S, NEW s \in Seq(S)
  PROVE  Reverse(s) \in Seq(S)
<1>1. Len(s) \in Nat /\ \A i \in 1 .. Len(s) : s[i] \in S /\ (Len(s) - i) + 1 \in 1 .. Len(s)
  OBVIOUS
<1>2. Reverse(s) = [i \in 1 .. Len(s) |-> s[(Len(s) - i) + 1]]
  BY DEF Reverse
<1> QED
  BY <1>1, <1>2

\* AnswerFails: an answer could not be written.
LEMMA AnswerFailsStep ==
  ASSUME TransferInv, AnswerFails
  PROVE  TransferInv'
<1> USE Ends DEF TransferInv
<1> DEFINE e == end["receiver"]
           messages == IF WithPayload(e.mode) THEN Reverse(Messages["receiver"])
                       ELSE Messages["receiver"]
<1>1. /\ e.pc = "answer"
      /\ Messages' = [Messages EXCEPT !["receiver"] = messages]
      /\ end' = [end EXCEPT !["receiver"].pc = "failed"]
      /\ broken' = (broken \/ ~Ended("sender"))
      /\ UNCHANGED choices /\ UNCHANGED <<wire, produced, sent, received>>
  BY DEF AnswerFails, Goes
<1>2. messages \in Seq(Nat) /\ messages \in Seq(1 .. produced["receiver"])
  BY ReverseFacts DEF Types, Given
<1> HIDE DEF messages
<1>3. /\ end'["receiver"] = [e EXCEPT !.pc = "failed"]
      /\ end'["sender"] = end["sender"] /\ e \in EndRecord
      /\ Messages'["receiver"] = messages /\ Messages'["sender"] = Messages["sender"]
      /\ broken' \in BOOLEAN /\ (broken => broken')
  BY <1>1 DEF Types
<1>4. /\ end'["receiver"].pc = "failed" /\ end'["receiver"].max = e.max
      /\ end'["receiver"].count = e.count /\ end'["receiver"].mode = e.mode
      /\ TheMode' = TheMode /\ Ended("receiver")'
  BY <1>3 DEF EndRecord, TheMode, Ended
<1>5. Types'
  <2>1. [e EXCEPT !.pc = "failed"] \in EndRecord
    BY <1>3 DEF EndRecord, Pc
  <2> QED
    BY <1>1, <1>2, <1>3, <2>1 DEF Types, choices
<1>6. ModesAgree'
  BY <1>1, <1>4, ModesKept
<1>7. SenderInv'
  BY <1>1, <1>3, <1>4, SenderKept
<1>8. ReceiverInv'
  BY <1>1, <1>3, <1>4, Frame DEF ReceiverInv
<1>9. OpeningInv'
  <2>1. end["sender"].pc # "start"
    BY <1>1 DEF OpeningInv, Types
  <2> QED
    BY <1>3, <1>4, <2>1 DEF OpeningInv
<1>10. OrderInv'
  BY <1>1, <1>4, OrderKept
<1>11. ASSUME NEW x \in End PROVE Given(x)'
  BY <1>1, <1>2, <1>3 DEF Given
<1>12. Linked("sender")'
  <2>1. At("sender")' = At("sender")
    BY <1>1, <1>3 DEF At, SenderAt
  <2> QED
    BY <1>1, <1>3, <1>4, <2>1, Frame, LinkedKept DEF Ended
<1>13. Linked("receiver")'
  BY <1>4 DEF Linked
<1>14. ~Sound'
  <2> SUFFICES ASSUME Sound' PROVE FALSE
    OBVIOUS
  <2>1. Sound /\ ~broken'
    BY <1>1, <1>3, <1>4, SoundKept DEF Sound
  <2>2. Ended("sender") /\ end["sender"].pc # "failed" /\ WithAnswers /\ InPackets
    BY <1>1, <2>1, SoundEnds DEF ReceiverInv
  <2> QED
    BY <1>1, <2>2 DEF TurnsInv, Ended
<1>15. ReplyInv' /\ TurnsInv' /\ DoneInv' /\ UnreadInv'
  BY <1>4, <1>14 DEF ReplyInv, TurnsInv, DoneInv, UnreadInv
<1>16. FailsOnlyWhenBroken'
  BY <1>14 DEF FailsOnlyWhenBroken, Sound, TheMode
<1> QED
  BY <1>5, <1>6, <1>7, <1>8, <1>9, <1>10, <1>11, <1>12, <1>13, <1>15, <1>16

\* BeforeReceiveMessage: the receiver reads the header of a packet.
LEMMA BeforeReceiveMessageStep ==
  ASSUME TransferInv, BeforeReceiveMessage
  PROVE  TransferInv'
<1> USE Ends DEF TransferInv
<1> DEFINE e == end["receiver"]
           item == Head(wire["receiver"])
           len == IF InPackets THEN item.len ELSE 0
           left == IF len # 0 THEN len ELSE e.max - e.count
<1>1. /\ e.pc = "receiving" /\ e.count < e.max
      /\ InPackets => wire["receiver"] # <<>> /\ item.kind = "header"
      /\ wire' = (IF InPackets THEN [wire EXCEPT !["receiver"] = Tail(@)] ELSE wire)
      /\ end' = [end EXCEPT !["receiver"].pc = "body", !["receiver"].all = (len # 0),
                            !["receiver"].left = left]
      /\ UNCHANGED choices /\ UNCHANGED <<Messages, produced, sent, received, broken>>
  <2>1. Chunked(e.mode) = InPackets
    BY DEF ModesAgree, InPackets
  <2> QED
    BY <2>1 DEF BeforeReceiveMessage, CanRead, Consume, Expected, Next1
<1>2. /\ e \in EndRecord /\ e.max = ReceiverMax /\ ReceiverMax \in Nat /\ e.count \in Nat
      /\ ~Ended("receiver") /\ InPackets \in BOOLEAN
  <2>1. InPackets \in BOOLEAN
    BY Ends DEF Types, EndRecord, TheMode, InPackets, Chunked, ModeRecord
  <2> QED
    BY <1>1, <2>1, Bounds DEF ReceiverInv, Ended, Types, EndRecord
<1>3. ASSUME NEW u \in Position,
             Takes(Stream("receiver"), sent["sender"], At("receiver"), item, u), InPackets
      PROVE  item.len > 0 /\ u = Pos("data", item.len, e.count, Len(received["receiver"]))
  <2>1. TakesHeader(Stream("receiver"), At("receiver"), item, u)
    BY <1>1, <1>3 DEF Takes, TakesFile, TakesMessage, TakesZero
  <2>2. /\ At("receiver").phase = "data" /\ At("receiver").index = e.count
        /\ At("receiver").got = Len(received["receiver"]) /\ Stream("receiver").from = "sender"
    BY <1>1, AtTypes, StreamTypes
  <2> QED
    BY <2>1, <2>2 DEF TakesHeader
<1>4. InPackets => item.len > 0 /\ item.len \in Nat
  <2> SUFFICES ASSUME InPackets PROVE item.len > 0 /\ item.len \in Nat
    OBVIOUS
  <2>1. PICK u \in Position : Takes(Stream("receiver"), sent["sender"], At("receiver"), item, u)
    BY <1>1, <1>2, NextItem
  <2> QED
    BY <1>1, <1>3, <2>1, TailTypes, ItemFacts
<1>5. /\ left \in Nat /\ left > 0 /\ ((len # 0) = InPackets)
      /\ left = (IF InPackets THEN item.len ELSE ReceiverMax - e.count)
  BY <1>1, <1>2, <1>4
<1> HIDE DEF len, left
<1>6. /\ end'["receiver"] = [e EXCEPT !.pc = "body", !.all = InPackets, !.left = left]
      /\ end'["sender"] = end["sender"]
      /\ wire'["receiver"] = (IF InPackets THEN Tail(wire["receiver"]) ELSE wire["receiver"])
      /\ wire'["sender"] = wire["sender"]
  BY <1>1, <1>5 DEF Types
<1>7. /\ end'["receiver"].pc = "body" /\ end'["receiver"].max = e.max
      /\ end'["receiver"].count = e.count /\ end'["receiver"].mode = e.mode
      /\ end'["receiver"].all = InPackets /\ end'["receiver"].left = left
      /\ TheMode' = TheMode
  BY <1>2, <1>6 DEF EndRecord, TheMode
<1>8. Types'
  <2>1. [e EXCEPT !.pc = "body", !.all = InPackets, !.left = left] \in EndRecord
    BY <1>2, <1>5 DEF EndRecord, Pc
  <2>2. InPackets => Tail(wire["receiver"]) \in Seq(Item)
    BY <1>1, TailTypes
  <2>3. end' \in [End -> EndRecord]
    BY <1>1, <1>5, <2>1 DEF Types
  <2>4. wire' \in [End -> Seq(Item)]
    BY <1>1, <2>2 DEF Types
  <2> QED
    BY <1>1, <2>3, <2>4 DEF Types, choices
<1>9. ModesAgree'
  BY <1>1, <1>7, ModesKept
<1>10. SenderInv'
  BY <1>1, <1>6, <1>7, SenderKept DEF Ended
<1>11. ReceiverInv'
  BY <1>1, <1>2, <1>5, <1>7, Frame DEF ReceiverInv
<1>12. OpeningInv'
  BY <1>1, <1>6, <1>7, Frame DEF OpeningInv
<1>13. OrderInv'
  BY <1>1, <1>7, OrderKept
<1>14. ASSUME NEW x \in End PROVE Given(x)'
  BY <1>1, GivenKept
<1>15. Linked("sender")'
  <2>1. \A t \in Position : AtEnd("sender", t) => AtEnd("sender", t)'
    BY <1>1 DEF AtEnd
  <2>2. At("sender")' = At("sender")
    BY <1>1, <1>6 DEF At, SenderAt
  <2> QED
    BY <1>1, <1>6, <1>7, <2>1, <2>2, Frame, LinkedKept DEF Ended
<1>16. Linked("receiver")'
  <2>1. At("receiver")' = Pos("data", IF InPackets THEN left ELSE 0, e.count, Len(received["receiver"]))
    BY <1>1, <1>7, Frame DEF At, ReceiverAt
  <2>2. CASE InPackets
    BY <1>1, <1>2, <1>3, <1>5, <1>6, <1>7, <2>1, <2>2, Frame, LinkedTakes
  <2>3. CASE ~InPackets
    <3>1. At("receiver")' = At("receiver")
      BY <1>1, <2>1, <2>3 DEF At, ReceiverAt
    <3>2. \A t \in Position : AtEnd("receiver", t) => AtEnd("receiver", t)'
      BY <1>1, <1>6, <1>7, Frame DEF AtEnd
    <3> QED
      BY <1>1, <1>2, <1>6, <1>7, <2>3, <3>1, <3>2, Frame, LinkedKept DEF Ended
  <2> QED
    BY <2>2, <2>3
<1>17. ReplyInv'
  BY <1>1, <1>2, <1>6, <1>7, Frame DEF ReplyInv, Ended
<1>18. TurnsInv'
  <2> SUFFICES ASSUME WithAnswers, InPackets
               PROVE  /\ end["sender"].pc \notin {"sending", "payload"}
                      /\ end["sender"].pc = "reply" => wire["sender"] = <<>>
                      /\ end["sender"].pc \in {"reply", "done"} => NoHeader(Tail(wire["receiver"]))
    <3>1. WithAnswers' = WithAnswers /\ InPackets' = InPackets
      BY <1>1, <1>7, Frame
    <3> QED
      BY <1>6, <1>7, <3>1 DEF TurnsInv
  <2> QED
    BY <1>1, <1>2 DEF TurnsInv, Caught
<1>19. DoneInv'
  BY <1>1, <1>6, <1>7, Frame DEF DoneInv, Sound
<1>20. FailsOnlyWhenBroken'
  BY <1>1, <1>6, <1>7, FailsKept DEF Ended
<1>21. UnreadInv'
  BY <1>1, <1>6, <1>7, UnreadKept DEF Ended
<1> QED
  BY <1>8, <1>9, <1>10, <1>11, <1>12, <1>13, <1>14, <1>15, <1>16, <1>17, <1>18, <1>19, <1>20, <1>21

\* What the receiver still has to read, from u, of what the sender wrote.
LEMMA StillToRead ==
  ASSUME Types, Given("sender"), NEW w \in Seq(Item), NEW u \in Position, NEW t \in Position,
         u.phase = "data", Reads(Stream("receiver"), sent["sender"], w, u, t)
  PROVE  /\ InPackets /\ u.rest = 0 /\ NoHeader(w) => w = <<>>
         /\ AtEnd("receiver", t) =>
              /\ u.index <= end["sender"].count /\ u.got <= Len(sent["sender"])
              /\ w = <<>> => u.index = end["sender"].count
              /\ u.index = end["sender"].count => u.rest = 0
<1> USE Ends
<1>1. /\ sent["sender"] \in Seq(Id("sender")) /\ Stream("receiver") \in StreamRecord
      /\ Stream("receiver").from = "sender" /\ (InPackets => Stream("receiver").chunks)
  BY GivenIds, StreamTypes
<1>2. InPackets /\ u.rest = 0 /\ NoHeader(w) => w = <<>>
  BY <1>1, PacketEnds
<1>3. /\ u.index <= t.index /\ u.got <= t.got
      /\ w # <<>> => Further(u, t)
  BY <1>1, ReadsForward
<1>4. w = <<>> => u = t
  BY ReadsNothing
<1>5. ASSUME AtEnd("receiver", t)
      PROVE  t.index = end["sender"].count /\ t.rest = 0 /\ t.got = Len(sent["sender"])
  BY <1>5 DEF AtEnd
<1> QED
  BY <1>2, <1>3, <1>4, <1>5 DEF Further, Position

\* ReadBody: the receiver reads a message or the zeros of a packet.
LEMMA ReadBodyStep ==
  ASSUME TransferInv, ReadBody
  PROVE  TransferInv'
<1> USE Ends DEF TransferInv
<1> DEFINE item == Head(wire["receiver"])
           e == end["receiver"]
           s == end["sender"]
           size == ItemSize("receiver", item)
           more == e.left > size /\ (item.kind = "zero" \/ e.all)
           due == WithAnswers /\ ~(e.count + size >= e.max)
           pc == IF more THEN "body" ELSE IF due THEN "answer" ELSE "receiving"
           left == AtLeast(0, e.left - size)
           got == IF item.kind = "zero" THEN received["receiver"]
                  ELSE Append(received["receiver"], item.id)
           rest == IF InPackets THEN e.left - size ELSE 0
<1>1. /\ e.pc = "body" /\ wire["receiver"] # <<>> /\ item.kind \in {"message", "zero"}
      /\ wire' = [wire EXCEPT !["receiver"] = Tail(@)]
      /\ end' = [end EXCEPT !["receiver"].count = @ + size, !["receiver"].left = left,
                            !["receiver"].pc = pc]
      /\ received' = [received EXCEPT !["receiver"] = got]
      /\ UNCHANGED choices /\ UNCHANGED <<Messages, produced, sent, broken>>
  <2>1. e.pc = "body" /\ wire["receiver"] # <<>> /\ item.kind \in {"message", "zero"}
    BY DEF ReadBody, CanRead, Expected, Next1
  <2>2. received' = [received EXCEPT !["receiver"] = got]
    BY DEF ReadBody, Receive, Next1, Types
  <2>3. wire' = [wire EXCEPT !["receiver"] = Tail(@)]
    BY DEF ReadBody, Consume
  <2>4. AnswerDue(e.count + size) <=> due
    BY DEF AnswerDue, Finished, WithAnswers, ModesAgree
  <2>5. end' = [end EXCEPT !["receiver"].count = @ + size, !["receiver"].left = left,
                           !["receiver"].pc = pc]
    BY <2>4 DEF ReadBody, Next1
  <2> QED
    BY <2>1, <2>2, <2>3, <2>5 DEF ReadBody
<1>2. PICK t, u \in Position :
             /\ Takes(Stream("receiver"), sent["sender"], At("receiver"), item, u)
             /\ Reads(Stream("receiver"), sent["sender"], Tail(wire["receiver"]), u, t)
             /\ s.pc = "failed" \/ AtEnd("receiver", t)
  BY <1>1, NextItem DEF Ended
<1>3. /\ e \in EndRecord /\ e.left \in Nat /\ e.count \in Nat /\ e.max \in Nat /\ s.count \in Nat
      /\ item \in Item /\ Tail(wire["receiver"]) \in Seq(Item) /\ ~Ended("receiver")
      /\ sent["sender"] \in Seq(Id("sender")) /\ received["receiver"] \in Seq(Nat)
  BY <1>1, TailTypes, GivenIds DEF Types, EndRecord, Ended
<1>4. /\ e.max = ReceiverMax /\ e.left > 0 /\ e.all = InPackets
      /\ InPackets \/ e.left = ReceiverMax - e.count
      /\ ReceiverMax \in Nat /\ SenderMax \in Nat /\ ReceiverMax <= SenderMax
      /\ (tunnel = "HTTP" => ReceiverMax = SenderMax)
  BY <1>1, Bounds DEF ReceiverInv
\* What is read.
<1>5. ASSUME NEW v \in Position, Takes(Stream("receiver"), sent["sender"], At("receiver"), item, v)
      PROVE  /\ size \in Nat \ {0} /\ got \in Seq(Nat)
             /\ InPackets => size <= e.left
             /\ v = Pos("data", rest, e.count + size, Len(got))
             /\ IsPrefix(got, sent["sender"])
             /\ e.count + size <= CountMax
  <2>1. /\ At("receiver").rest = (IF InPackets THEN e.left ELSE 0)
        /\ At("receiver").index = e.count /\ At("receiver").phase = "data"
        /\ At("receiver").got = Len(received["receiver"])
        /\ Stream("receiver").from = "sender" /\ Stream("receiver").chunks = InPackets
        /\ Stream("receiver").last = SenderMax /\ Stream("receiver").end = CountMax
    <3>1. InPackets \in BOOLEAN
      BY <1>3 DEF Types, EndRecord, TheMode, InPackets, Chunked, ModeRecord
    <3> QED
      BY <1>1, <3>1, AtTypes, StreamTypes
  <2>0. CountMax \in Nat /\ SenderMax <= CountMax
    BY Bounds
  <2>2. CASE item.kind = "zero"
    <3>1. TakesZero(Stream("receiver"), At("receiver"), item, v)
      BY <1>5, <2>2 DEF Takes, TakesHeader, TakesFile, TakesMessage
    <3>2. size = 1 /\ got = received["receiver"]
      BY <2>2 DEF ItemSize
    <3>3. Len(received["receiver"]) + 0 = Len(received["receiver"])
      BY <1>3
    <3>4. /\ InPackets => 1 <= e.left
          /\ v = Pos("data", IF InPackets THEN e.left - 1 ELSE 0, e.count + 1, Len(received["receiver"]))
      BY <2>1, <3>1, <3>3 DEF TakesZero, TakesPart, After
    <3>5. e.count + 1 <= CountMax
      BY <2>1, <3>1, <3>4 DEF TakesZero, Pos
    <3>6. IsPrefix(received["receiver"], sent["sender"])
      BY DEF OrderInv
    <3> HIDE DEF size, got
    <3> QED
      BY <1>3, <3>2, <3>4, <3>5, <3>6
  <2>3. CASE item.kind = "message"
    <3>1. TakesMessage(Stream("receiver"), sent["sender"], At("receiver"), item, v)
      BY <1>5, <2>3 DEF Takes, TakesHeader, TakesFile, TakesZero
    <3>2. size = SizeOf("sender", item.id) /\ got = Append(received["receiver"], item.id)
      BY <2>3 DEF ItemSize
    <3>3. Len(received["receiver"]) < Len(sent["sender"]) /\ item.id = sent["sender"][Len(received["receiver"]) + 1]
      BY <2>1, <3>1 DEF TakesMessage
    <3>4. item.id \in Id("sender") /\ size \in Nat \ {0}
      BY <1>3, <3>2, <3>3, SizePositive
    <3>5. got \in Seq(Nat) /\ Len(got) = Len(received["receiver"]) + 1
      BY <1>3, <3>2, <3>4 DEF Id
    <3>6. /\ InPackets => size <= e.left
          /\ v = Pos("data", rest, e.count + size, Len(got))
      BY <2>1, <3>1, <3>2, <3>5 DEF TakesMessage, TakesPart, After
    <3>7. v.index <= SenderMax
      BY <2>1, <3>1 DEF TakesMessage
    <3>8. e.count + size <= CountMax
      <4>1. v.index = e.count + size
        BY <3>6 DEF Pos
      <4> HIDE DEF size
      <4> QED
        BY <1>3, <1>4, <2>0, <3>4, <3>7, <4>1
    <3>9. IsPrefix(got, sent["sender"])
      <4>1. IsPrefix(received["receiver"], sent["sender"])
        BY DEF OrderInv
      <4>2. sent["sender"] \in Seq(Nat)
        BY DEF Types
      <4> QED
        BY <1>3, <3>2, <3>3, <4>1, <4>2, PrefixNext
    <3> QED
      BY <3>4, <3>5, <3>6, <3>8, <3>9
  <2> QED
    BY <1>1, <2>2, <2>3
<1>6. /\ size \in Nat \ {0} /\ got \in Seq(Nat)
      /\ InPackets => size <= e.left
      /\ u = Pos("data", rest, e.count + size, Len(got))
      /\ IsPrefix(got, sent["sender"])
      /\ e.count + size <= CountMax
  BY <1>2, <1>5
<1> HIDE DEF size, got
<1>7. /\ left \in Nat /\ e.count + size \in Nat
      /\ InPackets => left = e.left - size
      /\ more => left = e.left - size /\ left > 0
      /\ InPackets /\ ~more => rest = 0
      /\ (pc = "body" <=> more)
  <2>1. /\ left \in Nat /\ e.count + size \in Nat
        /\ e.left >= size => left = e.left - size
    <3>1. e.left \in Nat /\ e.count \in Nat /\ size \in Nat
      BY <1>3, <1>6
    <3>2. left = AtLeast(0, e.left - size)
      OBVIOUS
    <3> HIDE DEF e, left
    <3> QED
      BY <3>1, <3>2 DEF AtLeast
  <2>2. InPackets /\ ~more => e.left = size
    BY <1>3, <1>4, <1>6
  <2>3. pc = "body" <=> more
    <3> HIDE DEF more
    <3> QED
      OBVIOUS
  <2>4. more => e.left > size
    OBVIOUS
  <2> HIDE DEF more, pc, left
  <2> QED
    BY <1>3, <1>6, <2>1, <2>2, <2>3, <2>4
<1>8. /\ u.index = e.count + size /\ u.phase = "data" /\ u.rest = rest /\ u.got = Len(got)
  BY <1>6 DEF Pos
<1> HIDE DEF left, more
\* Whether it was all there is.
<1>9. ASSUME s.pc # "failed"
      PROVE  /\ e.count + size <= s.count
             /\ Tail(wire["receiver"]) = <<>> => e.count + size = s.count
             /\ e.count + size = s.count => rest = 0
  <2> HIDE DEF rest
  <2> QED
    BY <1>2, <1>3, <1>8, <1>9, StillToRead
<1>10. /\ end'["receiver"] = [e EXCEPT !.count = e.count + size, !.left = left, !.pc = pc]
       /\ end'["sender"] = s
       /\ wire'["receiver"] = Tail(wire["receiver"]) /\ wire'["sender"] = wire["sender"]
       /\ received'["receiver"] = got /\ received'["sender"] = received["sender"]
  BY <1>1 DEF Types
<1>11. /\ end'["receiver"].pc = pc /\ end'["receiver"].max = e.max
       /\ end'["receiver"].count = e.count + size /\ end'["receiver"].mode = e.mode
       /\ end'["receiver"].left = left /\ end'["receiver"].all = e.all
       /\ TheMode' = TheMode
  BY <1>3, <1>10 DEF EndRecord, TheMode
<1>12. Types'
  <2>1. [e EXCEPT !.count = e.count + size, !.left = left, !.pc = pc] \in EndRecord
    <3>1. pc \in Pc
      BY DEF Pc
    <3> HIDE DEF pc
    <3> QED
      BY <1>3, <1>7, <3>1 DEF EndRecord
  <2> QED
    BY <1>1, <1>3, <1>6, <1>10, <2>1 DEF Types, choices
<1>13. ModesAgree'
  BY <1>1, <1>11, ModesKept
<1>14. SenderInv'
  BY <1>1, <1>10, <1>11, SenderKept DEF Ended
<1>15. ReceiverInv'
  <2>1. /\ pc = "body" => /\ left > 0 /\ e.all = InPackets
                          /\ InPackets \/ left = ReceiverMax - (e.count + size)
        /\ pc = "answer" => WithAnswers /\ e.count + size < ReceiverMax
        /\ pc \in {"body", "answer", "receiving"}
    BY <1>3, <1>4, <1>6, <1>7
  <2>2. e.max <= transferSize
    BY <1>4, Bounds
  <2> HIDE DEF pc
  <2> QED
    BY <1>1, <1>4, <1>6, <1>11, <2>1, <2>2, Frame DEF ReceiverInv
<1>16. s.pc # "start"
  BY <1>1 DEF OpeningInv, Types
<1>17. OpeningInv'
  BY <1>10, <1>11, <1>16 DEF OpeningInv
<1>18. OrderInv'
  BY <1>1, <1>6, <1>10, <1>11, Frame DEF OrderInv
<1>19. ASSUME NEW x \in End PROVE Given(x)'
  BY <1>1, GivenKept
<1>20. Linked("sender")'
  <2>1. \A v \in Position : AtEnd("sender", v) => AtEnd("sender", v)'
    BY <1>1 DEF AtEnd
  <2>2. At("sender")' = At("sender")
    BY <1>1, <1>10 DEF At, SenderAt
  <2>3. end'["receiver"].pc # "failed" /\ e.pc # "failed"
    BY <1>1, <1>11
  <2> QED
    BY <1>1, <1>10, <1>11, <2>1, <2>2, <2>3, Frame, LinkedKept DEF Ended
<1>21. Linked("receiver")'
  <2>1. At("receiver")' = Pos("data", IF pc = "body" /\ InPackets THEN left ELSE 0, e.count + size, Len(got))
    BY <1>1, <1>10, <1>11, Frame DEF At, ReceiverAt
  <2>2. (IF pc = "body" /\ InPackets THEN left ELSE 0) = rest
    BY <1>7
  <2> HIDE DEF pc, rest
  <2>3. \A v \in Position : Takes(Stream("receiver"), sent["sender"], At("receiver"), item, v)
                              => At("receiver")' = v
    BY <1>5, <2>1, <2>2
  <2> QED
    BY <1>1, <1>3, <1>10, <1>11, <2>3, Frame, LinkedTakes
\* The last part of a packet is answered.
<1>22. ASSUME s.pc = "reply", WithAnswers, e.count + size = s.count \/ ~more
       PROVE  /\ ~more => pc = "answer"
              /\ e.count + size = s.count => pc = "answer" \/ ~InPackets
  <2>1. e.count + size <= s.count /\ s.count < SenderMax /\ tunnel = "HTTP"
    BY <1>9, <1>22 DEF SenderInv
  <2>2. due
    BY <1>3, <1>4, <1>7, <1>22, <2>1
  <2>3. e.count + size = s.count /\ InPackets => ~more
    <3> SUFFICES ASSUME e.count + size = s.count, InPackets, more PROVE FALSE
      OBVIOUS
    <3>1. rest = 0
      BY <1>8, <1>9, <1>22
    <3> QED
      BY <1>3, <1>6, <1>7, <3>1
  <2> QED
    BY <2>2, <2>3
<1>23. ReplyInv'
  <2> SUFFICES ASSUME s.pc = "reply"
               PROVE  \/ wire["sender"] # <<>>
                      \/ pc \in {"start", "answer"}
                      \/ WithAnswers /\ InPackets /\ e.count + size < s.count
                      \/ WithAnswers /\ ~InPackets /\ Len(got) < Len(sent["sender"])
    BY <1>1, <1>10, <1>11, Frame DEF ReplyInv
  <2>1. \/ wire["sender"] # <<>>
        \/ WithAnswers /\ InPackets
        \/ WithAnswers /\ ~InPackets /\ Len(received["receiver"]) < Len(sent["sender"])
    BY <1>1, <1>3 DEF ReplyInv
  <2>2. CASE WithAnswers /\ InPackets
    <3>1. e.count + size <= s.count
      BY <1>9
    <3>2. e.count + size = s.count => pc = "answer"
      BY <1>22, <2>2
    <3> QED
      BY <1>3, <1>7, <2>2, <3>1, <3>2
  <2>3. CASE WithAnswers /\ ~InPackets /\ Len(received["receiver"]) < Len(sent["sender"])
    <3>1. CASE item.kind = "zero"
      BY <2>3, <3>1 DEF got
    <3>2. CASE item.kind = "message"
      <4>1. ~more
        BY <1>4, <2>3, <3>2 DEF more
      <4> QED
        BY <1>22, <2>3, <4>1
    <3> QED
      BY <1>1, <3>1, <3>2
  <2> QED
    BY <2>1, <2>2, <2>3
<1>24. TurnsInv'
  <2> SUFFICES ASSUME WithAnswers, InPackets
               PROVE  /\ s.pc \notin {"sending", "payload"}
                      /\ s.pc = "reply" => wire["sender"] = <<>>
                      /\ s.pc \in {"reply", "done"} =>
                           /\ pc = "receiving" => Tail(wire["receiver"]) = <<>>
                           /\ pc = "body" => NoHeader(Tail(wire["receiver"]))
                           /\ pc = "answer" => /\ Tail(wire["receiver"]) = <<>> /\ s.pc = "reply"
                                               /\ e.count + size = s.count
    <3>1. WithAnswers' = WithAnswers /\ InPackets' = InPackets
      BY <1>1, <1>11, Frame
    <3>2. pc # "start"
      OBVIOUS
    <3> HIDE DEF pc
    <3> QED
      BY <1>10, <1>11, <3>1, <3>2 DEF TurnsInv
  <2>1. /\ s.pc \notin {"sending", "payload"}
        /\ s.pc = "reply" => wire["sender"] = <<>>
    BY <1>1, <1>3 DEF TurnsInv, Caught
  <2>2. ASSUME s.pc \in {"reply", "done"} PROVE NoHeader(Tail(wire["receiver"]))
    BY <1>1, <1>3, <2>2, TailTypes DEF TurnsInv
  <2>3. ASSUME s.pc \in {"reply", "done"}, ~more
        PROVE  Tail(wire["receiver"]) = <<>> /\ e.count + size = s.count
    <3>1. Tail(wire["receiver"]) = <<>>
      <4>1. rest = 0
        BY <1>7, <2>3
      <4> HIDE DEF rest
      <4> QED
        BY <1>2, <1>3, <1>8, <2>2, <2>3, <4>1, StillToRead
    <3> QED
      BY <1>8, <1>9, <2>3, <3>1
  <2>4. ASSUME s.pc = "done", ~more PROVE ~due
    <3>1. s.count >= SenderMax
      BY <1>3, <2>4 DEF SenderInv
    <3>2. e.count + size >= ReceiverMax
      BY <1>3, <1>4, <2>3, <2>4, <3>1
    <3> QED
      BY <1>4, <3>2
  <2> QED
    BY <1>7, <2>1, <2>2, <2>3, <2>4
<1>25. DoneInv'
  <2>1. pc # "done"
    OBVIOUS
  <2> HIDE DEF pc
  <2> QED
    BY <1>1, <1>10, <1>11, <2>1, Frame DEF DoneInv, Sound
<1>26. FailsOnlyWhenBroken'
  BY <1>1, <1>10, <1>11, FailsKept DEF Ended
<1>27. UnreadInv'
  <2>1. pc \notin {"start", "done"}
    OBVIOUS
  <2> HIDE DEF pc
  <2> QED
    BY <1>1, <1>10, <1>11, <2>1, UnreadKept
<1> QED
  BY <1>12, <1>13, <1>14, <1>15, <1>17, <1>18, <1>19, <1>20, <1>21, <1>23, <1>24, <1>25, <1>26, <1>27

-----------------------------------------------------------------------------
(* Opening *)

\* The header of the connection and that of the file.
LEMMA OpeningRead ==
  ASSUME Types, NEW written, NEW t \in Position, t.phase = "open", t.rest = 0
  PROVE  LET items == <<Header(0)>> \o (IF IsFile THEN FileHeader ELSE <<>>)
         IN /\ items \in Seq(Item)
            /\ \E u \in Position : /\ Reads(Stream("receiver"), written, items, t, u)
                                   /\ u = Pos("data", 0, t.index, t.got)
<1> DEFINE c == Stream("receiver")
           file == [kind |-> "file"]
           s == Pos("file", 0, t.index, t.got)
           u == Pos("data", 0, t.index, t.got)
           items == <<Header(0)>> \o (IF IsFile THEN FileHeader ELSE <<>>)
<1>1. c.file = HasFile /\ fileHeaderSize \in Nat
  BY StreamTypes, Ends, Bounds
<1>2. s \in Position /\ u \in Position /\ s.phase = "file" /\ s.rest = 0 /\ s.index = t.index /\ s.got = t.got
  BY DEF Position, Pos
<1>3. file \in Item /\ <<file>> \in Seq(Item) /\ <<Header(0)>> \in Seq(Item) /\ file.kind = "file"
  BY HeaderItem DEF Item
<1>4. TakesHeader(c, t, Header(0), Pos(IF HasFile THEN "file" ELSE "data", 0, t.index, t.got))
  BY <1>1 DEF TakesHeader, Header
<1>5. CASE HasFile
  <2>1. Reads(c, written, <<Header(0)>>, t, s)
    BY <1>2, <1>4, <1>5, ReadsOne DEF Takes
  <2>2. TakesFile(c, s, file, u)
    BY <1>2 DEF TakesFile
  <2>3. Reads(c, written, <<file>>, s, u)
    BY <1>2, <2>2, ReadsOne DEF Takes
  <2>4. items = <<Header(0)>> \o <<file>>
    BY <1>1, <1>5 DEF HasFile, FileHeader
  <2> HIDE DEF c, s, u, file, items
  <2>5. Reads(c, written, <<Header(0)>> \o <<file>>, t, u)
    BY <1>3, <2>1, <2>3, ReadsConcat
  <2>6. <<Header(0)>> \o <<file>> \in Seq(Item)
    <3> DEFINE h == <<Header(0)>> f == <<file>>
    <3>1. h \in Seq(Item) /\ f \in Seq(Item)
      BY <1>3
    <3> HIDE DEF h, f
    <3>2. h \o f \in Seq(Item)
      BY <3>1
    <3> QED
      BY <3>2 DEF h, f
  <2>7. items \in Seq(Item) /\ Reads(c, written, items, t, u)
    BY <2>4, <2>5, <2>6
  <2> QED
    BY <1>2, <2>7 DEF u, items, c
<1>6. CASE ~HasFile
  <2>1. Reads(c, written, <<Header(0)>>, t, u)
    BY <1>2, <1>4, <1>6, ReadsOne DEF Takes
  <2>2. items = <<Header(0)>> \o <<>>
    <3>1. IsFile => fileHeaderSize = 0
      BY <1>1, <1>6 DEF HasFile
    <3>2. (IF IsFile THEN FileHeader ELSE <<>>) = <<>>
      BY <3>1 DEF FileHeader
    <3> QED
      BY <3>2
  <2>3. <<Header(0)>> \o <<>> = <<Header(0)>>
    BY <1>3
  <2> HIDE DEF c, u, items
  <2>4. items \in Seq(Item) /\ Reads(c, written, items, t, u)
    BY <1>3, <2>1, <2>2, <2>3
  <2> QED
    BY <1>2, <2>4 DEF u, items, c
<1> QED
  BY <1>5, <1>6

\* ClientStartsPost: the client opens the stream it will write.
LEMMA ClientStartsPostStep ==
  ASSUME TransferInv, ClientStartsPost
  PROVE  TransferInv'
<1> USE Ends DEF TransferInv
<1> DEFINE e == end["sender"]
           items == <<Header(0)>> \o (IF IsFile THEN FileHeader ELSE <<>>)
           pc == IF tunnel = "TCP" \/ IsFile THEN "sending" ELSE "reply"
<1>1. /\ outgoing /\ e.pc = "start"
      /\ wire' = (IF Ended("receiver") THEN wire ELSE [wire EXCEPT !["receiver"] = @ \o items])
      /\ end' = [end EXCEPT !["sender"].pc = pc, !["sender"].max = SenderMax]
      /\ UNCHANGED choices /\ UNCHANGED <<Messages, produced, sent, received, broken>>
  <2>1. OneFile(e.mode) = IsFile
    BY DEF IsFile, TheMode
  <2>2. outgoing /\ (IF tunnel = "TCP" THEN MaxTransferSize ELSE IF IsFile THEN FileRest ELSE transferSize)
                      = SenderMax
    BY DEF ClientStartsPost, SenderMax
  <2> QED
    BY <2>1, <2>2 DEF ClientStartsPost, Write
<1>2. /\ end["receiver"].pc \in {"start", "failed"} /\ wire["receiver"] = <<>> /\ Opens
      /\ e.count = 0 /\ sent["sender"] = <<>> /\ SenderMax \in Nat \ {0} /\ CountMax \in Nat
      /\ end["receiver"].pc = "start" => wire["sender"] = <<>>
  BY <1>1, Bounds DEF OpeningInv, SenderInv, Opens
<1>3. ASSUME NEW t \in Position, AtEnd("receiver", t)
      PROVE  /\ items \in Seq(Item)
             /\ \E u \in Position : /\ Reads(Stream("receiver"), sent["sender"] \o <<>>, items, t, u)
                                    /\ u.phase = "data" /\ u.rest = 0 /\ u.got = t.got
                                    /\ u.index = t.index
  <2>1. t.phase = "open" /\ t.rest = 0
    BY <1>1, <1>2, <1>3 DEF AtEnd
  <2> DEFINE u == Pos("data", 0, t.index, t.got)
  <2>2. /\ items \in Seq(Item) /\ u \in Position
        /\ Reads(Stream("receiver"), sent["sender"] \o <<>>, items, t, u)
    BY <2>1, OpeningRead
  <2>3. u.phase = "data" /\ u.rest = 0 /\ u.got = t.got /\ u.index = t.index
    BY DEF Pos
  <2> HIDE DEF items, u
  <2> QED
    BY <2>2, <2>3
<1>4. items \in Seq(Item)
  <2> DEFINE t == Pos("open", 0, 0, 0)
  <2>1. t \in Position /\ t.phase = "open" /\ t.rest = 0
    BY DEF Position, Pos
  <2> QED
    BY <2>1, OpeningRead
<1> HIDE DEF items
<1>6. /\ end'["sender"] = [e EXCEPT !.pc = pc, !.max = SenderMax]
      /\ end'["receiver"] = end["receiver"] /\ e \in EndRecord
      /\ wire'["sender"] = wire["sender"]
      /\ wire'["receiver"] = (IF Ended("receiver") THEN wire["receiver"] ELSE wire["receiver"] \o items)
  BY <1>1 DEF Types
<1>7. /\ end'["sender"].pc = pc /\ end'["sender"].max = SenderMax
      /\ end'["sender"].count = e.count /\ end'["sender"].mode = e.mode
      /\ end'["sender"].offset = e.offset /\ TheMode' = TheMode
  BY <1>6 DEF EndRecord, TheMode
<1>8. pc \in {"sending", "reply"} /\ (pc = "reply" <=> tunnel = "HTTP" /\ ~IsFile)
  BY DEF Types
<1>9. WithAnswers /\ InPackets => pc = "reply" /\ ~IsFile
  BY DEF ModesAgree, IsFile, OneFile, InPackets
<1> HIDE DEF pc
<1>10. Types'
  <2>1. [e EXCEPT !.pc = pc, !.max = SenderMax] \in EndRecord
    BY <1>2, <1>6, <1>8 DEF EndRecord, Pc
  <2>2. wire["receiver"] \o items \in Seq(Item)
    BY <1>4 DEF Types
  <2> QED
    BY <1>1, <2>1, <2>2 DEF Types, choices
<1>11. ModesAgree'
  BY <1>1, <1>6, <1>7, ModesKept
<1>12. SenderInv'
  BY <1>1, <1>2, <1>7, <1>8, Frame, Bounds DEF SenderInv
<1>13. ReceiverInv'
  BY <1>1, <1>6, <1>7, ReceiverKept
<1>14. OpeningInv'
  BY <1>1, <1>2, <1>6, <1>7, <1>8, Frame DEF OpeningInv
<1>15. OrderInv'
  BY <1>1, <1>7, OrderKept
<1>16. ASSUME NEW x \in End PROVE Given(x)'
  BY <1>1, GivenKept
<1>17. Linked("sender")'
  <2>1. \A t \in Position : AtEnd("sender", t) => AtEnd("sender", t)'
    BY <1>1 DEF AtEnd
  <2>2. At("sender")' = At("sender")
    BY <1>1, <1>6, <1>7, <1>8 DEF At, SenderAt
  <2> QED
    BY <1>1, <1>6, <1>7, <1>8, <2>1, <2>2, Frame, LinkedKept DEF Ended
<1>18. Linked("receiver")'
  <2>1. ASSUME NEW t \in Position, AtEnd("receiver", t)
        PROVE  \E u \in Position :
                 /\ Reads(Stream("receiver"), sent["sender"] \o <<>>, items, t, u)
                 /\ AtEnd("receiver", u)'
    <3>1. PICK u \in Position :
                 /\ Reads(Stream("receiver"), sent["sender"] \o <<>>, items, t, u)
                 /\ u.phase = "data" /\ u.rest = 0 /\ u.got = t.got /\ u.index = t.index
      BY <1>3, <2>1
    <3>2. AtEnd("receiver", u)'
      BY <1>1, <1>7, <1>8, <2>1, <3>1 DEF AtEnd
    <3> QED
      BY <3>1, <3>2
  <2>2. /\ At("receiver")' = At("receiver") /\ ~Ended("sender")
        /\ sent["sender"] \in Seq(Id("sender")) /\ sent' = sent
    BY <1>1, <1>6, <1>7, Frame, GivenIds DEF At, ReceiverAt, Ended
  <2>3. sent'["sender"] = sent["sender"] \o <<>> /\ <<>> \in Seq(Id("sender"))
    BY <2>2
  <2> QED
    BY <1>1, <1>4, <1>6, <1>7, <2>1, <2>2, <2>3, Frame, LinkedWrites
<1>19. ReplyInv'
  BY <1>2, <1>6 DEF ReplyInv, Ended
<1>20. TurnsInv'
  <2> SUFFICES ASSUME WithAnswers, InPackets, ~Ended("receiver")
               PROVE  /\ pc = "reply" /\ wire["sender"] = <<>> /\ end["receiver"].pc = "start"
                      /\ wire'["receiver"] = <<Header(0)>>
    <3>1. WithAnswers' = WithAnswers /\ InPackets' = InPackets /\ Ended("receiver")' = Ended("receiver")
      BY <1>1, <1>6, <1>7, Frame DEF Ended
    <3> QED
      BY <1>2, <1>6, <1>7, <3>1 DEF TurnsInv
  <2>1. wire'["receiver"] = <<>> \o items
    BY <1>2, <1>6
  <2>2. <<>> \o items = items
    BY <1>4
  <2>3. items = <<Header(0)>>
    BY <1>9, HeaderItem DEF items
  <2> QED
    BY <1>2, <1>9, <2>1, <2>2, <2>3 DEF Ended
<1>21. DoneInv'
  BY <1>2, <1>6, <1>7, <1>8 DEF DoneInv
<1>22. FailsOnlyWhenBroken'
  BY <1>1, <1>6, <1>7, <1>8, FailsKept DEF Ended
<1>23. UnreadInv'
  <2>1. Sound => wire["sender"] = <<>> /\ tunnel = "HTTP"
    BY <1>2, SoundEnds DEF Sound
  <2>2. Sound => OneHeaderInv'
    BY <1>1, <1>2, <1>6, <1>7, <1>8, <2>1, Frame DEF OneHeaderInv
  <2> QED
    BY <1>1, <1>6, <1>7, <1>8, <2>2, UnreadSends DEF Ended
<1> QED
  BY <1>10, <1>11, <1>12, <1>13, <1>14, <1>15, <1>16, <1>17, <1>18, <1>19, <1>20, <1>21, <1>22, <1>23

\* ServerStartsPost: the server reads the request of a client that sends.
LEMMA ServerStartsPostStep ==
  ASSUME TransferInv, ServerStartsPost
  PROVE  TransferInv'
<1> USE Ends DEF TransferInv
<1> DEFINE e == end["receiver"]
           item == Head(wire["receiver"])
           accept == IF tunnel = "HTTP" /\ ~IsFile THEN <<Header(0)>> ELSE <<>>
           pc == IF HasFile THEN "file" ELSE "receiving"
<1>1. /\ outgoing /\ e.pc = "start" /\ wire["receiver"] # <<>>
      /\ wire' = [wire EXCEPT !["receiver"] = Tail(@),
                              !["sender"] = IF Ended("sender") THEN @ ELSE @ \o accept]
      /\ end' = [end EXCEPT !["receiver"].mode = TheMode, !["receiver"].pc = pc,
                            !["receiver"].max = ReceiverMax]
      /\ UNCHANGED choices /\ UNCHANGED <<Messages, produced, sent, received, broken>>
  <2>1. ServerMode(end["sender"].mode) = TheMode /\ OneFile(TheMode) = IsFile
    BY DEF ModesAgree, IsFile, TheMode
  <2>2. IsFile /\ fileHeaderSize > 0 <=> HasFile
    BY DEF HasFile
  <2> QED
    BY <2>1, <2>2 DEF ServerStartsPost, ReceiverMax
<1>2. /\ wire["sender"] = <<>> /\ end["sender"].pc # "start" /\ Opens /\ ~Ended("receiver")
      /\ e.count = 0 /\ ReceiverMax \in Nat \ {0} /\ ReceiverMax <= transferSize
      /\ accept \in Seq(Item)
  BY <1>1, Bounds, HeaderItem DEF OpeningInv, ReceiverInv, Opens, Ended
<1>3. tunnel = "HTTP" /\ ~IsFile => accept = <<Header(0)>> /\ accept # <<>> /\ Tail(accept) = <<>>
  BY HeaderItem
<1>4. ~(tunnel = "HTTP" /\ ~IsFile) => accept = <<>>
  OBVIOUS
<1> HIDE DEF accept
<1>5. /\ end'["receiver"] = [e EXCEPT !.mode = TheMode, !.pc = pc, !.max = ReceiverMax]
      /\ end'["sender"] = end["sender"] /\ e \in EndRecord
      /\ wire'["receiver"] = Tail(wire["receiver"]) /\ e.mode = TheMode
      /\ wire'["sender"] = (IF Ended("sender") THEN wire["sender"] ELSE wire["sender"] \o accept)
      /\ ~Ended("sender") => wire'["sender"] = accept
  <2>1. <<>> \o accept = accept
    BY <1>2
  <2> QED
    BY <1>1, <1>2, <2>1 DEF Types, ModesAgree
<1>6. /\ end'["receiver"].pc = pc /\ end'["receiver"].max = ReceiverMax
      /\ end'["receiver"].count = e.count /\ end'["receiver"].mode = e.mode
      /\ TheMode' = TheMode
  BY <1>5 DEF EndRecord, TheMode
<1>7. pc \in {"file", "receiving"} /\ (pc = "file" <=> HasFile) /\ (HasFile => IsFile)
  BY DEF HasFile
<1>8. WithAnswers /\ InPackets => tunnel = "HTTP" /\ ~IsFile /\ pc = "receiving"
  BY DEF ModesAgree, IsFile, OneFile, InPackets, HasFile, Types
<1> HIDE DEF pc
<1>9. Types'
  <2>1. [e EXCEPT !.mode = TheMode, !.pc = pc, !.max = ReceiverMax] \in EndRecord
    <3>1. TheMode \in ModeRecord /\ ReceiverMax \in Nat /\ pc \in Pc
      BY <1>2, <1>5, <1>7 DEF EndRecord, Pc
    <3> QED
      BY <1>5, <3>1 DEF EndRecord
  <2>2. wire["sender"] \o accept \in Seq(Item) /\ Tail(wire["receiver"]) \in Seq(Item)
    BY <1>1, <1>2, TailTypes DEF Types
  <2>3. end' \in [End -> EndRecord]
    BY <1>1, <2>1 DEF Types
  <2>4. wire' \in [End -> Seq(Item)]
    BY <1>1, <2>2 DEF Types
  <2> QED
    BY <1>1, <2>3, <2>4 DEF Types, choices
<1>10. ModesAgree'
  BY <1>1, <1>6, ModesKept
<1>11. SenderInv'
  BY <1>1, <1>2, <1>5, <1>6, SenderKept
<1>12. ReceiverInv'
  BY <1>1, <1>2, <1>6, <1>7, Frame, Bounds DEF ReceiverInv
<1>13. OpeningInv'
  BY <1>1, <1>2, <1>5, <1>6, <1>7, Frame DEF OpeningInv
<1>14. OrderInv'
  BY <1>1, <1>6, OrderKept
<1>15. ASSUME NEW x \in End PROVE Given(x)'
  BY <1>1, GivenKept
<1>16. Linked("sender")'
  <2>1. ASSUME NEW t \in Position, AtEnd("sender", t)
        PROVE  \E u \in Position :
                 /\ Reads(Stream("sender"), sent["receiver"] \o <<>>, accept, t, u)
                 /\ AtEnd("sender", u)'
    <3>1. PICK u \in Position :
                 /\ Reads(Stream("sender"), sent["receiver"] \o <<>>, accept, t, u)
                 /\ u.phase = "data" /\ u.rest = 0 /\ u.got = t.got
      <4>1. CASE accept = <<Header(0)>>
        BY <2>1, <4>1, EmptyAnswer
      <4>2. CASE accept = <<>>
        BY <2>1, <4>2, ReadsNothing DEF AtEnd
      <4> QED
        BY <1>3, <1>4, <4>1, <4>2
    <3>2. AtEnd("sender", u)'
      BY <1>1, <2>1, <3>1 DEF AtEnd
    <3> QED
      BY <3>1, <3>2
  <2>2. /\ At("sender")' = At("sender")
        /\ sent["receiver"] \in Seq(Id("receiver")) /\ sent' = sent
    BY <1>1, <1>5, GivenIds DEF At, SenderAt
  <2>3. sent'["receiver"] = sent["receiver"] \o <<>> /\ <<>> \in Seq(Id("receiver"))
    BY <2>2
  <2> QED
    BY <1>1, <1>2, <1>5, <1>6, <2>1, <2>2, <2>3, Frame, LinkedWrites
<1>17. Linked("receiver")'
  <2>1. At("receiver")' = Pos(IF HasFile THEN "file" ELSE "data", 0, e.count, Len(received["receiver"]))
    BY <1>1, <1>6, <1>7, Frame DEF At, ReceiverAt
  <2>2. ASSUME NEW u, Takes(Stream("receiver"), sent["sender"], At("receiver"), item, u)
        PROVE  u = Pos(IF HasFile THEN "file" ELSE "data", 0, e.count, Len(received["receiver"]))
    <3>1. /\ At("receiver").phase = "open" /\ At("receiver").rest = 0
          /\ At("receiver").index = e.count /\ At("receiver").got = Len(received["receiver"])
          /\ Stream("receiver").file = HasFile
      BY <1>1, <1>2, AtTypes, StreamTypes
    <3>2. TakesHeader(Stream("receiver"), At("receiver"), item, u)
      BY <2>2, <3>1 DEF Takes, TakesFile, TakesMessage, TakesZero, TakesPart
    <3> QED
      BY <3>1, <3>2 DEF TakesHeader
  <2> QED
    BY <1>1, <1>2, <1>5, <1>6, <2>1, <2>2, Frame, LinkedTakes
<1>18. ReplyInv'
  BY <1>3, <1>5 DEF ReplyInv, SenderInv, Ended
<1>19. TurnsInv'
  <2> SUFFICES ASSUME WithAnswers, InPackets
               PROVE  /\ end["sender"].pc \notin {"sending", "payload"}
                      /\ end["sender"].pc = "reply" =>
                           /\ NoHeader(Tail(wire'["sender"])) /\ wire'["receiver"] = <<>>
                           /\ e.count = end["sender"].count /\ pc = "receiving"
                      /\ end["sender"].pc = "done" => wire'["receiver"] = <<>> /\ pc = "receiving"
    <3>1. WithAnswers' = WithAnswers /\ InPackets' = InPackets
      BY <1>1, <1>6, Frame
    <3> QED
      BY <1>5, <1>6, <1>7, <3>1 DEF TurnsInv, Caught
  <2>1. end["sender"].pc \notin {"sending", "payload"}
    BY <1>1, <1>2 DEF TurnsInv, Caught
  <2>2. ASSUME end["sender"].pc \in {"reply", "done"}
        PROVE  wire'["receiver"] = <<>> /\ e.count = end["sender"].count
    <3>1. wire["receiver"] = <<Header(0)>> /\ end["sender"].count = 0
      BY <1>1, <1>2, <2>2 DEF TurnsInv
    <3> QED
      BY <1>2, <1>5, <3>1
  <2>3. end["sender"].pc = "reply" => NoHeader(Tail(wire'["sender"]))
    BY <1>3, <1>5, <1>8, HeaderItem DEF Ended
  <2> QED
    BY <1>8, <2>1, <2>2, <2>3
<1>20. DoneInv'
  BY <1>1, <1>5, <1>6, <1>7, Frame DEF DoneInv, Sound
<1>21. FailsOnlyWhenBroken'
  BY <1>1, <1>5, <1>6, <1>7, FailsKept DEF Ended
<1>22. UnreadInv'
  <2> SUFFICES ASSUME Sound PROVE OneHeaderInv' /\ (Ended("sender")' => wire'["sender"] = <<>>)
    BY <1>1, <1>6, <1>7, SoundKept DEF UnreadInv
  <2>1. Ended("sender")' => wire'["sender"] = <<>>
    BY <1>2, <1>5 DEF Ended
  <2>2. CASE IsFile
    <3>1. wire'["sender"] = <<>>
      BY <1>2, <1>4, <1>5, <2>2
    <3> QED
      BY <1>1, <1>6, <1>7, <2>2, <3>1, Frame DEF OneHeaderInv
  <2>3. CASE ~IsFile
    <3>1. ~WithAnswers => end["sender"].pc \in {"start", "reply"}
      BY <1>1, <2>3 DEF UnreadInv, OneHeaderInv
    <3>2. ~Ended("sender") => wire'["sender"] = <<Header(0)>>
      BY <1>2, <1>3, <1>5, <2>3 DEF Sound
    <3> QED
      <4>1. end'["receiver"].pc \notin {"start", "done"} /\ end'["sender"].pc = end["sender"].pc
        BY <1>5, <1>6, <1>7
      <4>2. (~WithAnswers' => ~WithAnswers) /\ ~IsFile' /\ (~Ended("sender")' => ~Ended("sender"))
        BY <1>1, <1>5, <1>6, <2>3, Frame DEF Ended
      <4>3. wire'["sender"] \in {<<>>, <<Header(0)>>}
        BY <2>1, <3>2, <4>1 DEF Ended
      <4>4. ~WithAnswers /\ wire'["sender"] # <<>> => end["sender"].pc \in {"start", "reply"}
        BY <3>1
      <4> QED
        BY <2>1, <4>1, <4>2, <4>3, <4>4 DEF OneHeaderInv
  <2> QED
    BY <2>1, <2>2, <2>3
<1> QED
  BY <1>9, <1>10, <1>11, <1>12, <1>13, <1>14, <1>15, <1>16, <1>17, <1>18, <1>19, <1>20, <1>21, <1>22

\* ServerStartsGet: the server reads the request of a client that receives.
LEMMA ServerStartsGetStep ==
  ASSUME TransferInv, ServerStartsGet
  PROVE  TransferInv'
<1> USE Ends DEF TransferInv
<1> DEFINE e == end["sender"]
           r == end["receiver"]
           item == Head(wire["sender"])
           reply == IF IsFile THEN <<Header(0)>> \o FileHeader ELSE <<>>
<1>1. /\ ~outgoing /\ e.pc = "start" /\ wire["sender"] # <<>>
      /\ wire' = [wire EXCEPT !["sender"] = Tail(@),
                              !["receiver"] = IF Ended("receiver") THEN @ ELSE @ \o reply]
      /\ end' = [end EXCEPT !["sender"].mode = TheMode, !["sender"].pc = "sending",
                            !["sender"].max = SenderMax]
      /\ UNCHANGED choices /\ UNCHANGED <<Messages, produced, sent, received, broken>>
  <2>1. ServerMode(r.mode) = TheMode /\ OneFile(TheMode) = IsFile
    BY DEF ModesAgree, IsFile
  <2>2. ~outgoing /\ (IF IsFile THEN FileRest ELSE transferSize) = SenderMax
    BY DEF ServerStartsGet, SenderMax
  <2> QED
    BY <2>1, <2>2 DEF ServerStartsGet
<1>2. /\ wire["receiver"] = <<>> /\ wire["sender"] = <<Header(0)>> /\ r.count = 0
      /\ r.pc = "failed" \/ r.pc = (IF IsFile THEN "getReply" ELSE "receiving")
           \/ (r.pc = "body" /\ ~InPackets)
      /\ r.pc # "start"
  BY <1>1 DEF OpeningInv
<1>3. /\ e.count = 0 /\ e.offset = 0 /\ sent["sender"] = <<>> /\ (Opens <=> IsFile)
      /\ SenderMax \in Nat \ {0} /\ CountMax \in Nat
      /\ item = Header(0) /\ Tail(wire["sender"]) = <<>>
  BY <1>1, <1>2, Bounds DEF SenderInv, Opens
<1>4. ASSUME NEW t \in Position, AtEnd("receiver", t)
      PROVE  \E u \in Position : /\ Reads(Stream("receiver"), sent["sender"] \o <<>>, reply, t, u)
                                 /\ u.phase = "data" /\ u.rest = 0 /\ u.got = t.got
                                 /\ u.index = t.index
  <2>1. CASE IsFile
    <3>1. t.phase = "open" /\ t.rest = 0
      BY <1>1, <1>3, <1>4, <2>1 DEF AtEnd
    <3>2. \A phase, rest, index, got : LET u == Pos(phase, rest, index, got) IN
            u.phase = phase /\ u.rest = rest /\ u.index = index /\ u.got = got
      BY DEF Pos
    <3> QED
      BY <2>1, <3>1, <3>2, OpeningRead
  <2>2. CASE ~IsFile
    <3>1. reply = <<>> /\ t.phase = "data" /\ t.rest = 0
      BY <1>3, <1>4, <2>2 DEF AtEnd
    <3> HIDE DEF reply
    <3> QED
      BY <3>1, ReadsNothing
  <2> QED
    BY <2>1, <2>2
<1>5. reply \in Seq(Item)
  <2> DEFINE t == Pos("open", 0, 0, 0)
  <2>1. t \in Position /\ t.phase = "open" /\ t.rest = 0
    BY DEF Position, Pos
  <2> HIDE DEF t
  <2>2. CASE IsFile
    BY <2>1, <2>2, OpeningRead
  <2>3. CASE ~IsFile
    BY <2>3
  <2> QED
    BY <2>2, <2>3
<1>6. ~IsFile => reply = <<>>
  OBVIOUS
<1> HIDE DEF reply
<1>7. /\ end'["sender"] = [e EXCEPT !.mode = TheMode, !.pc = "sending", !.max = SenderMax]
      /\ end'["receiver"] = r /\ e \in EndRecord
      /\ wire'["sender"] = Tail(wire["sender"]) /\ e.mode = TheMode
      /\ wire'["receiver"] = (IF Ended("receiver") THEN wire["receiver"] ELSE wire["receiver"] \o reply)
  BY <1>1 DEF Types, TheMode
<1>8. /\ end'["sender"].pc = "sending" /\ end'["sender"].max = SenderMax
      /\ end'["sender"].count = e.count /\ end'["sender"].mode = e.mode
      /\ end'["sender"].offset = e.offset /\ TheMode' = TheMode
  BY <1>7 DEF EndRecord, TheMode
<1>9. Types'
  <2>1. [e EXCEPT !.mode = TheMode, !.pc = "sending", !.max = SenderMax] \in EndRecord
    <3>1. TheMode \in ModeRecord /\ SenderMax \in Nat /\ "sending" \in Pc
      BY <1>3, <1>7 DEF EndRecord, Pc
    <3> QED
      BY <1>7, <3>1 DEF EndRecord
  <2>2. wire["receiver"] \o reply \in Seq(Item) /\ Tail(wire["sender"]) \in Seq(Item)
    BY <1>1, <1>5, TailTypes DEF Types
  <2>3. end' \in [End -> EndRecord]
    BY <1>1, <2>1 DEF Types
  <2>4. wire' \in [End -> Seq(Item)]
    BY <1>1, <2>2 DEF Types
  <2> QED
    BY <1>1, <2>3, <2>4 DEF Types, choices
<1>10. ModesAgree'
  BY <1>1, <1>7, <1>8, ModesKept
<1>11. SenderInv'
  BY <1>1, <1>3, <1>8, Frame, Bounds DEF SenderInv
<1>12. ReceiverInv'
  BY <1>1, <1>7, <1>8, ReceiverKept
<1>13. OpeningInv'
  BY <1>1, <1>2, <1>7, <1>8, Frame DEF OpeningInv
<1>14. OrderInv'
  BY <1>1, <1>8, OrderKept
<1>15. ASSUME NEW x \in End PROVE Given(x)'
  BY <1>1, GivenKept
<1>16. Linked("sender")'
  <2>1. At("sender")' = Pos("data", 0, 0, Len(received["sender"]))
    BY <1>1, <1>3, <1>7, <1>8 DEF At, SenderAt
  <2>2. ASSUME NEW u, Takes(Stream("sender"), sent["receiver"], At("sender"), item, u)
        PROVE  u = Pos("data", 0, 0, Len(received["sender"]))
    <3>1. /\ At("sender").phase = "data" /\ At("sender").got = Len(received["sender"])
          /\ Stream("sender").from = "receiver"
      BY <1>1, AtTypes, StreamTypes
    <3>2. item.kind = "header" /\ item.len = 0
      BY <1>3 DEF Header
    <3>3. TakesHeader(Stream("sender"), At("sender"), item, u)
      BY <2>2, <3>2 DEF Takes, TakesFile, TakesMessage, TakesZero
    <3> QED
      BY <3>1, <3>2, <3>3 DEF TakesHeader
  <2> QED
    BY <1>1, <1>7, <1>8, <2>1, <2>2, Frame, LinkedTakes DEF Ended
<1>17. Linked("receiver")'
  <2>1. ASSUME NEW t \in Position, AtEnd("receiver", t)
        PROVE  \E u \in Position :
                 /\ Reads(Stream("receiver"), sent["sender"] \o <<>>, reply, t, u)
                 /\ AtEnd("receiver", u)'
    <3>1. PICK u \in Position :
                 /\ Reads(Stream("receiver"), sent["sender"] \o <<>>, reply, t, u)
                 /\ u.phase = "data" /\ u.rest = 0 /\ u.got = t.got /\ u.index = t.index
      BY <1>4, <2>1
    <3>2. AtEnd("receiver", u)'
      BY <1>1, <1>8, <2>1, <3>1 DEF AtEnd
    <3> QED
      BY <3>1, <3>2
  <2>2. /\ At("receiver")' = At("receiver") /\ ~Ended("sender")
        /\ sent["sender"] \in Seq(Id("sender")) /\ sent' = sent
    BY <1>1, <1>7, <1>8, Frame, GivenIds DEF At, ReceiverAt, Ended
  <2>3. sent'["sender"] = sent["sender"] \o <<>> /\ <<>> \in Seq(Id("sender"))
    BY <2>2
  <2> QED
    BY <1>1, <1>5, <1>7, <1>8, <2>1, <2>2, <2>3, Frame, LinkedWrites
<1>18. ReplyInv'
  BY <1>8 DEF ReplyInv
<1>19. TurnsInv'
  <2> SUFFICES ASSUME WithAnswers, InPackets, ~Ended("receiver")
               PROVE  /\ wire'["sender"] = <<>> /\ r.pc = "receiving" /\ wire'["receiver"] = <<>>
                      /\ r.count = e.count
    <3>1. WithAnswers' = WithAnswers /\ InPackets' = InPackets /\ Ended("receiver")' = Ended("receiver")
      BY <1>1, <1>7, <1>8, Frame DEF Ended
    <3> QED
      BY <1>7, <1>8, <3>1 DEF TurnsInv, Caught
  <2>1. ~IsFile
    BY DEF IsFile, OneFile, InPackets
  <2>2. wire["receiver"] \o reply = <<>>
    BY <1>2, <1>6, <2>1
  <2> QED
    BY <1>2, <1>3, <1>7, <2>1, <2>2 DEF Ended
<1>20. DoneInv'
  BY <1>2, <1>7, <1>8 DEF DoneInv
<1>21. FailsOnlyWhenBroken'
  BY <1>1, <1>7, <1>8, FailsKept DEF Ended
<1>22. UnreadInv'
  <2>1. wire'["sender"] = <<>> /\ ~outgoing' /\ end'["sender"].pc = "sending"
    <3>1. outgoing' = outgoing /\ wire'["sender"] = Tail(wire["sender"])
      BY <1>1, <1>7 DEF choices
    <3> QED
      BY <1>1, <1>3, <1>8, <3>1
  <2>2. OneHeaderInv' /\ ~Ended("sender")'
    BY <2>1 DEF OneHeaderInv, Ended
  <2> QED
    BY <1>1, <1>7, <1>8, <2>2, UnreadSends
<1> QED
  BY <1>9, <1>10, <1>11, <1>12, <1>13, <1>14, <1>15, <1>16, <1>17, <1>18, <1>19, <1>20, <1>21, <1>22

-----------------------------------------------------------------------------
(* Sending a packet *)

\* A prefix of what was sent is one of what is sent after it.
LEMMA PrefixFacts ==
  ASSUME NEW S, NEW s \in Seq(S), NEW w \in Seq(S), NEW more \in Seq(S), IsPrefix(s, w)
  PROVE  IsPrefix(s, w \o more) /\ Len(s) <= Len(w)
<1>1. Len(s) \in Nat /\ Len(w) \in Nat /\ Len(s) <= Len(w) /\ SubSeq(s, 1, Len(s)) = SubSeq(w, 1, Len(s))
  BY DEF IsPrefix
<1>2. Len(w \o more) = Len(w) + Len(more) /\ Len(more) \in Nat /\ w \o more \in Seq(S)
  OBVIOUS
<1>3. \A i \in 1 .. Len(s) : (w \o more)[i] = w[i]
  BY <1>1
<1>4. SubSeq(w \o more, 1, Len(s)) = SubSeq(w, 1, Len(s))
  <2> DEFINE n == Len(s) all == w \o more
  <2>1. n \in Nat /\ n <= Len(w) /\ n <= Len(all) /\ \A i \in 1 .. n : all[i] = w[i]
    BY <1>1, <1>2, <1>3
  <2>2. all \in Seq(S)
    BY <1>2
  <2> HIDE DEF n, all
  <2>3. SubSeq(all, 1, n) = [i \in 1 .. n |-> all[i]] /\ SubSeq(w, 1, n) = [i \in 1 .. n |-> w[i]]
    BY <2>1, <2>2
  <2>4. SubSeq(all, 1, n) = SubSeq(w, 1, n)
    BY <2>1, <2>3
  <2> QED
    BY <2>4 DEF n, all
<1> QED
  BY <1>1, <1>2, <1>4 DEF IsPrefix

\* The packet of a sender.
LEMMA PacketFacts ==
  ASSUME Types, SenderInv, Given("sender"), end["sender"].pc = "sending"
  PROVE  LET e == end["sender"]
             p == Pack("sender", Messages["sender"], e.max - e.count)
         IN /\ p.in \in Seq(1 .. produced["sender"]) /\ p.out \in Seq(1 .. produced["sender"])
            /\ p.in \in Seq(Id("sender"))
            /\ p.size \in Nat \ {0} /\ p.zeros \in Nat
            /\ e.count + p.size <= CountMax
            /\ p.in = <<>> => e.count + p.size = SenderMax
            /\ PacketItems(p) \in Seq(Item)
            /\ \A t \in Position : AtEnd("receiver", t) =>
                 \E u \in Position :
                   /\ Reads(Stream("receiver"), sent["sender"] \o p.in, PacketItems(p), t, u)
                   /\ u.phase = "data" /\ u.rest = 0 /\ u.got = Len(sent["sender"] \o p.in)
                   /\ u.index = e.count + p.size
<1> USE Ends
<1> DEFINE e == end["sender"]
           room == e.max - e.count
           T == 1 .. produced["sender"]
           p == Pack("sender", Messages["sender"], room)
           c == Stream("receiver")
<1>1. /\ e.max = SenderMax /\ e.count < SenderMax /\ e.count \in Nat /\ SenderMax \in Nat
      /\ CountMax = SenderMax + AtLeast(0, minPacketSize - 1)
      /\ AtLeast(0, minPacketSize - 1) \in Nat /\ minPacketSize \in Nat
  BY Bounds DEF SenderInv, Types, EndRecord
<1>2. room \in Nat \ {0} /\ e.count + room = SenderMax
  BY <1>1
<1>3. T \in SUBSET (1 .. Len(MessageSizes["sender"])) /\ Messages["sender"] \in Seq(T)
  BY GivenIds DEF Given, Id
<1>4. /\ p.in \in Seq(T) /\ p.out \in Seq(T) /\ p.zeros \in Nat /\ p.size \in Nat \ {0}
      /\ p.size = TotalSize("sender", p.in) + p.zeros
      /\ TotalSize("sender", p.in) <= room
      /\ p.size <= room + AtLeast(0, minPacketSize - 1)
      /\ p.in = <<>> => p.size = room
  <2> DEFINE messages == Messages["sender"]
  <2>1. messages \in Seq(T) /\ "sender" \in End /\ minPacketSize \in Nat
    BY <1>1, <1>3
  <2> HIDE DEF room, T, messages
  <2>2. LET q == Pack("sender", messages, room) IN
          /\ q.in \in Seq(T) /\ q.out \in Seq(T) /\ q.zeros \in Nat /\ q.size \in Nat \ {0}
          /\ q.size = TotalSize("sender", q.in) + q.zeros
          /\ TotalSize("sender", q.in) <= room
          /\ q.size <= room + AtLeast(0, minPacketSize - 1)
          /\ q.in = <<>> => q.size = room
    <3>1. T \in SUBSET (1 .. Len(MessageSizes["sender"])) /\ room \in Nat \ {0}
      BY <1>2, <1>3
    <3> QED
      BY <2>1, <3>1, PackFacts
  <2> QED
    BY <2>2 DEF messages
<1> HIDE DEF p, room
<1>5. /\ p.in \in Seq(T) /\ p.out \in Seq(T) /\ p.zeros \in Nat /\ p.size \in Nat \ {0}
  BY <1>4
<1>6. p.in \in Seq(Id("sender"))
  BY <1>3, <1>5, SeqOfSubset DEF Id
<1>7. TotalSize("sender", p.in) \in Nat
  BY <1>6, TotalSizeFacts DEF Id
<1>8. /\ e.count + TotalSize("sender", p.in) <= SenderMax /\ e.count + p.size <= CountMax
      /\ p.in = <<>> => e.count + p.size = SenderMax
  <2> DEFINE in == TotalSize("sender", p.in) size == p.size count == e.count
             over == AtLeast(0, minPacketSize - 1)
  <2>1. /\ in \in Nat /\ size \in Nat /\ count \in Nat /\ room \in Nat /\ over \in Nat
        /\ SenderMax \in Nat
    BY <1>1, <1>2, <1>5, <1>7
  <2>2. /\ in <= room /\ size <= room + over /\ count + room = SenderMax
        /\ CountMax = SenderMax + over
    BY <1>1, <1>2, <1>4
  <2>3. p.in = <<>> => size = room
    BY <1>4
  <2> HIDE DEF in, size, count, over
  <2>4. count + in <= SenderMax /\ count + size <= CountMax
    BY <2>1, <2>2
  <2>5. p.in = <<>> => count + size = SenderMax
    BY <2>1, <2>2, <2>3
  <2> QED
    BY <2>4, <2>5 DEF in, size, count
<1>9. /\ c \in StreamRecord /\ c.from = "sender" /\ c.last = SenderMax /\ c.end = CountMax
      /\ c.chunks <=> InPackets
  BY StreamTypes
<1>10. sent["sender"] \in Seq(Id("sender"))
  BY GivenIds
<1>11. PacketItems(p) = (IF c.chunks THEN <<Header(p.size)>> ELSE <<>>)
                          \o Content("sender", p.in, p.zeros, e.count)
  BY <1>9 DEF PacketItems, InPackets, TheMode
<1> HIDE DEF c, T
<1>12. ASSUME NEW t \in Position, t.phase = "data", t.rest = 0, t.got = Len(sent["sender"]),
              t.index = e.count
       PROVE  /\ PacketItems(p) \in Seq(Item)
              /\ \E u \in Position :
                   /\ Reads(c, sent["sender"] \o p.in, PacketItems(p), t, u)
                   /\ u.phase = "data" /\ u.rest = 0 /\ u.got = Len(sent["sender"] \o p.in)
                   /\ u.index = e.count + p.size
  <2>1. (IF c.chunks /\ c.from # "sender" THEN 0 ELSE t.index) = e.count
    BY <1>9, <1>12
  <2>2. /\ p.size = TotalSize(c.from, p.in) + p.zeros
        /\ c.from = "sender" => /\ p.size > 0
                                /\ t.index + TotalSize(c.from, p.in) <= c.last
                                /\ t.index + p.size <= c.end
    BY <1>4, <1>5, <1>8, <1>9, <1>12
  <2>3. sent["sender"] \in Seq(Id(c.from)) /\ p.in \in Seq(Id(c.from))
    BY <1>6, <1>9, <1>10
  <2> DEFINE written == sent["sender"]
             items == (IF c.chunks THEN <<Header(p.size)>> ELSE <<>>)
                        \o Content(c.from, p.in, p.zeros,
                                   IF c.chunks /\ c.from # "sender" THEN 0 ELSE t.index)
  <2>4. /\ items \in Seq(Item)
        /\ \E u \in Position :
             /\ Reads(c, written \o p.in, items, t, u)
             /\ u.phase = "data" /\ u.rest = 0 /\ u.got = Len(written \o p.in)
             /\ c.from = "sender" => u.index = t.index + p.size
    <3>1. written \in Seq(Id(c.from)) /\ t.got = Len(written)
      BY <1>12, <2>3
    <3> DEFINE messages == p.in zeros == p.zeros size == p.size
    <3>2. /\ c \in StreamRecord /\ zeros \in Nat /\ t.phase = "data" /\ t.rest = 0
          /\ messages \in Seq(Id(c.from)) /\ size = TotalSize(c.from, messages) + zeros
      BY <1>5, <1>9, <1>12, <2>2, <2>3
    <3>3. c.from = "sender" => /\ size > 0
                               /\ t.index + TotalSize(c.from, messages) <= c.last
                               /\ t.index + size <= c.end
      BY <2>2
    <3> HIDE DEF written, e, messages, zeros, size
    <3>4. LET all == (IF c.chunks THEN <<Header(size)>> ELSE <<>>)
                        \o Content(c.from, messages, zeros,
                                   IF c.chunks /\ c.from # "sender" THEN 0 ELSE t.index)
          IN /\ all \in Seq(Item)
             /\ \E u \in Position :
                  /\ Reads(c, written \o messages, all, t, u)
                  /\ u.phase = "data" /\ u.rest = 0 /\ u.got = Len(written \o messages)
                  /\ c.from = "sender" => u.index = t.index + size
      BY <3>1, <3>2, <3>3, PacketRead
    <3> QED
      BY <3>4 DEF messages, zeros, size
  <2>5. items = PacketItems(p)
    BY <1>9, <1>11, <2>1
  <2> HIDE DEF items
  <2> QED
    BY <1>9, <1>12, <2>4, <2>5
<1>13. PacketItems(p) \in Seq(Item)
  <2> DEFINE t == Pos("data", 0, e.count, Len(sent["sender"]))
  <2>1. /\ t \in Position /\ t.phase = "data" /\ t.rest = 0 /\ t.got = Len(sent["sender"])
        /\ t.index = e.count
    BY <1>1, <1>10 DEF Position, Pos
  <2> HIDE DEF t
  <2> QED
    BY <1>12, <2>1
<1>14. ASSUME NEW t \in Position, AtEnd("receiver", t)
       PROVE  t.phase = "data" /\ t.rest = 0 /\ t.got = Len(sent["sender"]) /\ t.index = e.count
  BY <1>14 DEF AtEnd
<1> QED
  BY <1>5, <1>6, <1>8, <1>12, <1>13, <1>14 DEF p, c, room, T

\* Transmit: the sender writes a packet.
LEMMA TransmitStep ==
  ASSUME TransferInv, Transmit
  PROVE  TransferInv'
<1> USE Ends DEF TransferInv
<1> DEFINE e == end["sender"]
           r == end["receiver"]
           p == Pack("sender", Messages["sender"], e.max - e.count)
           items == PacketItems(p)
           after == IF outgoing /\ IsFile THEN "last" ELSE "done"
           pc == IF e.count + p.size >= e.max THEN after
                 ELSE IF WithAnswers THEN "reply" ELSE "sending"
<1>1. /\ e.pc = "sending"
      /\ wire' = (IF Ended("receiver") THEN wire ELSE [wire EXCEPT !["receiver"] = @ \o items])
      /\ Messages' = [Messages EXCEPT !["sender"] = Reverse(p.out)]
      /\ sent' = [sent EXCEPT !["sender"] = @ \o p.in]
      /\ end' = [end EXCEPT !["sender"].count = @ + p.size, !["sender"].pc = pc]
      /\ UNCHANGED choices /\ UNCHANGED <<produced, received, broken>>
  <2>1. AfterOutgoing = after
    BY DEF AfterOutgoing, IsFile, TheMode
  <2>2. TransferFinish(e.count + p.size) <=> e.count + p.size >= e.max
    BY DEF TransferFinish, Finished
  <2>3. Answered(e.mode) = WithAnswers
    BY DEF WithAnswers, TheMode
  <2> HIDE DEF p
  <2> QED
    BY <2>1, <2>2, <2>3 DEF Transmit, Write, p
<1>2. /\ p.in \in Seq(1 .. produced["sender"]) /\ p.out \in Seq(1 .. produced["sender"])
      /\ p.in \in Seq(Id("sender"))
      /\ p.size \in Nat \ {0} /\ p.zeros \in Nat
      /\ e.count + p.size <= CountMax
      /\ p.in = <<>> => e.count + p.size = SenderMax
      /\ items \in Seq(Item)
      /\ \A t \in Position : AtEnd("receiver", t) =>
           \E u \in Position :
             /\ Reads(Stream("receiver"), sent["sender"] \o p.in, items, t, u)
             /\ u.phase = "data" /\ u.rest = 0 /\ u.got = Len(sent["sender"] \o p.in)
             /\ u.index = e.count + p.size
  BY <1>1, PacketFacts
<1>3. /\ e \in EndRecord /\ e.max = SenderMax /\ e.count < SenderMax /\ e.count \in Nat
      /\ SenderMax \in Nat /\ produced["sender"] \in Nat /\ ~Ended("sender")
      /\ sent["sender"] \in Seq(Id("sender")) /\ sent["sender"] \in Seq(1 .. produced["sender"])
  BY <1>1, Bounds, GivenIds DEF SenderInv, Types, EndRecord, Ended, Given
<1>4. InPackets => Tail(<<>> \o items) = Content("sender", p.in, p.zeros, e.count)
  <2> SUFFICES ASSUME InPackets PROVE Tail(<<>> \o items) = Content("sender", p.in, p.zeros, e.count)
    OBVIOUS
  <2> DEFINE content == Content("sender", p.in, p.zeros, e.count)
  <2>1. items = <<Header(p.size)>> \o content
    BY DEF PacketItems, InPackets, TheMode
  <2>2. content \in Seq(Item)
    <3> HIDE DEF p, e
    <3> QED
      BY <1>2, <1>3, ContentFacts
  <2> HIDE DEF content, items, p
  <2>3. <<>> \o items = items
    BY <1>2
  <2>4. Tail(<<Header(p.size)>> \o content) = content
    BY <2>2
  <2> QED
    BY <2>1, <2>3, <2>4 DEF content
<1>5. NoHeader(Content("sender", p.in, p.zeros, e.count))
  <2> HIDE DEF p, e
  <2> QED
    BY <1>2, <1>3, ContentFacts
<1> HIDE DEF p, items
<1>6. /\ pc = after \/ pc = "reply" \/ pc = "sending"
      /\ pc \in {"last", "done"} <=> e.count + p.size >= SenderMax
      /\ pc = "reply" => WithAnswers
      /\ WithAnswers => pc # "sending"
      /\ pc = "last" => outgoing /\ IsFile
      /\ pc \in {"last", "done", "reply", "sending"}
  BY <1>3
<1> HIDE DEF pc, after
<1>7. WithAnswers => tunnel = "HTTP" /\ ~IsFile
  BY DEF ModesAgree, IsFile, OneFile, WithAnswers, Types
<1>8. /\ end'["sender"] = [e EXCEPT !.count = e.count + p.size, !.pc = pc]
      /\ end'["receiver"] = r
      /\ wire'["sender"] = wire["sender"]
      /\ wire'["receiver"] = (IF Ended("receiver") THEN wire["receiver"] ELSE wire["receiver"] \o items)
      /\ sent'["sender"] = sent["sender"] \o p.in /\ sent'["receiver"] = sent["receiver"]
      /\ Messages'["sender"] = Reverse(p.out) /\ Messages'["receiver"] = Messages["receiver"]
  BY <1>1 DEF Types
<1>9. /\ end'["sender"].pc = pc /\ end'["sender"].max = e.max
      /\ end'["sender"].count = e.count + p.size /\ end'["sender"].mode = e.mode
      /\ end'["sender"].offset = e.offset /\ end'["sender"].left = e.left /\ TheMode' = TheMode
  BY <1>3, <1>8 DEF EndRecord, TheMode
<1>10. /\ Reverse(p.out) \in Seq(1 .. produced["sender"])
       /\ sent["sender"] \o p.in \in Seq(1 .. produced["sender"])
  BY <1>2, <1>3, ReverseFacts
<1>11. Types'
  <2>1. [e EXCEPT !.count = e.count + p.size, !.pc = pc] \in EndRecord
    <3>1. pc \in Pc /\ e.count + p.size \in Nat
      BY <1>2, <1>3, <1>6 DEF Pc
    <3> QED
      BY <1>3, <3>1 DEF EndRecord
  <2>2. wire["receiver"] \o items \in Seq(Item)
    BY <1>2 DEF Types
  <2>3. 1 .. produced["sender"] \in SUBSET Nat
    BY <1>3
  <2>4. Reverse(p.out) \in Seq(Nat) /\ sent["sender"] \o p.in \in Seq(Nat)
    BY <1>10, <2>3, SeqOfSubset
  <2>5. end' \in [End -> EndRecord]
    BY <1>1, <2>1 DEF Types
  <2>6. wire' \in [End -> Seq(Item)] /\ Messages' \in [End -> Seq(Nat)] /\ sent' \in [End -> Seq(Nat)]
    BY <1>1, <2>2, <2>4 DEF Types
  <2> QED
    BY <1>1, <2>5, <2>6 DEF Types, choices
<1>12. ModesAgree'
  BY <1>1, <1>8, <1>9, ModesKept
<1>13. SenderInv'
  <2> DEFINE n == e.count + p.size
  <2>1. n \in Nat /\ n <= CountMax
    <3>1. e.count \in Nat /\ p.size \in Nat /\ e.count + p.size <= CountMax
      BY <1>2, <1>3
    <3> HIDE DEF e
    <3> QED
      BY <3>1
  <2>2. pc \in {"sending", "reply"} => n < SenderMax
    BY <1>3, <1>6, <2>1
  <2>3. pc \in {"last", "done"} => n >= SenderMax
    BY <1>6
  <2>4. /\ end'["sender"].pc = pc /\ end'["sender"].max = SenderMax /\ end'["sender"].count = n
        /\ SenderMax' = SenderMax /\ CountMax' = CountMax /\ SenderMax \in Nat
        /\ tunnel' = tunnel /\ IsFile' = IsFile /\ outgoing' = outgoing
    BY <1>1, <1>3, <1>9, Frame
  <2>5. /\ pc \in {"last", "done", "reply", "sending"}
        /\ pc = "reply" => tunnel = "HTTP" /\ ~IsFile
        /\ pc = "last" => outgoing /\ IsFile
    BY <1>6, <1>7
  <2> HIDE DEF n, e, TransferInv
  <2> QED
    BY <2>1, <2>2, <2>3, <2>4, <2>5 DEF SenderInv
<1>14. ReceiverInv'
  BY <1>1, <1>8, <1>9, ReceiverKept
<1>15. OpeningInv'
  BY <1>1, <1>6, <1>8, <1>9, Frame DEF OpeningInv
<1>16. IsPrefix(received["receiver"], sent["sender"] \o p.in) /\ Len(received["receiver"]) <= Len(sent["sender"])
  <2>1. IsPrefix(received["receiver"], sent["sender"])
    BY DEF OrderInv
  <2>2. received["receiver"] \in Seq(Nat) /\ sent["sender"] \in Seq(Nat)
    BY DEF Types
  <2>3. p.in \in Seq(Nat)
    <3>1. 1 .. produced["sender"] \in SUBSET Nat
      BY <1>3
    <3> QED
      BY <1>2, <3>1, SeqOfSubset
  <2> QED
    BY <2>1, <2>2, <2>3, PrefixFacts
<1>17. OrderInv'
  <2>1. /\ sent'["sender"] = sent["sender"] \o p.in /\ sent'["receiver"] = sent["receiver"]
        /\ received' = received /\ tunnel' = tunnel /\ IsFile' = IsFile
        /\ WithAnswers' = WithAnswers
    BY <1>1, <1>8, <1>9, Frame
  <2> QED
    BY <1>16, <2>1 DEF OrderInv
<1>18. ASSUME NEW x \in End PROVE Given(x)'
  <2>1. /\ produced' = produced /\ Given(x)
        /\ x = "sender" => Messages'[x] = Reverse(p.out) /\ sent'[x] = sent["sender"] \o p.in
        /\ x = "receiver" => Messages'[x] = Messages[x] /\ sent'[x] = sent[x]
    BY <1>1, <1>8
  <2>2. x \in {"sender", "receiver"}
    BY DEF End
  <2> HIDE DEF TransferInv
  <2> QED
    BY <1>10, <2>1, <2>2 DEF Given
<1>19. Linked("sender")'
  <2>1. \A t \in Position : AtEnd("sender", t) => AtEnd("sender", t)'
    BY <1>8 DEF AtEnd
  <2>2. At("sender")' = At("sender")
    BY <1>1, <1>6, <1>8, <1>9 DEF At, SenderAt
  <2>3. /\ Peer("sender") = "receiver" /\ sent'["receiver"] = sent["receiver"]
        /\ wire'["sender"] = wire["sender"] /\ end'["receiver"] = end["receiver"]
        /\ broken' = broken /\ Stream("sender")' = Stream("sender")
        /\ Ended("receiver") => wire'["receiver"] = wire["receiver"]
    BY <1>1, <1>8, <1>9, Frame
  <2>4. Linked("sender") /\ ~Ended("sender")
    BY <1>3
  <2> HIDE DEF TransferInv, e, r
  <2> QED
    BY <2>1, <2>2, <2>3, <2>4, LinkedKept DEF Ended
<1>20. Linked("receiver")'
  <2>1. ASSUME NEW t \in Position, AtEnd("receiver", t)
        PROVE  \E u \in Position :
                 /\ Reads(Stream("receiver"), sent["sender"] \o p.in, items, t, u)
                 /\ AtEnd("receiver", u)'
    <3>1. PICK u \in Position :
                 /\ Reads(Stream("receiver"), sent["sender"] \o p.in, items, t, u)
                 /\ u.phase = "data" /\ u.rest = 0 /\ u.got = Len(sent["sender"] \o p.in)
                 /\ u.index = e.count + p.size
      BY <1>2, <2>1
    <3>2. AtEnd("receiver", u)'
      <4>1. /\ end'["sender"].pc \in {"sending", "reply", "last", "done"}
            /\ end'["sender"].count = e.count + p.size
            /\ sent'["sender"] = sent["sender"] \o p.in
        BY <1>6, <1>8, <1>9
      <4> HIDE DEF TransferInv, e, r
      <4> QED
        BY <3>1, <4>1 DEF AtEnd
    <3> QED
      BY <3>1, <3>2
  <2>2. At("receiver")' = At("receiver")
    BY <1>1, <1>8, <1>9, Frame DEF At, ReceiverAt
  <2>3. /\ Peer("receiver") = "sender" /\ ~Ended("sender") /\ sent["sender"] \in Seq(Id("sender"))
        /\ items \in Seq(Item) /\ p.in \in Seq(Id("sender"))
        /\ Linked("receiver") /\ Types
    BY <1>2, <1>3
  <2>4. /\ Stream("receiver")' = Stream("receiver") /\ end'["receiver"] = end["receiver"]
        /\ sent'["sender"] = sent["sender"] \o p.in
        /\ wire'["receiver"] = (IF Ended("receiver") THEN wire["receiver"] ELSE wire["receiver"] \o items)
    BY <1>1, <1>8, <1>9, Frame
  <2> DEFINE more == p.in
  <2> HIDE DEF TransferInv, e, r, more
  <2> QED
    BY <2>1, <2>2, <2>3, <2>4, LinkedWrites DEF more
<1>21. ReplyInv'
  <2> SUFFICES ASSUME pc = "reply", ~Ended("receiver")
               PROVE  \/ WithAnswers /\ InPackets /\ r.count < e.count + p.size
                      \/ WithAnswers /\ ~InPackets /\ Len(received["receiver"]) < Len(sent["sender"] \o p.in)
    <3>1. WithAnswers' = WithAnswers /\ InPackets' = InPackets /\ Ended("receiver")' = Ended("receiver")
      BY <1>1, <1>8, <1>9, Frame DEF Ended
    <3> QED
      BY <1>1, <1>8, <1>9, <3>1 DEF ReplyInv
  <2>1. WithAnswers
    BY <1>6
  <2>2. CASE InPackets
    <3>1. r.count = e.count
      BY <1>1, <2>1, <2>2 DEF TurnsInv, Caught
    <3> QED
      BY <1>2, <1>3, <2>1, <2>2, <3>1
  <2>3. CASE ~InPackets
    <3>1. p.in # <<>>
      <4>1. e.count + p.size < SenderMax
        BY <1>2, <1>3, <1>6
      <4> QED
        BY <1>2, <1>3, <4>1
    <3>2. Len(sent["sender"] \o p.in) = Len(sent["sender"]) + Len(p.in) /\ Len(p.in) > 0
      <4>1. p.in \in Seq(Id("sender")) /\ sent["sender"] \in Seq(Id("sender"))
        BY <1>2, <1>3
      <4> DEFINE a == p.in
                 b == sent["sender"]
      <4> HIDE DEF a, b, TransferInv
      <4>2. Len(b \o a) = Len(b) + Len(a) /\ (a # <<>> => Len(a) > 0)
        BY <4>1 DEF a, b
      <4> QED
        BY <3>1, <4>2 DEF a, b
    <3>3. Len(p.in) \in Nat
      BY <1>2
    <3>4. Len(received["receiver"]) \in Nat /\ Len(sent["sender"]) \in Nat
      BY DEF Types
    <3>5. Len(received["receiver"]) < Len(sent["sender"] \o p.in)
      <4> DEFINE k == Len(received["receiver"]) m == Len(sent["sender"]) n == Len(p.in)
                 all == Len(sent["sender"] \o p.in)
      <4>1. k <= m /\ all = m + n /\ n > 0 /\ n \in Nat /\ k \in Nat /\ m \in Nat
        BY <1>16, <3>2, <3>3, <3>4
      <4> HIDE DEF k, m, n, all
      <4>2. k < all
        BY <4>1
      <4> QED
        BY <4>2 DEF k, all
    <3> QED
      BY <2>1, <2>3, <3>5
  <2> QED
    BY <2>2, <2>3
<1>22. TurnsInv'
  <2> SUFFICES ASSUME WithAnswers, InPackets, ~Ended("receiver")
               PROVE  /\ pc \notin {"sending", "payload"} /\ wire["sender"] = <<>>
                      /\ r.pc = "receiving" /\ NoHeader(Tail(wire'["receiver"]))
    <3>1. WithAnswers' = WithAnswers /\ InPackets' = InPackets /\ Ended("receiver")' = Ended("receiver")
      BY <1>1, <1>8, <1>9, Frame DEF Ended
    <3> QED
      BY <1>8, <1>9, <3>1 DEF TurnsInv
  <2>1. wire["sender"] = <<>> /\ Caught
    BY <1>1 DEF TurnsInv
  <2>2. wire'["receiver"] = <<>> \o items
    BY <1>8, <2>1 DEF Caught
  <2>3. NoHeader(Tail(<<>> \o items))
    BY <1>4, <1>5
  <2>4. NoHeader(Tail(wire'["receiver"]))
    BY <2>2, <2>3
  <2> QED
    BY <1>6, <2>1, <2>4 DEF Caught
<1>23. DoneInv'
  <2> SUFFICES ASSUME Sound
               PROVE  /\ r.pc # "done"
                      /\ pc = "done" /\ r.pc # "failed" /\ WithAnswers /\ InPackets =>
                           Len(received["sender"]) = Len(sent["receiver"])
    <3>1. WithAnswers' = WithAnswers /\ InPackets' = InPackets /\ (Sound' => Sound)
      BY <1>1, <1>9, Frame, SoundKept
    <3> QED
      BY <1>1, <1>8, <1>9, <3>1 DEF DoneInv
  <2>1. r.pc # "done"
    BY <1>1 DEF DoneInv
  <2>2. ASSUME r.pc # "failed", WithAnswers, InPackets
        PROVE  Len(received["sender"]) = Len(sent["receiver"])
    <3>1. ~Ended("receiver")
      BY <2>1, <2>2 DEF Ended
    <3>2. wire["sender"] = <<>>
      BY <1>1, <2>2, <3>1 DEF TurnsInv
    <3>3. AtEnd("sender", At("sender"))
      BY <1>3, <2>2, <3>1, <3>2, NothingLeft
    <3> QED
      BY <3>3, AtTypes DEF AtEnd
  <2> QED
    BY <2>1, <2>2
<1>24. FailsOnlyWhenBroken'
  BY <1>1, <1>6, <1>8, <1>9, FailsKept DEF Ended
<1>25. UnreadInv'
  <2>1. Sound => wire'["sender"] = <<>>
    BY <1>1, <1>8, SoundEnds
  <2>2. Sound /\ ~WithAnswers /\ outgoing /\ ~IsFile => r.pc # "start"
    BY <1>1 DEF UnreadInv, OneHeaderInv
  <2>3. Sound => OneHeaderInv'
    BY <1>1, <1>8, <1>9, <2>1, <2>2, Frame DEF OneHeaderInv
  <2> QED
    BY <1>1, <1>8, <1>9, <2>1, <2>3, UnreadSends
<1> QED
  BY <1>11, <1>12, <1>13, <1>14, <1>15, <1>17, <1>18, <1>19, <1>20, <1>21, <1>22, <1>23, <1>24, <1>25

\* TransmitFails: the packet could not be written.
LEMMA TransmitFailsStep ==
  ASSUME TransferInv, TransmitFails
  PROVE  TransferInv'
<1> USE Ends DEF TransferInv
<1> DEFINE e == end["sender"]
           p == Pack("sender", Messages["sender"], e.max - e.count)
           all == PacketItems(p)
           messages == Reverse(p.in) \o Reverse(p.out)
<1>1. PICK k \in 0 .. Len(all) :
             wire' = IF Ended("receiver") THEN wire ELSE [wire EXCEPT !["receiver"] = @ \o SubSeq(all, 1, k)]
  BY DEF TransmitFails, Write
<1> DEFINE items == SubSeq(all, 1, k)
<1>2. /\ e.pc = "sending"
      /\ wire' = (IF Ended("receiver") THEN wire ELSE [wire EXCEPT !["receiver"] = @ \o items])
      /\ Messages' = [Messages EXCEPT !["sender"] = messages]
      /\ sent' = [sent EXCEPT !["sender"] = @ \o p.in]
      /\ end' = [end EXCEPT !["sender"].pc = "failed"]
      /\ broken' = (broken \/ ~Ended("receiver"))
      /\ UNCHANGED choices /\ UNCHANGED <<produced, received>>
  BY <1>1 DEF TransmitFails, Goes
<1>3. /\ p.in \in Seq(1 .. produced["sender"]) /\ p.out \in Seq(1 .. produced["sender"])
      /\ p.in \in Seq(Id("sender"))
      /\ all \in Seq(Item)
      /\ \A t \in Position : AtEnd("receiver", t) =>
           \E u \in Position : Reads(Stream("receiver"), sent["sender"] \o p.in, all, t, u)
  BY <1>2, PacketFacts
<1> HIDE DEF p, all
<1>4. ASSUME NEW t \in Position, AtEnd("receiver", t)
      PROVE  \E u \in Position : Reads(Stream("receiver"), sent["sender"] \o p.in, items, t, u)
  BY <1>3, <1>4, ReadsPrefix
<1>5. items \in Seq(Item)
  BY <1>3
<1> HIDE DEF items
<1>6. /\ e \in EndRecord /\ ~Ended("sender") /\ produced["sender"] \in Nat
      /\ sent["sender"] \in Seq(Id("sender")) /\ sent["sender"] \in Seq(1 .. produced["sender"])
  BY <1>2, GivenIds DEF Types, Ended, Given
<1>7. /\ messages \in Seq(1 .. produced["sender"])
      /\ sent["sender"] \o p.in \in Seq(1 .. produced["sender"])
  BY <1>3, <1>6, ReverseFacts
<1> HIDE DEF messages
<1>8. /\ end'["sender"] = [e EXCEPT !.pc = "failed"]
      /\ end'["receiver"] = end["receiver"]
      /\ wire'["sender"] = wire["sender"]
      /\ wire'["receiver"] = (IF Ended("receiver") THEN wire["receiver"] ELSE wire["receiver"] \o items)
      /\ sent'["sender"] = sent["sender"] \o p.in /\ sent'["receiver"] = sent["receiver"]
      /\ Messages'["sender"] = messages /\ Messages'["receiver"] = Messages["receiver"]
      /\ broken' \in BOOLEAN /\ (broken => broken')
  BY <1>2 DEF Types
<1>9. /\ end'["sender"].pc = "failed" /\ end'["sender"].max = e.max
      /\ end'["sender"].count = e.count /\ end'["sender"].mode = e.mode
      /\ TheMode' = TheMode /\ Ended("sender")'
  BY <1>6, <1>8 DEF EndRecord, TheMode, Ended
<1>10. Types'
  <2>1. [e EXCEPT !.pc = "failed"] \in EndRecord
    BY <1>6 DEF EndRecord, Pc
  <2>2. wire["receiver"] \o items \in Seq(Item)
    BY <1>5 DEF Types
  <2>3. 1 .. produced["sender"] \in SUBSET Nat
    BY <1>6
  <2>4. messages \in Seq(Nat) /\ sent["sender"] \o p.in \in Seq(Nat)
    BY <1>7, <2>3, SeqOfSubset
  <2>5. end' \in [End -> EndRecord]
    BY <1>2, <2>1 DEF Types
  <2>6. wire' \in [End -> Seq(Item)] /\ Messages' \in [End -> Seq(Nat)] /\ sent' \in [End -> Seq(Nat)]
    BY <1>2, <2>2, <2>4 DEF Types
  <2> QED
    BY <1>2, <1>8, <2>5, <2>6 DEF Types, choices
<1>11. ModesAgree'
  BY <1>2, <1>8, <1>9, ModesKept
<1>12. SenderInv'
  BY <1>2, <1>9, Frame DEF SenderInv
<1>13. ReceiverInv'
  BY <1>2, <1>8, <1>9, ReceiverKept
<1>14. OpeningInv'
  BY <1>2, <1>8, <1>9, Frame DEF OpeningInv
<1>15. OrderInv'
  <2>1. p.in \in Seq(Nat)
    <3>1. 1 .. produced["sender"] \in SUBSET Nat
      BY <1>6
    <3> QED
      BY <1>3, <3>1, SeqOfSubset
  <2>2. IsPrefix(received["receiver"], sent["sender"])
    BY DEF OrderInv
  <2>3. received["receiver"] \in Seq(Nat) /\ sent["sender"] \in Seq(Nat)
    BY DEF Types
  <2>4. IsPrefix(received["receiver"], sent["sender"] \o p.in)
    BY <2>1, <2>2, <2>3, PrefixFacts
  <2> QED
    BY <1>2, <1>8, <1>9, <2>4, Frame DEF OrderInv
<1>16. ASSUME NEW x \in End PROVE Given(x)'
  BY <1>2, <1>7, <1>8 DEF Given
<1>17. Linked("sender")'
  BY <1>9 DEF Linked
<1>18. Linked("receiver")'
  <2>1. At("receiver")' = At("receiver")
    BY <1>2, <1>8, <1>9, Frame DEF At, ReceiverAt
  <2>2. /\ Peer("receiver") = "sender" /\ ~Ended("sender") /\ sent["sender"] \in Seq(Id("sender"))
        /\ items \in Seq(Item) /\ p.in \in Seq(Id("sender"))
        /\ Linked("receiver") /\ Types
    BY <1>3, <1>5, <1>6
  <2>3. /\ Stream("receiver")' = Stream("receiver") /\ end'["receiver"] = end["receiver"]
        /\ sent'["sender"] = sent["sender"] \o p.in /\ end'["sender"].pc = "failed"
        /\ wire'["receiver"] = (IF Ended("receiver") THEN wire["receiver"] ELSE wire["receiver"] \o items)
    BY <1>2, <1>8, <1>9, Frame
  <2> HIDE DEF TransferInv, e
  <2> QED
    BY <1>4, <2>1, <2>2, <2>3, LinkedWrites
<1>19. ~Sound'
  <2> SUFFICES ASSUME Sound' PROVE FALSE
    OBVIOUS
  <2>1. Sound /\ ~broken'
    BY <1>2, <1>8, <1>9, SoundKept DEF Sound
  <2> QED
    BY <1>2, <2>1, SoundEnds
<1>20. ReplyInv' /\ TurnsInv' /\ DoneInv' /\ UnreadInv'
  BY <1>9, <1>19 DEF ReplyInv, TurnsInv, DoneInv, UnreadInv
<1>21. FailsOnlyWhenBroken'
  BY <1>19 DEF FailsOnlyWhenBroken, Sound, TheMode
<1> QED
  BY <1>10, <1>11, <1>12, <1>13, <1>14, <1>15, <1>16, <1>17, <1>18, <1>20, <1>21

\* What an answer is.
AnswerItems ==
  IF WithPayload(TheMode) THEN <<Header(Payload("receiver").size)>> \o Payload("receiver").items
  ELSE <<Header(0)>>
AnswerMessages == IF WithPayload(TheMode) THEN Messages["receiver"] ELSE <<>>

\* An answer can be read where the sender waits for it.
LEMMA AnswerFacts ==
  ASSUME Types, Given("receiver")
  PROVE  /\ AnswerMessages \in Seq(Id("receiver"))
         /\ AnswerMessages \in Seq(1 .. produced["receiver"])
         /\ AnswerItems \in Seq(Item) /\ AnswerItems # <<>> /\ NoHeader(Tail(AnswerItems))
         /\ \A t \in Position : AtEnd("sender", t) =>
              \E u \in Position :
                /\ Reads(Stream("sender"), sent["receiver"] \o AnswerMessages, AnswerItems, t, u)
                /\ u.phase = "data" /\ u.rest = 0 /\ u.got = Len(sent["receiver"] \o AnswerMessages)
<1> USE Ends
<1> DEFINE c == Stream("sender")
           written == sent["receiver"]
<1>1. /\ c \in StreamRecord /\ c.from = "receiver" /\ c.chunks
      /\ written \in Seq(Id("receiver")) /\ Messages["receiver"] \in Seq(Id("receiver"))
      /\ Messages["receiver"] \in Seq(1 .. produced["receiver"])
  BY StreamTypes, GivenIds DEF Given
<1>2. CASE ~WithPayload(TheMode)
  <2>1. AnswerItems = <<Header(0)>> /\ AnswerMessages = <<>>
    BY <1>2 DEF AnswerItems, AnswerMessages
  <2>2. /\ <<Header(0)>> \in Seq(Item) /\ <<Header(0)>> # <<>> /\ Tail(<<Header(0)>>) = <<>>
        /\ NoHeader(<<>>)
    BY HeaderItem
  <2>3. written \o <<>> = written
    BY <1>1
  <2>4. ASSUME NEW t \in Position, AtEnd("sender", t)
        PROVE  \E u \in Position : /\ Reads(c, written, <<Header(0)>>, t, u)
                                   /\ u.phase = "data" /\ u.rest = 0 /\ u.got = Len(written)
    <3>1. t.got = Len(written)
      BY <2>4 DEF AtEnd
    <3> QED
      BY <2>4, <3>1, EmptyAnswer
  <2> HIDE DEF c, written
  <2>5. <<>> \in Seq(Id("receiver")) /\ <<>> \in Seq(1 .. produced["receiver"])
    OBVIOUS
  <2>6. NoHeader(Tail(<<Header(0)>>))
    BY <2>2
  <2> QED
    BY <2>1, <2>2, <2>3, <2>4, <2>5, <2>6 DEF c, written
<1>3. CASE WithPayload(TheMode)
  <2> DEFINE messages == Messages["receiver"]
             total == TotalSize("receiver", messages)
             zeros == IF messages = <<>> THEN 0 ELSE AtLeast(0, minPacketSize - total)
             size == total + zeros
             content == Content("receiver", messages, zeros, 0)
             items == <<Header(size)>> \o content
  <2>1. AnswerItems = items /\ AnswerMessages = messages
    BY <1>3 DEF AnswerItems, AnswerMessages, Payload, PayloadIndex
  <2>2. total \in Nat /\ minPacketSize \in Nat
    BY <1>1, TotalSizeFacts, Bounds DEF Id
  <2>3. zeros \in Nat
    <3> HIDE DEF total
    <3> QED
      BY <2>2 DEF AtLeast
  <2>4. content \in Seq(Item) /\ NoHeader(content)
    <3> HIDE DEF zeros, messages
    <3> QED
      BY <1>1, <2>3, ContentFacts DEF messages
  <2>5. messages \in Seq(Id("receiver"))
    BY <1>1
  <2>6. Tail(items) = content /\ items # <<>>
    <3> HIDE DEF content, size
    <3> QED
      BY <2>4
  <2> HIDE DEF messages, zeros, total
  <2>7. ASSUME NEW t \in Position, t.phase = "data", t.rest = 0, t.got = Len(written)
        PROVE  /\ items \in Seq(Item)
               /\ \E u \in Position :
                    /\ Reads(c, written \o messages, items, t, u)
                    /\ u.phase = "data" /\ u.rest = 0 /\ u.got = Len(written \o messages)
    <3>1. /\ written \in Seq(Id(c.from)) /\ messages \in Seq(Id(c.from))
          /\ size = TotalSize(c.from, messages) + zeros
          /\ c.from # "sender"
      BY <1>1, <2>5 DEF total
    <3>2. (IF c.chunks /\ c.from # "sender" THEN 0 ELSE t.index) = 0
      BY <1>1
    <3> HIDE DEF size, written, c
    <3> DEFINE all == (IF c.chunks THEN <<Header(size)>> ELSE <<>>)
                        \o Content(c.from, messages, zeros,
                                   IF c.chunks /\ c.from # "sender" THEN 0 ELSE t.index)
    <3>3. /\ all \in Seq(Item)
          /\ \E u \in Position :
               /\ Reads(c, written \o messages, all, t, u)
               /\ u.phase = "data" /\ u.rest = 0 /\ u.got = Len(written \o messages)
      BY <1>1, <2>3, <2>7, <3>1, PacketRead
    <3>4. all = items
      BY <1>1, <3>2
    <3> HIDE DEF all, items
    <3> QED
      BY <3>3, <3>4
  <2>8. items \in Seq(Item)
    <3> DEFINE t == Pos("data", 0, 0, Len(written))
    <3>1. t \in Position /\ t.phase = "data" /\ t.rest = 0 /\ t.got = Len(written)
      BY <1>1 DEF Position, Pos
    <3> HIDE DEF t, items, c, written
    <3> QED
      BY <2>7, <3>1
  <2>9. ASSUME NEW t \in Position, AtEnd("sender", t)
        PROVE  t.phase = "data" /\ t.rest = 0 /\ t.got = Len(written)
    BY <2>9 DEF AtEnd
  <2>10. NoHeader(Tail(items))
    BY <2>4, <2>6
  <2>11. messages \in Seq(1 .. produced["receiver"])
    BY <1>1 DEF messages
  <2> HIDE DEF items
  <2> QED
    BY <2>1, <2>5, <2>6, <2>7, <2>8, <2>9, <2>10, <2>11
<1> QED
  BY <1>2, <1>3

\* Answer: the receiver answers a packet.
LEMMA AnswerStep ==
  ASSUME TransferInv, Answer
  PROVE  TransferInv'
<1> USE Ends DEF TransferInv
<1> DEFINE e == end["receiver"]
           s == end["sender"]
           items == AnswerItems
           more == AnswerMessages
           left == IF WithPayload(TheMode) THEN <<>> ELSE Messages["receiver"]
<1>1. /\ more \in Seq(Id("receiver")) /\ more \in Seq(1 .. produced["receiver"])
      /\ items \in Seq(Item) /\ items # <<>> /\ NoHeader(Tail(items))
      /\ \A t \in Position : AtEnd("sender", t) =>
           \E u \in Position :
             /\ Reads(Stream("sender"), sent["receiver"] \o more, items, t, u)
             /\ u.phase = "data" /\ u.rest = 0 /\ u.got = Len(sent["receiver"] \o more)
  BY AnswerFacts
<1>2. /\ e.pc = "answer"
      /\ wire' = (IF Ended("sender") THEN wire ELSE [wire EXCEPT !["sender"] = @ \o items])
      /\ end' = [end EXCEPT !["receiver"].pc = "receiving"]
      /\ UNCHANGED choices /\ UNCHANGED <<produced, received, broken>>
  <2>1. WithPayload(e.mode) = WithPayload(TheMode)
    BY DEF ModesAgree
  <2> QED
    BY <2>1 DEF Answer, Write, Goes, AnswerItems
<1>3. /\ Messages' = [Messages EXCEPT !["receiver"] = left]
      /\ sent' = [sent EXCEPT !["receiver"] = @ \o more]
  <2>1. WithPayload(e.mode) = WithPayload(TheMode)
    BY DEF ModesAgree
  <2>2. CASE WithPayload(TheMode)
    BY <2>1, <2>2 DEF Answer, AnswerMessages
  <2>3. CASE ~WithPayload(TheMode)
    <3>1. Messages' = Messages /\ sent' = sent /\ more = <<>> /\ left = Messages["receiver"]
      BY <2>1, <2>3 DEF Answer, AnswerMessages
    <3>2. sent["receiver"] \o <<>> = sent["receiver"]
      BY DEF Types
    <3> QED
      BY <3>1, <3>2 DEF Types
  <2> QED
    BY <2>2, <2>3
<1> HIDE DEF items, more
<1>4. /\ e \in EndRecord /\ ~Ended("receiver") /\ WithAnswers /\ produced["receiver"] \in Nat
      /\ sent["receiver"] \in Seq(Id("receiver"))
      /\ sent["receiver"] \in Seq(1 .. produced["receiver"])
      /\ left \in Seq(1 .. produced["receiver"])
  <2>1. e \in EndRecord /\ produced["receiver"] \in Nat
    BY DEF Types
  <2>2. ~Ended("receiver") /\ WithAnswers
    BY <1>2 DEF Ended, ReceiverInv
  <2>3. sent["receiver"] \in Seq(Id("receiver"))
    BY GivenIds
  <2>4. /\ sent["receiver"] \in Seq(1 .. produced["receiver"])
        /\ Messages["receiver"] \in Seq(1 .. produced["receiver"])
    BY DEF Given
  <2>5. left \in Seq(1 .. produced["receiver"])
    <3>1. <<>> \in Seq(1 .. produced["receiver"])
      OBVIOUS
    <3> QED
      BY <2>4, <3>1
  <2> HIDE DEF left, e
  <2> QED
    BY <2>1, <2>2, <2>3, <2>4, <2>5
<1> HIDE DEF left
<1>5. /\ end'["receiver"] = [e EXCEPT !.pc = "receiving"] /\ end'["sender"] = s
      /\ wire'["receiver"] = wire["receiver"]
      /\ wire'["sender"] = (IF Ended("sender") THEN wire["sender"] ELSE wire["sender"] \o items)
      /\ sent'["receiver"] = sent["receiver"] \o more /\ sent'["sender"] = sent["sender"]
      /\ Messages'["receiver"] = left /\ Messages'["sender"] = Messages["sender"]
  BY <1>2, <1>3 DEF Types
<1>6. /\ end'["receiver"].pc = "receiving" /\ end'["receiver"].max = e.max
      /\ end'["receiver"].count = e.count /\ end'["receiver"].mode = e.mode
      /\ TheMode' = TheMode /\ ~Ended("receiver")'
  BY <1>4, <1>5 DEF EndRecord, TheMode, Ended
<1>7. sent["receiver"] \o more \in Seq(1 .. produced["receiver"])
  BY <1>1, <1>4
<1>8. Types'
  <2>1. [e EXCEPT !.pc = "receiving"] \in EndRecord
    BY <1>4 DEF EndRecord, Pc
  <2>2. wire["sender"] \o items \in Seq(Item)
    BY <1>1 DEF Types
  <2>3. 1 .. produced["receiver"] \in SUBSET Nat
    BY <1>4
  <2>4. left \in Seq(Nat) /\ sent["receiver"] \o more \in Seq(Nat)
    BY <1>4, <1>7, <2>3, SeqOfSubset
  <2>5. end' \in [End -> EndRecord] /\ wire' \in [End -> Seq(Item)]
    BY <1>2, <2>1, <2>2 DEF Types
  <2>6. Messages' \in [End -> Seq(Nat)] /\ sent' \in [End -> Seq(Nat)]
    BY <1>3, <2>4 DEF Types
  <2> QED
    BY <1>2, <2>5, <2>6 DEF Types, choices
<1>9. ModesAgree'
  BY <1>2, <1>6, ModesKept
<1>10. SenderInv'
  BY <1>2, <1>4, <1>5, <1>6, SenderKept
<1>11. ReceiverInv'
  BY <1>2, <1>5, <1>6, Frame DEF ReceiverInv
<1>12. OpeningInv'
  <2>1. s.pc # "start"
    BY <1>2 DEF OpeningInv, Types
  <2> QED
    BY <1>5, <1>6, <2>1 DEF OpeningInv
<1>13. OrderInv'
  <2>1. more \in Seq(Nat)
    <3>1. 1 .. produced["receiver"] \in SUBSET Nat
      BY <1>4
    <3> QED
      BY <1>1, <3>1, SeqOfSubset
  <2>2. IsPrefix(received["sender"], sent["receiver"])
    BY DEF OrderInv
  <2>3. received["sender"] \in Seq(Nat) /\ sent["receiver"] \in Seq(Nat)
    BY DEF Types
  <2>4. IsPrefix(received["sender"], sent["receiver"] \o more)
    BY <2>1, <2>2, <2>3, PrefixFacts
  <2>5. IsPrefix(received["receiver"], sent["sender"])
    BY DEF OrderInv
  <2> QED
    BY <1>2, <1>4, <1>5, <1>6, <2>4, <2>5, Frame DEF OrderInv
<1>14. ASSUME NEW x \in End PROVE Given(x)'
  BY <1>2, <1>4, <1>5, <1>7 DEF Given
<1>15. Linked("sender")'
  <2>1. ASSUME NEW t \in Position, AtEnd("sender", t)
        PROVE  \E u \in Position :
                 /\ Reads(Stream("sender"), sent["receiver"] \o more, items, t, u)
                 /\ AtEnd("sender", u)'
    <3>1. PICK u \in Position :
                 /\ Reads(Stream("sender"), sent["receiver"] \o more, items, t, u)
                 /\ u.phase = "data" /\ u.rest = 0 /\ u.got = Len(sent["receiver"] \o more)
      BY <1>1, <2>1
    <3>2. AtEnd("sender", u)'
      BY <1>5, <3>1 DEF AtEnd
    <3> QED
      BY <3>1, <3>2
  <2>2. At("sender")' = At("sender")
    BY <1>2, <1>5 DEF At, SenderAt
  <2> QED
    BY <1>1, <1>2, <1>4, <1>5, <1>6, <2>1, <2>2, Frame, LinkedWrites
<1>16. Linked("receiver")'
  <2>1. \A t \in Position : AtEnd("receiver", t) => AtEnd("receiver", t)'
    BY <1>2, <1>5, <1>6, Frame DEF AtEnd
  <2>2. At("receiver")' = At("receiver")
    BY <1>2, <1>6, Frame DEF At, ReceiverAt
  <2> QED
    BY <1>2, <1>4, <1>5, <1>6, <2>1, <2>2, Frame, LinkedKept DEF Ended
<1>17. s.pc = "reply" => wire'["sender"] = wire["sender"] \o items /\ wire["sender"] \o items # <<>>
  <2>1. wire["sender"] \o items # <<>>
    BY <1>1 DEF Types
  <2> QED
    BY <1>5, <2>1 DEF Ended
<1>18. ReplyInv'
  BY <1>5, <1>17 DEF ReplyInv
\* The sender waits for this answer.
<1>19. ASSUME InPackets
       PROVE  /\ s.pc \notin {"sending", "payload", "done"}
              /\ s.pc = "reply" => /\ wire["sender"] = <<>> /\ wire["receiver"] = <<>>
                                   /\ e.count = s.count
  BY <1>2, <1>4, <1>19 DEF TurnsInv, Caught
<1>20. TurnsInv'
  <2> SUFFICES ASSUME WithAnswers, InPackets
               PROVE  /\ s.pc \notin {"sending", "payload", "done"}
                      /\ s.pc = "reply" => /\ NoHeader(Tail(wire'["sender"]))
                                           /\ wire["receiver"] = <<>> /\ e.count = s.count
    <3>1. WithAnswers' = WithAnswers /\ InPackets' = InPackets
      BY <1>2, <1>6, Frame
    <3> QED
      BY <1>5, <1>6, <3>1 DEF TurnsInv, Caught
  <2>1. s.pc = "reply" => wire'["sender"] = items
    <3>1. <<>> \o items = items
      BY <1>1
    <3> QED
      BY <1>17, <1>19, <3>1
  <2> QED
    BY <1>1, <1>19, <2>1
<1>21. DoneInv'
  <2>1. InPackets' = InPackets
    BY <1>2, <1>6, Frame
  <2> QED
    BY <1>5, <1>6, <1>19, <2>1 DEF DoneInv
<1>22. FailsOnlyWhenBroken'
  BY <1>2, <1>5, <1>6, FailsKept DEF Ended
<1>23. UnreadInv'
  <2>1. OneHeaderInv'
    BY <1>2, <1>4, <1>6, Frame DEF OneHeaderInv
  <2>2. Sound /\ Ended("sender")' => wire'["sender"] = <<>>
    BY <1>5 DEF UnreadInv, Ended
  <2> QED
    BY <1>2, <1>6, <2>1, <2>2, SoundKept DEF UnreadInv
<1> QED
  BY <1>8, <1>9, <1>10, <1>11, <1>12, <1>13, <1>14, <1>15, <1>16, <1>18, <1>20, <1>21, <1>22, <1>23

-----------------------------------------------------------------------------
(* The modes and the initial states *)

\* What a mode written by Parse is like.
Coherent(m) ==
  /\ m.Mode = "Bombard" <=> m.get \/ m.getPayload \/ m.post \/ m.reply \/ m.replyPayload
  /\ m.getPayload => m.get

\* Parse: a mode of a text.
LEMMA ParseFacts ==
  ASSUME NEW words
  PROVE  Parse(words) \in ModeRecord /\ Coherent(Parse(words))
BY DEF Parse, ModeRecord, Coherent

\* The text of a mode says what the mode is.
LEMMA ModeTextFacts ==
  ASSUME NEW m \in ModeRecord, Coherent(m), m.Mode # "None"
  PROVE  Parse(ModeText(m)) = m
<1> DEFINE words == ModeText(m)
<1>1. /\ m = [Mode |-> m.Mode, get |-> m.get, getPayload |-> m.getPayload,
              post |-> m.post, reply |-> m.reply, replyPayload |-> m.replyPayload]
      /\ m.Mode \in {"Normal", "Bombard"}
      /\ m.get \in BOOLEAN /\ m.getPayload \in BOOLEAN /\ m.post \in BOOLEAN
      /\ m.reply \in BOOLEAN /\ m.replyPayload \in BOOLEAN
  BY DEF ModeRecord
<1>2. CASE m.Mode = "Normal"
  <2>1. ~m.get /\ ~m.getPayload /\ ~m.post /\ ~m.reply /\ ~m.replyPayload
    BY <1>2 DEF Coherent
  <2>2. words = {"normal"}
    BY <1>2, <2>1 DEF ModeText, IsFullBombard
  <2>3. Parse({"normal"}) = [Mode |-> "Normal", get |-> FALSE, getPayload |-> FALSE,
                             post |-> FALSE, reply |-> FALSE, replyPayload |-> FALSE]
    BY DEF Parse
  <2> QED
    BY <1>1, <1>2, <2>1, <2>2, <2>3
<1>3. CASE m.Mode = "Bombard" /\ IsFullBombard(m)
  <2>1. words = {"bombard"}
    BY <1>3 DEF ModeText
  <2>2. m.get /\ m.getPayload /\ m.post /\ m.reply /\ m.replyPayload
    BY <1>3 DEF IsFullBombard
  <2>3. Parse({"bombard"}) = [Mode |-> "Bombard", get |-> TRUE, getPayload |-> TRUE,
                              post |-> TRUE, reply |-> TRUE, replyPayload |-> TRUE]
    BY DEF Parse
  <2> QED
    BY <1>1, <1>3, <2>1, <2>2, <2>3
<1>4. CASE m.Mode = "Bombard" /\ ~IsFullBombard(m)
  <2>1. words = (IF m.get THEN {"/get"} ELSE {}) \cup
                (IF m.getPayload THEN {"/getpayload"} ELSE {}) \cup
                (IF m.post THEN {"/post"} ELSE {}) \cup
                (IF m.reply THEN {"/postreply"} ELSE {}) \cup
                (IF m.replyPayload THEN {"/postreplypayload"} ELSE {})
    BY <1>4 DEF ModeText
  <2>2. /\ "/get" \in words <=> m.get
        /\ "/getpayload" \in words <=> m.getPayload
        /\ "/post" \in words <=> m.post
        /\ "/postreply" \in words <=> m.reply
        /\ "/postreplypayload" \in words <=> m.replyPayload
        /\ "bombard" \notin words
    BY <2>1
  <2> HIDE DEF words
  <2>3. words # {"bombard"}
    BY <2>2
  <2>4. words \cap {"/get", "/getpayload"} # {} <=> m.get
    BY <2>2 DEF Coherent
  <2>5. m.get \/ m.getPayload \/ m.post \/ m.reply \/ m.replyPayload
    BY <1>4 DEF Coherent
  <2>6. Parse(words) = [Mode |-> "Bombard", get |-> m.get, getPayload |-> m.getPayload,
                        post |-> m.post, reply |-> m.reply, replyPayload |-> m.replyPayload]
    BY <1>1, <2>2, <2>3, <2>4, <2>5 DEF Parse
  <2> QED
    BY <1>1, <1>4, <2>6 DEF words
<1> QED
  BY <1>1, <1>2, <1>3, <1>4

\* The modes of the configurations.
LEMMA ClientModeFacts ==
  ASSUME NEW config,
         tunnel = (IF config.tunnel = "HTTP" \/ Parse(config.words).Mode # "None" THEN "HTTP" ELSE "TCP")
  PROVE  LET m == ClientMode(config)
         IN /\ m \in ModeRecord /\ ServerMode(m) = m
            /\ tunnel = "TCP" =>
                 ~m.get /\ ~m.getPayload /\ ~m.post /\ ~m.reply /\ ~m.replyPayload
<1> DEFINE p == Parse(config.words)
           m == ClientMode(config)
<1>1. p \in ModeRecord /\ Coherent(p)
  BY ParseFacts
<1>2. m = (IF config.tunnel = "HTTP" /\ p.Mode = "None" THEN [p EXCEPT !.Mode = "Normal"] ELSE p)
  BY DEF ClientMode
<1> HIDE DEF p, m
<1>3. m \in ModeRecord /\ Coherent(m)
  BY <1>1, <1>2 DEF ModeRecord, Coherent
<1>4. CASE tunnel = "HTTP"
  <2>1. m.Mode # "None"
    BY <1>1, <1>2, <1>4 DEF ModeRecord, p
  <2> QED
    BY <1>3, <1>4, <2>1, ModeTextFacts DEF ServerMode, m
<1>5. CASE tunnel # "HTTP"
  <2>1. m = p /\ m.Mode = "None"
    BY <1>2, <1>5 DEF p
  <2>2. ~m.get /\ ~m.getPayload /\ ~m.post /\ ~m.reply /\ ~m.replyPayload
    BY <1>3, <2>1 DEF Coherent
  <2>3. m = [Mode |-> "None", get |-> FALSE, getPayload |-> FALSE,
             post |-> FALSE, reply |-> FALSE, replyPayload |-> FALSE]
    BY <1>3, <2>1, <2>2 DEF ModeRecord
  <2>4. ServerMode(m) = Parse({})
    BY <1>5 DEF ServerMode
  <2>5. Parse({}) = [Mode |-> "None", get |-> FALSE, getPayload |-> FALSE,
                     post |-> FALSE, reply |-> FALSE, replyPayload |-> FALSE]
    BY DEF Parse
  <2> QED
    BY <1>3, <2>2, <2>3, <2>4, <2>5 DEF m
<1> QED
  BY <1>4, <1>5, <1>3 DEF m

\* The invariant holds before the client opens the connection.
LEMMA InitInv == Init => TransferInv
<1> SUFFICES ASSUME Init PROVE TransferInv
  OBVIOUS
<1> USE Ends
<1>1. PICK config \in Configs :
             /\ tunnel = (IF config.tunnel = "HTTP" \/ Parse(config.words).Mode # "None"
                          THEN "HTTP" ELSE "TCP")
             /\ end = [x \in End |-> Idle(ClientMode(config))]
  BY DEF Init
<1> DEFINE m == ClientMode(config)
<1>2. /\ m \in ModeRecord /\ ServerMode(m) = m
      /\ tunnel = "TCP" => ~m.get /\ ~m.getPayload /\ ~m.post /\ ~m.reply /\ ~m.replyPayload
  BY <1>1, ClientModeFacts
<1> HIDE DEF m
<1>3. \A x \in End : /\ end[x].pc = "start" /\ end[x].mode = m /\ end[x].max = 0
                     /\ end[x].count = 0 /\ end[x].left = 0 /\ end[x].offset = 0
                     /\ end[x] \in EndRecord
  BY <1>1, <1>2 DEF Idle, EndRecord, Pc, m
<1>4. /\ wire = [x \in End |-> <<>>] /\ Messages = [x \in End |-> <<>>]
      /\ produced = [x \in End |-> 0] /\ sent = [x \in End |-> <<>>]
      /\ received = [x \in End |-> <<>>] /\ broken = FALSE
  BY DEF Init
<1>5. Types
  <2>1. transferSize \in fileHeaderSize + 1 .. MaxTransferSize
    <3>1. /\ fileHeaderSize \in Nat /\ MaxTransferSize \in Nat
          /\ transferSize \in AtLeast(MaxTransferSize \div 2, fileHeaderSize + 1) .. MaxTransferSize
      BY ConstantsAssumption DEF Init
    <3>2. MaxTransferSize \div 2 \in Int
      BY <3>1
    <3> QED
      BY <3>1, <3>2 DEF AtLeast
  <2>2. end \in [End -> EndRecord]
    BY <1>1, <1>3
  <2>3. /\ wire \in [End -> Seq(Item)] /\ Messages \in [End -> Seq(Nat)] /\ sent \in [End -> Seq(Nat)]
        /\ received \in [End -> Seq(Nat)] /\ produced \in [End -> Nat]
    BY <1>4
  <2> QED
    BY <1>1, <1>4, <2>1, <2>2, <2>3 DEF Types, Init
<1>6. TheMode = m
  BY <1>3 DEF TheMode
<1>7. ModesAgree
  <2>1. tunnel = "TCP" => ~InPackets /\ ~WithAnswers
    BY <1>2, <1>6 DEF InPackets, WithAnswers, Chunked, Answered
  <2> QED
    BY <1>2, <1>3, <1>6, <2>1 DEF ModesAgree
<1>8. SenderInv /\ ReceiverInv
  <2>1. SenderInv
    BY <1>3, <1>4, <1>5, Bounds DEF SenderInv
  <2>2. ReceiverInv
    BY <1>3, <1>4, <1>5, Bounds DEF ReceiverInv
  <2> QED
    BY <2>1, <2>2
<1>9. OpeningInv
  BY <1>3, <1>4 DEF OpeningInv
<1>10. OrderInv
  <2>1. IsPrefix(<<>>, <<>>)
    BY DEF IsPrefix
  <2> QED
    BY <1>4, <2>1 DEF OrderInv
<1>11. ASSUME NEW x \in End PROVE Given(x)
  <2>1. Len(MessageSizes[x]) \in Nat
    BY ConstantsAssumption DEF End
  <2> QED
    BY <1>4, <2>1 DEF Given
<1>12. ASSUME NEW x \in End PROVE Linked(x)
  <2>1. Reads(Stream(x), sent[Peer(x)], wire[x], At(x), At(x)) /\ At(x) \in Position
    BY <1>4, <1>5, AtTypes, ReadsNothing
  <2>2. AtEnd(x, At(x))
    BY <1>3, <1>4, <1>5, AtTypes DEF AtEnd
  <2> QED
    BY <2>1, <2>2 DEF Linked
<1>13. ReplyInv /\ TurnsInv /\ DoneInv /\ UnreadInv /\ FailsOnlyWhenBroken
  BY <1>3, <1>4 DEF ReplyInv, TurnsInv, DoneInv, UnreadInv, OneHeaderInv, FailsOnlyWhenBroken, Ended
<1> QED
  BY <1>5, <1>7, <1>8, <1>9, <1>10, <1>11, <1>12, <1>13 DEF TransferInv

-----------------------------------------------------------------------------
(* The invariant holds *)

\* A step that changes nothing.
LEMMA StutterStep ==
  ASSUME TransferInv, UNCHANGED vars
  PROVE  TransferInv'
<1> USE Ends DEF TransferInv
<1>1. /\ UNCHANGED choices
      /\ UNCHANGED <<end, wire, Messages, produced, sent, received, broken>>
      /\ TheMode' = TheMode
  BY DEF vars, TheMode
<1>2. Types'
  BY <1>1 DEF Types, choices
<1>3. ModesAgree' /\ SenderInv' /\ ReceiverInv' /\ OrderInv' /\ FailsOnlyWhenBroken'
  BY <1>1, ModesKept, SenderKept, ReceiverKept, OrderKept, FailsKept DEF Ended
<1>4. OpeningInv' /\ ReplyInv' /\ DoneInv'
  BY <1>1, Frame DEF OpeningInv, ReplyInv, DoneInv, Sound, Ended
<1>5. TurnsInv'
  BY <1>1, Frame DEF TurnsInv, Ended, Caught
<1>6. ASSUME NEW x \in End PROVE Given(x)' /\ Linked(x)'
  <2>1. At(x)' = At(x)
    BY <1>1, Frame DEF At, SenderAt, ReceiverAt
  <2>2. \A t \in Position : AtEnd(x, t) => AtEnd(x, t)'
    BY <1>1, Frame DEF AtEnd
  <2> QED
    BY <1>1, <2>1, <2>2, Frame, GivenKept, LinkedKept DEF Ended
<1>7. UnreadInv'
  BY <1>1, UnreadKept
<1> QED
  BY <1>2, <1>3, <1>4, <1>5, <1>6, <1>7

\* In every reachable state of the transfer, each end that has not finished can
\* read everything that lies before it as what the other end meant by it; and
\* packets and answers take turns.  The named parts of TransferInv say how.
THEOREM Invariance == Spec => []TransferInv
<1>1. ASSUME TransferInv, [Next]_vars PROVE TransferInv'
  <2>1. CASE ClientStartsPost
    BY <1>1, <2>1, ClientStartsPostStep
  <2>2. CASE ServerStartsGet
    BY <1>1, <2>2, ServerStartsGetStep
  <2>3. CASE Transmit
    BY <1>1, <2>3, TransmitStep
  <2>4. CASE OutgoingStops
    BY <1>1, <2>4, OutgoingStopsStep
  <2>5. CASE ReadReply
    BY <1>1, <2>5, ReadReplyStep
  <2>6. CASE ReadPayload
    BY <1>1, <2>6, ReadPayloadStep
  <2>7. CASE ReadLast
    BY <1>1, <2>7, ReadLastStep
  <2>8. CASE ClientStartsGet
    BY <1>1, <2>8, ClientStartsGetStep
  <2>9. CASE ServerStartsPost
    BY <1>1, <2>9, ServerStartsPostStep
  <2>10. CASE ReadGetReply
    BY <1>1, <2>10, ReadGetReplyStep
  <2>11. CASE ReadFileHeader
    BY <1>1, <2>11, ReadFileHeaderStep
  <2>12. CASE BeforeReceiveMessage
    BY <1>1, <2>12, BeforeReceiveMessageStep
  <2>13. CASE ReadBody
    BY <1>1, <2>13, ReadBodyStep
  <2>14. CASE Answer
    BY <1>1, <2>14, AnswerStep
  <2>15. CASE IncomingEnds
    BY <1>1, <2>15, IncomingEndsStep
  <2>16. CASE TransmitFails
    BY <1>1, <2>16, TransmitFailsStep
  <2>17. CASE AnswerFails
    BY <1>1, <2>17, AnswerFailsStep
  <2>18. ASSUME NEW x \in End, Produce(x) \/ ReadsEnd(x) \/ Breaks(x) \/ Reset(x)
         PROVE  TransferInv'
    BY <1>1, <2>18, ProduceStep, ReadsEndStep, BreaksStep, ResetStep
  <2>19. CASE UNCHANGED vars
    BY <1>1, <2>19, StutterStep
  <2> QED
    BY <1>1, <2>1, <2>2, <2>3, <2>4, <2>5, <2>6, <2>7, <2>8, <2>9, <2>10, <2>11, <2>12, <2>13,
       <2>14, <2>15, <2>16, <2>17, <2>18, <2>19 DEF Next, Sender, Receiver
<1> QED
  BY InitInv, <1>1, PTL DEF Spec

-----------------------------------------------------------------------------
(* What follows from it *)

\* TransferInv gives the bounds of TypeOK.
LEMMA TypesFollow == TransferInv => TypeOK
<1> SUFFICES ASSUME TransferInv PROVE TypeOK
  OBVIOUS
<1> USE Ends DEF TransferInv
<1>1. /\ outgoing \in BOOLEAN /\ tunnel \in {"TCP", "HTTP"} /\ broken \in BOOLEAN
      /\ minPacketSize \in MinPacketSizes /\ fileHeaderSize \in FileHeaderSizes
  BY DEF Types
<1>2. /\ transferSize \in 1 .. MaxTransferSize /\ MaxTransferSize \in Nat
      /\ SenderMax \in Nat /\ ReceiverMax \in Nat /\ SenderMax <= MaxTransferSize
      /\ transferSize \in Nat /\ transferSize <= MaxTransferSize
      /\ AtLeast(0, minPacketSize - 1) \in Nat
      /\ CountMax = SenderMax + AtLeast(0, minPacketSize - 1)
  BY Bounds, ConstantsAssumption DEF Types
<1>3. ASSUME NEW x \in End
      PROVE  /\ end[x].pc \in Pc
             /\ end[x].max \in Nat /\ end[x].count \in Nat
             /\ {end[x].left, end[x].offset} \subseteq Nat /\ end[x].all \in BOOLEAN
             /\ end[x].max <= MaxTransferSize
             /\ LET max == IF tunnel = "TCP" /\ outgoing THEN MaxTransferSize ELSE end[x].max
                IN end[x].count <= max + AtLeast(0, minPacketSize - 1)
  <2>1. /\ end[x].pc \in Pc /\ end[x].max \in Nat /\ end[x].count \in Nat
        /\ {end[x].left, end[x].offset} \subseteq Nat /\ end[x].all \in BOOLEAN
    BY EndTypes
  <2>2. /\ end[x].max <= MaxTransferSize /\ end[x].count <= CountMax
        /\ end[x].count = 0 \/ end[x].max = (IF x = "sender" THEN SenderMax ELSE ReceiverMax)
    <3>1. CASE x = "sender"
      BY <1>2, <2>1, <3>1 DEF SenderInv
    <3>2. CASE x = "receiver"
      BY <1>2, <2>1, <3>2 DEF ReceiverInv
    <3> QED
      BY <3>1, <3>2
  <2>3. IF tunnel = "TCP" /\ outgoing THEN SenderMax = MaxTransferSize ELSE SenderMax = ReceiverMax
    BY DEF SenderMax, ReceiverMax
  <2> QED
    BY <1>2, <2>1, <2>2, <2>3
<1>4. ASSUME NEW x \in End
      PROVE  /\ produced[x] \in 0 .. Len(MessageSizes[x])
             /\ \A s \in {Messages[x], sent[x], received[Peer(x)]} : Range(s) \subseteq 1 .. produced[x]
  <2>1. produced[x] \in 0 .. Len(MessageSizes[x])
    <3>1. Len(MessageSizes[x]) \in Nat
      BY ConstantsAssumption DEF End
    <3> QED
      BY <3>1 DEF Types, Given
  <2>2. Messages[x] \in Seq(1 .. produced[x]) /\ sent[x] \in Seq(1 .. produced[x])
    BY DEF Given
  <2>3. Range(Messages[x]) \subseteq 1 .. produced[x] /\ Range(sent[x]) \subseteq 1 .. produced[x]
    <3>1. \A T : \A s \in Seq(T) : Range(s) \subseteq T
      BY DEF Range
    <3> QED
      BY <2>2, <3>1
  <2>4. Range(received[Peer(x)]) \subseteq 1 .. produced[x]
    <3>1. IsPrefix(received[Peer(x)], sent[x])
      BY DEF OrderInv
    <3>2. received[Peer(x)] \in Seq(Nat) /\ sent[x] \in Seq(Nat)
      BY DEF Types
    <3> DEFINE read == received[Peer(x)]
               w == sent[x]
               ids == 1 .. produced[x]
    <3>3. read \in Seq(Nat) /\ w \in Seq(Nat) /\ w \in Seq(ids) /\ IsPrefix(read, w)
      BY <2>2, <3>1, <3>2
    <3> HIDE DEF read, w, ids
    <3>4. Range(read) \subseteq ids
      BY <3>3, PrefixRange
    <3> QED
      BY <3>4 DEF read, ids
  <2> QED
    BY <2>1, <2>3, <2>4
<1>5. ASSUME NEW x \in End
      PROVE  /\ end[x].max \in 0 .. MaxTransferSize
             /\ LET max == IF tunnel = "TCP" /\ outgoing THEN MaxTransferSize ELSE end[x].max
                IN end[x].count \in 0 .. max + AtLeast(0, minPacketSize - 1)
  BY <1>2, <1>3
<1> QED
  BY <1>1, <1>2, <1>3, <1>4, <1>5 DEF TypeOK, Pc

\* What each end expects is what it takes from its stream.
LEMMA InStepFollows == TransferInv => InStep
<1> SUFFICES ASSUME TransferInv, NEW x \in End, Reading(x), end[x].pc # "start", wire[x] # <<>>
             PROVE  Expected(x)
  BY DEF InStep
<1> USE Ends DEF TransferInv
<1> DEFINE item == Head(wire[x])
           c == Stream(x)
           s == At(x)
           e == end[x]
<1>1. ~Ended(x)
  BY DEF Reading, Ended
<1>2. PICK u \in Position : Takes(c, sent[Peer(x)], s, item, u)
  BY <1>1, NextItem
<1>3. /\ s \in Position /\ c \in StreamRecord /\ c.from = Peer(x)
      /\ (c.chunks <=> x = "sender" \/ InPackets)
      /\ item \in Item /\ sent[Peer(x)] \in Seq(Id(Peer(x)))
  BY AtTypes, StreamTypes, TailTypes, GivenIds
<1>4. e.left \in Nat /\ e.count \in Nat /\ e.offset \in Nat
  BY EndTypes
\* A part of a packet has a size.
<1>5. ASSUME c.chunks, s.rest = 0 PROVE ~TakesMessage(c, sent[Peer(x)], s, item, u) /\ ~TakesZero(c, s, item, u)
  <2>1. ~TakesZero(c, s, item, u)
    BY <1>5 DEF TakesZero, TakesPart
  <2>2. SUFFICES ASSUME TakesMessage(c, sent[Peer(x)], s, item, u) PROVE FALSE
    BY <2>1
  <2>3. s.got + 1 \in 1 .. Len(sent[Peer(x)]) /\ item.id = sent[Peer(x)][s.got + 1]
    BY <1>3, <2>2 DEF TakesMessage, Position
  <2>4. item.id \in Id(Peer(x))
    BY <1>3, <2>3
  <2>5. SizeOf(Peer(x), item.id) \in Nat \ {0} /\ SizeOf(Peer(x), item.id) <= 0
    BY <1>3, <1>5, <2>2, <2>4, SizePositive DEF TakesMessage, TakesPart
  <2> QED
    BY <2>5
<1> HIDE DEF c, s, item
\* A header comes where the position is between packets.
<1>6. ASSUME s.phase = "open" \/ (s.phase = "data" /\ c.chunks /\ s.rest = 0)
      PROVE  item.kind = "header"
  BY <1>2, <1>5, <1>6 DEF Takes, TakesHeader, TakesFile, TakesMessage, TakesZero, TakesPart
<1>7. ASSUME s.phase = "file" PROVE item.kind = "file"
  BY <1>2, <1>7 DEF Takes, TakesHeader, TakesFile, TakesMessage, TakesZero, TakesPart
<1>8. ASSUME s.phase = "data", c.chunks => s.rest > 0
      PROVE  item.kind \in {"message", "zero"} /\ item.index = s.index
  BY <1>2, <1>8 DEF Takes, TakesHeader, TakesFile, TakesMessage, TakesZero, TakesPart
<1>9. CASE x = "sender"
  <2>1. e.pc \in {"reply", "last", "payload"}
    BY <1>9 DEF Reading, SenderInv
  <2>2. s.phase = "data" /\ s.rest = (IF e.pc = "payload" THEN e.left ELSE 0) /\ s.index = e.offset
    BY <1>9, AtTypes DEF s
  <2>3. CASE e.pc \in {"reply", "last"}
    BY <1>3, <1>6, <1>9, <2>2, <2>3 DEF Expected, Next1, item
  <2>4. CASE e.pc = "payload"
    <3>1. e.left > 0
      BY <1>9, <2>4 DEF SenderInv
    <3> QED
      BY <1>3, <1>8, <2>2, <2>4, <3>1 DEF Expected, Next1, item
  <2> QED
    BY <2>1, <2>3, <2>4
<1>10. CASE x = "receiver"
  <2>1. /\ e.pc \in {"getReply", "file", "body", "receiving"}
        /\ e.pc = "receiving" => InPackets
    BY <1>10 DEF Reading, ReceiverInv, ModesAgree, InPackets
  <2>2. /\ s.phase = (IF e.pc = "getReply" THEN (IF Opens THEN "open" ELSE "data")
                      ELSE IF e.pc = "file" THEN "file" ELSE "data")
        /\ s.rest = (IF e.pc = "body" /\ InPackets THEN e.left ELSE 0) /\ s.index = e.count
    BY <1>10, AtTypes DEF s
  <2>3. CASE e.pc = "getReply"
    <3>1. Opens
      BY <1>10, <2>3 DEF ReceiverInv, Opens
    <3> QED
      BY <1>6, <2>2, <2>3, <3>1 DEF Expected, Next1, item
  <2>4. CASE e.pc = "file"
    BY <1>7, <2>2, <2>4 DEF Expected, Next1, item
  <2>5. CASE e.pc = "receiving"
    BY <1>3, <1>6, <1>10, <2>1, <2>2, <2>5 DEF Expected, Next1, item
  <2>6. CASE e.pc = "body"
    <3>1. e.left > 0
      BY <1>10, <2>6 DEF ReceiverInv
    <3> QED
      BY <1>3, <1>8, <1>10, <2>2, <2>6, <3>1 DEF Expected, Next1, item
  <2> QED
    BY <2>1, <2>3, <2>4, <2>5, <2>6
<1> QED
  BY <1>9, <1>10

\* An end that waits has something to read, or its peer has something to do.
LEMMA NoMutualWaitFollows == TransferInv => NoMutualWait
<1> SUFFICES ASSUME TransferInv, \A x \in End : Reading(x) /\ wire[x] = <<>> PROVE FALSE
  BY DEF NoMutualWait
<1> USE Ends DEF TransferInv
<1> DEFINE s == end["sender"]
           r == end["receiver"]
<1>1. /\ Reading("sender") /\ Reading("receiver")
      /\ wire["sender"] = <<>> /\ wire["receiver"] = <<>>
      /\ ~Ended("sender") /\ ~Ended("receiver")
  BY DEF Reading, Ended
<1>2. AtEnd("sender", At("sender")) /\ AtEnd("receiver", At("receiver"))
  BY <1>1, NothingLeft DEF Ended
<1>3. /\ s.left \in Nat /\ r.left \in Nat /\ r.count \in Nat /\ s.count \in Nat
      /\ SenderMax \in Nat /\ ReceiverMax \in Nat /\ ReceiverMax <= SenderMax
  BY Bounds DEF Types, EndRecord
<1>4. r.count = s.count /\ Len(received["receiver"]) = Len(sent["sender"])
  BY <1>2, AtTypes DEF AtEnd
<1>5. s.pc # "payload"
  BY <1>2, <1>3, AtTypes DEF AtEnd, SenderInv
<1>6. s.pc # "start"
  BY <1>1 DEF OpeningInv, Reading, Types
<1>7. s.pc \in {"reply", "last"}
  BY <1>1, <1>5, <1>6 DEF Reading, SenderInv
<1>8. r.pc \notin {"start", "getReply", "file"}
  <2>1. At("receiver").phase = "data"
    BY <1>2, <1>6 DEF AtEnd
  <2>2. r.pc = "start" => outgoing
    BY <1>1 DEF Reading
  <2>3. r.pc \in {"start", "getReply"} => Opens
    BY <2>2 DEF ReceiverInv, Opens
  <2> QED
    BY <2>1, <2>3, AtTypes
<1>9. r.pc \in {"body", "receiving"} /\ r.count < ReceiverMax
  <2>1. r.pc \in {"body", "receiving"}
    BY <1>1, <1>8 DEF Reading, ReceiverInv
  <2>2. CASE r.pc = "body"
    <3>1. ~InPackets
      BY <1>2, <1>3, <2>2, AtTypes DEF AtEnd, ReceiverInv
    <3> QED
      BY <1>3, <2>2, <3>1 DEF ReceiverInv
  <2>3. CASE r.pc = "receiving"
    BY <1>1, <2>3 DEF Reading, ReceiverInv
  <2> QED
    BY <2>1, <2>2, <2>3
<1>10. CASE s.pc = "last"
  BY <1>1, <1>3, <1>4, <1>9, <1>10 DEF SenderInv
<1>11. CASE s.pc = "reply"
  BY <1>1, <1>3, <1>4, <1>9, <1>11 DEF ReplyInv, Types
<1> QED
  BY <1>7, <1>10, <1>11

\* An end that is done has got what was sent.
LEMMA ReceivedAllFollows == TransferInv => ReceivedAll
<1> SUFFICES ASSUME TransferInv PROVE ReceivedAll
  OBVIOUS
<1> USE Ends DEF TransferInv
<1>1. \A x \in End : /\ IsPrefix(received[Peer(x)], sent[x])
                     /\ received[Peer(x)] \in Seq(Nat) /\ sent[x] \in Seq(Nat)
  BY DEF OrderInv, Types
<1>2. ASSUME tunnel = "HTTP", ~broken, OneAnswerEach(TheMode), \A y \in End : end[y].pc = "done"
      PROVE  \A x \in End : received[Peer(x)] = sent[x]
  <2>1. Len(received["receiver"]) = Len(sent["sender"])
    BY <1>2 DEF DoneInv, Sound
  <2>2. Len(received["sender"]) = Len(sent["receiver"])
    <3>1. CASE WithAnswers
      <4>1. InPackets
        BY <1>2, <3>1 DEF WithAnswers, InPackets, Answered, Chunked, OneAnswerEach
      <4> QED
        BY <1>2, <3>1, <4>1 DEF DoneInv, Sound
    <3>2. CASE ~WithAnswers
      <4>1. sent["receiver"] = <<>>
        BY <3>2 DEF OrderInv
      <4>2. Len(received["sender"]) <= Len(sent["receiver"]) /\ Len(received["sender"]) \in Nat
        BY <1>1, PrefixRange
      <4> QED
        BY <4>1, <4>2
    <3> QED
      BY <3>1, <3>2
  <2>3. \A x \in End : Len(received[Peer(x)]) = Len(sent[x])
    BY <2>1, <2>2
  <2> QED
    BY <1>1, <2>3, PrefixRange
<1> QED
  BY <1>1, <1>2 DEF ReceivedAll, TheMode

\* BarbaCourierStream: the size of the transfer, the counts of both ends and the
\* messages in their lists have their types.
THEOREM TypeCorrect == Spec => []TypeOK
BY Invariance, TypesFollow, PTL

\* HttpClient, HttpServer, BarbaCourierStream: what an end finds in the stream is
\* what it expects there.
THEOREM InStepCorrect == Spec => []InStep
BY Invariance, InStepFollows, PTL

\* ProcessOutgoing, ProcessIncoming: the ends never wait for each other.
THEOREM NoMutualWaitCorrect == Spec => []NoMutualWait
BY Invariance, NoMutualWaitFollows, PTL

\* What was received is a prefix of what was sent, and all of it at the end.
THEOREM ReceivedAllCorrect == Spec => []ReceivedAll
BY Invariance, ReceivedAllFollows, PTL

\* In a mode with as many answers as packets, an end fails only when the connection
\* did, or as the sender of a file whose receiver closed with padding unread and so
\* took back its answer (BarbaCourier::ProcessOutgoing, WaitForAcceptPostRequest).
THEOREM FailsOnlyWhenBrokenCorrect == Spec => []FailsOnlyWhenBroken
<1>1. TransferInv => FailsOnlyWhenBroken
  BY DEF TransferInv
<1> QED
  BY Invariance, <1>1, PTL
=============================================================================
