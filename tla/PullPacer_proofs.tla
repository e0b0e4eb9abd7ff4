-------------------------- MODULE PullPacer_proofs --------------------------
(***************************************************************************)
(* The pull queue of a receiver keeps its counters and its iterators right *)
(* whatever is asked for, served or withdrawn, pulls never wait for a      *)
(* timer nobody set, the timers stay few and the pulls paced, and the      *)
(* queue is the fair queue FairPulls: for any number of flows, priorities  *)
(* and pulls and any initial size of a ring.                               *)
(*                                                                         *)
(* Pulls and timers are counted as pairs (Counting): a step of the queue   *)
(* adds a pair, takes one away or takes those of a flow away.  Whose turn  *)
(* it is follows from Round: a flow that was served while another one      *)
(* waited is behind it, in the order in which the iterator will meet them. *)
(***************************************************************************)
EXTENDS PullPacer, SequenceTheorems, Counting_proofs, WellFoundedInduction

---------------------------------------------------------------------------
(* A ring is a queue: whatever its size, its wrap-around and its growth,   *)
(* push() appends to its contents and pop() takes their head.              *)

\* The slot that is d places behind slot i, in a ring of n slots.
Wrap(n, i) == IF i < n THEN i ELSE i - n
Slot(b, d) == Wrap(b.size, b.next_pop + d)

\* A ring of items of S, with at least one free slot: its last item is in the
\* slot before next_push.
Ring(b, S) ==
  /\ b \in [queue : [0 .. b.size - 1 -> S \union {NoItem}],
            next_push : Nat, next_pop : Nat, count : Nat, size : Nat \ {0}]
  /\ b.next_pop < b.size /\ b.count < b.size
  /\ b.next_push = Slot(b, b.count)
  /\ \A d \in 0 .. b.count - 1 : b.queue[Slot(b, d)] \in S

\* The remainder the code takes moves an index at most once around the ring.
LEMMA WrapIsRemainder ==
  ASSUME NEW n \in Nat \ {0}, NEW i \in 0 .. 2 * n - 1
  PROVE  i % n = Wrap(n, i) /\ Wrap(n, i) \in 0 .. n - 1
<1>1. CASE i < n
  BY <1>1, SMT DEF Wrap
<1>2. CASE i >= n
  <2>1. i = n * 1 + (i - n) /\ i - n \in 0 .. n - 1
    BY <1>2, SMT
  <2>2. i % n = i - n
    BY <1>2, SMT
  <2> QED BY <1>2, <2>1, <2>2, SMT DEF Wrap
<1> QED BY <1>1, <1>2, SMT

\* What a ring holds, slot by slot.
LEMMA RingContents ==
  ASSUME NEW S, NEW b, Ring(b, S)
  PROVE  /\ Contents(b) = [k \in 1 .. b.count |-> b.queue[Slot(b, k - 1)]]
         /\ Contents(b) \in Seq(S)
         /\ Len(Contents(b)) = b.count
<1>1. /\ b.count \in Nat /\ b.size \in Nat \ {0} /\ b.next_pop \in Nat
      /\ b.next_pop < b.size /\ b.count < b.size
  BY SMT DEF Ring
<1>2. ASSUME NEW k \in 1 .. b.count
      PROVE  (b.next_pop + k - 1) % b.size = Slot(b, k - 1)
  <2>1. b.next_pop + k - 1 \in 0 .. 2 * b.size - 1 /\ b.next_pop + (k - 1) = b.next_pop + k - 1
    BY <1>1, SMT
  <2> QED BY <1>1, <2>1, WrapIsRemainder, SMT DEF Slot
<1>3. Contents(b) = [k \in 1 .. b.count |-> b.queue[Slot(b, k - 1)]]
  BY <1>2, Zenon DEF Contents
<1>4. \A k \in 1 .. b.count : b.queue[Slot(b, k - 1)] \in S
  <2>1. \A k \in 1 .. b.count : k - 1 \in 0 .. b.count - 1
    BY <1>1, SMT
  <2> QED BY <2>1, Zenon DEF Ring
<1>5. Contents(b) \in [1 .. b.count -> S]
  BY <1>3, <1>4, Zenon
<1>6. Contents(b) \in Seq(S) /\ Len(Contents(b)) = b.count
  BY <1>1, <1>5, SMT
<1> QED BY <1>3, <1>6, Zenon

-----------------------------------------------------------------------------
\* A new ring is empty.
LEMMA NewBufferIsEmpty ==
  ASSUME NEW S
  PROVE  Ring(NewBuffer, S) /\ Contents(NewBuffer) = <<>>
<1>1. Ring(NewBuffer, S)
  BY InitialSizeAssumption, SMT DEF Ring, NewBuffer, Slot, Wrap
<1>2. Len(Contents(NewBuffer)) = 0 /\ Contents(NewBuffer) \in Seq(S)
  BY <1>1, RingContents, SMT DEF NewBuffer
<1> QED BY <1>1, <1>2, SMT

\* The new item, at a, and the others are where they should be.
Places(n, p, k, q, m, a) ==
  /\ m \in Nat \ {0} /\ k + 1 < m /\ p < m /\ n <= m
  /\ a = Wrap(m, p + k) /\ a \in 0 .. m - 1
  /\ Wrap(m, a + 1) = Wrap(m, p + (k + 1))
  /\ \A d \in 0 .. k - 1 :
       /\ Wrap(m, p + d) \in 0 .. m - 1 /\ Wrap(m, p + d) # a
       /\ \/ Wrap(m, p + d) < n /\ Wrap(m, p + d) = Wrap(n, p + d)
          \/ /\ ~(Wrap(m, p + d) < n) /\ k + 1 = n /\ q < p /\ Wrap(m, p + d) < a
             /\ Wrap(m, p + d) - n = Wrap(n, p + d)

\* Where push() puts the new item, a, in a ring of n slots, k of them in use
\* from slot p on, that becomes one of m slots: behind the last item; and where
\* the others are found afterwards.
LEMMA PushArithmetic ==
  ASSUME NEW n \in Nat \ {0}, NEW p \in Nat, NEW k \in Nat, p < n, k < n,
         NEW q, q = Wrap(n, p + k),
         NEW m, m = IF k + 1 = n THEN 2 * n ELSE n,
         NEW a, a = IF k + 1 = n /\ q < p THEN q + n ELSE q
  PROVE  Places(n, p, k, q, m, a)
<1>1. CASE k + 1 # n
  <2>1. m = n /\ a = q /\ k + 1 < m
    BY <1>1, SMT
  <2> QED BY <2>1, SMT DEF Places, Wrap
<1>2. CASE k + 1 = n /\ p = 0
  <2>1. m = 2 * n /\ q = k /\ a = k
    BY <1>2, SMT DEF Wrap
  <2> QED BY <1>2, <2>1, SMT DEF Places, Wrap
<1>3. CASE k + 1 = n /\ p # 0
  <2>1. m = 2 * n /\ q = p - 1 /\ a = p - 1 + n
    BY <1>3, SMT DEF Wrap
  <2> QED BY <1>3, <2>1, SMT DEF Places, Wrap
<1> QED BY <1>1, <1>2, <1>3, Zenon

\* What a ring is after push(), slot by slot.
Pushed(b, c, x) ==
  /\ c.count = b.count + 1
  /\ \A d \in 0 .. b.count - 1 : c.queue[Slot(c, d)] = b.queue[Slot(b, d)]
  /\ c.queue[Slot(c, b.count)] = x

LEMMA PushSlots ==
  ASSUME NEW S, NEW b, Ring(b, S), NEW x \in S
  PROVE  Ring(push(b, x), S) /\ Pushed(b, push(b, x), x)
<1> DEFINE n == b.size
           k == b.count
           p == b.next_pop
           q == b.next_push
           m == IF k + 1 = n THEN 2 * n ELSE n
           wrapped == k + 1 = n /\ q < p
           a == IF wrapped THEN q + n ELSE q
           queue == [i \in 0 .. m - 1 |->
                       IF i = a THEN x
                       ELSE IF i < n THEN b.queue[i]
                       ELSE IF wrapped /\ i < a THEN b.queue[i - n]
                       ELSE NoItem]
           c == [queue |-> queue, next_push |-> (a + 1) % m, next_pop |-> p,
                 count |-> k + 1, size |-> m]
<1>1. push(b, x) = c
  BY Zenon DEF push
<1>2. /\ k \in Nat /\ n \in Nat \ {0} /\ p \in Nat /\ p < n /\ k < n
      /\ b.queue \in [0 .. n - 1 -> S \union {NoItem}]
      /\ q = Wrap(n, p + k)
  BY SMT DEF Ring, Slot
<1>3. Places(n, p, k, q, m, a)
  <2>1. m = IF k + 1 = n THEN 2 * n ELSE n
    BY Zenon
  <2>2. a = IF k + 1 = n /\ q < p THEN q + n ELSE q
    BY Zenon
  <2> HIDE DEF n, p, k, q, m, a
  <2> QED BY <1>2, <2>1, <2>2, PushArithmetic, Zenon
<1>4. \A d : Slot(c, d) = Wrap(m, p + d) /\ Slot(b, d) = Wrap(n, p + d)
  BY Zenon DEF Slot
<1>5. /\ c.queue = queue /\ c.next_push = (a + 1) % m /\ c.next_pop = p
      /\ c.count = k + 1 /\ c.size = m
  BY Zenon
<1>6. (a + 1) % m = Slot(c, k + 1) /\ (a + 1) % m \in Nat
  <2> HIDE DEF m, a, c
  <2>1. a + 1 \in 0 .. 2 * m - 1
    BY <1>3, SMT DEF Places
  <2>2. (a + 1) % m = Wrap(m, a + 1) /\ (a + 1) % m \in 0 .. m - 1
    BY <1>3, <2>1, WrapIsRemainder, Zenon DEF Places
  <2>3. (a + 1) % m \in Nat
    BY <1>3, <2>2, SMT DEF Places
  <2> QED BY <1>3, <1>4, <2>2, <2>3, Zenon DEF Places
<1>7. ASSUME NEW d \in 0 .. k - 1
      PROVE  queue[Wrap(m, p + d)] = b.queue[Wrap(n, p + d)]
  <2> DEFINE s == Wrap(m, p + d)
  <2>1. s \in 0 .. m - 1 /\ s # a
    BY <1>3, <1>7, Zenon DEF Places
  <2>2. \/ s < n /\ s = Wrap(n, p + d)
        \/ ~(s < n) /\ wrapped /\ s < a /\ s - n = Wrap(n, p + d)
    <3>1. wrapped <=> (k + 1 = n /\ q < p)
      BY Zenon
    <3> HIDE DEF n, p, k, q, m, a, wrapped
    <3> QED BY <1>3, <1>7, <3>1, Zenon DEF Places
  <2>3. queue[s] = IF s = a THEN x
                   ELSE IF s < n THEN b.queue[s]
                   ELSE IF wrapped /\ s < a THEN b.queue[s - n]
                   ELSE NoItem
    <3> HIDE DEF s, m, a, wrapped
    <3> QED BY <2>1, Zenon
  <2> HIDE DEF s, m, a, wrapped, queue
  <2>4. queue[s] = b.queue[Wrap(n, p + d)]
    <3>1. CASE s < n /\ s = Wrap(n, p + d)
      <4>1. queue[s] = b.queue[s]
        BY <2>1, <2>3, <3>1, Zenon
      <4> QED BY <3>1, <4>1, Zenon
    <3>2. CASE ~(s < n) /\ wrapped /\ s < a /\ s - n = Wrap(n, p + d)
      <4>1. queue[s] = b.queue[s - n]
        BY <2>1, <2>3, <3>2, Zenon
      <4> QED BY <3>2, <4>1, Zenon
    <3> QED BY <2>2, <3>1, <3>2, Zenon
  <2> QED BY <2>4, Zenon DEF s
<1>8. queue[Wrap(m, p + k)] = x
  <2>1. queue[a] = x
    <3> HIDE DEF m, a, wrapped
    <3> QED BY <1>3, Zenon DEF Places
  <2> QED BY <1>3, <2>1, Zenon DEF Places
<1>9. queue \in [0 .. m - 1 -> S \union {NoItem}]
  <2>1. ASSUME NEW i \in 0 .. m - 1, i < n
        PROVE  b.queue[i] \in S \union {NoItem}
    <3> HIDE DEF m
    <3>1. i \in 0 .. n - 1
      BY <1>2, <1>3, <2>1, SMT DEF Places
    <3> QED BY <1>2, <3>1, Zenon
  <2>2. ASSUME NEW i \in 0 .. m - 1, ~(i < n)
        PROVE  b.queue[i - n] \in S \union {NoItem}
    <3>1. m <= 2 * n
      BY <1>2, SMT
    <3>2. m \in Nat /\ n \in Nat
      BY <1>2, <1>3, Zenon DEF Places
    <3> HIDE DEF m, n
    <3>3. i - n \in 0 .. n - 1
      BY <2>2, <3>1, <3>2, SMT
    <3> QED BY <1>2, <3>3, Zenon
  <2> HIDE DEF m, a, wrapped
  <2>3. x \in S \union {NoItem} /\ NoItem \in S \union {NoItem}
    BY Zenon
  <2>4. ASSUME NEW i \in 0 .. m - 1
        PROVE  (IF i = a THEN x
                ELSE IF i < n THEN b.queue[i]
                ELSE IF wrapped /\ i < a THEN b.queue[i - n]
                ELSE NoItem) \in S \union {NoItem}
    BY <2>1, <2>2, <2>3, <2>4, Zenon
  <2> QED BY <2>4, Zenon
<1>10. \A d \in 0 .. (k + 1) - 1 : queue[Wrap(m, p + d)] \in S
  <2>1. \A d \in 0 .. (k + 1) - 1 : d \in 0 .. k - 1 \/ d = k
    BY <1>2, SMT
  <2>2. \A d \in 0 .. k - 1 : b.queue[Wrap(n, p + d)] \in S
    BY <1>4, Zenon DEF Ring
  <2> HIDE DEF m, queue
  <2> QED BY <1>7, <1>8, <2>1, <2>2, Zenon
<1>11. Ring(c, S)
  <2> HIDE DEF m, a, queue
  <2>1. c \in [queue : [0 .. c.size - 1 -> S \union {NoItem}],
               next_push : Nat, next_pop : Nat, count : Nat, size : Nat \ {0}]
    BY <1>2, <1>3, <1>6, <1>9, SMT DEF Places
  <2>2. c.next_pop < c.size /\ c.count < c.size
    BY <1>3, <1>5, Zenon DEF Places
  <2>3. c.next_push = Slot(c, c.count)
    BY <1>5, <1>6, Zenon
  <2>4. \A d \in 0 .. c.count - 1 : c.queue[Slot(c, d)] \in S
    BY <1>4, <1>5, <1>10, Zenon
  <2> HIDE DEF c
  <2> QED BY <2>1, <2>2, <2>3, <2>4, Zenon DEF Ring
<1>12. Pushed(b, c, x)
  BY <1>4, <1>5, <1>7, <1>8, Zenon DEF Pushed
<1> HIDE DEF c
<1> QED BY <1>1, <1>11, <1>12, Zenon

\* A sequence is another one with an item behind it if it is so index by index.
LEMMA AppendIs ==
  ASSUME NEW S, NEW x \in S, NEW f \in Seq(S), NEW g \in Seq(S),
         Len(g) = Len(f) + 1,
         \A k \in 1 .. Len(f) : g[k] = f[k], g[Len(f) + 1] = x
  PROVE  g = Append(f, x)
<1> DEFINE h == Append(f, x)
<1>1. /\ h \in Seq(S) /\ Len(h) = Len(f) + 1
      /\ \A k \in 1 .. Len(f) : h[k] = f[k]
      /\ h[Len(f) + 1] = x
  OBVIOUS
<1> HIDE DEF h
<1>2. ASSUME NEW k \in 1 .. Len(g)
      PROVE  g[k] = h[k]
  <2>1. k \in 1 .. Len(f) \/ k = Len(f) + 1
    BY SMT
  <2> QED BY <1>1, <2>1, Zenon
<1>3. g = h
  BY <1>1, <1>2, SeqEqual, Zenon
<1> QED BY <1>3, Zenon DEF h

\* push() of a ring, whether it grows, wraps around or both, leaves a ring whose
\* contents are what they were with the new item behind them.
THEOREM PushAppends ==
  ASSUME NEW S, NEW b, Ring(b, S), NEW x \in S
  PROVE  Ring(push(b, x), S) /\ Contents(push(b, x)) = Append(Contents(b), x)
<1> DEFINE c == push(b, x)
           f == Contents(b)
           g == Contents(c)
<1>0. Ring(c, S) /\ Pushed(b, c, x)
  BY PushSlots, Zenon
<1>1. /\ Ring(c, S) /\ c.count = b.count + 1
      /\ \A d \in 0 .. b.count - 1 : c.queue[Slot(c, d)] = b.queue[Slot(b, d)]
      /\ c.queue[Slot(c, b.count)] = x
  BY <1>0, Zenon DEF Pushed
<1>2. /\ f = [k \in 1 .. b.count |-> b.queue[Slot(b, k - 1)]]
      /\ f \in Seq(S) /\ Len(f) = b.count
  BY RingContents, Zenon
<1>3. /\ g = [k \in 1 .. c.count |-> c.queue[Slot(c, k - 1)]]
      /\ g \in Seq(S) /\ Len(g) = c.count
  BY <1>1, RingContents, Zenon
<1>4. b.count \in Nat
  BY SMT DEF Ring
<1> HIDE DEF c, f, g
<1>5. ASSUME NEW k \in 1 .. b.count
      PROVE  g[k] = f[k]
  <2>1. k \in 1 .. c.count /\ k - 1 \in 0 .. b.count - 1
    BY <1>1, <1>4, SMT
  <2>2. g[k] = c.queue[Slot(c, k - 1)] /\ f[k] = b.queue[Slot(b, k - 1)]
    BY <1>2, <1>3, <2>1, Zenon
  <2> QED BY <1>1, <2>1, <2>2, Zenon
<1>6. g[b.count + 1] = x
  <2>1. b.count + 1 \in 1 .. c.count /\ (b.count + 1) - 1 = b.count
    BY <1>1, <1>4, SMT
  <2>2. g[b.count + 1] = c.queue[Slot(c, (b.count + 1) - 1)]
    BY <1>3, <2>1, Zenon
  <2> QED BY <1>1, <2>1, <2>2, Zenon
<1>7. g = Append(f, x)
  <2> HIDE DEF Contents
  <2>1. f \in Seq(S) /\ g \in Seq(S) /\ Len(g) = Len(f) + 1
    BY <1>1, <1>2, <1>3, Zenon
  <2>2. (\A k \in 1 .. Len(f) : g[k] = f[k]) /\ g[Len(f) + 1] = x
    BY <1>2, <1>5, <1>6, Zenon
  <2> QED BY <2>1, <2>2, AppendIs, Zenon
<1> QED BY <1>1, <1>7, Zenon DEF c, f, g

-----------------------------------------------------------------------------
\* pop() of a ring that is not empty leaves a ring without its head, which is
\* what back() returned.
THEOREM PopTakesHead ==
  ASSUME NEW S, NEW b, Ring(b, S), b.count > 0
  PROVE  /\ Ring(pop(b), S)
         /\ back(b) = Head(Contents(b))
         /\ Contents(pop(b)) = Tail(Contents(b))
<1> DEFINE n == b.size
           k == b.count
           p == b.next_pop
           c == pop(b)
           f == Contents(b)
           g == Contents(c)
<1>1. /\ k \in Nat \ {0} /\ n \in Nat \ {0} /\ p \in 0 .. n - 1 /\ k < n
      /\ b.queue \in [0 .. n - 1 -> S \union {NoItem}]
      /\ b.next_push \in Nat /\ b.next_push = Wrap(n, p + k)
  BY SMT DEF Ring, Slot
<1>2. /\ c.queue = [b.queue EXCEPT ![p] = NoItem] /\ c.next_push = b.next_push
      /\ c.next_pop = (p + 1) % n /\ c.count = k - 1 /\ c.size = n
  BY SMT DEF Ring, pop
<1>3. (p + 1) % n = Wrap(n, p + 1) /\ (p + 1) % n \in 0 .. n - 1
  <2>1. p + 1 \in 0 .. 2 * n - 1
    BY <1>1, SMT
  <2> QED BY <1>1, <2>1, WrapIsRemainder, Zenon
<1> DEFINE r == (p + 1) % n
<1> HIDE DEF r
<1>4. r = Wrap(n, p + 1) /\ r \in 0 .. n - 1
  BY <1>3, Zenon DEF r
<1>5. /\ c.queue = [b.queue EXCEPT ![p] = NoItem] /\ c.next_push = b.next_push
      /\ c.next_pop = r /\ c.count = k - 1 /\ c.size = n
  BY <1>2, Zenon DEF r
<1>6. \A d : Slot(c, d) = Wrap(n, r + d) /\ Slot(b, d) = Wrap(n, p + d)
  BY <1>5, Zenon DEF Slot
<1>7. ASSUME NEW d \in 0 .. k - 2
      PROVE  /\ d + 1 \in 0 .. k - 1
             /\ Wrap(n, r + d) = Wrap(n, p + (d + 1))
             /\ Wrap(n, r + d) \in 0 .. n - 1 /\ Wrap(n, r + d) # p
  <2> HIDE DEF n, k, p
  <2> QED BY <1>1, <1>4, SMT DEF Wrap
<1>8. Wrap(n, r + (k - 1)) = Wrap(n, p + k) /\ Wrap(n, p + 0) = p
  <2> HIDE DEF n, k, p
  <2> QED BY <1>1, <1>4, SMT DEF Wrap
<1>9. ASSUME NEW d \in 0 .. k - 2
      PROVE  /\ c.queue[Slot(c, d)] = b.queue[Slot(b, d + 1)]
             /\ b.queue[Slot(b, d + 1)] \in S
  <2> DEFINE s == Wrap(n, r + d)
  <2>1. s \in 0 .. n - 1 /\ s # p /\ Slot(c, d) = s /\ Slot(b, d + 1) = s
    BY <1>6, <1>7, Zenon
  <2>2. d + 1 \in 0 .. k - 1
    BY <1>7, Zenon
  <2>3. b.queue[Slot(b, d + 1)] \in S
    BY <2>2, Zenon DEF Ring
  <2> HIDE DEF s, n, p, k
  <2>4. c.queue[s] = b.queue[s]
    BY <1>1, <1>5, <2>1, Zenon
  <2> QED BY <2>1, <2>3, <2>4, Zenon
<1>10. Ring(c, S)
  <2>1. c.queue \in [0 .. n - 1 -> S \union {NoItem}]
    <3> HIDE DEF n, p, k, c
    <3> QED BY <1>1, <1>5, Zenon
  <2>2. c = [queue |-> c.queue, next_push |-> c.next_push, next_pop |-> c.next_pop,
              count |-> c.count, size |-> c.size]
    BY Zenon DEF pop
  <2> HIDE DEF n, p, k, c
  <2>3. /\ c.next_push \in Nat /\ c.next_pop \in Nat /\ c.count \in Nat
        /\ c.size \in Nat \ {0} /\ c.next_pop < c.size /\ c.count < c.size
    BY <1>1, <1>4, <1>5, SMT
  <2>4. c \in [queue : [0 .. c.size - 1 -> S \union {NoItem}],
               next_push : Nat, next_pop : Nat, count : Nat, size : Nat \ {0}]
    <3>1. c.queue \in [0 .. c.size - 1 -> S \union {NoItem}]
      BY <1>5, <2>1, Zenon
    <3> QED BY <2>2, <2>3, <3>1, SMT
  <2>5. c.next_push = Slot(c, c.count)
    BY <1>1, <1>5, <1>6, <1>8, Zenon
  <2>6. \A d \in 0 .. c.count - 1 : c.queue[Slot(c, d)] \in S
    <3>1. \A d \in 0 .. c.count - 1 : d \in 0 .. k - 2
      BY <1>1, <1>5, SMT
    <3> QED BY <1>9, <3>1, Zenon
  <2> QED BY <2>3, <2>4, <2>5, <2>6, Zenon DEF Ring
<1>11. /\ f = [i \in 1 .. k |-> b.queue[Slot(b, i - 1)]]
       /\ f \in Seq(S) /\ Len(f) = k
  BY RingContents, Zenon
<1>12. /\ g = [i \in 1 .. c.count |-> c.queue[Slot(c, i - 1)]]
       /\ g \in Seq(S) /\ Len(g) = c.count
  BY <1>10, RingContents, Zenon
<1>13. back(b) = Head(f)
  <2>1. 1 \in 1 .. k /\ 1 - 1 = 0
    BY <1>1, SMT
  <2>2. f[1] = b.queue[Slot(b, 1 - 1)]
    BY <1>11, <2>1, Zenon
  <2>3. f[1] = b.queue[p]
    BY <1>6, <1>8, <2>1, <2>2, Zenon
  <2> HIDE DEF f
  <2>4. Head(f) = f[1]
    BY <1>1, <1>11, SMT
  <2> QED BY <2>3, <2>4, Zenon DEF back
<1>14. g = Tail(f)
  <2> HIDE DEF c, f, g, n, p, k
  <2>1. ASSUME NEW i \in 1 .. k - 1
        PROVE  g[i] = f[i + 1]
    <3>1. /\ i \in 1 .. c.count /\ i - 1 \in 0 .. k - 2 /\ i + 1 \in 1 .. k
          /\ (i + 1) - 1 = (i - 1) + 1
      BY <1>1, <1>5, SMT
    <3>2. g[i] = c.queue[Slot(c, i - 1)] /\ f[i + 1] = b.queue[Slot(b, (i + 1) - 1)]
      BY <1>11, <1>12, <3>1, Zenon
    <3> QED BY <1>9, <3>1, <3>2, Zenon
  <2>2. f # <<>>
    BY <1>1, <1>11, SMT
  <2> DEFINE h == Tail(f)
  <2>3. h \in Seq(S) /\ Len(h) = k - 1 /\ \A i \in 1 .. k - 1 : h[i] = f[i + 1]
    BY <1>11, <2>2, HeadTailProperties, Zenon
  <2> HIDE DEF h
  <2>4. Len(g) = k - 1
    BY <1>5, <1>12, Zenon
  <2>5. \A i \in 1 .. Len(g) : g[i] = h[i]
    BY <2>1, <2>3, <2>4, Zenon
  <2>6. g = h
    BY <1>12, <2>3, <2>4, <2>5, SeqEqual, Zenon
  <2> QED BY <2>6, Zenon DEF h
<1> QED BY <1>10, <1>13, <1>14, Zenon

-----------------------------------------------------------------------------
(* Of the numbers a minimum and a count are taken of *)

\* The least element of a nonempty set of naturals.
LEMMA MinIsLeast ==
  ASSUME NEW S \in SUBSET Nat, S # {}
  PROVE  Min(S) \in S /\ \A y \in S : Min(S) <= y
<1>1. IsWellFoundedOn({ss \in Nat \X Nat : ss[1] < ss[2]}, Nat)
  BY NatLessThanWellFounded, Zenon DEF OpToRel
<1>2. PICK x \in S : \A y \in S : ~ (<<y, x>> \in {ss \in Nat \X Nat : ss[1] < ss[2]})
  BY <1>1, WFMin, Zenon
<1>3. \A y \in S : ~(y < x)
  BY <1>2
<1>4. \A y \in S : x <= y
  BY <1>3
<1> QED BY <1>4, Zenon DEF Min

-----------------------------------------------------------------------------
(* Counting *)

\* The flows of a priority.
Of(p) == {f \in Flows : Priority[f] = p}

LEMMA FlowsNumbered ==
  ASSUME NEW n \in [Flows -> Nat]
  PROVE  Numbered(Flows, n) /\ \A p : Numbered(Of(p), n)
<1>1. Flows \in SUBSET Flows /\ \A p : Of(p) \in SUBSET Flows
  BY Zenon DEF Of
<1> QED BY <1>1, NumberedIs, Zenon

\* The counters are right for flows with n[f] pulls each.
Counts(n, counts, total) ==
  /\ DOMAIN counts = Priorities
  /\ \A p \in Priorities :
       IsFiniteSet(Cells(Of(p), n)) /\ counts[p] = Cardinality(Cells(Of(p), n))
  /\ IsFiniteSet(Cells(Flows, n)) /\ total = Cardinality(Cells(Flows, n))

\* They are numbers, and above zero where a flow has a pull.
LEMMA CountsAre ==
  ASSUME NEW n \in [Flows -> Nat], NEW counts, NEW total, Counts(n, counts, total)
  PROVE  /\ total \in Nat /\ \A p \in Priorities : counts[p] \in Nat
         /\ total = 0 <=> \A f \in Flows : n[f] = 0
         /\ \A p \in Priorities : counts[p] = 0 <=> \A f \in Of(p) : n[f] = 0
<1>1. total \in Nat /\ (total = 0 <=> \A f \in Flows : n[f] = 0)
  <2>1. Numbered(Flows, n) /\ IsFiniteSet(Cells(Flows, n))
        /\ total = Cardinality(Cells(Flows, n))
    BY FlowsNumbered, Zenon DEF Counts
  <2> QED BY <2>1, CellsEmpty, Zenon
<1>2. ASSUME NEW p \in Priorities
      PROVE  counts[p] \in Nat /\ (counts[p] = 0 <=> \A f \in Of(p) : n[f] = 0)
  <2>1. Numbered(Of(p), n) /\ IsFiniteSet(Cells(Of(p), n))
        /\ counts[p] = Cardinality(Cells(Of(p), n))
    BY FlowsNumbered, Zenon DEF Counts
  <2> QED BY <2>1, CellsEmpty, Zenon
<1> QED BY <1>1, <1>2, Zenon

\* They stay right when a flow gets a pull, loses one or loses all.
LEMMA CountsMore ==
  ASSUME NEW n \in [Flows -> Nat], NEW counts, NEW total, Counts(n, counts, total),
         NEW f \in Flows
  PROVE  Counts([n EXCEPT ![f] = n[f] + 1],
                [counts EXCEPT ![Priority[f]] = counts[Priority[f]] + 1], total + 1)
<1> DEFINE m == [n EXCEPT ![f] = n[f] + 1]
           q == Priority[f]
           after == [counts EXCEPT ![q] = counts[q] + 1]
<1>1. q \in Priorities /\ f \in Of(q) /\ DOMAIN after = Priorities
      /\ after[q] = counts[q] + 1 /\ \A p \in Priorities \ {q} : after[p] = counts[p]
  BY Zenon DEF Priorities, Of, Counts
<1>2. IsFiniteSet(Cells(Flows, m)) /\ total + 1 = Cardinality(Cells(Flows, m))
  <2>1. Numbered(Flows, n) /\ IsFiniteSet(Cells(Flows, n))
        /\ total = Cardinality(Cells(Flows, n))
    BY FlowsNumbered, Zenon DEF Counts
  <2> QED BY <2>1, CellsMore, Zenon
<1>3. IsFiniteSet(Cells(Of(q), m)) /\ after[q] = Cardinality(Cells(Of(q), m))
  <2>1. Numbered(Of(q), n) /\ IsFiniteSet(Cells(Of(q), n))
        /\ counts[q] = Cardinality(Cells(Of(q), n))
    BY FlowsNumbered, <1>1, Zenon DEF Counts
  <2>2. IsFiniteSet(Cells(Of(q), m))
        /\ Cardinality(Cells(Of(q), m)) = Cardinality(Cells(Of(q), n)) + 1
    BY <1>1, <2>1, CellsMore, Zenon
  <2> HIDE DEF after, m
  <2> QED BY <1>1, <2>1, <2>2, Zenon
<1>4. ASSUME NEW p \in Priorities, p # q
      PROVE  IsFiniteSet(Cells(Of(p), m)) /\ after[p] = Cardinality(Cells(Of(p), m))
  <2>1. Cells(Of(p), m) = Cells(Of(p), n)
    <3>1. \A g \in Of(p) : m[g] = n[g]
      BY <1>4, Zenon DEF Of
    <3> HIDE DEF m
    <3> QED BY <3>1, CellsOfOthers, Zenon
  <2>2. IsFiniteSet(Cells(Of(p), n)) /\ counts[p] = Cardinality(Cells(Of(p), n))
    BY Zenon DEF Counts
  <2>3. after[p] = counts[p]
    BY <1>1, <1>4, Zenon
  <2> HIDE DEF after, m
  <2> QED BY <2>1, <2>2, <2>3, Zenon
<1> HIDE DEF m, after
<1>5. Counts(m, after, total + 1)
  BY <1>1, <1>2, <1>3, <1>4, Zenon DEF Counts
<1> QED BY <1>5, Zenon DEF m, after

LEMMA CountsLess ==
  ASSUME NEW n \in [Flows -> Nat], NEW counts, NEW total, Counts(n, counts, total),
         NEW f \in Flows, n[f] > 0
  PROVE  Counts([n EXCEPT ![f] = n[f] - 1],
                [counts EXCEPT ![Priority[f]] = counts[Priority[f]] - 1], total - 1)
<1> DEFINE m == [n EXCEPT ![f] = n[f] - 1]
           q == Priority[f]
           after == [counts EXCEPT ![q] = counts[q] - 1]
<1>1. q \in Priorities /\ f \in Of(q) /\ DOMAIN after = Priorities
      /\ after[q] = counts[q] - 1 /\ \A p \in Priorities \ {q} : after[p] = counts[p]
  BY Zenon DEF Priorities, Of, Counts
<1>2. IsFiniteSet(Cells(Flows, m)) /\ total - 1 = Cardinality(Cells(Flows, m))
  <2>1. Numbered(Flows, n) /\ IsFiniteSet(Cells(Flows, n))
        /\ total = Cardinality(Cells(Flows, n))
    BY FlowsNumbered, Zenon DEF Counts
  <2> QED BY <2>1, CellsLess, Zenon
<1>3. IsFiniteSet(Cells(Of(q), m)) /\ after[q] = Cardinality(Cells(Of(q), m))
  <2>1. Numbered(Of(q), n) /\ IsFiniteSet(Cells(Of(q), n))
        /\ counts[q] = Cardinality(Cells(Of(q), n))
    BY FlowsNumbered, <1>1, Zenon DEF Counts
  <2>2. IsFiniteSet(Cells(Of(q), m))
        /\ Cardinality(Cells(Of(q), m)) = Cardinality(Cells(Of(q), n)) - 1
    BY <1>1, <2>1, CellsLess, Zenon
  <2> HIDE DEF after, m
  <2> QED BY <1>1, <2>1, <2>2, Zenon
<1>4. ASSUME NEW p \in Priorities, p # q
      PROVE  IsFiniteSet(Cells(Of(p), m)) /\ after[p] = Cardinality(Cells(Of(p), m))
  <2>1. Cells(Of(p), m) = Cells(Of(p), n)
    <3>1. \A g \in Of(p) : m[g] = n[g]
      BY <1>4, Zenon DEF Of
    <3> HIDE DEF m
    <3> QED BY <3>1, CellsOfOthers, Zenon
  <2>2. IsFiniteSet(Cells(Of(p), n)) /\ counts[p] = Cardinality(Cells(Of(p), n))
    BY Zenon DEF Counts
  <2>3. after[p] = counts[p]
    BY <1>1, <1>4, Zenon
  <2> HIDE DEF after, m
  <2> QED BY <2>1, <2>2, <2>3, Zenon
<1> HIDE DEF m, after
<1>5. Counts(m, after, total - 1)
  BY <1>1, <1>2, <1>3, <1>4, Zenon DEF Counts
<1> QED BY <1>5, Zenon DEF m, after

LEMMA CountsGone ==
  ASSUME NEW n \in [Flows -> Nat], NEW counts, NEW total, Counts(n, counts, total),
         NEW f \in Flows
  PROVE  Counts([n EXCEPT ![f] = 0],
                [counts EXCEPT ![Priority[f]] = counts[Priority[f]] - n[f]], total - n[f])
<1> DEFINE m == [n EXCEPT ![f] = 0]
           q == Priority[f]
           after == [counts EXCEPT ![q] = counts[q] - n[f]]
<1>1. q \in Priorities /\ f \in Of(q) /\ DOMAIN after = Priorities
      /\ after[q] = counts[q] - n[f] /\ \A p \in Priorities \ {q} : after[p] = counts[p]
  BY Zenon DEF Priorities, Of, Counts
<1>2. IsFiniteSet(Cells(Flows, m)) /\ total - n[f] = Cardinality(Cells(Flows, m))
  <2>1. Numbered(Flows, n) /\ IsFiniteSet(Cells(Flows, n))
        /\ total = Cardinality(Cells(Flows, n))
    BY FlowsNumbered, Zenon DEF Counts
  <2> QED BY <2>1, CellsGone, Zenon
<1>3. IsFiniteSet(Cells(Of(q), m)) /\ after[q] = Cardinality(Cells(Of(q), m))
  <2>1. Numbered(Of(q), n) /\ IsFiniteSet(Cells(Of(q), n))
        /\ counts[q] = Cardinality(Cells(Of(q), n))
    BY FlowsNumbered, <1>1, Zenon DEF Counts
  <2>2. IsFiniteSet(Cells(Of(q), m))
        /\ Cardinality(Cells(Of(q), m)) = Cardinality(Cells(Of(q), n)) - n[f]
    <3>1. LET rest == Cells(Of(q), [n EXCEPT ![f] = 0])
          IN  /\ IsFiniteSet(rest) /\ Cardinality(rest) \in Nat
              /\ Cardinality(rest) = Cardinality(Cells(Of(q), n)) - n[f]
      <4> HIDE DEF q, after
      <4>1. f \in Of(q) /\ Numbered(Of(q), n) /\ IsFiniteSet(Cells(Of(q), n))
        BY <1>1, <2>1, Zenon
      <4> QED BY <4>1, CellsGone, Zenon
    <3> QED BY <3>1, Zenon
  <2> HIDE DEF after, m
  <2> QED BY <1>1, <2>1, <2>2, Zenon
<1>4. ASSUME NEW p \in Priorities, p # q
      PROVE  IsFiniteSet(Cells(Of(p), m)) /\ after[p] = Cardinality(Cells(Of(p), m))
  <2>1. Cells(Of(p), m) = Cells(Of(p), n)
    <3>1. \A g \in Of(p) : m[g] = n[g]
      BY <1>4, Zenon DEF Of
    <3> HIDE DEF m
    <3> QED BY <3>1, CellsOfOthers, Zenon
  <2>2. IsFiniteSet(Cells(Of(p), n)) /\ counts[p] = Cardinality(Cells(Of(p), n))
    BY Zenon DEF Counts
  <2>3. after[p] = counts[p]
    BY <1>1, <1>4, Zenon
  <2> HIDE DEF after, m
  <2> QED BY <2>1, <2>2, <2>3, Zenon
<1> HIDE DEF m, after
<1>5. Counts(m, after, total - n[f])
  BY <1>1, <1>2, <1>3, <1>4, Zenon DEF Counts
<1> QED BY <1>5, Zenon DEF m, after

-----------------------------------------------------------------------------
(* The queue *)

\* How many pulls each flow has, and which.
Waiting == [f \in Flows |-> Flushed(f)]
Lines   == [f \in Flows |-> IF f \in DOMAIN queue_map THEN Contents(queue_map[f]) ELSE <<>>]

Rings == /\ DOMAIN queue_map \subseteq Flows
         /\ \A f \in DOMAIN queue_map : Ring(queue_map[f], Pulls)
Iterators == /\ DOMAIN current_queue = Priorities
             /\ \A p \in Priorities : current_queue[p] \in Keys(p) \union {End}
QueueInv == Rings /\ Iterators /\ Counts(Waiting, prio_counts, pull_count)

\* A ring with a pull more or less, and the number of its pulls.
LEMMA RingCounts ==
  ASSUME NEW S, NEW b, Ring(b, S)
  PROVE  /\ b.count \in Nat /\ Len(Contents(b)) = b.count /\ Contents(b) \in Seq(S)
         /\ \A x : push(b, x).count = b.count + 1
         /\ pop(b).count = b.count - 1
<1>1. b.count \in Nat /\ Len(Contents(b)) = b.count /\ Contents(b) \in Seq(S)
  BY RingContents, SMT DEF Ring
<1>2. (\A x : push(b, x).count = b.count + 1) /\ pop(b).count = b.count - 1
  BY Zenon DEF push, pop
<1> QED BY <1>1, <1>2, Zenon

LEMMA WaitingIs ==
  ASSUME Rings
  PROVE  /\ Waiting \in [Flows -> Nat] /\ Lines \in [Flows -> Seq(Pulls)]
         /\ \A f \in Flows : Waiting[f] = Flushed(f) /\ Len(Lines[f]) = Waiting[f]
         /\ \A f \in Flows : Waits(f) <=> Waiting[f] > 0
         /\ \A f \in Flows : Waits(f) <=> Lines[f] # <<>>
<1>1. ASSUME NEW f \in Flows
      PROVE  /\ Waiting[f] \in Nat /\ Lines[f] \in Seq(Pulls) /\ Waiting[f] = Flushed(f)
             /\ Len(Lines[f]) = Waiting[f] /\ (Waits(f) <=> Waiting[f] > 0)
  <2>1. CASE f \in DOMAIN queue_map
    <3>1. Ring(queue_map[f], Pulls)
      BY <2>1, Zenon DEF Rings
    <3>2. /\ queue_map[f].count \in Nat /\ Len(Contents(queue_map[f])) = queue_map[f].count
          /\ Contents(queue_map[f]) \in Seq(Pulls)
      BY <3>1, RingCounts, Zenon
    <3>3. /\ Waiting[f] = queue_map[f].count /\ Lines[f] = Contents(queue_map[f])
          /\ Flushed(f) = queue_map[f].count /\ (Waits(f) <=> queue_map[f].count > 0)
      BY <2>1, Zenon DEF Waiting, Lines, Flushed, Waits
    <3> QED BY <3>2, <3>3, Zenon
  <2>2. CASE f \notin DOMAIN queue_map
    <3>1. Waiting[f] = 0 /\ Lines[f] = <<>> /\ ~Waits(f) /\ Waiting[f] = Flushed(f)
      BY <2>2, Zenon DEF Waiting, Lines, Flushed, Waits
    <3> QED BY <3>1, SMT
  <2> QED BY <2>1, <2>2, Zenon
<1>2. Waiting \in [Flows -> Nat] /\ Lines \in [Flows -> Seq(Pulls)]
  <2>1. Waiting = [f \in Flows |-> Waiting[f]] /\ Lines = [f \in Flows |-> Lines[f]]
    BY Zenon DEF Waiting, Lines
  <2> QED BY <1>1, <2>1, Zenon
<1>3. ASSUME NEW f \in Flows
      PROVE  Waits(f) <=> Lines[f] # <<>>
  <2>1. Lines[f] # <<>> <=> Len(Lines[f]) > 0
    BY <1>1, SMT
  <2> QED BY <1>1, <2>1, Zenon
<1> QED BY <1>1, <1>2, <1>3, Zenon

\* enqueue() keeps the queue in order and appends the pull to those of its flow.
LEMMA EnqueueAppends ==
  ASSUME QueueInv, NEW f \in Flows, NEW x \in Pulls, enqueue(f, x)
  PROVE  QueueInv' /\ Lines' = [Lines EXCEPT ![f] = Append(Lines[f], x)]
<1> DEFINE ring == IF f \in DOMAIN queue_map THEN queue_map[f] ELSE NewBuffer
           dom  == DOMAIN queue_map \union {f}
<1>1. /\ Ring(ring, Pulls) /\ Contents(ring) = Lines[f] /\ ring.count = Waiting[f]
      /\ Waiting[f] \in Nat
  <2>1. CASE f \in DOMAIN queue_map
    BY <2>1, WaitingIs, Zenon DEF QueueInv, Rings, Lines, Waiting, Flushed
  <2>2. CASE f \notin DOMAIN queue_map
    <3>1. ring = NewBuffer /\ Lines[f] = <<>> /\ Waiting[f] = 0
      BY <2>2, Zenon DEF Lines, Waiting, Flushed
    <3>2. NewBuffer.count = 0
      BY Zenon DEF NewBuffer
    <3> QED BY <3>1, <3>2, NewBufferIsEmpty, SMT
  <2> QED BY <2>1, <2>2, Zenon
<1>2. /\ queue_map' = [g \in dom |-> IF g = f THEN push(ring, x) ELSE queue_map[g]]
      /\ prio_counts' = [prio_counts EXCEPT ![Priority[f]] = prio_counts[Priority[f]] + 1]
      /\ pull_count' = pull_count + 1 /\ current_queue' = current_queue
  BY Zenon DEF enqueue
<1> HIDE DEF ring
<1>3. Ring(push(ring, x), Pulls) /\ Contents(push(ring, x)) = Append(Lines[f], x)
      /\ push(ring, x).count = Waiting[f] + 1
  BY <1>1, PushAppends, RingCounts, Zenon
<1>4. Rings'
  BY <1>2, <1>3, Zenon DEF QueueInv, Rings
<1>5. Iterators'
  <2>1. \A p : Keys(p) \subseteq Keys(p)'
    BY <1>2, Zenon DEF Keys
  <2> QED BY <1>2, <2>1, Zenon DEF QueueInv, Iterators
<1>6. Waiting' = [Waiting EXCEPT ![f] = Waiting[f] + 1]
  BY <1>2, <1>3, Zenon DEF Waiting, Flushed
<1>7. Lines' = [Lines EXCEPT ![f] = Append(Lines[f], x)]
  BY <1>2, <1>3, Zenon DEF Lines
<1>8. Counts(Waiting, prio_counts, pull_count)'
  <2>1. PICK n, counts, total : n = Waiting /\ counts = prio_counts /\ total = pull_count
    BY Zenon
  <2>2. n \in [Flows -> Nat] /\ Counts(n, counts, total)
    BY <2>1, WaitingIs, Zenon DEF QueueInv
  <2>3. Counts([n EXCEPT ![f] = n[f] + 1],
               [counts EXCEPT ![Priority[f]] = counts[Priority[f]] + 1], total + 1)
    BY <2>2, CountsMore, Zenon
  <2> QED BY <1>2, <1>6, <2>1, <2>3, Zenon
<1> QED BY <1>4, <1>5, <1>7, <1>8, Zenon DEF QueueInv

\* Where an iterator stops.
LEMMA SeekIs ==
  ASSUME NEW keys \in SUBSET Flows, NEW i \in Nat
  PROVE  /\ Seek(keys, i) \in keys \union {End} /\ Seek(keys, i) \in Nat
         /\ Seek(keys, i) <= End
         /\ Seek(keys, i) >= i \/ Seek(keys, i) = End
         /\ \A k \in keys : k >= i => Seek(keys, i) <= k
<1> DEFINE S == {k \in keys : k >= i} \union {End}
<1>1. End \in Nat /\ Flows \subseteq Nat
  BY FlowsAssumption, SMT DEF End, Flows
<1>2. S \in SUBSET Nat /\ S # {}
  BY <1>1, Zenon
<1>3. Min(S) \in S /\ \A y \in S : Min(S) <= y
  BY <1>2, MinIsLeast, Zenon
<1>4. Seek(keys, i) = Min(S)
  BY Zenon DEF Seek
<1> HIDE DEF S
<1>5. Seek(keys, i) \in S /\ \A y \in S : Seek(keys, i) <= y
  BY <1>3, <1>4, Zenon
<1> QED BY <1>1, <1>2, <1>5, Zenon DEF S

LEMMA AfterIs ==
  ASSUME Rings, NEW f \in Flows, NEW p
  PROVE  /\ After(p, f) \in Keys(p) \union {End} /\ After(p, f) \in Nat
         /\ f < After(p, f) /\ After(p, f) <= End
         /\ \A k \in Keys(p) : k <= f \/ After(p, f) <= k
<1>1. Keys(p) \in SUBSET Flows
  BY Zenon DEF Keys, Rings
<1>2. f + 1 \in Nat /\ f \in Nat /\ End \in Nat /\ f < End /\ \A k \in Keys(p) : k \in Nat
  BY <1>1, FlowsAssumption, SMT DEF End, Flows
<1> DEFINE a == After(p, f)
<1>3. /\ a \in Keys(p) \union {End} /\ a \in Nat /\ a <= End
      /\ a >= f + 1 \/ a = End
      /\ \A k \in Keys(p) : k >= f + 1 => a <= k
  BY <1>1, <1>2, SeekIs, Zenon DEF After
<1> HIDE DEF a
<1>4. f < a /\ \A k \in Keys(p) : k <= f \/ a <= k
  BY <1>2, <1>3, SMT
<1> QED BY <1>3, <1>4, Zenon DEF a

\* flush_flow() keeps the queue in order and takes the pulls of its flow only.
LEMMA FlushTakesOwn ==
  ASSUME QueueInv, NEW f \in Flows, flush_flow(f)
  PROVE  QueueInv' /\ Lines' = [Lines EXCEPT ![f] = <<>>]
<1>1. /\ queue_map' = [g \in DOMAIN queue_map \ {f} |-> queue_map[g]]
      /\ current_queue' = [current_queue EXCEPT ![Priority[f]] = MovedOn(f)]
      /\ prio_counts' = [prio_counts EXCEPT ![Priority[f]] = prio_counts[Priority[f]] - Flushed(f)]
      /\ pull_count' = pull_count - Flushed(f)
  BY Zenon DEF flush_flow
<1>2. Rings'
  BY <1>1, Zenon DEF QueueInv, Rings
<1>3. \A p : Keys(p)' = Keys(p) \ {f}
  BY <1>1, Zenon DEF Keys
<1>4. Iterators'
  <2>1. DOMAIN current_queue = Priorities /\ DOMAIN current_queue' = Priorities
    BY <1>1, Zenon DEF QueueInv, Iterators
  <2>2. ASSUME NEW p \in Priorities
        PROVE  current_queue'[p] \in Keys(p)' \union {End}
    <3>1. current_queue[p] \in Keys(p) \union {End}
      BY Zenon DEF QueueInv, Iterators
    <3>2. CASE p = Priority[f] /\ current_queue[p] = f
      <4>1. current_queue'[p] = After(p, f)
        BY <1>1, <2>1, <3>2, Zenon DEF MovedOn
      <4>2. After(p, f) \in Keys(p) \union {End} /\ f < After(p, f)
        BY AfterIs, Zenon DEF QueueInv
      <4>3. f \in Nat
        BY FlowsAssumption, SMT DEF Flows
      <4>4. ~(f < f)
        BY <4>3, SMT
      <4> QED BY <1>3, <4>1, <4>2, <4>4, Zenon
    <3>3. CASE p = Priority[f] /\ current_queue[p] # f
      <4>1. current_queue'[p] = current_queue[p]
        BY <1>1, <2>1, <3>3, Zenon DEF MovedOn
      <4> QED BY <1>3, <3>1, <3>3, <4>1, Zenon
    <3>4. CASE p # Priority[f]
      <4>1. current_queue'[p] = current_queue[p]
        BY <1>1, <2>1, <3>4, Zenon
      <4>2. f \notin Keys(p)
        BY <3>4, Zenon DEF Keys
      <4> QED BY <1>3, <3>1, <4>1, <4>2, Zenon
    <3> QED BY <3>2, <3>3, <3>4, Zenon
  <2> QED BY <2>1, <2>2, Zenon DEF Iterators
<1>5. Waiting' = [Waiting EXCEPT ![f] = 0]
  BY <1>1, Zenon DEF Waiting, Flushed
<1>6. Lines' = [Lines EXCEPT ![f] = <<>>]
  BY <1>1, Zenon DEF Lines
<1>7. Counts(Waiting, prio_counts, pull_count)'
  <2>1. PICK n, counts, total : n = Waiting /\ counts = prio_counts /\ total = pull_count
    BY Zenon
  <2>2. n \in [Flows -> Nat] /\ Counts(n, counts, total) /\ n[f] = Flushed(f)
    BY <2>1, WaitingIs, Zenon DEF QueueInv
  <2>3. Counts([n EXCEPT ![f] = 0],
               [counts EXCEPT ![Priority[f]] = counts[Priority[f]] - n[f]], total - n[f])
    BY <2>2, CountsGone, Zenon
  <2> QED BY <1>1, <1>5, <2>1, <2>2, <2>3, Zenon
<1> QED BY <1>2, <1>4, <1>6, <1>7, Zenon DEF QueueInv

\* How far the flow x is ahead of an iterator, going round.
Rank(i, x) == IF x >= i THEN x - i ELSE x - i + End

\* The flow whose turn it is has a pull, and no flow with one is before it.
IsNext(f) ==
  /\ f \in Flows /\ Waits(f)
  /\ \A g \in Flows : Waits(g) => Priority[f] <= Priority[g]
  /\ \A g \in Flows : Waits(g) /\ Priority[g] = Priority[f] =>
       Rank(current_queue[Priority[f]], f) <= Rank(current_queue[Priority[f]], g)

LEMMA TurnIsNext ==
  ASSUME QueueInv, ~Empty
  PROVE  IsNext(Turn)
<1> DEFINE S == {p \in Priorities : prio_counts[p] > 0}
           top == TopPriority
           K == NonEmpty(top)
           i == current_queue[top]
           ahead == Seek(K, i)
           first == Seek(K, 1)
<1>0. /\ Waiting \in [Flows -> Nat] /\ \A f \in Flows : Waits(f) <=> Waiting[f] > 0
      /\ pull_count \in Nat /\ \A p \in Priorities : prio_counts[p] \in Nat
      /\ pull_count = 0 <=> \A f \in Flows : Waiting[f] = 0
      /\ \A p \in Priorities : prio_counts[p] = 0 <=> \A f \in Of(p) : Waiting[f] = 0
  <2>1. PICK n, counts, total : n = Waiting /\ counts = prio_counts /\ total = pull_count
    BY Zenon
  <2>2. n \in [Flows -> Nat] /\ Counts(n, counts, total)
    BY <2>1, WaitingIs, Zenon DEF QueueInv
  <2>3. /\ total \in Nat /\ \A p \in Priorities : counts[p] \in Nat
        /\ total = 0 <=> \A f \in Flows : n[f] = 0
        /\ \A p \in Priorities : counts[p] = 0 <=> \A f \in Of(p) : n[f] = 0
    BY <2>2, CountsAre, Zenon
  <2> QED BY <2>1, <2>3, WaitingIs, Zenon DEF QueueInv
<1>1. /\ Priorities \subseteq Nat /\ Flows \subseteq Nat /\ End \in Nat
      /\ \A f \in Flows : 1 <= f /\ f < End /\ Priority[f] \in Priorities
  <2>1. Priorities \subseteq Nat
    BY FlowsAssumption, Zenon DEF Priorities
  <2>2. \A f \in Flows : Priority[f] \in Priorities
    BY Zenon DEF Priorities
  <2>3. Flows \subseteq Nat /\ End \in Nat /\ \A f \in Flows : 1 <= f /\ f < End
    BY FlowsAssumption, SMT DEF Flows, End
  <2> QED BY <2>1, <2>2, <2>3, Zenon
<1>2. \A f \in Flows : Waits(f) => Priority[f] \in S
  <2> SUFFICES ASSUME NEW f \in Flows, Waits(f)
               PROVE  Priority[f] \in S
    BY Zenon
  <2> DEFINE p == Priority[f]
  <2>1. p \in Priorities /\ f \in Of(p) /\ Waiting[f] > 0 /\ Waiting[f] \in Nat
        /\ prio_counts[p] \in Nat
    BY <1>0, <1>1, Zenon DEF Of
  <2>2. Waiting[f] # 0
    BY <2>1, SMT
  <2>3. prio_counts[p] # 0
    BY <1>0, <2>1, <2>2, Zenon
  <2>4. prio_counts[p] > 0
    BY <2>1, <2>3, SMT
  <2> QED BY <2>1, <2>4, Zenon
<1>3. \E f \in Flows : Waits(f)
  <2>1. PICK f \in Flows : Waiting[f] # 0
    BY <1>0, Zenon DEF Empty
  <2>2. Waiting[f] \in Nat
    BY <1>0, Zenon
  <2>3. Waiting[f] > 0
    BY <2>1, <2>2, SMT
  <2> QED BY <1>0, <2>3, Zenon
<1>4. top \in S /\ \A p \in S : top <= p
  <2>1. S \in SUBSET Nat /\ S # {}
    BY <1>1, <1>2, <1>3, Zenon
  <2> QED BY <2>1, MinIsLeast, Zenon DEF TopPriority
<1>5. K = {g \in Flows : Waits(g) /\ Priority[g] = top}
  <2>1. DOMAIN queue_map \subseteq Flows
    BY Zenon DEF QueueInv, Rings
  <2> QED BY <2>1, Zenon DEF NonEmpty, Keys, Waits
<1>6. \E g \in K : TRUE
  <2>1. top \in Priorities /\ prio_counts[top] > 0
    BY <1>4, Zenon
  <2>2. prio_counts[top] # 0
    BY <1>0, <2>1, SMT
  <2>3. PICK g \in Of(top) : Waiting[g] # 0
    BY <1>0, <2>1, <2>2, Zenon
  <2>4. g \in Flows /\ Priority[g] = top /\ Waiting[g] \in Nat
    BY <1>0, <2>3, Zenon DEF Of
  <2>5. Waiting[g] > 0
    BY <2>3, <2>4, SMT
  <2> QED BY <1>0, <1>5, <2>4, <2>5, Zenon
<1>7. i \in Nat /\ i <= End
  <2>1. i \in Keys(top) \union {End} /\ Keys(top) \subseteq Flows
    BY <1>4, Zenon DEF QueueInv, Iterators, Rings, Keys
  <2>2. (i \in Nat /\ i < End) \/ i = End
    BY <1>1, <2>1, Zenon
  <2> HIDE DEF i
  <2> QED BY <1>1, <2>2, SMT
<1>8. Turn = IF ahead = End THEN first ELSE ahead
  BY Zenon DEF Turn
<1> DEFINE f == Turn
<1> HIDE DEF top, K, i, ahead, first, f
<1>9. /\ ahead \in K \union {End} /\ ahead \in Nat /\ ahead <= End
      /\ ahead >= i \/ ahead = End
      /\ \A k \in K : k >= i => ahead <= k
      /\ first \in K \union {End} /\ first \in Nat /\ first <= End
      /\ \A k \in K : k >= 1 => first <= k
  <2>1. K \in SUBSET Flows
    BY <1>5, Zenon
  <2>2. 1 \in Nat
    BY SMT
  <2>3. /\ ahead \in K \union {End} /\ ahead \in Nat /\ ahead <= End
        /\ ahead >= i \/ ahead = End
        /\ \A k \in K : k >= i => ahead <= k
    BY <1>7, <2>1, SeekIs, Zenon DEF ahead
  <2>4. /\ first \in K \union {End} /\ first \in Nat /\ first <= End
        /\ \A k \in K : k >= 1 => first <= k
    BY <2>1, <2>2, SeekIs, Zenon DEF first
  <2> QED BY <2>3, <2>4, Zenon
<1>10. \A k \in K : k \in Nat /\ 1 <= k /\ k < End
  BY <1>1, <1>5, Zenon
<1>11. /\ f \in K
       /\ \A k \in K : Rank(i, f) <= Rank(i, k)
  <2>0. f = IF ahead = End THEN first ELSE ahead
    BY <1>8, Zenon DEF f
  <2>1. CASE ahead # End
    <3>1. f = ahead /\ f \in K /\ f >= i
      BY <1>9, <2>0, <2>1, Zenon
    <3>2. \A k \in K : Rank(i, f) <= Rank(i, k)
      BY <1>1, <1>7, <1>9, <1>10, <3>1, SMT DEF Rank
    <3> QED BY <3>1, <3>2, Zenon
  <2>2. CASE ahead = End
    <3>1. f = first
      BY <2>0, <2>2, Zenon
    <3>2. PICK k \in K : TRUE
      BY <1>6, Zenon
    <3>3. first # End
      BY <1>9, <1>10, <3>2, <1>1, SMT
    <3>4. f \in K
      BY <1>9, <3>1, <3>3, Zenon
    <3>5. \A g \in K : Rank(i, f) <= Rank(i, g)
      BY <1>1, <1>7, <1>9, <1>10, <2>2, <3>1, <3>4, SMT DEF Rank
    <3> QED BY <3>4, <3>5, Zenon
  <2> QED BY <2>1, <2>2, Zenon
<1>12. IsNext(f)
  BY <1>2, <1>4, <1>5, <1>11, Zenon DEF IsNext, i
<1> QED BY <1>12, Zenon DEF f

\* dequeue() keeps the queue in order, serves the next flow, which gets its
\* first pull, and moves the iterator behind it.
LEMMA DequeueServes ==
  ASSUME QueueInv, ~Empty, NEW f \in Flows, dequeue(f)
  PROVE  /\ QueueInv' /\ IsNext(f)
         /\ Lines' = [Lines EXCEPT ![f] = Tail(Lines[f])]
         /\ \A p : Keys(p)' = Keys(p)
<1>1. IsNext(f)
  BY TurnIsNext, Zenon DEF dequeue
<1>2. /\ f \in DOMAIN queue_map /\ Ring(queue_map[f], Pulls) /\ queue_map[f].count > 0
      /\ Waiting[f] = queue_map[f].count /\ Lines[f] = Contents(queue_map[f])
  BY <1>1, Zenon DEF IsNext, Waits, QueueInv, Rings, Waiting, Flushed, Lines
<1>3. /\ queue_map' = [queue_map EXCEPT ![f] = pop(queue_map[f])]
      /\ current_queue' = [current_queue EXCEPT ![Priority[f]] = After(Priority[f], f)]
      /\ prio_counts' = [prio_counts EXCEPT ![Priority[f]] = prio_counts[Priority[f]] - 1]
      /\ pull_count' = pull_count - 1
  BY Zenon DEF dequeue
<1>4. /\ Ring(pop(queue_map[f]), Pulls) /\ pop(queue_map[f]).count = Waiting[f] - 1
      /\ Contents(pop(queue_map[f])) = Tail(Lines[f])
  BY <1>2, PopTakesHead, RingCounts, Zenon
<1>5. DOMAIN queue_map' = DOMAIN queue_map /\ queue_map'[f] = pop(queue_map[f])
      /\ \A g \in DOMAIN queue_map \ {f} : queue_map'[g] = queue_map[g]
  BY <1>2, <1>3, Zenon
<1>6. Rings'
  BY <1>4, <1>5, Zenon DEF QueueInv, Rings
<1>7. \A p : Keys(p)' = Keys(p)
  BY <1>5, Zenon DEF Keys
<1>8. Iterators'
  BY <1>3, <1>7, AfterIs, Zenon DEF QueueInv, Iterators
<1>9. Waiting' = [Waiting EXCEPT ![f] = Waiting[f] - 1]
  BY <1>2, <1>4, <1>5, Zenon DEF Waiting, Flushed
<1>10. Lines' = [Lines EXCEPT ![f] = Tail(Lines[f])]
  BY <1>2, <1>4, <1>5, Zenon DEF Lines
<1>11. Counts(Waiting, prio_counts, pull_count)'
  <2>1. PICK n, counts, total : n = Waiting /\ counts = prio_counts /\ total = pull_count
    BY Zenon
  <2>2. n \in [Flows -> Nat] /\ Counts(n, counts, total) /\ n[f] > 0
    BY <1>2, <2>1, WaitingIs, Zenon DEF QueueInv
  <2>3. Counts([n EXCEPT ![f] = n[f] - 1],
               [counts EXCEPT ![Priority[f]] = counts[Priority[f]] - 1], total - 1)
    BY <2>2, CountsLess, Zenon
  <2> QED BY <1>3, <1>9, <2>1, <2>3, Zenon
<1> QED BY <1>1, <1>6, <1>7, <1>8, <1>10, <1>11, Zenon DEF QueueInv

LEMMA InitQueueIsRight ==
  ASSUME InitQueue
  PROVE  QueueInv /\ Lines = [f \in Flows |-> <<>>]
<1>1. /\ DOMAIN queue_map = {} /\ current_queue = [p \in Priorities |-> End]
      /\ prio_counts = [p \in Priorities |-> 0] /\ pull_count = 0
  BY Zenon DEF InitQueue
<1>2. Rings /\ Iterators /\ Lines = [f \in Flows |-> <<>>]
  BY <1>1, Zenon DEF Rings, Iterators, Lines
<1>3. \A f \in Flows : Waiting[f] = 0
  BY <1>1, Zenon DEF Waiting, Flushed
<1>4. ASSUME NEW F \in SUBSET Flows
      PROVE  IsFiniteSet(Cells(F, Waiting)) /\ Cardinality(Cells(F, Waiting)) = 0
  <2>1. \A i \in 1 .. 0 : FALSE
    BY SMT
  <2>2. \A g \in F : {g} \X (1 .. Waiting[g]) = {}
    <3> SUFFICES ASSUME NEW g \in F
                 PROVE  {g} \X (1 .. Waiting[g]) = {}
      BY Zenon
    <3>1. Waiting[g] = 0
      BY <1>3, Zenon
    <3> QED BY <3>1, SMT
  <2>3. Cells(F, Waiting) = {}
    BY <2>2, Zenon DEF Cells
  <2> QED BY <2>3, FS_EmptySet, Zenon
<1>5. Counts(Waiting, prio_counts, pull_count)
  <2>1. \A p : Of(p) \in SUBSET Flows
    BY Zenon DEF Of
  <2> QED BY <1>1, <1>4, <2>1, Zenon DEF Counts
<1> QED BY <1>2, <1>5, Zenon DEF QueueInv

-----------------------------------------------------------------------------
(* The steps of the pacer *)

\* What a step does to the queue, one way for each operation.
Asks == \E f \in Flows, x \in Pulls : enqueue(f, x) /\ UNCHANGED overtaken
Withdraws == \E f \in Flows : flush_flow(f) /\ overtaken' = [overtaken EXCEPT ![f] = {}]
Serves == ~Empty /\ \E f \in Flows :
            dequeue(f) /\ overtaken' = [g \in Flows |-> IF g = f THEN {}
                                   ELSE IF g \in Rivals(f) THEN overtaken[g] \union {f}
                                   ELSE overtaken[g]]
LeavesQueue == UNCHANGED <<queueVars, overtaken>>

LEMMA QueueSteps ==
  ASSUME [Next]_vars
  PROVE  Asks \/ Withdraws \/ Serves \/ LeavesQueue
<1>1. ASSUME NEW f \in Flows, NEW x \in Pulls, Answer(f, x)
      PROVE  Asks \/ LeavesQueue
  BY <1>1, Zenon DEF Answer, Asks, LeavesQueue
<1>2. ASSUME NEW f \in Flows, NEW x \in Pulls, RequestToSend(f, x)
      PROVE  Asks
  BY <1>2, Zenon DEF RequestToSend, Asks
<1>3. ASSUME NEW f \in Flows, Complete(f)
      PROVE  Withdraws
  BY <1>3, Zenon DEF Complete, Withdraws
<1>4. ASSUME NEW f \in Flows, SendPull(f)
      PROVE  Serves
  BY <1>4, Zenon DEF SendPull, Serves
<1>5. CASE TimerOfNobody \/ Tick \/ UNCHANGED vars
  BY <1>5, Zenon DEF TimerOfNobody, Tick, vars, LeavesQueue
<1> QED BY <1>1, <1>2, <1>3, <1>4, <1>5, Zenon DEF Next

LEMMA QueueInvKept ==
  ASSUME QueueInv, [Next]_vars
  PROVE  QueueInv'
<1>1. CASE Asks
  BY <1>1, EnqueueAppends, Zenon DEF Asks
<1>2. CASE Withdraws
  BY <1>2, FlushTakesOwn, Zenon DEF Withdraws
<1>3. CASE Serves
  BY <1>3, DequeueServes, Zenon DEF Serves
<1>4. CASE LeavesQueue
  BY <1>4, Zenon DEF LeavesQueue, queueVars, QueueInv, Rings, Iterators, Keys, Waiting,
       Flushed
<1> QED BY <1>1, <1>2, <1>3, <1>4, QueueSteps, Zenon

LEMMA QueueInvAlways == Spec => []QueueInv
<1>1. Init => QueueInv
  BY InitQueueIsRight, Zenon DEF Init
<1>2. QueueInv /\ [Next]_vars => QueueInv'
  BY QueueInvKept, Zenon
<1> QED BY <1>1, <1>2, PTL DEF Spec

\* The counters of the pull queue agree with its rings, and its iterators are
\* at a queue of the map or at its end (self_check(), priopullqueue.cpp): so
\* the loop of dequeue() always ends, whatever the flows ask for and withdraw.
THEOREM CountersAgree == Spec => []QueuesAgree
<1>1. ASSUME QueueInv
      PROVE  QueuesAgree
  <2>1. ASSUME NEW F \in SUBSET DOMAIN queue_map
        PROVE  Queued(F) = Cells(F, Waiting)
    <3>1. \A f \in F : Waiting[f] = queue_map[f].count
      BY <1>1, Zenon DEF QueueInv, Rings, Waiting, Flushed
    <3> QED BY <3>1, Zenon DEF Queued, Cells
  <2>2. ASSUME NEW G \in SUBSET Flows, NEW F \in SUBSET G, \A g \in G \ F : Waiting[g] = 0
        PROVE  Cells(F, Waiting) = Cells(G, Waiting)
    <3>1. \A i \in 1 .. 0 : FALSE
      BY SMT
    <3>2. ASSUME NEW c \in Cells(G, Waiting)
          PROVE  c \in Cells(F, Waiting)
      <4>1. IsCell(G, Waiting, c)
        BY InCells, Zenon
      <4>2. PICK g \in G : \E i \in 1 .. Waiting[g] : c = <<g, i>>
        BY <4>1, Zenon DEF IsCell
      <4>3. g \in F
        BY <2>2, <3>1, <4>2, Zenon
      <4> QED BY <4>2, <4>3, InCells, Zenon DEF IsCell
    <3>3. Cells(F, Waiting) \subseteq Cells(G, Waiting)
      BY Zenon DEF Cells
    <3> QED BY <3>2, <3>3, Zenon
  <2>3. ASSUME NEW p \in Priorities
        PROVE  /\ prio_counts[p] = Cardinality(Queued(Keys(p)))
               /\ current_queue[p] \in Keys(p) \union {End}
    <3>1. Keys(p) \in SUBSET DOMAIN queue_map /\ Of(p) \in SUBSET Flows
          /\ Keys(p) \in SUBSET Of(p)
      BY <1>1, Zenon DEF Keys, Of, QueueInv, Rings
    <3>2. \A g \in Of(p) \ Keys(p) : Waiting[g] = 0
      BY Zenon DEF Keys, Of, Waiting, Flushed
    <3>3. Queued(Keys(p)) = Cells(Of(p), Waiting)
      BY <2>1, <2>2, <3>1, <3>2, Zenon
    <3> QED BY <1>1, <3>3, Zenon DEF QueueInv, Counts, Iterators
  <2>4. pull_count = Cardinality(Queued({f \in Flows : Waits(f)}))
    <3> DEFINE F == {f \in Flows : Waits(f)}
    <3>1. F \in SUBSET DOMAIN queue_map /\ F \in SUBSET Flows /\ Flows \in SUBSET Flows
      BY Zenon DEF Waits
    <3>2. \A g \in Flows \ F : Waiting[g] = 0
      <4> SUFFICES ASSUME NEW g \in Flows, ~Waits(g)
                   PROVE  Waiting[g] = 0
        BY Zenon
      <4>1. Waiting[g] \in Nat /\ ~(Waiting[g] > 0)
        BY <1>1, WaitingIs, Zenon DEF QueueInv
      <4> QED BY <4>1, SMT
    <3> HIDE DEF F
    <3>3. Queued(F) = Cells(Flows, Waiting)
      BY <2>1, <2>2, <3>1, <3>2, Zenon
    <3> QED BY <1>1, <3>3, Zenon DEF QueueInv, Counts, F
  <2> QED BY <2>3, <2>4, Zenon DEF QueuesAgree
<1> QED BY <1>1, QueueInvAlways, PTL

-----------------------------------------------------------------------------
(* The timers *)

TimerTypes == since \in 0 .. DrainTime /\ timers \in [0 .. DrainTime -> Nat]

\* A timer that goes off within t ticks.
SetWithin(t) == \E u \in 0 .. DrainTime : timers[u] > 0 /\ u <= t
TimerInv == QueueInv /\ TimerTypes /\ SomeTimerIsSet

LEMMA PullCountIs ==
  ASSUME QueueInv
  PROVE  pull_count \in Nat /\ \A f \in Flows : Empty => Flushed(f) = 0
<1>1. PICK n, counts, total : n = Waiting /\ counts = prio_counts /\ total = pull_count
  BY Zenon
<1>2. n \in [Flows -> Nat] /\ Counts(n, counts, total)
  BY <1>1, WaitingIs, Zenon DEF QueueInv
<1>3. total \in Nat /\ (total = 0 <=> \A f \in Flows : n[f] = 0)
  BY <1>2, CountsAre, Zenon
<1> QED BY <1>1, <1>3, WaitingIs, Zenon DEF QueueInv, Empty

LEMMA ArmSets ==
  ASSUME NEW ts \in [0 .. DrainTime -> Nat], NEW t \in 0 .. DrainTime
  PROVE  /\ Arm(ts, t) \in [0 .. DrainTime -> Nat] /\ Arm(ts, t)[t] > 0
<1>1. ts[t] \in Nat
  BY Zenon
<1>2. ts[t] + 1 \in Nat /\ ts[t] + 1 > 0
  BY <1>1, SMT
<1> QED BY <1>2, Zenon DEF Arm

\* What a step does to the timers keeps their types.
LEMMA TimerTypesKept ==
  ASSUME TimerTypes, QueueInv, [Next]_vars
  PROVE  TimerTypes'
<1>0. /\ DrainTime \in Nat \ {0} /\ 0 \in 0 .. DrainTime /\ DrainTime \in 0 .. DrainTime
      /\ DrainTime - since \in 0 .. DrainTime
  BY PacerAssumption, SMT DEF TimerTypes
<1>1. Arm(timers, 0) \in [0 .. DrainTime -> Nat]
      /\ Arm(timers, DrainTime - since) \in [0 .. DrainTime -> Nat]
  BY <1>0, ArmSets, Zenon DEF TimerTypes
<1>2. ASSUME Due
      PROVE  Fired \in [0 .. DrainTime -> Nat] /\ Arm(Fired, DrainTime) \in [0 .. DrainTime -> Nat]
  <2>1. timers[0] \in Nat
    BY <1>0, Zenon DEF TimerTypes
  <2>2. timers[0] - 1 \in Nat
    BY <1>2, <2>1, SMT DEF Due
  <2>3. Fired \in [0 .. DrainTime -> Nat]
    BY <2>2, Zenon DEF Fired, TimerTypes
  <2> QED BY <1>0, <2>3, ArmSets, Zenon
<1>3. ASSUME NEW f \in Flows, NEW x \in Pulls, Answer(f, x)
      PROVE  TimerTypes'
  BY <1>0, <1>1, <1>3, Zenon DEF Answer, JustSent, Armed, TimerTypes
<1>4. ASSUME NEW f \in Flows, NEW x \in Pulls, RequestToSend(f, x)
      PROVE  TimerTypes'
  <2>1. since' = since
    BY <1>4, Zenon DEF RequestToSend
  <2>2. timers' \in {timers, Arm(timers, 0), Arm(timers, DrainTime - since)}
    <3>1. timers' = CASE ShouldTx -> Arm(timers, 0)
                      [] ~ShouldTx /\ ShouldSchedule -> Arm(timers, DrainTime - since)
                      [] OTHER -> timers
      BY <1>4, Zenon DEF RequestToSend
    <3> QED BY <3>1, Zenon
  <2> QED BY <1>1, <2>1, <2>2, Zenon DEF TimerTypes
<1>5. ASSUME NEW f \in Flows, Complete(f)
      PROVE  TimerTypes'
  BY <1>0, <1>1, <1>5, Zenon DEF Complete, JustSent, Armed, TimerTypes
<1>6. ASSUME NEW f \in Flows, SendPull(f)
      PROVE  TimerTypes'
  BY <1>0, <1>2, <1>6, Zenon DEF SendPull, JustSent, Rearmed, TimerTypes
<1>7. CASE TimerOfNobody
  BY <1>2, <1>7, Zenon DEF TimerOfNobody, TimerTypes
<1>8. CASE Tick
  <2>1. since' \in 0 .. DrainTime
    BY <1>0, <1>8, SMT DEF Tick, TimerTypes
  <2>2. ASSUME NEW t \in 0 .. DrainTime, t # DrainTime
        PROVE  timers[t + 1] \in Nat
    <3>1. t + 1 \in 0 .. DrainTime
      BY <1>0, <2>2, SMT
    <3> QED BY <3>1, Zenon DEF TimerTypes
  <2>3. timers' = [t \in 0 .. DrainTime |-> IF t = DrainTime THEN 0 ELSE timers[t + 1]]
    BY <1>8, Zenon DEF Tick
  <2>4. 0 \in Nat
    BY SMT
  <2>5. timers' \in [0 .. DrainTime -> Nat]
    BY <2>2, <2>3, <2>4, Zenon
  <2> QED BY <2>1, <2>5, Zenon DEF TimerTypes
<1>9. CASE UNCHANGED vars
  BY <1>9, Zenon DEF vars, TimerTypes
<1> QED BY <1>3, <1>4, <1>5, <1>6, <1>7, <1>8, <1>9, Zenon DEF Next

\* Whoever leaves a pull waiting has set a timer that goes off in time.
LEMMA TimerStaysSet ==
  ASSUME TimerInv, [Next]_vars
  PROVE  SomeTimerIsSet'
<1> SUFFICES ASSUME ~Empty'
             PROVE  SetWithin(DrainTime - since)'
  BY Zenon DEF SomeTimerIsSet, SetWithin
<1> USE DEF TimerInv
<1>0. /\ DrainTime \in Nat \ {0} /\ 0 \in 0 .. DrainTime /\ DrainTime \in 0 .. DrainTime
      /\ DrainTime - since \in 0 .. DrainTime /\ 0 <= DrainTime - since
      /\ DrainTime - since <= DrainTime - since
  BY PacerAssumption, SMT DEF TimerTypes
<1>1. /\ Arm(timers, 0)[0] > 0
      /\ Arm(timers, DrainTime - since)[DrainTime - since] > 0
  BY <1>0, ArmSets, Zenon DEF TimerTypes
<1>2. ASSUME ~Empty
      PROVE  SetWithin(DrainTime - since)
  BY <1>2, Zenon DEF SomeTimerIsSet, SetWithin
<1>3. pull_count \in Nat /\ \A f \in Flows : Empty => Flushed(f) = 0
  BY PullCountIs, Zenon
<1>4. ASSUME timers' = timers, since' = since, ~Empty
      PROVE  SetWithin(DrainTime - since)'
  BY <1>2, <1>4, Zenon DEF SetWithin
<1>5. ASSUME timers' = Arm(timers, DrainTime - since), since' = since
      PROVE  SetWithin(DrainTime - since)'
  BY <1>0, <1>1, <1>5, Zenon DEF SetWithin
<1>6. ASSUME timers' = Arm(timers, 0), since' = since
      PROVE  SetWithin(DrainTime - since)'
  BY <1>0, <1>1, <1>6, Zenon DEF SetWithin
<1>7. ASSUME NEW f \in Flows, NEW x \in Pulls, Answer(f, x)
      PROVE  SetWithin(DrainTime - since)'
  <2>1. ~(SendsAtOnce /\ UNCHANGED queueVars)
    BY Zenon DEF SendsAtOnce, queueVars, Empty
  <2>2. timers' = Armed /\ since' = since
    BY <1>7, <2>1, Zenon DEF Answer
  <2> QED BY <1>4, <1>5, <2>2, Zenon DEF Armed
<1>8. ASSUME NEW f \in Flows, NEW x \in Pulls, RequestToSend(f, x)
      PROVE  SetWithin(DrainTime - since)'
  <2>1. /\ since' = since
        /\ timers' = CASE ShouldTx -> Arm(timers, 0)
                       [] ~ShouldTx /\ ShouldSchedule -> Arm(timers, DrainTime - since)
                       [] OTHER -> timers
    BY <1>8, Zenon DEF RequestToSend
  <2>2. CASE ShouldTx
    BY <1>6, <2>1, <2>2, Zenon
  <2>3. CASE ~ShouldTx /\ ShouldSchedule
    BY <1>5, <2>1, <2>3, Zenon
  <2>4. CASE ~ShouldTx /\ ~ShouldSchedule
    <3>1. since >= DrainTime \/ since < DrainTime
      BY <1>0, SMT DEF TimerTypes
    <3>2. ~Empty
      BY <2>4, <3>1, Zenon DEF ShouldTx, ShouldSchedule
    <3>3. timers' = timers
      BY <2>1, <2>4, Zenon
    <3> QED BY <1>4, <2>1, <3>2, <3>3, Zenon
  <2> QED BY <2>2, <2>3, <2>4, Zenon
<1>9. ASSUME NEW f \in Flows, Complete(f)
      PROVE  SetWithin(DrainTime - since)'
  <2>1. ~Empty
    <3> SUFFICES ASSUME Empty
                 PROVE  Empty'
      BY Zenon
    <3>1. pull_count' = pull_count - Flushed(f) /\ Flushed(f) = 0 /\ pull_count = 0
      BY <1>3, <1>9, Zenon DEF Complete, flush_flow, Empty
    <3> QED BY <3>1, SMT DEF Empty
  <2>2. timers' = timers /\ since' = since
    BY <1>9, <2>1, Zenon DEF Complete, SendsAtOnce, Armed
  <2> QED BY <1>4, <2>1, <2>2, Zenon
<1>10. ASSUME NEW f \in Flows, SendPull(f)
       PROVE  SetWithin(DrainTime - since)'
  <2>1. pull_count' = pull_count - 1 /\ since' = 0 /\ timers' = Rearmed /\ Due
    BY <1>10, Zenon DEF SendPull, dequeue, JustSent
  <2>2. pull_count > 1
    <3>1. pull_count # 1 /\ pull_count # 0
      BY <1>10, <2>1, SMT DEF Empty, SendPull
    <3> QED BY <1>3, <3>1, SMT
  <2>3. timers' = Arm(Fired, DrainTime)
    BY <2>1, <2>2, Zenon DEF Rearmed
  <2>4. Fired \in [0 .. DrainTime -> Nat]
    <3>1. timers[0] \in Nat
      BY <1>0, Zenon DEF TimerTypes
    <3>2. timers[0] - 1 \in Nat
      BY <2>1, <3>1, SMT DEF Due
    <3> QED BY <3>2, Zenon DEF Fired, TimerTypes
  <2>5. timers'[DrainTime] > 0 /\ DrainTime <= DrainTime - since'
    <3>1. timers'[DrainTime] > 0
      BY <1>0, <2>3, <2>4, ArmSets, Zenon
    <3>2. DrainTime <= DrainTime - since'
      BY <1>0, <2>1, SMT
    <3> QED BY <3>1, <3>2, Zenon
  <2> QED BY <1>0, <2>5, Zenon DEF SetWithin
<1>11. CASE TimerOfNobody
  BY <1>11, Zenon DEF TimerOfNobody, queueVars, Empty
<1>12. CASE Tick
  <2>1. ~Empty /\ ~Due
    BY <1>12, Zenon DEF Tick, queueVars, Empty
  <2>2. PICK u \in 0 .. DrainTime : timers[u] > 0 /\ u <= DrainTime - since
    BY <1>2, <2>1, Zenon DEF SetWithin
  <2>3. u # 0
    BY <2>1, <2>2, Zenon DEF Due
  <2>4. /\ u - 1 \in 0 .. DrainTime /\ u - 1 # DrainTime /\ (u - 1) + 1 = u
        /\ u - 1 <= DrainTime - since'
    <3>1. since' = IF since < DrainTime THEN since + 1 ELSE since
      BY <1>12, Zenon DEF Tick
    <3>2. since \in 0 .. DrainTime
      BY Zenon DEF TimerTypes
    <3> QED BY <1>0, <2>2, <2>3, <3>1, <3>2, SMT
  <2>5. timers' = [t \in 0 .. DrainTime |-> IF t = DrainTime THEN 0 ELSE timers[t + 1]]
    BY <1>12, Zenon DEF Tick
  <2>6. timers'[u - 1] > 0
    BY <2>2, <2>4, <2>5, Zenon
  <2> QED BY <2>4, <2>6, Zenon DEF SetWithin
<1>13. CASE UNCHANGED vars
  BY <1>4, <1>13, Zenon DEF vars, queueVars, Empty
<1> QED BY <1>7, <1>8, <1>9, <1>10, <1>11, <1>12, <1>13, Zenon DEF Next

\* Pulls that wait in the pacer always have a timer that goes off within one
\* DrainTime of the last pull (sendPacket(), enqueue_pull(), doNextEvent()): a
\* flow that completes and takes its pulls away never takes the timer of the
\* others.
THEOREM PullsHaveTimer == Spec => []SomeTimerIsSet
<1>1. Init => TimerInv
  <2> SUFFICES ASSUME Init
               PROVE  TimerInv
    BY Zenon
  <2>1. QueueInv /\ pull_count = 0
    BY InitQueueIsRight, Zenon DEF Init, InitQueue
  <2>2. TimerTypes
    BY SMT DEF Init, TimerTypes
  <2> QED BY <2>1, <2>2, Zenon DEF TimerInv, SomeTimerIsSet, Empty
<1>2. TimerInv /\ [Next]_vars => TimerInv'
  BY QueueInvKept, TimerTypesKept, TimerStaysSet, Zenon DEF TimerInv
<1>3. TimerInv => SomeTimerIsSet
  BY Zenon DEF TimerInv
<1> QED BY <1>1, <1>2, <1>3, PTL DEF Spec

-----------------------------------------------------------------------------
(* Whose turn it is *)

\* A flow that was served while g waited comes after g, going round from the
\* iterator.
Position(g) == current_queue[Priority[g]]
Behind(g, h) == /\ h \in Flows /\ h # g /\ Priority[h] = Priority[g]
                /\ Rank(Position(g), g) < Rank(Position(g), h)
Round == /\ overtaken \in [Flows -> SUBSET Flows]
         /\ \A g \in Flows : \A h \in overtaken[g] : Waits(g) /\ Behind(g, h)

FairInv == QueueInv /\ Round

\* The iterator moves from i to j, behind f, past nobody who waits: it was at f
\* or f was the next to be served.  Then nobody changes places except f, which
\* is now behind all others.
LEMMA RankMoves ==
  ASSUME NEW i \in Nat, NEW j \in Nat, NEW f \in Flows, NEW g \in Flows, NEW h \in Flows,
         i <= End, j <= End, f < j, g # f, g <= f \/ j <= g,
         Rank(i, f) <= Rank(i, g)
  PROVE  /\ Rank(j, g) < Rank(j, f)
         /\ h # f /\ Rank(i, g) < Rank(i, h) => Rank(j, g) < Rank(j, h)
<1>1. /\ End \in Nat /\ f \in Nat /\ g \in Nat /\ h \in Nat
      /\ f < End /\ g < End /\ h < End /\ 1 <= f /\ 1 <= g /\ 1 <= h
  BY FlowsAssumption, SMT DEF Flows, End
<1> HIDE DEF End
<1>2. Rank(j, g) < Rank(j, f)
  BY <1>1, SMT DEF Rank
<1>3. ASSUME h # f, Rank(i, g) < Rank(i, h)
      PROVE  Rank(j, g) < Rank(j, h)
  BY <1>1, <1>3, SMT DEF Rank
<1> QED BY <1>2, <1>3, Zenon

LEMMA PositionIs ==
  ASSUME QueueInv, NEW g \in Flows
  PROVE  Position(g) \in Nat /\ Position(g) <= End
<1>1. /\ Priority[g] \in Priorities /\ End \in Nat
      /\ \A f \in Flows : f \in Nat /\ f <= End
  <2>1. Priority[g] \in Priorities
    BY Zenon DEF Priorities
  <2>2. End \in Nat /\ \A f \in Flows : f \in Nat /\ f <= End
    BY FlowsAssumption, SMT DEF Flows, End
  <2> QED BY <2>1, <2>2, Zenon
<1>2. Position(g) \in Keys(Priority[g]) \union {End} /\ Keys(Priority[g]) \subseteq Flows
  BY <1>1, Zenon DEF Position, QueueInv, Iterators, Rings, Keys
<1>3. End <= End
  BY <1>1, SMT
<1> QED BY <1>1, <1>2, <1>3, Zenon

\* Nobody who waits is passed by the iterator.
LEMMA NotPassed ==
  ASSUME QueueInv, NEW f \in Flows, NEW g \in Flows, Waits(g), Priority[g] = Priority[f]
  PROVE  g <= f \/ After(Priority[f], f) <= g
<1>1. g \in Keys(Priority[f])
  BY Zenon DEF Keys, Waits
<1> QED BY <1>1, AfterIs, Zenon DEF QueueInv

LEMMA AskKeepsRound ==
  ASSUME FairInv, Asks
  PROVE  Round'
<1>1. PICK f \in Flows, x \in Pulls : enqueue(f, x) /\ overtaken' = overtaken
  BY Zenon DEF Asks
<1>2. current_queue' = current_queue
  BY <1>1, Zenon DEF enqueue
<1>3. ASSUME NEW g \in Flows, Waits(g)
      PROVE  Waits(g)'
  <2>1. g \in DOMAIN queue_map /\ queue_map[g].count > 0 /\ queue_map[g].count \in Nat
    BY <1>3, RingCounts, Zenon DEF Waits, FairInv, QueueInv, Rings
  <2>2. queue_map[g].count + 1 > 0
    BY <2>1, SMT
  <2>3. g \in DOMAIN queue_map' /\ queue_map'[g] \in {queue_map[g], push(queue_map[g], x)}
    BY <1>1, <2>1, Zenon DEF enqueue
  <2>4. push(queue_map[g], x).count = queue_map[g].count + 1
    BY Zenon DEF push
  <2>5. queue_map'[g].count > 0
    BY <2>1, <2>2, <2>3, <2>4, Zenon
  <2> QED BY <2>3, <2>5, Zenon DEF Waits
<1>4. \A g, h : Behind(g, h)' <=> Behind(g, h)
  BY <1>2, Zenon DEF Behind, Position
<1> QED BY <1>1, <1>3, <1>4, Zenon DEF FairInv, Round

LEMMA WithdrawKeepsRound ==
  ASSUME FairInv, Withdraws
  PROVE  Round'
<1> USE DEF FairInv
<1>1. PICK f \in Flows : flush_flow(f) /\ overtaken' = [overtaken EXCEPT ![f] = {}]
  BY Zenon DEF Withdraws
<1>2. /\ queue_map' = [g \in DOMAIN queue_map \ {f} |-> queue_map[g]]
      /\ current_queue' = [current_queue EXCEPT ![Priority[f]] = MovedOn(f)]
      /\ DOMAIN current_queue = Priorities
  BY <1>1, Zenon DEF flush_flow, QueueInv, Iterators
<1>3. overtaken' \in [Flows -> SUBSET Flows] /\ overtaken'[f] = {}
      /\ \A g \in Flows \ {f} : overtaken'[g] = overtaken[g]
  BY <1>1, Zenon DEF Round
<1>4. ASSUME NEW g \in Flows \ {f}, NEW h \in overtaken[g]
      PROVE  Waits(g)' /\ Behind(g, h)'
  <2>1. Waits(g) /\ Behind(g, h)
    BY <1>4, Zenon DEF Round
  <2>2. Waits(g)'
    BY <1>2, <2>1, Zenon DEF Waits
  <2>3. \A p \in Priorities : current_queue'[p] =
          IF p = Priority[f] THEN MovedOn(f) ELSE current_queue[p]
    BY <1>2, Zenon
  <2>4. Priority[g] \in Priorities
    BY Zenon DEF Priorities
  <2>5. CASE Position(g)' = Position(g)
    BY <2>1, <2>2, <2>5, Zenon DEF Behind
  <2>6. CASE Position(g)' # Position(g)
    <3>1. Priority[g] = Priority[f] /\ Position(g) = f /\ Position(g)' = After(Priority[f], f)
      BY <2>3, <2>4, <2>6, Zenon DEF Position, MovedOn
    <3>2. PICK i, j : i = Position(g) /\ j = Position(g)'
      BY Zenon
    <3>3. /\ i = f /\ i \in Nat /\ i <= End /\ j \in Nat /\ j <= End /\ f < j
          /\ g <= f \/ j <= g
      BY <2>1, <3>1, <3>2, PositionIs, AfterIs, NotPassed, Zenon DEF QueueInv
    <3>4. h \in Flows /\ h # g /\ Priority[h] = Priority[g] /\ Rank(i, g) < Rank(i, h)
      BY <2>1, <3>2, Zenon DEF Behind
    <3>5. Rank(i, f) <= Rank(i, g) /\ h # f
      <4>1. f \in Nat /\ g \in Nat /\ End \in Nat /\ f < End /\ g < End /\ 1 <= g
        BY FlowsAssumption, SMT DEF Flows, End
      <4> HIDE DEF End
      <4> QED BY <3>3, <3>4, <4>1, SMT DEF Rank
    <3>6. Rank(j, g) < Rank(j, h)
      BY <3>3, <3>4, <3>5, RankMoves, Zenon
    <3>7. Behind(g, h)'
      BY <3>2, <3>4, <3>6, Zenon DEF Behind
    <3> QED BY <2>2, <3>7, Zenon
  <2> QED BY <2>5, <2>6, Zenon
<1> QED BY <1>3, <1>4, Zenon DEF Round

LEMMA ServeKeepsRound ==
  ASSUME FairInv, Serves
  PROVE  Round'
<1> USE DEF FairInv
<1>1. PICK f \in Flows :
        /\ dequeue(f)
        /\ overtaken' = [g \in Flows |-> IF g = f THEN {}
                                   ELSE IF g \in Rivals(f) THEN overtaken[g] \union {f}
                                   ELSE overtaken[g]]
  BY Zenon DEF Serves
<1>2. /\ queue_map' = [queue_map EXCEPT ![f] = pop(queue_map[f])]
      /\ current_queue' = [current_queue EXCEPT ![Priority[f]] = After(Priority[f], f)]
      /\ DOMAIN current_queue = Priorities /\ IsNext(f)
  BY <1>1, DequeueServes, Zenon DEF dequeue, QueueInv, Iterators, Serves
<1>3. overtaken' \in [Flows -> SUBSET Flows]
  BY <1>1, Zenon DEF Round
<1>4. ASSUME NEW g \in Flows, NEW h \in overtaken'[g]
      PROVE  Waits(g)' /\ Behind(g, h)'
  <2>1. /\ g # f
        /\ \/ h \in overtaken[g]
           \/ h = f /\ g \in Rivals(f)
    BY <1>1, <1>4, Zenon
  <2>2. Waits(g)
    BY <2>1, Zenon DEF Round, Rivals
  <2>3. Waits(g)'
    BY <1>2, <2>1, <2>2, Zenon DEF Waits
  <2>4. h \in Flows /\ h # g /\ Priority[h] = Priority[g]
    BY <2>1, Zenon DEF Round, Behind, Rivals
  <2>5. Priority[g] \in Priorities
    BY Zenon DEF Priorities
  <2>6. CASE Priority[g] # Priority[f]
    <3>1. Position(g)' = Position(g)
      BY <1>2, <2>5, <2>6, Zenon DEF Position
    <3>2. Behind(g, h)
      BY <2>1, <2>6, Zenon DEF Round, Rivals
    <3>3. Behind(g, h)'
      BY <3>1, <3>2, Zenon DEF Behind
    <3> QED BY <2>3, <3>3, Zenon
  <2>7. CASE Priority[g] = Priority[f]
    <3>1. Position(g)' = After(Priority[f], f)
      BY <1>2, <2>5, <2>7, Zenon DEF Position
    <3>2. PICK i, j : i = Position(g) /\ j = Position(g)'
      BY Zenon
    <3>3. /\ i \in Nat /\ i <= End /\ j \in Nat /\ j <= End /\ f < j
          /\ g <= f \/ j <= g
      BY <2>2, <2>7, <3>1, <3>2, PositionIs, AfterIs, NotPassed, Zenon DEF QueueInv
    <3>4. Rank(i, f) <= Rank(i, g)
      BY <1>2, <2>2, <2>7, <3>2, Zenon DEF IsNext, Position
    <3>5. h = f \/ Rank(i, g) < Rank(i, h)
      BY <2>1, <3>2, Zenon DEF Round, Behind
    <3>6. Rank(j, g) < Rank(j, h)
      BY <2>1, <2>4, <3>3, <3>4, <3>5, RankMoves, Zenon
    <3>7. Behind(g, h)'
      BY <2>4, <3>2, <3>6, Zenon DEF Behind
    <3> QED BY <2>3, <3>7, Zenon
  <2> QED BY <2>6, <2>7, Zenon
<1> QED BY <1>3, <1>4, Zenon DEF Round

LEMMA FairInvAlways == Spec => []FairInv
<1>1. Init => FairInv
  <2> SUFFICES ASSUME Init
               PROVE  FairInv
    BY Zenon
  <2>1. overtaken = [f \in Flows |-> {}]
    BY Zenon DEF Init
  <2>2. Round
    BY <2>1, Zenon DEF Round
  <2> QED BY <2>2, InitQueueIsRight, Zenon DEF Init, FairInv
<1>2. FairInv /\ [Next]_vars => FairInv'
  <2> SUFFICES ASSUME FairInv, [Next]_vars
               PROVE  Round'
    BY QueueInvKept, Zenon DEF FairInv
  <2>1. CASE LeavesQueue
    BY <2>1, Zenon DEF LeavesQueue, queueVars, FairInv, Round, Waits, Behind, Position
  <2> QED BY <2>1, QueueSteps, AskKeepsRound, WithdrawKeepsRound, ServeKeepsRound, Zenon
<1> QED BY <1>1, <1>2, PTL DEF Spec

\* The map of rings, turns and counters is a fair queue: the pulls of a flow
\* leave in the order they were asked for, the first priority goes first, and
\* among flows of one priority nobody is served twice while another one waits,
\* whatever completes in the middle of a round (enqueue(), dequeue() and
\* flush_flow(), priopullqueue.cpp).
THEOREM QueueIsFair == Spec => ImplementsFairPulls
<1>1. Init => Abstract!Init
  BY InitQueueIsRight, Zenon DEF Init, Abstract!Init, Lines
<1>2. FairInv /\ [Next]_vars => [Abstract!Next]_<<Lines, overtaken>>
  <2> SUFFICES ASSUME FairInv, [Next]_vars
               PROVE  [Abstract!Next]_<<Lines, overtaken>>
    BY Zenon
  <2> USE DEF FairInv
  <2>1. CASE Asks
    <3>1. PICK f \in Flows, x \in Pulls : enqueue(f, x) /\ overtaken' = overtaken
      BY <2>1, Zenon DEF Asks
    <3>2. Lines' = [Lines EXCEPT ![f] = Append(Lines[f], x)]
      BY <3>1, EnqueueAppends, Zenon
    <3>3. Abstract!Ask(f, x)
      BY <3>1, <3>2, Zenon DEF Abstract!Ask, Lines
    <3> QED BY <3>3, Zenon DEF Abstract!Next
  <2>2. CASE Withdraws
    <3>1. PICK f \in Flows : flush_flow(f) /\ overtaken' = [overtaken EXCEPT ![f] = {}]
      BY <2>2, Zenon DEF Withdraws
    <3>2. Lines' = [Lines EXCEPT ![f] = <<>>]
      BY <3>1, FlushTakesOwn, Zenon
    <3>3. Abstract!Withdraw(f)
      BY <3>1, <3>2, Zenon DEF Abstract!Withdraw, Lines
    <3> QED BY <3>3, Zenon DEF Abstract!Next
  <2>3. CASE Serves
    <3>1. PICK f \in Flows :
            /\ dequeue(f)
            /\ overtaken' = [g \in Flows |-> IF g = f THEN {}
                                   ELSE IF g \in Rivals(f) THEN overtaken[g] \union {f}
                                   ELSE overtaken[g]]
      BY <2>3, Zenon DEF Serves
    <3>2. /\ IsNext(f) /\ Lines' = [Lines EXCEPT ![f] = Tail(Lines[f])]
      BY <2>3, <3>1, DequeueServes, Zenon DEF Serves
    <3>3. \A g \in Flows : Abstract!Waits(g) <=> Waits(g)
      BY WaitingIs, Zenon DEF Abstract!Waits, Lines, QueueInv
    <3>4. Abstract!Rivals(f) = Rivals(f)
      BY <3>3, Zenon DEF Abstract!Rivals, Rivals
    <3>5. ASSUME NEW g \in Rivals(f), f \in overtaken[g]
          PROVE  FALSE
      <4>1. g \in Flows /\ Waits(g) /\ Priority[g] = Priority[f]
            /\ Rank(Position(g), g) < Rank(Position(g), f)
        BY <3>5, Zenon DEF Rivals, Round, Behind
      <4>2. Rank(Position(g), f) <= Rank(Position(g), g)
        BY <3>2, <4>1, Zenon DEF IsNext, Position
      <4>3. PICK i : i = Position(g)
        BY Zenon
      <4>4. i \in Nat /\ f \in Nat /\ g \in Nat /\ End \in Nat
        <5>1. f \in Nat /\ g \in Nat /\ End \in Nat
          BY <4>1, FlowsAssumption, SMT DEF Flows, End
        <5> QED BY <4>1, <4>3, <5>1, PositionIs, Zenon
      <4> HIDE DEF End
      <4> QED BY <4>1, <4>2, <4>3, <4>4, SMT DEF Rank
    <3>6. Abstract!Serve(f)
      BY <3>1, <3>2, <3>3, <3>4, <3>5, Zenon DEF Abstract!Serve, IsNext, Lines
    <3> QED BY <3>6, Zenon DEF Abstract!Next
  <2>4. CASE LeavesQueue
    BY <2>4, Zenon DEF LeavesQueue, queueVars, Lines
  <2> QED BY <2>1, <2>2, <2>3, <2>4, QueueSteps, Zenon
<1> QED BY <1>1, <1>2, FairInvAlways, PTL DEF Spec, ImplementsFairPulls, Abstract!Spec, Lines

-----------------------------------------------------------------------------
(* Types *)

\* What TypeOK says beyond the other invariants.
Bounded == /\ prio_counts \in [Priorities -> Int] /\ pull_count <= MaxQueued
           /\ never \in BOOLEAN /\ closed \subseteq Flows

LEMMA BoundedKept ==
  ASSUME Bounded, QueueInv, [Next]_vars
  PROVE  Bounded'
<1>0. /\ pull_count \in Nat /\ MaxQueued \in Nat
      /\ \A p \in Priorities : prio_counts[p] \in Int
      /\ \A f \in Flows : Flushed(f) \in Nat /\ Priority[f] \in Priorities
  <2>1. \A f \in Flows : Flushed(f) \in Nat
    BY WaitingIs, Zenon DEF QueueInv
  <2> QED BY <2>1, PullCountIs, PacerAssumption, Zenon DEF Bounded, Priorities
<1>1. never' \in BOOLEAN /\ closed' \subseteq Flows
  <2>1. ASSUME NEW f \in Flows, NEW x \in Pulls, Answer(f, x) \/ RequestToSend(f, x)
        PROVE  never' \in BOOLEAN /\ closed' \subseteq Flows
    BY <2>1, Zenon DEF Answer, RequestToSend, JustSent, Bounded
  <2>2. ASSUME NEW f \in Flows, Complete(f) \/ SendPull(f)
        PROVE  never' \in BOOLEAN /\ closed' \subseteq Flows
    BY <2>2, Zenon DEF Complete, SendPull, JustSent, Bounded
  <2>3. CASE TimerOfNobody \/ Tick \/ UNCHANGED vars
    BY <2>3, Zenon DEF TimerOfNobody, Tick, vars, Bounded
  <2> QED BY <2>1, <2>2, <2>3, Zenon DEF Next
<1>2. ASSUME NEW f \in Flows, NEW x \in Pulls, enqueue(f, x), pull_count < MaxQueued
      PROVE  prio_counts' \in [Priorities -> Int] /\ pull_count' <= MaxQueued
  <2>1. prio_counts[Priority[f]] + 1 \in Int /\ pull_count + 1 <= MaxQueued
    BY <1>0, <1>2, SMT
  <2> QED BY <1>2, <2>1, Zenon DEF enqueue, Bounded
<1>3. ASSUME NEW f \in Flows, flush_flow(f)
      PROVE  prio_counts' \in [Priorities -> Int] /\ pull_count' <= MaxQueued
  <2>1. prio_counts[Priority[f]] \in Int /\ Flushed(f) \in Nat /\ pull_count <= MaxQueued
    BY <1>0, Zenon DEF Bounded
  <2>2. prio_counts[Priority[f]] - Flushed(f) \in Int /\ pull_count - Flushed(f) <= MaxQueued
    BY <1>0, <2>1, SMT
  <2> QED BY <1>3, <2>2, Zenon DEF flush_flow, Bounded
<1>4. ASSUME NEW f \in Flows, dequeue(f)
      PROVE  prio_counts' \in [Priorities -> Int] /\ pull_count' <= MaxQueued
  <2>1. prio_counts[Priority[f]] \in Int /\ pull_count <= MaxQueued
    BY <1>0, Zenon DEF Bounded
  <2>2. prio_counts[Priority[f]] - 1 \in Int /\ pull_count - 1 <= MaxQueued
    BY <1>0, <2>1, SMT
  <2> QED BY <1>4, <2>2, Zenon DEF dequeue, Bounded
<1>5. ASSUME UNCHANGED queueVars
      PROVE  prio_counts' \in [Priorities -> Int] /\ pull_count' <= MaxQueued
  BY <1>5, Zenon DEF queueVars, Bounded
<1>6. prio_counts' \in [Priorities -> Int] /\ pull_count' <= MaxQueued
  <2>1. ASSUME NEW f \in Flows, NEW x \in Pulls, Answer(f, x)
        PROVE  UNCHANGED queueVars \/ (enqueue(f, x) /\ pull_count < MaxQueued)
    BY <2>1, Zenon DEF Answer, queueVars
  <2>2. ASSUME NEW f \in Flows, NEW x \in Pulls, RequestToSend(f, x)
        PROVE  enqueue(f, x) /\ pull_count < MaxQueued
    BY <2>2, Zenon DEF RequestToSend
  <2>3. ASSUME NEW f \in Flows, Complete(f) \/ SendPull(f)
        PROVE  flush_flow(f) \/ dequeue(f)
    BY <2>3, Zenon DEF Complete, SendPull
  <2>4. CASE TimerOfNobody \/ Tick \/ UNCHANGED vars
    BY <1>5, <2>4, Zenon DEF TimerOfNobody, Tick, vars
  <2> QED BY <1>2, <1>3, <1>4, <1>5, <2>1, <2>2, <2>3, <2>4, Zenon DEF Next
<1> QED BY <1>1, <1>6, Zenon DEF Bounded

\* The variables of the pacer and its queue have their types: a counter is
\* never negative and a ring holds pulls.
THEOREM TypeCorrect == Spec => []TypeOK
<1> DEFINE Inv == FairInv /\ TimerTypes /\ Bounded
<1>1. Init => Inv
  <2> SUFFICES ASSUME Init
               PROVE  Inv
    BY Zenon
  <2>1. overtaken = [f \in Flows |-> {}]
    BY Zenon DEF Init
  <2>2. QueueInv /\ Round
    BY <2>1, InitQueueIsRight, Zenon DEF Init, Round
  <2>3. TimerTypes
    BY SMT DEF Init, TimerTypes
  <2>4. prio_counts = [p \in Priorities |-> 0] /\ pull_count = 0 /\ closed = {} /\ never = TRUE
    BY Zenon DEF Init, InitQueue
  <2>5. 0 \in Int /\ 0 <= MaxQueued
    BY PacerAssumption, SMT
  <2>6. Bounded
    BY <2>4, <2>5, Zenon DEF Bounded
  <2> QED BY <2>2, <2>3, <2>6, Zenon DEF FairInv
<1>2. Inv /\ [Next]_vars => (TimerTypes /\ Bounded)'
  BY TimerTypesKept, BoundedKept, Zenon DEF FairInv
<1>3. Inv => TypeOK
  <2> SUFFICES ASSUME Inv
               PROVE  TypeOK
    BY Zenon
  <2>1. \A f \in Flows : Waits(f) => Contents(queue_map[f]) \in Seq(Pulls)
    BY RingCounts, Zenon DEF FairInv, QueueInv, Rings, Waits
  <2>2. prio_counts \in [Priorities -> Nat]
    <3>1. PICK n, counts, total : n = Waiting /\ counts = prio_counts /\ total = pull_count
      BY Zenon
    <3>2. n \in [Flows -> Nat] /\ Counts(n, counts, total)
      BY <3>1, WaitingIs, Zenon DEF QueueInv, FairInv
    <3>3. \A p \in Priorities : counts[p] \in Nat
      BY <3>2, CountsAre, Zenon
    <3> QED BY <3>1, <3>3, Zenon DEF Bounded
  <2>3. pull_count \in 0 .. MaxQueued
    <3>1. pull_count \in Nat /\ pull_count <= MaxQueued
      BY PullCountIs, Zenon DEF FairInv, Bounded
    <3> QED BY <3>1, PacerAssumption, SMT
  <2> QED BY <2>1, <2>2, <2>3, Zenon DEF TypeOK, FairInv, Round, TimerTypes, Bounded
<1> QED BY <1>1, <1>2, <1>3, FairInvAlways, PTL DEF Spec, Inv


-----------------------------------------------------------------------------
(* How many timers there are *)

Times == 0 .. DrainTime
FiniteTimers(ts) == IsFiniteSet(Cells(Times, ts))

\* Setting a timer adds one, and none can be taken for free when it goes off.
LEMMA ArmAdds ==
  ASSUME NEW ts \in [Times -> Nat], FiniteTimers(ts), NEW t \in Times
  PROVE  /\ FiniteTimers(Arm(ts, t)) /\ Total(Times, Arm(ts, t)) = Total(Times, ts) + 1
         /\ Arm(ts, t) \in [Times -> Nat] /\ Total(Times, ts) \in Nat
<1>1. Numbered(Times, ts)
  BY NumberedIs, Zenon
<1>2. Arm(ts, t) = [ts EXCEPT ![t] = ts[t] + 1]
  BY Zenon DEF Arm
<1>3. /\ IsFiniteSet(Cells(Times, Arm(ts, t)))
      /\ Cardinality(Cells(Times, Arm(ts, t))) = Cardinality(Cells(Times, ts)) + 1
  <2>1. LET more == Cells(Times, [ts EXCEPT ![t] = ts[t] + 1])
        IN  IsFiniteSet(more) /\ Cardinality(more) = Cardinality(Cells(Times, ts)) + 1
    BY <1>1, CellsMore, Zenon DEF FiniteTimers
  <2> QED BY <1>2, <2>1, Zenon
<1>4. Cardinality(Cells(Times, ts)) \in Nat
  BY FS_CardinalityType, Zenon DEF FiniteTimers
<1> QED BY <1>3, <1>4, ArmSets, Zenon DEF FiniteTimers, Total, Times

LEMMA FiringTakes ==
  ASSUME TimerTypes, FiniteTimers(timers), Due
  PROVE  /\ FiniteTimers(Fired) /\ Total(Times, Fired) = Total(Times, timers) - 1
         /\ Fired \in [Times -> Nat] /\ Total(Times, timers) \in Nat
<1>0. 0 \in Times /\ timers \in [Times -> Nat]
  BY PacerAssumption, SMT DEF Times, TimerTypes
<1>1. 0 \in Times /\ timers \in [Times -> Nat] /\ Numbered(Times, timers)
  BY <1>0, NumberedIs, Zenon
<1>2. timers[0] > 0 /\ timers[0] \in Nat
  BY <1>1, Zenon DEF Due
<1>3. Fired = [timers EXCEPT ![0] = timers[0] - 1]
  BY Zenon DEF Fired
<1>4. timers[0] - 1 \in Nat
  BY <1>2, SMT
<1>5. /\ IsFiniteSet(Cells(Times, Fired))
      /\ Cardinality(Cells(Times, Fired)) = Cardinality(Cells(Times, timers)) - 1
  BY <1>1, <1>2, <1>3, CellsLess, Zenon DEF FiniteTimers
<1>6. Cardinality(Cells(Times, timers)) \in Nat
  BY FS_CardinalityType, Zenon DEF FiniteTimers
<1>7. Fired \in [Times -> Nat]
  BY <1>1, <1>3, <1>4, Zenon
<1> QED BY <1>5, <1>6, <1>7, Zenon DEF FiniteTimers, Total

\* The instant that ends takes none away.
LEMMA TickKeepsTimers ==
  ASSUME TimerTypes, FiniteTimers(timers), Tick
  PROVE  /\ FiniteTimers(timers') /\ Total(Times, timers') <= Total(Times, timers)
<1>1. 0 \in 0 .. DrainTime /\ DrainTime \in Nat
  BY PacerAssumption, SMT
<1>2. timers \in [0 .. DrainTime -> Nat] /\ timers[0] = 0
  <2>1. timers[0] \in Nat /\ ~(timers[0] > 0)
    BY <1>1, Zenon DEF TimerTypes, Tick, Due
  <2>2. timers[0] = 0
    BY <2>1, SMT
  <2> QED BY <2>2, Zenon DEF TimerTypes
<1>3. timers' = [t \in 0 .. DrainTime |-> IF t = DrainTime THEN 0 ELSE timers[t + 1]]
  BY Zenon DEF Tick
<1>4. PICK n, m : n = timers /\ m = timers'
  BY Zenon
<1>5. /\ n \in [0 .. DrainTime -> Nat] /\ n[0] = 0 /\ IsFiniteSet(Cells(0 .. DrainTime, n))
      /\ m = [t \in 0 .. DrainTime |-> IF t = DrainTime THEN 0 ELSE n[t + 1]]
  BY <1>2, <1>3, <1>4, Zenon DEF FiniteTimers, Times
<1>6. /\ IsFiniteSet(Cells(0 .. DrainTime, m))
      /\ Cardinality(Cells(0 .. DrainTime, m)) <= Cardinality(Cells(0 .. DrainTime, n))
  BY <1>1, <1>5, CellsShifted, Zenon
<1> QED BY <1>4, <1>6, Zenon DEF FiniteTimers, Total, Times

\* One timer for the pulls that wait, and one for each flow that completed:
\* it took its pulls away, not the timer that was set for them.
Owed == Cardinality(closed) + IF Empty THEN 0 ELSE 1
TimersFew == FiniteTimers(timers) /\ Total(Times, timers) <= Owed
FewInv == QueueInv /\ TimerTypes /\ closed \subseteq Flows /\ TimersFew

\* What an action asks of Owed, by whether pulls wait before it and after it.
LEMMA ClosedIs ==
  ASSUME closed \subseteq Flows
  PROVE  /\ IsFiniteSet(closed) /\ Cardinality(closed) \in Nat
         /\ \A f \in Flows \ closed :
              Cardinality(closed \union {f}) = Cardinality(closed) + 1
<1>1. IsFiniteSet(Flows)
  <2>1. 1 \in Int /\ NFlows \in Int
    BY FlowsAssumption, SMT
  <2> QED BY <2>1, FS_Interval, Zenon DEF Flows
<1>2. IsFiniteSet(closed)
  BY <1>1, FS_Subset, Zenon
<1> QED BY <1>2, FS_CardinalityType, FS_AddElement, Zenon

LEMMA FewKept ==
  ASSUME FewInv, [Next]_vars
  PROVE  TimersFew'
<1> USE DEF FewInv
<1> DEFINE T == Total(Times, timers)
           c == Cardinality(closed)
<1>0. /\ 0 \in Times /\ DrainTime \in Times /\ DrainTime - since \in Times
      /\ timers \in [Times -> Nat]
  BY PacerAssumption, SMT DEF TimerTypes, Times
<1>1. c \in Nat /\ T \in Nat
      /\ \A f \in Flows \ closed : Cardinality(closed \union {f}) = c + 1
  <2>1. T \in Nat
    BY FS_CardinalityType, Zenon DEF Total, TimersFew, FiniteTimers
  <2> QED BY <2>1, ClosedIs, Zenon
<1>2. T <= c + IF Empty THEN 0 ELSE 1
  BY Zenon DEF TimersFew, Owed
<1>3. \A t \in {0, DrainTime - since} : /\ FiniteTimers(Arm(timers, t))
                                        /\ Total(Times, Arm(timers, t)) = T + 1
  BY <1>0, ArmAdds, Zenon DEF TimersFew
<1>4. pull_count \in Nat /\ \A f \in Flows : Empty => Flushed(f) = 0
  BY PullCountIs, Zenon
<1>5. ASSUME UNCHANGED <<timers, closed, queueVars>>
      PROVE  TimersFew'
  BY <1>5, Zenon DEF TimersFew, Owed, Empty, queueVars
<1>6. ASSUME NEW f \in Flows, NEW x \in Pulls, enqueue(f, x), closed' = closed,
             \/ Empty /\ timers' \in {Arm(timers, 0), Arm(timers, DrainTime - since)}
             \/ ~Empty /\ timers' = timers
      PROVE  TimersFew'
  <2>1. ~Empty'
    <3>1. pull_count' = pull_count + 1
      BY <1>6, Zenon DEF enqueue
    <3> QED BY <1>4, <3>1, SMT DEF Empty
  <2>2. FiniteTimers(timers)' /\ Total(Times, timers)' <= c + 1
    <3>1. CASE Empty
      <4>1. FiniteTimers(timers)' /\ Total(Times, timers)' = T + 1
        BY <1>3, <1>6, <3>1, Zenon DEF FiniteTimers
      <4>2. T + 1 <= c + 1
        <5> HIDE DEF T, c
        <5> QED BY <1>1, <1>2, <3>1, SMT
      <4> QED BY <4>1, <4>2, Zenon
    <3>2. CASE ~Empty
      BY <1>2, <1>6, <3>2, Zenon DEF TimersFew, FiniteTimers
    <3> QED BY <3>1, <3>2, Zenon
  <2> QED BY <1>6, <2>1, <2>2, Zenon DEF TimersFew, Owed
<1>7. ASSUME NEW f \in Flows, NEW x \in Pulls, Answer(f, x)
      PROVE  TimersFew'
  <2>1. CASE SendsAtOnce /\ JustSent /\ UNCHANGED <<queueVars, timers>>
    BY <1>5, <1>7, <2>1, Zenon DEF Answer
  <2>2. CASE enqueue(f, x) /\ timers' = Armed
    BY <1>6, <1>7, <2>2, Zenon DEF Answer, Armed
  <2> QED BY <1>7, <2>1, <2>2, Zenon DEF Answer
<1>8. ASSUME NEW f \in Flows, NEW x \in Pulls, RequestToSend(f, x)
      PROVE  TimersFew'
  <2>1. /\ enqueue(f, x) /\ closed' = closed
        /\ timers' = CASE ShouldTx -> Arm(timers, 0)
                       [] ~ShouldTx /\ ShouldSchedule -> Arm(timers, DrainTime - since)
                       [] OTHER -> timers
    BY <1>8, Zenon DEF RequestToSend
  <2>2. since >= DrainTime \/ since < DrainTime
    BY PacerAssumption, SMT DEF TimerTypes
  <2>3. CASE Empty
    <3>1. ShouldTx \/ (~ShouldTx /\ ShouldSchedule)
      BY <2>2, <2>3, Zenon DEF ShouldTx, ShouldSchedule
    <3>2. timers' \in {Arm(timers, 0), Arm(timers, DrainTime - since)}
      BY <2>1, <3>1, Zenon
    <3> QED BY <1>6, <2>1, <2>3, <3>2, Zenon
  <2>4. CASE ~Empty
    <3>1. ~ShouldTx /\ ~ShouldSchedule
      BY <2>4, Zenon DEF ShouldTx, ShouldSchedule
    <3>2. timers' = timers
      BY <2>1, <3>1, Zenon
    <3> QED BY <1>6, <2>1, <2>4, <3>2, Zenon
  <2> QED BY <2>3, <2>4, Zenon
<1>9. ASSUME NEW f \in Flows, Complete(f)
      PROVE  TimersFew'
  <2>1. f \notin closed /\ closed' = closed \union {f} /\ flush_flow(f)
        /\ timers' \in {timers, Armed}
    BY <1>9, Zenon DEF Complete
  <2>2. Cardinality(closed') = c + 1
    BY <1>1, <2>1, Zenon
  <2>3. FiniteTimers(timers)' /\ Total(Times, timers)' <= c + 1
    <3>1. CASE Empty
      <4>1. timers' \in {timers, Arm(timers, DrainTime - since)}
        BY <2>1, <3>1, Zenon DEF Armed
      <4>2. FiniteTimers(timers)' /\ Total(Times, timers)' \in {T, T + 1}
        BY <1>3, <4>1, Zenon DEF TimersFew, FiniteTimers
      <4>3. T <= c + 1 /\ T + 1 <= c + 1
        <5> HIDE DEF T, c
        <5> QED BY <1>1, <1>2, <3>1, SMT
      <4> QED BY <4>2, <4>3, Zenon
    <3>2. CASE ~Empty
      <4>1. timers' = timers
        BY <2>1, <3>2, Zenon DEF Armed
      <4> QED BY <1>2, <3>2, <4>1, Zenon DEF TimersFew, FiniteTimers
    <3> QED BY <3>1, <3>2, Zenon
  <2>4. Cardinality(closed') <= Owed'
    <3>1. c + 1 <= (c + 1) + 0 /\ c + 1 <= (c + 1) + 1
      BY <1>1, SMT
    <3> QED BY <2>2, <3>1, Zenon DEF Owed
  <2>5. Owed' \in Nat
    <3>1. (c + 1) + 0 \in Nat /\ (c + 1) + 1 \in Nat
      BY <1>1, SMT
    <3> QED BY <2>2, <3>1, Zenon DEF Owed
  <2>6. Total(Times, timers)' \in Nat
    BY <2>3, FS_CardinalityType, Zenon DEF Total, FiniteTimers
  <2>7. Total(Times, timers)' <= Owed'
    BY <1>1, <2>2, <2>3, <2>4, <2>5, <2>6, SMT
  <2> QED BY <2>3, <2>7, Zenon DEF TimersFew
<1>10. ASSUME NEW f \in Flows, SendPull(f)
       PROVE  TimersFew'
  <2>1. Due /\ ~Empty /\ dequeue(f) /\ timers' = Rearmed /\ closed' = closed
    BY <1>10, Zenon DEF SendPull
  <2>2. pull_count' = pull_count - 1
    BY <2>1, Zenon DEF dequeue
  <2>3. FiniteTimers(Fired) /\ Total(Times, Fired) = T - 1 /\ Fired \in [Times -> Nat]
    BY <2>1, FiringTakes, Zenon DEF TimersFew
  <2>4. CASE pull_count > 1
    <3>1. ~Empty'
      BY <1>4, <2>2, <2>4, SMT DEF Empty
    <3>2. FiniteTimers(timers)' /\ Total(Times, timers)' = (T - 1) + 1
      <4>1. timers' = Arm(Fired, DrainTime)
        BY <2>1, <2>4, Zenon DEF Rearmed
      <4>2. FiniteTimers(Arm(Fired, DrainTime))
            /\ Total(Times, Arm(Fired, DrainTime)) = Total(Times, Fired) + 1
        BY <1>0, <2>3, ArmAdds, Zenon
      <4> QED BY <2>3, <4>1, <4>2, Zenon DEF FiniteTimers
    <3>3. (T - 1) + 1 <= c + 1
      <4> HIDE DEF T, c
      <4> QED BY <1>1, <1>2, <2>1, SMT
    <3> QED BY <2>1, <3>1, <3>2, <3>3, Zenon DEF TimersFew, Owed
  <2>5. CASE ~(pull_count > 1)
    <3>1. Empty'
      BY <1>4, <2>1, <2>2, <2>5, SMT DEF Empty
    <3>2. FiniteTimers(timers)' /\ Total(Times, timers)' = T - 1
      <4>1. timers' = Fired
        BY <2>1, <2>5, Zenon DEF Rearmed
      <4> QED BY <2>3, <4>1, Zenon DEF FiniteTimers
    <3>3. T - 1 <= c + 0
      <4> HIDE DEF T, c
      <4> QED BY <1>1, <1>2, <2>1, SMT
    <3> QED BY <2>1, <3>1, <3>2, <3>3, Zenon DEF TimersFew, Owed
  <2> QED BY <2>4, <2>5, Zenon
<1>11. CASE TimerOfNobody
  <2>1. Due /\ timers' = Fired /\ UNCHANGED <<queueVars, closed>> /\ Empty
    BY <1>11, Zenon DEF TimerOfNobody
  <2>2. FiniteTimers(timers)' /\ Total(Times, timers)' = T - 1
    BY <2>1, FiringTakes, Zenon DEF TimersFew, FiniteTimers
  <2>3. T - 1 <= c + 0
    <3> HIDE DEF T, c
    <3> QED BY <1>1, <1>2, <2>1, SMT
  <2> QED BY <2>1, <2>2, <2>3, Zenon DEF TimersFew, Owed, Empty, queueVars
<1>12. CASE Tick
  <2>1. UNCHANGED <<queueVars, closed>>
    BY <1>12, Zenon DEF Tick
  <2>2. FiniteTimers(timers)' /\ Total(Times, timers)' <= T
    BY <1>12, TickKeepsTimers, Zenon DEF TimersFew, FiniteTimers
  <2>3. Owed' = Owed
    BY <2>1, Zenon DEF Owed, Empty, queueVars
  <2>4. Total(Times, timers)' <= Owed
    <3>1. Total(Times, timers)' \in Nat
      BY <2>2, FS_CardinalityType, Zenon DEF Total, FiniteTimers
    <3>2. Owed \in Nat /\ T <= Owed
      BY <1>1, <1>2, SMT DEF Owed
    <3> HIDE DEF T
    <3> QED BY <1>1, <2>2, <3>1, <3>2, SMT
  <2> QED BY <2>2, <2>3, <2>4, Zenon DEF TimersFew
<1>13. CASE UNCHANGED vars
  BY <1>5, <1>13, Zenon DEF vars
<1> QED BY <1>7, <1>8, <1>9, <1>10, <1>11, <1>12, <1>13, Zenon DEF Next


LEMMA FewInvAlways == Spec => []FewInv
<1>1. Init => FewInv
  <2> SUFFICES ASSUME Init
               PROVE  FewInv
    BY Zenon
  <2>1. QueueInv
    BY InitQueueIsRight, Zenon DEF Init
  <2>2. TimerTypes
    BY SMT DEF Init, TimerTypes
  <2>3. closed = {} /\ Empty /\ \A t \in Times : timers[t] = 0
    BY Zenon DEF Init, InitQueue, Empty, Times
  <2>4. FiniteTimers(timers) /\ Total(Times, timers) = 0
    BY <2>3, CellsNone, Zenon DEF FiniteTimers, Total
  <2>5. Owed = 0 + 0
    BY <2>3, FS_EmptySet, Zenon DEF Owed
  <2>6. 0 <= 0 + 0
    BY SMT
  <2> QED BY <2>1, <2>2, <2>3, <2>4, <2>5, <2>6, Zenon DEF FewInv, TimersFew
<1>2. FewInv /\ [Next]_vars => FewInv'
  <2> SUFFICES ASSUME FewInv, [Next]_vars
               PROVE  (closed \subseteq Flows)'
    BY QueueInvKept, TimerTypesKept, FewKept, Zenon DEF FewInv
  <2>1. ASSUME NEW f \in Flows, NEW x \in Pulls, Answer(f, x) \/ RequestToSend(f, x)
        PROVE  closed' \subseteq Flows
    BY <2>1, Zenon DEF Answer, RequestToSend, FewInv
  <2>2. ASSUME NEW f \in Flows, Complete(f) \/ SendPull(f)
        PROVE  closed' \subseteq Flows
    BY <2>2, Zenon DEF Complete, SendPull, FewInv
  <2>3. CASE TimerOfNobody \/ Tick \/ UNCHANGED vars
    BY <2>3, Zenon DEF TimerOfNobody, Tick, vars, FewInv
  <2> QED BY <2>1, <2>2, <2>3, Zenon DEF Next
<1> QED BY <1>1, <1>2, PTL DEF Spec

\* However often an empty queue gets a timer while an old one is pending, the
\* event list never holds more timers of the pacer than one and the number of
\* flows that have completed (release_pulls() and sendPacket(), ndp.cpp).
THEOREM TimersAreFew == Spec => []TimersBounded
<1>1. ASSUME FewInv
      PROVE  TimersBounded
  <2>1. PICK c, T : c = Cardinality(closed) /\ T = Total(Times, timers)
    BY Zenon
  <2>2. c \in Nat /\ T \in Nat
    BY <1>1, <2>1, ClosedIs, FS_CardinalityType, Zenon
       DEF FewInv, TimersFew, FiniteTimers, Total
  <2>3. T <= c + IF Empty THEN 0 ELSE 1
    BY <1>1, <2>1, Zenon DEF FewInv, TimersFew, Owed
  <2>4. T <= 1 + c
    BY <2>2, <2>3, SMT
  <2> QED BY <2>1, <2>4, Zenon DEF TimersBounded, Times
<1> QED BY <1>1, FewInvAlways, PTL

\* Until a flow completes there is one timer at most, and it goes off one
\* DrainTime after the last pull.
Paced == closed = {} => \A t \in Times : timers[t] > 0 => never \/ since + t = DrainTime

\* Without a flow that completed, an idle pacer has no timer, and one that has
\* pulls has one.
LEMMA OneTimer ==
  ASSUME FewInv, closed = {}
  PROVE  /\ Total(Times, timers) \in Nat /\ Total(Times, timers) <= 1
         /\ Empty => \A t \in Times : timers[t] = 0
         /\ Due => \A t \in Times : Fired[t] = 0
<1> USE DEF FewInv
<1> DEFINE T == Total(Times, timers)
<1>1. T \in Nat /\ T <= 0 + IF Empty THEN 0 ELSE 1
  <2>1. Cardinality(closed) = 0
    BY FS_EmptySet, Zenon
  <2> QED BY <2>1, FS_CardinalityType, Zenon DEF TimersFew, FiniteTimers, Total, Owed
<1>2. T <= 1 /\ (Empty => T = 0)
  <2> HIDE DEF T
  <2> QED BY <1>1, SMT
<1>3. Empty => \A t \in Times : timers[t] = 0
  <2>1. Numbered(Times, timers) /\ IsFiniteSet(Cells(Times, timers))
    BY NumberedIs, Zenon DEF TimerTypes, Times, TimersFew, FiniteTimers
  <2>2. Cardinality(Cells(Times, timers)) = 0 <=> \A t \in Times : timers[t] = 0
    BY <2>1, CellsEmpty, Zenon
  <2> QED BY <1>2, <2>2, Zenon DEF Total
<1>4. ASSUME Due
      PROVE  \A t \in Times : Fired[t] = 0
  <2>1. /\ FiniteTimers(Fired) /\ Total(Times, Fired) = T - 1
        /\ Fired \in [Times -> Nat]
    BY <1>4, FiringTakes, Zenon DEF TimersFew
  <2>2. Numbered(Times, Fired) /\ IsFiniteSet(Cells(Times, Fired))
    BY <2>1, NumberedIs, Zenon DEF FiniteTimers
  <2>3. /\ Total(Times, Fired) \in Nat
        /\ Total(Times, Fired) = 0 <=> \A t \in Times : Fired[t] = 0
    BY <2>2, CellsEmpty, Zenon DEF Total
  <2>4. Total(Times, Fired) = 0
    <3> HIDE DEF T
    <3> QED BY <1>1, <1>2, <2>1, <2>3, SMT
  <2> QED BY <2>3, <2>4, Zenon
<1> QED BY <1>1, <1>2, <1>3, <1>4, Zenon

\* A timer set on top of none, for the time the last pull leaves.
LEMMA ArmsOnTime ==
  ASSUME TimerTypes, NEW ts \in [Times -> Nat], \A t \in Times : ts[t] = 0, NEW u \in Times
  PROVE  \A t \in Times : Arm(ts, u)[t] > 0 => t = u
<1>1. \A t \in Times : t # u => Arm(ts, u)[t] = 0
  BY Zenon DEF Arm
<1>2. ~(0 > 0)
  BY SMT
<1> QED BY <1>1, <1>2, Zenon

LEMMA PacedKept ==
  ASSUME FewInv, Paced, [Next]_vars
  PROVE  Paced'
<1> SUFFICES ASSUME closed' = {}
             PROVE  (\A t \in Times : timers[t] > 0 => never \/ since + t = DrainTime)'
  BY Zenon DEF Paced
<1> USE DEF FewInv
<1>0. /\ 0 \in Times /\ DrainTime \in Times /\ DrainTime - since \in Times
      /\ timers \in [Times -> Nat] /\ ~(0 > 0)
      /\ since + (DrainTime - since) = DrainTime
      /\ since >= DrainTime => since + 0 = DrainTime
      /\ 0 + DrainTime = DrainTime
  BY PacerAssumption, SMT DEF TimerTypes, Times
<1>1. ASSUME UNCHANGED <<timers, closed, never, since>>
      PROVE  (\A t \in Times : timers[t] > 0 => never \/ since + t = DrainTime)'
  BY <1>1, Zenon DEF Paced, Times
<1>2. ASSUME closed = {}, Empty, timers' = timers
      PROVE  (\A t \in Times : timers[t] > 0 => never \/ since + t = DrainTime)'
  BY <1>0, <1>2, OneTimer, Zenon DEF Times
<1>3. ASSUME closed = {}, Empty, UNCHANGED <<never, since>>,
             \/ timers' = Arm(timers, DrainTime - since)
             \/ timers' = Arm(timers, 0) /\ (never \/ since >= DrainTime)
      PROVE  (\A t \in Times : timers[t] > 0 => never \/ since + t = DrainTime)'
  <2>1. \A t \in Times : timers[t] = 0
    BY <1>3, OneTimer, Zenon
  <2>2. CASE timers' = Arm(timers, DrainTime - since)
    <3>1. \A t \in Times : timers'[t] > 0 => t = DrainTime - since
      BY <1>0, <2>1, <2>2, ArmsOnTime, Zenon
    <3> QED BY <1>0, <1>3, <3>1, Zenon DEF Times
  <2>3. CASE timers' = Arm(timers, 0) /\ (never \/ since >= DrainTime)
    <3>1. \A t \in Times : timers'[t] > 0 => t = 0
      BY <1>0, <2>1, <2>3, ArmsOnTime, Zenon
    <3> QED BY <1>0, <1>3, <2>3, <3>1, Zenon DEF Times
  <2> QED BY <1>3, <2>2, <2>3, Zenon
<1>4. ASSUME NEW f \in Flows, NEW x \in Pulls, Answer(f, x)
      PROVE  (\A t \in Times : timers[t] > 0 => never \/ since + t = DrainTime)'
  <2>1. closed' = closed
    BY <1>4, Zenon DEF Answer
  <2>2. CASE SendsAtOnce /\ UNCHANGED timers
    BY <1>2, <2>1, <2>2, Zenon DEF SendsAtOnce
  <2>3. CASE timers' = Armed /\ UNCHANGED <<since, never>>
    BY <1>1, <1>3, <2>1, <2>3, Zenon DEF Armed
  <2> QED BY <1>4, <2>2, <2>3, Zenon DEF Answer
<1>5. ASSUME NEW f \in Flows, NEW x \in Pulls, RequestToSend(f, x)
      PROVE  (\A t \in Times : timers[t] > 0 => never \/ since + t = DrainTime)'
  <2>1. /\ UNCHANGED <<since, never, closed>>
        /\ timers' = CASE ShouldTx -> Arm(timers, 0)
                       [] ~ShouldTx /\ ShouldSchedule -> Arm(timers, DrainTime - since)
                       [] OTHER -> timers
    BY <1>5, Zenon DEF RequestToSend
  <2>2. CASE ShouldTx
    BY <1>3, <2>1, <2>2, Zenon DEF ShouldTx
  <2>3. CASE ~ShouldTx /\ ShouldSchedule
    BY <1>3, <2>1, <2>3, Zenon DEF ShouldSchedule
  <2>4. CASE ~ShouldTx /\ ~ShouldSchedule
    <3>1. timers' = timers
      BY <2>1, <2>4, Zenon
    <3> QED BY <1>1, <2>1, <3>1, Zenon
  <2> QED BY <2>2, <2>3, <2>4, Zenon
<1>6. ASSUME NEW f \in Flows, Complete(f)
      PROVE  FALSE
  BY <1>6, Zenon DEF Complete
<1>7. ASSUME NEW f \in Flows, SendPull(f)
      PROVE  (\A t \in Times : timers[t] > 0 => never \/ since + t = DrainTime)'
  <2>1. Due /\ since' = 0 /\ closed = {} /\ timers' = Rearmed
    BY <1>7, Zenon DEF SendPull, JustSent
  <2>2. (\A t \in Times : Fired[t] = 0) /\ Fired \in [Times -> Nat]
    BY <2>1, OneTimer, FiringTakes, Zenon DEF TimersFew
  <2>3. CASE timers' = Fired
    BY <1>0, <2>2, <2>3, Zenon DEF Times
  <2>4. CASE timers' = Arm(Fired, DrainTime)
    <3>1. \A t \in Times : timers'[t] > 0 => t = DrainTime
      BY <1>0, <2>2, <2>4, ArmsOnTime, Zenon
    <3> QED BY <1>0, <2>1, <3>1, Zenon DEF Times
  <2> QED BY <2>1, <2>3, <2>4, Zenon DEF Rearmed
<1>8. CASE TimerOfNobody
  <2>1. closed = {} /\ Due /\ timers' = Fired
    BY <1>8, Zenon DEF TimerOfNobody
  <2>2. \A t \in Times : Fired[t] = 0
    BY <2>1, OneTimer, Zenon
  <2> QED BY <1>0, <2>1, <2>2, Zenon DEF Times
<1>9. CASE Tick
  <2>1. /\ closed = {} /\ never' = never
        /\ timers' = [t \in 0 .. DrainTime |-> IF t = DrainTime THEN 0 ELSE timers[t + 1]]
        /\ since' = IF since < DrainTime THEN since + 1 ELSE since
    BY <1>9, Zenon DEF Tick
  <2> SUFFICES ASSUME NEW t \in Times, timers'[t] > 0, ~never
               PROVE  since' + t = DrainTime
    BY <2>1, Zenon DEF Times
  <2>2. t # DrainTime /\ timers[t + 1] > 0
    BY <1>0, <2>1, Zenon DEF Times
  <2>3. t + 1 \in Times
    BY <2>2, PacerAssumption, SMT DEF Times
  <2>4. since + (t + 1) = DrainTime
    BY <2>1, <2>2, <2>3, Zenon DEF Paced
  <2> QED BY <2>1, <2>4, PacerAssumption, SMT DEF TimerTypes, Times
<1>10. CASE UNCHANGED vars
  BY <1>1, <1>10, Zenon DEF vars
<1> QED BY <1>4, <1>5, <1>6, <1>7, <1>8, <1>9, <1>10, Zenon DEF Next

\* As long as no flow has completed, the timer sends two pulls at least one
\* DrainTime apart, whatever arrives, is answered at once or asks to send in
\* between (doNextEvent() and enqueue_pull(), ndp.cpp).
THEOREM PullsArePaced == Spec => PacedUntilCompletion
<1>1. Init => Paced
  <2> SUFFICES ASSUME Init
               PROVE  Paced
    BY Zenon
  <2>1. \A t \in Times : timers[t] = 0
    BY Zenon DEF Init, Times
  <2>2. ~(0 > 0)
    BY SMT
  <2> QED BY <2>1, <2>2, Zenon DEF Paced
<1>2. FewInv /\ Paced /\ [Next]_vars => Paced'
  BY PacedKept, Zenon
<1>3. FewInv /\ Paced => (SendsPulls /\ closed = {} => never \/ since = DrainTime)
  <2> SUFFICES ASSUME FewInv, Paced, SendsPulls, closed = {}
               PROVE  never \/ since = DrainTime
    BY Zenon
  <2>1. Due
    BY Zenon DEF SendsPulls, SendPull
  <2>2. 0 \in Times /\ since + 0 = since
    BY PacerAssumption, SMT DEF Times, FewInv, TimerTypes
  <2>3. never \/ since + 0 = DrainTime
    BY <2>1, <2>2, Zenon DEF Due, Paced
  <2> QED BY <2>2, <2>3, Zenon
<1>4. FewInv /\ Paced /\ [Next]_vars
        => [SendsPulls /\ closed = {} => never \/ since = DrainTime]_vars
  BY <1>3, Zenon
<1> QED BY <1>1, <1>2, <1>4, FewInvAlways, PTL DEF Spec, PacedUntilCompletion

=============================================================================
