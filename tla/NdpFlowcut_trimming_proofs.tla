---------------------- MODULE NdpFlowcut_trimming_proofs ----------------------
(***************************************************************************)
(* What the transport keeps when packets are trimmed, for any number of    *)
(* trims, any routing and any mode: packets, pulls and completions are     *)
(* conserved; and under flowcut routing the path changes only when nothing *)
(* of the flow is left.                                                    *)
(*                                                                         *)
(* A packet is where its number is: in one of the queues of the network,   *)
(* among the headers, the NACKs or the packets to send again, or with the  *)
(* sink.  Every step moves numbers from one place to another.              *)
(***************************************************************************)
EXTENDS NdpFlowcut_proofs, FunctionTheorems

-----------------------------------------------------------------------------
(* Numbers in sequences *)

\* The first n elements of a, and whether no two of them are the same.
Elems(a, n)    == {a[k] : k \in 1..n}
Distinct(a, n) == \A j, k \in 1..n : a[j] = a[k] => j = k

\* A sequence that loses its i-th element loses one number.
Skips(b, a, i, n) == \A j \in 1 .. n - 1 : b[j] = a[IF j < i THEN j ELSE j + 1]

\* Without its i-th element a sequence of distinct numbers keeps every other number.
LEMMA TakenOut ==
  ASSUME NEW n \in Nat, NEW i \in 1..n, NEW a, NEW b, Distinct(a, n), Skips(b, a, i, n)
  PROVE  Distinct(b, n - 1) /\ Elems(b, n - 1) = Elems(a, n) \ {a[i]}
<1> DEFINE at(j) == IF j < i THEN j ELSE j + 1
<1>1. \A j \in 1 .. n - 1 : b[j] = a[at(j)]
  BY Zenon DEF Skips
<1>2. \A j \in 1 .. n - 1 : at(j) \in 1..n /\ at(j) # i
  BY SMT
<1>3. \A j, k \in 1 .. n - 1 : at(j) = at(k) => j = k
  BY SMT
<1>4. \A k \in 1..n : k # i => \E j \in 1 .. n - 1 : at(j) = k
  <2> SUFFICES ASSUME NEW k \in 1..n, k # i
               PROVE  \E j \in 1 .. n - 1 : at(j) = k
    OBVIOUS
  <2>1. CASE k < i
    <3>1. k \in 1 .. n - 1 /\ at(k) = k
      BY <2>1, SMT
    <3> QED BY <3>1, Zenon
  <2>2. CASE ~(k < i)
    <3>1. k - 1 \in 1 .. n - 1 /\ at(k - 1) = k
      BY <2>2, SMT
    <3> QED BY <3>1, Zenon
  <2> QED BY <2>1, <2>2, Zenon
<1> HIDE DEF at
<1>5. Distinct(b, n - 1)
  BY <1>1, <1>2, <1>3, Zenon DEF Distinct
<1>6. ASSUME NEW x \in Elems(b, n - 1)
      PROVE  x \in Elems(a, n) \ {a[i]}
  <2>1. PICK j \in 1 .. n - 1 : x = a[at(j)]
    BY <1>1, Zenon DEF Elems
  <2>2. at(j) \in 1..n /\ at(j) # i
    BY <1>2, Zenon
  <2> QED BY <2>1, <2>2, Zenon DEF Elems, Distinct
<1>7. ASSUME NEW x \in Elems(a, n) \ {a[i]}
      PROVE  x \in Elems(b, n - 1)
  <2>1. PICK k \in 1..n : x = a[k] /\ k # i
    BY Zenon DEF Elems
  <2>2. PICK j \in 1 .. n - 1 : at(j) = k
    BY <1>4, <2>1, Zenon
  <2> QED BY <1>1, <2>1, <2>2, Zenon DEF Elems
<1> QED BY <1>5, <1>6, <1>7, Zenon

\* A sequence that takes in others, behind its i-th element, has their numbers
\* and its own.
Merged(c, n, m, i, a, r) ==
  \A j \in 1 .. n + m : c[j] = IF j <= i THEN a[j]
                               ELSE IF j <= i + m THEN r[j - i] ELSE a[j - m]

\* Inserting fresh distinct numbers into a sequence of distinct numbers keeps them distinct.
LEMMA PutIn ==
  ASSUME NEW n \in Nat, NEW m \in Nat, NEW i \in 0..n, NEW a, NEW r, NEW c,
         Distinct(a, n), Distinct(r, m), Elems(a, n) \intersect Elems(r, m) = {},
         Merged(c, n, m, i, a, r)
  PROVE  Distinct(c, n + m) /\ Elems(c, n + m) = Elems(a, n) \union Elems(r, m)
<1> DEFINE Old(j) == j <= i \/ j > i + m
           at(j)  == IF j <= i THEN j ELSE IF j <= i + m THEN j - i ELSE j - m
<1>1. \A j \in 1 .. n + m : c[j] = IF Old(j) THEN a[at(j)] ELSE r[at(j)]
  BY SMT DEF Merged
<1>2. \A j \in 1 .. n + m : IF Old(j) THEN at(j) \in 1..n ELSE at(j) \in 1..m
  BY SMT
<1>3. \A j, k \in 1 .. n + m : (Old(j) <=> Old(k)) /\ at(j) = at(k) => j = k
  BY SMT
<1>4. \A k \in 1..n : \E j \in 1 .. n + m : Old(j) /\ at(j) = k
  <2> SUFFICES ASSUME NEW k \in 1..n
               PROVE  \E j \in 1 .. n + m : Old(j) /\ at(j) = k
    OBVIOUS
  <2>1. CASE k <= i
    <3>1. k \in 1 .. n + m /\ Old(k) /\ at(k) = k
      BY <2>1, SMT
    <3> QED BY <3>1, Zenon
  <2>2. CASE ~(k <= i)
    <3>1. k + m \in 1 .. n + m /\ Old(k + m) /\ at(k + m) = k
      BY <2>2, SMT
    <3> QED BY <3>1, Zenon
  <2> QED BY <2>1, <2>2, Zenon
<1>5. \A k \in 1..m : \E j \in 1 .. n + m : ~Old(j) /\ at(j) = k
  <2> SUFFICES ASSUME NEW k \in 1..m
               PROVE  \E j \in 1 .. n + m : ~Old(j) /\ at(j) = k
    OBVIOUS
  <2>1. k + i \in 1 .. n + m /\ ~Old(k + i) /\ at(k + i) = k
    BY SMT
  <2> QED BY <2>1, Zenon
<1> HIDE DEF Old, at
<1>6. \A j \in 1 .. n + m : IF Old(j) THEN c[j] \in Elems(a, n) ELSE c[j] \in Elems(r, m)
  BY <1>1, <1>2, Zenon DEF Elems
<1>7. ASSUME NEW j \in 1 .. n + m, NEW k \in 1 .. n + m, c[j] = c[k]
      PROVE  j = k
  <2>1. Old(j) <=> Old(k)
    BY <1>6, <1>7, Zenon
  <2>2. CASE Old(j)
    <3>1. c[j] = a[at(j)] /\ c[k] = a[at(k)] /\ at(j) \in 1..n /\ at(k) \in 1..n
      BY <1>1, <1>2, <2>1, <2>2, Zenon
    <3> QED BY <1>3, <1>7, <2>1, <3>1, Zenon DEF Distinct
  <2>3. CASE ~Old(j)
    <3>1. c[j] = r[at(j)] /\ c[k] = r[at(k)] /\ at(j) \in 1..m /\ at(k) \in 1..m
      BY <1>1, <1>2, <2>1, <2>3, Zenon
    <3> QED BY <1>3, <1>7, <2>1, <3>1, Zenon DEF Distinct
  <2> QED BY <2>2, <2>3, Zenon
<1>8. ASSUME NEW x \in Elems(c, n + m)
      PROVE  x \in Elems(a, n) \union Elems(r, m)
  BY <1>6, Zenon DEF Elems
<1>9. ASSUME NEW x \in Elems(a, n)
      PROVE  x \in Elems(c, n + m)
  <2>1. PICK k \in 1..n : x = a[k]
    BY Zenon DEF Elems
  <2>2. PICK j \in 1 .. n + m : Old(j) /\ at(j) = k
    BY <1>4, Zenon
  <2> QED BY <1>1, <2>1, <2>2, Zenon DEF Elems
<1>10. ASSUME NEW x \in Elems(r, m)
       PROVE  x \in Elems(c, n + m)
  <2>1. PICK k \in 1..m : x = r[k]
    BY Zenon DEF Elems
  <2>2. PICK j \in 1 .. n + m : ~Old(j) /\ at(j) = k
    BY <1>5, Zenon
  <2> QED BY <1>1, <2>1, <2>2, Zenon DEF Elems
<1>11. Distinct(c, n + m)
  BY <1>7, Zenon DEF Distinct
<1> QED BY <1>8, <1>9, <1>10, <1>11, Zenon

-----------------------------------------------------------------------------
(* Numbers in the network *)

Numbers(q)   == [k \in 1..Len(q) |-> q[k].seqno]
NosOf(q)     == Elems(Numbers(q), Len(q))
NosIn(n)     == UNION {NosOf(n[p]) : p \in Paths}
NoneTwice(q) == Distinct(Numbers(q), Len(q))
NoneTwiceIn(n) ==
  /\ \A p \in Paths : NoneTwice(n[p])
  /\ \A p, q \in Paths : p # q => NosOf(n[p]) \intersect NosOf(n[q]) = {}

\* A number is in the network exactly when some path carries it.
LEMMA InNos ==
  ASSUME NEW n, NEW x
  PROVE  x \in NosIn(n) <=> \E p \in Paths : x \in NosOf(n[p])
BY Zenon DEF NosIn

\* A queue of packets without its i-th one.
IsWithout(q, t, i) ==
  /\ Len(q) = Len(t) - 1
  /\ \A j \in 1 .. Len(t) - 1 : q[j] = t[IF j < i THEN j ELSE j + 1]

\* A path that loses one packet loses that number and no other.
LEMMA QueueWithout ==
  ASSUME NEW t \in Seq(DataPackets), NEW i \in 1..Len(t), NEW q \in Seq(DataPackets),
         IsWithout(q, t, i), NoneTwice(t)
  PROVE  NoneTwice(q) /\ NosOf(q) = NosOf(t) \ {t[i].seqno} /\ t[i].seqno \in NosOf(t)
<1>1. Len(t) \in Nat /\ Len(q) = Len(t) - 1
  BY LenProperties, Zenon DEF IsWithout
<1>2. \A j \in 1 .. Len(t) - 1 : Numbers(q)[j] = Numbers(t)[IF j < i THEN j ELSE j + 1]
  <2> SUFFICES ASSUME NEW j \in 1 .. Len(t) - 1
               PROVE  Numbers(q)[j] = Numbers(t)[IF j < i THEN j ELSE j + 1]
    OBVIOUS
  <2> DEFINE k == IF j < i THEN j ELSE j + 1
  <2>1. k \in 1..Len(t) /\ j \in 1..Len(q)
    BY <1>1, SMT
  <2>2. q[j] = t[k]
    BY Zenon DEF IsWithout
  <2> HIDE DEF k
  <2>3. Numbers(q)[j] = q[j].seqno /\ Numbers(t)[k] = t[k].seqno
    BY <2>1, Zenon DEF Numbers
  <2> QED BY <2>2, <2>3, Zenon DEF k
<1>3. Numbers(t)[i] = t[i].seqno
  BY Zenon DEF Numbers
<1>4. /\ Distinct(Numbers(q), Len(t) - 1)
      /\ Elems(Numbers(q), Len(t) - 1) = Elems(Numbers(t), Len(t)) \ {Numbers(t)[i]}
  <2> DEFINE a == Numbers(t)
             b == Numbers(q)
             n == Len(t)
  <2>1. n \in Nat /\ i \in 1..n /\ Distinct(a, n)
    BY <1>1, Zenon DEF NoneTwice
  <2>2. Skips(b, a, i, n)
    BY <1>2, Zenon DEF Skips
  <2> HIDE DEF a, b, n
  <2>3. Distinct(b, n - 1) /\ Elems(b, n - 1) = Elems(a, n) \ {a[i]}
    BY <2>1, <2>2, TakenOut
  <2> QED BY <2>3, Zenon DEF a, b, n
<1>5. Numbers(t)[i] \in Elems(Numbers(t), Len(t))
  BY Zenon DEF Elems
<1> QED BY <1>1, <1>3, <1>4, <1>5, Zenon DEF NoneTwice, NosOf

\* A queue of packets with others put in behind its i-th one.
IsWith(q, t, i, rs) ==
  /\ Len(q) = Len(t) + Len(rs)
  /\ \A j \in 1 .. Len(t) + Len(rs) :
       q[j] = IF j <= i THEN t[j] ELSE IF j <= i + Len(rs) THEN rs[j - i] ELSE t[j - Len(rs)]

\* A path that takes packets of other numbers holds both sets of numbers, each once.
LEMMA QueueWith ==
  ASSUME NEW t \in Seq(DataPackets), NEW rs \in Seq(DataPackets), NEW i \in 0..Len(t),
         NEW q \in Seq(DataPackets), IsWith(q, t, i, rs), NoneTwice(t), NoneTwice(rs),
         NosOf(t) \intersect NosOf(rs) = {}
  PROVE  NoneTwice(q) /\ NosOf(q) = NosOf(t) \union NosOf(rs)
<1> DEFINE N == Len(t)
           M == Len(rs)
<1>1. N \in Nat /\ M \in Nat /\ i \in 0..N /\ Len(q) = N + M
  BY LenProperties, Zenon DEF IsWith
<1>2. \A j \in 1 .. N + M :
        Numbers(q)[j] = IF j <= i THEN Numbers(t)[j]
                        ELSE IF j <= i + M THEN Numbers(rs)[j - i] ELSE Numbers(t)[j - M]
  <2> SUFFICES ASSUME NEW j \in 1 .. N + M
               PROVE  Numbers(q)[j] = IF j <= i THEN Numbers(t)[j]
                                      ELSE IF j <= i + M THEN Numbers(rs)[j - i]
                                      ELSE Numbers(t)[j - M]
    OBVIOUS
  <2>1. q[j] = IF j <= i THEN t[j] ELSE IF j <= i + M THEN rs[j - i] ELSE t[j - M]
    BY Zenon DEF IsWith
  <2>2. Numbers(q)[j] = q[j].seqno
    BY <1>1, Zenon DEF Numbers
  <2>3. CASE j <= i
    <3>1. j \in 1..N
      BY <1>1, <2>3, SMT
    <3>2. Numbers(t)[j] = t[j].seqno
      BY <3>1, Zenon DEF Numbers
    <3> QED BY <2>1, <2>2, <2>3, <3>2, Zenon
  <2>4. CASE ~(j <= i) /\ j <= i + M
    <3>1. j - i \in 1..M
      BY <1>1, <2>4, SMT
    <3>2. Numbers(rs)[j - i] = rs[j - i].seqno
      BY <3>1, Zenon DEF Numbers
    <3> QED BY <2>1, <2>2, <2>4, <3>2, Zenon
  <2>5. CASE ~(j <= i) /\ ~(j <= i + M)
    <3>1. j - M \in 1..N
      BY <1>1, <2>5, SMT
    <3>2. Numbers(t)[j - M] = t[j - M].seqno
      BY <3>1, Zenon DEF Numbers
    <3> QED BY <2>1, <2>2, <2>5, <3>2, Zenon
  <2> QED BY <2>3, <2>4, <2>5, Zenon
<1> HIDE DEF N, M
<1>3. /\ Distinct(Numbers(t), N) /\ Distinct(Numbers(rs), M)
      /\ Elems(Numbers(t), N) \intersect Elems(Numbers(rs), M) = {}
  BY Zenon DEF NoneTwice, NosOf, N, M
<1>4. /\ Distinct(Numbers(q), N + M)
      /\ Elems(Numbers(q), N + M) = Elems(Numbers(t), N) \union Elems(Numbers(rs), M)
  <2> DEFINE a == Numbers(t)
             r == Numbers(rs)
             c == Numbers(q)
  <2>1. Distinct(a, N) /\ Distinct(r, M) /\ Elems(a, N) \intersect Elems(r, M) = {}
    BY <1>3, Zenon
  <2>2. Merged(c, N, M, i, a, r)
    BY <1>2, Zenon DEF Merged
  <2> HIDE DEF a, r, c
  <2>3. Distinct(c, N + M) /\ Elems(c, N + M) = Elems(a, N) \union Elems(r, M)
    <3>1. N \in Nat /\ M \in Nat /\ i \in 0..N
      BY <1>1, Zenon
    <3> QED BY <3>1, <2>1, <2>2, PutIn, SMT
  <2> QED BY <2>3, Zenon DEF a, r, c
<1> QED BY <1>1, <1>4, Zenon DEF NoneTwice, NosOf, N, M

\* A packet leaves the queue of a path.
Leave(less, n, p, i, q) ==
  /\ n \in [Paths -> Seq(DataPackets)] /\ NoneTwiceIn(n) /\ p \in Paths
  /\ i \in 1..Len(n[p]) /\ q \in Seq(DataPackets) /\ IsWithout(q, n[p], i)
  /\ less = [n EXCEPT ![p] = q]

\* A packet that leaves the network takes its number with it.
LEMMA NetWithout ==
  ASSUME NEW less, NEW n, NEW p, NEW i, NEW q, Leave(less, n, p, i, q)
  PROVE  /\ NoneTwiceIn(less) /\ NosIn(less) = NosIn(n) \ {n[p][i].seqno}
         /\ n[p][i].seqno \in NosIn(n)
<1>0. /\ n \in [Paths -> Seq(DataPackets)] /\ NoneTwiceIn(n) /\ p \in Paths
      /\ i \in 1..Len(n[p]) /\ q \in Seq(DataPackets) /\ IsWithout(q, n[p], i)
      /\ less = [n EXCEPT ![p] = q]
  BY Zenon DEF Leave
<1> DEFINE s == n[p][i].seqno
<1>1. less[p] = q /\ \A w \in Paths : w # p => less[w] = n[w]
  BY <1>0, Zenon
<1>2. n[p] \in Seq(DataPackets) /\ NoneTwice(n[p])
  BY <1>0, Zenon DEF NoneTwiceIn
<1>3. NoneTwice(q) /\ NosOf(q) = NosOf(n[p]) \ {s} /\ s \in NosOf(n[p])
  BY <1>0, <1>2, QueueWithout, Zenon
<1> HIDE DEF s
<1>4. \A w \in Paths : NosOf(less[w]) = NosOf(n[w]) \ {s}
  BY <1>0, <1>1, <1>3, Zenon DEF NoneTwiceIn
<1>5. NosIn(less) = NosIn(n) \ {s}
  <2>1. ASSUME NEW x \in NosIn(less)
        PROVE  x \in NosIn(n) \ {s}
    <3>1. PICK w \in Paths : x \in NosOf(less[w])
      BY InNos, Zenon
    <3>2. x \in NosOf(n[w]) /\ x # s
      BY <1>4, <3>1, Zenon
    <3> QED BY <3>2, InNos, Zenon
  <2>2. ASSUME NEW x \in NosIn(n) \ {s}
        PROVE  x \in NosIn(less)
    BY <1>4, InNos, Zenon
  <2> QED BY <2>1, <2>2, Zenon
<1>6. s \in NosIn(n)
  BY <1>0, <1>3, InNos, Zenon
<1>7. NoneTwiceIn(less)
  BY <1>0, <1>1, <1>3, <1>4, Zenon DEF NoneTwiceIn
<1> QED BY <1>5, <1>6, <1>7, Zenon DEF s

\* Two sets of numbers have nothing in common.
Apart(A, B) == A \intersect B = {}

\* Packets that are nowhere else enter the queue of a path.
Enter(more, n, p, i, rs, q) ==
  /\ n \in [Paths -> Seq(DataPackets)] /\ NoneTwiceIn(n) /\ p \in Paths
  /\ rs \in Seq(DataPackets) /\ NoneTwice(rs) /\ Apart(NosIn(n), NosOf(rs))
  /\ i \in 0..Len(n[p]) /\ q \in Seq(DataPackets) /\ IsWith(q, n[p], i, rs)
  /\ more = [n EXCEPT ![p] = q]

\* Packets of new numbers that enter the network add those numbers, each once.
LEMMA NetWith ==
  ASSUME NEW more, NEW n, NEW p, NEW i, NEW rs, NEW q, Enter(more, n, p, i, rs, q)
  PROVE  NoneTwiceIn(more) /\ NosIn(more) = NosIn(n) \union NosOf(rs)
<1>0. /\ n \in [Paths -> Seq(DataPackets)] /\ NoneTwiceIn(n) /\ p \in Paths
      /\ rs \in Seq(DataPackets) /\ NoneTwice(rs) /\ Apart(NosIn(n), NosOf(rs))
      /\ i \in 0..Len(n[p]) /\ q \in Seq(DataPackets) /\ IsWith(q, n[p], i, rs)
      /\ more = [n EXCEPT ![p] = q]
  BY Zenon DEF Enter
<1>1. more[p] = q /\ \A w \in Paths : w # p => more[w] = n[w]
  BY <1>0, Zenon
<1>2. n[p] \in Seq(DataPackets) /\ NoneTwice(n[p])
  BY <1>0, Zenon DEF NoneTwiceIn
<1>3. \A w \in Paths : NosOf(n[w]) \intersect NosOf(rs) = {}
  BY <1>0, InNos, Zenon DEF Apart
<1>4. NoneTwice(q) /\ NosOf(q) = NosOf(n[p]) \union NosOf(rs)
  BY <1>0, <1>2, <1>3, QueueWith, Zenon
<1>5. NosIn(more) = NosIn(n) \union NosOf(rs)
  <2>1. ASSUME NEW x \in NosIn(more)
        PROVE  x \in NosIn(n) \union NosOf(rs)
    BY <1>0, <1>1, <1>4, InNos, Zenon
  <2>2. ASSUME NEW x \in NosIn(n) \union NosOf(rs)
        PROVE  x \in NosIn(more)
    BY <1>0, <1>1, <1>4, InNos, Zenon
  <2> QED BY <2>1, <2>2, Zenon
<1>6. NoneTwiceIn(more)
  BY <1>0, <1>1, <1>3, <1>4, Zenon DEF NoneTwiceIn
<1> QED BY <1>5, <1>6, Zenon

-----------------------------------------------------------------------------
(* Sending *)

\* As many numbers as elements.
LEMMA DistinctCount ==
  ASSUME NEW n \in Nat, NEW a, Distinct(a, n)
  PROVE  IsFiniteSet(Elems(a, n)) /\ Cardinality(Elems(a, n)) = n
<1> DEFINE f == [k \in 1..n |-> a[k]]
           E == Elems(a, n)
<1>1. f \in [1..n -> E] /\ \A k \in 1..n : f[k] = a[k]
  BY Zenon DEF Elems
<1>2. \A x \in E : \E k \in 1..n : f[k] = x
  BY <1>1, Zenon DEF Elems
<1>3. \A j, k \in 1..n : f[j] = f[k] => j = k
  BY <1>1, Zenon DEF Distinct
<1> HIDE DEF f, E
<1>4. DOMAIN f = 1..n
  BY <1>1, Zenon
<1>5. f \in Bijection(1..n, E)
  BY <1>1, <1>2, <1>3, <1>4, Zenon DEF Bijection, Injection, IsInjective, Surjection
<1>6. ExistsBijection(1..n, E)
  BY <1>5, Zenon DEF ExistsBijection
<1>7. IsFiniteSet(1..n) /\ Cardinality(1..n) = n
  <2>1. /\ IsFiniteSet(1..n)
        /\ Cardinality(1..n) = IF 1 > n THEN 0 ELSE n - 1 + 1
    BY FS_Interval, SMT
  <2> QED BY <2>1, SMT
<1>8. IsFiniteSet(E) /\ Cardinality(E) = Cardinality(1..n)
  BY <1>6, <1>7, FS_Bijection, Zenon
<1> QED BY <1>7, <1>8, Zenon DEF E

\* The packets made for the numbers g[1] .. g[k].
LEMMA PacketsMade ==
  ASSUME NEW k \in Nat, NEW g \in [1..k -> Packets], NEW b \in BOOLEAN, Distinct(g, k)
  PROVE  LET q == [j \in 1..k |-> Data(g[j], b)]
         IN  /\ q \in Seq(DataPackets) /\ Len(q) = k
             /\ NoneTwice(q) /\ NosOf(q) = Elems(g, k)
<1> DEFINE q == [j \in 1..k |-> Data(g[j], b)]
<1>1. q \in [1..k -> DataPackets]
  BY DEF Data, DataPackets
<1>2. q \in Seq(DataPackets)
  BY <1>1, FunctionLen
<1>3. Len(q) = k
  BY <1>1, FunctionLen
<1>4. \A j \in 1..k : q[j].seqno = g[j]
  BY Zenon DEF Data
<1> HIDE DEF q
<1>5. \A j \in 1..k : Numbers(q)[j] = g[j]
  BY <1>3, <1>4, Zenon DEF Numbers
<1>6. NoneTwice(q)
  BY <1>3, <1>5, Zenon DEF NoneTwice, Distinct
<1>7. NosOf(q) = Elems(g, k)
  <2>1. ASSUME NEW x \in NosOf(q) PROVE x \in Elems(g, k)
    BY <1>3, <1>5, Zenon DEF NosOf, Elems
  <2>2. ASSUME NEW x \in Elems(g, k) PROVE x \in NosOf(q)
    BY <1>3, <1>5, Zenon DEF NosOf, Elems
  <2> QED BY <2>1, <2>2, Zenon
<1> QED BY <1>2, <1>3, <1>6, <1>7, Zenon DEF q

\* Wherever retransmissions enter a queue, it is the queue with them put in.
LEMMA OvertakeIs ==
  ASSUME NEW t \in Seq(DataPackets), NEW rs \in Seq(DataPackets), NEW q \in Overtake(t, rs)
  PROVE  q \in Seq(DataPackets) /\ \E i \in 0..Len(t) : IsWith(q, t, i, rs)
<1>0. q \in Seq(DataPackets)
  BY OvertakeType
<1>1. Len(t) \in Nat /\ Len(rs) \in Nat
  BY LenProperties
<1>2. CASE rs = <<>>
  <2>1. q = t /\ Len(rs) = 0
    BY <1>2 DEF Overtake
  <2>2. \A j \in 1 .. Len(t) + 0 : j <= Len(t)
    BY <1>1, SMT
  <2>3. Len(t) + 0 = Len(t) /\ Len(t) \in 0..Len(t)
    BY <1>1, SMT
  <2>4. IsWith(q, t, Len(t), rs)
    BY <2>1, <2>2, <2>3, Zenon DEF IsWith
  <2> QED BY <1>0, <2>3, <2>4, Zenon
<1>3. CASE rs # <<>>
  <2>1. PICK i \in 0..Len(t) : q = SubSeq(t, 1, i) \o rs \o SubSeq(t, i + 1, Len(t))
    BY <1>3 DEF Overtake
  <2> DEFINE a == SubSeq(t, 1, i)
             z == SubSeq(t, i + 1, Len(t))
  <2>2. a \in Seq(DataPackets) /\ Len(a) = i /\ \A j \in 1..i : a[j] = t[j]
    <3>1. \A j \in 1..i : t[j] \in DataPackets
      BY <1>1, ElementOfSeq
    <3>2. /\ a \in Seq(DataPackets) /\ Len(a) = IF 1 <= i THEN i - 1 + 1 ELSE 0
          /\ \A j \in 1 .. i - 1 + 1 : a[j] = t[1 + j - 1]
      BY <3>1, SubSeqProperties
    <3> HIDE DEF a
    <3> QED BY <3>2, SMT
  <2>3. /\ z \in Seq(DataPackets) /\ Len(z) = Len(t) - i
        /\ \A j \in 1 .. Len(t) - i : z[j] = t[i + j]
    <3>1. \A j \in i + 1 .. Len(t) : t[j] \in DataPackets
      BY <1>1, ElementOfSeq
    <3>2. /\ z \in Seq(DataPackets)
          /\ Len(z) = IF i + 1 <= Len(t) THEN Len(t) - (i + 1) + 1 ELSE 0
          /\ \A j \in 1 .. Len(t) - (i + 1) + 1 : z[j] = t[i + 1 + j - 1]
      BY <1>1, <3>1, SubSeqProperties
    <3> HIDE DEF z
    <3> QED BY <1>1, <3>2, SMT
  <2>4. q = (a \o rs) \o z
    BY <2>1, Zenon
  <2> HIDE DEF a, z
  <2> DEFINE ar == a \o rs
  <2>5. /\ ar \in Seq(DataPackets) /\ Len(ar) = i + Len(rs)
        /\ \A j \in 1 .. i + Len(rs) : ar[j] = IF j <= i THEN a[j] ELSE rs[j - i]
    BY <2>2, ConcatProperties
  <2>6. /\ Len(ar \o z) = Len(ar) + Len(z)
        /\ \A j \in 1 .. Len(ar) + Len(z) :
             (ar \o z)[j] = IF j <= Len(ar) THEN ar[j] ELSE z[j - Len(ar)]
    BY <2>3, <2>5, ConcatProperties
  <2> HIDE DEF ar
  <2> DEFINE y == ar \o z
             N == Len(t)
             M == Len(rs)
  <2>7. q = y
    BY <2>4, Zenon DEF ar
  <2>8. /\ Len(y) = (i + M) + (N - i) /\ N \in Nat /\ M \in Nat /\ i \in 0..N
        /\ \A j \in 1 .. (i + M) + (N - i) :
             y[j] = IF j <= i + M THEN ar[j] ELSE z[j - (i + M)]
    BY <1>1, <2>3, <2>5, <2>6, Zenon
  <2>9. /\ \A j \in 1 .. i + M : ar[j] = IF j <= i THEN a[j] ELSE rs[j - i]
        /\ \A j \in 1 .. i : a[j] = t[j]
        /\ \A j \in 1 .. N - i : z[j] = t[i + j]
    BY <2>2, <2>3, <2>5, Zenon
  <2> HIDE DEF y, N, M
  <2>10. Len(y) = N + M
    BY <2>8, SMT
  <2>11. ASSUME NEW j \in 1 .. N + M
         PROVE  y[j] = IF j <= i THEN t[j] ELSE IF j <= i + M THEN rs[j - i] ELSE t[j - M]
    <3>1. CASE j <= i
      <4>1. j \in 1..i /\ j \in 1 .. i + M /\ j \in 1 .. (i + M) + (N - i) /\ j <= i + M
        BY <2>8, <3>1, SMT
      <4> QED BY <2>8, <2>9, <3>1, <4>1, Zenon
    <3>2. CASE ~(j <= i) /\ j <= i + M
      <4>1. j \in 1 .. i + M /\ j \in 1 .. (i + M) + (N - i)
        BY <2>8, <3>2, SMT
      <4> QED BY <2>8, <2>9, <3>2, <4>1, Zenon
    <3>3. CASE ~(j <= i) /\ ~(j <= i + M)
      <4>1. /\ j \in 1 .. (i + M) + (N - i) /\ j - (i + M) \in 1 .. N - i
            /\ i + (j - (i + M)) = j - M
        BY <2>8, <3>3, SMT
      <4>2. y[j] = t[i + (j - (i + M))]
        BY <2>8, <2>9, <3>3, <4>1, Zenon
      <4> QED BY <3>3, <4>1, <4>2, Zenon
    <3> QED BY <3>1, <3>2, <3>3, Zenon
  <2>12. IsWith(q, t, i, rs)
    BY <2>7, <2>10, <2>11, Zenon DEF IsWith, N, M
  <2> QED BY <1>0, <2>12, Zenon
<1> QED BY <1>2, <1>3, Zenon

\* Appending is inserting at the end.
LEMMA ConcatIs ==
  ASSUME NEW t \in Seq(DataPackets), NEW new \in Seq(DataPackets)
  PROVE  /\ t \o new \in Seq(DataPackets) /\ Len(t) \in 0..Len(t)
         /\ IsWith(t \o new, t, Len(t), new)
<1>1. /\ t \o new \in Seq(DataPackets) /\ Len(t \o new) = Len(t) + Len(new)
      /\ \A j \in 1 .. Len(t) + Len(new) :
           (t \o new)[j] = IF j <= Len(t) THEN t[j] ELSE new[j - Len(t)]
      /\ Len(t) \in Nat /\ Len(new) \in Nat
  BY ConcatProperties, LenProperties
<1>2. \A j \in 1 .. Len(t) + Len(new) : j <= Len(t) + Len(new)
  BY <1>1, SMT
<1>3. Len(t) \in 0..Len(t)
  BY <1>1, SMT
<1> QED BY <1>1, <1>2, <1>3, Zenon DEF IsWith

\* One event sends the retransmissions rs and the new packets `new', in the
\* network n.
TransmitIn(n, p, rs, new) ==
  {[[n EXCEPT ![p] = q] EXCEPT ![NewPathid(p)] = @ \o new] : q \in Overtake(n[p], rs)}

CanTransmit(n, p, rs, new) ==
  /\ n \in [Paths -> Seq(DataPackets)] /\ NoneTwiceIn(n) /\ p \in Paths
  /\ rs \in Seq(DataPackets) /\ NoneTwice(rs) /\ Apart(NosIn(n), NosOf(rs))
  /\ new \in Seq(DataPackets) /\ NoneTwice(new)
  /\ Apart(NosIn(n) \union NosOf(rs), NosOf(new))

\* Transmission of a burst puts every number of it in the network once.
LEMMA TransmitPlaces ==
  ASSUME NEW n, NEW p, NEW rs, NEW new, CanTransmit(n, p, rs, new),
         NEW after \in TransmitIn(n, p, rs, new)
  PROVE  /\ NoneTwiceIn(after)
         /\ NosIn(after) = (NosIn(n) \union NosOf(rs)) \union NosOf(new)
<1>0. /\ n \in [Paths -> Seq(DataPackets)] /\ NoneTwiceIn(n) /\ p \in Paths
      /\ rs \in Seq(DataPackets) /\ NoneTwice(rs) /\ Apart(NosIn(n), NosOf(rs))
      /\ new \in Seq(DataPackets) /\ NoneTwice(new)
      /\ Apart(NosIn(n) \union NosOf(rs), NosOf(new))
  BY Zenon DEF CanTransmit
<1>1. PICK q \in Overtake(n[p], rs) :
        after = [[n EXCEPT ![p] = q] EXCEPT ![NewPathid(p)] = @ \o new]
  BY Zenon DEF TransmitIn
<1>2. n[p] \in Seq(DataPackets) /\ NewPathid(p) \in Paths
  BY <1>0, NewPathidType, Zenon
<1>3. q \in Seq(DataPackets) /\ \E i \in 0..Len(n[p]) : IsWith(q, n[p], i, rs)
  BY <1>0, <1>1, <1>2, OvertakeIs, Zenon
<1> DEFINE mid == [n EXCEPT ![p] = q]
<1>4. NoneTwiceIn(mid) /\ NosIn(mid) = NosIn(n) \union NosOf(rs)
  <2>1. PICK i \in 0..Len(n[p]) : IsWith(q, n[p], i, rs)
    BY <1>3, Zenon
  <2>2. q \in Seq(DataPackets) /\ mid = [n EXCEPT ![p] = q]
    BY <1>3, Zenon
  <2> HIDE DEF mid
  <2>3. Enter(mid, n, p, i, rs, q)
    BY <1>0, <2>1, <2>2, Zenon DEF Enter
  <2> QED BY <2>3, NetWith
<1>5. mid \in [Paths -> Seq(DataPackets)]
  BY <1>0, <1>3, Zenon
<1>6. after = [mid EXCEPT ![NewPathid(p)] = mid[NewPathid(p)] \o new]
  BY <1>1, Zenon
<1> HIDE DEF mid
<1> DEFINE t == mid[NewPathid(p)]
<1>7. t \in Seq(DataPackets)
  BY <1>2, <1>5, Zenon
<1>8. /\ t \o new \in Seq(DataPackets) /\ Len(t) \in 0..Len(t)
      /\ IsWith(t \o new, t, Len(t), new)
  <2> HIDE DEF t
  <2> QED BY <1>0, <1>7, ConcatIs, Zenon
<1>9. Apart(NosIn(mid), NosOf(new))
  BY <1>0, <1>4, Zenon
<1>10. NoneTwiceIn(after) /\ NosIn(after) = NosIn(mid) \union NosOf(new)
  <2> DEFINE w == NewPathid(p)
             i == Len(t)
             q2 == t \o new
  <2>1. /\ w \in Paths /\ i \in 0..Len(mid[w]) /\ q2 \in Seq(DataPackets)
        /\ IsWith(q2, mid[w], i, new) /\ after = [mid EXCEPT ![w] = q2]
    BY <1>2, <1>6, <1>8, Zenon
  <2> HIDE DEF w, i, q2
  <2>2. Enter(after, mid, w, i, new, q2)
    BY <1>0, <1>4, <1>5, <1>9, <2>1, Zenon DEF Enter
  <2> QED BY <2>2, NetWith
<1> QED BY <1>4, <1>10, Zenon

\* What an event that calls send_packet() `burst' times does to the places of
\* packets: it sends again those of F and sends k new ones.
BurstSent(burst, rtxq, flight) ==
  \E F \in SUBSET rtxq, k \in Nat :
    /\ IsFiniteSet(F) /\ Cardinality(F) + k = burst
    /\ highest_sent' = highest_sent + k /\ flight_size' = Plus(flight, k)
    /\ rtx_queue' = rtxq \ F
    /\ NoneTwiceIn(net')
    /\ NosIn(net') = (NosIn(net) \union F) \union (highest_sent + 1 .. highest_sent + k)

\* send_packet()s of a burst take numbers from the retransmission queue, or new ones,
\* and put each in the network once.
LEMMA SendBurstPlaces ==
  ASSUME SendTypeOK, NEW rtxq \in SUBSET Packets,
         NEW burst \in Nat, burst <= Unsent(rtxq), NEW flight \in 0..UintMax,
         NEW once \in BOOLEAN, NEW first \in BOOLEAN, NEW choice \in Paths,
         NoneTwiceIn(net), NosIn(net) \subseteq 1..highest_sent,
         rtxq \subseteq 1..highest_sent, NosIn(net) \intersect rtxq = {},
         SendBurst(burst, rtxq, flight, once, first, choice)
  PROVE  BurstSent(burst, rtxq, flight)
<1> DEFINE again == Smaller(burst, Cardinality(rtxq))
           fresh == burst - again
           new   == [j \in 1..fresh |-> Data(highest_sent + j, FALSE)]
<1>1. Cardinality(rtxq) \in Nat
  BY PacketSets
<1>2. /\ again \in Nat /\ fresh \in Nat /\ again + fresh = burst
      /\ highest_sent \in Nat /\ highest_sent + fresh \in 0..NPackets
      /\ burst = 0 => again = 0 /\ fresh = 0
  BY <1>1, SizeAssumption DEF Smaller, Unsent, SendTypeOK
<1> HIDE DEF again, fresh
<1>3. highest_sent' = highest_sent + fresh /\ flight_size' = Plus(flight, fresh)
  BY Zenon DEF SendBurst, again, fresh
<1> DEFINE N == highest_sent + 1 .. highest_sent + fresh
<1>4. CASE burst = 0
  <2>1. rtx_queue' = rtxq /\ net' = net
    BY <1>4, Zenon DEF SendBurst
  <2>2. IsFiniteSet({}) /\ Cardinality({}) = 0
    BY FS_EmptySet, Zenon
  <2>3. N = {} /\ Cardinality({}) + fresh = burst
    BY <1>2, <1>4, <2>2, SMT
  <2>4. NoneTwiceIn(net') /\ NosIn(net') = (NosIn(net) \union {}) \union N
    BY <2>1, <2>3, Zenon
  <2>5. {} \in SUBSET rtxq /\ rtx_queue' = rtxq \ {}
    BY <2>1, Zenon
  <2> QED BY <1>2, <1>3, <2>2, <2>3, <2>4, <2>5, Zenon DEF BurstSent
<1>5. CASE burst # 0
  <2>1. PICK f \in Lowest(rtxq, again), r \in choose_route(once, first, choice) :
          /\ rtx_queue' = rtxq \ {f[j] : j \in 1..again}
          /\ net' \in Transmit(r.path, [j \in 1..again |-> Data(f[j], TRUE)], new)
    BY <1>5, Zenon DEF SendBurst, again, fresh
  <2>2. r.path \in Paths
    BY RouteType
  <2> DEFINE rs == [j \in 1..again |-> Data(f[j], TRUE)]
             F  == Elems(f, again)
  <2>3. f \in [1..again -> rtxq] /\ \A i, j \in 1..again : i < j => f[i] < f[j]
    BY Zenon DEF Lowest
  <2>4. f \in [1..again -> Packets] /\ F \in SUBSET rtxq
    BY <2>3, Zenon DEF Elems
  <2>5. Distinct(f, again)
    <3>1. \A j \in 1..again : f[j] \in Int
      BY <2>4, SizeAssumption DEF Packets
    <3>2. ASSUME NEW i \in 1..again, NEW j \in 1..again, f[i] = f[j]
          PROVE  i = j
      <4>1. ~(i < j) /\ ~(j < i)
        BY <2>3, <3>1, <3>2, SMT
      <4> QED BY <4>1, <1>2, SMT
    <3> QED BY <3>2, Zenon DEF Distinct
  <2>6. rs \in Seq(DataPackets) /\ NoneTwice(rs) /\ NosOf(rs) = F
    BY <1>2, <2>4, <2>5, PacketsMade, Zenon
  <2>7. new \in Seq(DataPackets) /\ NoneTwice(new) /\ NosOf(new) = N
    <3> DEFINE g == [j \in 1..fresh |-> highest_sent + j]
    <3>1. g \in [1..fresh -> Packets]
      BY <1>2, SizeAssumption DEF Packets
    <3>2. Distinct(g, fresh)
      BY <1>2, SMT DEF Distinct
    <3>3. \A j \in 1..fresh : g[j] = highest_sent + j
      BY Zenon
    <3>4. Elems(g, fresh) = N
      <4>1. ASSUME NEW x \in Elems(g, fresh) PROVE x \in N
        <5>1. PICK j \in 1..fresh : x = highest_sent + j
          BY Zenon DEF Elems
        <5> QED BY <1>2, <5>1, SMT
      <4>2. ASSUME NEW x \in N PROVE x \in Elems(g, fresh)
        <5>1. x - highest_sent \in 1..fresh /\ x = highest_sent + (x - highest_sent)
          BY <1>2, SMT
        <5> QED BY <3>3, <5>1, Zenon DEF Elems
      <4> QED BY <4>1, <4>2, Zenon
    <3> HIDE DEF g
    <3>5. new = [j \in 1..fresh |-> Data(g[j], FALSE)]
      BY <3>3, Zenon
    <3> DEFINE made == [j \in 1..fresh |-> Data(g[j], FALSE)]
    <3>6. made \in Seq(DataPackets) /\ NoneTwice(made) /\ NosOf(made) = Elems(g, fresh)
      BY <1>2, <3>1, <3>2, PacketsMade, Zenon
    <3> QED BY <3>4, <3>5, <3>6, Zenon
  <2>8. \A x \in 1..highest_sent : x \notin N
    BY <1>2, SMT
  <2>9. IsFiniteSet(F) /\ Cardinality(F) = again
    BY <1>2, <2>5, DistinctCount, Zenon
  <2> HIDE DEF F, N, new, rs
  <2>10. /\ Apart(NosIn(net), NosOf(rs))
         /\ Apart(NosIn(net) \union NosOf(rs), NosOf(new))
    BY <2>4, <2>6, <2>7, <2>8, Zenon DEF Apart
  <2>11. PICK n : n = net
    BY Zenon
  <2>12. net' \in TransmitIn(n, r.path, rs, new) /\ rtx_queue' = rtxq \ F
    BY <2>1, <2>11, Zenon DEF rs, F, Elems, Transmit, TransmitIn
  <2>13. CanTransmit(n, r.path, rs, new)
    BY <2>2, <2>6, <2>7, <2>10, <2>11, Zenon DEF CanTransmit, SendTypeOK
  <2>14. PICK after \in TransmitIn(n, r.path, rs, new) : net' = after
    BY <2>12, Zenon
  <2>17. /\ NoneTwiceIn(after)
         /\ NosIn(after) = (NosIn(n) \union NosOf(rs)) \union NosOf(new)
    BY <2>13, TransmitPlaces
  <2>15. NoneTwiceIn(net') /\ NosIn(net') = (NosIn(net) \union F) \union N
    BY <2>6, <2>7, <2>11, <2>14, <2>17, Zenon
  <2>16. Cardinality(F) + fresh = burst
    BY <1>2, <2>9, Zenon
  <2> QED BY <1>2, <1>3, <2>4, <2>9, <2>12, <2>15, <2>16, Zenon DEF BurstSent, N
<1> QED BY <1>4, <1>5, Zenon

-----------------------------------------------------------------------------
(* The books: where packets are, and what is counted *)

\* The packets 1..h that were sent are in the network, headers, NACKed, waiting
\* to be sent again, or with the sink; each of them in one place.
Placed(N, H, K, R, A, h) ==
  /\ (((N \union H) \union K) \union R) \union A = 1..h
  /\ \A x \in N : x \notin H /\ x \notin K /\ x \notin R /\ x \notin A
  /\ \A x \in H : x \notin K /\ x \notin R /\ x \notin A
  /\ \A x \in K : x \notin R /\ x \notin A
  /\ \A x \in R : x \notin A

\* Of the packets with the sink, the ACKs of those of C are under way.
InFlightOf(N, H, K, R, C) == (((N \union H) \union K) \union R) \union C
Books(N, H, K, R, A, C, h, flight, credit) ==
  /\ h \in 0..NPackets
  /\ Placed(N, H, K, R, A, h) /\ C \subseteq A
  /\ flight = Cardinality(InFlightOf(N, H, K, R, C))
  /\ credit = Cardinality(N \union H)

\* All that is in flight is finite and part of what was sent.
LEMMA InFlightIsSent ==
  ASSUME NEW N, NEW H, NEW K, NEW R, NEW A, NEW C, NEW h, NEW flight, NEW credit,
         Books(N, H, K, R, A, C, h, flight, credit)
  PROVE  /\ h \in Nat /\ h <= NPackets /\ A \subseteq 1..h
         /\ InFlightOf(N, H, K, R, C) \subseteq 1..h /\ N \union H \subseteq 1..h
         /\ IsFiniteSet(InFlightOf(N, H, K, R, C)) /\ IsFiniteSet(N \union H)
         /\ flight \in 0..NPackets /\ credit \in Nat
<1>1. h \in 0..NPackets
  BY Zenon DEF Books
<1>2. h \in Nat /\ h <= NPackets
  BY <1>1, SizeAssumption, SMT
<1>3. /\ (((N \union H) \union K) \union R) \union A = 1..h /\ C \subseteq A
      /\ flight = Cardinality(InFlightOf(N, H, K, R, C)) /\ credit = Cardinality(N \union H)
  BY Zenon DEF Books, Placed
<1>4. /\ InFlightOf(N, H, K, R, C) \in SUBSET (1..h) /\ N \union H \in SUBSET (1..h)
      /\ A \subseteq 1..h
  BY <1>3, Zenon DEF InFlightOf
<1>5. IsFiniteSet(1..h) /\ Cardinality(1..h) = h
  <2>1. IsFiniteSet(1..h) /\ Cardinality(1..h) = IF 1 > h THEN 0 ELSE h - 1 + 1
    BY <1>2, FS_Interval, SMT
  <2> QED BY <1>2, <2>1, SMT
<1>6. /\ IsFiniteSet(InFlightOf(N, H, K, R, C)) /\ IsFiniteSet(N \union H)
      /\ Cardinality(InFlightOf(N, H, K, R, C)) <= Cardinality(1..h)
  BY <1>4, <1>5, FS_Subset, Zenon
<1>7. Cardinality(InFlightOf(N, H, K, R, C)) \in Nat /\ Cardinality(N \union H) \in Nat
  BY <1>6, FS_CardinalityType, Zenon
<1>8. flight \in 0..NPackets
  BY <1>2, <1>3, <1>5, <1>6, <1>7, SizeAssumption, SMT
<1> QED BY <1>2, <1>3, <1>4, <1>6, <1>7, <1>8, Zenon

\* One element less.
LEMMA OneLess ==
  ASSUME NEW S, IsFiniteSet(S), NEW x \in S
  PROVE  Cardinality(S \ {x}) = Cardinality(S) - 1
BY FS_RemoveElement

\* A full packet arrives, and its ACK is sent.
LEMMA BooksData ==
  ASSUME NEW N, NEW H, NEW K, NEW R, NEW A, NEW C, NEW h, NEW flight, NEW credit,
         Books(N, H, K, R, A, C, h, flight, credit), NEW s \in N
  PROVE  Books(N \ {s}, H, K, R, A \union {s}, C \union {s}, h, flight, credit - 1)
<1>1. Placed(N, H, K, R, A, h) /\ C \subseteq A /\ h \in 0..NPackets
  BY Zenon DEF Books
<1>2. Placed(N \ {s}, H, K, R, A \union {s}, h)
  BY <1>1, Zenon DEF Placed
<1>3. InFlightOf(N \ {s}, H, K, R, C \union {s}) = InFlightOf(N, H, K, R, C)
  BY Zenon DEF InFlightOf
<1>4. (N \ {s}) \union H = (N \union H) \ {s}
  BY <1>1, Zenon DEF Placed
<1>5. Cardinality((N \union H) \ {s}) = Cardinality(N \union H) - 1
  <2>1. IsFiniteSet(N \union H) /\ s \in N \union H
    BY InFlightIsSent, Zenon
  <2> QED BY <2>1, OneLess, Zenon
<1> QED BY <1>1, <1>2, <1>3, <1>4, <1>5, Zenon DEF Books

\* A header arrives, and its NACK is sent.
LEMMA BooksHeader ==
  ASSUME NEW N, NEW H, NEW K, NEW R, NEW A, NEW C, NEW h, NEW flight, NEW credit,
         Books(N, H, K, R, A, C, h, flight, credit), NEW s \in H
  PROVE  Books(N, H \ {s}, K \union {s}, R, A, C, h, flight, credit - 1)
<1>1. Placed(N, H, K, R, A, h) /\ C \subseteq A /\ h \in 0..NPackets
  BY Zenon DEF Books
<1>2. Placed(N, H \ {s}, K \union {s}, R, A, h)
  BY <1>1, Zenon DEF Placed
<1>3. InFlightOf(N, H \ {s}, K \union {s}, R, C) = InFlightOf(N, H, K, R, C)
  BY Zenon DEF InFlightOf
<1>4. N \union (H \ {s}) = (N \union H) \ {s}
  BY <1>1, Zenon DEF Placed
<1>5. Cardinality((N \union H) \ {s}) = Cardinality(N \union H) - 1
  <2>1. IsFiniteSet(N \union H) /\ s \in N \union H
    BY InFlightIsSent, Zenon
  <2> QED BY <2>1, OneLess, Zenon
<1> QED BY <1>1, <1>2, <1>3, <1>4, <1>5, Zenon DEF Books

\* A NACK arrives, and its packet waits to be sent again.
LEMMA BooksNack ==
  ASSUME NEW N, NEW H, NEW K, NEW R, NEW A, NEW C, NEW h, NEW flight, NEW credit,
         Books(N, H, K, R, A, C, h, flight, credit), NEW s \in K
  PROVE  Books(N, H, K \ {s}, R \union {s}, A, C, h, flight, credit)
<1>1. Placed(N, H, K, R, A, h) /\ C \subseteq A /\ h \in 0..NPackets
  BY Zenon DEF Books
<1>2. Placed(N, H, K \ {s}, R \union {s}, A, h)
  BY <1>1, Zenon DEF Placed
<1>3. InFlightOf(N, H, K \ {s}, R \union {s}, C) = InFlightOf(N, H, K, R, C)
  BY Zenon DEF InFlightOf
<1> QED BY <1>1, <1>2, <1>3, Zenon DEF Books

\* An ACK arrives.
LEMMA BooksAck ==
  ASSUME NEW N, NEW H, NEW K, NEW R, NEW A, NEW C, NEW h, NEW flight, NEW credit,
         Books(N, H, K, R, A, C, h, flight, credit), NEW s \in C
  PROVE  flight > 0 /\ Books(N, H, K, R, A, C \ {s}, h, flight - 1, credit)
<1>1. Placed(N, H, K, R, A, h) /\ C \subseteq A /\ h \in 0..NPackets
  BY Zenon DEF Books
<1>2. InFlightOf(N, H, K, R, C \ {s}) = InFlightOf(N, H, K, R, C) \ {s}
  <2>1. s \notin ((N \union H) \union K) \union R
    BY <1>1, Zenon DEF Placed
  <2> QED BY <2>1, Zenon DEF InFlightOf
<1> DEFINE I == InFlightOf(N, H, K, R, C)
<1>3. IsFiniteSet(I) /\ s \in I /\ flight = Cardinality(I) /\ flight \in 0..NPackets
  <2>1. s \in I
    BY Zenon DEF InFlightOf
  <2>2. flight = Cardinality(I)
    BY Zenon DEF Books
  <2>3. IsFiniteSet(I) /\ flight \in 0..NPackets
    <3> HIDE DEF I
    <3>1. IsFiniteSet(InFlightOf(N, H, K, R, C)) /\ flight \in 0..NPackets
      BY InFlightIsSent, Zenon
    <3> QED BY <3>1, Zenon DEF I
  <2> QED BY <2>1, <2>2, <2>3, Zenon
<1>4. Cardinality(I \ {s}) = flight - 1 /\ flight # 0
  <2> HIDE DEF I
  <2>1. flight # 0
    BY <1>3, FS_EmptySet, Zenon
  <2> QED BY <1>3, <2>1, OneLess, Zenon
<1>5. flight > 0
  BY <1>3, <1>4, SizeAssumption, SMT
<1> QED BY <1>1, <1>2, <1>4, <1>5, Zenon DEF Books

\* A packet is trimmed.
LEMMA BooksTrim ==
  ASSUME NEW N, NEW H, NEW K, NEW R, NEW A, NEW C, NEW h, NEW flight, NEW credit,
         Books(N, H, K, R, A, C, h, flight, credit), NEW s \in N
  PROVE  Books(N \ {s}, H \union {s}, K, R, A, C, h, flight, credit)
<1>1. Placed(N, H, K, R, A, h) /\ C \subseteq A /\ h \in 0..NPackets
  BY Zenon DEF Books
<1>2. Placed(N \ {s}, H \union {s}, K, R, A, h)
  BY <1>1, Zenon DEF Placed
<1>3. /\ InFlightOf(N \ {s}, H \union {s}, K, R, C) = InFlightOf(N, H, K, R, C)
      /\ (N \ {s}) \union (H \union {s}) = N \union H
  BY Zenon DEF InFlightOf
<1> QED BY <1>1, <1>2, <1>3, Zenon DEF Books

\* Cardinality of a union of two sets that share nothing.
LEMMA DisjointSum ==
  ASSUME NEW S, NEW T, IsFiniteSet(S), IsFiniteSet(T), S \intersect T = {}
  PROVE  /\ IsFiniteSet(S \union T) /\ Cardinality(S) \in Nat /\ Cardinality(T) \in Nat
         /\ Cardinality(S \union T) = Cardinality(S) + Cardinality(T)
<1>1. /\ IsFiniteSet(S \union T)
      /\ Cardinality(S \union T) = Cardinality(S) + Cardinality(T) - Cardinality(S \intersect T)
  BY FS_Union, Zenon
<1>2. Cardinality(S \intersect T) = 0
  BY FS_EmptySet, Zenon
<1>3. Cardinality(S) \in Nat /\ Cardinality(T) \in Nat
  BY FS_CardinalityType, Zenon
<1> QED BY <1>1, <1>2, <1>3, SMT

\* The numbers of the next k packets.
LEMMA NextNumbers ==
  ASSUME NEW h \in Nat, NEW k \in Nat
  PROVE  /\ IsFiniteSet(h + 1 .. h + k) /\ Cardinality(h + 1 .. h + k) = k
         /\ (1..h) \union (h + 1 .. h + k) = 1 .. h + k
         /\ \A x \in h + 1 .. h + k : x \notin 1..h
<1>1. /\ IsFiniteSet(h + 1 .. h + k)
      /\ Cardinality(h + 1 .. h + k) = IF h + 1 > h + k THEN 0 ELSE h + k - (h + 1) + 1
  BY FS_Interval, SMT
<1>2. Cardinality(h + 1 .. h + k) = k
  BY <1>1, SMT
<1>3. /\ (1..h) \union (h + 1 .. h + k) = 1 .. h + k
      /\ \A x \in h + 1 .. h + k : x \notin 1..h
  BY SMT
<1> QED BY <1>1, <1>2, <1>3, Zenon

\* Packets are sent: those of F again, and k new ones.
LEMMA BooksSend ==
  ASSUME NEW N, NEW H, NEW K, NEW R, NEW A, NEW C, NEW h, NEW flight, NEW credit,
         Books(N, H, K, R, A, C, h, flight, credit),
         NEW F \in SUBSET R, IsFiniteSet(F), NEW k \in Nat, h + k <= NPackets
  PROVE  /\ Books((N \union F) \union (h + 1 .. h + k), H, K, R \ F, A, C, h + k,
                  Plus(flight, k), credit + Cardinality(F) + k)
         /\ Plus(flight, k) = flight + k /\ Cardinality(F) \in Nat
<1> DEFINE W  == h + 1 .. h + k
           N2 == (N \union F) \union W
           I  == InFlightOf(N, H, K, R, C)
<1>1. Placed(N, H, K, R, A, h) /\ C \subseteq A
  BY Zenon DEF Books
<1>2. /\ h \in Nat /\ flight \in 0..NPackets /\ credit \in Nat
      /\ IsFiniteSet(I) /\ IsFiniteSet(N \union H)
  BY InFlightIsSent, Zenon
<1>3. flight = Cardinality(I) /\ credit = Cardinality(N \union H)
  BY Zenon DEF Books
<1>4. /\ IsFiniteSet(W) /\ Cardinality(W) = k /\ (1..h) \union W = 1 .. h + k
      /\ \A x \in W : x \notin 1..h
  BY <1>2, NextNumbers, Zenon
<1> HIDE DEF W, I
<1>5. (((N \union H) \union K) \union R) \union A = 1..h
  BY <1>1, Zenon DEF Placed
<1>6. Placed(N2, H, K, R \ F, A, h + k)
  <2>1. (((N2 \union H) \union K) \union (R \ F)) \union A = (1..h) \union W
    BY <1>5, Zenon
  <2>2. \A x \in W : x \notin N /\ x \notin H /\ x \notin K /\ x \notin R /\ x \notin A
    BY <1>4, <1>5, Zenon
  <2>3. \A x \in N2 : x \notin H /\ x \notin K /\ x \notin R \ F /\ x \notin A
    BY <1>1, <2>2, Zenon DEF Placed
  <2>4. \A x \in H : x \notin K /\ x \notin R \ F /\ x \notin A
    BY <1>1, Zenon DEF Placed
  <2>5. \A x \in K : x \notin R \ F /\ x \notin A
    BY <1>1, Zenon DEF Placed
  <2>6. \A x \in R \ F : x \notin A
    BY <1>1, Zenon DEF Placed
  <2> HIDE DEF N2
  <2> QED BY <1>4, <2>1, <2>3, <2>4, <2>5, <2>6, Zenon DEF Placed
<1>7. /\ InFlightOf(N2, H, K, R \ F, C) = I \union W
      /\ N2 \union H = ((N \union H) \union F) \union W
  BY Zenon DEF InFlightOf, I
<1>8. I \intersect W = {} /\ (N \union H) \intersect F = {} /\ ((N \union H) \union F) \intersect W = {}
  <2>1. I \subseteq 1..h /\ (N \union H) \union F \subseteq 1..h
    BY <1>1, <1>5, Zenon DEF I, InFlightOf
  <2>2. (N \union H) \intersect F = {}
    BY <1>1, Zenon DEF Placed
  <2> QED BY <1>4, <2>1, <2>2, Zenon
<1>9. Cardinality(I \union W) = flight + k
  BY <1>2, <1>3, <1>4, <1>8, DisjointSum, Zenon
<1>10. /\ IsFiniteSet((N \union H) \union F) /\ Cardinality(F) \in Nat
       /\ Cardinality((N \union H) \union F) = credit + Cardinality(F)
  BY <1>2, <1>3, <1>8, DisjointSum, Zenon
<1>11. Cardinality(((N \union H) \union F) \union W) = credit + Cardinality(F) + k
  BY <1>4, <1>8, <1>10, DisjointSum, Zenon
<1>12. h + k \in 0..NPackets
  BY <1>2, SizeAssumption, SMT
<1>13. flight + k = Cardinality(InFlightOf(N2, H, K, R \ F, C))
       /\ credit + Cardinality(F) + k = Cardinality(N2 \union H)
  BY <1>7, <1>9, <1>11, Zenon
<1> HIDE DEF N2
<1>14. Books(N2, H, K, R \ F, A, C, h + k, flight + k, credit + Cardinality(F) + k)
  BY <1>1, <1>6, <1>12, <1>13, Zenon DEF Books
<1>15. flight + k \in 0..NPackets
  <2> DEFINE G == R \ F
             hh == h + k
             ff == flight + k
             cc == credit + Cardinality(F) + k
  <2>1. Books(N2, H, K, G, A, C, hh, ff, cc)
    BY <1>14, Zenon
  <2> HIDE DEF G, hh, ff, cc
  <2>2. ff \in 0..NPackets
    BY <2>1, InFlightIsSent, Zenon
  <2> QED BY <2>2, Zenon DEF ff
<1>16. Plus(flight, k) = flight + k
  BY <1>2, <1>15, SizeAssumption, SMT DEF Plus
<1> QED BY <1>10, <1>14, <1>16, Zenon DEF N2, W

-----------------------------------------------------------------------------
(* The inductive invariant *)

\* At most one message is about a packet, and the packets they are about.
OneEach(S) == \A a, b \in S : a.ackno = b.ackno => a = b
Acknos(S)  == {m.ackno : m \in S}

HdrNos  == Elems(hdr, Len(hdr))
Arrived == (1..cumulative_ack) \union received

\* What the first window and the pulls spent allow to be in transit.
Credit == IF started THEN InitialWindow + last_pull - pull_no ELSE 0

\* Every packet that was sent is in one place, once.
PlaceBooks ==
  /\ NoneTwiceIn(net) /\ Distinct(hdr, Len(hdr)) /\ OneEach(Nacks) /\ OneEach(Acks)
  /\ Books(NosIn(net), HdrNos, Acknos(Nacks), rtx_queue, Arrived, Acknos(Acks),
           highest_sent, flight_size, Credit)

\* No pull is spent before it was minted.
PullBooks ==
  /\ PullsNumbered /\ max_pull <= pull_no
  /\ ~started => last_pull = 0 /\ pull_no = 0 /\ ~first_flowcut

\* One ACK reports the whole flow, and completes it.
LastAcks == {m \in Acks : m.cum = NPackets}

EndBooks ==
  /\ completions = 0 \/ (completions = 1 /\ LastAcks = {})
  /\ \A a, b \in LastAcks : a = b
  /\ cumulative_ack < NPackets => completions = 0 /\ LastAcks = {}

ConservationInv == TypeInv /\ PlaceBooks /\ PullBooks /\ EndBooks

-----------------------------------------------------------------------------
(* Sending, with the books *)

\* A burst keeps the books and pays its packets from the credit it had.
LEMMA BurstBooks ==
  ASSUME SendTypeOK, NEW rtxq \in SUBSET Packets,
         NEW burst \in Nat, burst <= Unsent(rtxq), NEW flight \in 0..UintMax,
         NEW once \in BOOLEAN, NEW first \in BOOLEAN, NEW choice \in Paths,
         NEW H, NEW K, NEW A, NEW C, NEW credit, NoneTwiceIn(net),
         Books(NosIn(net), H, K, rtxq, A, C, highest_sent, flight, credit),
         SendBurst(burst, rtxq, flight, once, first, choice)
  PROVE  /\ NoneTwiceIn(net')
         /\ Books(NosIn(net'), H, K, rtx_queue', A, C, highest_sent', flight_size',
                  credit + burst)
<1>1. PICK N : N = NosIn(net)
  BY Zenon
<1>2. PICK h : h = highest_sent
  BY Zenon
<1>3. Books(N, H, K, rtxq, A, C, h, flight, credit)
  BY <1>1, <1>2, Zenon
<1>4. /\ N \subseteq 1..h /\ rtxq \subseteq 1..h /\ N \intersect rtxq = {}
  BY <1>3, Zenon DEF Books, Placed
<1>5. BurstSent(burst, rtxq, flight)
  BY <1>1, <1>2, <1>4, SendBurstPlaces
<1>6. PICK F \in SUBSET rtxq, k \in Nat :
        /\ IsFiniteSet(F) /\ Cardinality(F) + k = burst
        /\ highest_sent' = highest_sent + k /\ flight_size' = Plus(flight, k)
        /\ rtx_queue' = rtxq \ F
        /\ NoneTwiceIn(net')
        /\ NosIn(net') = (NosIn(net) \union F) \union (highest_sent + 1 .. highest_sent + k)
  BY <1>5, Zenon DEF BurstSent
<1>7. highest_sent' \in 0..NPackets
  BY SendBurstType DEF SendTypeOK
<1>8. h + k <= NPackets
  <2>1. h + k \in 0..NPackets
    BY <1>2, <1>6, <1>7, Zenon
  <2> QED BY <2>1, SizeAssumption, SMT
<1>9. /\ Books((N \union F) \union (h + 1 .. h + k), H, K, rtxq \ F, A, C, h + k,
               Plus(flight, k), credit + Cardinality(F) + k)
      /\ Cardinality(F) \in Nat
  BY <1>3, <1>6, <1>8, BooksSend, Zenon
<1>10. credit \in Nat
  BY <1>3, InFlightIsSent, Zenon
<1>11. credit + Cardinality(F) + k = credit + burst
  <2>1. Cardinality(F) \in Nat /\ Cardinality(F) + k = burst
    BY <1>6, <1>9, Zenon
  <2> QED BY <1>10, <2>1, SMT
<1> QED BY <1>1, <1>2, <1>6, <1>9, <1>11, Zenon

\* pull_packets() spends the pulls that it sends for, and no others.
LEMMA PullPacketsBooks ==
  ASSUME PullTypeOK, NEW no \in Nat, NEW rtxq \in SUBSET Packets,
         NEW flight \in 0..UintMax, NEW first \in BOOLEAN, NEW choice \in Paths,
         NEW stop \in BOOLEAN, NEW H, NEW K, NEW A, NEW C, NEW minted \in Nat,
         no <= minted, max_pull <= minted, NoneTwiceIn(net),
         Books(NosIn(net), H, K, rtxq, A, C, highest_sent, flight,
               InitialWindow + last_pull - minted),
         pull_packets(no, rtxq, flight, first, choice, stop)
  PROVE  /\ NoneTwiceIn(net') /\ max_pull' <= minted
         /\ Books(NosIn(net'), H, K, rtx_queue', A, C, highest_sent', flight_size',
                  InitialWindow + last_pull' - minted)
<1> DEFINE top   == Larger(max_pull, no)
           burst == IF stop THEN 0 ELSE Smaller(top - last_pull, Unsent(rtxq))
           credit == InitialWindow + last_pull - minted
<1>1. /\ max_pull' = top
      /\ last_pull' = last_pull + burst
      /\ SendBurst(burst, rtxq, flight, TRUE, first, choice)
  BY Zenon DEF pull_packets
<1>2. Unsent(rtxq) \in Nat
  BY PacketSets, SizeAssumption DEF Unsent, PullTypeOK, SendTypeOK
<1>3. top \in Nat /\ max_pull <= top /\ last_pull <= top /\ top <= minted
  BY DEF Larger, PullTypeOK, PullOrder
<1> HIDE DEF top
<1>4. burst \in Nat /\ burst <= Unsent(rtxq)
  <2>1. CASE stop
    BY <2>1, <1>2, <1>3 DEF PullTypeOK
  <2>2. CASE ~stop
    BY <2>2, <1>2, <1>3 DEF PullTypeOK, Smaller
  <2> QED BY <2>1, <2>2
<1> HIDE DEF burst
<1>5. last_pull \in Nat /\ InitialWindow \in Nat
  BY SizeAssumption DEF PullTypeOK, InitialWindow, Smaller
<1> HIDE DEF credit
<1>6. SendTypeOK
  BY Zenon DEF PullTypeOK
<1>7. Books(NosIn(net), H, K, rtxq, A, C, highest_sent, flight, credit)
  BY Zenon DEF credit
<1>8. /\ NoneTwiceIn(net')
      /\ Books(NosIn(net'), H, K, rtx_queue', A, C, highest_sent', flight_size',
               credit + burst)
  BY <1>1, <1>4, <1>6, <1>7, BurstBooks
<1>9. credit + burst = InitialWindow + last_pull' - minted
  BY <1>1, <1>4, <1>5, SMT DEF credit
<1> QED BY <1>1, <1>3, <1>8, <1>9, Zenon

\* What the handlers of the source do after they have taken their message.
Sends(no, rtxq, flight, first, choice, stop) ==
  \/ pull_packets(no, rtxq, flight, first, choice, stop)
  \/ NothingSent(rtxq, flight, first, choice)

\* pull_packets() keeps the books when the message it answers has left them.
LEMMA SendsBooks ==
  ASSUME PullTypeOK, NEW no \in Nat, NEW rtxq \in SUBSET Packets,
         NEW flight \in 0..UintMax, NEW first \in BOOLEAN, NEW choice \in Paths,
         NEW stop \in BOOLEAN, NEW H, NEW K, NEW A, NEW C, NEW minted \in Nat,
         no <= minted, max_pull <= minted, NoneTwiceIn(net),
         Books(NosIn(net), H, K, rtxq, A, C, highest_sent, flight,
               InitialWindow + last_pull - minted),
         Sends(no, rtxq, flight, first, choice, stop)
  PROVE  /\ NoneTwiceIn(net') /\ max_pull' <= minted
         /\ Books(NosIn(net'), H, K, rtx_queue', A, C, highest_sent', flight_size',
                  InitialWindow + last_pull' - minted)
<1>1. CASE pull_packets(no, rtxq, flight, first, choice, stop)
  BY <1>1, PullPacketsBooks
<1>2. CASE NothingSent(rtxq, flight, first, choice)
  BY <1>2, Zenon DEF NothingSent
<1> QED BY <1>1, <1>2, Zenon DEF Sends

-----------------------------------------------------------------------------
(* Messages *)

\* Taking a message of a set with one message per number takes its number.
LEMMA OneTaken ==
  ASSUME NEW S, OneEach(S), NEW m \in S
  PROVE  /\ OneEach(S \ {m}) /\ m.ackno \in Acknos(S)
         /\ Acknos(S \ {m}) = Acknos(S) \ {m.ackno}
BY Zenon DEF OneEach, Acknos

\* A message of a new number keeps one message per number.
LEMMA OneAdded ==
  ASSUME NEW S, OneEach(S), NEW m, m.ackno \notin Acknos(S)
  PROVE  /\ OneEach(S \union {m})
         /\ Acknos(S \union {m}) = Acknos(S) \union {m.ackno}
BY Zenon DEF OneEach, Acknos

\* The fields of the messages on the way back.
LEMMA MessageFields ==
  ASSUME NEW s, NEW cum, NEW no, NEW b
  PROVE  /\ Ack(s, cum, no, b).type = "ACK" /\ Ack(s, cum, no, b).ackno = s
         /\ Ack(s, cum, no, b).cum = cum /\ Ack(s, cum, no, b).no = no
         /\ Nack(s, no, b).type = "NACK" /\ Nack(s, no, b).ackno = s
         /\ Nack(s, no, b).no = no
         /\ Pull(no).type = "PULL" /\ Pull(no).no = no
BY DEF Ack, Nack, Pull

\* A message that is taken leaves the messages of its kind; the others stay.
LEMMA MessageTaken ==
  ASSUME NEW m \in rev, rev' = rev \ {m}
  PROVE  /\ m.type = "ACK" => Acks' = Acks \ {m} /\ Nacks' = Nacks
         /\ m.type = "NACK" => Nacks' = Nacks \ {m} /\ Acks' = Acks
         /\ m.type = "PULL" => Nacks' = Nacks /\ Acks' = Acks
<1>1. "ACK" # "NACK" /\ "ACK" # "PULL" /\ "NACK" # "PULL"
  OBVIOUS
<1> QED BY <1>1, Zenon DEF Acks, Nacks

\* A message the sink sends enters the acks, the nacks or the pulls by its kind.
LEMMA MessageSent ==
  ASSUME NEW m, rev' = rev \union {m}
  PROVE  /\ m.type = "ACK" => Acks' = Acks \union {m} /\ Nacks' = Nacks
         /\ m.type = "NACK" => Nacks' = Nacks \union {m} /\ Acks' = Acks
         /\ m.type = "PULL" => Nacks' = Nacks /\ Acks' = Acks
<1>1. "ACK" # "NACK" /\ "ACK" # "PULL" /\ "NACK" # "PULL"
  OBVIOUS
<1> QED BY <1>1, Zenon DEF Acks, Nacks

\* The pull number a message shows has been minted.
LEMMA PullMinted ==
  ASSUME TypeOK, PullBooks, NEW m \in rev
  PROVE  /\ m.no <= pull_no /\ pull_no \in Nat
         /\ m.type # "PULL" => PullNo(m) <= pull_no
<1>1. m.no <= pull_no
  BY Zenon DEF PullBooks, PullsNumbered
<1>2. pull_no \in Nat
  BY Zenon DEF TypeOK
<1>3. CASE m.pull
  BY <1>1, <1>2, <1>3, Zenon DEF PullNo
<1>4. CASE ~m.pull
  <2>1. PullNo(m) = 0
    BY <1>4, Zenon DEF PullNo
  <2> QED BY <1>1, <1>2, <2>1, SMT
<1> QED BY <1>1, <1>2, <1>3, <1>4, Zenon

-----------------------------------------------------------------------------
(* The steps of the source *)

\* processAck() keeps the books: the ack leaves them and the flight shrinks by one.
LEMMA ReceiveAckBooks ==
  ASSUME ConservationInv, NEW m \in rev, NEW congested \in BOOLEAN,
         ReceiveAck(m, congested)
  PROVE  PlaceBooks' /\ PullBooks' /\ EndBooks'
<1> DEFINE flight   == MinusOne(flight_size)
           stop     == \/ stop_sending
                       \/ FlowcutMode = 1 /\ congested /\ flight_size # 0
                       \/ FlowcutMode = 0 /\ congested /\ Routing = "flowcut"
           drained  == Drained(stop, flight)
           first    == drained \/ first_flowcut
           stopping == stop /\ ~drained
<1>1. /\ m \in Acks
      /\ rev' = rev \ {m}
      /\ completions' = IF Done(m) THEN completions + 1 ELSE completions
      /\ IF ~Done(m) /\ Pulls(m, drained)
         THEN pull_packets(PullNo(m), rtx_queue, flight, first,
                           last_flowlet_choice, stopping)
         ELSE NothingSent(rtx_queue, flight, first, last_flowlet_choice)
      /\ UNCHANGED <<started, sinkVars, pull_queue, hdr, trims>>
  BY Zenon DEF ReceiveAck
<1>2. Sends(PullNo(m), rtx_queue, flight, first, last_flowlet_choice, stopping)
  BY <1>1, Zenon DEF Sends
<1>3. drained \in BOOLEAN /\ stopping \in BOOLEAN /\ first \in BOOLEAN
  BY Zenon DEF ConservationInv, TypeInv, TypeOK, Drained
<1> HIDE DEF stop, drained, first, stopping
<1>4. m.type = "ACK" /\ PullNo(m) \in Nat /\ PullNo(m) <= pull_no /\ pull_no \in Nat
  BY <1>1, MessageType, PullMinted DEF Acks, ConservationInv, TypeInv
<1>5. /\ started /\ PullTypeOK /\ rtx_queue \in SUBSET Packets
      /\ last_flowlet_choice \in Paths /\ max_pull <= pull_no
  <2>1. started
    BY <1>1, Zenon DEF ConservationInv, TypeInv, IdleUntilStarted
  <2> QED BY <2>1, Zenon DEF ConservationInv, PullBooks, PullTypeOK, SendTypeOK, TypeInv, TypeOK
<1>6. /\ Acks' = Acks \ {m} /\ Nacks' = Nacks
  BY <1>1, <1>4, MessageTaken, Zenon
<1>7. /\ OneEach(Acks) /\ OneEach(Nacks) /\ NoneTwiceIn(net) /\ Distinct(hdr, Len(hdr))
      /\ Books(NosIn(net), HdrNos, Acknos(Nacks), rtx_queue, Arrived, Acknos(Acks),
               highest_sent, flight_size, InitialWindow + last_pull - pull_no)
  BY <1>5, Zenon DEF ConservationInv, PlaceBooks, Credit
<1>8. OneEach(Acks') /\ Acknos(Acks') = Acknos(Acks) \ {m.ackno} /\ m.ackno \in Acknos(Acks)
  BY <1>1, <1>6, <1>7, OneTaken, Zenon
<1>9. /\ flight_size > 0
      /\ Books(NosIn(net), HdrNos, Acknos(Nacks), rtx_queue, Arrived,
               Acknos(Acks) \ {m.ackno}, highest_sent, flight_size - 1,
               InitialWindow + last_pull - pull_no)
  BY <1>7, <1>8, BooksAck
<1>10. flight = flight_size - 1 /\ flight \in 0..UintMax
  BY <1>9, SizeAssumption DEF MinusOne, ConservationInv, TypeInv, TypeOK
<1> HIDE DEF flight
<1>11. PICK H, K, A, C, pn :
         /\ H = HdrNos /\ K = Acknos(Nacks) /\ A = Arrived /\ pn = pull_no
         /\ C = Acknos(Acks) \ {m.ackno}
  BY Zenon
<1>12. /\ NoneTwiceIn(net') /\ max_pull' <= pn
       /\ Books(NosIn(net'), H, K, rtx_queue', A, C, highest_sent', flight_size',
                InitialWindow + last_pull' - pn)
  <2>1. Books(NosIn(net), H, K, rtx_queue, A, C, highest_sent, flight,
              InitialWindow + last_pull - pn)
    BY <1>9, <1>10, <1>11, Zenon
  <2>2. pn \in Nat /\ PullNo(m) <= pn /\ max_pull <= pn
    BY <1>4, <1>5, <1>11, Zenon
  <2> QED BY <1>2, <1>3, <1>4, <1>5, <1>7, <1>10, <2>1, <2>2, SendsBooks
<1>13. /\ started' /\ pull_no' = pull_no /\ hdr' = hdr /\ cumulative_ack' = cumulative_ack
       /\ received' = received /\ pull_queue' = pull_queue
  BY <1>1, <1>5, Zenon DEF sinkVars
<1>14. PlaceBooks'
  <2>1. HdrNos' = H /\ Arrived' = A /\ Credit' = InitialWindow + last_pull' - pn
    BY <1>11, <1>13, Zenon DEF HdrNos, Arrived, Credit
  <2>2. Acknos(Nacks)' = K /\ Acknos(Acks)' = C
    BY <1>6, <1>8, <1>11, Zenon
  <2>3. OneEach(Nacks)' /\ OneEach(Acks)' /\ Distinct(hdr, Len(hdr))'
    BY <1>6, <1>7, <1>8, <1>13, Zenon
  <2> QED BY <1>12, <2>1, <2>2, <2>3, Zenon DEF PlaceBooks
<1>15. PullBooks'
  <2>1. PullsNumbered'
    BY <1>1, <1>13, Zenon DEF ConservationInv, PullBooks, PullsNumbered
  <2> QED BY <1>11, <1>12, <1>13, <2>1, Zenon DEF PullBooks
<1>16. EndBooks'
  <2>1. m.cum \in 0..NPackets
    BY <1>1, <1>4 DEF ConservationInv, TypeInv, TypeOK, Acks, AckMessages, NackMessages,
                      PullMessages
  <2>2. Done(m) <=> m \in LastAcks
    BY <1>1, <2>1, SizeAssumption, SMT DEF Done, LastAcks
  <2>3. LastAcks' = LastAcks \ {m}
    BY <1>6, Zenon DEF LastAcks
  <2>4. EndBooks
    BY Zenon DEF ConservationInv
  <2>5. CASE m \in LastAcks
    <3>1. completions = 0 /\ LastAcks' = {} /\ ~(cumulative_ack < NPackets)
      BY <2>3, <2>4, <2>5, Zenon DEF EndBooks
    <3>2. completions' = 1
      BY <1>1, <2>2, <2>5, <3>1, SMT
    <3> QED BY <1>13, <3>1, <3>2, Zenon DEF EndBooks
  <2>6. CASE m \notin LastAcks
    BY <1>1, <1>13, <2>2, <2>3, <2>4, <2>6, Zenon DEF EndBooks
  <2> QED BY <2>5, <2>6, Zenon
<1> QED BY <1>14, <1>15, <1>16, Zenon

\* processNack() keeps the books: the number moves from the nacks to the
\* retransmission queue.
LEMMA ReceiveNackBooks ==
  ASSUME ConservationInv, NEW m \in rev, ReceiveNack(m)
  PROVE  PlaceBooks' /\ PullBooks' /\ EndBooks'
<1> DEFINE rtxq == rtx_queue \union {m.ackno}
<1>1. /\ m \in Nacks
      /\ rev' = rev \ {m}
      /\ UNCHANGED <<started, stop_sending, completions, sinkVars, pull_queue,
                     hdr, trims>>
  BY Zenon DEF ReceiveNack
<1>2. PICK r \in choose_route(TRUE, first_flowcut, last_flowlet_choice) :
        IF m.pull \/ last_pull < max_pull
        THEN pull_packets(PullNo(m), rtxq, flight_size, r.first, r.choice, stop_sending)
        ELSE NothingSent(rtxq, flight_size, r.first, r.choice)
  BY Zenon DEF ReceiveNack
<1>3. Sends(PullNo(m), rtxq, flight_size, r.first, r.choice, stop_sending)
  BY <1>2, Zenon DEF Sends
<1>4. /\ m.type = "NACK" /\ m.ackno \in Packets
      /\ PullNo(m) \in Nat /\ PullNo(m) <= pull_no /\ pull_no \in Nat
  BY <1>1, MessageType, PullMinted DEF Nacks, ConservationInv, TypeInv
<1>5. /\ started /\ PullTypeOK /\ rtxq \in SUBSET Packets /\ flight_size \in 0..UintMax
      /\ stop_sending \in BOOLEAN /\ max_pull <= pull_no
  <2>1. started
    BY <1>1, Zenon DEF ConservationInv, TypeInv, IdleUntilStarted
  <2>2. rtxq \in SUBSET Packets
    BY <1>4, Zenon DEF ConservationInv, TypeInv, TypeOK
  <2> QED BY <2>1, <2>2, Zenon DEF ConservationInv, PullBooks, PullTypeOK, SendTypeOK,
                                   TypeInv, TypeOK
<1>6. r.first \in BOOLEAN /\ r.choice \in Paths
  BY RouteType DEF ConservationInv, TypeInv, TypeOK
<1>7. /\ Nacks' = Nacks \ {m} /\ Acks' = Acks
  BY <1>1, <1>4, MessageTaken, Zenon
<1>8. /\ OneEach(Acks) /\ OneEach(Nacks) /\ NoneTwiceIn(net) /\ Distinct(hdr, Len(hdr))
      /\ Books(NosIn(net), HdrNos, Acknos(Nacks), rtx_queue, Arrived, Acknos(Acks),
               highest_sent, flight_size, InitialWindow + last_pull - pull_no)
  BY <1>5, Zenon DEF ConservationInv, PlaceBooks, Credit
<1>9. /\ OneEach(Nacks') /\ Acknos(Nacks') = Acknos(Nacks) \ {m.ackno}
      /\ m.ackno \in Acknos(Nacks)
  BY <1>1, <1>7, <1>8, OneTaken, Zenon
<1>10. Books(NosIn(net), HdrNos, Acknos(Nacks) \ {m.ackno}, rtxq, Arrived, Acknos(Acks),
             highest_sent, flight_size, InitialWindow + last_pull - pull_no)
  BY <1>8, <1>9, BooksNack
<1> HIDE DEF rtxq
<1>11. PICK H, K, A, C, pn :
         /\ H = HdrNos /\ K = Acknos(Nacks) \ {m.ackno} /\ A = Arrived /\ pn = pull_no
         /\ C = Acknos(Acks)
  BY Zenon
<1>12. /\ NoneTwiceIn(net') /\ max_pull' <= pn
       /\ Books(NosIn(net'), H, K, rtx_queue', A, C, highest_sent', flight_size',
                InitialWindow + last_pull' - pn)
  <2>1. Books(NosIn(net), H, K, rtxq, A, C, highest_sent, flight_size,
              InitialWindow + last_pull - pn)
    BY <1>10, <1>11, Zenon
  <2>2. pn \in Nat /\ PullNo(m) <= pn /\ max_pull <= pn
    BY <1>4, <1>5, <1>11, Zenon
  <2> QED BY <1>3, <1>4, <1>5, <1>6, <1>8, <2>1, <2>2, SendsBooks
<1>13. /\ started' /\ pull_no' = pull_no /\ hdr' = hdr /\ cumulative_ack' = cumulative_ack
       /\ received' = received /\ pull_queue' = pull_queue /\ completions' = completions
  BY <1>1, <1>5, Zenon DEF sinkVars
<1>14. PlaceBooks'
  <2>1. HdrNos' = H /\ Arrived' = A /\ Credit' = InitialWindow + last_pull' - pn
    BY <1>11, <1>13, Zenon DEF HdrNos, Arrived, Credit
  <2>2. Acknos(Nacks)' = K /\ Acknos(Acks)' = C
    BY <1>7, <1>9, <1>11, Zenon
  <2>3. OneEach(Nacks)' /\ OneEach(Acks)' /\ Distinct(hdr, Len(hdr))'
    BY <1>7, <1>8, <1>9, <1>13, Zenon
  <2> QED BY <1>12, <2>1, <2>2, <2>3, Zenon DEF PlaceBooks
<1>15. PullBooks'
  <2>1. PullsNumbered'
    BY <1>1, <1>13, Zenon DEF ConservationInv, PullBooks, PullsNumbered
  <2> QED BY <1>11, <1>12, <1>13, <2>1, Zenon DEF PullBooks
<1>16. EndBooks'
  BY <1>7, <1>13, Zenon DEF ConservationInv, EndBooks, LastAcks
<1> QED BY <1>14, <1>15, <1>16, Zenon

\* processPull() keeps the books: the pull is spent on what is sent.
LEMMA ReceivePullBooks ==
  ASSUME ConservationInv, NEW m \in rev, ReceivePull(m)
  PROVE  PlaceBooks' /\ PullBooks' /\ EndBooks'
<1>1. /\ m.type = "PULL"
      /\ rev' = rev \ {m}
      /\ pull_packets(m.no, rtx_queue, flight_size, first_flowcut,
                      last_flowlet_choice, stop_sending)
      /\ UNCHANGED <<started, stop_sending, completions, sinkVars, pull_queue,
                     hdr, trims>>
  BY Zenon DEF ReceivePull
<1>2. m.no \in Nat /\ m.no <= pull_no /\ pull_no \in Nat
  BY <1>1, MessageType, PullMinted DEF ConservationInv, TypeInv
<1>3. /\ started /\ PullTypeOK /\ rtx_queue \in SUBSET Packets /\ flight_size \in 0..UintMax
      /\ first_flowcut \in BOOLEAN /\ last_flowlet_choice \in Paths
      /\ stop_sending \in BOOLEAN /\ max_pull <= pull_no
  <2>1. started
    BY <1>1, Zenon DEF ConservationInv, TypeInv, IdleUntilStarted
  <2> QED BY <2>1, Zenon DEF ConservationInv, PullBooks, PullTypeOK, SendTypeOK,
                             TypeInv, TypeOK
<1>4. /\ Nacks' = Nacks /\ Acks' = Acks
  BY <1>1, MessageTaken, Zenon
<1>5. /\ OneEach(Acks) /\ OneEach(Nacks) /\ NoneTwiceIn(net) /\ Distinct(hdr, Len(hdr))
      /\ Books(NosIn(net), HdrNos, Acknos(Nacks), rtx_queue, Arrived, Acknos(Acks),
               highest_sent, flight_size, InitialWindow + last_pull - pull_no)
  BY <1>3, Zenon DEF ConservationInv, PlaceBooks, Credit
<1>6. PICK H, K, A, C, pn :
         /\ H = HdrNos /\ K = Acknos(Nacks) /\ A = Arrived /\ pn = pull_no
         /\ C = Acknos(Acks)
  BY Zenon
<1>7. /\ NoneTwiceIn(net') /\ max_pull' <= pn
      /\ Books(NosIn(net'), H, K, rtx_queue', A, C, highest_sent', flight_size',
               InitialWindow + last_pull' - pn)
  <2>1. Books(NosIn(net), H, K, rtx_queue, A, C, highest_sent, flight_size,
              InitialWindow + last_pull - pn)
    BY <1>5, <1>6, Zenon
  <2>2. pn \in Nat /\ m.no <= pn /\ max_pull <= pn
    BY <1>2, <1>3, <1>6, Zenon
  <2> QED BY <1>1, <1>2, <1>3, <1>5, <2>1, <2>2, PullPacketsBooks
<1>8. /\ started' /\ pull_no' = pull_no /\ hdr' = hdr /\ cumulative_ack' = cumulative_ack
      /\ received' = received /\ pull_queue' = pull_queue /\ completions' = completions
  BY <1>1, <1>3, Zenon DEF sinkVars
<1>9. PlaceBooks'
  <2>1. HdrNos' = H /\ Arrived' = A /\ Credit' = InitialWindow + last_pull' - pn
    BY <1>6, <1>8, Zenon DEF HdrNos, Arrived, Credit
  <2>2. Acknos(Nacks)' = K /\ Acknos(Acks)' = C
    BY <1>4, <1>6, Zenon
  <2>3. OneEach(Nacks)' /\ OneEach(Acks)' /\ Distinct(hdr, Len(hdr))'
    BY <1>4, <1>5, <1>8, Zenon
  <2> QED BY <1>7, <2>1, <2>2, <2>3, Zenon DEF PlaceBooks
<1>10. PullBooks'
  <2>1. PullsNumbered'
    BY <1>1, <1>8, Zenon DEF ConservationInv, PullBooks, PullsNumbered
  <2> QED BY <1>6, <1>7, <1>8, <2>1, Zenon DEF PullBooks
<1>11. EndBooks'
  BY <1>4, <1>8, Zenon DEF ConservationInv, EndBooks, LastAcks
<1> QED BY <1>9, <1>10, <1>11, Zenon

\* Before the start nothing is anywhere.
LEMMA NothingYet ==
  ASSUME ConservationInv, ~started
  PROVE  /\ NosIn(net) = {} /\ HdrNos = {} /\ Acknos(Nacks) = {} /\ rtx_queue = {}
         /\ Arrived = {} /\ Acknos(Acks) = {} /\ highest_sent = 0 /\ flight_size = 0
         /\ last_pull = 0 /\ pull_no = 0 /\ Nacks = {} /\ Acks = {} /\ hdr = <<>>
         /\ \A p \in Paths : net[p] = <<>>
<1>1. /\ highest_sent = 0 /\ rev = {} /\ hdr = <<>> /\ \A p \in Paths : net[p] = <<>>
      /\ last_pull = 0 /\ pull_no = 0
  BY Zenon DEF ConservationInv, TypeInv, IdleUntilStarted, PullBooks
<1>2. Books(NosIn(net), HdrNos, Acknos(Nacks), rtx_queue, Arrived, Acknos(Acks),
            0, flight_size, Credit)
  BY <1>1, Zenon DEF ConservationInv, PlaceBooks
<1>3. 1..0 = {}
  OBVIOUS
<1>4. /\ NosIn(net) = {} /\ HdrNos = {} /\ Acknos(Nacks) = {} /\ rtx_queue = {}
      /\ Arrived = {} /\ Acknos(Acks) = {}
  BY <1>2, <1>3, Zenon DEF Books, Placed
<1>5. flight_size = 0
  <2>1. flight_size = Cardinality(InFlightOf({}, {}, {}, {}, {}))
    BY <1>2, <1>4, Zenon DEF Books
  <2>2. InFlightOf({}, {}, {}, {}, {}) = {}
    BY Zenon DEF InFlightOf
  <2> QED BY <2>1, <2>2, FS_EmptySet, Zenon
<1>6. Nacks = {} /\ Acks = {}
  BY <1>1, Zenon DEF Acks, Nacks
<1> QED BY <1>1, <1>4, <1>5, <1>6, Zenon

\* startflow() opens the books with the first window.
LEMMA StartFlowBooks ==
  ASSUME ConservationInv, StartFlow
  PROVE  PlaceBooks' /\ PullBooks' /\ EndBooks'
<1>1. /\ ~started /\ started' = TRUE
      /\ SendBurst(InitialWindow, rtx_queue, 0, received_once, first_flowcut,
                   last_flowlet_choice)
      /\ UNCHANGED <<last_pull, max_pull, received_once, stop_sending, completions,
                     sinkVars, pull_queue, hdr, rev, trims>>
  BY Zenon DEF StartFlow
<1>2. /\ flight_size = 0 /\ highest_sent = 0 /\ last_pull = 0 /\ pull_no = 0
  BY <1>1, NothingYet, Zenon
<1>3. Cardinality(rtx_queue) \in Nat /\ rtx_queue \in SUBSET Packets
  BY PacketSets DEF ConservationInv, TypeInv, TypeOK
<1>4. InitialWindow \in Nat /\ InitialWindow <= Unsent(rtx_queue)
  BY <1>2, <1>3, SizeAssumption DEF InitialWindow, Smaller, Unsent
<1>5. /\ SendTypeOK /\ received_once \in BOOLEAN /\ first_flowcut \in BOOLEAN
      /\ last_flowlet_choice \in Paths /\ 0 \in 0..UintMax
  BY SizeAssumption DEF SendTypeOK, ConservationInv, TypeInv, TypeOK
<1> HIDE DEF InitialWindow
<1>6. /\ OneEach(Acks) /\ OneEach(Nacks) /\ NoneTwiceIn(net) /\ Distinct(hdr, Len(hdr))
      /\ Books(NosIn(net), HdrNos, Acknos(Nacks), rtx_queue, Arrived, Acknos(Acks),
               highest_sent, 0, 0)
  BY <1>1, <1>2, Zenon DEF ConservationInv, PlaceBooks, Credit
<1>7. PICK H, K, A, C :
         /\ H = HdrNos /\ K = Acknos(Nacks) /\ A = Arrived /\ C = Acknos(Acks)
  BY Zenon
<1>8. Books(NosIn(net), H, K, rtx_queue, A, C, highest_sent, 0, 0)
  BY <1>6, <1>7, Zenon
<1>9. /\ NoneTwiceIn(net')
      /\ Books(NosIn(net'), H, K, rtx_queue', A, C, highest_sent', flight_size',
               0 + InitialWindow)
  BY <1>1, <1>3, <1>4, <1>5, <1>6, <1>8, BurstBooks
<1>10. /\ pull_no' = pull_no /\ hdr' = hdr /\ cumulative_ack' = cumulative_ack
       /\ received' = received /\ pull_queue' = pull_queue /\ completions' = completions
       /\ rev' = rev /\ last_pull' = last_pull /\ max_pull' = max_pull
  BY <1>1, Zenon DEF sinkVars
<1>11. 0 + InitialWindow = InitialWindow + last_pull' - pull_no'
  BY <1>2, <1>4, <1>10, SMT
<1>12. PlaceBooks'
  <2>1. HdrNos' = H /\ Arrived' = A /\ Credit' = 0 + InitialWindow
    BY <1>1, <1>7, <1>10, <1>11, Zenon DEF HdrNos, Arrived, Credit
  <2>2. Nacks' = Nacks /\ Acks' = Acks
    BY <1>10, Zenon DEF Nacks, Acks
  <2>3. OneEach(Nacks)' /\ OneEach(Acks)' /\ Distinct(hdr, Len(hdr))'
        /\ Acknos(Nacks)' = K /\ Acknos(Acks)' = C
    BY <1>6, <1>7, <1>10, <2>2, Zenon
  <2> QED BY <1>9, <2>1, <2>3, Zenon DEF PlaceBooks
<1>13. PullBooks'
  BY <1>1, <1>10, Zenon DEF ConservationInv, PullBooks, PullsNumbered
<1>14. EndBooks'
  BY <1>10, Zenon DEF ConservationInv, EndBooks, LastAcks, Acks
<1> QED BY <1>12, <1>13, <1>14, Zenon

-----------------------------------------------------------------------------
(* The steps of the sink, the pacer and the switches *)

\* The first packet of a queue leaves it.
LEMMA TailIs ==
  ASSUME NEW t \in Seq(DataPackets), t # <<>>
  PROVE  /\ Tail(t) \in Seq(DataPackets) /\ IsWithout(Tail(t), t, 1)
         /\ 1 \in 1..Len(t) /\ Head(t) = t[1]
<1>1. /\ Tail(t) \in Seq(DataPackets) /\ Len(Tail(t)) = Len(t) - 1
      /\ \A j \in 1 .. Len(Tail(t)) : Tail(t)[j] = t[j + 1]
  BY HeadTailProperties
<1>2. Len(t) \in Nat /\ Len(t) # 0
  BY LenProperties, EmptySeq
<1>3. 1 \in 1..Len(t) /\ \A j \in 1 .. Len(t) - 1 : ~(j < 1)
  BY <1>2, SMT
<1>4. Head(t) = t[1]
  OBVIOUS
<1> QED BY <1>1, <1>3, <1>4, Zenon DEF IsWithout

\* A packet in the middle of a sequence leaves it.
LEMMA RemoveAtIs ==
  ASSUME NEW S, NEW t \in Seq(S), NEW i \in 1..Len(t)
  PROVE  IsWithout(RemoveAt(t, i), t, i)
<1>1. Len(t) \in Nat
  BY LenProperties
<1> DEFINE a == SubSeq(t, 1, i - 1)
           z == SubSeq(t, i + 1, Len(t))
           y == a \o z
           N == Len(t)
<1>2. a \in Seq(S) /\ Len(a) = i - 1 /\ \A j \in 1 .. i - 1 : a[j] = t[j]
  <2>1. i - 1 \in Int /\ \A j \in 1 .. i - 1 : t[j] \in S
    BY <1>1, ElementOfSeq
  <2>2. /\ a \in Seq(S) /\ Len(a) = IF 1 <= i - 1 THEN i - 1 - 1 + 1 ELSE 0
        /\ \A j \in 1 .. i - 1 - 1 + 1 : a[j] = t[1 + j - 1]
    BY <2>1, SubSeqProperties
  <2> HIDE DEF a
  <2> QED BY <1>1, <2>2, SMT
<1>3. z \in Seq(S) /\ Len(z) = N - i /\ \A j \in 1 .. N - i : z[j] = t[i + j]
  <2>1. \A j \in i + 1 .. Len(t) : t[j] \in S
    BY <1>1, ElementOfSeq
  <2>2. /\ z \in Seq(S)
        /\ Len(z) = IF i + 1 <= Len(t) THEN Len(t) - (i + 1) + 1 ELSE 0
        /\ \A j \in 1 .. Len(t) - (i + 1) + 1 : z[j] = t[i + 1 + j - 1]
    BY <1>1, <2>1, SubSeqProperties
  <2> HIDE DEF z
  <2> QED BY <1>1, <2>2, SMT
<1>4. RemoveAt(t, i) = y
  BY Zenon DEF RemoveAt
<1> HIDE DEF a, z
<1>5. /\ Len(y) = Len(a) + Len(z)
      /\ \A j \in 1 .. Len(a) + Len(z) : y[j] = IF j <= Len(a) THEN a[j] ELSE z[j - Len(a)]
  BY <1>2, <1>3, ConcatProperties
<1> HIDE DEF y, N
<1>6. /\ Len(y) = (i - 1) + (N - i)
      /\ \A j \in 1 .. (i - 1) + (N - i) : y[j] = IF j <= i - 1 THEN a[j] ELSE z[j - (i - 1)]
  BY <1>2, <1>3, <1>5, Zenon
<1>7. N \in Nat /\ i \in 1..N
  BY <1>1, Zenon DEF N
<1>8. Len(y) = N - 1
  BY <1>6, <1>7, SMT
<1>9. ASSUME NEW j \in 1 .. N - 1
      PROVE  y[j] = t[IF j < i THEN j ELSE j + 1]
  <2>1. CASE j < i
    <3>1. j \in 1 .. i - 1 /\ j \in 1 .. (i - 1) + (N - i) /\ j <= i - 1
      BY <1>7, <2>1, SMT
    <3> QED BY <1>2, <1>6, <2>1, <3>1, Zenon
  <2>2. CASE ~(j < i)
    <3>1. /\ j - (i - 1) \in 1 .. N - i /\ j \in 1 .. (i - 1) + (N - i)
          /\ ~(j <= i - 1) /\ i + (j - (i - 1)) = j + 1
      BY <1>7, <2>2, SMT
    <3>2. y[j] = t[i + (j - (i - 1))]
      BY <1>3, <1>6, <3>1, Zenon
    <3> QED BY <2>2, <3>1, <3>2, Zenon
  <2> QED BY <2>1, <2>2, Zenon
<1> QED BY <1>4, <1>8, <1>9, Zenon DEF IsWithout, N

\* The credit after an arrival, which mints a pull.
LEMMA CreditSpent ==
  ASSUME TypeOK, started, started' = started, last_pull' = last_pull,
         pull_no' = pull_no + 1
  PROVE  Credit' = Credit - 1
<1>1. /\ Credit = InitialWindow + last_pull - pull_no
      /\ Credit' = InitialWindow + last_pull - (pull_no + 1)
  BY Zenon DEF Credit
<1>2. InitialWindow \in Int /\ last_pull \in Int /\ pull_no \in Int
  BY SizeAssumption DEF TypeOK, InitialWindow, Smaller
<1> HIDE DEF InitialWindow
<1> QED BY <1>1, <1>2, SMT

\* An arrival mints a pull, which the message carries or the pacer keeps.
Minted(m) ==
  /\ started' = started /\ max_pull' = max_pull
  /\ pull_no' = pull_no + 1 /\ m.no = pull_no + 1 /\ rev' = rev \union {m}
  /\ \/ pull_queue' = <<>>
     \/ pull_queue' = pull_queue
     \/ pull_queue' = Append(pull_queue, pull_no + 1)

\* A pull number the sink queues is one credit more for the source.
LEMMA MintedPull ==
  ASSUME TypeOK, PullBooks, started, NEW m, Minted(m)
  PROVE  PullBooks'
<1> DEFINE no == pull_no + 1
<1>1. /\ started' = started /\ max_pull' = max_pull
      /\ pull_no' = no /\ m.no = no /\ rev' = rev \union {m}
      /\ \/ pull_queue' = <<>>
         \/ pull_queue' = pull_queue
         \/ pull_queue' = Append(pull_queue, no)
  BY Zenon DEF Minted
<1>2. pull_no \in Nat /\ no \in Nat /\ \A k \in Int : k <= pull_no => k <= no
  BY SMT DEF TypeOK
<1> HIDE DEF no
<1>3. \A n \in rev' : n.no <= pull_no'
  <2>1. \A n \in rev : n.no <= pull_no
    BY Zenon DEF PullBooks, PullsNumbered
  <2>2. \A n \in rev : n.no \in Nat
    BY MessageType
  <2>3. no <= no
    BY <1>2, SMT
  <2>4. \A n \in rev : n.no <= no
    BY <1>2, <2>1, <2>2, SMT
  <2> QED BY <1>1, <2>3, <2>4, Zenon
<1>4. \A i \in 1..Len(pull_queue') : pull_queue'[i] <= pull_no'
  <2>1. /\ pull_queue \in Seq(Nat) /\ \A i \in 1..Len(pull_queue) : pull_queue[i] <= pull_no
    BY Zenon DEF TypeOK, PullBooks, PullsNumbered
  <2>2. \A i \in 1..Len(pull_queue) : pull_queue[i] \in Nat /\ pull_queue[i] <= no
    BY <1>2, <2>1, ElementOfSeq
  <2>3. CASE pull_queue' = <<>>
    BY <2>3
  <2>4. CASE pull_queue' = pull_queue
    BY <1>1, <2>2, <2>4, Zenon
  <2>5. CASE pull_queue' = Append(pull_queue, no)
    <3>1. /\ Len(pull_queue') = Len(pull_queue) + 1 /\ Len(pull_queue) \in Nat
          /\ \A i \in 1..Len(pull_queue) : pull_queue'[i] = pull_queue[i]
          /\ pull_queue'[Len(pull_queue) + 1] = no
      BY <1>2, <2>1, <2>5, AppendProperties, LenProperties
    <3>2. ASSUME NEW i \in 1..Len(pull_queue') PROVE pull_queue'[i] <= no
      <4>1. i \in 1..Len(pull_queue) \/ i = Len(pull_queue) + 1
        BY <3>1, SMT
      <4>2. no <= no
        BY <1>2, SMT
      <4> QED BY <2>2, <3>1, <4>1, <4>2, Zenon
    <3> QED BY <1>1, <3>2, Zenon
  <2> QED BY <1>1, <2>3, <2>4, <2>5, Zenon
<1>5. max_pull' <= pull_no'
  <2>1. max_pull \in Nat /\ max_pull <= pull_no
    BY Zenon DEF PullBooks, TypeOK
  <2> QED BY <1>1, <1>2, <2>1, SMT
<1> QED BY <1>1, <1>3, <1>4, <1>5, Zenon DEF PullBooks, PullsNumbered

\* The packets of the sink, after a packet that it did not have.
SinkTakes(s, cum) ==
  /\ cum = IF s = cumulative_ack + 1 THEN Advance(cumulative_ack, received)
           ELSE cumulative_ack
  /\ cumulative_ack' = cum
  /\ received' = IF s > cumulative_ack + 1 THEN received \union {s}
                 ELSE {t \in received : t > cum}

\* The sink's state after an arrival holds the packet and what it held before.
LEMMA ArrivedIs ==
  ASSUME TypeOK, NEW s \in Packets, s \notin Arrived, NEW cum, SinkTakes(s, cum)
  PROVE  cumulative_ack < NPackets /\ Arrived' = Arrived \union {s}
<1>0. /\ cum = IF s = cumulative_ack + 1 THEN Advance(cumulative_ack, received)
              ELSE cumulative_ack
      /\ cumulative_ack' = cum
      /\ received' = IF s > cumulative_ack + 1 THEN received \union {s}
                    ELSE {t \in received : t > cum}
  BY Zenon DEF SinkTakes
<1>1. /\ cumulative_ack \in 0..NPackets /\ received \in SUBSET Packets
      /\ s \in Nat /\ 1 <= s /\ s <= NPackets
  BY SizeAssumption DEF TypeOK, Packets
<1>2. s > cumulative_ack /\ cumulative_ack \in Nat /\ cumulative_ack < NPackets
  <2>1. s \notin 1..cumulative_ack
    BY Zenon DEF Arrived
  <2> QED BY <1>1, <2>1, SizeAssumption, SMT
<1>3. Arrived' = (1..cum) \union received'
  BY <1>0, Zenon DEF Arrived
<1>4. CASE s = cumulative_ack + 1
  <2>1. cum = Advance(cumulative_ack, received) /\ ~(s > cumulative_ack + 1)
    BY <1>0, <1>2, <1>4, SMT
  <2>2. /\ cum \in cumulative_ack + 1 .. NPackets
        /\ \A t \in cumulative_ack + 2 .. cum : t \in received
    BY <1>1, <1>2, <2>1, AdvanceType, Zenon
  <2>3. received' = {t \in received : t > cum}
    BY <1>0, <2>1, Zenon
  <2>4. ASSUME NEW x \in 1..cum PROVE x \in Arrived \union {s}
    <3>1. x \in 1..cumulative_ack \/ x = s \/ x \in cumulative_ack + 2 .. cum
      BY <1>2, <1>4, <2>2, SizeAssumption, SMT
    <3> QED BY <2>2, <3>1, Zenon DEF Arrived
  <2>5. ASSUME NEW x \in 1..cumulative_ack \union {s} PROVE x \in 1..cum
    BY <1>2, <1>4, <2>2, SizeAssumption, SMT
  <2>6. ASSUME NEW x \in received PROVE x \in 1..cum \/ x > cum
    BY <1>1, <2>2, SizeAssumption, SMT DEF Packets
  <2>7. (1..cum) \union {t \in received : t > cum} = Arrived \union {s}
    BY <2>4, <2>5, <2>6, Zenon DEF Arrived
  <2> QED BY <1>2, <1>3, <2>3, <2>7, Zenon
<1>5. CASE s # cumulative_ack + 1
  <2>1. s > cumulative_ack + 1
    BY <1>1, <1>2, <1>5, SMT
  <2>2. cum = cumulative_ack /\ received' = received \union {s}
    BY <1>0, <1>5, <2>1, Zenon
  <2> QED BY <1>2, <1>3, <2>2, Zenon DEF Arrived
<1> QED BY <1>4, <1>5, Zenon

\* A packet leaves the network.
LEMMA PacketLeaves ==
  ASSUME TypeOK, NoneTwiceIn(net), NEW p \in Paths, NEW i \in 1..Len(net[p]),
         NEW q \in Seq(DataPackets), IsWithout(q, net[p], i),
         net' = [net EXCEPT ![p] = q]
  PROVE  /\ NoneTwiceIn(net') /\ NosIn(net') = NosIn(net) \ {net[p][i].seqno}
         /\ net[p][i].seqno \in NosIn(net) /\ net[p][i].seqno \in Packets
<1>1. PICK n : n = net
  BY Zenon
<1>2. PICK less : less = net'
  BY Zenon
<1>3. Leave(less, n, p, i, q)
  BY <1>1, <1>2, Zenon DEF TypeOK, Leave
<1>4. /\ NoneTwiceIn(less) /\ NosIn(less) = NosIn(n) \ {n[p][i].seqno}
      /\ n[p][i].seqno \in NosIn(n)
  BY <1>3, NetWithout, Zenon
<1>5. net[p][i].seqno \in Packets
  <2>1. net[p] \in Seq(DataPackets)
    BY DEF TypeOK
  <2>2. net[p][i] \in DataPackets
    BY <2>1, ElementOfSeq
  <2> QED BY <2>2 DEF DataPackets
<1> QED BY <1>1, <1>2, <1>4, <1>5, Zenon

\* The arrival of a whole packet moves its number from the network to the acks.
LEMMA ReceiveDataBooks ==
  ASSUME ConservationInv, NEW p \in Paths, NEW busy \in BOOLEAN, ReceiveData(p, busy)
  PROVE  PlaceBooks' /\ PullBooks' /\ EndBooks'
<1> DEFINE s     == Head(net[p]).seqno
           next  == s = cumulative_ack + 1
           gap   == s > cumulative_ack + 1
           cum   == IF next THEN Advance(cumulative_ack, received) ELSE cumulative_ack
           no    == pull_no + 1
           pulls == IF Paced(busy) THEN Append(pull_queue, no) ELSE pull_queue
           ack   == Ack(s, cum, no, ~Paced(busy))
<1>1. /\ net[p] # <<>>
      /\ net' = [net EXCEPT ![p] = Tail(net[p])]
      /\ cumulative_ack' = cum
      /\ received' = IF gap THEN received \union {s} ELSE {t \in received : t > cum}
      /\ pull_no' = no
      /\ rev' = rev \union {ack}
      /\ pull_queue' = IF cum = NPackets THEN <<>> ELSE pulls
      /\ UNCHANGED <<srcVars, hdr, trims>>
  BY Zenon DEF ReceiveData
<1>2. /\ started' = started /\ hdr' = hdr /\ highest_sent' = highest_sent
      /\ flight_size' = flight_size /\ last_pull' = last_pull /\ max_pull' = max_pull
      /\ rtx_queue' = rtx_queue /\ completions' = completions
      /\ first_flowcut' = first_flowcut
  BY <1>1, Zenon DEF srcVars, sendVars, routeVars
<1>3. TypeOK /\ started
  BY <1>1, Zenon DEF ConservationInv, TypeInv, IdleUntilStarted
<1>4. /\ OneEach(Acks) /\ OneEach(Nacks) /\ NoneTwiceIn(net) /\ Distinct(hdr, Len(hdr))
      /\ Books(NosIn(net), HdrNos, Acknos(Nacks), rtx_queue, Arrived, Acknos(Acks),
               highest_sent, flight_size, Credit)
  BY Zenon DEF ConservationInv, PlaceBooks
<1>5. /\ NoneTwiceIn(net') /\ NosIn(net') = NosIn(net) \ {s}
      /\ s \in NosIn(net) /\ s \in Packets
  <2>1. net[p] \in Seq(DataPackets)
    BY <1>3 DEF TypeOK
  <2>2. /\ Tail(net[p]) \in Seq(DataPackets) /\ IsWithout(Tail(net[p]), net[p], 1)
        /\ 1 \in 1..Len(net[p]) /\ Head(net[p]) = net[p][1]
    BY <1>1, <2>1, TailIs
  <2> QED BY <1>1, <1>3, <1>4, <2>2, PacketLeaves
<1>6. s \notin Arrived
  BY <1>4, <1>5, Zenon DEF Books, Placed
<1>7. cumulative_ack < NPackets /\ Arrived' = Arrived \union {s}
  <2>1. SinkTakes(s, cum)
    BY <1>1, Zenon DEF SinkTakes
  <2> HIDE DEF s, cum
  <2> QED BY <1>3, <1>5, <1>6, <2>1, ArrivedIs, Zenon
<1> HIDE DEF s, next, gap, cum, no, pulls, ack
<1>8. /\ ack.type = "ACK" /\ ack.ackno = s /\ ack.cum = cum /\ ack.no = no
  BY MessageFields DEF ack
<1>9. Books(NosIn(net) \ {s}, HdrNos, Acknos(Nacks), rtx_queue, Arrived \union {s},
            Acknos(Acks) \union {s}, highest_sent, flight_size, Credit - 1)
  BY <1>4, <1>5, BooksData
<1>10. Acks' = Acks \union {ack} /\ Nacks' = Nacks
  BY <1>1, <1>8, MessageSent, Zenon
<1>11. OneEach(Acks') /\ Acknos(Acks') = Acknos(Acks) \union {s}
  <2>1. ack.ackno \notin Acknos(Acks)
    BY <1>4, <1>6, <1>8, Zenon DEF Books
  <2> QED BY <1>4, <1>8, <1>10, <2>1, OneAdded, Zenon
<1>12. Credit' = Credit - 1
  BY <1>1, <1>2, <1>3, CreditSpent, Zenon DEF no
<1>13. PlaceBooks'
  <2>1. HdrNos' = HdrNos /\ Distinct(hdr, Len(hdr))'
    BY <1>2, <1>4, Zenon DEF HdrNos
  <2>2. Acknos(Nacks)' = Acknos(Nacks) /\ Acknos(Acks)' = Acknos(Acks) \union {s}
        /\ OneEach(Nacks)' /\ OneEach(Acks)'
    BY <1>4, <1>10, <1>11, Zenon
  <2>3. Books(NosIn(net'), HdrNos', Acknos(Nacks)', rtx_queue', Arrived', Acknos(Acks)',
              highest_sent', flight_size', Credit')
    BY <1>2, <1>5, <1>7, <1>9, <1>12, <2>1, <2>2, Zenon
  <2> QED BY <1>5, <2>1, <2>2, <2>3, Zenon DEF PlaceBooks
<1>15. PullBooks'
  <2>1. PICK m : m = ack
    BY Zenon
  <2>2. Minted(m)
    BY <1>1, <1>2, <1>3, <1>8, <2>1, Zenon DEF Minted, no, pulls
  <2> QED BY <1>3, <2>2, MintedPull DEF ConservationInv
<1>16. EndBooks'
  <2>1. completions = 0 /\ LastAcks = {}
    BY <1>7, Zenon DEF ConservationInv, EndBooks
  <2>2. LastAcks' = {a \in {ack} : a.cum = NPackets}
    BY <1>10, <2>1, Zenon DEF LastAcks
  <2>3. cumulative_ack' < NPackets => LastAcks' = {}
    <3>1. cum < NPackets => cum # NPackets
      <4>1. cumulative_ack' \in 0..NPackets
        BY ReceiveDataType DEF ConservationInv, TypeInv, TypeOK
      <4> QED BY <1>1, <4>1, SizeAssumption
    <3> QED BY <1>1, <1>8, <2>2, <3>1, Zenon
  <2> QED BY <1>2, <2>1, <2>2, <2>3, Zenon DEF EndBooks
<1> QED BY <1>13, <1>15, <1>16, Zenon

\* The arrival of a header moves its number from the headers to the nacks.
LEMMA ReceiveHeaderBooks ==
  ASSUME ConservationInv, NEW i \in 1..Len(hdr), NEW busy \in BOOLEAN,
         ReceiveHeader(i, busy)
  PROVE  PlaceBooks' /\ PullBooks' /\ EndBooks'
<1> DEFINE no   == pull_no + 1
           s    == hdr[i]
           nack == Nack(s, no, ~Paced(busy))
<1>1. /\ hdr' = RemoveAt(hdr, i)
      /\ pull_no' = no
      /\ rev' = rev \union {nack}
      /\ pull_queue' = IF Paced(busy) THEN Append(pull_queue, no) ELSE pull_queue
      /\ UNCHANGED <<srcVars, cumulative_ack, received, ooo_number, net, trims>>
  BY Zenon DEF ReceiveHeader
<1>2. /\ started' = started /\ highest_sent' = highest_sent /\ net' = net
      /\ flight_size' = flight_size /\ last_pull' = last_pull /\ max_pull' = max_pull
      /\ rtx_queue' = rtx_queue /\ completions' = completions
      /\ first_flowcut' = first_flowcut /\ cumulative_ack' = cumulative_ack
      /\ received' = received
  BY <1>1, Zenon DEF srcVars, sendVars, routeVars
<1>3. hdr \in Seq(Packets) /\ hdr # <<>> /\ Len(hdr) \in Nat
  BY EmptySeq, LenProperties DEF ConservationInv, TypeInv, TypeOK
<1>4. TypeOK /\ started
  BY <1>3, Zenon DEF ConservationInv, TypeInv, IdleUntilStarted
<1>5. /\ OneEach(Acks) /\ OneEach(Nacks) /\ NoneTwiceIn(net) /\ Distinct(hdr, Len(hdr))
      /\ Books(NosIn(net), HdrNos, Acknos(Nacks), rtx_queue, Arrived, Acknos(Acks),
               highest_sent, flight_size, Credit)
  BY Zenon DEF ConservationInv, PlaceBooks
<1>6. /\ Distinct(hdr', Len(hdr')) /\ Elems(hdr', Len(hdr')) = HdrNos \ {s}
      /\ s \in HdrNos
  <2>1. IsWithout(hdr', hdr, i)
    BY <1>1, <1>3, RemoveAtIs, Zenon
  <2>2. PICK a, b, n : a = hdr /\ b = hdr' /\ n = Len(hdr)
    BY Zenon
  <2>3. Len(b) = n - 1 /\ n \in Nat /\ i \in 1..n /\ Distinct(a, n)
    BY <1>3, <1>5, <2>1, <2>2, Zenon DEF IsWithout
  <2>4. Skips(b, a, i, n)
    BY <2>1, <2>2, Zenon DEF IsWithout, Skips
  <2>5. Distinct(b, n - 1) /\ Elems(b, n - 1) = Elems(a, n) \ {a[i]}
    BY <2>3, <2>4, TakenOut, Zenon
  <2>6. hdr[i] \in HdrNos
    BY Zenon DEF HdrNos, Elems
  <2> QED BY <2>2, <2>3, <2>5, <2>6, Zenon DEF HdrNos
<1> HIDE DEF s, no, nack
<1>7. nack.type = "NACK" /\ nack.ackno = s /\ nack.no = no
  BY MessageFields DEF nack
<1>8. Books(NosIn(net), HdrNos \ {s}, Acknos(Nacks) \union {s}, rtx_queue, Arrived,
            Acknos(Acks), highest_sent, flight_size, Credit - 1)
  BY <1>5, <1>6, BooksHeader
<1>9. Nacks' = Nacks \union {nack} /\ Acks' = Acks
  BY <1>1, <1>7, MessageSent, Zenon
<1>10. OneEach(Nacks') /\ Acknos(Nacks') = Acknos(Nacks) \union {s}
  <2>1. nack.ackno \notin Acknos(Nacks)
    BY <1>5, <1>6, <1>7, Zenon DEF Books, Placed
  <2> QED BY <1>5, <1>7, <1>9, <2>1, OneAdded, Zenon
<1>11. Credit' = Credit - 1
  BY <1>1, <1>2, <1>4, CreditSpent, Zenon DEF no
<1>12. PlaceBooks'
  <2>1. HdrNos' = HdrNos \ {s} /\ Distinct(hdr, Len(hdr))' /\ Arrived' = Arrived
    BY <1>2, <1>6, Zenon DEF HdrNos, Arrived
  <2>2. /\ Acknos(Nacks)' = Acknos(Nacks) \union {s} /\ Acknos(Acks)' = Acknos(Acks)
        /\ OneEach(Nacks)' /\ OneEach(Acks)'
    BY <1>5, <1>9, <1>10, Zenon
  <2>3. NosIn(net') = NosIn(net) /\ NoneTwiceIn(net')
    BY <1>2, <1>5, Zenon
  <2>4. Books(NosIn(net'), HdrNos', Acknos(Nacks)', rtx_queue', Arrived', Acknos(Acks)',
              highest_sent', flight_size', Credit')
    BY <1>2, <1>8, <1>11, <2>1, <2>2, <2>3, Zenon
  <2> QED BY <2>1, <2>2, <2>3, <2>4, Zenon DEF PlaceBooks
<1>13. PullBooks'
  <2>1. PICK m : m = nack
    BY Zenon
  <2>2. Minted(m)
    BY <1>1, <1>2, <1>4, <1>7, <2>1, Zenon DEF Minted, no
  <2> QED BY <1>4, <2>2, MintedPull DEF ConservationInv
<1>14. EndBooks'
  BY <1>2, <1>9, Zenon DEF ConservationInv, EndBooks, LastAcks
<1> QED BY <1>12, <1>13, <1>14, Zenon

\* The pacer hands a queued pull to the network; no number moves.
LEMMA PacerTimeoutBooks ==
  ASSUME ConservationInv, PacerTimeout
  PROVE  PlaceBooks' /\ PullBooks' /\ EndBooks'
<1> DEFINE no == Head(pull_queue)
<1>1. /\ pull_queue # <<>>
      /\ rev' = rev \union {Pull(no)}
      /\ pull_queue' = Tail(pull_queue)
      /\ UNCHANGED <<srcVars, sinkVars, net, hdr, trims>>
  BY Zenon DEF PacerTimeout
<1>2. /\ started' = started /\ highest_sent' = highest_sent /\ net' = net /\ hdr' = hdr
      /\ flight_size' = flight_size /\ last_pull' = last_pull /\ max_pull' = max_pull
      /\ rtx_queue' = rtx_queue /\ completions' = completions /\ pull_no' = pull_no
      /\ first_flowcut' = first_flowcut /\ cumulative_ack' = cumulative_ack
      /\ received' = received
  BY <1>1, Zenon DEF srcVars, sendVars, routeVars, sinkVars
<1>3. Pull(no).type = "PULL" /\ Pull(no).no = no
  <2> HIDE DEF no
  <2> QED BY DEF Pull
<1>4. Nacks' = Nacks /\ Acks' = Acks
  BY <1>1, <1>3, MessageSent, Zenon
<1>5. PlaceBooks'
  BY <1>2, <1>4, Zenon DEF ConservationInv, PlaceBooks, HdrNos, Arrived, Credit
<1>6. PullBooks'
  <2>1. pull_queue \in Seq(Nat)
    BY Zenon DEF ConservationInv, TypeInv, TypeOK
  <2>2. /\ Len(pull_queue) \in Nat /\ Len(pull_queue) # 0 /\ no = pull_queue[1]
        /\ Len(pull_queue') = Len(pull_queue) - 1
        /\ \A i \in 1..Len(pull_queue') : pull_queue'[i] = pull_queue[i + 1]
    BY <1>1, <2>1, HeadTailProperties, LenProperties, EmptySeq
  <2> HIDE DEF no
  <2>3. \A i \in 1..Len(pull_queue) : pull_queue[i] <= pull_no
    BY Zenon DEF ConservationInv, PullBooks, PullsNumbered
  <2>4. 1 \in 1..Len(pull_queue) /\ \A i \in 1..Len(pull_queue') : i + 1 \in 1..Len(pull_queue)
    BY <2>2, SMT
  <2>5. \A i \in 1..Len(pull_queue') : pull_queue'[i] <= pull_no'
    BY <1>2, <2>2, <2>3, <2>4, Zenon
  <2>6. no <= pull_no
    BY <2>2, <2>3, <2>4, Zenon
  <2>7. \A n \in rev' : n.no <= pull_no'
    BY <1>1, <1>2, <1>3, <2>6, Zenon DEF ConservationInv, PullBooks, PullsNumbered
  <2> QED BY <1>2, <2>5, <2>7, Zenon DEF ConservationInv, PullBooks, PullsNumbered
<1>7. EndBooks'
  BY <1>2, <1>4, Zenon DEF ConservationInv, EndBooks, LastAcks
<1> QED BY <1>5, <1>6, <1>7, Zenon

\* The number of a packet that is trimmed joins the headers.
LEMMA HeaderMade ==
  ASSUME NEW a \in Seq(Packets), NEW s \in Packets, Distinct(a, Len(a)),
         s \notin Elems(a, Len(a)), NEW b, b = Append(a, s)
  PROVE  Distinct(b, Len(b)) /\ Elems(b, Len(b)) = Elems(a, Len(a)) \union {s}
<1> DEFINE n == Len(a)
<1>1. /\ n \in Nat /\ Len(b) = n + 1 /\ b[n + 1] = s
      /\ \A j \in 1..n : b[j] = a[j]
  BY AppendProperties, LenProperties
<1>2. \A j \in 1 .. n + 1 : j \in 1..n \/ j = n + 1
  BY <1>1, SMT
<1>3. n + 1 \in 1 .. n + 1 /\ \A j \in 1..n : j \in 1 .. n + 1
  BY <1>1, SMT
<1>4. \A j \in 1..n : a[j] # s
  BY Zenon DEF Elems
<1>5. \A j, k \in 1..n : a[j] = a[k] => j = k
  BY Zenon DEF Distinct
<1> HIDE DEF n
<1>6. ASSUME NEW j \in 1 .. n + 1, NEW k \in 1 .. n + 1, b[j] = b[k]
      PROVE  j = k
  <2>1. CASE j \in 1..n /\ k \in 1..n
    BY <1>1, <1>5, <1>6, <2>1, Zenon
  <2>2. CASE j \in 1..n /\ k = n + 1
    BY <1>1, <1>4, <1>6, <2>2, Zenon
  <2>3. CASE j = n + 1 /\ k \in 1..n
    BY <1>1, <1>4, <1>6, <2>3, Zenon
  <2> QED BY <1>2, <2>1, <2>2, <2>3, Zenon
<1>7. Distinct(b, n + 1)
  BY <1>6, Zenon DEF Distinct
<1>8. Elems(b, n + 1) = Elems(a, n) \union {s}
  <2>1. ASSUME NEW x \in Elems(b, n + 1) PROVE x \in Elems(a, n) \union {s}
    BY <1>1, <1>2, Zenon DEF Elems
  <2>2. ASSUME NEW x \in Elems(a, n) \union {s} PROVE x \in Elems(b, n + 1)
    BY <1>1, <1>3, Zenon DEF Elems
  <2> QED BY <2>1, <2>2, Zenon
<1> QED BY <1>1, <1>7, <1>8, Zenon DEF n

\* A trim moves a number from the network to the headers.
LEMMA TrimBooks ==
  ASSUME ConservationInv, NEW p \in Paths, NEW i \in 1..Len(net[p]), Trim(p, i)
  PROVE  PlaceBooks' /\ PullBooks' /\ EndBooks'
<1> DEFINE s == net[p][i].seqno
<1>1. /\ hdr' = Append(hdr, s)
      /\ net' = [net EXCEPT ![p] = RemoveAt(net[p], i)]
      /\ UNCHANGED <<srcVars, sinkVars, pull_queue, rev>>
  BY Zenon DEF Trim
<1>2. /\ started' = started /\ highest_sent' = highest_sent
      /\ flight_size' = flight_size /\ last_pull' = last_pull /\ max_pull' = max_pull
      /\ rtx_queue' = rtx_queue /\ completions' = completions /\ pull_no' = pull_no
      /\ first_flowcut' = first_flowcut /\ cumulative_ack' = cumulative_ack
      /\ received' = received /\ pull_queue' = pull_queue /\ rev' = rev
  BY <1>1, Zenon DEF srcVars, sendVars, routeVars, sinkVars
<1>3. TypeOK /\ hdr \in Seq(Packets) /\ net[p] \in Seq(DataPackets)
  BY DEF ConservationInv, TypeInv, TypeOK
<1>4. Nacks' = Nacks /\ Acks' = Acks
  BY <1>2, Zenon DEF Nacks, Acks
<1>5. /\ OneEach(Acks) /\ OneEach(Nacks) /\ NoneTwiceIn(net) /\ Distinct(hdr, Len(hdr))
      /\ Books(NosIn(net), HdrNos, Acknos(Nacks), rtx_queue, Arrived, Acknos(Acks),
               highest_sent, flight_size, Credit)
  BY Zenon DEF ConservationInv, PlaceBooks
<1>6. /\ NoneTwiceIn(net') /\ NosIn(net') = NosIn(net) \ {s}
      /\ s \in NosIn(net) /\ s \in Packets
  <2>1. RemoveAt(net[p], i) \in Seq(DataPackets) /\ IsWithout(RemoveAt(net[p], i), net[p], i)
    BY <1>3, RemoveAtType, RemoveAtIs, Zenon
  <2> QED BY <1>1, <1>3, <1>5, <2>1, PacketLeaves
<1> HIDE DEF s
<1>7. s \notin HdrNos
  BY <1>5, <1>6, Zenon DEF Books, Placed
<1>8. Distinct(hdr', Len(hdr')) /\ Elems(hdr', Len(hdr')) = HdrNos \union {s}
  <2>1. PICK a, b, x : a = hdr /\ b = hdr' /\ x = s
    BY Zenon
  <2>2. /\ a \in Seq(Packets) /\ x \in Packets /\ Distinct(a, Len(a))
        /\ x \notin Elems(a, Len(a)) /\ b = Append(a, x)
    BY <1>1, <1>3, <1>5, <1>6, <1>7, <2>1, Zenon DEF HdrNos
  <2>3. Distinct(b, Len(b)) /\ Elems(b, Len(b)) = Elems(a, Len(a)) \union {x}
    BY <2>2, HeaderMade, Zenon
  <2> QED BY <2>1, <2>3, Zenon DEF HdrNos
<1>9. Books(NosIn(net) \ {s}, HdrNos \union {s}, Acknos(Nacks), rtx_queue, Arrived,
            Acknos(Acks), highest_sent, flight_size, Credit)
  BY <1>5, <1>6, BooksTrim
<1>10. PlaceBooks'
  <2>1. /\ HdrNos' = HdrNos \union {s} /\ Distinct(hdr, Len(hdr))'
        /\ Arrived' = Arrived /\ Credit' = Credit
    BY <1>2, <1>8, Zenon DEF HdrNos, Arrived, Credit
  <2>2. /\ Acknos(Nacks)' = Acknos(Nacks) /\ Acknos(Acks)' = Acknos(Acks)
        /\ OneEach(Nacks)' /\ OneEach(Acks)'
    BY <1>4, <1>5, Zenon
  <2>3. Books(NosIn(net'), HdrNos', Acknos(Nacks)', rtx_queue', Arrived', Acknos(Acks)',
              highest_sent', flight_size', Credit')
    BY <1>2, <1>6, <1>9, <2>1, <2>2, Zenon
  <2> QED BY <1>6, <2>1, <2>2, <2>3, Zenon DEF PlaceBooks
<1>11. PullBooks'
  BY <1>2, Zenon DEF ConservationInv, PullBooks, PullsNumbered
<1>12. EndBooks'
  BY <1>2, <1>4, Zenon DEF ConservationInv, EndBooks, LastAcks
<1> QED BY <1>10, <1>11, <1>12, Zenon

-----------------------------------------------------------------------------
(* The invariant holds *)

\* The books are in order at the start.
LEMMA InitConservation == Init => ConservationInv
<1> SUFFICES ASSUME Init PROVE ConservationInv
  OBVIOUS
<1>1. /\ started = FALSE /\ highest_sent = 0 /\ flight_size = 0
      /\ last_pull = 0 /\ max_pull = 0 /\ rtx_queue = {} /\ first_flowcut = FALSE
      /\ completions = 0 /\ cumulative_ack = 0 /\ received = {} /\ pull_no = 0
      /\ pull_queue = <<>> /\ hdr = <<>> /\ rev = {}
      /\ \A p \in Paths : net[p] = <<>>
  BY Zenon DEF Init
<1>2. Len(<<>>) = 0 /\ 1..0 = {} /\ 0 <= 0 /\ 0 \in 0..NPackets /\ ~(0 > 0)
  BY SizeAssumption
<1>3. \A a : Elems(a, 0) = {} /\ Distinct(a, 0)
  BY <1>2, Zenon DEF Elems, Distinct
<1>4. NoneTwice(<<>>) /\ NosOf(<<>>) = {}
  BY <1>2, <1>3, Zenon DEF NoneTwice, NosOf
<1>5. NosIn(net) = {} /\ NoneTwiceIn(net)
  BY <1>1, <1>4, Zenon DEF NosIn, NoneTwiceIn
<1>6. /\ HdrNos = {} /\ Distinct(hdr, Len(hdr)) /\ Arrived = {} /\ Credit = 0
      /\ Acks = {} /\ Nacks = {}
  BY <1>1, <1>2, <1>3, Zenon DEF HdrNos, Arrived, Credit, Acks, Nacks
<1>7. Acknos({}) = {} /\ OneEach({})
  BY Zenon DEF Acknos, OneEach
<1>8. Books({}, {}, {}, {}, {}, {}, 0, 0, 0)
  <2>1. Placed({}, {}, {}, {}, {}, 0)
    BY <1>2, Zenon DEF Placed
  <2>2. InFlightOf({}, {}, {}, {}, {}) = {} /\ {} \union {} = {} /\ Cardinality({}) = 0
    BY FS_EmptySet, Zenon DEF InFlightOf
  <2> QED BY <1>2, <2>1, <2>2, Zenon DEF Books
<1>9. PlaceBooks
  BY <1>1, <1>5, <1>6, <1>7, <1>8, Zenon DEF PlaceBooks
<1>10. PullBooks
  BY <1>1, <1>2, Zenon DEF PullBooks, PullsNumbered
<1>11. EndBooks
  BY <1>1, <1>6, Zenon DEF EndBooks, LastAcks
<1> QED BY <1>9, <1>10, <1>11, InitTypeInv, Zenon DEF ConservationInv

\* Every step keeps the books.
LEMMA NextConservation == ConservationInv /\ [Next]_vars => ConservationInv'
<1> SUFFICES ASSUME ConservationInv, [Next]_vars PROVE ConservationInv'
  OBVIOUS
<1>1. TypeInv'
  BY NextTypeInv DEF ConservationInv
<1>2. CASE StartFlow
  BY <1>1, <1>2, StartFlowBooks DEF ConservationInv
<1>3. CASE DeliverReverse
  BY <1>1, <1>3, ReceiveAckBooks, ReceiveNackBooks, ReceivePullBooks
  DEF DeliverReverse, ConservationInv
<1>4. CASE DeliverData
  BY <1>1, <1>4, ReceiveDataBooks DEF DeliverData, ConservationInv
<1>5. CASE DeliverHeader
  BY <1>1, <1>5, ReceiveHeaderBooks DEF DeliverHeader, ConservationInv
<1>6. CASE PacerTimeout
  BY <1>1, <1>6, PacerTimeoutBooks DEF ConservationInv
<1>7. CASE TrimSome
  BY <1>1, <1>7, TrimBooks DEF TrimSome, ConservationInv
<1>8. CASE UNCHANGED vars
  <2>1. /\ started' = started /\ highest_sent' = highest_sent /\ net' = net /\ hdr' = hdr
        /\ flight_size' = flight_size /\ last_pull' = last_pull /\ max_pull' = max_pull
        /\ rtx_queue' = rtx_queue /\ completions' = completions /\ pull_no' = pull_no
        /\ first_flowcut' = first_flowcut /\ cumulative_ack' = cumulative_ack
        /\ received' = received /\ pull_queue' = pull_queue /\ rev' = rev
    BY <1>8, Zenon DEF vars, srcVars, sendVars, routeVars, sinkVars, netVars
  <2>2. Nacks' = Nacks /\ Acks' = Acks
    BY <2>1, Zenon DEF Nacks, Acks
  <2>3. PlaceBooks'
    BY <2>1, <2>2, Zenon DEF ConservationInv, PlaceBooks, HdrNos, Arrived, Credit
  <2>4. PullBooks'
    BY <2>1, Zenon DEF ConservationInv, PullBooks, PullsNumbered
  <2>5. EndBooks'
    BY <2>1, <2>2, Zenon DEF ConservationInv, EndBooks, LastAcks
  <2> QED BY <1>1, <2>3, <2>4, <2>5, Zenon DEF ConservationInv
<1> QED BY <1>2, <1>3, <1>4, <1>5, <1>6, <1>7, <1>8, Zenon DEF Next

\* The flow completes at most once, for every number of trims, every routing
\* and every order of the ACKs: the trigger of processAck() is activated by the
\* one ACK that reports the last packet to fill the flow.
THEOREM CompletesAtMostOnce == Spec => []CompletesOnce
<1>1. ConservationInv => CompletesOnce
  <2> SUFFICES ASSUME ConservationInv PROVE CompletesOnce
    OBVIOUS
  <2>1. completions = 0 \/ completions = 1
    BY Zenon DEF ConservationInv, EndBooks
  <2> QED BY <2>1 DEF CompletesOnce
<1> QED BY <1>1, InitConservation, NextConservation, PTL DEF Spec

-----------------------------------------------------------------------------
(* Counting what is in transit *)

\* The full packets in transit are as many as their numbers.
LEMMA SlotsAre ==
  ASSUME NEW x
  PROVE  x \in NetSlots <=> \E p \in Paths : \E i \in 1..Len(net[p]) : x = <<p, i>>
BY DEF NetSlots

\* The slots of the network stand for its numbers one to one.
LEMMA SlotNumbers ==
  ASSUME NoneTwiceIn(net), NEW p \in Paths, NEW i \in 1..Len(net[p])
  PROVE  /\ net[p][i].seqno \in NosOf(net[p]) /\ net[p][i].seqno \in NosIn(net)
         /\ \A q \in Paths : \A j \in 1..Len(net[q]) :
              net[p][i].seqno = net[q][j].seqno => p = q /\ i = j
<1>1. /\ Numbers(net[p])[i] = net[p][i].seqno
      /\ \A q \in Paths : \A j \in 1..Len(net[q]) : Numbers(net[q])[j] = net[q][j].seqno
  BY Zenon DEF Numbers
<1>2. \A q \in Paths : \A j \in 1..Len(net[q]) : net[q][j].seqno \in NosOf(net[q])
  BY <1>1, Zenon DEF NosOf, Elems
<1>3. net[p][i].seqno \in NosIn(net)
  BY <1>2, Zenon DEF NosIn
<1>4. ASSUME NEW q \in Paths, NEW j \in 1..Len(net[q]), net[p][i].seqno = net[q][j].seqno
      PROVE  p = q /\ i = j
  <2>1. p = q
    <3>1. net[p][i].seqno \in NosOf(net[p]) /\ net[p][i].seqno \in NosOf(net[q])
      BY <1>2, <1>4, Zenon
    <3>2. NosOf(net[p]) \intersect NosOf(net[q]) # {}
      BY <3>1, Zenon
    <3> QED BY <3>2, Zenon DEF NoneTwiceIn
  <2>2. j \in 1..Len(net[p]) /\ Numbers(net[p])[i] = Numbers(net[p])[j]
    BY <1>1, <1>4, <2>1, Zenon
  <2>3. Distinct(Numbers(net[p]), Len(net[p]))
    BY Zenon DEF NoneTwiceIn, NoneTwice
  <2> QED BY <2>1, <2>2, <2>3, Zenon DEF Distinct
<1> QED BY <1>2, <1>3, <1>4, Zenon

\* The slots of the network are as many as its numbers.
LEMMA CountSlots ==
  ASSUME NoneTwiceIn(net), IsFiniteSet(NosIn(net))
  PROVE  IsFiniteSet(NetSlots) /\ Cardinality(NetSlots) = Cardinality(NosIn(net))
<1> DEFINE N == NosIn(net)
           f == [x \in NetSlots |-> net[x[1]][x[2]].seqno]
<1>1. \A p \in Paths : \A i \in 1..Len(net[p]) :
        <<p, i>> \in NetSlots /\ f[<<p, i>>] = net[p][i].seqno
  <2> SUFFICES ASSUME NEW p \in Paths, NEW i \in 1..Len(net[p])
               PROVE  <<p, i>> \in NetSlots /\ f[<<p, i>>] = net[p][i].seqno
    BY Zenon
  <2>1. <<p, i>> \in NetSlots
    BY SlotsAre, Zenon
  <2>2. <<p, i>>[1] = p /\ <<p, i>>[2] = i
    OBVIOUS
  <2>3. f[<<p, i>>] = net[<<p, i>>[1]][<<p, i>>[2]].seqno
    BY <2>1, Zenon
  <2> QED BY <2>1, <2>2, <2>3, Zenon
<1>2. DOMAIN f = NetSlots /\ f = [x \in NetSlots |-> f[x]]
  BY Zenon
<1> HIDE DEF f
<1>3. ASSUME NEW x \in NetSlots PROVE f[x] \in N
  <2>1. PICK p \in Paths : \E i \in 1..Len(net[p]) : x = <<p, i>>
    BY SlotsAre, Zenon
  <2>2. PICK i \in 1..Len(net[p]) : x = <<p, i>>
    BY <2>1, Zenon
  <2>3. net[p][i].seqno \in N
    BY SlotNumbers, Zenon
  <2> QED BY <1>1, <2>2, <2>3, Zenon
<1>4. f \in [NetSlots -> N]
  BY <1>2, <1>3, Zenon
<1>5. ASSUME NEW x \in NetSlots, NEW y \in NetSlots, f[x] = f[y]
      PROVE  x = y
  <2>1. PICK p \in Paths : \E i \in 1..Len(net[p]) : x = <<p, i>>
    BY SlotsAre, Zenon
  <2>2. PICK i \in 1..Len(net[p]) : x = <<p, i>>
    BY <2>1, Zenon
  <2>3. PICK q \in Paths : \E j \in 1..Len(net[q]) : y = <<q, j>>
    BY SlotsAre, Zenon
  <2>4. PICK j \in 1..Len(net[q]) : y = <<q, j>>
    BY <2>3, Zenon
  <2>5. net[p][i].seqno = net[q][j].seqno
    BY <1>1, <1>5, <2>2, <2>4, Zenon
  <2> QED BY <2>2, <2>4, <2>5, SlotNumbers, Zenon
<1>6. ASSUME NEW s \in N
      PROVE  \E x \in NetSlots : f[x] = s
  <2>1. PICK p \in Paths : s \in NosOf(net[p])
    BY Zenon DEF NosIn
  <2>2. PICK i \in 1..Len(net[p]) : s = net[p][i].seqno
    BY <2>1, Zenon DEF NosOf, Elems, Numbers
  <2> QED BY <1>1, <2>2, Zenon
<1> HIDE DEF N
<1>7. f \in Bijection(NetSlots, N)
  BY <1>2, <1>4, <1>5, <1>6, Zenon DEF Bijection, Injection, IsInjective, Surjection
<1>8. ExistsBijection(N, NetSlots)
  <2>1. ExistsBijection(NetSlots, N)
    BY <1>7, Zenon DEF ExistsBijection
  <2> QED BY <2>1, Fun_ExistsBijSymmetric, Zenon
<1>9. IsFiniteSet(N)
  BY Zenon DEF N
<1> QED BY <1>8, <1>9, FS_Bijection, Zenon DEF N

\* The messages of a kind are as many as the packets they are about.
LEMMA CountMessages ==
  ASSUME NEW S, OneEach(S), IsFiniteSet(Acknos(S))
  PROVE  IsFiniteSet(S) /\ Cardinality(S) = Cardinality(Acknos(S))
<1> DEFINE f == [m \in S |-> m.ackno]
<1>1. f \in [S -> Acknos(S)] /\ \A m \in S : f[m] = m.ackno
  BY Zenon DEF Acknos
<1>2. \A x, y \in S : f[x] = f[y] => x = y
  BY <1>1, Zenon DEF OneEach
<1>3. \A s \in Acknos(S) : \E x \in S : f[x] = s
  BY <1>1, Zenon DEF Acknos
<1>4. DOMAIN f = S
  BY Zenon
<1> HIDE DEF f
<1>5. f \in Bijection(S, Acknos(S))
  BY <1>1, <1>2, <1>3, <1>4, Zenon DEF Bijection, Injection, IsInjective, Surjection
<1>6. ExistsBijection(Acknos(S), S)
  <2>1. ExistsBijection(S, Acknos(S))
    BY <1>5, Zenon DEF ExistsBijection
  <2> QED BY <2>1, Fun_ExistsBijSymmetric, Zenon
<1> QED BY <1>6, FS_Bijection, Zenon

\* What is in flight, counted by the kind of place.
LEMMA BooksSum ==
  ASSUME NEW N, NEW H, NEW K, NEW R, NEW A, NEW C, NEW h, NEW flight, NEW credit,
         Books(N, H, K, R, A, C, h, flight, credit)
  PROVE  /\ IsFiniteSet(N) /\ IsFiniteSet(H) /\ IsFiniteSet(K) /\ IsFiniteSet(R)
         /\ IsFiniteSet(C)
         /\ credit = Cardinality(N) + Cardinality(H)
         /\ flight = Cardinality(N) + Cardinality(H) + Cardinality(K)
                     + Cardinality(R) + Cardinality(C)
<1>1. Placed(N, H, K, R, A, h) /\ C \subseteq A
  BY Zenon DEF Books
<1>2. IsFiniteSet(InFlightOf(N, H, K, R, C))
  BY InFlightIsSent, Zenon
<1>3. /\ N \subseteq InFlightOf(N, H, K, R, C) /\ H \subseteq InFlightOf(N, H, K, R, C)
      /\ K \subseteq InFlightOf(N, H, K, R, C) /\ R \subseteq InFlightOf(N, H, K, R, C)
      /\ C \subseteq InFlightOf(N, H, K, R, C)
  BY Zenon DEF InFlightOf
<1>4. /\ IsFiniteSet(N) /\ IsFiniteSet(H) /\ IsFiniteSet(K) /\ IsFiniteSet(R)
      /\ IsFiniteSet(C)
  BY <1>2, <1>3, FS_Subset, Zenon
<1>5. /\ N \intersect H = {} /\ (N \union H) \intersect K = {}
      /\ ((N \union H) \union K) \intersect R = {}
      /\ (((N \union H) \union K) \union R) \intersect C = {}
  BY <1>1, Zenon DEF Placed
<1>6. /\ IsFiniteSet(N \union H) /\ Cardinality(N) \in Nat /\ Cardinality(H) \in Nat
      /\ Cardinality(N \union H) = Cardinality(N) + Cardinality(H)
  BY <1>4, <1>5, DisjointSum, Zenon
<1>7. /\ IsFiniteSet((N \union H) \union K) /\ Cardinality(K) \in Nat
      /\ Cardinality((N \union H) \union K) = Cardinality(N \union H) + Cardinality(K)
  BY <1>4, <1>5, <1>6, DisjointSum, Zenon
<1>8. /\ IsFiniteSet(((N \union H) \union K) \union R) /\ Cardinality(R) \in Nat
      /\ Cardinality(((N \union H) \union K) \union R)
         = Cardinality((N \union H) \union K) + Cardinality(R)
  BY <1>4, <1>5, <1>7, DisjointSum, Zenon
<1>9. Cardinality((((N \union H) \union K) \union R) \union C)
      = Cardinality(((N \union H) \union K) \union R) + Cardinality(C)
  BY <1>4, <1>5, <1>8, DisjointSum, Zenon
<1>10. credit = Cardinality(N \union H)
       /\ flight = Cardinality((((N \union H) \union K) \union R) \union C)
  BY Zenon DEF Books, InFlightOf
<1> QED BY <1>4, <1>6, <1>7, <1>8, <1>9, <1>10, Zenon

\* The places of the invariant, counted.
LEMMA PlacesCounted ==
  ASSUME ConservationInv
  PROVE  /\ Cardinality(NetSlots) = Cardinality(NosIn(net))
         /\ Len(hdr) = Cardinality(HdrNos)
         /\ Cardinality(Nacks) = Cardinality(Acknos(Nacks))
         /\ Cardinality(Acks) = Cardinality(Acknos(Acks))
         /\ Credit = Cardinality(NosIn(net)) + Cardinality(HdrNos)
         /\ flight_size = Cardinality(NosIn(net)) + Cardinality(HdrNos)
                          + Cardinality(Acknos(Nacks)) + Cardinality(rtx_queue)
                          + Cardinality(Acknos(Acks))
<1>1. /\ OneEach(Acks) /\ OneEach(Nacks) /\ NoneTwiceIn(net) /\ Distinct(hdr, Len(hdr))
      /\ Books(NosIn(net), HdrNos, Acknos(Nacks), rtx_queue, Arrived, Acknos(Acks),
               highest_sent, flight_size, Credit)
  BY Zenon DEF ConservationInv, PlaceBooks
<1>2. /\ IsFiniteSet(NosIn(net)) /\ IsFiniteSet(Acknos(Nacks)) /\ IsFiniteSet(Acknos(Acks))
      /\ Credit = Cardinality(NosIn(net)) + Cardinality(HdrNos)
      /\ flight_size = Cardinality(NosIn(net)) + Cardinality(HdrNos)
                       + Cardinality(Acknos(Nacks)) + Cardinality(rtx_queue)
                       + Cardinality(Acknos(Acks))
  BY <1>1, BooksSum
<1>3. Len(hdr) = Cardinality(HdrNos)
  <2>1. Len(hdr) \in Nat
    BY LenProperties DEF ConservationInv, TypeInv, TypeOK
  <2> QED BY <1>1, <2>1, DistinctCount, Zenon DEF HdrNos
<1> QED BY <1>1, <1>2, <1>3, CountSlots, CountMessages, Zenon

\* The unsigned counter that ends a drain is exact: _flight_size is the number
\* of new packets whose ACK has not been processed, whatever has been trimmed,
\* NACKed or queued again, and it never wraps.
THEOREM FlightIsConserved == Spec => []FlightConservation
<1>1. ConservationInv => FlightConservation
  BY PlacesCounted, Zenon DEF FlightConservation
<1> QED BY <1>1, InitConservation, NextConservation, PTL DEF Spec

\* No more than the first window is ever in transit: every packet sent later
\* spends a pull that an arrival at the sink minted.
THEOREM CreditIsConserved == Spec => []CreditConservation
<1>1. ASSUME ConservationInv PROVE CreditConservation
  <2>1. started => Credit = InitialWindow + last_pull - pull_no
    BY Zenon DEF Credit
  <2>2. Cardinality(NetSlots) + Len(hdr) = Credit
    BY <1>1, PlacesCounted, Zenon
  <2>3. last_pull <= max_pull /\ max_pull <= pull_no
    BY <1>1, Zenon DEF ConservationInv, TypeInv, PullOrder, PullBooks
  <2> QED BY <2>1, <2>2, <2>3, Zenon DEF CreditConservation
<1> QED BY <1>1, InitConservation, NextConservation, PTL DEF Spec

\* A set of those things that are about one packet: one or none.
LEMMA OneOrNone ==
  ASSUME NEW S, \A x, y \in S : x = y
  PROVE  /\ (\E x : x \in S) => Cardinality(S) = 1
         /\ ~(\E x : x \in S) => Cardinality(S) = 0
<1>1. ASSUME NEW x \in S PROVE Cardinality(S) = 1
  <2>1. S = {x}
    BY Zenon
  <2> QED BY <2>1, FS_Singleton, Zenon
<1>2. ASSUME ~(\E x : x \in S) PROVE Cardinality(S) = 0
  <2>1. S = {}
    BY <1>2, Zenon
  <2> QED BY <2>1, FS_EmptySet, Zenon
<1> QED BY <1>1, <1>2, Zenon

\* The copies of a packet, as OneLiveCopy counts them.
SlotsOf(s) == {x \in NetSlots : net[x[1]][x[2]].seqno = s}
HdrsOf(s)  == {i \in 1..Len(hdr) : hdr[i] = s}
NacksOf(s) == {m \in Nacks : m.ackno = s}

\* The slots that carry one number are one or none.
LEMMA CountSlotsOf ==
  ASSUME NoneTwiceIn(net), NEW s
  PROVE  Cardinality(SlotsOf(s)) = IF s \in NosIn(net) THEN 1 ELSE 0
<1>1. \A p \in Paths : \A i \in 1..Len(net[p]) :
        <<p, i>> \in SlotsOf(s) <=> net[p][i].seqno = s
  <2> SUFFICES ASSUME NEW p \in Paths, NEW i \in 1..Len(net[p])
               PROVE  <<p, i>> \in SlotsOf(s) <=> net[p][i].seqno = s
    BY Zenon
  <2>1. <<p, i>> \in NetSlots
    BY SlotsAre, Zenon
  <2>2. <<p, i>>[1] = p /\ <<p, i>>[2] = i
    OBVIOUS
  <2>3. <<p, i>> \in SlotsOf(s) <=> net[<<p, i>>[1]][<<p, i>>[2]].seqno = s
    BY <2>1, Zenon DEF SlotsOf
  <2> QED BY <2>2, <2>3, Zenon
<1>2. SlotsOf(s) \subseteq NetSlots
  BY Zenon DEF SlotsOf
<1>3. \A x \in SlotsOf(s) :
        \E p \in Paths : \E i \in 1..Len(net[p]) : x = <<p, i>> /\ net[p][i].seqno = s
  <2> SUFFICES ASSUME NEW x \in SlotsOf(s)
               PROVE  \E p \in Paths : \E i \in 1..Len(net[p]) :
                        x = <<p, i>> /\ net[p][i].seqno = s
    BY Zenon
  <2>1. PICK p \in Paths : \E i \in 1..Len(net[p]) : x = <<p, i>>
    BY <1>2, SlotsAre, Zenon
  <2>2. PICK i \in 1..Len(net[p]) : x = <<p, i>>
    BY <2>1, Zenon
  <2>3. net[p][i].seqno = s
    BY <1>1, <2>2, Zenon
  <2> QED BY <2>2, <2>3, Zenon
<1>4. ASSUME NEW x \in SlotsOf(s), NEW y \in SlotsOf(s) PROVE x = y
  <2>1. PICK p \in Paths :
          \E i \in 1..Len(net[p]) : x = <<p, i>> /\ net[p][i].seqno = s
    BY <1>3, Zenon
  <2>2. PICK i \in 1..Len(net[p]) : x = <<p, i>> /\ net[p][i].seqno = s
    BY <2>1, Zenon
  <2>3. PICK q \in Paths :
          \E j \in 1..Len(net[q]) : y = <<q, j>> /\ net[q][j].seqno = s
    BY <1>3, Zenon
  <2>4. PICK j \in 1..Len(net[q]) : y = <<q, j>> /\ net[q][j].seqno = s
    BY <2>3, Zenon
  <2>5. net[p][i].seqno = net[q][j].seqno
    BY <2>2, <2>4, Zenon
  <2> QED BY <2>2, <2>4, <2>5, SlotNumbers, Zenon
<1>5. ASSUME NEW x \in SlotsOf(s) PROVE s \in NosIn(net)
  <2>1. PICK p \in Paths :
          \E i \in 1..Len(net[p]) : x = <<p, i>> /\ net[p][i].seqno = s
    BY <1>3, Zenon
  <2>2. PICK i \in 1..Len(net[p]) : net[p][i].seqno = s
    BY <2>1, Zenon
  <2> QED BY <2>2, SlotNumbers, Zenon
<1>6. ASSUME s \in NosIn(net) PROVE \E x : x \in SlotsOf(s)
  <2>1. PICK p \in Paths : s \in NosOf(net[p])
    BY <1>6, Zenon DEF NosIn
  <2>2. PICK i \in 1..Len(net[p]) : s = net[p][i].seqno
    BY <2>1, Zenon DEF NosOf, Elems, Numbers
  <2> QED BY <1>1, <2>2, Zenon
<1> QED BY <1>4, <1>5, <1>6, OneOrNone, Zenon

\* The headers that carry one number are one or none.
LEMMA CountHdrsOf ==
  ASSUME Distinct(hdr, Len(hdr)), NEW s
  PROVE  Cardinality(HdrsOf(s)) = IF s \in HdrNos THEN 1 ELSE 0
<1>1. \A x, y \in HdrsOf(s) : x = y
  BY Zenon DEF HdrsOf, Distinct
<1>2. (\E x : x \in HdrsOf(s)) <=> s \in HdrNos
  BY Zenon DEF HdrsOf, HdrNos, Elems
<1> QED BY <1>1, <1>2, OneOrNone, Zenon

\* The nacks that carry one number are one or none.
LEMMA CountNacksOf ==
  ASSUME OneEach(Nacks), NEW s
  PROVE  Cardinality(NacksOf(s)) = IF s \in Acknos(Nacks) THEN 1 ELSE 0
<1>1. \A x, y \in NacksOf(s) : x = y
  BY Zenon DEF NacksOf, OneEach
<1>2. (\E x : x \in NacksOf(s)) <=> s \in Acknos(Nacks)
  BY Zenon DEF NacksOf, Acknos
<1> QED BY <1>1, <1>2, OneOrNone, Zenon

\* Nothing is lost and nothing is doubled: a packet that was sent is in transit
\* once, as a full packet, a header or a NACK, or it waits to be sent again, or
\* the sink has it, and never two of these.
THEOREM LiveCopyIsOne == Spec => []OneLiveCopy
<1>1. ASSUME ConservationInv PROVE OneLiveCopy
  <2>1. /\ OneEach(Nacks) /\ NoneTwiceIn(net) /\ Distinct(hdr, Len(hdr))
        /\ Placed(NosIn(net), HdrNos, Acknos(Nacks), rtx_queue, Arrived, highest_sent)
    BY <1>1, Zenon DEF ConservationInv, PlaceBooks, Books
  <2> SUFFICES ASSUME NEW s \in 1..highest_sent
               PROVE  LET waiting == s \in rtx_queue
                          arrived == s <= cumulative_ack \/ s \in received
                      IN  IF waiting \/ arrived
                          THEN CopiesInTransit(s) = 0 /\ ~(waiting /\ arrived)
                          ELSE CopiesInTransit(s) = 1
    BY Zenon DEF OneLiveCopy
  <2>2. CopiesInTransit(s) = Cardinality(SlotsOf(s)) + Cardinality(HdrsOf(s))
                             + Cardinality(NacksOf(s))
    BY Zenon DEF CopiesInTransit, SlotsOf, HdrsOf, NacksOf
  <2>3. CopiesInTransit(s) = (IF s \in NosIn(net) THEN 1 ELSE 0)
                             + (IF s \in HdrNos THEN 1 ELSE 0)
                             + (IF s \in Acknos(Nacks) THEN 1 ELSE 0)
    BY <2>1, <2>2, CountSlotsOf, CountHdrsOf, CountNacksOf, Zenon
  <2>4. s \in Arrived <=> (s <= cumulative_ack \/ s \in received)
    <3>1. highest_sent \in Int /\ cumulative_ack \in Int
      BY <1>1, SizeAssumption DEF ConservationInv, TypeInv, TypeOK
    <3>2. s \in 1..cumulative_ack <=> s <= cumulative_ack
      BY <3>1, SMT
    <3> QED BY <3>2, Zenon DEF Arrived
  <2>5. \/ s \in NosIn(net) \/ s \in HdrNos \/ s \in Acknos(Nacks)
        \/ s \in rtx_queue \/ s \in Arrived
    BY <2>1, Zenon DEF Placed
  <2>6. CASE s \in NosIn(net)
    <3>1. s \notin HdrNos /\ s \notin Acknos(Nacks) /\ s \notin rtx_queue /\ s \notin Arrived
      BY <2>1, <2>6, Zenon DEF Placed
    <3>2. CopiesInTransit(s) = 1
      BY <2>3, <2>6, <3>1
    <3> QED BY <2>4, <3>1, <3>2, Zenon
  <2>7. CASE s \in HdrNos
    <3>1. s \notin NosIn(net) /\ s \notin Acknos(Nacks) /\ s \notin rtx_queue /\ s \notin Arrived
      BY <2>1, <2>7, Zenon DEF Placed
    <3>2. CopiesInTransit(s) = 1
      BY <2>3, <2>7, <3>1
    <3> QED BY <2>4, <3>1, <3>2, Zenon
  <2>8. CASE s \in Acknos(Nacks)
    <3>1. s \notin NosIn(net) /\ s \notin HdrNos /\ s \notin rtx_queue /\ s \notin Arrived
      BY <2>1, <2>8, Zenon DEF Placed
    <3>2. CopiesInTransit(s) = 1
      BY <2>3, <2>8, <3>1
    <3> QED BY <2>4, <3>1, <3>2, Zenon
  <2>9. CASE s \in rtx_queue \/ s \in Arrived
    <3>1. /\ s \notin NosIn(net) /\ s \notin HdrNos /\ s \notin Acknos(Nacks)
          /\ ~(s \in rtx_queue /\ s \in Arrived)
      BY <2>1, <2>9, Zenon DEF Placed
    <3>2. CopiesInTransit(s) = 0
      BY <2>3, <3>1
    <3> QED BY <2>4, <2>9, <3>1, <3>2, Zenon
  <2> QED BY <2>5, <2>6, <2>7, <2>8, <2>9, Zenon
<1> QED BY <1>1, InitConservation, NextConservation, PTL DEF Spec

-----------------------------------------------------------------------------
(* Flowcut routing *)

\* The path changes only in a send that opens a flowcut, and a flowcut opens
\* only when nothing is in flight.
FlowcutBooks == (first_flowcut => flight_size = 0) /\ OneFlowcutInFlight

FlowcutInv == ConservationInv /\ FlowcutBooks

\* The step that SwitchOnlyWhenDrained is about.
SwitchStep ==
  last_flowlet_choice' # last_flowlet_choice =>
    /\ NetSlots = {} /\ hdr = <<>> /\ rtx_queue = {} /\ Nacks = {}
    /\ Acks \subseteq rev \ rev'

\* Packets in the network n are on the paths of a flowcut.
OnPathOf(n, choice) ==
  \A p \in Paths : n[p] # <<>> => p \in {choice, NewPathid(choice)}

\* Under flowcut routing the entropy chosen is the one before, unless a flowcut
\* opens or nothing has been received yet.
LEMMA FlowcutChoice ==
  ASSUME Routing = "flowcut", NEW once \in BOOLEAN, NEW first \in BOOLEAN,
         NEW choice \in Paths, NEW r \in choose_route(once, first, choice)
  PROVE  /\ r.path = r.choice /\ r.choice \in Paths
         /\ r.choice # choice => first \/ ~once
         /\ r.first => first /\ ~once
<1>0. "flowcut" # "ecmp" /\ "flowcut" # "flowlet"
  OBVIOUS
<1>1. CASE ~once
  <2>1. r = Route(FromPath, first, FromPath)
    BY <1>0, <1>1, Zenon DEF choose_route
  <2> QED BY <1>1, <2>1, PathsAssumption DEF Route
<1>2. CASE once /\ first
  <2>1. PICK p \in Paths : r = Route(p, FALSE, p)
    BY <1>0, <1>2, Zenon DEF choose_route
  <2> QED BY <1>2, <2>1 DEF Route
<1>3. CASE once /\ ~first
  <2>1. r = Route(choice, FALSE, choice)
    BY <1>0, <1>3, Zenon DEF choose_route
  <2> QED BY <1>3, <2>1 DEF Route
<1> QED BY <1>1, <1>2, <1>3, Zenon

\* Sending touches two queues.
LEMMA TransmitPaths ==
  ASSUME net \in [Paths -> Seq(DataPackets)], NEW p \in Paths, NEW rs, NEW new,
         NEW n \in Transmit(p, rs, new), NEW w \in Paths, w # p, w # NewPathid(p)
  PROVE  n[w] = net[w]
<1>1. PICK q : n = [[net EXCEPT ![p] = q] EXCEPT ![NewPathid(p)] = @ \o new]
  BY Zenon DEF Transmit
<1> QED BY <1>1, Zenon

\* A burst with a settled path choice stays on one path.
LEMMA BurstOneFlowcut ==
  ASSUME Routing = "flowcut", SendTypeOK, NEW rtxq, NEW burst, NEW flight,
         NEW once \in BOOLEAN, NEW first \in BOOLEAN, NEW choice \in Paths,
         OnPathOf(net, choice),
         first \/ ~once => \A p \in Paths : net[p] = <<>>,
         SendBurst(burst, rtxq, flight, once, first, choice)
  PROVE  /\ OneFlowcutInFlight'
         /\ last_flowlet_choice' # choice => first \/ ~once
         /\ first_flowcut' => first /\ (burst = 0 \/ ~once)
<1>1. CASE burst = 0
  <2>1. net' = net /\ first_flowcut' = first /\ last_flowlet_choice' = choice
    BY <1>1, Zenon DEF SendBurst
  <2> QED BY <1>1, <2>1, Zenon DEF OneFlowcutInFlight, OnPathOf
<1>2. CASE burst # 0
  <2> DEFINE again == Smaller(burst, Cardinality(rtxq))
             fresh == burst - again
             new   == [j \in 1..fresh |-> Data(highest_sent + j, FALSE)]
             rs(f) == [j \in 1..again |-> Data(f[j], TRUE)]
  <2>0. PICK f \in Lowest(rtxq, again), r \in choose_route(once, first, choice) :
          /\ net' \in Transmit(r.path, rs(f), new)
          /\ first_flowcut' = r.first /\ last_flowlet_choice' = r.choice
    BY <1>2, Zenon DEF SendBurst
  <2>1. PICK sent : net' \in Transmit(r.path, sent, new)
    BY <2>0, Zenon
  <2> HIDE DEF again, fresh, new, rs
  <2>2. /\ r.path = r.choice /\ r.choice \in Paths
        /\ r.choice # choice => first \/ ~once
        /\ r.first => first /\ ~once
    BY FlowcutChoice, Zenon
  <2>3. ASSUME NEW w \in Paths, net'[w] # <<>>
        PROVE  w \in {r.choice, NewPathid(r.choice)}
    <3>1. CASE w # r.path /\ w # NewPathid(r.path)
      <4>0. net \in [Paths -> Seq(DataPackets)] /\ r.path \in Paths
        BY <2>2, Zenon DEF SendTypeOK
      <4>1. PICK n \in Transmit(r.path, sent, new) : n = net'
        BY <2>1, Zenon
      <4>2. n[w] = net[w]
        BY <3>1, <4>0, TransmitPaths
      <4>3. net[w] # <<>>
        BY <2>3, <4>1, <4>2, Zenon
      <4>4. r.choice = choice
        BY <2>2, <4>3, Zenon
      <4> QED BY <4>3, <4>4, Zenon DEF OnPathOf
    <3> QED BY <2>2, <3>1, Zenon
  <2>4. OneFlowcutInFlight'
    BY <2>0, <2>3, Zenon DEF OneFlowcutInFlight
  <2> QED BY <2>0, <2>2, <2>4, Zenon
<1> QED BY <1>1, <1>2, Zenon

\* The handlers that send leave the flow on one path, and change it only if
\* they open a flowcut.
LEMMA SendsOneFlowcut ==
  ASSUME Routing = "flowcut", PullTypeOK, NEW no \in Nat, NEW rtxq \in SUBSET Packets,
         NEW flight \in 0..UintMax, NEW first \in BOOLEAN, NEW choice \in Paths,
         NEW stop \in BOOLEAN, OnPathOf(net, choice),
         first => flight = 0 /\ \A p \in Paths : net[p] = <<>>,
         Sends(no, rtxq, flight, first, choice, stop)
  PROVE  FlowcutBooks' /\ (last_flowlet_choice' # choice => first)
<1>1. CASE NothingSent(rtxq, flight, first, choice)
  BY <1>1, Zenon DEF NothingSent, FlowcutBooks, OneFlowcutInFlight, OnPathOf
<1>2. CASE pull_packets(no, rtxq, flight, first, choice, stop)
  <2> DEFINE burst == IF stop THEN 0 ELSE Smaller(Larger(max_pull, no) - last_pull,
                                                  Unsent(rtxq))
  <2>1. SendBurst(burst, rtxq, flight, TRUE, first, choice)
    BY <1>2, Zenon DEF pull_packets
  <2> HIDE DEF burst
  <2>2. PICK once \in BOOLEAN : once = TRUE
    BY Zenon
  <2>3. /\ SendTypeOK /\ SendBurst(burst, rtxq, flight, once, first, choice)
        /\ first \/ ~once => \A p \in Paths : net[p] = <<>>
    BY <2>1, <2>2, Zenon DEF PullTypeOK
  <2>4. /\ OneFlowcutInFlight'
        /\ last_flowlet_choice' # choice => first \/ ~once
        /\ first_flowcut' => first /\ (burst = 0 \/ ~once)
    BY <2>3, BurstOneFlowcut
  <2>5. /\ OneFlowcutInFlight'
        /\ last_flowlet_choice' # choice => first
        /\ first_flowcut' => first /\ burst = 0
    BY <2>2, <2>4, Zenon
  <2>6. burst = 0 => flight_size' = flight
    <3> SUFFICES ASSUME burst = 0 PROVE flight_size' = flight
      OBVIOUS
    <3>1. flight_size' = Plus(flight, 0 - Smaller(0, Cardinality(rtxq)))
      BY <2>1, Zenon DEF SendBurst
    <3>2. Cardinality(rtxq) \in Nat
      BY PacketSets
    <3>3. 0 - Smaller(0, Cardinality(rtxq)) = 0
      BY <3>2, SMT DEF Smaller
    <3>4. Plus(flight, 0) = flight
      BY SizeAssumption, SMT DEF Plus
    <3> QED BY <3>1, <3>3, <3>4, Zenon
  <2> QED BY <2>5, <2>6, Zenon DEF FlowcutBooks
<1> QED BY <1>1, <1>2, Zenon DEF Sends

\* If nothing is in flight, nothing is anywhere.
LEMMA BooksZero ==
  ASSUME NEW N, NEW H, NEW K, NEW R, NEW A, NEW C, NEW h, NEW flight, NEW credit,
         Books(N, H, K, R, A, C, h, flight, credit), flight = 0
  PROVE  N = {} /\ H = {} /\ K = {} /\ R = {} /\ C = {}
<1>1. /\ IsFiniteSet(InFlightOf(N, H, K, R, C))
      /\ Cardinality(InFlightOf(N, H, K, R, C)) = 0
  BY InFlightIsSent, Zenon DEF Books
<1>2. InFlightOf(N, H, K, R, C) = {}
  BY <1>1, FS_EmptySet, Zenon
<1> QED BY <1>2, Zenon DEF InFlightOf

\* A network without numbers is empty.
LEMMA EmptyNet ==
  ASSUME TypeOK, NosIn(net) = {}
  PROVE  NetSlots = {} /\ \A p \in Paths : net[p] = <<>>
<1>1. \A p \in Paths : \A i \in 1..Len(net[p]) : net[p][i].seqno \in NosIn(net)
  <2>1. \A p \in Paths : \A i \in 1..Len(net[p]) : Numbers(net[p])[i] = net[p][i].seqno
    BY Zenon DEF Numbers
  <2>2. \A p \in Paths : \A i \in 1..Len(net[p]) : net[p][i].seqno \in NosOf(net[p])
    BY <2>1, Zenon DEF NosOf, Elems
  <2> QED BY <2>2, Zenon DEF NosIn
<1>2. ASSUME NEW p \in Paths PROVE net[p] = <<>>
  <2>1. net[p] \in Seq(DataPackets)
    BY DEF TypeOK
  <2>2. Len(net[p]) \in Nat /\ (Len(net[p]) = 0 => net[p] = <<>>)
    BY <2>1, EmptySeq, LenProperties
  <2>3. Len(net[p]) # 0 => 1 \in 1..Len(net[p])
    BY <2>2, SMT
  <2> QED BY <1>1, <2>2, <2>3, Zenon
<1>3. NetSlots = {}
  BY <1>1, SlotsAre, Zenon
<1> QED BY <1>2, <1>3, Zenon

\* With an empty set of numbers there is no header and no NACK.
LEMMA NoneLeft ==
  ASSUME TypeOK
  PROVE  /\ HdrNos = {} => hdr = <<>>
         /\ Acknos(Nacks) = {} => Nacks = {}
         /\ Acknos(Acks) = {} => Acks = {}
<1>1. hdr \in Seq(Packets)
  BY DEF TypeOK
<1>2. Len(hdr) \in Nat /\ (Len(hdr) = 0 => hdr = <<>>)
  BY <1>1, EmptySeq, LenProperties
<1>3. Len(hdr) # 0 => 1 \in 1..Len(hdr)
  BY <1>2, SMT
<1>4. HdrNos = {} => hdr = <<>>
  BY <1>2, <1>3, Zenon DEF HdrNos, Elems
<1> QED BY <1>4, Zenon DEF Acknos

\* What the invariant says of a source with nothing in flight.
LEMMA NothingInFlight ==
  ASSUME ConservationInv, flight_size = 0
  PROVE  /\ NetSlots = {} /\ hdr = <<>> /\ rtx_queue = {} /\ Nacks = {} /\ Acks = {}
         /\ \A p \in Paths : net[p] = <<>>
<1>1. /\ Books(NosIn(net), HdrNos, Acknos(Nacks), rtx_queue, Arrived, Acknos(Acks),
               highest_sent, flight_size, Credit)
      /\ TypeOK
  BY Zenon DEF ConservationInv, PlaceBooks, TypeInv
<1>2. /\ NosIn(net) = {} /\ HdrNos = {} /\ Acknos(Nacks) = {} /\ rtx_queue = {}
      /\ Acknos(Acks) = {}
  BY <1>1, BooksZero
<1> QED BY <1>1, <1>2, EmptyNet, NoneLeft, Zenon

\* What it says once the ACK m is taken off.
LEMMA NothingButAck ==
  ASSUME ConservationInv, NEW m \in Acks
  PROVE  /\ flight_size > 0 /\ MinusOne(flight_size) \in 0..UintMax
         /\ MinusOne(flight_size) = 0 =>
              /\ NetSlots = {} /\ hdr = <<>> /\ rtx_queue = {} /\ Nacks = {}
              /\ Acks \subseteq {m}
              /\ \A p \in Paths : net[p] = <<>>
<1>1. /\ Books(NosIn(net), HdrNos, Acknos(Nacks), rtx_queue, Arrived, Acknos(Acks),
               highest_sent, flight_size, Credit)
      /\ OneEach(Acks) /\ TypeOK
  BY Zenon DEF ConservationInv, PlaceBooks, TypeInv
<1>2. m.ackno \in Acknos(Acks)
  BY Zenon DEF Acknos
<1>3. /\ flight_size > 0
      /\ Books(NosIn(net), HdrNos, Acknos(Nacks), rtx_queue, Arrived,
               Acknos(Acks) \ {m.ackno}, highest_sent, flight_size - 1, Credit)
  BY <1>1, <1>2, BooksAck
<1>4. MinusOne(flight_size) = flight_size - 1 /\ MinusOne(flight_size) \in 0..UintMax
  BY <1>1, <1>3, SizeAssumption DEF MinusOne, TypeOK
<1>5. ASSUME MinusOne(flight_size) = 0
      PROVE  /\ NetSlots = {} /\ hdr = <<>> /\ rtx_queue = {} /\ Nacks = {}
             /\ Acks \subseteq {m}
             /\ \A p \in Paths : net[p] = <<>>
  <2>1. /\ NosIn(net) = {} /\ HdrNos = {} /\ Acknos(Nacks) = {} /\ rtx_queue = {}
        /\ Acknos(Acks) \ {m.ackno} = {}
    <3>1. PICK C : C = Acknos(Acks) \ {m.ackno}
      BY Zenon
    <3>2. PICK fl : fl = flight_size - 1
      BY Zenon
    <3>3. /\ Books(NosIn(net), HdrNos, Acknos(Nacks), rtx_queue, Arrived, C,
                   highest_sent, fl, Credit)
          /\ fl = 0
      BY <1>3, <1>4, <1>5, <3>1, <3>2, Zenon
    <3>4. /\ NosIn(net) = {} /\ HdrNos = {} /\ Acknos(Nacks) = {} /\ rtx_queue = {}
          /\ C = {}
      BY <3>3, BooksZero
    <3> QED BY <3>1, <3>4, Zenon
  <2>2. ASSUME NEW a \in Acks
        PROVE  a \in {m}
    <3>1. a.ackno \in Acknos(Acks)
      BY Zenon DEF Acknos
    <3>2. a.ackno = m.ackno
      BY <2>1, <3>1, Zenon
    <3> QED BY <1>1, <3>2, Zenon DEF OneEach
  <2> QED BY <1>1, <2>1, <2>2, EmptyNet, NoneLeft, Zenon
<1> QED BY <1>3, <1>4, <1>5, Zenon

\* An ack keeps the flow on one path, and lets it switch only with an empty flight.
LEMMA ReceiveAckFlowcut ==
  ASSUME Routing = "flowcut", FlowcutInv, NEW m \in rev, NEW congested \in BOOLEAN,
         ReceiveAck(m, congested)
  PROVE  FlowcutBooks' /\ SwitchStep
<1> DEFINE flight   == MinusOne(flight_size)
           stop     == \/ stop_sending
                       \/ FlowcutMode = 1 /\ congested /\ flight_size # 0
                       \/ FlowcutMode = 0 /\ congested /\ Routing = "flowcut"
           drained  == Drained(stop, flight)
           first    == drained \/ first_flowcut
           stopping == stop /\ ~drained
<1>1. /\ m \in Acks
      /\ rev' = rev \ {m}
      /\ IF ~Done(m) /\ Pulls(m, drained)
         THEN pull_packets(PullNo(m), rtx_queue, flight, first,
                           last_flowlet_choice, stopping)
         ELSE NothingSent(rtx_queue, flight, first, last_flowlet_choice)
  BY Zenon DEF ReceiveAck
<1>2. Sends(PullNo(m), rtx_queue, flight, first, last_flowlet_choice, stopping)
  BY <1>1, Zenon DEF Sends
<1>3. drained \in BOOLEAN /\ stopping \in BOOLEAN /\ first \in BOOLEAN
  BY Zenon DEF FlowcutInv, ConservationInv, TypeInv, TypeOK, Drained
<1>4. ConservationInv /\ FlowcutBooks
  BY Zenon DEF FlowcutInv
<1>5. /\ flight_size > 0 /\ flight \in 0..UintMax
      /\ flight = 0 =>
           /\ NetSlots = {} /\ hdr = <<>> /\ rtx_queue = {} /\ Nacks = {}
           /\ Acks \subseteq {m}
           /\ \A p \in Paths : net[p] = <<>>
  BY <1>1, <1>4, NothingButAck, Zenon
<1>6. first => flight = 0
  <2>1. flight_size # 0
    BY <1>5, SizeAssumption DEF FlowcutInv, ConservationInv, TypeInv, TypeOK
  <2>2. ~first_flowcut
    BY <1>4, <2>1, Zenon DEF FlowcutBooks
  <2> QED BY <2>2, Zenon DEF Drained
<1> HIDE DEF flight, stop, drained, first, stopping
<1>7. PullNo(m) \in Nat
  <2>1. TypeOK /\ m.type = "ACK"
    BY <1>1, <1>4, Zenon DEF ConservationInv, TypeInv, Acks
  <2> QED BY <2>1, MessageType
<1>8. /\ PullTypeOK /\ rtx_queue \in SUBSET Packets /\ last_flowlet_choice \in Paths
      /\ OnPathOf(net, last_flowlet_choice)
  BY <1>4, Zenon DEF ConservationInv, PullTypeOK, SendTypeOK, TypeInv, TypeOK,
                     FlowcutBooks, OneFlowcutInFlight, OnPathOf
<1>9. FlowcutBooks' /\ (last_flowlet_choice' # last_flowlet_choice => first)
  BY <1>2, <1>3, <1>5, <1>6, <1>7, <1>8, SendsOneFlowcut
<1>10. SwitchStep
  BY <1>1, <1>5, <1>6, <1>9, Zenon DEF SwitchStep
<1> QED BY <1>9, <1>10, Zenon

\* A nack keeps the flow on one path and never switches it.
LEMMA ReceiveNackFlowcut ==
  ASSUME Routing = "flowcut", FlowcutInv, NEW m \in rev, ReceiveNack(m)
  PROVE  FlowcutBooks' /\ SwitchStep
<1> DEFINE rtxq == rtx_queue \union {m.ackno}
<1>1. m \in Nacks
  BY Zenon DEF ReceiveNack
<1>2. PICK r \in choose_route(TRUE, first_flowcut, last_flowlet_choice) :
        IF m.pull \/ last_pull < max_pull
        THEN pull_packets(PullNo(m), rtxq, flight_size, r.first, r.choice, stop_sending)
        ELSE NothingSent(rtxq, flight_size, r.first, r.choice)
  BY Zenon DEF ReceiveNack
<1>3. Sends(PullNo(m), rtxq, flight_size, r.first, r.choice, stop_sending)
  BY <1>2, Zenon DEF Sends
<1>4. ConservationInv /\ FlowcutBooks /\ TypeOK
  BY Zenon DEF FlowcutInv, ConservationInv, TypeInv
<1>5. ~first_flowcut
  <2>1. flight_size # 0
    BY <1>1, <1>4, NothingInFlight, Zenon
  <2> QED BY <1>4, <2>1, Zenon DEF FlowcutBooks
<1>6. r.first = FALSE /\ r.choice = last_flowlet_choice
  <2>0. "flowcut" # "ecmp" /\ "flowcut" # "flowlet"
    OBVIOUS
  <2>1. r = Route(last_flowlet_choice, FALSE, last_flowlet_choice)
    BY <1>2, <1>5, <2>0, Zenon DEF choose_route
  <2> QED BY <2>1 DEF Route
<1>7. m.ackno \in Packets /\ PullNo(m) \in Nat
  <2>1. m.type = "NACK"
    BY <1>1, Zenon DEF Nacks
  <2> QED BY <1>4, <2>1, MessageType
<1>8. /\ PullTypeOK /\ rtxq \in SUBSET Packets /\ flight_size \in 0..UintMax
      /\ last_flowlet_choice \in Paths /\ stop_sending \in BOOLEAN
      /\ OnPathOf(net, last_flowlet_choice)
  BY <1>4, <1>7, Zenon DEF ConservationInv, PullTypeOK, SendTypeOK, TypeInv, TypeOK,
                           FlowcutBooks, OneFlowcutInFlight, OnPathOf
<1> HIDE DEF rtxq
<1>9. PICK first \in BOOLEAN : first = FALSE
  BY Zenon
<1>10. /\ Sends(PullNo(m), rtxq, flight_size, first, last_flowlet_choice, stop_sending)
       /\ first => flight_size = 0 /\ \A p \in Paths : net[p] = <<>>
  BY <1>3, <1>6, <1>9, Zenon
<1>11. FlowcutBooks' /\ (last_flowlet_choice' # last_flowlet_choice => first)
  BY <1>7, <1>8, <1>10, SendsOneFlowcut
<1> QED BY <1>9, <1>11, Zenon DEF SwitchStep

\* A pull keeps the flow on one path and never switches it.
LEMMA ReceivePullFlowcut ==
  ASSUME Routing = "flowcut", FlowcutInv, NEW m \in rev, ReceivePull(m)
  PROVE  FlowcutBooks' /\ SwitchStep
<1>1. /\ m.type = "PULL"
      /\ pull_packets(m.no, rtx_queue, flight_size, first_flowcut,
                      last_flowlet_choice, stop_sending)
  BY Zenon DEF ReceivePull
<1>2. Sends(m.no, rtx_queue, flight_size, first_flowcut, last_flowlet_choice,
            stop_sending)
  BY <1>1, Zenon DEF Sends
<1>3. ConservationInv /\ FlowcutBooks /\ TypeOK
  BY Zenon DEF FlowcutInv, ConservationInv, TypeInv
<1>4. m.no \in Nat
  BY <1>1, <1>3, MessageType
<1>5. /\ PullTypeOK /\ rtx_queue \in SUBSET Packets /\ flight_size \in 0..UintMax
      /\ first_flowcut \in BOOLEAN /\ last_flowlet_choice \in Paths
      /\ stop_sending \in BOOLEAN /\ OnPathOf(net, last_flowlet_choice)
  BY <1>3, Zenon DEF ConservationInv, PullTypeOK, SendTypeOK, TypeInv, TypeOK,
                     FlowcutBooks, OneFlowcutInFlight, OnPathOf
<1>6. first_flowcut =>
        /\ flight_size = 0 /\ NetSlots = {} /\ hdr = <<>> /\ rtx_queue = {}
        /\ Nacks = {} /\ Acks = {} /\ \A p \in Paths : net[p] = <<>>
  BY <1>3, NothingInFlight, Zenon DEF FlowcutBooks
<1>7. FlowcutBooks' /\ (last_flowlet_choice' # last_flowlet_choice => first_flowcut)
  BY <1>2, <1>4, <1>5, <1>6, SendsOneFlowcut
<1> QED BY <1>6, <1>7, Zenon DEF SwitchStep

\* The first window goes out on one path.
LEMMA StartFlowFlowcut ==
  ASSUME Routing = "flowcut", FlowcutInv, StartFlow
  PROVE  FlowcutBooks' /\ SwitchStep
<1>1. /\ ~started
      /\ SendBurst(InitialWindow, rtx_queue, 0, received_once, first_flowcut,
                   last_flowlet_choice)
  BY Zenon DEF StartFlow
<1>2. ConservationInv /\ SendTypeOK /\ received_once \in BOOLEAN
      /\ first_flowcut \in BOOLEAN /\ last_flowlet_choice \in Paths
  BY Zenon DEF FlowcutInv, ConservationInv, TypeInv, TypeOK, SendTypeOK
<1>3. /\ rtx_queue = {} /\ Nacks = {} /\ Acks = {} /\ hdr = <<>> /\ NosIn(net) = {}
      /\ \A p \in Paths : net[p] = <<>>
  BY <1>1, <1>2, NothingYet, Zenon
<1>4. ~first_flowcut /\ TypeOK
  BY <1>1, <1>2, Zenon DEF ConservationInv, PullBooks, TypeInv
<1>5. NetSlots = {} /\ OnPathOf(net, last_flowlet_choice)
  BY <1>3, <1>4, EmptyNet, Zenon DEF OnPathOf
<1>6. OneFlowcutInFlight' /\ ~first_flowcut'
  <2>1. first_flowcut \/ ~received_once => \A p \in Paths : net[p] = <<>>
    BY <1>3, Zenon
  <2>2. /\ OneFlowcutInFlight'
        /\ first_flowcut' => first_flowcut /\ (InitialWindow = 0 \/ ~received_once)
    BY <1>1, <1>2, <1>5, <2>1, BurstOneFlowcut
  <2> QED BY <1>4, <2>2, Zenon
<1> QED BY <1>3, <1>5, <1>6, Zenon DEF FlowcutBooks, SwitchStep

\* The other steps leave the source alone, and only take packets away.
LEMMA OthersFlowcut ==
  ASSUME FlowcutBooks, first_flowcut' = first_flowcut, flight_size' = flight_size,
         last_flowlet_choice' = last_flowlet_choice,
         \A p \in Paths : net'[p] # <<>> => net[p] # <<>>
  PROVE  FlowcutBooks' /\ SwitchStep
BY Zenon DEF FlowcutBooks, OneFlowcutInFlight, SwitchStep

\* The arrival of a packet leaves the paths of the others alone.
LEMMA DataFlowcut ==
  ASSUME FlowcutInv, NEW p \in Paths, NEW busy \in BOOLEAN, ReceiveData(p, busy)
  PROVE  FlowcutBooks' /\ SwitchStep
<1>1. /\ net[p] # <<>> /\ net' = [net EXCEPT ![p] = Tail(@)] /\ UNCHANGED srcVars
  BY Zenon DEF ReceiveData
<1>2. \A w \in Paths : w # p => net'[w] = net[w]
  BY <1>1, Zenon DEF FlowcutInv, ConservationInv, TypeInv, TypeOK
<1>3. \A w \in Paths : net'[w] # <<>> => net[w] # <<>>
  BY <1>1, <1>2, Zenon
<1> QED BY <1>1, <1>3, OthersFlowcut, Zenon DEF FlowcutInv, srcVars, sendVars, routeVars

\* A trim leaves the paths of the others alone.
LEMMA TrimFlowcut ==
  ASSUME FlowcutInv, NEW p \in Paths, NEW i \in 1..Len(net[p]), Trim(p, i)
  PROVE  FlowcutBooks' /\ SwitchStep
<1>1. /\ net' = [net EXCEPT ![p] = RemoveAt(@, i)] /\ UNCHANGED srcVars
  BY Zenon DEF Trim
<1>2. \A w \in Paths : w # p => net'[w] = net[w]
  BY <1>1, Zenon DEF FlowcutInv, ConservationInv, TypeInv, TypeOK
<1>3. net[p] # <<>>
  BY EmptySeq
<1>4. \A w \in Paths : net'[w] # <<>> => net[w] # <<>>
  BY <1>2, <1>3, Zenon
<1> QED BY <1>1, <1>4, OthersFlowcut, Zenon DEF FlowcutInv, srcVars, sendVars, routeVars

\* The arrival of a header leaves the network alone.
LEMMA HeaderFlowcut ==
  ASSUME FlowcutInv, NEW i \in 1..Len(hdr), NEW busy \in BOOLEAN, ReceiveHeader(i, busy)
  PROVE  FlowcutBooks' /\ SwitchStep
<1>1. net' = net /\ UNCHANGED srcVars
  BY Zenon DEF ReceiveHeader
<1> QED BY <1>1, OthersFlowcut, Zenon DEF FlowcutInv, srcVars, sendVars, routeVars

\* The pacer leaves the network alone.
LEMMA PacerFlowcut ==
  ASSUME FlowcutInv, PacerTimeout
  PROVE  FlowcutBooks' /\ SwitchStep
<1>1. net' = net /\ UNCHANGED srcVars
  BY Zenon DEF PacerTimeout
<1> QED BY <1>1, OthersFlowcut, Zenon DEF FlowcutInv, srcVars, sendVars, routeVars

\* The flowcut books are in order at the start.
LEMMA InitFlowcut == Init => FlowcutInv
BY InitConservation DEF Init, FlowcutInv, FlowcutBooks, OneFlowcutInFlight

\* Every step keeps the flowcut books, and switches path only when drained.
LEMMA NextFlowcut ==
  Routing = "flowcut" /\ FlowcutInv /\ [Next]_vars =>
    FlowcutInv' /\ [SwitchStep]_vars
<1> SUFFICES ASSUME Routing = "flowcut", FlowcutInv, [Next]_vars
             PROVE  FlowcutInv' /\ [SwitchStep]_vars
  OBVIOUS
<1>1. ConservationInv'
  BY NextConservation DEF FlowcutInv
<1>2. CASE StartFlow
  BY <1>1, <1>2, StartFlowFlowcut DEF FlowcutInv
<1>3. CASE DeliverReverse
  BY <1>1, <1>3, ReceiveAckFlowcut, ReceiveNackFlowcut, ReceivePullFlowcut
  DEF DeliverReverse, FlowcutInv
<1>4. CASE DeliverData
  BY <1>1, <1>4, DataFlowcut DEF DeliverData, FlowcutInv
<1>5. CASE DeliverHeader
  BY <1>1, <1>5, HeaderFlowcut DEF DeliverHeader, FlowcutInv
<1>6. CASE PacerTimeout
  BY <1>1, <1>6, PacerFlowcut DEF FlowcutInv
<1>7. CASE TrimSome
  BY <1>1, <1>7, TrimFlowcut DEF TrimSome, FlowcutInv
<1>8. CASE UNCHANGED vars
  <2>1. first_flowcut' = first_flowcut /\ flight_size' = flight_size /\ net' = net
        /\ last_flowlet_choice' = last_flowlet_choice
    BY <1>8, Zenon DEF vars, srcVars, sendVars, routeVars, sinkVars, netVars
  <2>2. FlowcutBooks'
    BY <2>1, Zenon DEF FlowcutInv, FlowcutBooks, OneFlowcutInFlight
  <2> QED BY <1>1, <1>8, <2>2, Zenon DEF FlowcutInv
<1> QED BY <1>2, <1>3, <1>4, <1>5, <1>6, <1>7, <1>8, Zenon DEF Next

\* Under flowcut routing all packets in transit travel on the path chosen last,
\* however many of them are trimmed and sent again, in every mode and for every
\* set of paths.
THEOREM OneFlowcut ==
  ASSUME Routing = "flowcut" PROVE Spec => []OneFlowcutInFlight
<1>1. FlowcutInv => OneFlowcutInFlight
  BY Zenon DEF FlowcutInv, FlowcutBooks
<1>2. FlowcutInv /\ [Next]_vars => FlowcutInv'
  BY NextFlowcut
<1> QED BY <1>1, <1>2, InitFlowcut, PTL DEF Spec

\* The path changes only when nothing of the flow is left in the network, among
\* the packets to send again or on the way back: the drain works with trimming.
THEOREM SwitchIsDrained ==
  ASSUME Routing = "flowcut" PROVE Spec => SwitchOnlyWhenDrained
<1>1. FlowcutInv /\ [Next]_vars => FlowcutInv'
  BY NextFlowcut
<1>2. FlowcutInv /\ [Next]_vars =>
        [last_flowlet_choice' # last_flowlet_choice =>
           /\ NetSlots = {} /\ hdr = <<>> /\ rtx_queue = {} /\ Nacks = {}
           /\ Acks \subseteq rev \ rev']_vars
  BY NextFlowcut, Zenon DEF SwitchStep
<1> QED BY <1>1, <1>2, InitFlowcut, PTL DEF Spec, SwitchOnlyWhenDrained

=============================================================================
