----------------------- MODULE DragonflyOrder_proofs -----------------------
(***************************************************************************)
(* The packets of a message reach the NIC of a dragonfly in the order they *)
(* were sent in (KeepsOrder), whatever the routing algorithm chooses, as   *)
(* long as no route of a message leads back to where it was (NoWayBack).   *)
(*                                                                         *)
(* The routers a message is at or has passed stand in a line, each one's   *)
(* hop leading to the next (Lined): a router is left out of it, and may    *)
(* choose another hop, only when no ACK is due to it, and by the books of  *)
(* the router (RouterBooks) nothing is out on its links then.  So all that *)
(* is in flight waits along one path, and what is further on has a lower   *)
(* number (Sorted); with what the NIC has and what the source will send    *)
(* the numbers have no gap (Between), so what the NIC gets next is what it *)
(* expects, and OrderInv is kept by every step.  The same line says that   *)
(* nothing is left between routers when the first one is free to choose    *)
(* another hop (ChoosesWhenDrained).                                       *)
(***************************************************************************)
EXTENDS DragonflyRouter_proofs

---------------------------------------------------------------------------
(* Routers in a line.  V are the routers a message is at or has passed, n  *)
(* the next router of each, R their rank, r0 the first and f the last.     *)

\* One router per rank, and every one but the last leads to one of them, no
\* further than the one that follows it.
Lined(V, n, R, f) ==
  \A r, x \in V : r # x =>
    /\ R[r] # R[x]
    /\ R[r] < R[x] => r # f /\ n[r] \in V /\ R[r] < R[n[r]] /\ R[n[r]] <= R[x]

Rooted(V, R, r0) == \A x \in V : r0 \in V /\ R[r0] <= R[x]

\* The pairs in P: the first router has sent something to the second.
Fed(V, P, n, R, r0) ==
  /\ \A x \in V : x = r0 \/ \E p \in V : <<p, x>> \in P
  /\ \A p, x \in Routers : <<p, x>> \in P => p \in V /\ n[p] = x /\ R[p] < R[x]

\* No router of V is behind r.
Top(V, R, r) == \A x \in V : R[x] <= R[r]

\* Two routers do not lead to the same one.
LEMMA OneBefore ==
  ASSUME NEW V \in SUBSET Routers, NEW n, NEW R \in [Routers -> Nat], NEW f,
         Lined(V, n, R, f), NEW p \in V, NEW r \in V, n[p] = n[r], R[p] < R[n[p]], R[r] < R[n[r]],
         n[p] \in Routers
  PROVE  p = r
<1>1. SUFFICES ASSUME p # r
               PROVE  FALSE
  BY Zenon
<1>2. R[p] \in Nat /\ R[r] \in Nat /\ R[n[p]] \in Nat
  BY Zenon
<1>3. R[p] # R[r]
  BY <1>1, Zenon DEF Lined
<1>4. R[p] < R[r] => R[n[p]] <= R[r]
  BY <1>1, Zenon DEF Lined
<1>5. R[r] < R[p] => R[n[r]] <= R[p]
  BY <1>1, Zenon DEF Lined
<1>6. R[n[r]] = R[n[p]] /\ R[r] < R[n[p]]
  BY Zenon
<1> QED BY <1>2, <1>3, <1>4, <1>5, <1>6, SMT

\* A router that has nothing out is the last of the line.
LEMMA IdleIsTop ==
  ASSUME NEW V \in SUBSET Routers, NEW P, NEW n, NEW R \in [Routers -> Nat], NEW f, NEW r0,
         Lined(V, n, R, f), Rooted(V, R, r0), Fed(V, P, n, R, r0),
         NEW r \in V, \A x \in Routers : <<r, x>> \notin P
  PROVE  Top(V, R, r)
<1>1. SUFFICES ASSUME NEW x \in V, ~(R[x] <= R[r])
               PROVE  FALSE
  BY Zenon DEF Top
<1>2. R[x] \in Nat /\ R[r] \in Nat
  BY Zenon
<1>3. R[r] < R[x] /\ r # x
  BY <1>1, <1>2, SMT
<1>4. n[r] \in V /\ R[r] < R[n[r]]
  BY <1>3, Zenon DEF Lined
<1>5. n[r] # r0
  <2>1. R[r0] <= R[r] /\ R[r0] \in Nat /\ R[n[r]] \in Nat
    BY <1>4, Zenon DEF Rooted
  <2> QED BY <1>2, <1>4, <2>1, SMT
<1>6. PICK p \in V : <<p, n[r]>> \in P
  BY <1>4, <1>5, Zenon DEF Fed
<1>7. p \in Routers /\ n[r] \in Routers
  BY <1>4, Zenon
<1>8. n[p] = n[r] /\ R[p] < R[n[p]]
  BY <1>6, <1>7, Zenon DEF Fed
<1>9. p = r
  BY <1>4, <1>7, <1>8, OneBefore, Zenon
<1> QED BY <1>6, <1>7, <1>9, Zenon

\* The next router of r joins the line.
LEMMA JoinsLine ==
  ASSUME NEW V \in SUBSET Routers, NEW n, NEW R \in [Routers -> Nat], NEW f, NEW r0,
         Lined(V, n, R, f), Rooted(V, R, r0),
         NEW r \in V, r # f, n[r] \in Routers, R[r] < R[n[r]]
  PROVE  Lined(V \union {n[r]}, n, R, f) /\ Rooted(V \union {n[r]}, R, r0)
<1> DEFINE y == n[r]
           W == V \union {y}
<1>1. CASE y \in V
  <2>1. W = V
    BY <1>1, Zenon
  <2> QED BY <2>1, Zenon
<1>2. CASE y \notin V
  <2>1. \A x \in W : R[x] \in Nat
    BY Zenon
  <2>2. ASSUME NEW x \in V
        PROVE  R[x] <= R[r] /\ R[x] < R[y]
    <3>1. R[x] <= R[r]
      <4>1. SUFFICES ASSUME R[r] < R[x]
                     PROVE  FALSE
        BY <2>1, SMT
      <4>2. r # x
        BY <2>1, <4>1, SMT
      <4> QED BY <1>2, <4>1, <4>2, Zenon DEF Lined
    <3> QED BY <2>1, <3>1, SMT
  <2>3. ASSUME NEW s \in W, NEW x \in W, s # x
        PROVE  /\ R[s] # R[x]
               /\ R[s] < R[x] => s # f /\ n[s] \in W /\ R[s] < R[n[s]] /\ R[n[s]] <= R[x]
    <3>1. CASE s \in V /\ x \in V
      BY <2>3, <3>1, Zenon DEF Lined
    <3>2. CASE s = y
      <4>1. x \in V
        BY <2>3, <3>2, Zenon
      <4> QED BY <2>1, <2>2, <3>2, <4>1, SMT
    <3>3. CASE s \in V /\ x = y
      <4>1. R[s] < R[x] /\ R[s] # R[x]
        BY <2>1, <2>2, <3>3, SMT
      <4>2. CASE s = r
        <5>1. R[y] <= R[y]
          BY <2>1, SMT
        <5> QED BY <3>3, <4>1, <4>2, <5>1, Zenon
      <4>3. CASE s # r
        <5>1. R[s] < R[r]
          <6>1. R[s] # R[r] /\ R[s] <= R[r]
            BY <2>2, <3>3, <4>3, Zenon DEF Lined
          <6> QED BY <2>1, <3>3, <6>1, SMT
        <5>2. s # f /\ n[s] \in V /\ R[s] < R[n[s]] /\ R[n[s]] <= R[r]
          BY <3>3, <4>3, <5>1, Zenon DEF Lined
        <5>3. R[n[s]] <= R[x]
          BY <2>1, <2>2, <3>3, <5>2, SMT
        <5> QED BY <4>1, <5>2, <5>3, Zenon
      <4> QED BY <4>2, <4>3, Zenon
    <3> QED BY <3>1, <3>2, <3>3, Zenon
  <2>4. Rooted(W, R, r0)
    <3>1. r0 \in V /\ R[r0] <= R[r]
      BY Zenon DEF Rooted
    <3>2. R[r0] <= R[y]
      BY <2>1, <2>2, <3>1, SMT
    <3> QED BY <3>1, <3>2, Zenon DEF Rooted
  <2> QED BY <2>3, <2>4, Zenon DEF Lined
<1> QED BY <1>1, <1>2, Zenon

\* The last of the line leaves it.
LEMMA LeavesLine ==
  ASSUME NEW V \in SUBSET Routers, NEW n, NEW R \in [Routers -> Nat], NEW f, NEW r0,
         Lined(V, n, R, f), Rooted(V, R, r0), NEW y \in V, Top(V, R, y)
  PROVE  Lined(V \ {y}, n, R, f) /\ Rooted(V \ {y}, R, r0)
<1> DEFINE W == V \ {y}
<1>1. \A x \in V : R[x] \in Nat
  BY Zenon
<1>2. ASSUME NEW x \in W
      PROVE  R[x] < R[y]
  <2>1. R[x] <= R[y] /\ R[x] # R[y]
    BY Zenon DEF Top, Lined
  <2> QED BY <1>1, <2>1, SMT
<1>3. ASSUME NEW s \in W, NEW x \in W, s # x
      PROVE  /\ R[s] # R[x]
             /\ R[s] < R[x] => s # f /\ n[s] \in W /\ R[s] < R[n[s]] /\ R[n[s]] <= R[x]
  <2>1. R[s] # R[x]
    BY <1>3, Zenon DEF Lined
  <2>2. ASSUME R[s] < R[x]
        PROVE  s # f /\ n[s] \in W /\ R[s] < R[n[s]] /\ R[n[s]] <= R[x]
    <3>1. s # f /\ n[s] \in V /\ R[s] < R[n[s]] /\ R[n[s]] <= R[x]
      BY <1>3, <2>2, Zenon DEF Lined
    <3>2. n[s] # y
      BY <1>1, <1>2, <3>1, SMT
    <3> QED BY <3>1, <3>2, Zenon
  <2> QED BY <2>1, <2>2, Zenon
<1>4. ASSUME NEW x \in W
      PROVE  r0 \in W /\ R[r0] <= R[x]
  <2>1. r0 \in V /\ R[r0] <= R[x]
    BY Zenon DEF Rooted
  <2>2. r0 # y
    BY <1>1, <1>2, <2>1, SMT
  <2> QED BY <2>1, <2>2, Zenon
<1> QED BY <1>3, <1>4, Zenon DEF Lined, Rooted

\* The last of the line chooses another hop.
LEMMA TurnsLine ==
  ASSUME NEW V \in SUBSET Routers, NEW n, NEW k, NEW R \in [Routers -> Nat], NEW f,
         Lined(V, n, R, f), NEW r \in V, Top(V, R, r), \A x \in V \ {r} : k[x] = n[x]
  PROVE  Lined(V, k, R, f)
<1>1. \A x \in V : R[x] \in Nat
  BY Zenon
<1>2. ASSUME NEW s \in V, NEW x \in V, s # x
      PROVE  /\ R[s] # R[x]
             /\ R[s] < R[x] => s # f /\ k[s] \in V /\ R[s] < R[k[s]] /\ R[k[s]] <= R[x]
  <2>1. R[s] # R[x]
    BY <1>2, Zenon DEF Lined
  <2>2. CASE s = r
    <3>1. R[x] <= R[s]
      BY <2>2, Zenon DEF Top
    <3> QED BY <1>1, <2>1, <3>1, SMT
  <2>3. CASE s # r
    <3>1. k[s] = n[s]
      BY <2>3, Zenon
    <3> QED BY <1>2, <3>1, Zenon DEF Lined
  <2> QED BY <2>2, <2>3, Zenon
<1> QED BY <1>2, Zenon DEF Lined

\* The first router enters the line, which was empty if it was not in it.
LEMMA EntersLine ==
  ASSUME NEW V \in SUBSET Routers, NEW n, NEW R \in [Routers -> Nat], NEW f, NEW r0 \in Routers,
         Lined(V, n, R, f), Rooted(V, R, r0)
  PROVE  Lined(V \union {r0}, n, R, f) /\ Rooted(V \union {r0}, R, r0)
<1>1. CASE r0 \in V
  <2>1. V \union {r0} = V
    BY <1>1, Zenon
  <2> QED BY <2>1, Zenon
<1>2. CASE r0 \notin V
  <2>1. V \union {r0} = {r0}
    BY <1>2, Zenon DEF Rooted
  <2>2. R[r0] <= R[r0]
    <3>1. R[r0] \in Nat
      BY Zenon
    <3> QED BY <3>1, SMT
  <2>3. Lined({r0}, n, R, f) /\ Rooted({r0}, R, r0)
    BY <2>2, Zenon DEF Lined, Rooted
  <2> QED BY <2>1, <2>3, Zenon
<1> QED BY <1>1, <1>2, Zenon

---------------------------------------------------------------------------
(* The numbers of the packets of a message in a sequence *)

IdsIn(s, m, D) == {s[i].id : i \in {k \in D : s[k].msg = m}}
Ids(s, m) == IdsIn(s, m, 1 .. Len(s))
Rising(s, m) == \A i, j \in 1 .. Len(s) : i < j /\ s[i].msg = m /\ s[j].msg = m => s[i].id < s[j].id

LEMMA PacketIs ==
  ASSUME NEW p \in Packets
  PROVE  p.id \in Nat /\ p.msg \in Messages /\ p.ack \in BOOLEAN
BY SMT DEF Packets

LEMMA IdsAre ==
  ASSUME NEW s, NEW m, NEW n
  PROVE  n \in Ids(s, m) <=> \E i \in 1 .. Len(s) : s[i].msg = m /\ s[i].id = n
BY Zenon DEF Ids, IdsIn

LEMMA NoIds ==
  ASSUME NEW m
  PROVE  Ids(<<>>, m) = {} /\ Rising(<<>>, m)
<1>1. 1 .. Len(<<>>) = {}
  BY SMT
<1> QED BY <1>1, Zenon DEF Ids, IdsIn, Rising

LEMMA AppendIds ==
  ASSUME NEW s \in Seq(Packets), NEW p \in Packets, NEW m
  PROVE  /\ p.msg = m => Ids(Append(s, p), m) = Ids(s, m) \union {p.id}
         /\ p.msg # m => Ids(Append(s, p), m) = Ids(s, m)
         /\ Rising(s, m) /\ (p.msg = m => \A n \in Ids(s, m) : n < p.id) => Rising(Append(s, p), m)
<1> DEFINE t == Append(s, p)
           L == Len(s)
<1>1. /\ L \in Nat /\ Len(t) = L + 1 /\ t[L + 1] = p
      /\ \A i \in 1 .. L : t[i] = s[i]
  BY SMT
<1>2. (1 .. L) \union {L + 1} = 1 .. Len(t)
  BY <1>1, SMT
<1>3. ASSUME NEW n
      PROVE  n \in Ids(t, m) <=> n \in Ids(s, m) \/ (p.msg = m /\ n = p.id)
  <2>1. n \in Ids(t, m) <=> \E i \in (1 .. L) \union {L + 1} : t[i].msg = m /\ t[i].id = n
    <3>1. Ids(t, m) = IdsIn(t, m, (1 .. L) \union {L + 1})
      BY <1>2, Zenon DEF Ids
    <3> QED BY <3>1, Zenon DEF IdsIn
  <2>2. (\E i \in (1 .. L) \union {L + 1} : t[i].msg = m /\ t[i].id = n)
          <=> (\E i \in 1 .. L : t[i].msg = m /\ t[i].id = n) \/ (p.msg = m /\ n = p.id)
    BY <1>1, Zenon
  <2>3. (\E i \in 1 .. L : t[i].msg = m /\ t[i].id = n) <=> n \in Ids(s, m)
    <3>1. n \in Ids(s, m) <=> \E i \in 1 .. L : s[i].msg = m /\ s[i].id = n
      BY IdsAre
    <3> QED BY <1>1, <3>1, Zenon
  <2> QED BY <2>1, <2>2, <2>3, Zenon
<1>4. p.msg = m => Ids(t, m) = Ids(s, m) \union {p.id}
  BY <1>3, Zenon
<1>5. p.msg # m => Ids(t, m) = Ids(s, m)
  BY <1>3, Zenon
<1>6. ASSUME Rising(s, m), p.msg = m => \A n \in Ids(s, m) : n < p.id
      PROVE  Rising(t, m)
  <2>1. SUFFICES ASSUME NEW i \in 1 .. L + 1, NEW j \in 1 .. L + 1, i < j, t[i].msg = m, t[j].msg = m
                 PROVE  t[i].id < t[j].id
    BY <1>1, Zenon DEF Rising
  <2>2. i \in 1 .. L
    BY <1>1, <2>1, SMT
  <2>3. CASE j \in 1 .. L
    BY <1>1, <1>6, <2>1, <2>2, <2>3, Zenon DEF Rising
  <2>4. CASE j = L + 1
    <3>1. s[i].id \in Ids(s, m)
      BY <1>1, <2>1, <2>2, IdsAre, Zenon
    <3>2. p.msg = m /\ t[j].id = p.id /\ t[i].id = s[i].id
      BY <1>1, <2>1, <2>2, <2>4, Zenon
    <3>3. s[i].id < p.id
      BY <1>6, <3>1, <3>2, Zenon
    <3> QED BY <3>2, <3>3, Zenon
  <2>5. j \in 1 .. L \/ j = L + 1
    BY <1>1, SMT
  <2> QED BY <2>3, <2>4, <2>5, Zenon
<1> QED BY <1>4, <1>5, <1>6, Zenon

LEMMA TailIds ==
  ASSUME NEW s \in Seq(Packets), s # <<>>, NEW m, Rising(s, m)
  PROVE  /\ Head(s).msg = m => /\ Head(s).id \in Ids(s, m) /\ Ids(Tail(s), m) = Ids(s, m) \ {Head(s).id}
                               /\ \A n \in Ids(Tail(s), m) : Head(s).id < n
         /\ Head(s).msg # m => Ids(Tail(s), m) = Ids(s, m)
         /\ Rising(Tail(s), m)
<1> DEFINE t == Tail(s)
           L == Len(s)
           p == Head(s)
<1>1. /\ L \in Nat /\ L >= 1 /\ p = s[1] /\ p \in Packets
      /\ 1 .. L - 1 = 1 .. Len(t)
      /\ \A i \in 1 .. L - 1 : t[i] = s[i + 1] /\ i + 1 \in 1 .. L /\ i + 1 # 1 /\ 1 < i + 1
      /\ \A i \in 1 .. L : i # 1 => i - 1 \in 1 .. L - 1 /\ t[i - 1] = s[i]
      /\ 1 \in 1 .. L
  BY SMT
<1>2. ASSUME NEW n
      PROVE  n \in Ids(t, m) <=> \E i \in 1 .. L : i # 1 /\ s[i].msg = m /\ s[i].id = n
  <2>1. n \in Ids(t, m) <=> \E i \in 1 .. L - 1 : t[i].msg = m /\ t[i].id = n
    <3>1. Ids(t, m) = IdsIn(t, m, 1 .. L - 1)
      BY <1>1, Zenon DEF Ids
    <3> QED BY <3>1, Zenon DEF IdsIn
  <2>2. ASSUME NEW i \in 1 .. L - 1, t[i].msg = m, t[i].id = n
        PROVE  \E k \in 1 .. L : k # 1 /\ s[k].msg = m /\ s[k].id = n
    BY <1>1, <2>2, Zenon
  <2>3. ASSUME NEW i \in 1 .. L, i # 1, s[i].msg = m, s[i].id = n
        PROVE  \E k \in 1 .. L - 1 : t[k].msg = m /\ t[k].id = n
    BY <1>1, <2>3, Zenon
  <2> QED BY <2>1, <2>2, <2>3, Zenon
<1>3. ASSUME NEW n
      PROVE  n \in Ids(s, m) <=> n \in Ids(t, m) \/ (p.msg = m /\ n = p.id)
  <2>1. n \in Ids(s, m) <=> \E i \in 1 .. L : s[i].msg = m /\ s[i].id = n
    BY Zenon DEF Ids, IdsIn
  <2> QED BY <1>1, <1>2, <2>1, Zenon
<1>4. ASSUME p.msg = m, NEW n \in Ids(t, m)
      PROVE  p.id < n
  <2>1. PICK i \in 1 .. L : i # 1 /\ s[i].msg = m /\ s[i].id = n
    BY <1>2, Zenon
  <2>2. 1 < i
    BY <1>1, <2>1, SMT
  <2> QED BY <1>1, <1>4, <2>1, <2>2, Zenon DEF Rising
<1>5. p.msg = m => Ids(t, m) = Ids(s, m) \ {p.id}
  <2>1. ASSUME p.msg = m
        PROVE  p.id \notin Ids(t, m)
    <3>1. ~(p.id < p.id)
      <4>1. p.id \in Nat
        BY <1>1, PacketIs, Zenon
      <4> QED BY <4>1, SMT
    <3> QED BY <1>4, <2>1, <3>1, Zenon
  <2> QED BY <1>3, <2>1, Zenon
<1>6. Rising(t, m)
  <2>1. SUFFICES ASSUME NEW i \in 1 .. L - 1, NEW j \in 1 .. L - 1, i < j, t[i].msg = m, t[j].msg = m
                 PROVE  t[i].id < t[j].id
    BY <1>1, Zenon DEF Rising
  <2>2. i + 1 < j + 1
    <3>1. i \in Int /\ j \in Int
      BY <1>1, SMT
    <3> QED BY <2>1, <3>1, SMT
  <2>3. i + 1 \in 1 .. L /\ j + 1 \in 1 .. L /\ t[i] = s[i + 1] /\ t[j] = s[j + 1]
    BY <1>1, Zenon
  <2>4. s[i + 1].id < s[j + 1].id
    BY <2>1, <2>2, <2>3, Zenon DEF Rising
  <2> QED BY <2>3, <2>4, Zenon
<1>7. (p.msg = m => p.id \in Ids(s, m)) /\ (p.msg # m => Ids(t, m) = Ids(s, m))
  BY <1>3, Zenon
<1> QED BY <1>4, <1>5, <1>6, <1>7, Zenon

---------------------------------------------------------------------------
(* Numbers on channels.  I[l] are those of one message on channel l. *)

DataChannels == {l \in Channels : l.vc # AckVC}

\* Channel k is nearer to the destination.
Later(l, k, R) == l.to \in Routers /\ (k.to \in Hosts \/ R[l.to] < R[k.to])
Sorted(I, R) == \A l, k \in DataChannels : Later(l, k, R) => \A i \in I[l], j \in I[k] : j < i
Aloft(I) == UNION {I[l] : l \in DataChannels}
Waiting(I) == {x \in Routers : \E l \in DataChannels : l.to = x /\ I[l] # {}}

\* J is I with number i gone from l; with i added to g.
Gone(I, J, l, i) ==
  /\ i \in I[l] /\ J[l] = I[l] \ {i} /\ \A n \in J[l] : i < n
  /\ \A k \in DataChannels \ {l} : J[k] = I[k]
Come(I, J, g, i) ==
  J[g] = I[g] \union {i} /\ \A k \in DataChannels \ {g} : J[k] = I[k]

LEMMA NotLater ==
  ASSUME NEW l \in Channels, NEW R \in [Routers -> Nat]
  PROVE  ~Later(l, l, R)
<1>1. SUFFICES ASSUME l.to \in Routers
               PROVE  l.to \notin Hosts /\ ~(R[l.to] < R[l.to])
  BY Zenon DEF Later
<1>2. R[l.to] \in Nat
  BY <1>1, Zenon
<1>3. ~(R[l.to] < R[l.to])
  BY <1>2, SMT
<1> QED BY <1>1, <1>3, TopologyAssumption, Zenon

LEMMA GoneSorted ==
  ASSUME NEW I, NEW J, NEW R, NEW l, NEW i, Sorted(I, R), Gone(I, J, l, i)
  PROVE  Sorted(J, R)
<1>1. \A k \in DataChannels : J[k] \subseteq I[k]
  BY Zenon DEF Gone
<1> QED BY <1>1, Zenon DEF Sorted

LEMMA ComeSorted ==
  ASSUME NEW I, NEW J, NEW R \in [Routers -> Nat], NEW g \in DataChannels, NEW i, Sorted(I, R), Come(I, J, g, i),
         \A l \in DataChannels : Later(l, g, R) => \A n \in I[l] : i < n,
         \A k \in DataChannels : Later(g, k, R) => \A n \in I[k] : n < i
  PROVE  Sorted(J, R)
<1>1. ~Later(g, g, R)
  BY NotLater, Zenon DEF DataChannels
<1>2. ASSUME NEW l \in DataChannels, NEW k \in DataChannels, Later(l, k, R), NEW a \in J[l], NEW b \in J[k]
      PROVE  b < a
  <2>1. CASE l = g
    <3>1. k # g /\ J[k] = I[k] /\ (a = i \/ a \in I[l])
      BY <1>1, <1>2, <2>1, Zenon DEF Come
    <3> QED BY <1>2, <2>1, <3>1, Zenon DEF Sorted
  <2>2. CASE k = g
    <3>1. l # g /\ J[l] = I[l] /\ (b = i \/ b \in I[k])
      BY <1>1, <1>2, <2>2, Zenon DEF Come
    <3> QED BY <1>2, <2>2, <3>1, Zenon DEF Sorted
  <2>3. CASE l # g /\ k # g
    BY <1>2, <2>3, Zenon DEF Come, Sorted
  <2> QED BY <2>1, <2>2, <2>3, Zenon
<1> QED BY <1>2, Zenon DEF Sorted

LEMMA MovedAloft ==
  ASSUME NEW I, NEW J, NEW K, NEW l \in DataChannels, NEW g \in DataChannels, NEW i,
         Gone(I, J, l, i), Come(J, K, g, i)
  PROVE  Aloft(K) = Aloft(I)
<1>1. ASSUME NEW n \in Aloft(K)
      PROVE  n \in Aloft(I)
  <2>1. PICK k \in DataChannels : n \in K[k]
    BY Zenon DEF Aloft
  <2>2. n = i \/ n \in J[k]
    BY <2>1, Zenon DEF Come
  <2>3. (n = i /\ n \in I[l]) \/ n \in I[k]
    BY <2>2, Zenon DEF Gone
  <2> QED BY <2>3, Zenon DEF Aloft
<1>2. ASSUME NEW n \in Aloft(I)
      PROVE  n \in Aloft(K)
  <2>1. PICK k \in DataChannels : n \in I[k]
    BY Zenon DEF Aloft
  <2>2. n = i \/ n \in J[k]
    BY <2>1, Zenon DEF Gone
  <2>3. n \in K[g] \/ n \in K[k]
    BY <2>2, Zenon DEF Come
  <2> QED BY <2>3, Zenon DEF Aloft
<1> QED BY <1>1, <1>2, Zenon

---------------------------------------------------------------------------
(* The line of message m: I are its numbers on the channels, E the routers *)
(* that noted it and the ports they noted, c the hop of every router.      *)

First(m) == Router[From[m]]
Last(m) == Router[To[m]]
Nexts(c) == [r \in Routers |-> c[r].to]
Noters(E) == {x \in Routers : \E p \in Routers \union Hosts : <<x, p>> \in E}
Passed(I, E) == Noters(E) \union Waiting(I)
Feeds(I, E) ==
  {e \in Routers \X Routers :
     <<e[2], e[1]>> \in E \/ \E l \in DataChannels : l.from = e[1] /\ l.to = e[2] /\ I[l] # {}}

\* Packets leave by the hop of their router, from the first to the last.
LeadsOn(I, c, m) ==
  \A l \in DataChannels : I[l] # {} =>
    /\ l.from \in Routers => c[l.from] = Hop(l.to, l.vc)
    /\ l.from \notin Routers => l.from = From[m]
    /\ l.to \in Hosts => l.from = Last(m)
NotesLead(E, c, m) ==
  \A x \in Routers, p \in Routers \union Hosts : <<x, p>> \in E =>
    /\ p \in Routers => c[p].to = x
    /\ p \notin Routers => x = First(m)
InLine(I, E, c, m, R) ==
  /\ LeadsOn(I, c, m) /\ NotesLead(E, c, m)
  /\ Lined(Passed(I, E), Nexts(c), R, Last(m)) /\ Rooted(Passed(I, E), R, First(m))
  /\ Sorted(I, R)

\* A router that has something out noted it, and leads up.
Fitted(I, E, R) ==
  \A p, x \in Routers : <<p, x>> \in Feeds(I, E) => p \in Noters(E) /\ R[p] < R[x]

LEMMA FeedsIs ==
  ASSUME NEW I, NEW E, NEW p \in Routers, NEW x \in Routers
  PROVE  <<p, x>> \in Feeds(I, E) <=>
           <<x, p>> \in E \/ \E l \in DataChannels : l.from = p /\ l.to = x /\ I[l] # {}
<1>1. <<p, x>> \in Routers \X Routers /\ <<p, x>>[1] = p /\ <<p, x>>[2] = x
  BY SMT
<1> QED BY <1>1, Zenon DEF Feeds

LEMMA FeedsOn ==
  ASSUME NEW I, NEW E, NEW l \in DataChannels, l.from \in Routers, l.to \in Routers, I[l] # {}
  PROVE  <<l.from, l.to>> \in Feeds(I, E)
<1>1. \E k \in DataChannels : k.from = l.from /\ k.to = l.to /\ I[k] # {}
  BY Zenon
<1>2. <<l.from, l.to>> \in Routers \X Routers /\ <<l.from, l.to>>[1] = l.from /\ <<l.from, l.to>>[2] = l.to
  BY SMT
<1> QED BY <1>1, <1>2, Zenon DEF Feeds

LEMMA HopIs ==
  ASSUME NEW to, NEW vc
  PROVE  Hop(to, vc).to = to /\ Hop(to, vc).vc = vc
BY Zenon DEF Hop

LEMMA HostChannel ==
  ASSUME NEW l \in Channels, l.from \notin Routers
  PROVE  l.from \in Hosts /\ l.to = Router[l.from] /\ l.vc = 0 /\ l = Channel(l.from, l.to, l.vc)
<1>1. l = Channel(l.from, l.to, l.vc) /\ l.from \in Routers \union Hosts
  BY ChannelKinds, Zenon
<1>2. ASSUME NEW a, NEW b, NEW vc, l = Channel(a, b, vc)
      PROVE  l.from = a /\ l.to = b /\ l.vc = vc
  BY <1>2, Zenon DEF Channel
<1>3. \A e \in Edges : e[1] \in Routers /\ e[2] \in Routers
  BY EdgesJoinRouters, Zenon
<1>4. \E h \in Hosts : l = Channel(h, Router[h], 0)
  <2>1. ASSUME NEW r \in Routers, NEW b, NEW vc
        PROVE  l # Channel(r, b, vc)
    BY <1>2, Zenon
  <2>2. ~(\E e \in Edges, vc \in VCs : l = Channel(e[1], e[2], vc))
    BY <1>3, <2>1, Zenon
  <2>3. ~(\E e \in Edges : l = Channel(e[1], e[2], AckVC)) /\ ~(\E e \in Edges : l = Channel(e[2], e[1], AckVC))
    BY <1>3, <2>1, Zenon
  <2>4. ~(\E r \in Routers, h \in Hosts, vc \in VCs : l = Channel(r, h, vc))
    BY <2>1, Zenon
  <2> QED BY <2>2, <2>3, <2>4, InChannels, SMT
<1> QED BY <1>1, <1>2, <1>4, Zenon

LEMMA PassedAre ==
  ASSUME NEW I, NEW E
  PROVE  Passed(I, E) \in SUBSET Routers
BY Zenon DEF Passed, Noters, Waiting

LEMMA WaitsIn ==
  ASSUME NEW I, NEW E, NEW l \in DataChannels, l.to \in Routers, I[l] # {}
  PROVE  l.to \in Passed(I, E)
BY Zenon DEF Passed, Waiting

LEMMA LineIsFed ==
  ASSUME NEW I, NEW E, NEW c, NEW m \in Messages, NEW R, InLine(I, E, c, m, R), Fitted(I, E, R)
  PROVE  Fed(Passed(I, E), Feeds(I, E), Nexts(c), R, First(m))
<1>1. ASSUME NEW x \in Passed(I, E), x # First(m)
      PROVE  \E p \in Passed(I, E) : <<p, x>> \in Feeds(I, E)
  <2>1. x \in Routers
    BY PassedAre, Zenon
  <2>2. ASSUME NEW p \in Routers, <<p, x>> \in Feeds(I, E)
        PROVE  \E y \in Passed(I, E) : <<y, x>> \in Feeds(I, E)
    <3>1. p \in Noters(E)
      BY <2>1, <2>2, Zenon DEF Fitted
    <3> QED BY <2>2, <3>1, Zenon DEF Passed
  <2>3. CASE x \in Noters(E)
    <3>1. PICK p \in Routers \union Hosts : <<x, p>> \in E
      BY <2>3, Zenon DEF Noters
    <3>2. p \in Routers
      BY <1>1, <2>1, <3>1, Zenon DEF InLine, NotesLead
    <3>3. <<p, x>> \in Feeds(I, E)
      BY <2>1, <3>1, <3>2, FeedsIs, Zenon
    <3> QED BY <2>2, <3>2, <3>3, Zenon
  <2>4. CASE x \in Waiting(I)
    <3>1. PICK l \in DataChannels : l.to = x /\ I[l] # {}
      BY <2>4, Zenon DEF Waiting
    <3>2. l.from \in Routers
      <4>1. SUFFICES ASSUME l.from \notin Routers
                     PROVE  FALSE
        BY Zenon
      <4>2. l.from = From[m]
        BY <3>1, <4>1, Zenon DEF InLine, LeadsOn
      <4>3. l.to = Router[l.from]
        BY <4>1, HostChannel, Zenon DEF DataChannels
      <4> QED BY <1>1, <3>1, <4>2, <4>3, Zenon DEF First
    <3>3. <<l.from, x>> \in Feeds(I, E)
      BY <2>1, <3>1, <3>2, FeedsIs, Zenon
    <3> QED BY <2>2, <3>2, <3>3, Zenon
  <2> QED BY <2>3, <2>4, Zenon DEF Passed
<1>2. ASSUME NEW p \in Routers, NEW x \in Routers, <<p, x>> \in Feeds(I, E)
      PROVE  p \in Passed(I, E) /\ Nexts(c)[p] = x /\ R[p] < R[x]
  <2>1. p \in Noters(E) /\ R[p] < R[x]
    BY <1>2, Zenon DEF Fitted
  <2>2. c[p].to = x
    <3>1. CASE <<x, p>> \in E
      BY <3>1, Zenon DEF InLine, NotesLead
    <3>2. ASSUME NEW l \in DataChannels, l.from = p, l.to = x, I[l] # {}
          PROVE  c[p].to = x
      <4>1. c[p] = Hop(x, l.vc)
        BY <3>2, Zenon DEF InLine, LeadsOn
      <4> QED BY <4>1, HopIs, SMT
    <3>3. <<x, p>> \in E \/ \E l \in DataChannels : l.from = p /\ l.to = x /\ I[l] # {}
      BY <1>2, FeedsIs, SMT
    <3> QED BY <3>1, <3>2, <3>3, Zenon
  <2> QED BY <2>1, <2>2, Zenon DEF Passed, Nexts
<1> QED BY <1>1, <1>2, Zenon DEF Fed

\* All that waits for one router waits on one channel.
LEMMA OneWayIn ==
  ASSUME NEW I, NEW E, NEW c, NEW m \in Messages, NEW R \in [Routers -> Nat],
         InLine(I, E, c, m, R), Fitted(I, E, R),
         NEW l \in DataChannels, NEW k \in DataChannels, l.to = k.to, l.to \in Routers, I[l] # {}, I[k] # {}
  PROVE  l = k
<1>1. Fed(Passed(I, E), Feeds(I, E), Nexts(c), R, First(m))
  BY LineIsFed, Zenon
<1>2. l \in Channels /\ k \in Channels /\ l = Channel(l.from, l.to, l.vc) /\ k = Channel(k.from, k.to, k.vc)
  BY ChannelKinds, Zenon DEF DataChannels
<1>3. ASSUME NEW a \in DataChannels, a.to = l.to, I[a] # {}, a.from \in Routers
      PROVE  a.from \in Passed(I, E) /\ Nexts(c)[a.from] = l.to /\ R[a.from] < R[l.to]
  <2>1. <<a.from, l.to>> \in Feeds(I, E)
    BY <1>3, FeedsIs, Zenon
  <2> QED BY <1>1, <1>3, <2>1, Zenon DEF Fed
<1>4. ASSUME NEW a \in DataChannels, a.to = l.to, I[a] # {}, a.from \notin Routers
      PROVE  a.from = From[m] /\ a.vc = 0 /\ l.to = First(m)
  <2>1. a.from = From[m]
    BY <1>4, Zenon DEF InLine, LeadsOn
  <2>2. a.to = Router[a.from] /\ a.vc = 0
    BY <1>4, HostChannel, Zenon DEF DataChannels
  <2> QED BY <1>4, <2>1, <2>2, Zenon DEF First
<1>5. ASSUME NEW a \in DataChannels, a.to = l.to, I[a] # {}, a.from \in Routers
      PROVE  l.to # First(m)
  <2>1. a.from \in Passed(I, E) /\ R[a.from] < R[l.to]
    BY <1>3, <1>5, Zenon
  <2>2. R[First(m)] <= R[a.from] /\ First(m) \in Passed(I, E)
    BY <2>1, Zenon DEF InLine, Rooted
  <2>3. R[a.from] \in Nat /\ R[l.to] \in Nat /\ R[First(m)] \in Nat
    BY <1>5, <2>2, PassedAre, Zenon
  <2>4. R[First(m)] # R[l.to]
    BY <2>1, <2>2, <2>3, SMT
  <2> QED BY <2>4, Zenon
<1>6. CASE l.from \in Routers /\ k.from \in Routers
  <2>1. l.from = k.from
    <3>1. Lined(Passed(I, E), Nexts(c), R, Last(m)) /\ Passed(I, E) \in SUBSET Routers
      BY PassedAre, Zenon DEF InLine
    <3>2. /\ l.from \in Passed(I, E) /\ k.from \in Passed(I, E)
          /\ Nexts(c)[l.from] = Nexts(c)[k.from]
          /\ R[l.from] < R[Nexts(c)[l.from]] /\ R[k.from] < R[Nexts(c)[k.from]]
          /\ Nexts(c)[l.from] \in Routers
      BY <1>3, <1>6, Zenon
    <3> DEFINE V == Passed(I, E)
               n == Nexts(c)
    <3> HIDE DEF V, n
    <3>3. V \in SUBSET Routers /\ Lined(V, n, R, Last(m)) /\ l.from \in V /\ k.from \in V /\ n[l.from] = n[k.from]
          /\ R[l.from] < R[n[l.from]] /\ R[k.from] < R[n[k.from]] /\ n[l.from] \in Routers
      BY <3>1, <3>2, Zenon DEF V, n
    <3> QED BY <3>3, OneBefore, SMT
  <2>2. c[l.from] = Hop(l.to, l.vc) /\ c[k.from] = Hop(k.to, k.vc)
    BY <1>6, Zenon DEF InLine, LeadsOn
  <2>3. Hop(l.to, l.vc) = Hop(k.to, k.vc)
    BY <2>1, <2>2, Zenon
  <2>4. l.vc = k.vc
    BY <2>3, HopIs, SMT
  <2> QED BY <1>2, <2>1, <2>4, Zenon
<1>7. CASE l.from \notin Routers /\ k.from \notin Routers
  BY <1>2, <1>4, <1>7, Zenon
<1>8. ~(l.from \in Routers /\ k.from \notin Routers) /\ ~(l.from \notin Routers /\ k.from \in Routers)
  BY <1>4, <1>5, Zenon
<1> QED BY <1>6, <1>7, <1>8, Zenon

\* What is no nearer to the destination than r is behind what leaves r.
LEMMA Behind ==
  ASSUME NEW I, NEW E, NEW c, NEW m \in Messages, NEW R \in [Routers -> Nat],
         InLine(I, E, c, m, R), Fitted(I, E, R),
         NEW l \in DataChannels, l.to \in Routers, NEW J, NEW i, Gone(I, J, l, i),
         NEW k \in DataChannels, k.to \in Routers, R[k.to] <= R[l.to], NEW n \in J[k]
  PROVE  i < n
<1>1. CASE k = l
  BY <1>1, Zenon DEF Gone
<1>2. CASE k # l
  <2>1. n \in I[k] /\ i \in I[l]
    BY <1>2, Zenon DEF Gone
  <2>2. k.to # l.to
    BY <1>2, <2>1, OneWayIn, Zenon
  <2>3. k.to \in Passed(I, E) /\ l.to \in Passed(I, E)
    BY <2>1, WaitsIn, Zenon
  <2>4. R[k.to] # R[l.to]
    BY <2>2, <2>3, Zenon DEF InLine, Lined
  <2>5. R[k.to] < R[l.to]
    <3>1. R[k.to] \in Nat /\ R[l.to] \in Nat
      BY Zenon
    <3> QED BY <2>4, <3>1, SMT
  <2>6. Later(k, l, R)
    BY <2>5, Zenon DEF Later
  <2> QED BY <2>1, <2>6, Zenon DEF InLine, Sorted
<1> QED BY <1>1, <1>2, Zenon

---------------------------------------------------------------------------
(* What the steps do to a line *)

\* The hops of J's packets are those of I's, but for one channel that may be new.
LEMMA LeadsOnFewer ==
  ASSUME NEW I, NEW J, NEW c, NEW m, LeadsOn(I, c, m), \A l \in DataChannels : J[l] \subseteq I[l]
  PROVE  LeadsOn(J, c, m)
<1>1. \A l \in DataChannels : J[l] # {} => I[l] # {}
  BY Zenon
<1> QED BY <1>1, Zenon DEF LeadsOn

LEMMA LeadsOnMore ==
  ASSUME NEW I, NEW J, NEW c, NEW m, NEW g \in DataChannels, NEW i, LeadsOn(I, c, m), Come(I, J, g, i),
         g.from \in Routers => c[g.from] = Hop(g.to, g.vc),
         g.from \notin Routers => g.from = From[m],
         g.to \in Hosts => g.from = Last(m)
  PROVE  LeadsOn(J, c, m)
<1>1. \A l \in DataChannels : l # g => J[l] = I[l]
  BY Zenon DEF Come
<1> QED BY <1>1, Zenon DEF LeadsOn

\* The router of a channel notes the port of the channel.
Marking(E, D, l) == D = E \union {<<l.to, l.from>>}

\* A packet goes from one router to the next: channel l to channel g.
LEMMA ForwardInLine ==
  ASSUME NEW m \in Messages, NEW R \in [Routers -> Nat], NEW I, NEW E, NEW c,
         InLine(I, E, c, m, R), Fitted(I, E, R),
         NEW l \in DataChannels, l.to \in Routers, l.to # Last(m),
         NEW g \in DataChannels, g.to \in Routers, g.from = l.to, c[l.to] = Hop(g.to, g.vc), R[l.to] < R[g.to],
         NEW J, NEW K, NEW i, Gone(I, J, l, i), Come(J, K, g, i),
         NEW D, Marking(E, D, l)
  PROVE  InLine(K, D, c, m, R) /\ \A n \in J[g] : n < i
<1> DEFINE r == l.to
           V == Passed(I, E)
<1>0. D = E \union {<<r, l.from>>}
  BY Zenon DEF Marking
<1>1. i \in I[l] /\ I[l] # {} /\ \A k \in DataChannels : J[k] \subseteq I[k]
  BY Zenon DEF Gone
<1>2. l.from \in Routers \union Hosts
  BY ChannelKinds, Zenon DEF DataChannels
<1>3. r \in V /\ V \in SUBSET Routers
  BY <1>1, WaitsIn, PassedAre, Zenon
<1>4. \A x \in V : R[x] \in Nat
  BY <1>3, Zenon
<1>5. Passed(K, D) = V \union {g.to}
  <2>1. ASSUME NEW x \in Passed(K, D)
        PROVE  x \in V \union {g.to}
    <3>1. CASE x \in Noters(D)
      <4>1. PICK p \in Routers \union Hosts : <<x, p>> \in D
        BY <3>1, Zenon DEF Noters
      <4>2. x \in Routers /\ (<<x, p>> \in E \/ <<x, p>> = <<r, l.from>>)
        BY <1>0, <3>1, <4>1, Zenon DEF Noters
      <4>3. <<x, p>> = <<r, l.from>> => x = r
        BY SMT
      <4> QED BY <1>3, <4>2, <4>3, Zenon DEF Passed, Noters
    <3>2. CASE x \in Waiting(K)
      <4>1. PICK k \in DataChannels : k.to = x /\ K[k] # {} /\ x \in Routers
        BY <3>2, Zenon DEF Waiting
      <4>2. CASE k = g
        BY <4>1, <4>2, Zenon
      <4>3. CASE k # g
        <5>1. I[k] # {}
          BY <1>1, <4>1, <4>3, Zenon DEF Come
        <5> QED BY <4>1, <5>1, WaitsIn, Zenon
      <4> QED BY <4>2, <4>3, Zenon
    <3> QED BY <3>1, <3>2, Zenon DEF Passed
  <2>2. r \in Noters(D)
    BY <1>0, <1>2, <1>3, Zenon DEF Noters
  <2>3. g.to \in Passed(K, D)
    <3>1. K[g] # {}
      BY Zenon DEF Come
    <3> QED BY <3>1, WaitsIn, Zenon
  <2>4. ASSUME NEW x \in V
        PROVE  x \in Passed(K, D)
    <3>1. CASE x \in Noters(E)
      BY <1>0, <3>1, Zenon DEF Noters, Passed
    <3>2. CASE x \in Waiting(I)
      <4>1. PICK k \in DataChannels : k.to = x /\ I[k] # {} /\ x \in Routers
        BY <3>2, Zenon DEF Waiting
      <4>2. CASE k = l
        BY <2>2, <4>1, <4>2, Zenon DEF Passed
      <4>3. CASE k # l
        <5>1. J[k] # {}
          BY <4>1, <4>3, Zenon DEF Gone
        <5>2. K[k] # {}
          BY <5>1, Zenon DEF Come
        <5> QED BY <4>1, <5>2, WaitsIn, Zenon
      <4> QED BY <4>2, <4>3, Zenon
    <3> QED BY <3>1, <3>2, Zenon DEF Passed
  <2> QED BY <2>1, <2>3, <2>4, Zenon
<1>6. Lined(V \union {g.to}, Nexts(c), R, Last(m)) /\ Rooted(V \union {g.to}, R, First(m))
  <2>1. Nexts(c)[r] = g.to
    <3>1. Hop(g.to, g.vc).to = g.to
      BY HopIs, SMT
    <3> QED BY <3>1, Zenon DEF Nexts
  <2> DEFINE n == Nexts(c)
             f == Last(m)
             r0 == First(m)
  <2>2. Lined(V, n, R, f) /\ Rooted(V, R, r0)
    BY Zenon DEF InLine
  <2>3. r \in V /\ r # f /\ n[r] \in Routers /\ R[r] < R[n[r]] /\ V \in SUBSET Routers
    BY <1>3, <2>1, Zenon
  <2> HIDE DEF n, f, r0, V, r
  <2>4. Lined(V \union {n[r]}, n, R, f) /\ Rooted(V \union {n[r]}, R, r0)
    BY <2>2, <2>3, JoinsLine, SMT
  <2> QED BY <2>1, <2>4, Zenon DEF n, f, r0, r
<1>7. LeadsOn(K, c, m)
  <2>1. LeadsOn(J, c, m)
    BY <1>1, LeadsOnFewer, Zenon DEF InLine
  <2>2. g.from \in Routers /\ g.to \notin Hosts
    BY TopologyAssumption, Zenon
  <2> QED BY <2>1, <2>2, LeadsOnMore, Zenon
<1>8. NotesLead(D, c, m)
  <2>1. /\ l.from \in Routers => c[l.from].to = r
        /\ l.from \notin Routers => r = First(m)
    <3>1. ASSUME l.from \in Routers
          PROVE  c[l.from].to = r
      <4>1. c[l.from] = Hop(l.to, l.vc)
        BY <1>1, <3>1, Zenon DEF InLine, LeadsOn
      <4> QED BY <4>1, HopIs, SMT
    <3>2. ASSUME l.from \notin Routers
          PROVE  r = First(m)
      <4>1. l.from = From[m]
        BY <1>1, <3>2, Zenon DEF InLine, LeadsOn
      <4>2. l.to = Router[l.from]
        BY <3>2, HostChannel, Zenon DEF DataChannels
      <4> QED BY <4>1, <4>2, Zenon DEF First
    <3> QED BY <3>1, <3>2, Zenon
  <2>2. ASSUME NEW x \in Routers, NEW p \in Routers \union Hosts, <<x, p>> \in D
        PROVE  /\ p \in Routers => c[p].to = x
               /\ p \notin Routers => x = First(m)
    <3>1. CASE <<x, p>> \in E
      BY <3>1, Zenon DEF InLine, NotesLead
    <3>2. CASE <<x, p>> = <<r, l.from>>
      <4>1. x = r /\ p = l.from
        BY <3>2, SMT
      <4> QED BY <2>1, <4>1, Zenon
    <3> QED BY <1>0, <2>2, <3>1, <3>2, Zenon
  <2> QED BY <2>2, Zenon DEF NotesLead
<1>9. Later(l, g, R)
  BY Zenon DEF Later
<1>10. \A n \in J[g] : n < i
  BY <1>1, <1>9, Zenon DEF InLine, Sorted
<1>11. Sorted(K, R)
  <2>1. Sorted(J, R)
    BY GoneSorted, Zenon DEF InLine
  <2>2. ASSUME NEW k \in DataChannels, Later(k, g, R), NEW n \in J[k]
        PROVE  i < n
    <3>1. k.to \in Routers /\ R[k.to] < R[g.to]
      <4>1. g.to \notin Hosts
        BY TopologyAssumption, Zenon
      <4> QED BY <2>2, <4>1, Zenon DEF Later
    <3>2. k.to \in V
      <4>1. I[k] # {}
        BY <1>1, Zenon
      <4> QED BY <3>1, <4>1, WaitsIn, Zenon
    <3>3. R[k.to] <= R[r]
      <4>1. SUFFICES ASSUME ~(R[k.to] <= R[r])
                     PROVE  FALSE
        BY Zenon
      <4>2. R[r] < R[k.to] /\ r # k.to
        BY <1>3, <1>4, <3>2, <4>1, SMT
      <4>3. R[Nexts(c)[r]] <= R[k.to]
        BY <1>3, <3>2, <4>2, Zenon DEF InLine, Lined
      <4>4. Nexts(c)[r] = g.to
        <5>1. Hop(g.to, g.vc).to = g.to
          BY HopIs, SMT
        <5> QED BY <5>1, Zenon DEF Nexts
      <4>5. R[g.to] \in Nat /\ R[k.to] \in Nat
        BY <3>1, Zenon
      <4>6. R[g.to] <= R[k.to]
        BY <4>3, <4>4, Zenon
      <4> QED BY <3>1, <4>5, <4>6, SMT
    <3> QED BY <3>1, <3>3, Behind, Zenon
  <2>3. ASSUME NEW k \in DataChannels, Later(g, k, R), NEW n \in J[k]
        PROVE  n < i
    <3>1. Later(l, k, R)
      <4>1. k.to \in Hosts \/ R[g.to] < R[k.to]
        BY <2>3, Zenon DEF Later
      <4>2. CASE k.to \in Hosts
        BY <4>2, Zenon DEF Later
      <4>3. CASE R[g.to] < R[k.to] /\ k.to \notin Hosts
        <5>1. k.to \in Routers
          BY <4>3, ChannelKinds, Zenon DEF DataChannels
        <5>2. R[k.to] \in Nat /\ R[g.to] \in Nat /\ R[l.to] \in Nat
          BY <5>1, Zenon
        <5>3. R[l.to] < R[k.to]
          BY <4>3, <5>2, SMT
        <5> QED BY <5>3, Zenon DEF Later
      <4> QED BY <4>1, <4>2, <4>3, Zenon
    <3>2. n \in I[k]
      BY <1>1, Zenon
    <3> QED BY <1>1, <3>1, <3>2, Zenon DEF InLine, Sorted
  <2> QED BY <2>1, <2>2, <2>3, ComeSorted, Zenon
<1> QED BY <1>5, <1>6, <1>7, <1>8, <1>10, <1>11, Zenon DEF InLine

\* The last router of the line has none behind it.
LEMMA LastIsTop ==
  ASSUME NEW V \in SUBSET Routers, NEW n, NEW R \in [Routers -> Nat], NEW f \in V, Lined(V, n, R, f)
  PROVE  Top(V, R, f)
<1>1. SUFFICES ASSUME NEW x \in V, ~(R[x] <= R[f])
               PROVE  FALSE
  BY Zenon DEF Top
<1>2. R[x] \in Nat /\ R[f] \in Nat
  BY Zenon
<1>3. R[f] < R[x] /\ f # x
  BY <1>1, <1>2, SMT
<1> QED BY <1>3, Zenon DEF Lined

\* A router whose numbers and entries are gone leaves the line if it is the last.
LEMMA LessInLine ==
  ASSUME NEW V \in SUBSET Routers, NEW W, NEW n, NEW R \in [Routers -> Nat], NEW f, NEW r0, NEW y \in V,
         Lined(V, n, R, f), Rooted(V, R, r0), W \subseteq V, V \ {y} \subseteq W,
         y \notin W => Top(V, R, y)
  PROVE  Lined(W, n, R, f) /\ Rooted(W, R, r0)
<1>1. CASE y \in W
  <2>1. W = V
    BY <1>1, Zenon
  <2> QED BY <2>1, Zenon
<1>2. CASE y \notin W
  <2>1. W = V \ {y}
    BY <1>2, Zenon
  <2>2. Lined(V \ {y}, n, R, f) /\ Rooted(V \ {y}, R, r0)
    BY <1>2, LeavesLine, SMT
  <2> QED BY <2>1, <2>2, Zenon
<1> QED BY <1>1, <1>2, Zenon

\* The last router passes a packet to the host: channel l to channel g.
LEMMA DeliverInLine ==
  ASSUME NEW m \in Messages, NEW R \in [Routers -> Nat], NEW I, NEW E, NEW c,
         InLine(I, E, c, m, R), Fitted(I, E, R),
         NEW l \in DataChannels, l.to = Last(m), l.to \in Routers, l.to \notin Noters(E),
         NEW g \in DataChannels, g.to \in Hosts, g.from = l.to, c[l.to] = Hop(g.to, g.vc),
         NEW J, NEW K, NEW i, Gone(I, J, l, i), Come(J, K, g, i)
  PROVE  InLine(K, E, c, m, R) /\ \A n \in J[g] : n < i
<1> DEFINE r == l.to
           V == Passed(I, E)
           W == Passed(K, E)
<1>1. i \in I[l] /\ I[l] # {} /\ \A k \in DataChannels : J[k] \subseteq I[k]
  BY Zenon DEF Gone
<1>2. r \in V /\ V \in SUBSET Routers
  BY <1>1, WaitsIn, PassedAre, Zenon
<1>3. g.to \notin Routers
  BY TopologyAssumption, Zenon
<1>4. \A k \in DataChannels : k.to \in Routers => K[k] = J[k]
  BY <1>3, Zenon DEF Come
<1>5. W \subseteq V /\ V \ {r} \subseteq W
  <2>1. Waiting(K) \subseteq Waiting(I)
    <3>1. \A k \in DataChannels : k.to \in Routers /\ K[k] # {} => I[k] # {}
      BY <1>1, <1>4, Zenon
    <3> QED BY <3>1, Zenon DEF Waiting
  <2>2. ASSUME NEW x \in Waiting(I), x # r
        PROVE  x \in Waiting(K)
    <3>1. PICK k \in DataChannels : k.to = x /\ I[k] # {} /\ x \in Routers
      BY Zenon DEF Waiting
    <3>2. J[k] = I[k]
      BY <2>2, <3>1, Zenon DEF Gone
    <3>3. K[k] # {}
      BY <1>4, <3>1, <3>2, Zenon
    <3> QED BY <3>1, <3>3, Zenon DEF Waiting
  <2> QED BY <2>1, <2>2, Zenon DEF Passed
<1>6. Lined(W, Nexts(c), R, Last(m)) /\ Rooted(W, R, First(m))
  <2> DEFINE n == Nexts(c)
             f == Last(m)
             r0 == First(m)
  <2>1. Lined(V, n, R, f) /\ Rooted(V, R, r0) /\ f = r
    BY Zenon DEF InLine
  <2>2. Top(V, R, r)
    BY <1>2, <2>1, LastIsTop, Zenon
  <2> HIDE DEF n, f, r0, V, W, r
  <2>3. Lined(W, n, R, f) /\ Rooted(W, R, r0)
    BY <1>2, <1>5, <2>1, <2>2, LessInLine, SMT
  <2> QED BY <2>3, Zenon DEF n, f, r0
<1>7. LeadsOn(K, c, m)
  <2>1. LeadsOn(J, c, m)
    BY <1>1, LeadsOnFewer, Zenon DEF InLine
  <2> QED BY <2>1, LeadsOnMore, Zenon
<1>8. \A n \in J[g] : n < i
  <2>1. Later(l, g, R)
    BY Zenon DEF Later
  <2> QED BY <1>1, <2>1, Zenon DEF InLine, Sorted
<1>9. Sorted(K, R)
  <2>1. Sorted(J, R)
    BY GoneSorted, Zenon DEF InLine
  <2>2. ASSUME NEW k \in DataChannels, Later(k, g, R), NEW n \in J[k]
        PROVE  i < n
    <3>1. k.to \in Routers
      BY <2>2, Zenon DEF Later
    <3>2. k.to \in V
      <4>1. I[k] # {}
        BY <1>1, Zenon
      <4> QED BY <3>1, <4>1, WaitsIn, Zenon
    <3>3. R[k.to] <= R[r]
      <4>1. Lined(V, Nexts(c), R, r)
        BY Zenon DEF InLine
      <4>2. Top(V, R, r)
        BY <1>2, <4>1, LastIsTop, Zenon
      <4> QED BY <3>2, <4>2, Zenon DEF Top
    <3> QED BY <3>1, <3>3, Behind, Zenon
  <2>3. ASSUME NEW k \in DataChannels
        PROVE  ~Later(g, k, R)
    BY <1>3, Zenon DEF Later
  <2> QED BY <2>1, <2>2, <2>3, ComeSorted, Zenon
<1> QED BY <1>6, <1>7, <1>8, <1>9, Zenon DEF InLine

\* The host takes a packet, from channel l.
LEMMA ReceiveInLine ==
  ASSUME NEW m \in Messages, NEW R, NEW I, NEW E, NEW c, InLine(I, E, c, m, R),
         NEW l \in DataChannels, l.to \in Hosts, NEW J, NEW i, Gone(I, J, l, i)
  PROVE  InLine(J, E, c, m, R)
<1>1. \A k \in DataChannels : J[k] \subseteq I[k]
  BY Zenon DEF Gone
<1>2. LeadsOn(J, c, m) /\ Sorted(J, R)
  BY <1>1, LeadsOnFewer, GoneSorted, Zenon DEF InLine
<1>3. \A k \in DataChannels : k.to \in Routers => J[k] = I[k]
  BY TopologyAssumption, Zenon DEF Gone
<1>4. Waiting(J) = Waiting(I)
  BY <1>3, Zenon DEF Waiting
<1> QED BY <1>2, <1>4, Zenon DEF InLine, Passed

\* The NIC sends packet i, over channel g.
LEMMA EnterInLine ==
  ASSUME NEW m \in Messages, NEW R \in [Routers -> Nat], NEW I, NEW E, NEW c, InLine(I, E, c, m, R),
         NEW g \in DataChannels, g.from = From[m], g.to = First(m),
         NEW J, NEW i, Come(I, J, g, i), \A n \in Aloft(I) : n < i
  PROVE  InLine(J, E, c, m, R)
<1> DEFINE V == Passed(I, E)
           r0 == First(m)
<1>1. From[m] \in Hosts /\ r0 \in Routers /\ g.from \notin Routers /\ g.to \notin Hosts
  BY MessagesAssumption, TopologyAssumption, Zenon DEF First
<1>2. Passed(J, E) = V \union {r0}
  <2>1. J[g] # {}
    BY Zenon DEF Come
  <2>2. ASSUME NEW x \in Routers
        PROVE  x \in Waiting(J) <=> x \in Waiting(I) \/ x = r0
    <3>1. ASSUME x \in Waiting(J), x # r0
          PROVE  x \in Waiting(I)
      <4>1. PICK k \in DataChannels : k.to = x /\ J[k] # {}
        BY <3>1, Zenon DEF Waiting
      <4>2. J[k] = I[k]
        BY <3>1, <4>1, Zenon DEF Come
      <4> QED BY <4>1, <4>2, Zenon DEF Waiting
    <3>2. ASSUME x \in Waiting(I)
          PROVE  x \in Waiting(J)
      <4>1. PICK k \in DataChannels : k.to = x /\ I[k] # {}
        BY <3>2, Zenon DEF Waiting
      <4>2. J[k] # {}
        BY <2>1, <4>1, Zenon DEF Come
      <4> QED BY <4>1, <4>2, Zenon DEF Waiting
    <3>3. r0 \in Waiting(J)
      BY <1>1, <2>1, Zenon DEF Waiting
    <3> QED BY <3>1, <3>2, <3>3, Zenon
  <2>3. Waiting(J) = Waiting(I) \union {r0}
    BY <1>1, <2>2, Zenon DEF Waiting
  <2> QED BY <2>3, Zenon DEF Passed
<1>3. Lined(V \union {r0}, Nexts(c), R, Last(m)) /\ Rooted(V \union {r0}, R, r0)
  <2> DEFINE n == Nexts(c)
             f == Last(m)
  <2>1. Lined(V, n, R, f) /\ Rooted(V, R, r0) /\ V \in SUBSET Routers
    BY PassedAre, Zenon DEF InLine
  <2> HIDE DEF n, f, r0, V
  <2>2. Lined(V \union {r0}, n, R, f) /\ Rooted(V \union {r0}, R, r0)
    BY <1>1, <2>1, EntersLine, SMT
  <2> QED BY <2>2, Zenon DEF n, f
<1>4. LeadsOn(J, c, m)
  <2>1. LeadsOn(I, c, m)
    BY Zenon DEF InLine
  <2> QED BY <1>1, <2>1, LeadsOnMore, Zenon
<1>5. Sorted(J, R)
  <2>1. Sorted(I, R)
    BY Zenon DEF InLine
  <2>2. ASSUME NEW k \in DataChannels, Later(k, g, R), NEW n \in I[k]
        PROVE  i < n
    <3>1. k.to \in Routers /\ R[k.to] < R[r0]
      BY <1>1, <2>2, Zenon DEF Later
    <3>2. k.to \in V
      BY <3>1, WaitsIn, Zenon
    <3>3. R[r0] <= R[k.to]
      BY <3>2, Zenon DEF InLine, Rooted
    <3>4. R[r0] \in Nat /\ R[k.to] \in Nat
      BY <1>1, <3>1, Zenon
    <3> QED BY <3>1, <3>3, <3>4, SMT
  <2>3. ASSUME NEW k \in DataChannels, NEW n \in I[k]
        PROVE  n < i
    BY Zenon DEF Aloft
  <2> QED BY <2>1, <2>2, <2>3, ComeSorted, Zenon
<1> QED BY <1>2, <1>3, <1>4, <1>5, Zenon DEF InLine

\* Router r strikes an entry off.
LEMMA StrikeInLine ==
  ASSUME NEW m \in Messages, NEW R \in [Routers -> Nat], NEW I, NEW E, NEW c,
         InLine(I, E, c, m, R), Fitted(I, E, R),
         NEW r \in Noters(E), NEW D, D \subseteq E,
         \A x \in Routers \ {r}, p \in Routers \union Hosts : <<x, p>> \in E => <<x, p>> \in D,
         Fitted(I, D, R)
  PROVE  InLine(I, D, c, m, R)
<1> DEFINE V == Passed(I, E)
           W == Passed(I, D)
<1>1. r \in V /\ r \in Routers /\ V \in SUBSET Routers
  BY PassedAre, Zenon DEF Passed, Noters
<1>2. W \subseteq V /\ V \ {r} \subseteq W
  <2>1. \A x \in Noters(D) : x \in Noters(E)
    BY Zenon DEF Noters
  <2>2. \A x \in Noters(E) \ {r} : x \in Noters(D)
    BY Zenon DEF Noters
  <2> QED BY <2>1, <2>2, Zenon DEF Passed
<1>3. ASSUME r \notin W
      PROVE  Top(V, R, r)
  <2>1. ASSUME NEW x \in Routers, <<r, x>> \in Feeds(I, E)
        PROVE  FALSE
    <3>1. R[r] < R[x]
      BY <1>1, <2>1, Zenon DEF Fitted
    <3>2. r # x
      <4>1. R[r] \in Nat
        BY <1>1, Zenon
      <4> QED BY <3>1, <4>1, SMT
    <3>3. <<x, r>> \in E \/ \E l \in DataChannels : l.from = r /\ l.to = x /\ I[l] # {}
      BY <1>1, <2>1, FeedsIs, SMT
    <3>4. <<x, r>> \in E => <<x, r>> \in D
      BY <1>1, <3>2, Zenon
    <3>5. <<r, x>> \in Feeds(I, D)
      BY <1>1, <3>3, <3>4, FeedsIs, SMT
    <3>6. r \in Noters(D)
      BY <1>1, <3>5, Zenon DEF Fitted
    <3> QED BY <1>3, <3>6, Zenon DEF Passed
  <2> DEFINE n == Nexts(c)
             f == Last(m)
             r0 == First(m)
             P == Feeds(I, E)
  <2>2. Lined(V, n, R, f) /\ Rooted(V, R, r0) /\ Fed(V, P, n, R, r0)
    BY LineIsFed, Zenon DEF InLine
  <2>3. \A x \in Routers : <<r, x>> \notin P
    BY <2>1, Zenon
  <2> HIDE DEF n, f, r0, P, V
  <2> QED BY <1>1, <2>2, <2>3, IdleIsTop, SMT
<1>4. Lined(W, Nexts(c), R, Last(m)) /\ Rooted(W, R, First(m))
  <2> DEFINE n == Nexts(c)
             f == Last(m)
             r0 == First(m)
  <2>1. Lined(V, n, R, f) /\ Rooted(V, R, r0)
    BY Zenon DEF InLine
  <2> HIDE DEF n, f, r0, V, W
  <2>2. Lined(W, n, R, f) /\ Rooted(W, R, r0)
    BY <1>1, <1>2, <1>3, <2>1, LessInLine, SMT
  <2> QED BY <2>2, Zenon DEF n, f, r0
<1>5. NotesLead(D, c, m)
  BY Zenon DEF InLine, NotesLead
<1> QED BY <1>4, <1>5, Zenon DEF InLine

\* Router r, which has nothing out, chooses another hop.
LEMMA TurnInLine ==
  ASSUME NEW m \in Messages, NEW R \in [Routers -> Nat], NEW I, NEW E, NEW c,
         InLine(I, E, c, m, R), Fitted(I, E, R),
         NEW r \in Passed(I, E), \A x \in Routers : <<r, x>> \notin Feeds(I, E),
         \A l \in DataChannels : l.from = r => I[l] = {},
         NEW d, \A x \in Routers \ {r} : d[x] = c[x]
  PROVE  InLine(I, E, d, m, R)
<1> DEFINE V == Passed(I, E)
           n == Nexts(c)
           k == Nexts(d)
           f == Last(m)
<1>1. r \in Routers /\ V \in SUBSET Routers
  BY PassedAre, Zenon
<1>2. Lined(V, k, R, f)
  <2> DEFINE r0 == First(m)
             P == Feeds(I, E)
  <2>1. Lined(V, n, R, f) /\ Rooted(V, R, r0) /\ Fed(V, P, n, R, r0) /\ (\A x \in Routers : <<r, x>> \notin P)
    BY LineIsFed, Zenon DEF InLine
  <2>2. \A x \in V \ {r} : k[x] = n[x]
    BY <1>1, Zenon DEF Nexts
  <2> HIDE DEF n, k, f, r0, P, V
  <2>3. r \in V
    BY Zenon DEF V
  <2>4. Top(V, R, r)
    BY <1>1, <2>1, <2>3, IdleIsTop, SMT
  <2> QED BY <1>1, <2>1, <2>2, <2>3, <2>4, TurnsLine, SMT
<1>3. LeadsOn(I, d, m)
  <2>1. \A l \in DataChannels : I[l] # {} /\ l.from \in Routers => d[l.from] = c[l.from]
    BY Zenon
  <2> QED BY <2>1, Zenon DEF InLine, LeadsOn
<1>4. NotesLead(E, d, m)
  <2>1. ASSUME NEW x \in Routers, NEW p \in Routers, <<x, p>> \in E
        PROVE  d[p] = c[p]
    <3>1. <<p, x>> \in Feeds(I, E)
      BY <2>1, FeedsIs, SMT
    <3>2. p # r
      BY <3>1, Zenon
    <3> QED BY <3>2, Zenon
  <2>2. NotesLead(E, c, m)
    BY Zenon DEF InLine
  <2>3. ASSUME NEW x \in Routers, NEW p \in Routers \union Hosts, <<x, p>> \in E
        PROVE  /\ p \in Routers => d[p].to = x
               /\ p \notin Routers => x = First(m)
    <3>1. /\ p \in Routers => c[p].to = x
          /\ p \notin Routers => x = First(m)
      BY <2>2, <2>3, Zenon DEF NotesLead
    <3>2. p \in Routers => d[p].to = c[p].to
      <4>1. p \in Routers => d[p] = c[p]
        BY <2>1, <2>3, Zenon
      <4> QED BY <4>1, Zenon
    <3> QED BY <3>1, <3>2, Zenon
  <2> QED BY <2>3, Zenon DEF NotesLead
<1> QED BY <1>2, <1>3, <1>4, Zenon DEF InLine

---------------------------------------------------------------------------
(* The line of a message in a state *)

IdsOn(q, m) == [l \in DataChannels |-> Ids(q[l], m)]
HasEntry(al, r, p, m) == \E k \in 1 .. Len(al[r]) : al[r][k].msg = m /\ al[r][k].port = p
Marked(al, m) == {e \in Routers \X (Routers \union Hosts) : HasEntry(al, e[1], e[2], m)}
HopsOf(mc, m) == [r \in Routers |-> mc[r][m]]
Risen(q, m) == \A l \in DataChannels : Rising(q[l], m)
LineOf(q, al, mc, m, R) == InLine(IdsOn(q, m), Marked(al, m), HopsOf(mc, m), m, R)

\* Every hop of message m leads to a router of a higher rank.
Climbs(m, R) ==
  R \in [Routers -> Nat] /\ \A r \in Routers : \A h \in Hops[m][r] : R[r] < R[h.to]

\* A packet of m that is routed in r and not yet handled.
RoutedAt(q, hd, r, m) ==
  \E l \in DataChannels : l.to = r /\ hd[l] # Unrouted /\ Head(q[l]).msg = m
Busy(st, r, m) == st[r][m].first # st[r][m].second

LEMMA MarkedIs ==
  ASSUME NEW al, NEW m, NEW x \in Routers, NEW p \in Routers \union Hosts
  PROVE  <<x, p>> \in Marked(al, m) <=> HasEntry(al, x, p, m)
<1>1. <<x, p>> \in Routers \X (Routers \union Hosts) /\ <<x, p>>[1] = x /\ <<x, p>>[2] = p
  BY SMT
<1> QED BY <1>1, Zenon DEF Marked

LEMMA EntryIs ==
  ASSUME NEW e \in Entries
  PROVE  e.msg \in Messages /\ e.port \in Routers \union Hosts
BY SMT DEF Entries

\* What the books say of a router and message.
LEMMA AccountIs ==
  ASSUME NEW q, NEW hd, NEW al, NEW st, NEW mc, Keeps(q, hd, al, st, mc), NEW r \in Routers, NEW m \in Messages
  PROVE  /\ q \in Queues /\ Routed(q, hd) /\ al \in Lists
         /\ Summed(Channels, Load(q, r, m)) /\ Summed(Channels, Open(q, hd, r, m)) /\ Summed(Routers, Due(al, r, m))
         /\ Kept(al, r, m) = 0 => Out(q, r, m) = 0 /\ Coming(al, r, m) = 0
         /\ r = Last(m) => Kept(al, r, m) = 0 /\ st[r][m].second = 0
         /\ r # Last(m) /\ ~Busy(st, r, m) => Coming(al, r, m) = 0 /\ Pending(q, hd, r, m) = 0
<1>1. q \in Queues /\ Routed(q, hd) /\ al \in Lists
  BY FitIs, Zenon DEF Keeps, ListsFit
<1>2. /\ OffBy(q, hd, al, st[r][m], r, m, 0, 0)
      /\ r = Last(m) => Kept(al, r, m) = 0 /\ st[r][m].second = 0
  BY Zenon DEF Keeps, Balanced, Last
<1>3. PICK c \in Tallies : c = st[r][m]
  BY Zenon DEF Keeps, CountsFit
<1>4. c.first \in Nat /\ c.second \in Nat
  BY SMT DEF Tallies
<1>5. /\ Sums(q, hd, al, r, m)
      /\ Kept(al, r, m) + 0 = Out(q, r, m) + Coming(al, r, m)
      /\ r # Last(m) => c.first + 0 = c.second + Coming(al, r, m) + Pending(q, hd, r, m)
  BY <1>2, <1>3, Zenon DEF OffBy, Last
<1>6. /\ Kept(al, r, m) \in Nat /\ Out(q, r, m) \in Nat
      /\ Coming(al, r, m) \in Nat /\ Pending(q, hd, r, m) \in Nat
      /\ Summed(Channels, Load(q, r, m)) /\ Summed(Channels, Open(q, hd, r, m))
      /\ Summed(Routers, Due(al, r, m))
  BY <1>1, <1>5, SumsAre, Zenon
<1>7. Kept(al, r, m) = 0 => Out(q, r, m) = 0 /\ Coming(al, r, m) = 0
  BY <1>5, <1>6, SMT
<1>8. r # Last(m) /\ c.first = c.second => Coming(al, r, m) = 0 /\ Pending(q, hd, r, m) = 0
  BY <1>4, <1>5, <1>6, SMT
<1> QED BY <1>1, <1>2, <1>3, <1>6, <1>7, <1>8, Zenon DEF Busy

\* A channel with numbers of m has packets of m.
LEMMA IdsAreCounted ==
  ASSUME NEW q \in Queues, NEW l \in DataChannels, NEW m, IdsOn(q, m)[l] # {}
  PROVE  HowMany(q[l], PacketsOf(m)) # 0
<1>1. l \in Channels /\ IdsOn(q, m)[l] = Ids(q[l], m)
  BY Zenon DEF DataChannels, IdsOn
<1>2. PICK i \in 1 .. Len(q[l]) : q[l][i].msg = m
  BY <1>1, Zenon DEF Ids, IdsIn
<1>3. q[l] \in Seq(Packets)
  BY <1>1, Zenon DEF Queues
<1>4. q[l][i] \in Packets
  BY <1>3, SMT
<1>5. q[l][i] \in PacketsOf(m)
  BY <1>2, <1>4, Zenon DEF PacketsOf
<1> QED BY <1>3, <1>5, HowManyIs, Zenon

\* A router that has nothing out for m feeds no other.
LEMMA FeederIs ==
  ASSUME NEW q, NEW hd, NEW al, NEW st, NEW mc, Keeps(q, hd, al, st, mc),
         NEW r \in Routers, NEW x \in Routers, NEW m \in Messages, <<r, x>> \in Feeds(IdsOn(q, m), Marked(al, m))
  PROVE  /\ Kept(al, r, m) # 0 /\ r # Last(m) /\ Busy(st, r, m)
         /\ r \in Noters(Marked(al, m))
<1> DEFINE I == IdsOn(q, m)
           E == Marked(al, m)
<1>1. /\ q \in Queues /\ Routed(q, hd) /\ al \in Lists
      /\ Summed(Channels, Load(q, r, m)) /\ Summed(Channels, Open(q, hd, r, m)) /\ Summed(Routers, Due(al, r, m))
      /\ Kept(al, r, m) = 0 => Out(q, r, m) = 0 /\ Coming(al, r, m) = 0
      /\ r = Last(m) => Kept(al, r, m) = 0
      /\ r # Last(m) /\ ~Busy(st, r, m) => Coming(al, r, m) = 0 /\ Pending(q, hd, r, m) = 0
  BY AccountIs, Zenon
<1>2. ASSUME <<x, r>> \in E
      PROVE  Coming(al, r, m) # 0
  <2>1. PICK k \in 1 .. Len(al[x]) : al[x][k].msg = m /\ al[x][k].port = r
    <3>1. r \in Routers \union Hosts
      BY Zenon
    <3>2. \E k \in 1 .. Len(al[x]) : al[x][k].msg = m /\ al[x][k].port = r
      <4>1. <<x, r>>[1] = x /\ <<x, r>>[2] = r
        BY SMT
      <4> QED BY <1>2, <4>1, Zenon DEF Marked, HasEntry
    <3> QED BY <3>2, Zenon
  <2>2. al[x] \in Seq(Entries)
    BY <1>1, Zenon DEF Lists
  <2>3. al[x][k] \in Entries
    BY <2>2, SMT
  <2>4. al[x][k] \in EntriesBy(m, r)
    BY <2>1, <2>3, Zenon DEF EntriesBy, EntriesOf
  <2>5. HowMany(al[x], EntriesBy(m, r)) # 0
    BY <2>2, <2>4, HowManyIs, Zenon
  <2>6. Due(al, r, m)[x] # 0
    BY <2>5, Zenon DEF Due
  <2> QED BY <1>1, <2>6, SummedIs, Zenon DEF Coming
<1>3. ASSUME NEW l \in DataChannels, l.from = r, l.to = x, I[l] # {}
      PROVE  Out(q, r, m) # 0 /\ Pending(q, hd, r, m) # 0
  <2>1. HowMany(q[l], PacketsOf(m)) # 0 /\ l \in Channels /\ l.vc # AckVC
    BY <1>1, <1>3, IdsAreCounted, Zenon DEF DataChannels
  <2>2. On(l, r) /\ l.to # r
    BY <1>3, <2>1, ChannelKinds, Zenon DEF On
  <2>3. Load(q, r, m)[l] # 0
    <3>1. LoadTerms(Load(q, r, m), q, r, m)
      BY <1>1, LoadIs, Zenon
    <3> QED BY <2>1, <2>2, <3>1, Zenon DEF LoadTerms
  <2>4. OpenAt(q, hd, l, r, m) # 0
    <3>1. CASE hd[l] = Unrouted
      <4>1. q \in Queues /\ l \in Channels /\ On(l, r)
        BY <1>1, <2>1, <2>2, Zenon
      <4>2. OpenAt(q, hd, l, r, m) = HowMany(q[l], PacketsOf(m))
        BY <3>1, <4>1, OpenUnrouted, Zenon
      <4> QED BY <2>1, <4>2, Zenon
    <3>2. CASE hd[l] # Unrouted
      BY <1>1, <2>1, <2>2, <3>2, OpenRoutedData, SMT
    <3> QED BY <3>1, <3>2, Zenon
  <2>5. Open(q, hd, r, m)[l] # 0
    BY <2>1, <2>4, Zenon DEF Open
  <2> QED BY <1>1, <2>1, <2>3, <2>5, SummedIs, Zenon DEF Out, Pending
<1>4. <<x, r>> \in E \/ \E l \in DataChannels : l.from = r /\ l.to = x /\ I[l] # {}
  BY FeedsIs, SMT
<1>5. Kept(al, r, m) # 0 /\ r # Last(m) /\ Busy(st, r, m)
  BY <1>1, <1>2, <1>3, <1>4, Zenon
<1>6. r \in Noters(E)
  <2>1. al[r] \in Seq(Entries)
    BY <1>1, Zenon DEF Lists
  <2>2. PICK k \in 1 .. Len(al[r]) : al[r][k] \in EntriesOf(m)
    BY <1>5, <2>1, HowManyIs, Zenon DEF Kept
  <2>3. al[r][k].msg = m /\ al[r][k].port \in Routers \union Hosts
    BY <2>2, EntryIs, Zenon DEF EntriesOf
  <2>4. <<r, al[r][k].port>> \in E
    <3>1. HasEntry(al, r, al[r][k].port, m)
      BY <2>3, Zenon DEF HasEntry
    <3> QED BY <2>3, <3>1, MarkedIs, Zenon
  <2> QED BY <2>3, <2>4, Zenon DEF Noters
<1> QED BY <1>5, <1>6, Zenon

\* A router that has routed a packet and not handled it is waiting for its ACK.
LEMMA RoutedIsBusy ==
  ASSUME NEW q, NEW hd, NEW al, NEW st, NEW mc, Keeps(q, hd, al, st, mc),
         NEW r \in Routers, NEW m \in Messages, r # Last(m), RoutedAt(q, hd, r, m)
  PROVE  Busy(st, r, m)
<1>1. /\ q \in Queues /\ Routed(q, hd) /\ Summed(Channels, Open(q, hd, r, m))
      /\ ~Busy(st, r, m) => Pending(q, hd, r, m) = 0
  BY AccountIs, Zenon
<1>2. PICK l \in DataChannels : l.to = r /\ hd[l] # Unrouted /\ Head(q[l]).msg = m
  BY Zenon DEF RoutedAt
<1>3. l \in Channels /\ l.vc # AckVC
  BY Zenon DEF DataChannels
<1>4. OpenAt(q, hd, l, r, m) = OfMsg(Head(q[l]), m)
  BY <1>1, <1>2, <1>3, OpenRoutedData, SMT
<1>5. OfMsg(Head(q[l]), m) = 1
  BY <1>2, Zenon DEF OfMsg, One
<1>6. Open(q, hd, r, m)[l] # 0
  <2>1. 1 # 0
    BY SMT
  <2> QED BY <1>3, <1>4, <1>5, <2>1, Zenon DEF Open
<1> QED BY <1>1, <1>3, <1>6, SummedIs, Zenon DEF Pending

\* The routers a message has passed fit its ranks.
LEMMA StateIsFitted ==
  ASSUME NEW q, NEW hd, NEW al, NEW st, NEW mc, Keeps(q, hd, al, st, mc),
         NEW m \in Messages, NEW R, Climbs(m, R),
         LeadsOn(IdsOn(q, m), HopsOf(mc, m), m), NotesLead(Marked(al, m), HopsOf(mc, m), m)
  PROVE  Fitted(IdsOn(q, m), Marked(al, m), R)
<1> DEFINE I == IdsOn(q, m)
           E == Marked(al, m)
<1>1. ASSUME NEW p \in Routers, NEW x \in Routers, <<p, x>> \in Feeds(I, E)
      PROVE  p \in Noters(E) /\ R[p] < R[x]
  <2>1. p # Last(m) /\ Busy(st, p, m) /\ p \in Noters(E)
    BY <1>1, FeederIs, Zenon
  <2>2. st[p][m].first > 0
    <3>1. st[p][m] \in Tallies
      BY Zenon DEF Keeps, CountsFit
    <3>2. PICK c \in Tallies : c = st[p][m]
      BY <3>1, Zenon
    <3>3. PICK d \in Nat, e \in Nat : c.first + 0 = c.second + d + e
      <4>1. /\ OffBy(q, hd, al, st[p][m], p, m, 0, 0) /\ al \in Lists
        BY FitIs, Zenon DEF Keeps, Balanced, ListsFit
      <4>2. /\ Sums(q, hd, al, p, m)
            /\ c.first + 0 = c.second + Coming(al, p, m) + Pending(q, hd, p, m)
        BY <2>1, <3>2, <4>1, Zenon DEF OffBy, Last
      <4>3. Coming(al, p, m) \in Nat /\ Pending(q, hd, p, m) \in Nat
        BY <4>1, <4>2, SumsAre, Zenon
      <4> QED BY <4>2, <4>3, Zenon
    <3>4. c.first \in Nat /\ c.second \in Nat /\ c.first # c.second
      <4>1. c.first \in Nat /\ c.second \in Nat
        BY SMT DEF Tallies
      <4> QED BY <2>1, <3>2, <4>1, Zenon DEF Busy
    <3>5. PICK a \in Nat, b \in Nat : a = c.first /\ b = c.second
      BY <3>4, Zenon
    <3>6. a + 0 = b + d + e /\ a # b
      BY <3>3, <3>4, <3>5, Zenon
    <3>7. a > 0
      BY <3>6, SMT
    <3> QED BY <3>2, <3>5, <3>7, Zenon
  <2>3. mc[p][m] \in Hops[m][p]
    BY <2>1, <2>2, Zenon DEF Keeps, CountsFit, CachedFits, HopFits, Last
  <2>4. mc[p][m].to = x
    <3>1. HopsOf(mc, m)[p] = mc[p][m]
      BY Zenon DEF HopsOf
    <3>2. <<x, p>> \in E => HopsOf(mc, m)[p].to = x
      BY Zenon DEF NotesLead
    <3>3. ASSUME NEW l \in DataChannels, l.from = p, l.to = x, I[l] # {}
          PROVE  HopsOf(mc, m)[p].to = x
      <4>1. HopsOf(mc, m)[p] = Hop(l.to, l.vc)
        BY <3>3, Zenon DEF LeadsOn
      <4>2. Hop(l.to, l.vc).to = x
        BY <3>3, HopIs, SMT
      <4> QED BY <4>1, <4>2, Zenon
    <3>4. <<x, p>> \in E \/ \E l \in DataChannels : l.from = p /\ l.to = x /\ I[l] # {}
      BY <1>1, FeedsIs, SMT
    <3> QED BY <3>1, <3>2, <3>3, <3>4, Zenon
  <2> QED BY <2>1, <2>3, <2>4, Zenon DEF Climbs
<1> QED BY <1>1, Zenon DEF Fitted

---------------------------------------------------------------------------
(* What a packet in and a packet out do to the numbers *)

LEMMA IdsOnIs ==
  ASSUME NEW q, NEW m, NEW l \in DataChannels
  PROVE  IdsOn(q, m)[l] = Ids(q[l], m) /\ l \in Channels /\ l.vc # AckVC
BY Zenon DEF IdsOn, DataChannels

LEMMA PushIds ==
  ASSUME NEW q \in Queues, NEW g \in DataChannels, NEW p \in Packets, NEW m
  PROVE  /\ p.msg = m => Come(IdsOn(q, m), IdsOn(Pushed(q, g, p), m), g, p.id)
         /\ p.msg # m => IdsOn(Pushed(q, g, p), m) = IdsOn(q, m)
         /\ Risen(q, m) /\ (p.msg = m => \A n \in IdsOn(q, m)[g] : n < p.id) => Risen(Pushed(q, g, p), m)
<1> DEFINE t == Pushed(q, g, p)
           I == IdsOn(q, m)
           J == IdsOn(t, m)
<1>1. g \in Channels /\ q[g] \in Seq(Packets)
  BY Zenon DEF DataChannels, Queues
<1>2. t[g] = Append(q[g], p) /\ \A k \in Channels \ {g} : t[k] = q[k]
  BY <1>1, PushIs, Zenon
<1> HIDE DEF t
<1>3. /\ p.msg = m => Ids(t[g], m) = Ids(q[g], m) \union {p.id}
      /\ p.msg # m => Ids(t[g], m) = Ids(q[g], m)
      /\ Rising(q[g], m) /\ (p.msg = m => \A n \in Ids(q[g], m) : n < p.id) => Rising(t[g], m)
  <2>1. /\ p.msg = m => Ids(Append(q[g], p), m) = Ids(q[g], m) \union {p.id}
        /\ p.msg # m => Ids(Append(q[g], p), m) = Ids(q[g], m)
        /\ Rising(q[g], m) /\ (p.msg = m => \A n \in Ids(q[g], m) : n < p.id) => Rising(Append(q[g], p), m)
    BY <1>1, AppendIds, Zenon
  <2> QED BY <1>2, <2>1, Zenon
<1>4. \A k \in DataChannels \ {g} : J[k] = I[k] /\ t[k] = q[k]
  BY <1>2, Zenon DEF IdsOn, DataChannels
<1>5. I[g] = Ids(q[g], m) /\ J[g] = Ids(t[g], m)
  BY IdsOnIs, Zenon
<1>6. p.msg = m => Come(I, J, g, p.id)
  BY <1>3, <1>4, <1>5, Zenon DEF Come
<1>7. p.msg # m => J = I
  <2>1. p.msg # m => \A k \in DataChannels : Ids(t[k], m) = Ids(q[k], m)
    BY <1>3, <1>4, Zenon
  <2> QED BY <2>1, Zenon DEF IdsOn
<1>8. ASSUME Risen(q, m), p.msg = m => \A n \in I[g] : n < p.id
      PROVE  Risen(t, m)
  <2>1. Rising(t[g], m)
    BY <1>3, <1>5, <1>8, Zenon DEF Risen
  <2> QED BY <1>4, <1>8, <2>1, Zenon DEF Risen
<1> QED BY <1>6, <1>7, <1>8, Zenon DEF t

LEMMA PopIds ==
  ASSUME NEW q \in Queues, NEW l \in DataChannels, q[l] # <<>>, NEW m, Risen(q, m)
  PROVE  /\ Head(q[l]).msg = m => Gone(IdsOn(q, m), IdsOn(Popped(q, l), m), l, Head(q[l]).id)
         /\ Head(q[l]).msg # m => IdsOn(Popped(q, l), m) = IdsOn(q, m)
         /\ Risen(Popped(q, l), m)
<1> DEFINE t == Popped(q, l)
           I == IdsOn(q, m)
           J == IdsOn(t, m)
           p == Head(q[l])
<1>1. l \in Channels /\ q[l] \in Seq(Packets) /\ Rising(q[l], m)
  BY Zenon DEF DataChannels, Queues, Risen
<1>2. t[l] = Tail(q[l]) /\ \A k \in Channels \ {l} : t[k] = q[k]
  BY <1>1, PopIs, Zenon
<1> HIDE DEF t
<1>3. /\ p.msg = m => /\ p.id \in Ids(q[l], m) /\ Ids(t[l], m) = Ids(q[l], m) \ {p.id}
                      /\ \A n \in Ids(t[l], m) : p.id < n
      /\ p.msg # m => Ids(t[l], m) = Ids(q[l], m)
      /\ Rising(t[l], m)
  BY <1>1, <1>2, TailIds, SMT
<1>4. \A k \in DataChannels \ {l} : J[k] = I[k] /\ t[k] = q[k]
  BY <1>2, Zenon DEF IdsOn, DataChannels
<1>5. I[l] = Ids(q[l], m) /\ J[l] = Ids(t[l], m)
  BY IdsOnIs, Zenon
<1>6. p.msg = m => Gone(I, J, l, p.id)
  <2> HIDE DEF p
  <2> QED BY <1>3, <1>4, <1>5, Zenon DEF Gone
<1>7. p.msg # m => J = I
  <2>1. p.msg # m => \A k \in DataChannels : Ids(t[k], m) = Ids(q[k], m)
    BY <1>3, <1>4, Zenon
  <2> QED BY <2>1, Zenon DEF IdsOn
<1>8. Risen(t, m)
  BY <1>3, <1>4, Zenon DEF Risen
<1> QED BY <1>6, <1>7, <1>8, Zenon DEF t

\* Queues that differ in ACKs only have the same numbers.
LEMMA SameData ==
  ASSUME NEW q, NEW t, NEW m, \A k \in DataChannels : t[k] = q[k]
  PROVE  IdsOn(t, m) = IdsOn(q, m) /\ (Risen(q, m) => Risen(t, m))
<1>1. IdsOn(t, m) = IdsOn(q, m)
  BY Zenon DEF IdsOn
<1> QED BY <1>1, Zenon DEF Risen

\* The head of a channel that is not empty stays when a packet comes.
LEMMA PushedHead ==
  ASSUME NEW q \in Queues, NEW g \in Channels, NEW p \in Packets, NEW k \in Channels, q[k] # <<>>
  PROVE  Pushed(q, g, p)[k] # <<>> /\ Head(Pushed(q, g, p)[k]) = Head(q[k])
<1>1. q[k] \in Seq(Packets)
  BY Zenon DEF Queues
<1>2. Append(q[k], p) # <<>> /\ Head(Append(q[k], p)) = Head(q[k])
  BY <1>1, AppendIs, SMT
<1>3. Pushed(q, g, p)[g] = Append(q[g], p) /\ \A j \in Channels \ {g} : Pushed(q, g, p)[j] = q[j]
  BY PushIs, Zenon
<1>4. CASE k = g
  BY <1>2, <1>3, <1>4, Zenon
<1>5. CASE k # g
  BY <1>3, <1>5, Zenon
<1> QED BY <1>4, <1>5, Zenon

---------------------------------------------------------------------------
(* The order of a message in a state *)

HeadsFollow(q, hd, mc, m) ==
  \A l \in DataChannels : hd[l] # Unrouted /\ Head(q[l]).msg = m => hd[l] = mc[l.to][m]
LeftFor(q, m) == \E l \in DataChannels : l.from = Last(m) /\ IdsOn(q, m)[l] # {}
LastCounts(q, hd, st, m) ==
  RoutedAt(q, hd, Last(m), m) \/ LeftFor(q, m) => st[Last(m)][m].first > 0

\* The packets of m from number a on and before b are in flight, in order.
Between(q, m, a, b) == Aloft(IdsOn(q, m)) = a .. b - 1 /\ a <= b
PathInv(m, R) ==
  /\ LineOf(queue, ack_list, map_cached, m, R) /\ Risen(queue, m)
  /\ HeadsFollow(queue, head, map_cached, m) /\ LastCounts(queue, head, list_ack_status, m)
OrderInv(m, R) == PathInv(m, R) /\ Between(queue, m, recv[m], sent[m]) /\ held[m] = {}

\* Packet p waits in channel l; and is given a hop.
WaitsOn(l, p) == \E i \in 1 .. Len(queue[l]) : p = queue[l][i]
Turned(l, p, hop) == [map_cached EXCEPT ![l.to] = Cached(@, p, hop)]

\* The hop that message m gets in a router fits the line it is on.
LEMMA TurnKeeps ==
  ASSUME Keeps(queue, head, ack_list, list_ack_status, map_cached),
         NEW m \in Messages, NEW R, Climbs(m, R), PathInv(m, R),
         NEW l \in Channels, l.to \in Routers, NEW p, WaitsOn(l, p), NEW hop \in Routes(l, p)
  PROVE  /\ LineOf(queue, ack_list, Turned(l, p, hop), m, R) /\ HeadsFollow(queue, head, Turned(l, p, hop), m)
         /\ l.vc # AckVC /\ p.msg = m => Turned(l, p, hop)[l.to][m] = hop
<1>0. PICK i \in 1 .. Len(queue[l]) : p = queue[l][i]
  BY Zenon DEF WaitsOn
<1> DEFINE mc == Turned(l, p, hop)
           r == l.to
           I == IdsOn(queue, m)
           E == Marked(ack_list, m)
           c == HopsOf(map_cached, m)
<1>1. /\ queue \in Queues /\ queue[l] \in Seq(Carried(l))
      /\ map_cached \in [Routers -> [Messages -> [to : Routers \union Hosts, vc : Nat]]]
  BY FitIs, Zenon DEF Keeps, CountsFit
<1>2. p \in Carried(l)
  BY <1>0, <1>1, SMT
<1>3. p.msg \in Messages /\ (l.vc = AckVC <=> p.ack = TRUE) /\ p.ack \in BOOLEAN
  BY <1>2, CarriedIs, Zenon
<1>7. mc = [map_cached EXCEPT ![l.to] = Cached(@, p, hop)]
  BY Zenon DEF Turned
<1> HIDE DEF mc
<1>4. LineOf(queue, ack_list, map_cached, m, R) /\ HeadsFollow(queue, head, map_cached, m)
      /\ LastCounts(queue, head, list_ack_status, m) /\ R \in [Routers -> Nat]
  BY Zenon DEF PathInv, Climbs
<1>5. CASE \A x \in Routers : mc[x][m] = map_cached[x][m]
  <2>1. HopsOf(mc, m) = c
    BY <1>5, Zenon DEF HopsOf
  <2>2. HeadsFollow(queue, head, mc, m)
    <3>1. ASSUME NEW k \in DataChannels, head[k] # Unrouted
          PROVE  k.to \in Routers
      BY <3>1, Zenon DEF Keeps, Fit, HeadFits, DataChannels
    <3> QED BY <1>4, <1>5, <3>1, Zenon DEF HeadsFollow
  <2>3. LineOf(queue, ack_list, mc, m, R)
    BY <1>4, <2>1, Zenon DEF LineOf
  <2>4. ASSUME l.vc # AckVC, p.msg = m
        PROVE  mc[r][m] = hop
    BY <1>1, <1>3, <1>7, <2>4, Zenon DEF Cached
  <2> QED BY <2>2, <2>3, <2>4, Zenon DEF mc
<1>6. ASSUME ~(\A x \in Routers : mc[x][m] = map_cached[x][m])
      PROVE  /\ LineOf(queue, ack_list, mc, m, R) /\ HeadsFollow(queue, head, mc, m)
             /\ l.vc # AckVC /\ p.msg = m => mc[l.to][m] = hop
  <2>1. \A x \in Routers \ {r} : mc[x] = map_cached[x]
    BY <1>1, <1>7, Zenon
  <2>2. mc[r] = Cached(map_cached[r], p, hop)
    BY <1>1, <1>7, Zenon
  <2>3. l.vc # AckVC /\ p.msg = m /\ ~p.ack
    BY <1>1, <1>3, <1>6, <2>1, <2>2, Zenon DEF Cached
  <2>4. mc[r][m] = hop
    BY <1>1, <2>2, <2>3, Zenon DEF Cached
  <2>5. ~Busy(list_ack_status, r, m)
    BY <1>6, <2>1, <2>3, <2>4, Zenon DEF Routes, SamePath, Busy
  <2>6. \A x \in Routers : <<r, x>> \notin Feeds(I, E)
    BY <2>5, FeederIs, Zenon
  <2>7. ~RoutedAt(queue, head, r, m) /\ \A k \in DataChannels : k.from = r => I[k] = {}
    <3>1. CASE r = Last(m)
      <4>1. list_ack_status[r][m].second = 0
        BY <3>1, AccountIs, Zenon
      <4>2. ~(0 > 0)
        BY SMT
      <4>3. ~(list_ack_status[r][m].first > 0)
        BY <2>5, <4>1, <4>2, Zenon DEF Busy
      <4> QED BY <1>4, <3>1, <4>3, Zenon DEF LastCounts, LeftFor
    <3>2. CASE r # Last(m)
      <4>1. ~RoutedAt(queue, head, r, m)
        BY <2>5, <3>2, RoutedIsBusy, Zenon
      <4>2. ASSUME NEW k \in DataChannels, k.from = r, I[k] # {}
            PROVE  FALSE
        <5>1. k.to \notin Hosts
          BY <1>4, <3>2, <4>2, Zenon DEF LineOf, InLine, LeadsOn
        <5>2. k.to \in Routers
          BY <5>1, ChannelKinds, Zenon DEF DataChannels
        <5>3. <<r, k.to>> \in Feeds(I, E)
          <6>1. k.from \in Routers
            BY <4>2, Zenon
          <6>2. <<k.from, k.to>> \in Feeds(I, E)
            BY <4>2, <5>2, <6>1, FeedsOn, Zenon
          <6> QED BY <4>2, <6>2, Zenon
        <5> QED BY <2>6, <5>2, <5>3, Zenon
      <4> QED BY <4>1, <4>2, Zenon
    <3> QED BY <3>1, <3>2, Zenon
  <2>8. r \in Passed(I, E)
    <3>1. l \in DataChannels
      BY <2>3, Zenon DEF DataChannels
    <3>2. p.id \in I[l]
      <4>1. p.id \in Ids(queue[l], m)
        BY <1>0, <2>3, Zenon DEF Ids, IdsIn
      <4> QED BY <3>1, <4>1, IdsOnIs, Zenon
    <3>3. I[l] # {}
      BY <3>2, Zenon
    <3> QED BY <3>1, <3>3, WaitsIn, Zenon
  <2>9. Fitted(I, E, R)
    BY <1>4, StateIsFitted, Zenon DEF LineOf, InLine
  <2>10. LineOf(queue, ack_list, mc, m, R)
    <3> DEFINE d == HopsOf(mc, m)
    <3>1. \A x \in Routers \ {r} : d[x] = c[x]
      <4>1. \A x \in Routers : d[x] = mc[x][m] /\ c[x] = map_cached[x][m]
        BY Zenon DEF HopsOf
      <4>2. ASSUME NEW x \in Routers \ {r}
            PROVE  d[x] = c[x]
        <5>1. x \in Routers /\ mc[x] = map_cached[x]
          BY <2>1, Zenon
        <5>2. mc[x][m] = map_cached[x][m]
          BY <5>1, Zenon
        <5> QED BY <4>1, <5>1, <5>2, Zenon
      <4> QED BY <4>2, Zenon
    <3>2. InLine(I, E, c, m, R)
      BY <1>4, Zenon DEF LineOf
    <3> HIDE DEF d, c, I, E
    <3>3. InLine(I, E, d, m, R)
      BY <1>4, <2>6, <2>7, <2>8, <2>9, <3>1, <3>2, TurnInLine, SMT
    <3> QED BY <3>3, Zenon DEF LineOf, d, I, E
  <2>11. HeadsFollow(queue, head, mc, m)
    <3>1. ASSUME NEW k \in DataChannels, head[k] # Unrouted, Head(queue[k]).msg = m
          PROVE  head[k] = mc[k.to][m]
      <4>1. k.to # r
        BY <2>7, <3>1, Zenon DEF RoutedAt
      <4>2. k.to \in Routers
        BY <3>1, Zenon DEF Keeps, Fit, HeadFits, DataChannels
      <4>3. head[k] = map_cached[k.to][m]
        BY <1>4, <3>1, Zenon DEF HeadsFollow
      <4> QED BY <2>1, <4>1, <4>2, <4>3, Zenon
    <3> QED BY <3>1, Zenon DEF HeadsFollow
  <2> QED BY <2>4, <2>10, <2>11, Zenon
<1> QED BY <1>5, <1>6, Zenon DEF mc

---------------------------------------------------------------------------
(* The steps keep the order: a packet is routed *)

LEMMA CountedIs ==
  ASSUME NEW s \in [Messages -> Tallies], NEW p, p.msg \in Messages, p.ack \in BOOLEAN, NEW m \in Messages
  PROVE  /\ s[m].first > 0 => Counted(s, p)[m].first > 0
         /\ ~p.ack /\ p.msg = m => Counted(s, p)[m].first > 0
<1>1. PICK c \in Tallies : c = s[p.msg]
  BY Zenon
<1>2. c.first \in Nat /\ c.second \in Nat /\ c.first + 1 > 0
  BY SMT DEF Tallies
<1>3. CASE p.msg # m
  BY <1>3, Zenon DEF Counted
<1>4. CASE p.msg = m /\ p.ack
  <2>1. Counted(s, p)[m] = [c EXCEPT !.second = @ + 1]
    BY <1>1, <1>4, Zenon DEF Counted
  <2>2. [c EXCEPT !.second = @ + 1].first = c.first
    BY SMT DEF Tallies
  <2> QED BY <1>1, <1>4, <2>1, <2>2, Zenon
<1>5. CASE p.msg = m /\ ~p.ack
  <2>1. Counted(s, p)[m] = [c EXCEPT !.first = @ + 1]
    BY <1>1, <1>5, Zenon DEF Counted
  <2>2. [c EXCEPT !.first = @ + 1].first = c.first + 1
    BY SMT DEF Tallies
  <2> QED BY <1>2, <2>1, <2>2, Zenon
<1> QED BY <1>3, <1>4, <1>5, Zenon

\* The routed heads of every channel but l are what they were.
HeadsStay(q, hd, t, he, l) ==
  \A k \in DataChannels \ {l} : he[k] = hd[k] /\ (hd[k] # Unrouted => Head(t[k]) = Head(q[k]))

LEMMA HeadsAfter ==
  ASSUME NEW q, NEW hd, NEW t, NEW he, NEW l, NEW mc, NEW m, HeadsFollow(q, hd, mc, m),
         HeadsStay(q, hd, t, he, l),
         l \in DataChannels /\ he[l] # Unrouted /\ Head(t[l]).msg = m => he[l] = mc[l.to][m]
  PROVE  HeadsFollow(t, he, mc, m)
<1>1. ASSUME NEW k \in DataChannels, he[k] # Unrouted, Head(t[k]).msg = m
      PROVE  he[k] = mc[k.to][m]
  <2>1. CASE k = l
    BY <1>1, <2>1, Zenon
  <2>2. CASE k # l
    <3>1. he[k] = hd[k] /\ Head(t[k]) = Head(q[k])
      BY <1>1, <2>2, Zenon DEF HeadsStay
    <3>2. hd[k] # Unrouted /\ Head(q[k]).msg = m
      BY <1>1, <3>1, Zenon
    <3>3. hd[k] = mc[k.to][m]
      BY <3>2, Zenon DEF HeadsFollow
    <3> QED BY <3>1, <3>3, Zenon
  <2> QED BY <2>1, <2>2, Zenon
<1> QED BY <1>1, Zenon DEF HeadsFollow

LEMMA CountsAfter ==
  ASSUME NEW q, NEW hd, NEW t, NEW he, NEW l, NEW st, NEW su, NEW m, LastCounts(q, hd, st, m),
         HeadsStay(q, hd, t, he, l),
         st[Last(m)][m].first > 0 => su[Last(m)][m].first > 0,
         l \in DataChannels /\ l.to = Last(m) /\ he[l] # Unrouted /\ Head(t[l]).msg = m => su[Last(m)][m].first > 0,
         LeftFor(t, m) => RoutedAt(q, hd, Last(m), m) \/ LeftFor(q, m)
  PROVE  LastCounts(t, he, su, m)
<1>1. ASSUME RoutedAt(t, he, Last(m), m)
      PROVE  su[Last(m)][m].first > 0
  <2>1. PICK k \in DataChannels : k.to = Last(m) /\ he[k] # Unrouted /\ Head(t[k]).msg = m
    BY <1>1, Zenon DEF RoutedAt
  <2>2. CASE k = l
    BY <2>1, <2>2, Zenon
  <2>3. CASE k # l
    <3>1. he[k] = hd[k] /\ Head(t[k]) = Head(q[k])
      BY <2>1, <2>3, Zenon DEF HeadsStay
    <3>2. hd[k] # Unrouted /\ Head(q[k]).msg = m
      BY <2>1, <3>1, Zenon
    <3>3. RoutedAt(q, hd, Last(m), m)
      BY <2>1, <3>2, Zenon DEF RoutedAt
    <3> QED BY <3>3, Zenon DEF LastCounts
  <2> QED BY <2>2, <2>3, Zenon
<1>2. LeftFor(t, m) => su[Last(m)][m].first > 0
  BY Zenon DEF LastCounts
<1> QED BY <1>1, <1>2, Zenon DEF LastCounts

LEMMA ArriveOrders ==
  ASSUME Keeps(queue, head, ack_list, list_ack_status, map_cached),
         NEW m \in Messages, NEW R, Climbs(m, R), PathInv(m, R), NEW l \in Channels, Arrive(l)
  PROVE  PathInv(m, R)'
<1> DEFINE p == Head(queue[l])
<1>1. PICK hop \in Routes(l, p) :
        /\ l.to \in Routers /\ queue[l] # <<>> /\ head[l] = Unrouted
        /\ head' = [head EXCEPT ![l] = hop]
        /\ list_ack_status' = [list_ack_status EXCEPT ![l.to] = Counted(@, p)]
        /\ map_cached' = [map_cached EXCEPT ![l.to] = Cached(@, p, hop)]
        /\ UNCHANGED <<queue, ack_list, drain, nics>>
  BY Zenon DEF Arrive
<1>2. /\ queue \in Queues /\ queue[l] \in Seq(Carried(l)) /\ DOMAIN head = Channels
      /\ list_ack_status \in [Routers -> [Messages -> Tallies]]
  BY FitIs, Zenon DEF Keeps, CountsFit
<1>3. 1 \in 1 .. Len(queue[l]) /\ p = queue[l][1] /\ p \in Carried(l)
  BY <1>1, <1>2, SMT
<1> HIDE DEF p
<1>4. p.msg \in Messages /\ (l.vc = AckVC <=> p.ack = TRUE) /\ p.ack \in BOOLEAN
  BY <1>3, CarriedIs, Zenon
<1>5. /\ LineOf(queue, ack_list, map_cached', m, R) /\ HeadsFollow(queue, head, map_cached', m)
      /\ l.vc # AckVC /\ p.msg = m => map_cached'[l.to][m] = hop
  <2>1. WaitsOn(l, p) /\ l.to \in Routers
    BY <1>1, <1>3, Zenon DEF WaitsOn
  <2>2. /\ LineOf(queue, ack_list, Turned(l, p, hop), m, R) /\ HeadsFollow(queue, head, Turned(l, p, hop), m)
        /\ l.vc # AckVC /\ p.msg = m => Turned(l, p, hop)[l.to][m] = hop
    BY <2>1, TurnKeeps, Zenon
  <2>3. map_cached' = Turned(l, p, hop)
    BY <1>1, Zenon DEF Turned
  <2> QED BY <2>2, <2>3, Zenon
<1>6. HeadsStay(queue, head, queue, head', l) /\ head'[l] = hop
  BY <1>1, <1>2, Zenon DEF HeadsStay, DataChannels
<1>7. HeadsFollow(queue, head', map_cached', m)
  <2>1. l \in DataChannels /\ head'[l] # Unrouted /\ Head(queue[l]).msg = m => head'[l] = map_cached'[l.to][m]
    BY <1>5, <1>6, Zenon DEF DataChannels, p
  <2> QED BY <1>5, <1>6, <2>1, HeadsAfter, Zenon
<1>8. LastCounts(queue, head', list_ack_status', m)
  <2>1. \A r \in Routers \ {l.to} : list_ack_status'[r] = list_ack_status[r]
    BY <1>1, <1>2, Zenon
  <2>2. list_ack_status'[l.to] = Counted(list_ack_status[l.to], p) /\ list_ack_status[l.to] \in [Messages -> Tallies]
    BY <1>1, <1>2, Zenon
  <2>3. /\ list_ack_status[l.to][m].first > 0 => list_ack_status'[l.to][m].first > 0
        /\ ~p.ack /\ p.msg = m => list_ack_status'[l.to][m].first > 0
    BY <1>4, <2>2, CountedIs, Zenon
  <2>4. Last(m) \in Routers
    BY MessagesAssumption, TopologyAssumption, Zenon DEF Last
  <2>5. list_ack_status[Last(m)][m].first > 0 => list_ack_status'[Last(m)][m].first > 0
    BY <2>1, <2>3, <2>4, Zenon
  <2>6. l \in DataChannels /\ l.to = Last(m) /\ head'[l] # Unrouted /\ Head(queue[l]).msg = m
          => list_ack_status'[Last(m)][m].first > 0
    BY <1>4, <2>3, Zenon DEF DataChannels, p
  <2>7. LastCounts(queue, head, list_ack_status, m)
    BY Zenon DEF PathInv
  <2> QED BY <1>6, <2>5, <2>6, <2>7, CountsAfter, Zenon
<1>9. LineOf(queue', ack_list', map_cached', m, R) /\ Risen(queue', m)
  BY <1>1, <1>5, Zenon DEF PathInv
<1> QED BY <1>1, <1>7, <1>8, <1>9, Zenon DEF PathInv

\* PortControl::recv, before the packet before it is handled.
CachedThen(l, next) == [map_cached EXCEPT ![l.to] = CachedAfter(l, next)]
StatusThen(l, next) == [list_ack_status EXCEPT ![l.to] = StatusAfter(l, next)]

LEMMA RecvOrders ==
  ASSUME Keeps(queue, head, ack_list, list_ack_status, map_cached),
         NEW m \in Messages, NEW R, Climbs(m, R), PathInv(m, R),
         NEW l \in Channels, l.to \in Routers, head[l] # Unrouted, NEW next \in NextHeads(l)
  PROVE  /\ LineOf(queue, ack_list, CachedThen(l, next), m, R)
         /\ HeadsFollow(queue, head, CachedThen(l, next), m)
         /\ next # Unrouted => Len(queue[l]) > 1
         /\ next # Unrouted /\ l.vc # AckVC /\ queue[l][2].msg = m =>
              CachedThen(l, next)[l.to][m] = next /\ StatusThen(l, next)[l.to][m].first > 0
         /\ \A r \in Routers : list_ack_status[r][m].first > 0 => StatusThen(l, next)[r][m].first > 0
<1> DEFINE mc == CachedThen(l, next)
           st == StatusThen(l, next)
<1>0. /\ mc = [map_cached EXCEPT ![l.to] = CachedAfter(l, next)]
      /\ st = [list_ack_status EXCEPT ![l.to] = StatusAfter(l, next)]
  BY Zenon DEF CachedThen, StatusThen
<1> HIDE DEF mc, st
<1>1. /\ queue \in Queues /\ queue[l] \in Seq(Carried(l))
      /\ list_ack_status \in [Routers -> [Messages -> Tallies]]
      /\ map_cached \in [Routers -> [Messages -> [to : Routers \union Hosts, vc : Nat]]]
  BY FitIs, Zenon DEF Keeps, CountsFit
<1>2. CASE next = Unrouted
  <2>1. mc = map_cached /\ st = list_ack_status
    BY <1>0, <1>1, <1>2, Zenon DEF CachedAfter, StatusAfter
  <2> QED BY <1>2, <2>1, Zenon DEF PathInv, mc, st
<1>3. CASE next # Unrouted
  <2> DEFINE p == queue[l][2]
  <2>1. Len(queue[l]) > 1 /\ next \in Routes(l, p)
    BY <1>3, Zenon DEF NextHeads
  <2>2. 2 \in 1 .. Len(queue[l]) /\ p \in Carried(l)
    BY <1>1, <2>1, SMT
  <2>3. /\ mc = [map_cached EXCEPT ![l.to] = Cached(@, p, next)]
        /\ st = [list_ack_status EXCEPT ![l.to] = Counted(@, p)]
    BY <1>0, <1>1, <1>3, Zenon DEF CachedAfter, StatusAfter
  <2> HIDE DEF p
  <2>4. p.msg \in Messages /\ (l.vc = AckVC <=> p.ack = TRUE) /\ p.ack \in BOOLEAN
    BY <2>2, CarriedIs, Zenon
  <2>5. /\ LineOf(queue, ack_list, mc, m, R) /\ HeadsFollow(queue, head, mc, m)
        /\ l.vc # AckVC /\ p.msg = m => mc[l.to][m] = next
    <3>1. WaitsOn(l, p)
      BY <2>2, Zenon DEF WaitsOn, p
    <3>2. /\ LineOf(queue, ack_list, Turned(l, p, next), m, R) /\ HeadsFollow(queue, head, Turned(l, p, next), m)
          /\ l.vc # AckVC /\ p.msg = m => Turned(l, p, next)[l.to][m] = next
      BY <2>1, <3>1, TurnKeeps, Zenon
    <3>3. mc = Turned(l, p, next)
      BY <2>3, Zenon DEF Turned
    <3> QED BY <3>2, <3>3, Zenon
  <2>6. \A r \in Routers \ {l.to} : st[r] = list_ack_status[r]
    BY <1>1, <2>3, Zenon
  <2>7. st[l.to] = Counted(list_ack_status[l.to], p) /\ list_ack_status[l.to] \in [Messages -> Tallies]
    BY <1>1, <2>3, Zenon
  <2>8. /\ list_ack_status[l.to][m].first > 0 => st[l.to][m].first > 0
        /\ ~p.ack /\ p.msg = m => st[l.to][m].first > 0
    BY <2>4, <2>7, CountedIs, Zenon
  <2>9. \A r \in Routers : list_ack_status[r][m].first > 0 => st[r][m].first > 0
    BY <2>6, <2>8, Zenon
  <2> QED BY <1>3, <2>1, <2>4, <2>5, <2>8, <2>9, Zenon DEF p, mc, st
<1> QED BY <1>2, <1>3, Zenon DEF mc, st

---------------------------------------------------------------------------
(* What a note and a stroke do to the marks of a message *)

LEMMA MarkedMore ==
  ASSUME NEW al, NEW bl, NEW x \in Routers, NEW e, Noted(al, bl, x, e), NEW m
  PROVE  /\ e.msg = m => Marked(bl, m) = Marked(al, m) \union {<<x, e.port>>}
         /\ e.msg # m => Marked(bl, m) = Marked(al, m)
<1>0. /\ \A r \in Routers, p \in Routers \union Hosts : <<r, p>> \in Marked(bl, m) <=> HasEntry(bl, r, p, m)
      /\ \A r \in Routers, p \in Routers \union Hosts : <<r, p>> \in Marked(al, m) <=> HasEntry(al, r, p, m)
  BY MarkedIs, Zenon
<1>1. /\ bl[x] = Append(al[x], e) /\ e \in Entries /\ al[x] \in Seq(Entries)
      /\ \A r \in Routers \ {x} : bl[r] = al[r]
  BY Zenon DEF Noted, OneList, Lists
<1>2. /\ Len(bl[x]) = Len(al[x]) + 1 /\ Len(al[x]) \in Nat /\ bl[x][Len(al[x]) + 1] = e
      /\ \A k \in 1 .. Len(al[x]) : bl[x][k] = al[x][k]
  BY <1>1, SMT
<1>3. e.port \in Routers \union Hosts
  BY <1>1, EntryIs, Zenon
<1>4. \A k : k \in 1 .. Len(bl[x]) <=> k \in 1 .. Len(al[x]) \/ k = Len(al[x]) + 1
  BY <1>2, SMT
<1>5. ASSUME NEW p \in Routers \union Hosts
      PROVE  <<x, p>> \in Marked(bl, m) <=> <<x, p>> \in Marked(al, m) \/ (e.msg = m /\ e.port = p)
  <2>1. /\ <<x, p>> \in Marked(bl, m) <=> HasEntry(bl, x, p, m)
        /\ <<x, p>> \in Marked(al, m) <=> HasEntry(al, x, p, m)
    BY MarkedIs, Zenon
  <2> QED BY <1>2, <1>4, <2>1, Zenon DEF HasEntry
<1>6. ASSUME NEW r \in Routers \ {x}, NEW p \in Routers \union Hosts
      PROVE  <<r, p>> \in Marked(bl, m) <=> <<r, p>> \in Marked(al, m)
  <2>1. r \in Routers /\ bl[r] = al[r]
    BY <1>1, Zenon
  <2>2. <<r, p>> \in Marked(al, m) <=> HasEntry(al, r, p, m)
    BY <1>0, <2>1, Zenon
  <2>3. <<r, p>> \in Marked(bl, m) <=> HasEntry(bl, r, p, m)
    BY <1>0, <2>1, Zenon
  <2> QED BY <2>1, <2>2, <2>3, Zenon DEF HasEntry
<1>7. /\ Marked(bl, m) \subseteq Routers \X (Routers \union Hosts)
      /\ Marked(al, m) \subseteq Routers \X (Routers \union Hosts)
  BY Zenon DEF Marked
<1>8. ASSUME e.msg = m
      PROVE  Marked(bl, m) = Marked(al, m) \union {<<x, e.port>>}
  <2>1. ASSUME NEW r \in Routers, NEW p \in Routers \union Hosts
        PROVE  <<r, p>> \in Marked(bl, m) <=> <<r, p>> \in Marked(al, m) \union {<<x, e.port>>}
    <3>1. <<r, p>> = <<x, e.port>> <=> r = x /\ p = e.port
      BY SMT
    <3> QED BY <1>5, <1>6, <1>8, <3>1, Zenon
  <2>2. <<x, e.port>> \in Routers \X (Routers \union Hosts)
    BY <1>3, SMT
  <2> HIDE DEF Marked
  <2> QED BY <1>7, <2>1, <2>2, SMT
<1>9. ASSUME e.msg # m
      PROVE  Marked(bl, m) = Marked(al, m)
  <2>1. ASSUME NEW r \in Routers, NEW p \in Routers \union Hosts
        PROVE  <<r, p>> \in Marked(bl, m) <=> <<r, p>> \in Marked(al, m)
    BY <1>5, <1>6, <1>9, Zenon
  <2> QED BY <1>7, <2>1, SMT
<1> QED BY <1>8, <1>9, Zenon

LEMMA MarkedLess ==
  ASSUME NEW al, NEW bl, NEW x \in Routers, NEW i, Struck(al, bl, x, i), NEW m
  PROVE  /\ Marked(bl, m) \subseteq Marked(al, m)
         /\ \A r \in Routers \ {x}, p \in Routers \union Hosts :
              <<r, p>> \in Marked(al, m) => <<r, p>> \in Marked(bl, m)
         /\ al[x][i].msg # m => Marked(bl, m) = Marked(al, m)
<1>0. /\ \A r \in Routers, p \in Routers \union Hosts : <<r, p>> \in Marked(bl, m) <=> HasEntry(bl, r, p, m)
      /\ \A r \in Routers, p \in Routers \union Hosts : <<r, p>> \in Marked(al, m) <=> HasEntry(al, r, p, m)
  BY MarkedIs, Zenon
<1>1. /\ bl[x] = Without(al[x], i) /\ i \in 1 .. Len(al[x]) /\ al[x] \in Seq(Entries)
      /\ \A r \in Routers \ {x} : bl[r] = al[r]
  BY Zenon DEF Struck, OneList, Lists
<1>2. /\ Len(bl[x]) = Len(al[x]) - 1
      /\ \A k \in 1 .. Len(al[x]) - 1 :
           /\ k < i => bl[x][k] = al[x][k]
           /\ k >= i => bl[x][k] = al[x][k + 1]
  <2>1. al[x] \in Seq(Entries) /\ i \in 1 .. Len(al[x])
    BY <1>1, Zenon
  <2>2. /\ Len(Without(al[x], i)) = Len(al[x]) - 1
        /\ \A k \in 1 .. Len(al[x]) - 1 :
             /\ k < i => Without(al[x], i)[k] = al[x][k]
             /\ k >= i => Without(al[x], i)[k] = al[x][k + 1]
    BY <2>1, WithoutIs, Zenon
  <2> QED BY <1>1, <2>2, Zenon
<1>3. Len(al[x]) \in Nat
  BY <1>1, SMT
<1>4. \A k \in 1 .. Len(bl[x]) : \E j \in 1 .. Len(al[x]) : bl[x][k] = al[x][j]
  <2>1. ASSUME NEW k \in 1 .. Len(bl[x])
        PROVE  /\ k \in 1 .. Len(al[x]) - 1 /\ k \in 1 .. Len(al[x]) /\ k + 1 \in 1 .. Len(al[x])
               /\ k < i \/ k >= i
    BY <1>1, <1>2, <1>3, SMT
  <2> QED BY <1>2, <2>1, Zenon
<1>5. \A j \in 1 .. Len(al[x]) : j # i => \E k \in 1 .. Len(bl[x]) : bl[x][k] = al[x][j]
  <2>1. ASSUME NEW j \in 1 .. Len(al[x]), j # i
        PROVE  \E k \in 1 .. Len(bl[x]) : bl[x][k] = al[x][j]
    <3>1. CASE j < i
      <4>1. j \in 1 .. Len(al[x]) - 1 /\ j \in 1 .. Len(bl[x])
        BY <1>1, <1>2, <1>3, <3>1, SMT
      <4> QED BY <1>2, <3>1, <4>1, Zenon
    <3>2. CASE ~(j < i)
      <4>1. /\ j - 1 \in 1 .. Len(al[x]) - 1 /\ j - 1 \in 1 .. Len(bl[x])
            /\ j - 1 >= i /\ (j - 1) + 1 = j
        BY <1>1, <1>2, <1>3, <2>1, <3>2, SMT
      <4>2. bl[x][j - 1] = al[x][(j - 1) + 1]
        BY <1>2, <4>1, Zenon
      <4> QED BY <4>1, <4>2, Zenon
    <3> QED BY <3>1, <3>2, Zenon
  <2> QED BY <2>1, Zenon
<1>6. ASSUME NEW r \in Routers \ {x}, NEW p \in Routers \union Hosts
      PROVE  <<r, p>> \in Marked(bl, m) <=> <<r, p>> \in Marked(al, m)
  <2>1. r \in Routers /\ bl[r] = al[r]
    BY <1>1, Zenon
  <2>2. <<r, p>> \in Marked(al, m) <=> HasEntry(al, r, p, m)
    BY <1>0, <2>1, Zenon
  <2>3. <<r, p>> \in Marked(bl, m) <=> HasEntry(bl, r, p, m)
    BY <1>0, <2>1, Zenon
  <2> QED BY <2>1, <2>2, <2>3, Zenon DEF HasEntry
<1>7. ASSUME NEW p \in Routers \union Hosts
      PROVE  /\ <<x, p>> \in Marked(bl, m) => <<x, p>> \in Marked(al, m)
             /\ al[x][i].msg # m /\ <<x, p>> \in Marked(al, m) => <<x, p>> \in Marked(bl, m)
  <2>1. /\ <<x, p>> \in Marked(bl, m) <=> HasEntry(bl, x, p, m)
        /\ <<x, p>> \in Marked(al, m) <=> HasEntry(al, x, p, m)
    BY MarkedIs, Zenon
  <2>2. <<x, p>> \in Marked(bl, m) => <<x, p>> \in Marked(al, m)
    BY <1>4, <2>1, Zenon DEF HasEntry
  <2>3. al[x][i].msg # m /\ <<x, p>> \in Marked(al, m) => <<x, p>> \in Marked(bl, m)
    BY <1>5, <2>1, Zenon DEF HasEntry
  <2> QED BY <2>2, <2>3, Zenon
<1>8. /\ Marked(bl, m) \subseteq Routers \X (Routers \union Hosts)
      /\ Marked(al, m) \subseteq Routers \X (Routers \union Hosts)
  BY Zenon DEF Marked
<1>9. \A r \in Routers, p \in Routers \union Hosts : <<r, p>> \in Marked(bl, m) => <<r, p>> \in Marked(al, m)
  BY <1>6, <1>7, Zenon
<1>10. al[x][i].msg # m =>
         \A r \in Routers, p \in Routers \union Hosts : <<r, p>> \in Marked(al, m) => <<r, p>> \in Marked(bl, m)
  BY <1>6, <1>7, Zenon
<1>11. Marked(bl, m) \subseteq Marked(al, m)
  BY <1>8, <1>9, SMT
<1>12. al[x][i].msg # m => Marked(al, m) \subseteq Marked(bl, m)
  BY <1>8, <1>10, SMT
<1> QED BY <1>6, <1>11, <1>12, Zenon

\* A router that keeps nothing of m has no mark of it.
LEMMA NothingMarked ==
  ASSUME NEW al \in Lists, NEW r \in Routers, NEW m, Kept(al, r, m) = 0
  PROVE  r \notin Noters(Marked(al, m))
<1>1. SUFFICES ASSUME NEW p \in Routers \union Hosts, <<r, p>> \in Marked(al, m)
               PROVE  FALSE
  BY Zenon DEF Noters
<1>2. PICK k \in 1 .. Len(al[r]) : al[r][k].msg = m
  <2>1. \E k \in 1 .. Len(al[r]) : al[r][k].msg = m /\ al[r][k].port = p
    <3>1. HasEntry(al, r, p, m)
      BY <1>1, MarkedIs, Zenon
    <3> QED BY <3>1, Zenon DEF HasEntry
  <2> QED BY <2>1, Zenon
<1>3. al[r] \in Seq(Entries)
  BY Zenon DEF Lists
<1>4. al[r][k] \in Entries
  BY <1>2, <1>3, SMT
<1>5. al[r][k] \in EntriesOf(m)
  BY <1>2, <1>4, Zenon DEF EntriesOf
<1>6. HowMany(al[r], EntriesOf(m)) = 0
  BY Zenon DEF Kept
<1>7. \A j \in 1 .. Len(al[r]) : al[r][j] \notin EntriesOf(m)
  BY <1>3, <1>6, HowManyIs, Zenon
<1> QED BY <1>2, <1>5, <1>7, Zenon

LEMMA InvKeeps ==
  ASSUME ChannelsFit, TablesFit, Books
  PROVE  Keeps(queue, head, ack_list, list_ack_status, map_cached)
BY Zenon DEF Keeps, ChannelsFit, TablesFit, Books

---------------------------------------------------------------------------
(* The steps keep the order: the NICs *)

LEMMA SameHeads ==
  ASSUME NEW q, NEW hd, NEW t, NEW mc, NEW st, NEW m, HeadsFollow(q, hd, mc, m), LastCounts(q, hd, st, m),
         \A k \in DataChannels : hd[k] # Unrouted => Head(t[k]) = Head(q[k]),
         LeftFor(t, m) => LeftFor(q, m)
  PROVE  HeadsFollow(t, hd, mc, m) /\ LastCounts(t, hd, st, m)
<1>1. HeadsFollow(t, hd, mc, m)
  BY Zenon DEF HeadsFollow
<1>2. RoutedAt(t, hd, Last(m), m) => RoutedAt(q, hd, Last(m), m)
  BY Zenon DEF RoutedAt
<1> QED BY <1>1, <1>2, Zenon DEF LastCounts

LEMMA OrderStays ==
  ASSUME NEW m, NEW R, OrderInv(m, R),
         UNCHANGED <<queue, head, list_ack_status, map_cached, ack_list, sent, recv, held>>
  PROVE  OrderInv(m, R)'
BY Zenon DEF OrderInv, PathInv

LEMMA GetPayloadOrders ==
  ASSUME Keeps(queue, head, ack_list, list_ack_status, map_cached), NicsFit,
         NEW m \in Messages, NEW R, Climbs(m, R), OrderInv(m, R), NEW m0 \in Messages, getPayload(m0)
  PROVE  OrderInv(m, R)'
<1> DEFINE g == Channel(From[m0], Router[From[m0]], 0)
           p == [msg |-> m0, id |-> sent[m0], ack |-> FALSE]
           I == IdsOn(queue, m)
           J == IdsOn(queue', m)
<1>1. /\ queue' = Pushed(queue, g, p) /\ sent' = [sent EXCEPT ![m0] = @ + 1]
      /\ UNCHANGED <<head, tables, drain, draining_map, recv, held>>
  BY Zenon DEF getPayload
<1>2. sent \in [Messages -> Nat] /\ recv \in [Messages -> Nat] /\ sent[m0] \in Nat
  BY Zenon DEF NicsFit
<1>3. /\ From[m0] \in Hosts /\ Router[From[m0]] \in Routers /\ From[m0] \notin Routers /\ Last(m) \in Routers
  BY MessagesAssumption, TopologyAssumption, Zenon DEF Last
<1>4. g \in DataChannels /\ g.from = From[m0] /\ g.to = First(m0)
  <2>1. 0 # AckVC
    BY SMT DEF AckVC
  <2>2. g.from = From[m0] /\ g.to = First(m0) /\ g.vc = 0
    BY Zenon DEF Channel, First
  <2>3. g \in Channels
    BY <1>3, InChannels, Zenon
  <2> QED BY <2>1, <2>2, <2>3, Zenon DEF DataChannels
<1>5. p \in Packets /\ p.msg = m0 /\ p.id = sent[m0]
  BY <1>2, SMT DEF Packets
<1>6. /\ queue \in Queues /\ Routed(queue, head)
  BY FitIs, Zenon DEF Keeps
<1>7. /\ LineOf(queue, ack_list, map_cached, m, R) /\ Risen(queue, m) /\ R \in [Routers -> Nat]
      /\ HeadsFollow(queue, head, map_cached, m) /\ LastCounts(queue, head, list_ack_status, m)
      /\ Aloft(I) = recv[m] .. sent[m] - 1 /\ recv[m] <= sent[m] /\ held[m] = {}
      /\ sent[m] \in Nat /\ recv[m] \in Nat
  BY <1>2, Zenon DEF OrderInv, PathInv, Between, Climbs
<1> HIDE DEF g, p
<1>8. /\ m0 = m => Come(I, J, g, sent[m])
      /\ m0 # m => J = I
      /\ Risen(queue, m) /\ (m0 = m => \A n \in I[g] : n < sent[m]) => Risen(queue', m)
  BY <1>1, <1>4, <1>5, <1>6, PushIds, Zenon
<1>9. \A n \in Aloft(I) : n < sent[m]
  BY <1>7, SMT
<1>10. Risen(queue', m)
  <2>1. I[g] \subseteq Aloft(I)
    BY <1>4, Zenon DEF Aloft
  <2> QED BY <1>7, <1>8, <1>9, <2>1, Zenon
<1>11. LineOf(queue', ack_list, map_cached, m, R)
  <2>1. CASE m0 = m
    <3>1. InLine(I, Marked(ack_list, m), HopsOf(map_cached, m), m, R)
      BY <1>7, Zenon DEF LineOf
    <3>2. Come(I, J, g, sent[m]) /\ g.from = From[m] /\ g.to = First(m)
      BY <1>4, <1>8, <2>1, Zenon
    <3> HIDE DEF I, J
    <3>3. InLine(J, Marked(ack_list, m), HopsOf(map_cached, m), m, R)
      BY <1>4, <1>7, <1>9, <3>1, <3>2, EnterInLine, Zenon
    <3> QED BY <3>3, Zenon DEF LineOf, J
  <2>2. CASE m0 # m
    BY <1>7, <1>8, <2>2, Zenon DEF LineOf
  <2> QED BY <2>1, <2>2, Zenon
<1>12. HeadsFollow(queue', head, map_cached, m) /\ LastCounts(queue', head, list_ack_status, m)
  <2>1. ASSUME NEW k \in DataChannels, head[k] # Unrouted
        PROVE  Head(queue'[k]) = Head(queue[k])
    <3>1. k \in Channels /\ g \in Channels /\ queue[k] # <<>>
      BY <1>4, <1>6, <2>1, Zenon DEF Routed, DataChannels
    <3> QED BY <1>1, <1>5, <1>6, <3>1, PushedHead, Zenon
  <2>2. LeftFor(queue', m) => LeftFor(queue, m)
    <3>1. ASSUME NEW k \in DataChannels, k.from = Last(m), J[k] # {}
          PROVE  I[k] # {}
      <4>1. k # g
        BY <1>3, <1>4, <3>1, Zenon
      <4>2. J[k] = I[k]
        BY <1>8, <4>1, Zenon DEF Come
      <4> QED BY <3>1, <4>2, Zenon
    <3> QED BY <3>1, Zenon DEF LeftFor
  <2> QED BY <1>7, <2>1, <2>2, SameHeads, Zenon
<1>13. Between(queue', m, recv[m], sent'[m])
  <2>1. CASE m0 = m
    <3>1. J[g] = I[g] \union {sent[m]} /\ \A k \in DataChannels \ {g} : J[k] = I[k]
      BY <1>8, <2>1, Zenon DEF Come
    <3>2. Aloft(J) = Aloft(I) \union {sent[m]}
      <4> HIDE DEF I, J
      <4>1. ASSUME NEW n
            PROVE  n \in Aloft(J) <=> n \in Aloft(I) \union {sent[m]}
        BY <1>4, <3>1, Zenon DEF Aloft
      <4> QED BY <4>1, Zenon
    <3>3. sent'[m] = sent[m] + 1
      BY <1>1, <1>2, <2>1, Zenon
    <3>4. PICK a \in Nat, b \in Nat : a = recv[m] /\ b = sent[m]
      BY <1>7, Zenon
    <3>5. (a .. b - 1) \union {b} = a .. (b + 1) - 1 /\ a <= b + 1
      BY <1>7, <3>4, SMT
    <3> QED BY <1>7, <3>2, <3>3, <3>4, <3>5, Zenon DEF Between
  <2>2. CASE m0 # m
    <3>1. sent'[m] = sent[m]
      BY <1>1, <1>2, <2>2, Zenon
    <3> QED BY <1>7, <1>8, <2>2, <3>1, Zenon DEF Between
  <2> QED BY <2>1, <2>2, Zenon
<1>14. UNCHANGED <<head, map_cached, list_ack_status, ack_list, recv, held>>
  BY <1>1, Zenon DEF tables
<1> QED BY <1>7, <1>10, <1>11, <1>12, <1>13, <1>14, Zenon DEF OrderInv, PathInv

\* The next packet a NIC expects when it holds none and gets the one it expects.
LEMMA NextInTurn ==
  ASSUME NEW len \in Nat, NEW first \in Nat, first < len,
         NEW n, n = CHOOSE k \in first .. len : k \notin {first} /\ first .. k - 1 \subseteq {first}
  PROVE  n = first + 1
<1>1. /\ first + 1 \in first .. len /\ first + 1 \notin {first}
      /\ first .. (first + 1) - 1 \subseteq {first}
  BY SMT
<1>2. n \in first .. len /\ n \notin {first} /\ first .. n - 1 \subseteq {first}
  BY <1>1, Zenon
<1>3. n \in Nat /\ n > first
  BY <1>2, SMT
<1>4. first + 1 \in first .. n - 1 => first + 1 \in {first}
  BY <1>2, Zenon
<1> QED BY <1>3, <1>4, SMT

\* What a host gets next is the first number aloft, and it is at no other place.
LEMMA FirstAloft ==
  ASSUME NEW m \in Messages, NEW R \in [Routers -> Nat], NEW I, NEW E, NEW c, InLine(I, E, c, m, R),
         NEW l \in DataChannels, l.to \in Hosts, NEW J, NEW i, Gone(I, J, l, i),
         NEW a \in Nat, NEW b \in Nat, Aloft(I) = a .. b - 1
  PROVE  i = a /\ a < b /\ Aloft(J) = a + 1 .. b - 1
<1>1. /\ i \in I[l] /\ J[l] = I[l] \ {i} /\ \A n \in J[l] : i < n
      /\ \A k \in DataChannels \ {l} : J[k] = I[k]
  BY Zenon DEF Gone
<1>2. /\ i \in Aloft(I) /\ i \in a .. b - 1
      /\ \A k \in DataChannels : I[k] \subseteq a .. b - 1
  BY <1>1, Zenon DEF Aloft
<1>3. \A k \in DataChannels : \A n \in I[k] : k = l \/ i < n
  <2>1. SUFFICES ASSUME NEW k \in DataChannels, NEW n \in I[k], k # l
                 PROVE  i < n
    BY Zenon
  <2>2. /\ I[k] # {} /\ I[l] # {}
    BY <1>1, Zenon
  <2>3. k.to \in Routers
    <3>1. ASSUME k.to \in Hosts
          PROVE  FALSE
      <4>1. k.from = Last(m) /\ l.from = Last(m) /\ Last(m) \in Routers
        BY <2>2, <3>1, MessagesAssumption, TopologyAssumption, Zenon DEF InLine, LeadsOn, Last
      <4>2. c[Last(m)] = Hop(k.to, k.vc) /\ c[Last(m)] = Hop(l.to, l.vc)
        BY <2>2, <4>1, Zenon DEF InLine, LeadsOn
      <4>3. k.to = l.to /\ k.vc = l.vc
        <5>1. /\ Hop(k.to, k.vc).to = k.to /\ Hop(k.to, k.vc).vc = k.vc
              /\ Hop(l.to, l.vc).to = l.to /\ Hop(l.to, l.vc).vc = l.vc
          BY HopIs, Zenon
        <5>2. Hop(k.to, k.vc) = Hop(l.to, l.vc)
          BY <4>2, Zenon
        <5> QED BY <5>1, <5>2, SMT
      <4>4. k = Channel(k.from, k.to, k.vc) /\ l = Channel(l.from, l.to, l.vc)
        BY ChannelKinds, Zenon DEF DataChannels
      <4> QED BY <2>1, <4>1, <4>3, <4>4, Zenon
    <3> QED BY <3>1, ChannelKinds, Zenon DEF DataChannels
  <2>4. Later(k, l, R)
    BY <2>3, Zenon DEF Later
  <2> QED BY <1>1, <2>4, Zenon DEF InLine, Sorted
<1>4. \A n \in Aloft(I) : n = i \/ i < n
  <2>1. \A n \in I[l] : n = i \/ i < n
    BY <1>1, Zenon
  <2> QED BY <1>3, <2>1, Zenon DEF Aloft
<1>5. i = a /\ a < b
  <2>1. a \in a .. b - 1
    BY <1>2, SMT
  <2>2. a = i \/ i < a
    BY <1>4, <2>1, Zenon
  <2> QED BY <1>2, <2>2, SMT
<1>6. Aloft(J) = Aloft(I) \ {i}
  <2>1. ASSUME NEW n \in Aloft(J)
        PROVE  n \in Aloft(I) /\ n # i
    <3>1. PICK k \in DataChannels : n \in J[k]
      BY <2>1, Zenon DEF Aloft
    <3>2. n \in I[k]
      BY <1>1, <3>1, Zenon
    <3>3. i < n
      BY <1>1, <1>3, <3>1, <3>2, Zenon
    <3>4. n \in a .. b - 1
      BY <1>2, <3>2, Zenon
    <3>5. n # i
      BY <1>2, <3>3, <3>4, SMT
    <3> QED BY <3>2, <3>5, Zenon DEF Aloft
  <2>2. ASSUME NEW n \in Aloft(I), n # i
        PROVE  n \in Aloft(J)
    <3>1. PICK k \in DataChannels : n \in I[k]
      BY <2>2, Zenon DEF Aloft
    <3>2. n \in J[k]
      BY <1>1, <2>2, <3>1, Zenon
    <3> QED BY <3>2, Zenon DEF Aloft
  <2> QED BY <2>1, <2>2, Zenon
<1>7. (a .. b - 1) \ {a} = a + 1 .. b - 1
  BY SMT
<1> QED BY <1>5, <1>6, <1>7, Zenon

LEMMA HandleEventOrders ==
  ASSUME Keeps(queue, head, ack_list, list_ack_status, map_cached), NicsFit,
         NEW m \in Messages, NEW R, Climbs(m, R), OrderInv(m, R), NEW l \in Channels, handle_event(l)
  PROVE  /\ OrderInv(m, R)'
         /\ held'[m] = {} /\ \/ recv'[m] = recv[m]
                             \/ recv[m] < sent[m] /\ recv'[m] = recv[m] + 1
<1> DEFINE p == Head(queue[l])
           early == held[p.msg] \union {p.id}
           next == CHOOSE n \in recv[p.msg] .. Length[p.msg] :
                     n \notin early /\ recv[p.msg] .. n - 1 \subseteq early
           I == IdsOn(queue, m)
           J == IdsOn(queue', m)
<1>1. /\ l.from \in Routers /\ l.to \in Hosts /\ queue[l] # <<>>
      /\ queue' = Popped(queue, l)
      /\ IF To[p.msg] = l.to
         THEN recv' = [recv EXCEPT ![p.msg] = next] /\ held' = [held EXCEPT ![p.msg] = {n \in early : n > next}]
         ELSE UNCHANGED <<recv, held>>
      /\ UNCHANGED <<head, tables, drain, sent, draining_map>>
  BY Zenon DEF handle_event
<1>2. /\ sent \in [Messages -> Nat] /\ recv \in [Messages -> Nat] /\ DOMAIN held = Messages
      /\ Length[m] \in Nat /\ sent[m] <= Length[m]
  BY MessagesAssumption, Zenon DEF NicsFit
<1>3. l.to \notin Routers /\ l.vc # AckVC /\ l \in DataChannels
  BY <1>1, TopologyAssumption, ChannelKinds, Zenon DEF DataChannels
<1>4. /\ queue \in Queues /\ Routed(queue, head) /\ queue[l] \in Seq(Packets) /\ head[l] = Unrouted
  BY <1>3, FitIs, Zenon DEF Keeps, Queues, Fit, HeadFits
<1>5. p \in Packets
  BY <1>1, <1>4, SMT
<1> HIDE DEF p, next, early
<1>6. p.msg \in Messages /\ p.id \in Nat
  BY <1>5, PacketIs, Zenon
<1>7. /\ LineOf(queue, ack_list, map_cached, m, R) /\ Risen(queue, m) /\ R \in [Routers -> Nat]
      /\ HeadsFollow(queue, head, map_cached, m) /\ LastCounts(queue, head, list_ack_status, m)
      /\ Aloft(I) = recv[m] .. sent[m] - 1 /\ recv[m] <= sent[m] /\ held[m] = {}
      /\ sent[m] \in Nat /\ recv[m] \in Nat
  BY <1>2, Zenon DEF OrderInv, PathInv, Between, Climbs
<1>8. /\ p.msg = m => Gone(I, J, l, p.id)
      /\ p.msg # m => J = I
      /\ Risen(queue', m)
  BY <1>1, <1>3, <1>4, <1>7, PopIds, Zenon DEF p
<1>9. \A k \in DataChannels : J[k] \subseteq I[k]
  BY <1>8, Zenon DEF Gone
<1>10. InLine(I, Marked(ack_list, m), HopsOf(map_cached, m), m, R)
  BY <1>7, Zenon DEF LineOf
<1>11. LineOf(queue', ack_list, map_cached, m, R)
  <2>1. CASE p.msg = m
    <3>1. Gone(I, J, l, p.id)
      BY <1>8, <2>1, Zenon
    <3> HIDE DEF I, J
    <3>2. InLine(J, Marked(ack_list, m), HopsOf(map_cached, m), m, R)
      BY <1>1, <1>3, <1>10, <3>1, ReceiveInLine, Zenon
    <3> QED BY <3>2, Zenon DEF LineOf, J
  <2>2. CASE p.msg # m
    BY <1>7, <1>8, <2>2, Zenon DEF LineOf
  <2> QED BY <2>1, <2>2, Zenon
<1>12. HeadsFollow(queue', head, map_cached, m) /\ LastCounts(queue', head, list_ack_status, m)
  <2>1. ASSUME NEW k \in DataChannels, head[k] # Unrouted
        PROVE  Head(queue'[k]) = Head(queue[k])
    <3>1. k \in Channels \ {l}
      BY <1>4, <2>1, Zenon DEF DataChannels
    <3>2. queue'[k] = queue[k]
      BY <1>1, <1>4, <3>1, PopIs, Zenon
    <3> QED BY <3>2, Zenon
  <2>2. LeftFor(queue', m) => LeftFor(queue, m)
    BY <1>9, Zenon DEF LeftFor
  <2> QED BY <1>7, <2>1, <2>2, SameHeads, Zenon
<1>13. /\ Between(queue', m, recv'[m], sent[m]) /\ held'[m] = {}
       /\ \/ recv'[m] = recv[m]
          \/ recv[m] < sent[m] /\ recv'[m] = recv[m] + 1
  <2>1. CASE p.msg = m
    <3>1. Gone(I, J, l, p.id)
      BY <1>8, <2>1, Zenon
    <3>2. To[m] = l.to
      <4>1. I[l] # {} /\ l.from = Last(m)
        <5>1. I[l] # {}
          BY <3>1, Zenon DEF Gone
        <5> QED BY <1>1, <1>3, <1>10, <5>1, Zenon DEF InLine, LeadsOn
      <4>2. Last(m) \in Routers /\ HopsOf(map_cached, m)[Last(m)] = Hop(l.to, l.vc)
        BY <1>1, <1>3, <1>10, <4>1, Zenon DEF InLine, LeadsOn
      <4>3. map_cached[Last(m)][m] = Hop(l.to, l.vc)
        BY <4>2, Zenon DEF HopsOf
      <4>4. list_ack_status[Last(m)][m].first > 0
        BY <1>3, <1>7, <4>1, Zenon DEF LastCounts, LeftFor
      <4>5. HopFits(Last(m), m, map_cached[Last(m)][m])
        BY <4>2, <4>4, Zenon DEF Keeps, CountsFit, CachedFits
      <4>6. PICK vc \in VCs : map_cached[Last(m)][m] = Hop(To[m], vc)
        BY <4>5, Zenon DEF HopFits, Last
      <4>7. Hop(l.to, l.vc) = Hop(To[m], vc) /\ Hop(l.to, l.vc).to = l.to /\ Hop(To[m], vc).to = To[m]
        BY <4>3, <4>6, HopIs, Zenon
      <4> QED BY <4>7, Zenon
    <3>3. PICK a \in Nat, b \in Nat : a = recv[m] /\ b = sent[m]
      BY <1>7, Zenon
    <3>4. p.id = a /\ a < b /\ Aloft(J) = a + 1 .. b - 1
      <4>1. Aloft(I) = a .. b - 1
        BY <1>7, <3>3, Zenon
      <4> HIDE DEF I, J
      <4> QED BY <1>1, <1>3, <1>7, <1>10, <3>1, <4>1, FirstAloft, SMT
    <3>5. early = {a}
      BY <1>7, <2>1, <3>4, Zenon DEF early
    <3>6. next = a + 1
      <4>1. next = CHOOSE n \in a .. Length[m] : n \notin {a} /\ a .. n - 1 \subseteq {a}
        BY <2>1, <3>3, <3>5, Zenon DEF next
      <4>2. a < Length[m]
        BY <1>2, <3>3, <3>4, SMT
      <4> QED BY <1>2, <4>1, <4>2, NextInTurn, Zenon
    <3>7. recv'[m] = a + 1 /\ held'[m] = {n \in {a} : n > a + 1}
      <4>1. /\ recv' = [recv EXCEPT ![m] = next]
            /\ held' = [held EXCEPT ![m] = {n \in early : n > next}]
        BY <1>1, <2>1, <3>2, Zenon
      <4>2. recv'[m] = next /\ held'[m] = {n \in early : n > next}
        BY <1>2, <4>1, Zenon
      <4> QED BY <3>5, <3>6, <4>2, Zenon
    <3>8. {n \in {a} : n > a + 1} = {} /\ a + 1 <= b
      BY <3>4, SMT
    <3> QED BY <3>3, <3>4, <3>7, <3>8, Zenon DEF Between
  <2>2. CASE p.msg # m
    <3>1. recv'[m] = recv[m] /\ held'[m] = held[m]
      BY <1>1, <1>2, <2>2, Zenon
    <3> QED BY <1>7, <1>8, <2>2, <3>1, Zenon DEF Between
  <2> QED BY <2>1, <2>2, Zenon
<1>14. UNCHANGED <<head, map_cached, list_ack_status, ack_list, sent>>
  BY <1>1, Zenon DEF tables
<1> QED BY <1>8, <1>11, <1>12, <1>13, <1>14, Zenon DEF OrderInv, PathInv

---------------------------------------------------------------------------
(* The steps keep the order: an ACK *)

LEMMA AckOrders ==
  ASSUME ChannelsFit, TablesFit, Books, OneMessageAPair,
         NEW m \in Messages, NEW R, Climbs(m, R), PathInv(m, R), NEW l \in Channels,
         l.to \in Routers, queue[l] # <<>>, head[l] # Unrouted, NEW next \in NextHeads(l), Ack(l, next),
         Keeps(queue', head', ack_list', list_ack_status', map_cached')
  PROVE  PathInv(m, R)' /\ IdsOn(queue', m) = IdsOn(queue, m)
<1> DEFINE p == Head(queue[l])
           i == Match(l.to, p)
           e == ack_list[l.to][i]
           status == StatusAfter(l, next)
           drained == status[p.msg].first = status[p.msg].second
           st == [list_ack_status EXCEPT ![l.to] = status]
           q == Popped(queue, l)
           k == Channel(l.to, e.port, AckVC)
           I == IdsOn(queue, m)
           E == Marked(ack_list, m)
           D == Marked(ack_list', m)
           c == HopsOf(map_cached, m)
<1>1. p.ack
  BY Zenon DEF Ack
<1>2. l.vc = AckVC
  <2>1. p \in Carried(l)
    BY HeadIsCarried, Zenon
  <2>2. OfKind(p, l)
    <3> HIDE DEF p
    <3> QED BY <2>1, CarriedIs, Zenon
  <2> QED BY <1>1, <2>2, Zenon DEF OfKind
<1>3. /\ p \in Carried(l) /\ p.msg \in Messages /\ l.to # Last(p.msg)
      /\ Matching(l.to, p) # {} /\ i \in 1 .. Len(ack_list[l.to])
      /\ e \in Entry(l.to) /\ e.msg = p.msg
  BY <1>2, AckLeads, Zenon DEF Last
<1>4. /\ head' = [head EXCEPT ![l] = next]
      /\ map_cached' = [map_cached EXCEPT ![l.to] = CachedAfter(l, next)]
      /\ ack_list' = [ack_list EXCEPT ![l.to] = Without(@, i)]
      /\ list_ack_status' = [list_ack_status EXCEPT ![l.to] =
                               IF drained THEN [status EXCEPT ![p.msg] = NotCounted] ELSE status]
      /\ IF e.port \in Hosts THEN queue' = q ELSE queue' = Pushed(q, k, p)
  BY <1>3, Zenon DEF Ack, recvs, Without
<1>5. Keeps(queue, head, ack_list, list_ack_status, map_cached)
  BY InvKeeps, Zenon
<1>6. /\ queue \in Queues /\ Routed(queue, head) /\ DOMAIN head = Channels /\ queue[l] \in Seq(Carried(l))
      /\ list_ack_status \in [Routers -> [Messages -> Tallies]] /\ ListsFit(ack_list)
      /\ map_cached \in [Routers -> [Messages -> [to : Routers \union Hosts, vc : Nat]]]
  BY <1>5, FitIs, Zenon DEF Keeps, CountsFit
<1>7. p \in Packets /\ e \in Entries /\ (e.port \notin Hosts => k \in Channels /\ k.vc = AckVC)
  <2> HIDE DEF e, p
  <2>1. p \in Packets
    BY <1>3, CarriedIs, Zenon
  <2>2. PICK f \in Entry(l.to) : f = e
    BY <1>3, Zenon
  <2>3. f \in Entries /\ (f.port \in Routers => Channel(l.to, f.port, AckVC) \in Channels)
    BY Zenon DEF Entry
  <2>4. f.port \in Routers \union Hosts
    BY <2>3, EntryIs, Zenon
  <2> QED BY <2>1, <2>2, <2>3, <2>4, Zenon DEF Channel
<1>8. Struck(ack_list, ack_list', l.to, i)
  BY <1>3, <1>4, <1>6, StruckFits, Zenon
<1>9. \A x \in DataChannels : queue'[x] = queue[x]
  <2>1. q \in Queues /\ \A x \in Channels \ {l} : q[x] = queue[x]
    BY <1>6, PopIs, Zenon
  <2> HIDE DEF q, p
  <2>2. e.port \notin Hosts => \A x \in Channels \ {k} : Pushed(q, k, p)[x] = q[x]
    <3> HIDE DEF k, e
    <3> QED BY <1>7, <2>1, PushIs, Zenon
  <2>3. \A x \in DataChannels : x \in Channels \ {l} /\ (e.port \notin Hosts => x \in Channels \ {k})
    <3> HIDE DEF k, e
    <3> QED BY <1>2, <1>7, Zenon DEF DataChannels
  <2> QED BY <1>4, <2>1, <2>2, <2>3, Zenon
<1>10. map_cached' = map_cached
  <2>1. CachedAfter(l, next) = map_cached[l.to]
    <3>1. CASE next = Unrouted
      BY <3>1, Zenon DEF CachedAfter
    <3>2. CASE next # Unrouted
      <4>1. Len(queue[l]) > 1
        BY <3>2, Zenon DEF NextHeads
      <4>2. queue[l][2] \in Carried(l)
        BY <1>6, <4>1, SecondIs, Zenon
      <4>3. queue[l][2].ack = TRUE
        BY <1>2, <4>2, CarriedIs, Zenon
      <4> QED BY <3>2, <4>3, Zenon DEF CachedAfter, Cached
    <3> QED BY <3>1, <3>2, Zenon
  <2> QED BY <1>4, <1>6, <2>1, Zenon
<1>11. \A r \in Routers : list_ack_status[r][m].first > 0 => st[r][m].first > 0
  <2>1. st = StatusThen(l, next)
    BY Zenon DEF StatusThen
  <2> HIDE DEF st
  <2>2. \A r \in Routers : list_ack_status[r][m].first > 0 => StatusThen(l, next)[r][m].first > 0
    BY <1>5, RecvOrders, Zenon
  <2> QED BY <2>1, <2>2, Zenon
<1>12. /\ LineOf(queue, ack_list, map_cached, m, R) /\ Risen(queue, m) /\ R \in [Routers -> Nat]
       /\ HeadsFollow(queue, head, map_cached, m) /\ LastCounts(queue, head, list_ack_status, m)
  BY Zenon DEF PathInv, Climbs
<1>13. IdsOn(queue', m) = I /\ Risen(queue', m)
  BY <1>9, <1>12, SameData, Zenon
<1>14. InLine(I, E, c, m, R)
  BY <1>12, Zenon DEF LineOf
<1>15. /\ D \subseteq E
       /\ \A x \in Routers \ {l.to}, y \in Routers \union Hosts : <<x, y>> \in E => <<x, y>> \in D
       /\ e.msg # m => D = E
  <2>1. PICK j : j = i
    BY Zenon
  <2>2. Struck(ack_list, ack_list', l.to, j) /\ e = ack_list[l.to][j]
    BY <1>8, <2>1, Zenon
  <2> HIDE DEF i, e
  <2> QED BY <2>2, MarkedLess, SMT
<1>16. InLine(I, D, c, m, R)
  <2>1. CASE e.msg # m
    <3>1. D = E
      BY <1>15, <2>1, Zenon
    <3> QED BY <1>14, <3>1, Zenon
  <2>2. CASE e.msg = m
    <3>1. /\ D \subseteq E
          /\ \A x \in Routers \ {l.to}, y \in Routers \union Hosts : <<x, y>> \in E => <<x, y>> \in D
      BY <1>15, Zenon
    <3>2. LeadsOn(I, c, m) /\ NotesLead(E, c, m)
      BY <1>14, Zenon DEF InLine
    <3>3. NotesLead(D, c, m)
      BY <3>1, <3>2, Zenon DEF NotesLead
    <3>4. Fitted(I, E, R)
      BY <1>5, <3>2, StateIsFitted, Zenon
    <3>5. Fitted(I, D, R)
      <4>1. LeadsOn(IdsOn(queue', m), HopsOf(map_cached', m), m) /\ NotesLead(Marked(ack_list', m), HopsOf(map_cached', m), m)
        BY <1>10, <1>13, <3>2, <3>3, Zenon
      <4>2. Fitted(IdsOn(queue', m), Marked(ack_list', m), R)
        BY <4>1, StateIsFitted, Zenon
      <4> QED BY <1>13, <4>2, Zenon
    <3>6. l.to \in Noters(E)
      <4>1. e.port \in Routers \union Hosts
        BY <1>7, EntryIs, Zenon
      <4>2. HasEntry(ack_list, l.to, e.port, m)
        BY <1>3, <2>2, Zenon DEF HasEntry
      <4>3. <<l.to, e.port>> \in E
        <5> HIDE DEF e
        <5> QED BY <4>1, <4>2, MarkedIs, Zenon
      <4> QED BY <4>1, <4>3, Zenon DEF Noters
    <3> HIDE DEF I, E, D, c
    <3> QED BY <1>12, <1>14, <3>1, <3>4, <3>5, <3>6, StrikeInLine, Zenon
  <2> QED BY <2>1, <2>2, Zenon
<1>17. LineOf(queue', ack_list', map_cached', m, R)
  BY <1>10, <1>13, <1>16, Zenon DEF LineOf
<1>18. HeadsStay(queue, head, queue', head', l) /\ l \notin DataChannels
  BY <1>2, <1>4, <1>6, <1>9, Zenon DEF HeadsStay, DataChannels
<1>19. HeadsFollow(queue', head', map_cached', m)
  BY <1>10, <1>12, <1>18, HeadsAfter, Zenon
<1>20. LastCounts(queue', head', list_ack_status', m)
  <2>1. Last(m) \in Routers
    BY MessagesAssumption, TopologyAssumption, Zenon DEF Last
  <2>2. list_ack_status'[Last(m)][m] = st[Last(m)][m]
    <3>1. CASE l.to # Last(m)
      BY <1>4, <1>6, <2>1, <3>1, Zenon
    <3>2. CASE l.to = Last(m)
      <4>1. p.msg # m
        BY <1>3, <3>2, Zenon
      <4>2. list_ack_status'[l.to] = IF drained THEN [status EXCEPT ![p.msg] = NotCounted] ELSE status
        BY <1>4, <1>6, Zenon
      <4>3. st[l.to] = status
        BY <1>6, Zenon
      <4>5. status \in [Messages -> Tallies]
        <5>1. Recvd(l, p, q, [head EXCEPT ![l] = next], st, [map_cached EXCEPT ![l.to] = CachedAfter(l, next)])
          BY RecvIs, Zenon
        <5> QED BY <4>3, <5>1, Zenon DEF Recvd, CountsFit
      <4> HIDE DEF p, status, drained, st
      <4>4. [status EXCEPT ![p.msg] = NotCounted][m] = status[m]
        BY <4>1, <4>5, Zenon
      <4> QED BY <3>2, <4>2, <4>3, <4>4, Zenon
    <3> QED BY <3>1, <3>2, Zenon
  <2>3. list_ack_status[Last(m)][m].first > 0 => list_ack_status'[Last(m)][m].first > 0
    BY <1>11, <2>1, <2>2, Zenon
  <2>4. LeftFor(queue', m) => LeftFor(queue, m)
    BY <1>13, Zenon DEF LeftFor
  <2> QED BY <1>12, <1>18, <2>3, <2>4, CountsAfter, Zenon
<1> QED BY <1>13, <1>17, <1>19, <1>20, Zenon DEF PathInv

---------------------------------------------------------------------------
(* The steps keep the order: a packet *)

\* The packet at the head of l goes to g: the other heads stay, and the second
\* packet of l becomes its head.
LEMMA MovedHeads ==
  ASSUME NEW q \in Queues, NEW l \in Channels, q[l] # <<>>, NEW g \in Channels, NEW p \in Packets,
         NEW t, t = Pushed(Popped(q, l), g, p)
  PROVE  /\ t \in Queues
         /\ \A x \in Channels \ {l} : q[x] # <<>> => t[x] # <<>> /\ Head(t[x]) = Head(q[x])
         /\ Len(q[l]) > 1 => t[l] # <<>> /\ Head(t[l]) = q[l][2]
<1>1. PICK u \in Queues : u = Popped(q, l) /\ u[l] = Tail(q[l]) /\ \A x \in Channels \ {l} : u[x] = q[x]
  BY PopIs, Zenon
<1>2. t \in Queues /\ \A x \in Channels : u[x] # <<>> => t[x] # <<>> /\ Head(t[x]) = Head(u[x])
  BY <1>1, PushIs, PushedHead, Zenon
<1>3. ASSUME Len(q[l]) > 1
      PROVE  t[l] # <<>> /\ Head(t[l]) = q[l][2]
  <2>1. q[l] \in Seq(Packets)
    BY Zenon DEF Queues
  <2>2. u[l] # <<>> /\ Head(u[l]) = q[l][2]
    BY <1>1, <1>3, <2>1, SecondIs, Zenon
  <2> QED BY <1>2, <2>2, Zenon
<1> QED BY <1>1, <1>2, <1>3, Zenon

\* The hop of a routed head is the channel it leaves by, and leads up.
LEMMA HopLeadsUp ==
  ASSUME ChannelsFit, NEW l \in Channels, l.to \in Routers, l.vc # AckVC, head[l] # Unrouted,
         NEW m \in Messages, Head(queue[l]).msg = m, NEW R, Climbs(m, R)
  PROVE  /\ head[l] = Hop(head[l].to, head[l].vc)
         /\ l.to # Last(m) => R[l.to] < R[head[l].to]
<1>1. HopFits(l.to, m, head[l])
  BY Zenon DEF ChannelsFit, Fit, HeadFits
<1>2. head[l] \in [to : Routers \union Hosts, vc : Nat]
  BY <1>1, HopsLead, Zenon
<1>3. head[l] = Hop(head[l].to, head[l].vc)
  BY <1>2, SMT DEF Hop
<1>4. l.to # Last(m) => head[l] \in Hops[m][l.to]
  BY <1>1, Zenon DEF HopFits, Last
<1> QED BY <1>3, <1>4, Zenon DEF Climbs

LEMMA DataOrders ==
  ASSUME ChannelsFit, TablesFit, Books,
         NEW m \in Messages, NEW R, Climbs(m, R), PathInv(m, R), NEW l \in Channels,
         l.to \in Routers, queue[l] # <<>>, head[l] # Unrouted, NEW next \in NextHeads(l), Data(l, next)
  PROVE  PathInv(m, R)' /\ Aloft(IdsOn(queue', m)) = Aloft(IdsOn(queue, m))
<1> DEFINE p == Head(queue[l])
           g == Channel(l.to, head[l].to, head[l].vc)
           k == Channel(l.to, l.from, AckVC)
           a == [p EXCEPT !.ack = TRUE]
           q == Popped(queue, l)
           t == Pushed(q, g, p)
           I == IdsOn(queue, m)
           J == IdsOn(q, m)
           K == IdsOn(t, m)
           E == Marked(ack_list, m)
           D == Marked(ack_list', m)
           c == HopsOf(map_cached', m)
<1>1. /\ ~p.ack
      /\ head' = [head EXCEPT ![l] = next]
      /\ map_cached' = [map_cached EXCEPT ![l.to] = CachedAfter(l, next)]
      /\ list_ack_status' = [list_ack_status EXCEPT ![l.to] = StatusAfter(l, next)]
      /\ head[l].to \in Hosts =>
           /\ ack_list' = ack_list
           /\ l.from \in Hosts => queue' = t
           /\ l.from \notin Hosts => queue' = Pushed(t, k, a)
      /\ head[l].to \notin Hosts =>
           /\ queue' = t
           /\ ack_list' = [ack_list EXCEPT ![l.to] = Append(@, AckInfo(p, l.from))]
  BY Zenon DEF Data, recvs, Listed
<1>2. /\ p \in Carried(l) /\ l.vc # AckVC /\ p.msg \in Messages
      /\ g \in Channels /\ g.from = l.to /\ g.to = head[l].to /\ g.vc # AckVC
      /\ g.to \in Hosts <=> l.to = Last(p.msg)
      /\ g.to \in Routers <=> l.to # Last(p.msg)
  <2>1. /\ p \in Carried(l) /\ l.vc # AckVC /\ p.msg \in Messages
        /\ g \in Channels /\ g.from = l.to /\ g.to = head[l].to /\ g.vc # AckVC /\ p \in Carried(g)
        /\ g.to \in Hosts <=> l.to = Router[To[p.msg]]
        /\ g.to \in Routers <=> l.to # Router[To[p.msg]]
    BY <1>1, DataLeads, Zenon
  <2> QED BY <2>1, Zenon DEF Last
<1>3. /\ l.from \in Routers \union Hosts /\ (l.from \in Routers => k \in Channels) /\ k.vc = AckVC
  <2>1. /\ l.from \in Routers \union Hosts
        /\ l.from \in Routers => Channel(l.to, l.from, AckVC) \in Channels
    BY <1>2, ChannelKinds, Zenon
  <2> QED BY <2>1, Zenon DEF Channel
<1>4. p \in Packets /\ a \in Packets
  <2>1. p \in Packets
    BY <1>2, CarriedIs, Zenon
  <2> HIDE DEF p
  <2> QED BY <2>1, AckOfPacket, Zenon
<1>5. l \in DataChannels /\ g \in DataChannels /\ g.vc = head[l].vc
  BY <1>2, Zenon DEF DataChannels, Channel
<1>6. Keeps(queue, head, ack_list, list_ack_status, map_cached)
  BY InvKeeps, Zenon
<1>7. /\ queue \in Queues /\ Routed(queue, head) /\ DOMAIN head = Channels /\ queue[l] \in Seq(Carried(l))
      /\ ListsFit(ack_list)
  BY <1>6, FitIs, Zenon DEF Keeps
<1>8. /\ LineOf(queue, ack_list, map_cached, m, R) /\ Risen(queue, m) /\ R \in [Routers -> Nat]
      /\ HeadsFollow(queue, head, map_cached, m) /\ LastCounts(queue, head, list_ack_status, m)
  BY Zenon DEF PathInv, Climbs
<1>9. /\ LineOf(queue, ack_list, map_cached', m, R) /\ HeadsFollow(queue, head, map_cached', m)
      /\ next # Unrouted => Len(queue[l]) > 1
      /\ next # Unrouted /\ queue[l][2].msg = m =>
           map_cached'[l.to][m] = next /\ list_ack_status'[l.to][m].first > 0
      /\ \A r \in Routers : list_ack_status[r][m].first > 0 => list_ack_status'[r][m].first > 0
  <2>1. map_cached' = CachedThen(l, next) /\ list_ack_status' = StatusThen(l, next)
    BY <1>1, Zenon DEF CachedThen, StatusThen
  <2>2. /\ LineOf(queue, ack_list, CachedThen(l, next), m, R)
        /\ HeadsFollow(queue, head, CachedThen(l, next), m)
        /\ next # Unrouted => Len(queue[l]) > 1
        /\ next # Unrouted /\ l.vc # AckVC /\ queue[l][2].msg = m =>
             CachedThen(l, next)[l.to][m] = next /\ StatusThen(l, next)[l.to][m].first > 0
        /\ \A r \in Routers : list_ack_status[r][m].first > 0 => StatusThen(l, next)[r][m].first > 0
    BY <1>6, RecvOrders, Zenon
  <2> QED BY <1>2, <2>1, <2>2, Zenon
<1> HIDE DEF p, g, k, a, q, t
<1>10. q \in Queues
  BY <1>7, PopIs, Zenon DEF q
<1>11. /\ t \in Queues
       /\ \A x \in Channels \ {l} : queue[x] # <<>> => t[x] # <<>> /\ Head(t[x]) = Head(queue[x])
       /\ Len(queue[l]) > 1 => t[l] # <<>> /\ Head(t[l]) = queue[l][2]
  <2>1. t = Pushed(Popped(queue, l), g, p)
    BY Zenon DEF t, q
  <2> QED BY <1>2, <1>4, <1>7, <2>1, MovedHeads, SMT
<1>12. queue' = t \/ (k \in Channels /\ queue' = Pushed(t, k, a))
  BY <1>1, <1>3, Zenon
<1>13. /\ \A x \in DataChannels : queue'[x] = t[x]
       /\ IdsOn(queue', m) = K /\ (Risen(t, m) => Risen(queue', m))
  <2>1. \A x \in DataChannels : queue'[x] = t[x]
    <3>1. ASSUME k \in Channels, queue' = Pushed(t, k, a), NEW x \in DataChannels
          PROVE  queue'[x] = t[x]
      <4>1. x \in Channels \ {k}
        BY <1>3, Zenon DEF DataChannels
      <4> QED BY <1>4, <1>11, <3>1, <4>1, PushIs, Zenon
    <3> QED BY <1>12, <3>1, Zenon
  <2> QED BY <2>1, SameData, Zenon
<1>14. InLine(I, E, c, m, R)
  BY <1>9, Zenon DEF LineOf
<1>15. Fitted(I, E, R)
  BY <1>6, <1>8, StateIsFitted, Zenon DEF LineOf, InLine
<1>16. /\ p.msg = m => Gone(I, J, l, p.id)
       /\ p.msg # m => J = I
       /\ Risen(q, m)
  BY <1>5, <1>7, <1>8, PopIds, Zenon DEF p, q
<1>17. /\ p.msg = m => Come(J, K, g, p.id)
       /\ p.msg # m => K = J
       /\ Risen(q, m) /\ (p.msg = m => \A n \in J[g] : n < p.id) => Risen(t, m)
  BY <1>4, <1>5, <1>10, PushIds, Zenon DEF t
<1>18. /\ g.to \in Hosts => D = E
       /\ g.to \notin Hosts /\ p.msg # m => D = E
       /\ g.to \notin Hosts /\ p.msg = m => D = E \union {<<l.to, l.from>>}
  <2>1. g.to \in Hosts => ack_list' = ack_list
    BY <1>1, <1>2, Zenon
  <2>2. ASSUME g.to \notin Hosts
        PROVE  /\ p.msg # m => D = E
               /\ p.msg = m => D = E \union {<<l.to, l.from>>}
    <3>1. PICK e : e = AckInfo(p, l.from)
      BY Zenon
    <3>2. ack_list' = [ack_list EXCEPT ![l.to] = Append(@, AckInfo(p, l.from))]
      BY <1>1, <1>2, <2>2, Zenon
    <3>3. e.msg = p.msg /\ e.port = l.from /\ Noted(ack_list, ack_list', l.to, e)
      BY <1>2, <1>7, <3>1, <3>2, NotedFits, Zenon
    <3>4. /\ e.msg = m => D = E \union {<<l.to, e.port>>}
          /\ e.msg # m => D = E
      BY <3>3, MarkedMore, SMT
    <3> QED BY <3>3, <3>4, Zenon
  <2> QED BY <2>1, <2>2, Zenon
<1>19. InLine(K, D, c, m, R) /\ Risen(t, m) /\ Aloft(K) = Aloft(I)
  <2>1. CASE p.msg # m
    BY <1>14, <1>16, <1>17, <1>18, <2>1, Zenon
  <2>2. CASE p.msg = m
    <3>1. Gone(I, J, l, p.id) /\ Come(J, K, g, p.id)
      BY <1>16, <1>17, <2>2, Zenon
    <3>2. /\ head[l] = Hop(g.to, g.vc) /\ (l.to # Last(m) => R[l.to] < R[g.to])
      BY <1>2, <1>5, <2>2, HopLeadsUp, Zenon DEF p
    <3>3. c[l.to] = Hop(g.to, g.vc)
      <4>1. head[l] = map_cached'[l.to][m]
        BY <1>5, <1>9, <2>2, Zenon DEF HeadsFollow, p
      <4> QED BY <3>2, <4>1, Zenon DEF HopsOf
    <3> HIDE DEF I, J, K, E, D, c
    <3>4. InLine(K, D, c, m, R) /\ \A n \in J[g] : n < p.id
      <4>1. CASE l.to # Last(m)
        <5>1. g.to \in Routers /\ g.to \notin Hosts
          BY <1>2, <2>2, <4>1, Zenon
        <5>2. D = E \union {<<l.to, l.from>>} /\ R[l.to] < R[g.to]
          BY <1>18, <2>2, <3>2, <4>1, <5>1, Zenon
        <5>3. Marking(E, D, l)
          BY <5>2, Zenon DEF Marking
        <5>4. /\ R \in [Routers -> Nat] /\ l \in DataChannels /\ l.to \in Routers /\ l.to # Last(m)
              /\ g \in DataChannels /\ g.to \in Routers /\ g.from = l.to
              /\ c[l.to] = Hop(g.to, g.vc) /\ R[l.to] < R[g.to]
          BY <1>2, <1>5, <1>8, <3>3, <4>1, <5>1, <5>2, Zenon
        <5> HIDE DEF g
        <5>5. Gone(I, J, l, p.id) /\ Come(J, K, g, p.id) /\ InLine(I, E, c, m, R) /\ Fitted(I, E, R)
          BY <1>14, <1>15, <3>1, Zenon
        <5> QED BY <5>3, <5>4, <5>5, ForwardInLine, Zenon
      <4>2. CASE l.to = Last(m)
        <5>1. g.to \in Hosts /\ D = E
          BY <1>2, <1>18, <2>2, <4>2, Zenon
        <5>2. l.to \notin Noters(E)
          <6>1. ack_list \in Lists /\ Kept(ack_list, l.to, m) = 0
            BY <1>6, <4>2, AccountIs, Zenon
          <6> QED BY <6>1, NothingMarked, Zenon DEF E
        <5>3. InLine(K, E, c, m, R) /\ \A n \in J[g] : n < p.id
          BY <1>2, <1>5, <1>8, <1>14, <1>15, <3>1, <3>3, <4>2, <5>1, <5>2, DeliverInLine, Zenon
        <5> QED BY <5>1, <5>3, Zenon
      <4> QED BY <4>1, <4>2, Zenon
    <3>5. Aloft(K) = Aloft(I)
      BY <1>5, <3>1, MovedAloft, Zenon
    <3>6. Risen(t, m)
      BY <1>16, <1>17, <3>4, Zenon DEF J
    <3> QED BY <3>4, <3>5, <3>6, Zenon
  <2> QED BY <2>1, <2>2, Zenon
<1>20. LineOf(queue', ack_list', map_cached', m, R) /\ Risen(queue', m)
       /\ Aloft(IdsOn(queue', m)) = Aloft(IdsOn(queue, m))
  BY <1>13, <1>19, Zenon DEF LineOf
<1>21. HeadsStay(queue, head, queue', head', l) /\ head'[l] = next
  <2>1. ASSUME NEW x \in DataChannels \ {l}
        PROVE  head'[x] = head[x] /\ (head[x] # Unrouted => Head(queue'[x]) = Head(queue[x]))
    <3>1. x \in Channels \ {l} /\ x \in DataChannels
      BY Zenon DEF DataChannels
    <3>2. head'[x] = head[x]
      BY <1>1, <1>7, <3>1, Zenon
    <3>3. head[x] # Unrouted => queue[x] # <<>>
      BY <1>7, <3>1, Zenon DEF Routed
    <3> QED BY <1>11, <1>13, <3>1, <3>2, <3>3, Zenon
  <2> QED BY <1>1, <1>7, <2>1, Zenon DEF HeadsStay
<1>22. next # Unrouted => Head(queue'[l]) = queue[l][2]
  BY <1>5, <1>9, <1>11, <1>13, Zenon
<1>23. HeadsFollow(queue', head', map_cached', m)
  <2>1. l \in DataChannels /\ head'[l] # Unrouted /\ Head(queue'[l]).msg = m => head'[l] = map_cached'[l.to][m]
    BY <1>9, <1>21, <1>22, Zenon
  <2> QED BY <1>9, <1>21, <2>1, HeadsAfter, Zenon
<1>24. LastCounts(queue', head', list_ack_status', m)
  <2>1. Last(m) \in Routers
    BY MessagesAssumption, TopologyAssumption, Zenon DEF Last
  <2>2. list_ack_status[Last(m)][m].first > 0 => list_ack_status'[Last(m)][m].first > 0
    BY <1>9, <2>1, Zenon
  <2>3. l \in DataChannels /\ l.to = Last(m) /\ head'[l] # Unrouted /\ Head(queue'[l]).msg = m
          => list_ack_status'[Last(m)][m].first > 0
    BY <1>9, <1>21, <1>22, Zenon
  <2>4. LeftFor(queue', m) => RoutedAt(queue, head, Last(m), m) \/ LeftFor(queue, m)
    <3>1. ASSUME NEW x \in DataChannels, x.from = Last(m), K[x] # {}
          PROVE  RoutedAt(queue, head, Last(m), m) \/ LeftFor(queue, m)
      <4>1. CASE x = g /\ p.msg = m
        BY <1>2, <1>5, <3>1, <4>1, Zenon DEF RoutedAt, p
      <4>2. CASE ~(x = g /\ p.msg = m)
        <5>1. K[x] = J[x]
          BY <1>17, <3>1, <4>2, Zenon DEF Come
        <5>2. J[x] \subseteq I[x]
          BY <1>16, <3>1, Zenon DEF Gone
        <5>3. I[x] # {}
          BY <3>1, <5>1, <5>2, Zenon
        <5> QED BY <3>1, <5>3, Zenon DEF LeftFor
      <4> QED BY <4>1, <4>2, Zenon
    <3> QED BY <1>13, <3>1, Zenon DEF LeftFor
  <2> QED BY <1>8, <1>21, <2>2, <2>3, <2>4, CountsAfter, Zenon
<1> QED BY <1>20, <1>23, <1>24, Zenon DEF PathInv

---------------------------------------------------------------------------
(* A step keeps every message in order, and is one the promise allows *)

\* No message has a route that leads back to a router it has passed.
NoWayBack == \A m \in Messages : \E R : Climbs(m, R)
RankOf(m) == CHOOSE R : Climbs(m, R)
InOrder == \A m \in Messages : OrderInv(m, RankOf(m))
OrderedInv == RouterInv /\ InOrder

LEMMA InitOrders ==
  ASSUME Init, NEW m \in Messages, NEW R
  PROVE  OrderInv(m, R)
<1>1. /\ queue = [l \in Channels |-> <<>>] /\ head = [l \in Channels |-> Unrouted]
      /\ ack_list = [r \in Routers |-> <<>>] /\ sent = [x \in Messages |-> 0]
      /\ recv = [x \in Messages |-> 0] /\ held = [x \in Messages |-> {}]
  BY Zenon DEF Init
<1>2. ASSUME NEW l \in DataChannels
      PROVE  /\ IdsOn(queue, m)[l] = {} /\ Rising(queue[l], m)
             /\ head[l] = Unrouted
  <2>1. l \in Channels /\ queue[l] = <<>> /\ head[l] = Unrouted
    BY <1>1, Zenon DEF DataChannels
  <2> QED BY <2>1, NoIds, Zenon DEF IdsOn
<1>3. ASSUME NEW e \in Marked(ack_list, m)
      PROVE  FALSE
  <2>1. e \in Routers \X (Routers \union Hosts) /\ HasEntry(ack_list, e[1], e[2], m)
    BY Zenon DEF Marked
  <2>2. e[1] \in Routers
    BY <2>1, SMT
  <2>3. ack_list[e[1]] = <<>>
    BY <1>1, <2>2, Zenon
  <2>4. 1 .. Len(<<>>) = {}
    BY SMT
  <2> QED BY <2>1, <2>3, <2>4, Zenon DEF HasEntry
<1> DEFINE I == IdsOn(queue, m)
           E == Marked(ack_list, m)
           c == HopsOf(map_cached, m)
<1>4. E = {} /\ \A l \in DataChannels : I[l] = {}
  BY <1>2, <1>3, Zenon
<1>5. LeftFor(queue, m) => FALSE
  BY <1>2, Zenon DEF LeftFor
<1> HIDE DEF I, E, c
<1>6. Passed(I, E) = {}
  BY <1>4, Zenon DEF Passed, Noters, Waiting
<1>7. InLine(I, E, c, m, R)
  <2>1. LeadsOn(I, c, m) /\ NotesLead(E, c, m) /\ Sorted(I, R)
    BY <1>4, Zenon DEF LeadsOn, NotesLead, Sorted
  <2>2. Lined(Passed(I, E), Nexts(c), R, Last(m)) /\ Rooted(Passed(I, E), R, First(m))
    BY <1>6, Zenon DEF Lined, Rooted
  <2> QED BY <2>1, <2>2, Zenon DEF InLine
<1>8. PathInv(m, R)
  <2>1. LineOf(queue, ack_list, map_cached, m, R)
    BY <1>7, Zenon DEF LineOf, I, E, c
  <2>2. Risen(queue, m) /\ HeadsFollow(queue, head, map_cached, m)
    BY <1>2, Zenon DEF Risen, HeadsFollow
  <2>3. LastCounts(queue, head, list_ack_status, m)
    BY <1>2, <1>5, Zenon DEF LastCounts, RoutedAt
  <2> QED BY <2>1, <2>2, <2>3, Zenon DEF PathInv
<1>9. Between(queue, m, recv[m], sent[m])
  <2>1. Aloft(I) = {}
    BY <1>4, Zenon DEF Aloft
  <2>2. 0 .. 0 - 1 = {} /\ 0 <= 0
    BY SMT
  <2>3. recv[m] = 0 /\ sent[m] = 0
    BY <1>1, Zenon
  <2> QED BY <2>1, <2>2, <2>3, Zenon DEF Between, I
<1> QED BY <1>1, <1>8, <1>9, Zenon DEF OrderInv

\* The packets stay where they are, or move without leaving or entering.
LEMMA AloftStays ==
  ASSUME NEW m, NEW R, OrderInv(m, R), PathInv(m, R)', UNCHANGED nics,
         Aloft(IdsOn(queue', m)) = Aloft(IdsOn(queue, m))
  PROVE  OrderInv(m, R)'
BY Zenon DEF OrderInv, Between, nics

LEMMA StepOrders ==
  ASSUME OneMessageAPair, RouterInv, NEW m \in Messages, NEW R, Climbs(m, R), OrderInv(m, R), [Next]_vars
  PROVE  OrderInv(m, R)'
<1>1. /\ ChannelsFit /\ TablesFit /\ Books /\ NicsFit /\ PathInv(m, R)
      /\ Keeps(queue, head, ack_list, list_ack_status, map_cached)
  BY InvKeeps, Zenon DEF RouterInv, FitsInv, OrderInv
<1>2. ASSUME NEW m0 \in Messages, getPayload(m0)
      PROVE  OrderInv(m, R)'
  BY <1>1, <1>2, GetPayloadOrders, Zenon
<1>3. ASSUME NEW h \in Hosts, processControl(h)
      PROVE  OrderInv(m, R)'
  <2>1. UNCHANGED <<channels, tables>> /\ UNCHANGED <<sent, recv, held>>
    BY <1>3, Zenon DEF processControl
  <2> QED BY <2>1, OrderStays, Zenon DEF channels, tables
<1>4. ASSUME NEW l \in Channels, Arrive(l)
      PROVE  OrderInv(m, R)'
  <2>1. UNCHANGED <<queue, ack_list, drain, nics>>
    BY <1>4, Zenon DEF Arrive
  <2>2. PathInv(m, R)'
    BY <1>1, <1>4, ArriveOrders, Zenon
  <2> QED BY <2>1, <2>2, AloftStays, Zenon
<1>5. ASSUME NEW l \in Channels, Cross(l)
      PROVE  OrderInv(m, R)'
  <2>1. PICK next \in NextHeads(l) : Data(l, next) \/ Ack(l, next)
    BY <1>5, Zenon DEF Cross
  <2>2. l.to \in Routers /\ queue[l] # <<>> /\ head[l] # Unrouted
    BY <1>5, Zenon DEF Cross
  <2>3. CASE Data(l, next)
    <3>1. PathInv(m, R)' /\ Aloft(IdsOn(queue', m)) = Aloft(IdsOn(queue, m))
      BY <1>1, <2>2, <2>3, DataOrders, Zenon
    <3>2. UNCHANGED nics
      BY <2>3, Zenon DEF Data
    <3> QED BY <3>1, <3>2, AloftStays, Zenon
  <2>4. CASE Ack(l, next)
    <3>1. ChannelsFit' /\ TablesFit' /\ Books'
      BY <1>1, <2>2, <2>4, AckKeeps, Zenon
    <3>2. Keeps(queue', head', ack_list', list_ack_status', map_cached')
      BY <3>1, Zenon DEF Keeps, ChannelsFit, TablesFit, Books
    <3>3. PathInv(m, R)' /\ IdsOn(queue', m) = IdsOn(queue, m)
      BY <1>1, <2>2, <2>4, <3>2, AckOrders, Zenon
    <3>4. UNCHANGED nics
      BY <2>4, Zenon DEF Ack
    <3> QED BY <3>3, <3>4, AloftStays, Zenon
  <2> QED BY <2>1, <2>3, <2>4, Zenon
<1>6. ASSUME NEW l \in Channels, handle_event(l)
      PROVE  OrderInv(m, R)'
  BY <1>1, <1>6, HandleEventOrders, Zenon
<1>7. ASSUME UNCHANGED vars
      PROVE  OrderInv(m, R)'
  <2>1. UNCHANGED <<queue, head, list_ack_status, map_cached, ack_list, sent, recv, held>>
    BY <1>7, Zenon DEF vars, channels, tables, nics
  <2> QED BY <2>1, OrderStays, Zenon
<1> QED BY <1>2, <1>3, <1>4, <1>5, <1>6, <1>7, Zenon DEF Next

\* What a step does to the NICs of message m.
Allowed(m) ==
  \/ sent'[m] = sent[m] /\ recv'[m] = recv[m] /\ held'[m] = held[m]
  \/ sent[m] < Length[m] /\ sent'[m] = sent[m] + 1 /\ recv'[m] = recv[m] /\ held'[m] = held[m]
  \/ recv[m] < sent[m] /\ recv'[m] = recv[m] + 1 /\ sent'[m] = sent[m] /\ held'[m] = held[m]

LEMMA StepIsAllowed ==
  ASSUME RouterInv, NEW m \in Messages, NEW R, Climbs(m, R), OrderInv(m, R), [Next]_vars
  PROVE  Allowed(m)
<1>1. /\ ChannelsFit /\ TablesFit /\ Books /\ NicsFit /\ held[m] = {}
      /\ Keeps(queue, head, ack_list, list_ack_status, map_cached)
  BY InvKeeps, Zenon DEF RouterInv, FitsInv, OrderInv
<1>2. ASSUME NEW m0 \in Messages, getPayload(m0)
      PROVE  Allowed(m)
  <2>1. /\ sent[m0] < Length[m0] /\ sent' = [sent EXCEPT ![m0] = @ + 1]
        /\ UNCHANGED <<recv, held>>
    BY <1>2, Zenon DEF getPayload
  <2>2. DOMAIN sent = Messages
    BY <1>1, Zenon DEF NicsFit
  <2>3. CASE m = m0
    BY <2>1, <2>2, <2>3, Zenon DEF Allowed
  <2>4. CASE m # m0
    BY <2>1, <2>2, <2>4, Zenon DEF Allowed
  <2> QED BY <2>3, <2>4, Zenon
<1>3. ASSUME NEW h \in Hosts, processControl(h)
      PROVE  Allowed(m)
  BY <1>3, Zenon DEF processControl, Allowed
<1>4. ASSUME NEW l \in Channels, Arrive(l)
      PROVE  Allowed(m)
  BY <1>4, Zenon DEF Arrive, nics, Allowed
<1>5. ASSUME NEW l \in Channels, Cross(l)
      PROVE  Allowed(m)
  <2>1. UNCHANGED nics
    BY <1>5, Zenon DEF Cross, Data, Ack
  <2> QED BY <2>1, Zenon DEF nics, Allowed
<1>6. ASSUME NEW l \in Channels, handle_event(l)
      PROVE  Allowed(m)
  <2>1. /\ held'[m] = {}
        /\ \/ recv'[m] = recv[m]
           \/ recv[m] < sent[m] /\ recv'[m] = recv[m] + 1
    BY <1>1, <1>6, HandleEventOrders, Zenon
  <2>2. sent' = sent
    BY <1>6, Zenon DEF handle_event
  <2> QED BY <1>1, <2>1, <2>2, Zenon DEF Allowed
<1>7. ASSUME UNCHANGED vars
      PROVE  Allowed(m)
  BY <1>7, Zenon DEF vars, nics, Allowed
<1> QED BY <1>2, <1>3, <1>4, <1>5, <1>6, <1>7, Zenon DEF Next

LEMMA AllowedIsOrderly ==
  ASSUME NicsFit, NEW m \in Messages, Allowed(m)
  PROVE  [Flow(m)!Next]_(Flow(m)!abstractVars)
<1>1. sent[m] \in Nat /\ Length[m] \in Nat
  BY MessagesAssumption, Zenon DEF NicsFit
<1>2. sent[m] < Length[m] => sent[m] + 1 \in sent[m] + 1 .. Length[m]
  BY <1>1, SMT
<1> QED BY <1>2, Zenon DEF Allowed, Flow!Next, Flow!Send, Flow!Deliver, Flow!abstractVars

---------------------------------------------------------------------------
LEMMA OrderedInvHolds == ASSUME OneMessageAPair, NoWayBack PROVE Spec => []OrderedInv
<1>1. \A m \in Messages : Climbs(m, RankOf(m))
  BY Zenon DEF NoWayBack, RankOf
<1>2. Init => OrderedInv
  <2>1. Init => RouterInv
    BY InitFits, InitBalances, Zenon DEF RouterInv
  <2>2. Init => InOrder
    BY InitOrders, Zenon DEF InOrder
  <2> QED BY <2>1, <2>2, Zenon DEF OrderedInv
<1>3. OrderedInv /\ [Next]_vars => OrderedInv'
  <2> SUFFICES ASSUME OrderedInv, [Next]_vars
               PROVE  OrderedInv'
    OBVIOUS
  <2>1. RouterInv'
    BY StepKeeps, Zenon DEF OrderedInv
  <2>2. ASSUME NEW m \in Messages
        PROVE  OrderInv(m, RankOf(m))'
    <3>1. PICK R : R = RankOf(m)
      BY Zenon
    <3>2. Climbs(m, R) /\ OrderInv(m, R) /\ RouterInv
      BY <1>1, <3>1, Zenon DEF OrderedInv, InOrder
    <3>3. OrderInv(m, R)'
      BY <3>2, StepOrders, Zenon
    <3> QED BY <3>1, <3>3, Zenon
  <2>3. InOrder'
    BY <2>2, Zenon DEF InOrder
  <2> QED BY <2>1, <2>3, Zenon DEF OrderedInv
<1> QED BY <1>2, <1>3, PTL DEF Spec

\* The promise of flowcut switching, kept by the dragonfly's routers for any
\* messages, windows and buffers: the packets of a message reach the NIC in the
\* order they were sent in, although topo_dragonfly::route_packet may choose
\* another path whenever no ACK is due, and ReorderLinkControl never has to hold
\* one back.
THEOREM PacketsStayInOrder == ASSUME OneMessageAPair, NoWayBack PROVE Spec => KeepsOrder
<1>1. \A m \in Messages : Climbs(m, RankOf(m))
  BY Zenon DEF NoWayBack, RankOf
<1>2. Init => \A m \in Messages : Flow(m)!Init
  BY Zenon DEF Init, Flow!Init
<1>3. OrderedInv /\ [Next]_vars => [\A m \in Messages : [Flow(m)!Next]_(Flow(m)!abstractVars)]_nics
  <2> SUFFICES ASSUME OrderedInv, [Next]_vars, NEW m \in Messages
               PROVE  [Flow(m)!Next]_(Flow(m)!abstractVars)
    BY Zenon
  <2>1. RouterInv /\ NicsFit /\ Climbs(m, RankOf(m)) /\ OrderInv(m, RankOf(m))
    BY <1>1, Zenon DEF OrderedInv, InOrder, RouterInv, FitsInv
  <2>2. Allowed(m)
    BY <2>1, StepIsAllowed, Zenon
  <2> QED BY <2>1, <2>2, AllowedIsOrderly, Zenon
<1> QED BY <1>2, <1>3, OrderedInvHolds, PTL DEF Spec, KeepsOrder
---------------------------------------------------------------------------
(* What is in flight of a message that is free to take another path *)

\* A router that has kept an entry of m is on its line.
LEMMA KeeperIsPassed ==
  ASSUME NEW q, NEW al \in Lists, NEW r \in Routers, NEW m, Kept(al, r, m) # 0
  PROVE  r \in Passed(IdsOn(q, m), Marked(al, m))
<1>1. al[r] \in Seq(Entries)
  BY Zenon DEF Lists
<1>2. PICK k \in 1 .. Len(al[r]) : al[r][k] \in EntriesOf(m)
  BY <1>1, HowManyIs, Zenon DEF Kept
<1>3. al[r][k].msg = m /\ al[r][k].port \in Routers \union Hosts
  BY <1>2, EntryIs, Zenon DEF EntriesOf
<1>4. <<r, al[r][k].port>> \in Marked(al, m)
  <2>1. HasEntry(al, r, al[r][k].port, m)
    BY <1>2, <1>3, Zenon DEF HasEntry
  <2> QED BY <1>3, <2>1, MarkedIs, Zenon
<1> QED BY <1>3, <1>4, Zenon DEF Passed, Noters

\* A line with an idle first router has no other.
LEMMA IdleIsAlone ==
  ASSUME Keeps(queue, head, ack_list, list_ack_status, map_cached), NEW m \in Messages, NEW R,
         Climbs(m, R), PathInv(m, R), \A x \in Routers : <<First(m), x>> \notin Feeds(IdsOn(queue, m), Marked(ack_list, m)),
         NEW x \in Passed(IdsOn(queue, m), Marked(ack_list, m))
  PROVE  x = First(m)
<1> DEFINE I == IdsOn(queue, m)
           E == Marked(ack_list, m)
           c == HopsOf(map_cached, m)
           V == Passed(I, E)
           P == Feeds(I, E)
           n == Nexts(c)
           r == First(m)
<1>1. LineOf(queue, ack_list, map_cached, m, R) /\ R \in [Routers -> Nat] /\ V \in SUBSET Routers
  BY PassedAre, Zenon DEF PathInv, Climbs
<1>2. InLine(I, E, c, m, R)
  BY <1>1, Zenon DEF LineOf
<1>3. Fitted(I, E, R)
  BY <1>2, StateIsFitted, Zenon DEF InLine
<1>4. Lined(V, n, R, Last(m)) /\ Rooted(V, R, r) /\ Fed(V, P, n, R, r)
  BY <1>2, <1>3, LineIsFed, Zenon DEF InLine
<1>5. r \in V /\ R[r] <= R[x]
  BY <1>4, Zenon DEF Rooted
<1>6. Top(V, R, r)
  <2> HIDE DEF V, P, n, r
  <2>1. \A y \in Routers : <<r, y>> \notin P
    BY Zenon DEF r, P
  <2> QED BY <1>1, <1>4, <1>5, <2>1, IdleIsTop, Zenon
<1>7. R[x] <= R[r]
  BY <1>6, Zenon DEF Top
<1>8. R[x] \in Nat /\ R[r] \in Nat
  BY <1>1, <1>5, Zenon
<1>9. R[x] = R[r]
  BY <1>5, <1>7, <1>8, SMT
<1> QED BY <1>4, <1>5, <1>9, Zenon DEF Lined

\* A packet or an ACK of m makes the channel count.
LEMMA OnItIsCounted ==
  ASSUME NEW q \in Queues, NEW l \in Channels, NEW m, NEW i \in DOMAIN q[l], q[l][i].msg = m
  PROVE  /\ HowMany(q[l], PacketsOf(m)) # 0 /\ q[l] # <<>>
         /\ l.vc # AckVC => IdsOn(q, m)[l] # {}
         /\ i # 1 => HowMany(Tail(q[l]), PacketsOf(m)) # 0
<1>1. q[l] \in Seq(Packets)
  BY Zenon DEF Queues
<1>2. i \in 1 .. Len(q[l]) /\ q[l][i] \in Packets /\ q[l] # <<>>
  BY <1>1, SMT
<1>3. q[l][i] \in PacketsOf(m)
  BY <1>2, Zenon DEF PacketsOf
<1>4. HowMany(q[l], PacketsOf(m)) # 0
  BY <1>1, <1>2, <1>3, HowManyIs, Zenon
<1>5. ASSUME l.vc # AckVC
      PROVE  IdsOn(q, m)[l] # {}
  <2>1. l \in DataChannels
    BY <1>5, Zenon DEF DataChannels
  <2>2. q[l][i].id \in Ids(q[l], m)
    BY <1>2, Zenon DEF Ids, IdsIn
  <2>3. IdsOn(q, m)[l] = Ids(q[l], m)
    BY <2>1, IdsOnIs, Zenon
  <2> QED BY <2>2, <2>3, Zenon
<1>6. ASSUME i # 1
      PROVE  HowMany(Tail(q[l]), PacketsOf(m)) # 0
  <2>1. /\ Tail(q[l]) \in Seq(Packets) /\ i - 1 \in 1 .. Len(Tail(q[l]))
        /\ Tail(q[l])[i - 1] = q[l][i]
    BY <1>1, <1>2, <1>6, SMT
  <2> QED BY <1>3, <2>1, HowManyIs, Zenon
<1> QED BY <1>2, <1>4, <1>5, <1>6, Zenon

\* Where a message may take another path, what is left of it between routers
\* is an ACK that its first router has counted.
LEMMA FreeIsDrained ==
  ASSUME RouterInv, NEW m \in Messages, NEW R, Climbs(m, R), OrderInv(m, R),
         ~SamePath(First(m), m), NEW l \in Channels, l.from \in Routers, l.to \in Routers,
         NEW i \in DOMAIN queue[l], queue[l][i].msg = m
  PROVE  l.to = First(m) /\ i = 1 /\ head[l] = AckHop
<1> DEFINE r == First(m)
           I == IdsOn(queue, m)
           E == Marked(ack_list, m)
<1>1. /\ PathInv(m, R) /\ Keeps(queue, head, ack_list, list_ack_status, map_cached)
      /\ r \in Routers /\ r # Last(m) /\ ~Busy(list_ack_status, r, m)
  <2>1. Keeps(queue, head, ack_list, list_ack_status, map_cached) /\ PathInv(m, R)
    BY InvKeeps, Zenon DEF RouterInv, FitsInv, OrderInv
  <2>2. From[m] \in Hosts /\ Router[From[m]] # Router[To[m]]
    BY MessagesAssumption, Zenon
  <2>3. r \in Routers /\ r # Last(m)
    BY <2>2, TopologyAssumption, Zenon DEF First, Last
  <2> QED BY <2>1, <2>3, Zenon DEF SamePath, Busy
<1>2. \A x \in Routers : <<r, x>> \notin Feeds(I, E)
  BY <1>1, FeederIs, Zenon
<1>3. queue \in Queues /\ ack_list \in Lists
  BY <1>1, AccountIs, Zenon
<1>4. /\ HowMany(queue[l], PacketsOf(m)) # 0 /\ queue[l] # <<>>
      /\ l.vc # AckVC => I[l] # {}
      /\ i # 1 => HowMany(Tail(queue[l]), PacketsOf(m)) # 0
  BY <1>3, OnItIsCounted, Zenon
<1>5. \A x \in Passed(I, E) : x = r
  BY <1>1, <1>2, IdleIsAlone, Zenon
<1>6. l.vc = AckVC
  <2>1. SUFFICES ASSUME l.vc # AckVC
                 PROVE  FALSE
    BY Zenon
  <2>2. l \in DataChannels /\ I[l] # {}
    BY <1>4, <2>1, Zenon DEF DataChannels
  <2>3. <<l.from, l.to>> \in Feeds(I, E)
    BY <2>2, FeedsOn, Zenon
  <2>4. l.from \in Noters(E)
    BY <1>1, <2>3, FeederIs, Zenon
  <2> QED BY <1>2, <1>5, <2>3, <2>4, Zenon DEF Passed
<1>7. l.to = r
  <2>1. On(l, l.to)
    BY <1>6, Zenon DEF On
  <2>2. LoadTerms(Load(queue, l.to, m), queue, l.to, m)
    BY <1>3, LoadIs, Zenon
  <2>3. Load(queue, l.to, m)[l] # 0
    BY <1>4, <2>1, <2>2, Zenon DEF LoadTerms
  <2>4. Summed(Channels, Load(queue, l.to, m)) /\ (Kept(ack_list, l.to, m) = 0 => Out(queue, l.to, m) = 0)
    <3>1. PICK x \in Routers : x = l.to
      BY Zenon
    <3>2. Keeps(queue, head, ack_list, list_ack_status, map_cached)
      BY <1>1, Zenon
    <3>3. /\ Summed(Channels, Load(queue, x, m))
          /\ Kept(ack_list, x, m) = 0 => Out(queue, x, m) = 0 /\ Coming(ack_list, x, m) = 0
      BY <3>2, AccountIs, SMTT(30)
    <3> QED BY <3>1, <3>3, Zenon
  <2>5. Kept(ack_list, l.to, m) # 0
    BY <2>3, <2>4, SummedIs, Zenon DEF Out
  <2> QED BY <1>3, <1>5, <2>5, KeeperIsPassed, Zenon
<1>8. Open(queue, head, r, m)[l] = 0
  <2>1. Summed(Channels, Open(queue, head, r, m)) /\ Pending(queue, head, r, m) = 0
    BY <1>1, AccountIs, Zenon
  <2> QED BY <2>1, SummedIs, Zenon DEF Pending
<1>9. HowMany(IF head[l] = Unrouted THEN queue[l] ELSE Tail(queue[l]), PacketsOf(m)) = 0
  <2>1. OpenAt(queue, head, l, r, m) = 0
    BY <1>8, Zenon DEF Open
  <2> QED BY <1>6, <1>7, <2>1, Zenon DEF OpenAt
<1>10. head[l] # Unrouted /\ i = 1
  BY <1>4, <1>9, Zenon
<1>11. head[l] = AckHop
  BY <1>1, <1>6, <1>10, Zenon DEF Keeps, Fit, HeadFits
<1> QED BY <1>7, <1>10, <1>11, Zenon

\* A message takes another path only when nothing of it is left between routers,
\* for any messages, routes and buffers: as the counts a router compares in
\* topo_dragonfly::route_packet agree for its first router no earlier than they
\* do for every router further on.
THEOREM ChoiceFindsNothing == ASSUME OneMessageAPair, NoWayBack PROVE Spec => []ChoosesWhenDrained
<1>1. \A m \in Messages : Climbs(m, RankOf(m))
  BY Zenon DEF NoWayBack, RankOf
<1>2. OrderedInv => ChoosesWhenDrained
  <2> SUFFICES ASSUME OrderedInv, NEW m \in Messages, ~SamePath(Router[From[m]], m),
                      NEW l \in Channels, l.from \in Routers, l.to \in Routers,
                      NEW i \in DOMAIN queue[l], queue[l][i].msg = m
               PROVE  l.to = Router[From[m]] /\ i = 1 /\ head[l] = AckHop
    BY Zenon DEF ChoosesWhenDrained
  <2>1. PICK R : R = RankOf(m)
    BY Zenon
  <2>2. RouterInv /\ Climbs(m, R) /\ OrderInv(m, R)
    BY <1>1, <2>1, Zenon DEF OrderedInv, InOrder
  <2>3. First(m) = Router[From[m]]
    BY Zenon DEF First
  <2>4. l.to = First(m) /\ i = 1 /\ head[l] = AckHop
    BY <2>2, <2>3, FreeIsDrained, Zenon
  <2> QED BY <2>3, <2>4, Zenon
<1> QED BY <1>2, OrderedInvHolds, PTL
=============================================================================
