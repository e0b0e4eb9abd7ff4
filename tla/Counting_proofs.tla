-------------------------- MODULE Counting_proofs ---------------------------
(***************************************************************************)
(* A step that adds a thing, takes one away, takes away those of a key or  *)
(* hands all of them on changes the sum by that much.  Nothing here is by  *)
(* induction: pairs are added to and taken from a finite set.              *)
(***************************************************************************)
EXTENDS Counting, Integers, Sequences, FiniteSetTheorems, TLAPS

\* What is summed: numbers, for the keys of F at least.
Numbered(F, n) == n \in [DOMAIN n -> Nat] /\ F \subseteq DOMAIN n

LEMMA NumberedIs ==
  ASSUME NEW D, NEW F \in SUBSET D, NEW n \in [D -> Nat]
  PROVE  Numbered(F, n)
BY Zenon DEF Numbered

IsCell(F, n, c) == \E f \in F : \E i \in 1 .. n[f] : c = <<f, i>>

LEMMA InCells ==
  ASSUME NEW F, NEW n, NEW c
  PROVE  c \in Cells(F, n) <=> IsCell(F, n, c)
<1>1. c \in Cells(F, n) <=> \E f \in F : c \in {f} \X (1 .. n[f])
  BY Zenon DEF Cells
<1>2. ASSUME NEW f
      PROVE  c \in {f} \X (1 .. n[f]) <=> \E i \in 1 .. n[f] : c = <<f, i>>
  BY SMT
<1> QED BY <1>1, <1>2, Zenon DEF IsCell

\* One more of a key.
LEMMA CellsMore ==
  ASSUME NEW F, NEW n, Numbered(F, n), NEW f \in F,
         IsFiniteSet(Cells(F, n))
  PROVE  LET more == Cells(F, [n EXCEPT ![f] = n[f] + 1])
         IN  IsFiniteSet(more) /\ Cardinality(more) = Cardinality(Cells(F, n)) + 1
<1> USE DEF Numbered
<1> DEFINE m == [n EXCEPT ![f] = n[f] + 1]
           x == <<f, n[f] + 1>>
<1>1. n[f] \in Nat /\ f \in DOMAIN n /\ m[f] = n[f] + 1 /\ \A g \in F \ {f} : m[g] = n[g]
  BY Zenon
<1> HIDE DEF m
<1>2. ~(n[f] + 1 \in 1 .. n[f]) /\ n[f] + 1 \in 1 .. m[f]
  BY <1>1, SMT
<1>3. \A i \in 1 .. m[f] : i \in 1 .. n[f] \/ i = n[f] + 1
  BY <1>1, SMT
<1>4. \A i \in 1 .. n[f] : i \in 1 .. m[f]
  BY <1>1, SMT
<1>5. x \notin Cells(F, n)
  <2> SUFFICES ASSUME x \in Cells(F, n)
               PROVE  FALSE
    BY Zenon
  <2>1. IsCell(F, n, x)
    BY InCells, Zenon
  <2>2. PICK g \in F : \E i \in 1 .. n[g] : x = <<g, i>>
    BY <2>1, Zenon DEF IsCell
  <2> QED BY <1>2, <2>2, Zenon
<1>6. ASSUME NEW c \in Cells(F, m)
      PROVE  c \in Cells(F, n) \union {x}
  <2>1. PICK g \in F : \E i \in 1 .. m[g] : c = <<g, i>>
    <3>1. IsCell(F, m, c)
      BY InCells, Zenon
    <3> QED BY <3>1, Zenon DEF IsCell
  <2>2. CASE g = f
    BY <1>3, <2>1, <2>2, InCells, Zenon DEF IsCell
  <2>3. CASE g # f
    BY <1>1, <2>1, <2>3, InCells, Zenon DEF IsCell
  <2> QED BY <2>2, <2>3, Zenon
<1>7. ASSUME NEW c \in Cells(F, n)
      PROVE  c \in Cells(F, m)
  <2>1. PICK g \in F : \E i \in 1 .. n[g] : c = <<g, i>>
    <3>1. IsCell(F, n, c)
      BY InCells, Zenon
    <3> QED BY <3>1, Zenon DEF IsCell
  <2>2. CASE g = f
    BY <1>4, <2>1, <2>2, InCells, Zenon DEF IsCell
  <2>3. CASE g # f
    BY <1>1, <2>1, <2>3, InCells, Zenon DEF IsCell
  <2> QED BY <2>2, <2>3, Zenon
<1>8. x \in Cells(F, m)
  BY <1>2, InCells, Zenon DEF IsCell
<1>9. Cells(F, m) = Cells(F, n) \union {x}
  BY <1>6, <1>7, <1>8, Zenon
<1>10. /\ IsFiniteSet(Cells(F, m))
       /\ Cardinality(Cells(F, m)) = Cardinality(Cells(F, n)) + 1
  <2> DEFINE C == Cells(F, n)
  <2> HIDE DEF C, x
  <2>1. IsFiniteSet(C) /\ x \notin C /\ Cells(F, m) = C \union {x}
    BY <1>5, <1>9, Zenon DEF C
  <2>2. /\ IsFiniteSet(C \union {x})
        /\ Cardinality(C \union {x}) = IF x \in C THEN Cardinality(C) ELSE Cardinality(C) + 1
    BY <2>1, FS_AddElement, Zenon
  <2> QED BY <2>1, <2>2, Zenon DEF C
<1> QED BY <1>10, Zenon DEF m

\* One less.
LEMMA CellsLess ==
  ASSUME NEW F, NEW n, Numbered(F, n), NEW f \in F, n[f] > 0,
         IsFiniteSet(Cells(F, n))
  PROVE  LET less == Cells(F, [n EXCEPT ![f] = n[f] - 1])
         IN  IsFiniteSet(less) /\ Cardinality(less) = Cardinality(Cells(F, n)) - 1
<1> USE DEF Numbered
<1> DEFINE m == [n EXCEPT ![f] = n[f] - 1]
           x == <<f, n[f]>>
<1>1. n[f] \in Nat /\ f \in DOMAIN n /\ m[f] = n[f] - 1 /\ \A g \in F \ {f} : m[g] = n[g]
  BY Zenon
<1> HIDE DEF m
<1>2. ~(n[f] \in 1 .. m[f]) /\ n[f] \in 1 .. n[f]
  BY <1>1, SMT
<1>3. \A i \in 1 .. n[f] : i \in 1 .. m[f] \/ i = n[f]
  BY <1>1, SMT
<1>4. \A i \in 1 .. m[f] : i \in 1 .. n[f]
  BY <1>1, SMT
<1>5. x \in Cells(F, n) /\ x \notin Cells(F, m)
  <2>1. x \in Cells(F, n)
    BY <1>2, InCells, Zenon DEF IsCell
  <2>2. ASSUME x \in Cells(F, m)
        PROVE  FALSE
    <3>1. IsCell(F, m, x)
      BY <2>2, InCells, Zenon
    <3>2. PICK g \in F : \E i \in 1 .. m[g] : x = <<g, i>>
      BY <3>1, Zenon DEF IsCell
    <3> QED BY <1>2, <3>2, Zenon
  <2> QED BY <2>1, <2>2, Zenon
<1>6. ASSUME NEW c \in Cells(F, n), c # x
      PROVE  c \in Cells(F, m)
  <2>1. PICK g \in F : \E i \in 1 .. n[g] : c = <<g, i>>
    <3>1. IsCell(F, n, c)
      BY InCells, Zenon
    <3> QED BY <3>1, Zenon DEF IsCell
  <2>2. CASE g = f
    BY <1>3, <1>6, <2>1, <2>2, InCells, Zenon DEF IsCell
  <2>3. CASE g # f
    BY <1>1, <2>1, <2>3, InCells, Zenon DEF IsCell
  <2> QED BY <2>2, <2>3, Zenon
<1>7. ASSUME NEW c \in Cells(F, m)
      PROVE  c \in Cells(F, n)
  <2>1. PICK g \in F : \E i \in 1 .. m[g] : c = <<g, i>>
    <3>1. IsCell(F, m, c)
      BY InCells, Zenon
    <3> QED BY <3>1, Zenon DEF IsCell
  <2>2. CASE g = f
    BY <1>4, <2>1, <2>2, InCells, Zenon DEF IsCell
  <2>3. CASE g # f
    BY <1>1, <2>1, <2>3, InCells, Zenon DEF IsCell
  <2> QED BY <2>2, <2>3, Zenon
<1>8. Cells(F, m) = Cells(F, n) \ {x}
  BY <1>5, <1>6, <1>7, Zenon
<1>9. /\ IsFiniteSet(Cells(F, m))
      /\ Cardinality(Cells(F, m)) = Cardinality(Cells(F, n)) - 1
  <2> DEFINE C == Cells(F, n)
  <2> HIDE DEF C, x
  <2>1. IsFiniteSet(C) /\ x \in C /\ Cells(F, m) = C \ {x}
    BY <1>5, <1>8, Zenon DEF C
  <2>2. /\ IsFiniteSet(C \ {x})
        /\ Cardinality(C \ {x}) = IF x \in C THEN Cardinality(C) - 1 ELSE Cardinality(C)
    BY <2>1, FS_RemoveElement, Zenon
  <2> QED BY <2>1, <2>2, Zenon DEF C
<1> QED BY <1>9, Zenon DEF m

\* Those of a key are gone.
LEMMA CellsGone ==
  ASSUME NEW F, NEW n, Numbered(F, n), NEW f \in F,
         IsFiniteSet(Cells(F, n))
  PROVE  LET rest == Cells(F, [n EXCEPT ![f] = 0])
         IN  /\ IsFiniteSet(rest) /\ Cardinality(rest) \in Nat
             /\ Cardinality(rest) = Cardinality(Cells(F, n)) - n[f]
<1> USE DEF Numbered
<1> DEFINE m == [n EXCEPT ![f] = 0]
           X == {f} \X (1 .. n[f])
<1>1. n[f] \in Nat /\ f \in DOMAIN n /\ m[f] = 0 /\ \A g \in F \ {f} : m[g] = n[g]
  BY Zenon
<1> HIDE DEF m
<1>2. \A i \in 1 .. m[f] : FALSE
  BY <1>1, SMT
<1>3. X \subseteq Cells(F, n)
  BY Zenon DEF Cells
<1>4. Cells(F, m) = Cells(F, n) \ X
  <2>1. ASSUME NEW c \in Cells(F, m)
        PROVE  c \in Cells(F, n) /\ c \notin X
    <3>1. PICK g \in F : \E i \in 1 .. m[g] : c = <<g, i>>
      <4>1. IsCell(F, m, c)
        BY InCells, Zenon
      <4> QED BY <4>1, Zenon DEF IsCell
    <3>2. g # f
      BY <1>2, <3>1, Zenon
    <3>3. c \in Cells(F, n)
      BY <1>1, <3>1, <3>2, InCells, Zenon DEF IsCell
    <3>4. PICK i : c = <<g, i>>
      BY <3>1, Zenon
    <3>5. c \notin X
      BY <3>2, <3>4, Zenon
    <3> QED BY <3>3, <3>5, Zenon
  <2>2. ASSUME NEW c \in Cells(F, n), c \notin X
        PROVE  c \in Cells(F, m)
    <3>1. PICK g \in F : \E i \in 1 .. n[g] : c = <<g, i>>
      <4>1. IsCell(F, n, c)
        BY InCells, Zenon
      <4> QED BY <4>1, Zenon DEF IsCell
    <3>2. ASSUME g = f
          PROVE  c \in X
      <4>1. PICK i \in 1 .. n[f] : c = <<f, i>>
        BY <3>1, <3>2, Zenon
      <4> QED BY <4>1, SMT
    <3>3. g # f
      BY <2>2, <3>2, Zenon
    <3> QED BY <1>1, <3>1, <3>3, InCells, Zenon DEF IsCell
  <2> QED BY <2>1, <2>2, Zenon
<1>5. IsFiniteSet(X) /\ Cardinality(X) = n[f]
  <2>1. IsFiniteSet({f}) /\ Cardinality({f}) = 1
    BY FS_Singleton, Zenon
  <2>2. IsFiniteSet(1 .. n[f]) /\ Cardinality(1 .. n[f]) = n[f]
    BY <1>1, FS_Interval, SMT
  <2>3. IsFiniteSet(X) /\ Cardinality(X) = 1 * n[f]
    BY <2>1, <2>2, FS_Product, SMT
  <2> QED BY <1>1, <2>3, SMT
<1>6. Cells(F, n) \intersect X = X
  BY <1>3, Zenon
<1>7. /\ IsFiniteSet(Cells(F, m))
      /\ Cardinality(Cells(F, m)) = Cardinality(Cells(F, n)) - n[f]
  <2> DEFINE C == Cells(F, n)
  <2> HIDE DEF C, X
  <2>1. IsFiniteSet(C) /\ Cells(F, m) = C \ X /\ C \intersect X = X /\ Cardinality(X) = n[f]
    BY <1>4, <1>5, <1>6, Zenon DEF C
  <2>2. IsFiniteSet(C \ X) /\ Cardinality(C \ X) = Cardinality(C) - Cardinality(C \intersect X)
    BY <2>1, FS_Difference, Zenon
  <2> QED BY <2>1, <2>2, Zenon DEF C
<1>8. Cardinality(Cells(F, m)) \in Nat
  BY <1>7, FS_CardinalityType, Zenon
<1> QED BY <1>7, <1>8, Zenon DEF m

\* Other keys do not matter, and where every key has none there is nothing to
\* count.
LEMMA CellsOfOthers ==
  ASSUME NEW F, NEW n, NEW m, \A f \in F : n[f] = m[f]
  PROVE  Cells(F, n) = Cells(F, m)
BY Zenon DEF Cells

LEMMA CellsEmpty ==
  ASSUME NEW F, NEW n, Numbered(F, n), IsFiniteSet(Cells(F, n))
  PROVE  /\ Cardinality(Cells(F, n)) \in Nat
         /\ Cardinality(Cells(F, n)) = 0 <=> \A f \in F : n[f] = 0
<1> USE DEF Numbered
<1>1. /\ Cardinality(Cells(F, n)) \in Nat
      /\ Cardinality(Cells(F, n)) = 0 <=> Cells(F, n) = {}
  BY FS_CardinalityType, FS_EmptySet, Zenon
<1>2. ASSUME NEW f \in F, n[f] # 0
      PROVE  Cells(F, n) # {}
  <2>1. 1 \in 1 .. n[f]
    <3>1. n[f] \in Nat
      BY Zenon
    <3> QED BY <1>2, <3>1, SMT
  <2>2. <<f, 1>> \in Cells(F, n)
    BY <2>1, InCells, Zenon DEF IsCell
  <2> QED BY <2>2, Zenon
<1>3. ASSUME NEW c \in Cells(F, n)
      PROVE  \E f \in F : n[f] # 0
  <2>1. PICK f \in F : \E i \in 1 .. n[f] : c = <<f, i>>
    <3>1. IsCell(F, n, c)
      BY InCells, Zenon
    <3> QED BY <3>1, Zenon DEF IsCell
  <2>2. PICK i \in 1 .. n[f] : TRUE
    BY <2>1, Zenon
  <2>3. n[f] # 0
    <3>1. n[f] \in Nat
      BY Zenon
    <3> QED BY <2>2, <3>1, SMT
  <2> QED BY <2>3, Zenon
<1> QED BY <1>1, <1>2, <1>3, Zenon


LEMMA CellsNone ==
  ASSUME NEW F, NEW n, \A f \in F : n[f] = 0
  PROVE  IsFiniteSet(Cells(F, n)) /\ Cardinality(Cells(F, n)) = 0
<1>1. \A i \in 1 .. 0 : FALSE
  BY SMT
<1>2. ASSUME NEW c \in Cells(F, n)
      PROVE  FALSE
  <2>1. IsCell(F, n, c)
    BY InCells, Zenon
  <2>2. PICK f \in F : \E i \in 1 .. n[f] : c = <<f, i>>
    BY <2>1, Zenon DEF IsCell
  <2> QED BY <1>1, <2>2, Zenon
<1>3. Cells(F, n) = {}
  BY <1>2, Zenon
<1> QED BY <1>3, FS_EmptySet, Zenon

\* Each key hands what it has to the one before it; the first has nothing.
LEMMA CellsShifted ==
  ASSUME NEW N \in Nat, NEW n \in [0 .. N -> Nat], n[0] = 0, IsFiniteSet(Cells(0 .. N, n))
  PROVE  LET m == [t \in 0 .. N |-> IF t = N THEN 0 ELSE n[t + 1]]
         IN  /\ IsFiniteSet(Cells(0 .. N, m))
             /\ Cardinality(Cells(0 .. N, m)) <= Cardinality(Cells(0 .. N, n))
<1> DEFINE m == [t \in 0 .. N |-> IF t = N THEN 0 ELSE n[t + 1]]
           C == Cells(0 .. N, n)
           M == Cells(0 .. N, m)
           move == [c \in M |-> <<c[1] + 1, c[2]>>]
<1>1. ASSUME NEW c \in M
      PROVE  \E t \in 0 .. N, i \in Nat : /\ c = <<t, i>> /\ t + 1 \in 0 .. N
                                          /\ i \in 1 .. n[t + 1]
  <2>1. PICK t \in 0 .. N : \E i \in 1 .. m[t] : c = <<t, i>>
    <3>1. IsCell(0 .. N, m, c)
      BY <1>1, InCells, Zenon
    <3> QED BY <3>1, Zenon DEF IsCell
  <2>2. PICK i \in 1 .. m[t] : c = <<t, i>>
    BY <2>1, Zenon
  <2>3. \A j \in 1 .. 0 : FALSE
    BY SMT
  <2>4. t # N /\ m[t] = n[t + 1]
    BY <2>2, <2>3, Zenon
  <2>5. t + 1 \in 0 .. N /\ i \in 1 .. n[t + 1]
    <3>1. i \in 1 .. n[t + 1]
      BY <2>2, <2>4, Zenon
    <3>2. t + 1 \in 0 .. N
      BY <2>4, SMT
    <3> QED BY <3>1, <3>2, Zenon
  <2>6. i \in Nat
    <3>1. n[t + 1] \in Nat
      BY <2>5, Zenon
    <3> QED BY <2>5, <3>1, SMT
  <2> QED BY <2>2, <2>5, <2>6, Zenon
<1>2. move \in [M -> C]
  <2> SUFFICES ASSUME NEW c \in M
               PROVE  <<c[1] + 1, c[2]>> \in C
    BY Zenon
  <2>1. PICK t \in 0 .. N, i \in Nat : c = <<t, i>> /\ t + 1 \in 0 .. N /\ i \in 1 .. n[t + 1]
    BY <1>1, Zenon
  <2>2. c[1] = t /\ c[2] = i
    BY <2>1, Zenon
  <2> HIDE DEF M, C
  <2>3. IsCell(0 .. N, n, <<t + 1, i>>)
    BY <2>1, Zenon DEF IsCell
  <2>4. <<t + 1, i>> \in C
    BY <2>3, InCells, Zenon DEF C
  <2> QED BY <2>2, <2>4, Zenon
<1>3. ASSUME NEW c \in M, NEW d \in M, move[c] = move[d]
      PROVE  c = d
  <2>1. PICK t \in 0 .. N, i \in Nat : c = <<t, i>>
    <3> HIDE DEF M
    <3> QED BY <1>1, Zenon
  <2>2. PICK u \in 0 .. N, j \in Nat : d = <<u, j>>
    <3> HIDE DEF M
    <3> QED BY <1>1, Zenon
  <2>3. c[1] = t /\ c[2] = i /\ d[1] = u /\ d[2] = j
    BY <2>1, <2>2, Zenon
  <2>4. move[c] = <<t + 1, i>> /\ move[d] = <<u + 1, j>>
    <3> HIDE DEF M
    <3>1. move[c] = <<c[1] + 1, c[2]>> /\ move[d] = <<d[1] + 1, d[2]>>
      BY Zenon
    <3> QED BY <2>3, <3>1, Zenon
  <2> HIDE DEF M, move
  <2>5. t + 1 = u + 1 /\ i = j
    <3>1. <<t + 1, i>> = <<u + 1, j>>
      BY <1>3, <2>4, Zenon
    <3> QED BY <3>1, SMT
  <2>6. t = u
    BY <2>5, SMT
  <2> QED BY <2>1, <2>2, <2>5, <2>6, Zenon
<1>4. move \in Injection(M, C)
  <2> HIDE DEF M, C, move
  <2>1. DOMAIN move = M
    BY <1>2, Zenon
  <2> QED BY <1>2, <1>3, <2>1, Zenon DEF Injection, IsInjective
<1>5. IsFiniteSet(M) /\ Cardinality(M) <= Cardinality(C)
  <2> HIDE DEF M, C, move
  <2>1. IsFiniteSet(C)
    BY Zenon DEF C
  <2> QED BY <1>4, <2>1, FS_Injection, Zenon
<1> QED BY <1>5, Zenon


-----------------------------------------------------------------------------
(* Occurrences in a sequence *)

PlacesOf(s, x) == {k \in DOMAIN s : s[k] = x}

LEMMA PlacesAreFinite ==
  ASSUME NEW S, NEW s \in Seq(S), NEW x
  PROVE  /\ IsFiniteSet(PlacesOf(s, x)) /\ Occurrences(s, x) = Cardinality(PlacesOf(s, x))
         /\ Occurrences(s, x) \in Nat /\ PlacesOf(s, x) \subseteq 1 .. Len(s) /\ Len(s) \in Nat
<1>1. DOMAIN s = 1 .. Len(s) /\ Len(s) \in Nat
  BY SMT
<1>2. IsFiniteSet(1 .. Len(s))
  <2>1. 1 \in Int /\ Len(s) \in Int
    BY <1>1, SMT
  <2> QED BY <2>1, FS_Interval, Zenon
<1>3. PlacesOf(s, x) \subseteq 1 .. Len(s)
  BY <1>1, Zenon DEF PlacesOf
<1>4. IsFiniteSet(PlacesOf(s, x))
  BY <1>2, <1>3, FS_Subset, Zenon
<1>5. Occurrences(s, x) = Cardinality(PlacesOf(s, x))
  BY Zenon DEF Occurrences, PlacesOf
<1>6. Cardinality(PlacesOf(s, x)) \in Nat
  BY <1>4, FS_CardinalityType, Zenon
<1> QED BY <1>1, <1>3, <1>4, <1>5, <1>6, Zenon

LEMMA OccurrencesInNone ==
  ASSUME NEW x
  PROVE  Occurrences(<<>>, x) = 0
<1>1. PlacesOf(<<>>, x) = {}
  BY SMT DEF PlacesOf
<1> QED BY <1>1, FS_EmptySet, Zenon DEF Occurrences, PlacesOf

\* What is appended is counted, and what leaves at the head no more.
LEMMA OccurrencesAppend ==
  ASSUME NEW S, NEW s \in Seq(S), NEW y \in S, NEW x
  PROVE  /\ y = x => Occurrences(Append(s, y), x) = Occurrences(s, x) + 1
         /\ y # x => Occurrences(Append(s, y), x) = Occurrences(s, x)
<1> DEFINE t == Append(s, y)
           P == PlacesOf(s, x)
           n == Len(s) + 1
<1>1. /\ t \in Seq(S) /\ DOMAIN t = 1 .. n /\ DOMAIN s = 1 .. Len(s) /\ Len(s) \in Nat
      /\ t[n] = y /\ \A k \in 1 .. Len(s) : t[k] = s[k]
  BY SMT
<1>2. /\ n \notin 1 .. Len(s) /\ n \in 1 .. n
      /\ \A k : k \in 1 .. n <=> k \in 1 .. Len(s) \/ k = n
  BY <1>1, SMT
<1>3. IsFiniteSet(P) /\ Occurrences(s, x) = Cardinality(P) /\ P \subseteq 1 .. Len(s)
  BY PlacesAreFinite, Zenon
<1>4. Occurrences(t, x) = Cardinality(PlacesOf(t, x))
  BY <1>1, PlacesAreFinite, Zenon
<1> HIDE DEF t, n
<1>5. CASE y = x
  <2>1. PlacesOf(t, x) = P \union {n}
    BY <1>1, <1>2, <1>5, Zenon DEF PlacesOf
  <2>2. n \notin P
    BY <1>2, <1>3, Zenon
  <2> HIDE DEF P
  <2>3. Cardinality(P \union {n}) = Cardinality(P) + 1
    BY <1>3, <2>2, FS_AddElement, Zenon
  <2> QED BY <1>3, <1>4, <1>5, <2>1, <2>3, Zenon DEF t
<1>6. CASE y # x
  <2>1. PlacesOf(t, x) = P
    BY <1>1, <1>2, <1>6, Zenon DEF PlacesOf
  <2> QED BY <1>3, <1>4, <1>6, <2>1, Zenon DEF t
<1> QED BY <1>5, <1>6, Zenon

LEMMA OccurrencesTail ==
  ASSUME NEW S, NEW s \in Seq(S), s # <<>>, NEW x
  PROVE  /\ Head(s) = x => Occurrences(Tail(s), x) = Occurrences(s, x) - 1
         /\ Head(s) # x => Occurrences(Tail(s), x) = Occurrences(s, x)
<1> DEFINE t == Tail(s)
           P == PlacesOf(s, x)
           T == PlacesOf(t, x)
           move == [k \in T |-> k + 1]
<1>1. /\ t \in Seq(S) /\ Len(s) \in Nat /\ Len(t) = Len(s) - 1 /\ Len(t) \in Nat
      /\ DOMAIN t = 1 .. Len(t) /\ DOMAIN s = 1 .. Len(s)
      /\ Head(s) = s[1] /\ 1 \in 1 .. Len(s) /\ \A k \in 1 .. Len(t) : t[k] = s[k + 1]
  BY SMT
<1>2. /\ IsFiniteSet(P) /\ Occurrences(s, x) = Cardinality(P)
      /\ IsFiniteSet(T) /\ Occurrences(t, x) = Cardinality(T)
  BY <1>1, PlacesAreFinite, Zenon
<1> HIDE DEF t
<1>3. ASSUME NEW k \in T
      PROVE  k \in Nat /\ k + 1 \in P \ {1}
  <2>1. k \in 1 .. Len(t) /\ t[k] = x
    BY <1>1, <1>3, Zenon DEF PlacesOf
  <2>2. k \in Nat /\ k + 1 \in 1 .. Len(s) /\ k + 1 # 1
    BY <1>1, <2>1, SMT
  <2> QED BY <1>1, <2>1, <2>2, Zenon DEF PlacesOf
<1>4. ASSUME NEW j \in P \ {1}
      PROVE  \E k \in T : j = k + 1
  <2>1. j \in 1 .. Len(s) /\ s[j] = x /\ j # 1
    BY <1>1, <1>4, Zenon DEF PlacesOf
  <2>2. j - 1 \in 1 .. Len(t) /\ j = (j - 1) + 1
    BY <1>1, <2>1, SMT
  <2>3. j - 1 \in T
    BY <1>1, <2>1, <2>2, Zenon DEF PlacesOf
  <2> QED BY <2>2, <2>3, Zenon
<1> HIDE DEF T, P
<1>5. \A k \in T, l \in T : k + 1 = l + 1 => k = l
  <2> SUFFICES ASSUME NEW k \in T, NEW l \in T, k + 1 = l + 1
               PROVE  k = l
    BY Zenon
  <2>1. k \in Nat /\ l \in Nat
    BY <1>3, Zenon
  <2> QED BY <2>1, SMT
<1>6. move \in [T -> P \ {1}]
  BY <1>3, Zenon
<1>7. move \in Injection(T, P \ {1})
  BY <1>5, <1>6, Zenon DEF Injection, IsInjective
<1>8. move \in Surjection(T, P \ {1})
  <2>1. \A j \in P \ {1} : \E k \in T : move[k] = j
    BY <1>4, Zenon
  <2> HIDE DEF move
  <2> QED BY <1>6, <2>1, Zenon DEF Surjection
<1>9. Cardinality(P \ {1}) = Cardinality(T)
  <2>1. ExistsBijection(T, P \ {1})
    <3> HIDE DEF move
    <3> QED BY <1>7, <1>8, Zenon DEF ExistsBijection, Bijection
  <2> QED BY <1>2, <2>1, FS_Bijection, Zenon
<1>10. 1 \in P <=> Head(s) = x
  BY <1>1, Zenon DEF P, PlacesOf
<1>11. Cardinality(P \ {1}) = IF 1 \in P THEN Cardinality(P) - 1 ELSE Cardinality(P)
  BY <1>2, FS_RemoveElement, Zenon
<1> QED BY <1>2, <1>9, <1>10, <1>11, Zenon DEF t


\* What one element less in the middle of a sequence leaves.
Without(s, i) == SubSeq(s, 1, i - 1) \o SubSeq(s, i + 1, Len(s))

LEMMA WithoutIs ==
  ASSUME NEW S, NEW s \in Seq(S), NEW i \in 1 .. Len(s)
  PROVE  /\ Without(s, i) \in Seq(S) /\ Len(Without(s, i)) = Len(s) - 1
         /\ DOMAIN Without(s, i) = 1 .. Len(s) - 1
         /\ \A k \in 1 .. Len(s) - 1 :
              /\ k < i => Without(s, i)[k] = s[k]
              /\ k >= i => Without(s, i)[k] = s[k + 1]
<1> DEFINE a == SubSeq(s, 1, i - 1)
           b == SubSeq(s, i + 1, Len(s))
<1>1. Len(s) \in Nat /\ i \in Nat /\ 1 <= i /\ i <= Len(s)
  BY SMT
<1>2. /\ a \in Seq(S) /\ Len(a) = i - 1
      /\ \A k \in 1 .. i - 1 : a[k] = s[k]
  BY <1>1, SMT
<1>3. /\ b \in Seq(S) /\ Len(b) = Len(s) - i
      /\ \A k \in 1 .. Len(s) - i : b[k] = s[k + i]
  BY <1>1, SMT
<1>4. Without(s, i) = a \o b
  BY DEF Without
<1> HIDE DEF a, b
<1>5. /\ a \o b \in Seq(S) /\ Len(a \o b) = Len(s) - 1
      /\ DOMAIN (a \o b) = 1 .. Len(s) - 1
  <2>0. a \in Seq(S) /\ b \in Seq(S)
    BY <1>2, <1>3, Zenon
  <2>1. a \o b \in Seq(S) /\ Len(a \o b) = Len(a) + Len(b)
    BY <2>0, SMT
  <2>2. DOMAIN (a \o b) = 1 .. Len(a \o b)
    BY <2>1, SMT
  <2>3. Len(a) + Len(b) = Len(s) - 1
    BY <1>1, <1>2, <1>3, SMT
  <2> QED BY <2>1, <2>2, <2>3, Zenon
<1>6. \A k \in 1 .. Len(s) - 1 : k < i => (a \o b)[k] = s[k]
  BY <1>1, <1>2, <1>3, SMT
<1>7. ASSUME NEW k \in 1 .. Len(s) - 1, k >= i
      PROVE  (a \o b)[k] = s[k + 1]
  <2>1. (a \o b)[k] = b[k - (i - 1)]
    BY <1>1, <1>2, <1>3, <1>7, SMT
  <2>2. k - (i - 1) \in 1 .. Len(s) - i /\ (k - (i - 1)) + i = k + 1
    BY <1>1, <1>7, SMT
  <2> QED BY <1>3, <2>1, <2>2, SMT
<1> QED BY <1>4, <1>5, <1>6, <1>7, Zenon

LEMMA OccurrencesWithout ==
  ASSUME NEW S, NEW s \in Seq(S), NEW i \in 1 .. Len(s), NEW x
  PROVE  /\ s[i] = x => Occurrences(Without(s, i), x) = Occurrences(s, x) - 1
         /\ s[i] # x => Occurrences(Without(s, i), x) = Occurrences(s, x)
<1> DEFINE t == Without(s, i)
           P == PlacesOf(s, x)
           T == PlacesOf(t, x)
           move == [k \in T |-> IF k < i THEN k ELSE k + 1]
<1>1. /\ t \in Seq(S) /\ Len(s) \in Nat /\ i \in Nat /\ i <= Len(s) /\ 1 <= i
      /\ DOMAIN t = 1 .. Len(s) - 1 /\ DOMAIN s = 1 .. Len(s)
  BY WithoutIs, SMT
<1>2. \A k \in 1 .. Len(s) - 1 :
        (k < i => t[k] = s[k]) /\ (k >= i => t[k] = s[k + 1])
  BY WithoutIs, Zenon
<1>3. /\ IsFiniteSet(P) /\ Occurrences(s, x) = Cardinality(P)
      /\ IsFiniteSet(T) /\ Occurrences(t, x) = Cardinality(T)
  BY <1>1, PlacesAreFinite, Zenon
<1> HIDE DEF t
<1>4. ASSUME NEW k \in T
      PROVE  k \in Nat /\ move[k] \in P \ {i}
  <2>1. k \in 1 .. Len(s) - 1 /\ t[k] = x
    BY <1>1, <1>4, Zenon DEF PlacesOf
  <2>2. CASE k < i
    <3>1. k \in Nat /\ k \in 1 .. Len(s) /\ k # i
      BY <1>1, <2>1, <2>2, SMT
    <3> QED BY <1>1, <1>2, <2>1, <2>2, <3>1, Zenon DEF PlacesOf
  <2>3. CASE ~(k < i)
    <3>1. k \in Nat /\ k + 1 \in 1 .. Len(s) /\ k + 1 # i /\ k >= i
      BY <1>1, <2>1, <2>3, SMT
    <3> QED BY <1>1, <1>2, <2>1, <2>3, <3>1, Zenon DEF PlacesOf
  <2> QED BY <2>2, <2>3, Zenon
<1>5. ASSUME NEW j \in P \ {i}
      PROVE  \E k \in T : j = move[k]
  <2>1. j \in 1 .. Len(s) /\ s[j] = x /\ j # i
    BY <1>1, <1>5, Zenon DEF PlacesOf
  <2>2. CASE j < i
    <3>1. j \in 1 .. Len(s) - 1
      BY <1>1, <2>1, <2>2, SMT
    <3>2. j \in T
      BY <1>1, <1>2, <2>1, <2>2, <3>1, Zenon DEF PlacesOf
    <3> QED BY <2>2, <3>2, Zenon
  <2>3. CASE ~(j < i)
    <3> DEFINE k == j - 1
    <3>1. k \in 1 .. Len(s) - 1 /\ k >= i /\ ~(k < i) /\ k + 1 = j
      BY <1>1, <2>1, <2>3, SMT
    <3> HIDE DEF k
    <3>2. k \in T
      BY <1>1, <1>2, <2>1, <3>1, Zenon DEF PlacesOf
    <3> QED BY <3>1, <3>2, Zenon
  <2> QED BY <2>2, <2>3, Zenon
<1>6. \A k \in T, l \in T : move[k] = move[l] => k = l
  <2> SUFFICES ASSUME NEW k \in T, NEW l \in T, move[k] = move[l]
               PROVE  k = l
    BY Zenon
  <2>1. k \in Nat /\ l \in Nat
    BY <1>4, Zenon
  <2>2. (IF k < i THEN k ELSE k + 1) = IF l < i THEN l ELSE l + 1
    BY Zenon
  <2> QED BY <1>1, <2>1, <2>2, SMT
<1>7. move \in [T -> P \ {i}]
  BY <1>4, Zenon
<1> HIDE DEF T, P
<1>8. move \in Injection(T, P \ {i}) /\ move \in Surjection(T, P \ {i})
  <2>1. \A j \in P \ {i} : \E k \in T : move[k] = j
    BY <1>5, Zenon
  <2> HIDE DEF move
  <2> QED BY <1>6, <1>7, <2>1, Zenon DEF Injection, IsInjective, Surjection
<1>9. Cardinality(P \ {i}) = Cardinality(T)
  <2>1. ExistsBijection(T, P \ {i})
    <3> HIDE DEF move
    <3> QED BY <1>8, Zenon DEF ExistsBijection, Bijection
  <2> QED BY <1>3, <2>1, FS_Bijection, Zenon
<1>10. i \in P <=> s[i] = x
  BY <1>1, Zenon DEF P, PlacesOf
<1>11. Cardinality(P \ {i}) = IF i \in P THEN Cardinality(P) - 1 ELSE Cardinality(P)
  BY <1>3, FS_RemoveElement, Zenon
<1> QED BY <1>3, <1>9, <1>10, <1>11, Zenon DEF t

-----------------------------------------------------------------------------
(* How many elements of a sequence are in a set *)

One(b) == IF b THEN 1 ELSE 0
Marks(s, P) == [k \in DOMAIN s |-> One(s[k] \in P)]
HowMany(s, P) == Occurrences(Marks(s, P), 1)

LEMMA OneIs ==
  ASSUME NEW b
  PROVE  One(b) \in {0, 1} /\ (b => One(b) = 1) /\ (~b => One(b) = 0) /\ (One(b) = 1 => b)
<1>1. 1 # 0
  BY SMT
<1> QED BY <1>1, Zenon DEF One

LEMMA SameSequence ==
  ASSUME NEW S, NEW a \in Seq(S), NEW b \in Seq(S), Len(a) = Len(b),
         \A k \in 1 .. Len(a) : a[k] = b[k]
  PROVE  a = b
BY SMT

LEMMA MarksAre ==
  ASSUME NEW S, NEW s \in Seq(S), NEW P
  PROVE  /\ Marks(s, P) \in Seq({0, 1}) /\ Len(Marks(s, P)) = Len(s)
         /\ Len(s) \in Nat /\ \A k \in 1 .. Len(s) : Marks(s, P)[k] = One(s[k] \in P)
<1>1. DOMAIN s = 1 .. Len(s) /\ Len(s) \in Nat
  BY SMT
<1>2. /\ Marks(s, P) \in [1 .. Len(s) -> {0, 1}]
      /\ \A k \in 1 .. Len(s) : Marks(s, P)[k] = One(s[k] \in P)
  BY <1>1, OneIs, Zenon DEF Marks
<1> HIDE DEF Marks
<1>3. Marks(s, P) \in Seq({0, 1}) /\ Len(Marks(s, P)) = Len(s)
  BY <1>1, <1>2, SMT
<1> QED BY <1>1, <1>2, <1>3, Zenon

LEMMA HowManyIs ==
  ASSUME NEW S, NEW s \in Seq(S), NEW P
  PROVE  /\ HowMany(s, P) \in Nat
         /\ HowMany(s, P) = 0 <=> \A k \in 1 .. Len(s) : s[k] \notin P
<1>1. /\ Marks(s, P) \in Seq({0, 1}) /\ Len(Marks(s, P)) = Len(s)
      /\ \A k \in 1 .. Len(s) : Marks(s, P)[k] = One(s[k] \in P)
  BY MarksAre, Zenon
<1>2. DOMAIN Marks(s, P) = 1 .. Len(s)
  BY <1>1, SMT
<1> DEFINE H == PlacesOf(Marks(s, P), 1)
<1>3. IsFiniteSet(H) /\ HowMany(s, P) = Cardinality(H)
  BY <1>1, PlacesAreFinite, Zenon DEF HowMany
<1>4. H = {} <=> \A k \in 1 .. Len(s) : s[k] \notin P
  <2>1. \A k : k \in H <=> k \in 1 .. Len(s) /\ Marks(s, P)[k] = 1
    BY <1>2, Zenon DEF PlacesOf
  <2> HIDE DEF H
  <2>2. \A k \in 1 .. Len(s) : One(s[k] \in P) = 1 <=> s[k] \in P
    <3>1. 1 # 0
      BY SMT
    <3> QED BY <3>1, Zenon DEF One
  <2>3. \A k \in 1 .. Len(s) : k \in H <=> s[k] \in P
    BY <1>1, <2>1, <2>2, Zenon
  <2>4. \A k : k \in H => k \in 1 .. Len(s)
    BY <2>1, Zenon
  <2> QED BY <2>3, <2>4, Zenon
<1> HIDE DEF H
<1> QED BY <1>3, <1>4, FS_CardinalityType, FS_EmptySet, Zenon

LEMMA HowManyOfNone ==
  ASSUME NEW P
  PROVE  HowMany(<<>>, P) = 0
<1>1. Marks(<<>>, P) = <<>>
  BY SMT DEF Marks
<1> QED BY <1>1, OccurrencesInNone, Zenon DEF HowMany

\* From occurrences of a mark to elements.
LEMMA MarkMore ==
  ASSUME NEW a \in Nat, NEW c \in Nat, NEW b \in {0, 1}, b = 1 => c = a + 1, b # 1 => c = a
  PROVE  c = a + b
BY SMT

LEMMA MarkLess ==
  ASSUME NEW a \in Nat, NEW c \in Nat, NEW b \in {0, 1}, b = 1 => c = a - 1, b # 1 => c = a
  PROVE  c + b = a
BY SMT

LEMMA HowManyAppend ==
  ASSUME NEW S, NEW s \in Seq(S), NEW y \in S, NEW P
  PROVE  HowMany(Append(s, y), P) = HowMany(s, P) + One(y \in P)
<1>1. PICK t \in Seq(S) : t = Append(s, y)
  <2>1. Append(s, y) \in Seq(S)
    BY SMT
  <2> QED BY <2>1, Zenon
<1>2. /\ Len(t) = Len(s) + 1 /\ Len(s) \in Nat
      /\ t[Len(s) + 1] = y /\ \A k \in 1 .. Len(s) : t[k] = s[k]
  BY <1>1, SMT
<1>3. PICK b \in {0, 1} : b = One(y \in P)
  BY OneIs, Zenon
<1>4. PICK u \in Seq({0, 1}) : u = Marks(s, P)
  BY MarksAre, Zenon
<1>5. PICK v \in Seq({0, 1}) : v = Marks(t, P)
  BY MarksAre, Zenon
<1>6. /\ Len(u) = Len(s) /\ \A k \in 1 .. Len(s) : u[k] = One(s[k] \in P)
      /\ Len(v) = Len(t) /\ \A k \in 1 .. Len(t) : v[k] = One(t[k] \in P)
  BY <1>4, <1>5, MarksAre, Zenon
<1>7. v = Append(u, b)
  <2>1. PICK w \in Seq({0, 1}) : w = Append(u, b)
    <3>1. Append(u, b) \in Seq({0, 1})
      BY SMT
    <3> QED BY <3>1, Zenon
  <2>2. /\ Len(w) = Len(v)
        /\ w[Len(s) + 1] = b /\ \A k \in 1 .. Len(s) : w[k] = u[k]
    BY <1>2, <1>6, <2>1, SMT
  <2>3. /\ \A k \in 1 .. Len(v) : k \in 1 .. Len(s) \/ k = Len(s) + 1
        /\ Len(s) + 1 \in 1 .. Len(t) /\ \A k \in 1 .. Len(s) : k \in 1 .. Len(t)
    BY <1>2, <1>6, SMT
  <2>4. \A k \in 1 .. Len(v) : v[k] = w[k]
    BY <1>2, <1>3, <1>6, <2>2, <2>3, Zenon
  <2> QED BY <2>1, <2>2, <2>4, SameSequence, Zenon
<1>8. Occurrences(u, 1) \in Nat /\ Occurrences(v, 1) \in Nat
  BY PlacesAreFinite, Zenon
<1>9. /\ b = 1 => Occurrences(Append(u, b), 1) = Occurrences(u, 1) + 1
      /\ b # 1 => Occurrences(Append(u, b), 1) = Occurrences(u, 1)
  BY OccurrencesAppend, Zenon
<1>10. Occurrences(v, 1) = Occurrences(u, 1) + b
  BY <1>7, <1>8, <1>9, MarkMore, Zenon
<1> QED BY <1>1, <1>3, <1>4, <1>5, <1>10, Zenon DEF HowMany

LEMMA HowManyTail ==
  ASSUME NEW S, NEW s \in Seq(S), s # <<>>, NEW P
  PROVE  HowMany(Tail(s), P) + One(Head(s) \in P) = HowMany(s, P)
<1>1. PICK t \in Seq(S) : t = Tail(s)
  <2>1. Tail(s) \in Seq(S)
    BY SMT
  <2> QED BY <2>1, Zenon
<1>2. /\ Len(t) = Len(s) - 1 /\ Len(s) \in Nat /\ Len(s) > 0
      /\ Head(s) = s[1] /\ \A k \in 1 .. Len(t) : t[k] = s[k + 1]
  BY <1>1, SMT
<1>3. PICK b \in {0, 1} : b = One(Head(s) \in P)
  BY OneIs, Zenon
<1>4. PICK u \in Seq({0, 1}) : u = Marks(s, P)
  BY MarksAre, Zenon
<1>5. PICK v \in Seq({0, 1}) : v = Marks(t, P)
  BY MarksAre, Zenon
<1>6. /\ Len(u) = Len(s) /\ \A k \in 1 .. Len(s) : u[k] = One(s[k] \in P)
      /\ Len(v) = Len(t) /\ \A k \in 1 .. Len(t) : v[k] = One(t[k] \in P)
  BY <1>4, <1>5, MarksAre, Zenon
<1>7. 1 \in 1 .. Len(s) /\ \A k \in 1 .. Len(t) : k + 1 \in 1 .. Len(s)
  BY <1>2, SMT
<1>8. u # <<>> /\ Head(u) = b
  <2>1. u # <<>> /\ Head(u) = u[1]
    BY <1>2, <1>6, SMT
  <2> QED BY <1>2, <1>3, <1>6, <1>7, <2>1, Zenon
<1>9. v = Tail(u)
  <2>1. PICK w \in Seq({0, 1}) : w = Tail(u)
    <3>1. Tail(u) \in Seq({0, 1})
      BY <1>8, SMT
    <3> QED BY <3>1, Zenon
  <2>2. /\ Len(w) = Len(v)
        /\ \A k \in 1 .. Len(v) : w[k] = u[k + 1]
    BY <1>2, <1>6, <1>8, <2>1, SMT
  <2>3. \A k \in 1 .. Len(v) : v[k] = w[k]
    BY <1>2, <1>6, <1>7, <2>2, ZenonT(40)
  <2> QED BY <2>1, <2>2, <2>3, SameSequence, Zenon
<1>10. Occurrences(u, 1) \in Nat /\ Occurrences(v, 1) \in Nat
  BY PlacesAreFinite, Zenon
<1>11. /\ Head(u) = 1 => Occurrences(Tail(u), 1) = Occurrences(u, 1) - 1
       /\ Head(u) # 1 => Occurrences(Tail(u), 1) = Occurrences(u, 1)
  BY <1>8, OccurrencesTail, Zenon
<1>12. Occurrences(v, 1) + b = Occurrences(u, 1)
  BY <1>8, <1>9, <1>10, <1>11, MarkLess, Zenon
<1> QED BY <1>1, <1>3, <1>4, <1>5, <1>12, Zenon DEF HowMany

LEMMA HowManyWithout ==
  ASSUME NEW S, NEW s \in Seq(S), NEW i \in 1 .. Len(s), NEW P
  PROVE  HowMany(Without(s, i), P) + One(s[i] \in P) = HowMany(s, P)
<1>1. PICK t \in Seq(S) : t = Without(s, i)
  BY WithoutIs, Zenon
<1>2. /\ Len(t) = Len(s) - 1 /\ Len(s) \in Nat
      /\ \A k \in 1 .. Len(s) - 1 :
           (k < i => t[k] = s[k]) /\ (k >= i => t[k] = s[k + 1])
  <2>1. Len(s) \in Nat
    BY SMT
  <2>2. /\ Len(Without(s, i)) = Len(s) - 1
        /\ \A k \in 1 .. Len(s) - 1 :
             (k < i => Without(s, i)[k] = s[k]) /\ (k >= i => Without(s, i)[k] = s[k + 1])
    BY WithoutIs, Zenon
  <2> QED BY <1>1, <2>1, <2>2, Zenon
<1>3. PICK b \in {0, 1} : b = One(s[i] \in P)
  BY OneIs, Zenon
<1>4. PICK u \in Seq({0, 1}) : u = Marks(s, P)
  BY MarksAre, Zenon
<1>5. PICK v \in Seq({0, 1}) : v = Marks(t, P)
  BY MarksAre, Zenon
<1>6. /\ Len(u) = Len(s) /\ \A k \in 1 .. Len(s) : u[k] = One(s[k] \in P)
      /\ Len(v) = Len(t) /\ \A k \in 1 .. Len(t) : v[k] = One(t[k] \in P)
  BY <1>4, <1>5, MarksAre, Zenon
<1>7. i \in 1 .. Len(u) /\ u[i] = b
  BY <1>3, <1>6, Zenon
<1>8. v = Without(u, i)
  <2>1. PICK w \in Seq({0, 1}) : w = Without(u, i)
    BY <1>7, WithoutIs, Zenon
  <2>2. /\ Len(w) = Len(u) - 1
        /\ \A k \in 1 .. Len(u) - 1 :
             (k < i => w[k] = u[k]) /\ (k >= i => w[k] = u[k + 1])
    BY <1>7, <2>1, WithoutIs, Zenon
  <2>3. \A k \in 1 .. Len(v) :
          /\ k \in 1 .. Len(s) - 1 /\ k \in 1 .. Len(u) - 1 /\ k \in 1 .. Len(t)
          /\ k \in 1 .. Len(s) /\ k + 1 \in 1 .. Len(s) /\ (k < i \/ k >= i)
    BY <1>2, <1>6, SMT
  <2>4. ASSUME NEW k \in 1 .. Len(v)
        PROVE  v[k] = w[k]
    <3>1. CASE k < i
      BY <1>2, <1>6, <2>2, <2>3, <2>4, <3>1, ZenonT(40)
    <3>2. CASE k >= i
      BY <1>2, <1>6, <2>2, <2>3, <2>4, <3>2, ZenonT(40)
    <3> QED BY <2>3, <3>1, <3>2, Zenon
  <2>5. Len(v) = Len(w)
    BY <1>2, <1>6, <2>2, Zenon
  <2> QED BY <2>1, <2>4, <2>5, SameSequence, Zenon
<1>9. Occurrences(u, 1) \in Nat /\ Occurrences(v, 1) \in Nat
  BY PlacesAreFinite, Zenon
<1>10. /\ u[i] = 1 => Occurrences(Without(u, i), 1) = Occurrences(u, 1) - 1
       /\ u[i] # 1 => Occurrences(Without(u, i), 1) = Occurrences(u, 1)
  BY <1>7, OccurrencesWithout, Zenon
<1>11. Occurrences(v, 1) + b = Occurrences(u, 1)
  BY <1>7, <1>8, <1>9, <1>10, MarkLess, Zenon
<1> QED BY <1>1, <1>3, <1>4, <1>5, <1>11, Zenon DEF HowMany

-----------------------------------------------------------------------------
(* Sums that change in one term *)

Summed(F, n) == n \in [F -> Nat] /\ IsFiniteSet(Cells(F, n))

LEMMA SummedIs ==
  ASSUME NEW F, NEW n, Summed(F, n)
  PROVE  /\ Total(F, n) \in Nat
         /\ Total(F, n) = 0 <=> \A f \in F : n[f] = 0
BY NumberedIs, CellsEmpty, Zenon DEF Summed, Total, Numbered

LEMMA SummedNone ==
  ASSUME NEW F, NEW n \in [F -> Nat], \A f \in F : n[f] = 0
  PROVE  Summed(F, n) /\ Total(F, n) = 0
BY CellsNone, Zenon DEF Summed, Total

\* From n to m only the term of f changes: it grows or shrinks by d.
Differs(F, f, n, m, d) ==
  /\ Summed(F, n) /\ m \in [F -> Nat] /\ f \in F /\ d \in {0, 1}
  /\ \A g \in F \ {f} : m[g] = n[g]
Grows(F, f, n, m, d) == Differs(F, f, n, m, d) /\ m[f] = n[f] + d
Shrinks(F, f, n, m, d) == Differs(F, f, n, m, d) /\ m[f] + d = n[f]

LEMMA OneTermUp ==
  ASSUME NEW F, NEW n, NEW m, NEW f, NEW d, Grows(F, f, n, m, d)
  PROVE  Summed(F, m) /\ Total(F, m) = Total(F, n) + d
<1>1. /\ Total(F, n) \in Nat /\ n \in [F -> Nat] /\ IsFiniteSet(Cells(F, n)) /\ f \in F
      /\ m[f] = n[f] + d /\ \A g \in F \ {f} : m[g] = n[g]
      /\ m \in [F -> Nat] /\ d \in {0, 1}
  <2>1. Summed(F, n) /\ Differs(F, f, n, m, d)
    BY Zenon DEF Differs, Grows
  <2> QED BY <2>1, SummedIs, Zenon DEF Summed, Differs, Grows
<1>2. n[f] \in Nat
  BY <1>1, Zenon
<1>3. CASE d = 1
  <2>1. m = [n EXCEPT ![f] = n[f] + 1]
    BY <1>1, <1>3, Zenon
  <2>2. Numbered(F, n)
    BY <1>1, NumberedIs, Zenon DEF Numbered
  <2>3. /\ IsFiniteSet(Cells(F, [n EXCEPT ![f] = n[f] + 1]))
        /\ Cardinality(Cells(F, [n EXCEPT ![f] = n[f] + 1])) = Cardinality(Cells(F, n)) + 1
    BY <1>1, <2>2, CellsMore, Zenon
  <2> QED BY <1>1, <1>3, <2>1, <2>3, Zenon DEF Summed, Total
<1>4. CASE d = 0
  <2>1. n[f] + 0 = n[f] /\ Total(F, n) + 0 = Total(F, n)
    BY <1>1, <1>2, SMT
  <2>2. \A g \in F : m[g] = n[g]
    BY <1>1, <1>4, <2>1, Zenon
  <2>3. m = n
    BY <1>1, <2>2, SMT
  <2>4. Summed(F, n)
    BY <1>1, Zenon DEF Summed
  <2> QED BY <1>4, <2>1, <2>3, <2>4, Zenon
<1> QED BY <1>1, <1>3, <1>4, Zenon

LEMMA OneTermDown ==
  ASSUME NEW F, NEW n, NEW m, NEW f, NEW d, Shrinks(F, f, n, m, d)
  PROVE  Summed(F, m) /\ Total(F, m) + d = Total(F, n)
<1>1. /\ Total(F, n) \in Nat /\ n \in [F -> Nat] /\ IsFiniteSet(Cells(F, n)) /\ f \in F
      /\ m[f] + d = n[f] /\ \A g \in F \ {f} : m[g] = n[g]
      /\ m \in [F -> Nat] /\ d \in {0, 1}
  <2>1. Summed(F, n) /\ Differs(F, f, n, m, d)
    BY Zenon DEF Differs, Shrinks
  <2> QED BY <2>1, SummedIs, Zenon DEF Summed, Differs, Shrinks
<1>2. n[f] \in Nat /\ m[f] \in Nat
  BY <1>1, Zenon
<1>3. CASE d = 1
  <2>1. m[f] = n[f] - 1 /\ n[f] > 0
    BY <1>1, <1>2, <1>3, SMT
  <2>2. m = [n EXCEPT ![f] = n[f] - 1]
    BY <1>1, <2>1, Zenon
  <2>3. Numbered(F, n)
    BY <1>1, NumberedIs, Zenon DEF Numbered
  <2>4. /\ IsFiniteSet(Cells(F, [n EXCEPT ![f] = n[f] - 1]))
        /\ Cardinality(Cells(F, [n EXCEPT ![f] = n[f] - 1])) = Cardinality(Cells(F, n)) - 1
    BY <1>1, <2>1, <2>3, CellsLess, Zenon
  <2>5. Summed(F, m) /\ Total(F, m) = Total(F, n) - 1
    BY <1>1, <2>2, <2>4, Zenon DEF Summed, Total
  <2>6. (Total(F, n) - 1) + 1 = Total(F, n)
    BY <1>1, SMT
  <2> QED BY <1>3, <2>5, <2>6, Zenon
<1>4. CASE d = 0
  <2>1. m[f] + 0 = m[f] /\ Total(F, n) + 0 = Total(F, n)
    BY <1>1, <1>2, SMT
  <2>2. \A g \in F : m[g] = n[g]
    BY <1>1, <1>4, <2>1, Zenon
  <2>3. m = n
    BY <1>1, <2>2, SMT
  <2>4. Summed(F, n)
    BY <1>1, Zenon DEF Summed
  <2> QED BY <1>4, <2>1, <2>3, <2>4, Zenon
<1> QED BY <1>1, <1>3, <1>4, Zenon
=============================================================================
