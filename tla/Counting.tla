------------------------------ MODULE Counting ------------------------------
(***************************************************************************)
(* Sums of numbers of things, written as numbers of pairs: what the        *)
(* properties of the queues and timers of several components count.        *)
(***************************************************************************)
EXTENDS Naturals, Sequences, FiniteSets

\* The things of the keys of F, when key f has n[f] of them.
Cells(F, n) == UNION {{f} \X (1 .. n[f]) : f \in F}

\* How many they are: the sum of n over F.
Total(F, n) == Cardinality(Cells(F, n))

\* How often x is in the sequence s.
Occurrences(s, x) == Cardinality({k \in DOMAIN s : s[k] = x})
=============================================================================
