------------------------------ MODULE Selection ------------------------------
(***************************************************************************)
(* Taking elements out of a sequence while the others keep their order      *)
(* (WriteOperationService's queue_.erase() of the superseded operations).   *)
(***************************************************************************)
EXTENDS Naturals, Sequences

\* f lists the positions in K, in increasing order.
Lists(f, K) ==
  /\ {f[i] : i \in DOMAIN f} = K
  /\ \A i, j \in DOMAIN f : i < j => f[i] < f[j]

\* The sequences that list the positions in K of a sequence of length n: one.
Listings(n, K) ==
  {f \in UNION {[1..m -> 1..n] : m \in 0..n} : Lists(f, K)}

\* The elements of s at the positions that f lists.
Pick(s, f) == [i \in DOMAIN f |-> s[f[i]]]
=============================================================================
