----------------------------- MODULE Selection -----------------------------
(***************************************************************************)
(* The elements of a sequence that a loop picks out of it, one after the   *)
(* other, given by their positions.                                        *)
(***************************************************************************)
EXTENDS Naturals, Sequences, FiniteSets

(* The elements of I up to i, and the k-th element of I.                   *)
UpTo(I, i) == {j \in I : j <= i}
Nth(I, k) == CHOOSE i \in I : Cardinality(UpTo(I, i)) = k

(* s without the elements that are not at a position in I.                 *)
Selected(s, I) == [k \in 1..Cardinality(I) |-> s[Nth(I, k)]]

(* The same, the last one first.                                           *)
SelectedBack(s, I) ==
    LET n == Cardinality(I) IN [k \in 1..n |-> s[Nth(I, n + 1 - k)]]
=============================================================================
