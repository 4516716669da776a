----------------------------- MODULE Selections -----------------------------
(***************************************************************************)
(* Subsequences by position: what Vec::retain keeps of a vector, what a    *)
(* reader keeps of a file's lines.  SelectSeq of the standard module says  *)
(* the same of a test on the elements; TLAPS knows nothing about it.       *)
(***************************************************************************)
EXTENDS Naturals, FiniteSets

(* The numbers of a finite set in increasing order: the i-th is the one    *)
(* that has i of them up to it.                                            *)
Ascending(P) ==
  [i \in 1 .. Cardinality(P) |-> CHOOSE p \in P : Cardinality({q \in P : q <= p}) = i]

(* The elements of s at the positions P, in the order of s.                *)
SelectAt(s, P) ==
  LET order == Ascending(P) IN [i \in 1 .. Cardinality(P) |-> s[order[i]]]
=============================================================================
