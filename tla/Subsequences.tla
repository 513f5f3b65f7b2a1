----------------------------- MODULE Subsequences -----------------------------
(***************************************************************************)
(* The part of a sequence that lies at some of its places, in their order. *)
(* SelectSeq says the same of a test on the elements, and is a built-in    *)
(* operator that the provers know nothing of.                              *)
(***************************************************************************)
EXTENDS Naturals, FiniteSets, Sequences

\* The k-th of a set of places.
Nth(places, k) == CHOOSE i \in places : Cardinality({j \in places : j <= i}) = k

Selected(q, places) == [k \in 1 .. Cardinality(places) |-> q[Nth(places, k)]]
=============================================================================
