---------------------------- MODULE Subsequences ----------------------------
(***************************************************************************)
(* What a loop that copies some elements of a slice into another leaves    *)
(* in it.  The clients of the task runner and the conclusion filter their  *)
(* slices so; it is said here without recursion, so that it can be         *)
(* reasoned about.                                                         *)
(***************************************************************************)
EXTENDS Naturals, FiniteSets

\* What the sequence s holds at these positions, in its order.
Kept(s, at) ==
  LET nth(n) == CHOOSE i \in at : Cardinality({j \in at : j <= i}) = n
  IN [n \in 1 .. Cardinality(at) |-> s[nth(n)]]
=============================================================================
