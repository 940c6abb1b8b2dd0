---------------------------- MODULE MCInvocation ----------------------------
(* Invocation with two signals: one that cancels and one that forces, or one  *)
(* of them too late for either.                                              *)
EXTENDS Invocation

TwoSignals == 2
=============================================================================
