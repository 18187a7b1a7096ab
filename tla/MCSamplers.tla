------------------------------- MODULE MCSamplers -------------------------------
(* Samplers for TLC: goroutines are interchangeable.                          *)
EXTENDS Samplers, TLC

Sym == Permutations(Procs)
================================================================================
