----------------------------- MODULE MCMultiWriter -----------------------------
(* MultiWriter for TLC: lists of two and with a writer twice, and a third      *)
(* writer to add; goroutines are interchangeable.                             *)
EXTENDS MultiWriter

CONSTANTS w1, w2

MCLists == {<<w1, w2>>, <<w1, w2, w1>>}

Sym == Permutations(Procs)
================================================================================
