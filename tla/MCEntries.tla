------------------------------- MODULE MCEntries --------------------------------
(***************************************************************************)
(* Entries for TLC: the calls to make, and the symmetry of goroutines and  *)
(* pool objects.                                                           *)
(***************************************************************************)
EXTENDS Entries, TLC

\* An entry with fields, a fatal one by WithContext, and an io.Writer.
CallShapes ==
    {[level |-> 1, kind |-> "log", fields |-> TRUE],
     [level |-> 2, kind |-> "with", fields |-> FALSE],
     [level |-> 1, kind |-> "writer", fields |-> FALSE]}

\* The same with an entry by With that has fields and is not fatal.
ReuseShapes ==
    {[level |-> 1, kind |-> "log", fields |-> TRUE],
     [level |-> 1, kind |-> "with", fields |-> TRUE],
     [level |-> 1, kind |-> "writer", fields |-> FALSE]}

Sym == Permutations(Procs) \cup Permutations(Objects)
================================================================================
