----------------------------- MODULE MCAsyncBuffer -----------------------------
(* Instances of AsyncBuffer for TLC; the constants are in the .cfg files.   *)
EXTENDS AsyncBuffer, TLC

\* Producers are interchangeable in the safety runs.
Sym == Permutations(Producers)

================================================================================
