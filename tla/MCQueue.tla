------------------------------ MODULE MCQueue ------------------------------
(* QueueList for TLC: data that callers do not tell apart otherwise.       *)
EXTENDS QueueList, TLC

Interchangeable == Permutations(Data)
=============================================================================
