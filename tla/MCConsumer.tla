----------------------------- MODULE MCConsumer -----------------------------
(***************************************************************************)
(* Small instances of Consumer for TLC.                                    *)
(***************************************************************************)
EXTENDS Consumer, TLC

CONSTANTS j1, j2, r1

\* Two jobs that compete for one run.
SameRun == [j \in Jobs |-> r1]

\* A job with a run, and one of a type that takes no lock.
Mixed == [j \in Jobs |-> IF j = j1 THEN r1 ELSE NoRun]

Interchangeable == Permutations(Workers)
=============================================================================
