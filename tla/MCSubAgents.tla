----------------------------- MODULE MCSubAgents -----------------------------
(***************************************************************************)
(* A small instance of SubAgents for TLC.  The parent's calls are          *)
(* interchangeable.                                                        *)
(***************************************************************************)
EXTENDS SubAgents, TLC

CallSymmetry == Permutations(Calls)
=============================================================================
