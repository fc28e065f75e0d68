----------------------------- MODULE MCRunSlots -----------------------------
(***************************************************************************)
(* Small instances of RunSlots for TLC.  The runs differ only in who       *)
(* creates them.                                                           *)
(***************************************************************************)
EXTENDS RunSlots, TLC

RunSymmetry == Permutations(Runs)
=============================================================================
