---------------------------- MODULE MCCartridges ----------------------------
(***************************************************************************)
(* A small instance of Cartridges for TLC.                                 *)
(***************************************************************************)
EXTENDS Cartridges, TLC

\* Codes and batches are interchangeable.
Symmetry == Permutations(Code) \cup Permutations(Report) \cup Permutations(Cartridge)
=============================================================================
