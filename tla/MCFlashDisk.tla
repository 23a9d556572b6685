---------------------------- MODULE MCFlashDisk ----------------------------
(***************************************************************************)
(* FlashDisk for TLC: the values of pages are interchangeable.             *)
(***************************************************************************)
EXTENDS FlashDisk, TLC

Symmetry == Permutations(Val)

=============================================================================
