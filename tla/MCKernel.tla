------------------------------ MODULE MCKernel ------------------------------
(***************************************************************************)
(* The kernel for TLC.  VM_SYS_THREAD is the idle thread; the other control *)
(* blocks are interchangeable.                                             *)
(***************************************************************************)
EXTENDS Kernel, TLC

Symmetry == Permutations(Thread \ {Idle})

=============================================================================
