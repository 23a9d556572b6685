--------------------------- MODULE MCKernelLive ---------------------------
(***************************************************************************)
(* The threads render and main over the idle thread, in the order of their *)
(* priorities in startup_app.cpp, and a spare control block for a thread   *)
(* one of them calls.                                                      *)
(***************************************************************************)
EXTENDS KernelLive

CONSTANTS render, main

MCBoot == <<render, main>>

MCBootPrio == [t \in {render, main} |-> IF t = render THEN 0 ELSE 1]

=============================================================================
