---------------------------- MODULE RingArguments ----------------------------
(***************************************************************************)
(* The arguments of both versions of the ring, inf19-0.c and inf19-3.c.    *)
(***************************************************************************)
EXTENDS Integers

CONSTANTS Count,        \* threads_count, argv[2]
          Iterations    \* iteration_count, argv[1]

ASSUME CountAssumption == Count \in Nat \ {0}
ASSUME IterationsAssumption == Iterations \in Nat
=============================================================================
