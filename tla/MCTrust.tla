--------------------------------- MODULE MCTrust ---------------------------------
(***************************************************************************)
(* Model checking of trust propagation over three functions: every call    *)
(* graph with self-calls and cycles, one of the functions calling a        *)
(* builtin or not, and every declaration of three of the levels.           *)
(***************************************************************************)
EXTENDS Trust

CONSTANT Printer    \* the function that may call a builtin

AllGraphs ==
  {c \in [Fns -> SUBSET (Fns \cup Builtins)] : \A fn \in Fns \ {Printer} : c[fn] \subseteq Fns}
=============================================================================
