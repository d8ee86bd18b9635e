-------------------------------- MODULE Synthesis --------------------------------
(***************************************************************************)
(* Bodies made from postconditions, crates/nous-verify/src/synthesize.rs:  *)
(* an ensure `result == e` or `e == result` gives the body e; of several,  *)
(* the last.  Clauses on `result.name` give no body by themselves: a tuple *)
(* would need names that are numbers, which the grammar has none of, and   *)
(* records are not built.  The other ensures are not looked at.            *)
(* Expressions are those of module Compiler.                               *)
(***************************************************************************)
EXTENDS Integers, Sequences

\* classify_result_ref
IsWhole(e) == e.k = "ident" /\ e.name = "result"
IsPart(e) == e.k = "field" /\ IsWhole(e.object)

\* extract_equality: the left side is looked at first.
AssignsRight(e) == IsWhole(e.left)
AssignsLeft(e) == ~IsWhole(e.left) /\ ~IsPart(e.left) /\ IsWhole(e.right)
Assigning(ensures) ==
  {i \in DOMAIN ensures : ensures[i].k = "bin" /\ ensures[i].op = "Eq"
                            /\ (AssignsRight(ensures[i]) \/ AssignsLeft(ensures[i]))}

\* Mutant: the left side, whichever names the result.
SynthesizeLeft(ensures) ==
  LET last == {i \in Assigning(ensures) : \A j \in Assigning(ensures) : j <= i}
  IN  {ensures[i].left : i \in last}

\* synthesize_from_contract: the set of the body, empty if there is none.
Synthesize(ensures) ==
  LET last == {i \in Assigning(ensures) : \A j \in Assigning(ensures) : j <= i}
  IN  {IF AssignsRight(ensures[i]) THEN ensures[i].right ELSE ensures[i].left : i \in last}
=============================================================================
