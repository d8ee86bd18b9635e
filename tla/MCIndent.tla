-------------------------------- MODULE MCIndent --------------------------------
(***************************************************************************)
(* Model checking of the indentation preprocessor over every source of up  *)
(* to MaxLines lines: blank lines, the margin, an odd column and three     *)
(* depths, so that lines go deeper by more than a level, fall back by      *)
(* several and fall back to columns never opened.                          *)
(***************************************************************************)
EXTENDS Indent

CONSTANT MaxLines

Columns == {Skipped, 0, 1, 2, 4, 6}
AllSources == UNION {[1..n -> Columns] : n \in 0..MaxLines}

\* TLC keeps the value of a definition that no .cfg names.
SmallSources == AllSources
=============================================================================
