---------------------------------- MODULE MCLsp ----------------------------------
(***************************************************************************)
(* The language server with two documents and three texts: one with an     *)
(* error of types and a finding of the verifier, one that does not parse,  *)
(* and one refuted by the verifier, with a wide sign in its line, on which *)
(* hovers may panic.                                                       *)
(***************************************************************************)
EXTENDS Lsp

ParsesIn(t) == t # "broken"
TypeErrorsIn(t) == IF t = "wrong" THEN {"mismatch"} ELSE {}
VerifyErrorsIn(t) == IF t = "wide" THEN {"refuted"} ELSE {}
VerifyFindingsIn(t) == {"W301"}
\* A word with a wide sign in it, and a line of two words above a lone sign.
LinesOf(t) ==
  IF t = "wide" THEN << <<"letter", "wide sign", "tail", "letter">> >>
  ELSE << <<"letter", "letter", "sign", "letter">>, <<"sign">> >>
Places == {[line |-> 0, col |-> 2], [line |-> 0, col |-> 3], [line |-> 1, col |-> 1]}
=================================================================================
