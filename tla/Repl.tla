---------------------------------- MODULE Repl ----------------------------------
(***************************************************************************)
(* The interactive session, crates/nous-cli/src/repl.rs: ReplSession with  *)
(* the source accumulated from :def commands and the count of definitions, *)
(* and what each command answers.  The source is the sequence of its       *)
(* lines.  What parser and checker accept, what verification counts and    *)
(* what an expression evaluates to are parameters: functions of the whole  *)
(* source.  Wording, and the two output formats, are left out.             *)
(***************************************************************************)
EXTENDS Naturals, Sequences

CONSTANTS Header,            \* the lines a session begins with
          Definitions,       \* what is typed after `:def`, expanded into its lines
          Expressions,       \* what is typed to be run, in its main block: lines as well
          Parses(_),         \* nous_parser::parse
          Checks(_),         \* TypeChecker::check
          Verifies(_),       \* Verifier::verify
          Evaluates(_, _),   \* source, expression: compiled and executed without an error
          MaxLines           \* nothing is defined once the source is this long

VARIABLES source, defCount, response

vars == <<source, defCount, response>>
Answer(kind, success) == [kind |-> kind, success |-> success]
Accepts(lines) == Parses(lines) /\ Checks(lines)

-----------------------------------------------------------------------------
(* handle_input: one action per command.                                   *)

Live == response.kind # "quit"

\* add_definition: the lines are appended and the whole source is looked at.
Define(d) ==
  /\ Live /\ Len(source) < MaxLines
  /\ Accepts(source \o d)
  /\ source' = source \o d
  /\ defCount' = defCount + 1
  /\ response' = Answer("defined", TRUE)

\* ... and undone by taking back one line.
Reject(d) ==
  /\ Live /\ Len(source) < MaxLines
  /\ ~Accepts(source \o d)
  /\ source' = SubSeq(source \o d, 1, Len(source \o d) - 1)
  /\ defCount' = (defCount + 1) - 1
  /\ response' = Answer("error", FALSE)

Reset ==
  /\ Live
  /\ source' = Header
  /\ defCount' = 0
  /\ response' = Answer("reset", TRUE)

Env ==
  /\ Live
  /\ response' = Answer("env", TRUE)
  /\ UNCHANGED <<source, defCount>>

Verify ==
  /\ Live
  /\ LET good == Parses(source) /\ Verifies(source)
     IN  response' = Answer(IF good THEN "verified" ELSE "error", good)
  /\ UNCHANGED <<source, defCount>>

\* run_expression: the expression is the body of a main block after the source,
\* in a program of its own.
Run(e) ==
  /\ Live
  /\ LET good == Accepts(source \o e) /\ Evaluates(source, e)
     IN  response' = Answer(IF good THEN "result" ELSE "error", good)
  /\ UNCHANGED <<source, defCount>>

Quit ==
  /\ Live
  /\ response' = Answer("quit", TRUE)
  /\ UNCHANGED <<source, defCount>>

Ended == ~Live /\ UNCHANGED vars

Init == source = Header /\ defCount = 0 /\ response = Answer("none", TRUE)

Next ==
  \/ \E d \in Definitions : Define(d) \/ Reject(d)
  \/ \E e \in Expressions : Run(e)
  \/ Reset \/ Env \/ Verify \/ Quit \/ Ended

Spec == Init /\ [][Next]_vars

-----------------------------------------------------------------------------
Rejects == \E d \in Definitions : Reject(d)

\* "Undo the definition" (the comment at repl.rs:173): a definition that is
\* refused leaves the session as it was.
RejectedLeavesNothing == [][Rejects => UNCHANGED <<source, defCount>>]_vars

\* What has been typed and accepted is there until the session is reset: no
\* undo reaches into the lines before it (repl.rs:172-176, 187-191).
IsPrefix(s, t) == Len(s) <= Len(t) /\ \A i \in 1..Len(s) : t[i] = s[i]
NothingLost == [][~Reset => IsPrefix(source, source')]_vars

\* The session can be built on: what it holds parses and checks
\* (repl.rs:139-144).
SessionSound == Accepts(source)
=============================================================================
