--------------------------------- MODULE MCFlow ---------------------------------
(***************************************************************************)
(* Model checking of compiled flows: every flow of `Programs` is compiled  *)
(* by module Compiler and run by module Vm from `let out = pay(arg); out`, *)
(* and what it does is compared with module Saga.  The run also evaluates  *)
(* the assumption of module FlowLayout on all that the compiler emits.     *)
(***************************************************************************)
EXTENDS FlowLayout, Compiler, TLC

CONSTANT MaxSteps       \* the longest flow with arbitrary steps

Lowest == -8             \* IntMin, which a cfg cannot write
Int3 == 1..3
Do == <<"do1", "do2", "do3">>
Undo == <<"undo1", "undo2", "undo3">>
Fetch == <<"fetch1", "fetch2", "fetch3">>
Wrapper == <<"step1", "step2", "step3">>
Slot == <<"one_result", "two_result", "three_result">>

\* How a step's body reaches the outside: a call that returns a Result, the
\* same followed by `?`, the same made by a function of the program, or a
\* call that returns a plain value.
Hows == {"call", "try", "fn", "plain"}
Kinds == [how : Hows, undo : BOOLEAN]

\* Three-step flows: any mix of hows, with a rollback everywhere, or calls only.
Long == {s \in [Int3 -> Kinds] : \/ \A i \in Int3 : s[i].undo /\ s[i].how # "plain"
                                 \/ \A i \in Int3 : s[i].how = "call"}
Programs ==
  {[arg |-> 1, steps |-> s] : s \in UNION {[1..n -> Kinds] : n \in 0..MaxSteps} \cup Long}
    \cup {[arg |-> 0, steps |-> s] : s \in [1..1 -> Kinds]}

-----------------------------------------------------------------------------
\* The abstract syntax of a program.
Id(name) == [k |-> "ident", name |-> name]
Lit(v) == [k |-> "lit", v |-> v]
CallOf(fn, args) == [k |-> "call", fn |-> fn, args |-> args]

Body(i, kind) ==
  LET arg == Id(IF i = 1 THEN "x" ELSE Slot[i - 1])
  IN  CASE kind.how = "call" -> CallOf(Do[i], <<arg>>)
        [] kind.how = "try" -> [k |-> "try", op |-> "Unwrap", arg |-> CallOf(Do[i], <<arg>>)]
        [] kind.how = "fn" -> CallOf(Wrapper[i], <<arg>>)
        [] kind.how = "plain" -> CallOf(Fetch[i], <<arg>>)

FlowDecl(steps) ==
  [k |-> "flow", name |-> "pay", params |-> <<"x">>,
   requires |-> <<[k |-> "bin", op |-> "Gt", left |-> Id("x"), right |-> Lit(IntV(0))]>>,
   steps |-> [i \in DOMAIN steps |->
                [body |-> Body(i, steps[i]), result |-> Slot[i],
                 rollback |-> IF steps[i].undo THEN <<CallOf(Undo[i], <<Id(Slot[i])>>)>> ELSE <<>>]]]

FnDecl(i) ==
  [k |-> "fn", name |-> Wrapper[i], params |-> <<"y">>, requires |-> <<>>,
   body |-> CallOf(Do[i], <<Id("y")>>), ensures |-> <<>>]

Main(arg) ==
  [k |-> "block", stmts |-> <<[k |-> "let", name |-> "out", value |-> CallOf("pay", <<Lit(IntV(arg))>>)],
                              Id("out")>>]

Builtins == UNION {ToSet(Do), ToSet(Undo), ToSet(Fetch)}

Build(p) ==
  LET code == CompileProgram(Main(p.arg), <<FnDecl(1), FnDecl(2), FnDecl(3), FlowDecl(p.steps)>>, Builtins)
  IN  [code |-> code, map |-> [c \in DOMAIN code |-> Depths(code[c].ops)] @@ <<>>]

\* Named apart from the constants, made explicit by `@@ <<>>` and used through a
\* LET, so that TLC computes it once.
Built == [p \in Programs |-> Build(p)] @@ <<>>
FlowCode == LET b == Built IN [p \in Programs |-> b[p].code]
FlowMap == LET b == Built IN [p \in Programs |-> b[p].map]

\* Steps return Ok or Err, plain ones a number; a rollback's own Err is possible too.
FlowResults ==
  [b \in Builtins |-> IF b \in ToSet(Fetch) THEN {IntV(5)}
                      ELSE IF b \in ToSet(Undo) THEN {OkV(Void), ErrV(TextV(<<b>>))}
                      ELSE {OkV(IntV(CHOOSE i \in Int3 : Do[i] = b)), ErrV(TextV(<<b>>))}]
FlowRaising == {"do2", "fetch1", "undo1", "undo2"}

-----------------------------------------------------------------------------
\* The flow of a program, as module Saga sees it.
FlowOf(p) ==
  [input |-> IntV(p.arg), admitted |-> p.arg > 0,
   steps |-> [i \in DOMAIN p.steps |->
                [do |-> IF p.steps[i].how = "plain" THEN Fetch[i] ELSE Do[i],
                 undo |-> IF p.steps[i].undo THEN Undo[i] ELSE "nothing",
                 try |-> p.steps[i].how = "try"]]]

\* Where the compiler puts its parts: <main>, three wrappers, the flow.
LayoutOf(p) ==
  LET n == Len(p.steps)
      width == [call |-> 2, try |-> 3, fn |-> 3, plain |-> 2]
      start[i \in 1..(n + 1)] == IF i = 1 THEN 5 ELSE start[i - 1] + width[p.steps[i - 1].how] + 10
      undos == {i \in 1..n : p.steps[i].undo}
      Later(i) == Cardinality({j \in undos : j > i})
  IN  [name |-> "pay", chunk |-> 5, chain |-> start[n + 1] + 3,
       via |-> [i \in 1..n |-> IF p.steps[i].how = "fn" THEN i + 1 ELSE 0],
       start |-> [i \in 1..(n + 1) |-> start[i]],
       test |-> [i \in 1..n |-> start[i] + width[p.steps[i].how]],
       back |-> [i \in undos \cup {0} |-> start[n + 1] + 3 + 3 * Later(i)],
       drop |-> [i \in undos |-> n + 2 + Later(i)]]

Parts == [p \in Programs |-> [flow |-> FlowOf(p), layout |-> LayoutOf(p)]] @@ <<>>
FlowsOf == LET b == Parts IN [p \in Programs |-> b[p].flow]
LayoutsOf == LET b == Parts IN [p \in Programs |-> b[p].layout]

\* Every run of a compiled flow ends: with a value or with an error
\* (all jumps of the compiler are forward; vm.rs execute loops until then).
Terminates == <>(outcome # Running)

-----------------------------------------------------------------------------
steps == module.steps
DoneAt(i) == {k \in DOMAIN effects : effects[k].name \in {Do[i], Fetch[i]} /\ effects[k].result # Raised
                                       /\ Tag(effects[k].result) # "Err"}
FailedAt(i) == {k \in DOMAIN effects : effects[k].name = Do[i] /\ Tag(effects[k].result) = "Err"}
UndoneAt(i) == {k \in DOMAIN effects : effects[k].name = Undo[i]}

\* The comment on compile_flow: only the steps that completed are undone.
OnlyCompletedStepsUndone ==
  \A i \in DOMAIN steps : \A u \in UndoneAt(i) : \E k \in DoneAt(i) : k < u

\* SPEC.md: if step N fails, steps N-1 through 1 are rolled back, however the
\* step's Err reaches the flow (a rollback that raises is another matter).
FailureIsCompensated ==
  outcome \notin {Running, Failed("Builtin")} =>
    \A n \in DOMAIN steps : FailedAt(n) # {} =>
      \A i \in 1..(n - 1) : steps[i].undo => UndoneAt(i) # {}
=============================================================================
