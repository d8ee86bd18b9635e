------------------------------- MODULE MCContracts -------------------------------
(***************************************************************************)
(* A program verified and then run: module Verifier with the answers of    *)
(* module Smt, then module Vm on the code of module Compiler, the bodies   *)
(* that are missing made by module Synthesis.  The main body calls f with  *)
(* an integer that was read.  What it comes to is compared with module     *)
(* Meaning, and with what the verifier counted as verified.                *)
(***************************************************************************)
EXTENDS Verifier, Smt, Synthesis, Compiler, TLC

CONSTANTS MachineSteps,     \* the longest state machine in every combination
          Code, StackMap,   \* of module Vm: what the programs are compiled to
          Meanings          \* what they come to, for every input

VARIABLES stack, frames, outcome, effects

machine == <<stack, frames, outcome, effects>>

Lowest == -8               \* IntMin, which a cfg cannot write
Inputs == -2..2            \* what `read` may return
SmallInts == -3..3         \* Sample

-----------------------------------------------------------------------------
\* Abstract syntax.
Id(name) == [k |-> "ident", name |-> name]
Num(n) == [k |-> "lit", v |-> IntV(n)]
Bool(b) == [k |-> "lit", v |-> BoolV(b)]
Bin(op, l, r) == [k |-> "bin", op |-> op, left |-> l, right |-> r]
Un(op, e) == [k |-> "un", op |-> op, arg |-> e]
Wrap(e) == [k |-> "ok", op |-> "WrapOk", arg |-> e]
WrapBad(e) == [k |-> "err", op |-> "WrapErr", arg |-> e]
CallOf(fn, args) == [k |-> "call", fn |-> fn, args |-> args]
Block(stmts) == [k |-> "block", stmts |-> stmts]
Let(name, e) == [k |-> "let", name |-> name, value |-> e]
If(c, t, f) == [k |-> "if", cond |-> c, then |-> t, else |-> f]
When(c, t) == [k |-> "ifthen", cond |-> c, then |-> t]
Match(e, arms) == [k |-> "match", scrutinee |-> e, arms |-> arms]
Arm(p, e) == [pat |-> p, body |-> e]
Tuple(es) == [k |-> "tuple", elems |-> es]
PName(name) == [k |-> "ident", name |-> name]
PLit(n) == [k |-> "literal", v |-> IntV(n)]
PTuple(ps) == [k |-> "tuple", fields |-> ps]
PCtor(name, p) == [k |-> "ctor", name |-> name, fields |-> <<p>>]

X == Id("x")
Y == Id("y")
Positive == Bin("Gt", X, Num(0))
OfSign == If(Positive, Wrap(X), WrapBad(X))

\* The bodies of f(x); g(y) requires y >= 0 and doubles it.
Bodies ==
  [x |-> X,
   inc |-> Bin("Add", X, Num(1)),
   over |-> Bin("Add", X, Num(6)),
   div |-> Bin("Div", Num(4), X),
   abs |-> If(Positive, X, Un("Neg", X)),
   when |-> Block(<<Let("y", Bin("Add", X, Num(1))), When(Bin("Gt", Y, Num(1)), CallOf("g", <<Y>>)), Y>>),
   literal |-> Match(X, <<Arm(PLit(0), Num(1)), Arm(PName("n"), Bin("Add", Id("n"), Num(1)))>>),
   partial |-> Bin("Add", Num(1), Match(X, <<Arm(PLit(0), Num(1)), Arm(PLit(1), Num(2))>>)),
   tuple |-> Match(Tuple(<<X, Num(3)>>), <<Arm(PTuple(<<PName("a"), PName("b")>>), Bin("Sub", Id("b"), Id("a")))>>),
   result |-> Match(OfSign, <<Arm(PCtor("Ok", PName("v")), Id("v")), Arm(PCtor("Err", PName("e")), Num(7))>>),
   try |-> Block(<<Let("y", [k |-> "try", op |-> "Unwrap", arg |-> OfSign]), Bin("Mul", Y, Num(2))>>),
   return |-> Bin("Add", Num(1), If(Positive, [k |-> "return", value |-> Num(5)], X)),
   require |-> Block(<<[k |-> "require", cond |-> Positive], X>>),
   call |-> Bin("Sub", Num(1), CallOf("g", <<X>>)),
   implies |-> Bin("Implies", Positive, Bin("Gt", X, Num(1))),
   nested |-> Match(OfSign, <<Arm(PCtor("Ok", PLit(1)), Num(1)), Arm(PName("n"), Num(2))>>),
   pairs |-> Match(Tuple(<<Tuple(<<X, Num(3)>>), Num(4)>>),
                   <<Arm(PTuple(<<PTuple(<<PName("a"), PName("b")>>), PName("c")>>), Id("a"))>>),
   bare |-> When(Positive, X),
   leak |-> Block(<<Let("y", Num(1)), If(Positive, Block(<<Let("y", Num(2)), Y>>), Num(0)), Y>>),
   shadow |-> Block(<<Let("x", Un("Neg", X)), X>>)]

\* Bodies that do not run as meant: an `if` without else whose value is used,
\* patterns with more than a name inside a constructor or a tuple, a name
\* bound again.
Odd == {"nested", "pairs", "bare", "leak", "shadow"}
Rebinding == {"shadow"}

\* Where the code departs from the documents: `?` on an Err ends the program instead of
\* the function (vm.rs:573-580), and a `return` passes by the ensures, which are emitted
\* after the body (compiler.rs:193-198, 659-666): here the clause of `eq`, which
\* the 5 it returns does not satisfy.
Departs(p, input) ==
  \/ p.body = "try" /\ ~(input > 0)
  \/ p.body = "return" /\ p.ensures = "eq" /\ input > 0

Requires ==
  [none |-> <<>>, pos |-> <<Positive>>, both |-> <<Positive, Bin("Lt", X, Num(0))>>,
   false |-> <<Bool(FALSE)>>, const |-> <<Bin("Gt", Num(1), Num(2))>>,
   call |-> <<Bin("Gt", CallOf("g", <<X>>), Num(0))>>, small |-> <<Bin("Gt", X, Num(-2)), Positive>>]
Ensures ==
  [none |-> <<>>, pos |-> <<Positive>>, eq |-> <<Bin("Eq", Id("result"), Bin("Add", X, Num(1)))>>,
   qe |-> <<Bin("Gt", X, Num(0)), Bin("Eq", Bin("Mul", X, Num(2)), Id("result"))>>,
   more |-> <<Bin("Eq", X, Id("result")), Bin("Gt", Id("result"), Num(0))>>,
   imp |-> <<Bin("Implies", Bin("Gt", X, Num(1)), Positive), Un("Not", Bin("Lt", Un("Neg", X), Un("Neg", X)))>>,
   call |-> <<Bin("Eq", CallOf("g", <<X>>), Num(2))>>]

-----------------------------------------------------------------------------
\* Declarations.
Fn(name, params, requires, ensures, bodyless, body) ==
  [kind |-> "fn", k |-> "fn", name |-> name, params |-> params, requires |-> requires, ensures |-> ensures,
   bodyless |-> bodyless, body |-> body, effects |-> {}, trust |-> "checked", obligations |-> 0, calls |-> {}]
G == Fn("g", <<"y">>, <<Bin("Gte", Y, Num(0))>>, <<>>, FALSE, Bin("Mul", Y, Num(2)))
Main == [kind |-> "main", body |-> CallOf("f", <<CallOf("read", <<>>)>>)]

FnProgram(p) ==
  <<Fn("f", <<"x">>, Requires[p.requires], Ensures[p.ensures], p.body = "none",
       IF p.body = "none" THEN Block(<<>>) ELSE Bodies[p.body]), G, Main>>

\* All contracts with some bodies and none, and all bodies with some contracts.
FnPrograms ==
  {p \in [family : {"fn"}, requires : DOMAIN Requires, ensures : DOMAIN Ensures, body : DOMAIN Bodies \cup {"none"}] :
     \/ p.body \in {"none", "inc", "leak", "bare"}
     \/ p.requires \in {"none", "small"} /\ p.ensures \in {"none", "pos", "eq"}}

\* Every machine of up to MachineSteps transitions over three states, and two
\* machines one after the other.
Names3 == {"a", "b", "c"}
Machines(lengths) ==
  {m \in UNION {[1..n -> [from : Names3, to : Names3]] : n \in lengths} : m = <<>> \/ m[1].from = "a"}
StatePrograms ==
  {[family |-> "state", machines |-> <<m>>] : m \in Machines(0..MachineSteps)}
    \cup {[family |-> "state", machines |-> <<m1, m2>>] : m1 \in Machines({2}), m2 \in Machines({1})}

\* Declarations of the other kinds: a flow whose steps hold requires in places
\* that are searched and in one that is not, an entity, and trust that a
\* capability lowers.
FlowSteps ==
  LET claim(e) == [k |-> "require", cond |-> e]
  IN  [one |-> [body |-> Block(<<claim(Positive), Let("y", If(Positive, claim(Bool(FALSE)), X))>>), undo |-> FALSE],
       two |-> [body |-> CallOf("g", <<claim(Bool(FALSE))>>), undo |-> TRUE],
       three |-> [body |-> [k |-> "transaction", inner |-> When(Positive, claim(X))], undo |-> TRUE]]
OtherPrograms ==
  [family : {"other"}, steps : {<<>>} \cup [1..2 -> DOMAIN FlowSteps], requires : {"none", "false", "call"},
   primed : BOOLEAN, trust : {"proved", "checked", "assumed"}, invariants : {<<>>, <<Bool(FALSE), Positive>>}]
OtherProgram(p) ==
  LET result == IF p.primed THEN [k |-> "primed", arg |-> X] ELSE X
      claims == [requires |-> Requires[p.requires], ensures |-> <<Bin("Eq", result, X), Positive>>]
  IN  <<[kind |-> "flow", name |-> "pay", requires |-> claims.requires, ensures |-> claims.ensures,
         steps |-> [i \in DOMAIN p.steps |-> FlowSteps[p.steps[i]]],
         effects |-> {"Bank"}, trust |-> "proved", obligations |-> 1, calls |-> {"g"}],
        [kind |-> "entity", invariants |-> p.invariants],
        [G EXCEPT !.trust = p.trust, !.calls = {"bank", "g"}],
        [kind |-> "capability", name |-> "bank", trust |-> "observed", calls |-> {}]>>

AllPrograms ==
  [p \in FnPrograms \cup StatePrograms \cup OtherPrograms |->
     CASE p.family = "fn" -> FnProgram(p)
       [] p.family = "state" -> [i \in DOMAIN p.machines |-> [kind |-> "state", transitions |-> p.machines[i]]]
       [] OTHER -> OtherProgram(p)] @@ <<>>
SmallPrograms == AllPrograms

-----------------------------------------------------------------------------
\* compile_fn: the body of a function that has none comes from its ensures; if
\* none can be made, the program does not compile.
BodyOf(d) == IF d.bodyless /\ d.ensures # <<>> THEN Synthesize(d.ensures) ELSE {d.body}
Compilable(p) == \A d \in {FnProgram(p)[i] : i \in 1..2} : BodyOf(d) # {}
Completed(d) == [d EXCEPT !.body = CHOOSE e \in BodyOf(d) : TRUE]
Functions(p) == <<Completed(FnProgram(p)[1]), Completed(FnProgram(p)[2])>>

\* nous run, of the programs with a main body.
Runs(p) == p.family = "fn" /\ Compilable(p)
Build(p) ==
  LET code == IF Runs(p) THEN CompileProgram(Main.body, Functions(p), {"read"})
              ELSE <<Chunk("<main>", [ops |-> <<Simple("Halt")>>, next |-> 0])>>
  IN  [code |-> code, map |-> [c \in DOMAIN code |-> Depths(code[c].ops)] @@ <<>>]
Built == [p \in DOMAIN AllPrograms |-> Build(p)] @@ <<>>
AllCode == LET b == Built IN [p \in DOMAIN AllPrograms |-> b[p].code]
AllMaps == LET b == Built IN [p \in DOMAIN AllPrograms |-> b[p].map]

Machine == INSTANCE Vm WITH
  module <- program,
  BuiltinResults <- [b \in {"read"} |-> {IntV(n) : n \in Inputs}], FailingBuiltins <- {}

\* What main's call of f comes to, as a machine reports it; computed once, like
\* the code, for every program that runs.
Meant(fns) == INSTANCE Meaning WITH FunctionNamed <- LAMBDA name : IF name = "f" THEN fns[1] ELSE fns[2]
MeaningOf(p, v) ==
  LET fns == Functions(p)
      r == Meant(fns)!CallResult(fns[1], <<v>>)
  IN  IF r[1] = "error" THEN <<"error", r[2]>> ELSE <<"value", r[2]>>
MeaningsOf(p) == [v \in {IntV(n) : n \in Inputs} |-> MeaningOf(p, v)] @@ <<>>
Evaluated == [p \in {q \in DOMAIN AllPrograms : Runs(q)} |-> MeaningsOf(p)] @@ <<>>
AllMeanings == LET m == Evaluated IN [p \in DOMAIN m |-> m[p]]

-----------------------------------------------------------------------------
RunInit == Init /\ Machine!Init
Verifying == Next /\ UNCHANGED machine
Executing == phase = "done" /\ Runs(program) /\ Machine!Next /\ UNCHANGED vars
RunNext == Verifying \/ Executing
RunSpec == RunInit /\ [][RunNext]_<<vars, machine>> /\ WF_vars(phase # "done" /\ Verifying)

-----------------------------------------------------------------------------
\* A compiled program comes to the value or the error that its expressions mean,
\* clauses of contracts included: the stack discipline of branches, matches and
\* early returns, the slots of names and the order of checks agree with an
\* evaluation of the tree (compiler.rs compile_expr_into, vm.rs step), but for the
\* bodies that are odd and the inputs for which the code departs from the documents.
RunsAsMeant ==
  Runs(program) /\ program.body \notin Odd /\ outcome # <<"running">> =>
    LET input == effects[1].result
    IN  Departs(program, Inner(input)) \/ outcome = Meanings[program][input]

\* The ensure that ended the run, by its place in the contract.
FailedClause ==
  LET top == frames[Len(frames)]
      code == Code[program][top.chunk].ops
  IN  Cardinality({i \in 1..top.ip : code[i].op = "CheckEnsure"})
Broken == outcome = <<"error", "EnsureViolated">>

\* An ensure that the solver proved from the requires never fails at run time,
\* whatever the body does, as long as the body binds no name of the contract
\* again (and the clause does not divide); nor does the ensure a body was made
\* from (verifier.rs:172-174, 401-408, compiler.rs:150-185).
VerifiedHolds ==
  Broken /\ program.body \notin Rebinding =>
    LET f == FnProgram(program)[1]
        clause == f.ensures[FailedClause]
    IN  IF program.body = "none" THEN Synthesize(f.ensures) \cap {clause.left, clause.right} = {}
        ELSE SolveContract(f.requires, clause) # "verified"

\* The comment on visit_fn_decl: the ensures of a function without a body are
\* verified by construction.
SynthesizedHolds == Runs(program) /\ program.body = "none" => ~Broken
=============================================================================
