------------------------------- MODULE Compiler -------------------------------
(***************************************************************************)
(* The bytecode compiler of crates/nous-runtime/src/compiler.rs, as an     *)
(* operator from a program (its functions, its flows and its main body) to *)
(* a module, the sequence of chunks that module Vm runs.                   *)
(*                                                                         *)
(* An expression is a record whose field k is its constructor.  The        *)
(* compiler's working state `st` is the chunk under construction and its   *)
(* Scope: one flat map from names to slots, so that a name defined in a    *)
(* branch, an arm or a block stays defined after it.  Lambdas (which no    *)
(* call expression can name) and the specification-only forms (primed and  *)
(* `pre` expressions) are left out.                                        *)
(***************************************************************************)
EXTENDS Bytecode

\* SequencesExt's FoldLeft and FoldRight over arithmetic that TLC knows from the
\* start, so that it compiles the program of a run once and not in every state.
FoldLeft(f(_, _), base, seq) ==
  LET acc[i \in 0..Len(seq)] == IF i = 0 THEN base ELSE f(acc[i - 1], seq[i]) IN acc[Len(seq)]
FoldRight(f(_, _), seq, base) ==
  LET acc[i \in 1..(Len(seq) + 1)] == IF i > Len(seq) THEN base ELSE f(seq[i], acc[i + 1]) IN acc[1]
ToSet(seq) == {seq[i] : i \in DOMAIN seq}
Least(S) == CHOOSE n \in S : \A m \in S : n <= m

Chunk(name, st) == [name |-> name, ops |-> st.ops, local_count |-> st.next]

\* A fresh chunk for a function with these parameters, in a program that
\* declares the functions `fns` (name -> declaration kind) over these builtins.
Fresh(params, fns, builtins) ==
  [ops |-> <<>>, next |-> Len(params), fns |-> fns, builtins |-> builtins, bad |-> FALSE,
   locals |-> [p \in ToSet(params) |-> (CHOOSE i \in DOMAIN params :
                 params[i] = p /\ \A j \in DOMAIN params : params[j] = p => j <= i) - 1]]

Emit(st, o) == [st EXCEPT !.ops = Append(@, o)]
EmitAll(st, s) == [st EXCEPT !.ops = @ \o s]
At(st) == Len(st.ops)
Patch(st, i) == [st EXCEPT !.ops[i].arg = Len(st.ops) + 1]
Undefined(st) == [st EXCEPT !.bad = TRUE]

JumpOn(o) == Instr(o, 0, 0)

Define(st, name) ==
  [st EXCEPT !.next = @ + 1,
             !.locals = [n \in DOMAIN @ \cup {name} |-> IF n = name THEN st.next ELSE @[n]]]

\* Pop into a slot of its own.
StoreNew(st, name) == Emit(Define(st, name), StoreAt(st.next))

-----------------------------------------------------------------------------
\* The test of a pattern against the value on top of the stack; the test of a
\* wildcard or a name only drops it.  No test looks inside a constructor or a tuple.
AlwaysMatches(p) == p.k \in {"wild", "ident"}

ConstructorTest(name) ==
  CASE name = "Ok" -> Simple("IsOk")
    [] name = "Err" -> Simple("IsErr")
    [] OTHER -> Instr("IsVariant", name, 0)

PatternTest(st, p) ==
  CASE AlwaysMatches(p) -> StoreNew(st, "_pat_discard")
    [] p.k = "literal" -> EmitAll(st, <<Const(p.v), Simple("Eq")>>)
    [] p.k = "ctor" ->
         LET s1 == StoreNew(Emit(st, ConstructorTest(p.name)), "_constructor_test_bool")
             s2 == StoreNew(s1, "_constructor_scrutinee_discard")
         IN  Emit(s2, Local(st.next))
    [] p.k = "tuple" -> Emit(StoreNew(st, "_tuple_scrutinee"), Const(BoolV(TRUE)))

RECURSIVE PatternBind(_, _, _)
\* Bind the names of a pattern that matched the value in `slot`.
PatternBind(st, p, slot) ==
  LET \* extract part i of the value at `from` with instruction o, then bind it
      Part(s, from, o, name, sub) ==
        PatternBind(StoreNew(EmitAll(s, <<Local(from), o>>), name), sub, s.next)
      Parts(s0, from, what, name, subs) ==
        FoldLeft(LAMBDA s, i : Part(s, from, Instr(what, i - 1, 0), name, subs[i]),
                 s0, [i \in DOMAIN subs |-> i])
  IN  CASE p.k \in {"wild", "literal"} -> st
        [] p.k = "ident" ->
             EmitAll(Define(st, p.name), <<Local(slot), StoreAt(st.next)>>)
        [] p.k = "ctor" ->
             IF p.name \notin {"Ok", "Err"} THEN Parts(st, slot, "EnumField", "_enum_field", p.fields)
             ELSE IF p.fields = <<>> THEN st
             ELSE Part(st, slot, Simple("UnwrapInner"), "_inner", p.fields[1])
        [] p.k = "tuple" ->
             Parts(st, IF "_tuple_scrutinee" \in DOMAIN st.locals
                       THEN st.locals["_tuple_scrutinee"] ELSE slot,
                   "TupleIndex", "_tuple_elem", p.fields)

-----------------------------------------------------------------------------
RECURSIVE Compile(_, _)

CompileAll(st, es) == FoldLeft(Compile, st, es)

\* if: the else branch is jumped over; without one, Void is pushed after the
\* then branch as well as in its place.
CompileIf(st, e) ==
  LET s1 == Emit(Compile(st, e.cond), JumpOn("JumpIfFalse"))
      s2 == Compile(s1, e.then)
  IN  IF e.k = "if"
      THEN LET s3 == Patch(Emit(s2, JumpOn("Jump")), At(s1))
           IN  Patch(Compile(s3, e.else), At(s2) + 1)
      ELSE Emit(Patch(s2, At(s1)), Const(Void))

CompileMatch(st, e) ==
  LET s0 == Compile(st, e.scrutinee)
      slot == s0.next
      Arm(acc, arm) ==
        LET s1 == PatternTest(Emit(acc.st, Local(slot)), arm.pat)
            s2 == IF AlwaysMatches(arm.pat) THEN s1 ELSE Emit(s1, JumpOn("JumpIfFalse"))
            s3 == Compile(PatternBind(s2, arm.pat, slot), arm.body)
            s4 == Emit(s3, JumpOn("Jump"))
        IN  [st |-> IF AlwaysMatches(arm.pat) THEN s4 ELSE Patch(s4, At(s2)),
             ends |-> Append(acc.ends, At(s4))]
      arms == FoldLeft(Arm, [st |-> StoreNew(s0, "_match_scrutinee"), ends |-> <<>>], e.arms)
      none == EmitAll(arms.st, <<Const(TextV("non-exhaustive match")), Simple("WrapErr"), Simple("Halt")>>)
  IN  FoldLeft(Patch, none, arms.ends)

\* Builtins come first; a call of a function pushes its Fn value, then the arguments.
CompileCall(st, e) ==
  IF e.fn \in st.builtins
  THEN Emit(CompileAll(st, e.args), Instr("CallBuiltin", e.fn, Len(e.args)))
  ELSE IF e.fn \in st.fns
  THEN Emit(CompileAll(Emit(st, Const(FnV(e.fn, Len(e.args)))), e.args), Instr("Call", 0, Len(e.args)))
  ELSE Undefined(st)

CompileName(st, name) ==
  IF name \in DOMAIN st.locals THEN Emit(st, Local(st.locals[name]))
  ELSE IF name \in st.fns THEN Emit(st, Const(FnV(name, 0)))
  ELSE Undefined(st)

\* Every statement of a block but the last is stored into a slot that is never read.
CompileBlock(st, stmts) ==
  IF stmts = <<>> THEN Emit(st, Const(Void))
  ELSE Compile(FoldLeft(LAMBDA s, e : StoreNew(Compile(s, e), "_discard"), st,
                        SubSeq(stmts, 1, Len(stmts) - 1)),
               stmts[Len(stmts)])

\* a implies b: both sides are computed; b is put aside while a is negated.
CompileBinary(st, e) ==
  LET s == CompileAll(st, <<e.left, e.right>>)
  IN  IF e.op # "Implies" THEN Emit(s, Simple(e.op))
      ELSE EmitAll(StoreNew(s, "_implies_rhs"), <<Simple("Not"), Local(s.next), Simple("Or")>>)

CompileUpdate(st, e) ==
  FoldLeft(LAMBDA s, u : Emit(Compile(s, u.value), Instr("UpdateField", u.name, 0)),
           Compile(st, e.base), e.updates)

\* compile_expr_into: what the emitted code does is meant to leave one value.
Compile(st, e) ==
  CASE e.k = "lit" -> Emit(st, Const(e.v))
    [] e.k = "ident" -> CompileName(st, e.name)
    [] e.k = "let" -> Emit(StoreNew(Compile(st, e.value), e.name), Const(Void))
    [] e.k = "let_" -> Emit(Compile(st, e.value), Const(Void))
    [] e.k = "block" -> CompileBlock(st, e.stmts)
    [] e.k = "bin" -> CompileBinary(st, e)
    [] e.k \in {"un", "ok", "err", "try"} -> Emit(Compile(st, e.arg), Simple(e.op))
    [] e.k \in {"if", "ifthen"} -> CompileIf(st, e)
    [] e.k = "call" -> CompileCall(st, e)
    [] e.k = "require" -> EmitAll(Compile(st, e.cond), <<Simple("CheckRequire"), Const(Void)>>)
    [] e.k = "return" -> EmitAll(Compile(st, e.value), <<Simple("Return"), Const(Void)>>)
    [] e.k = "field" -> Emit(Compile(st, e.object), Instr("LoadField", e.name, 0))
    [] e.k = "record" -> Emit(CompileAll(st, e.values), Instr("MakeRecord", <<e.name, e.fields>>, Len(e.values)))
    [] e.k = "update" -> CompileUpdate(st, e)
    [] e.k = "tuple" -> Emit(CompileAll(st, e.elems), Instr("MakeTuple", 0, Len(e.elems)))
    [] e.k = "list" -> Emit(CompileAll(st, e.elems), Instr("MakeList", 0, Len(e.elems)))
    [] e.k = "match" -> CompileMatch(st, e)

-----------------------------------------------------------------------------
\* Mutant: the clauses are not emitted.
RequiresNotEmitted(st, conds) == st

RequireChecks(st, conds) ==
  FoldLeft(LAMBDA s, c : Emit(Compile(s, c), Simple("CheckRequire")), st, conds)

\* Mutant: the body's value is not stored.
EnsureChecksEarlier(st, conds) ==
  LET Clause(s, c) == Emit(Compile(s, c), Simple("CheckEnsure"))
  IN  FoldLeft(Clause, Define(st, "result"), conds)

\* The body's value is kept in a slot named `result` while the clauses are checked.
EnsureChecks(st, conds) ==
  IF conds = <<>> THEN st
  ELSE LET slot == st.next
           Clause(s, c) ==
             Emit(Compile(EmitAll(s, <<Local(slot), StoreAt(slot)>>), c), Simple("CheckEnsure"))
       IN  Emit(FoldLeft(Clause, StoreNew(st, "result"), conds), Local(slot))

CompileFn(d, fns, builtins) ==
  LET s == Compile(RequireChecks(Fresh(d.params, fns, builtins), d.requires), d.body)
  IN  Chunk(d.name, Emit(EnsureChecks(s, d.ensures), Simple("Return")))

-----------------------------------------------------------------------------
(* Flows.  Each step that yields an Err stores it and jumps to the one     *)
(* rollback chain of the chunk; a step that yields Ok(v), or a bare v,     *)
(* stores v under the step's name.  IsErr and IsOk leave their operand, so *)
(* every step leaves two values behind.                                    *)

FlowStep(acc, step) ==
  LET s1 == EmitAll(Compile(acc.st, step.body), <<Simple("Dup"), Simple("IsErr"), JumpOn("JumpIfFalse")>>)
      s2 == EmitAll(s1, <<StoreAt(acc.error), JumpOn("Jump")>>)
      s3 == EmitAll(Patch(s2, At(s1)), <<Simple("Dup"), Simple("IsOk"), JumpOn("JumpIfFalse")>>)
      s4 == Patch(Emit(s3, Simple("UnwrapInner")), At(s3))
  IN  [acc EXCEPT !.st = StoreNew(s4, step.result), !.jumps = Append(@, At(s2)), !.last = s4.next]

\* The rollbacks of all steps, the last step's first; `nothing` is no code at all.
RollbackChain(st, steps) ==
  FoldRight(LAMBDA step, s : IF step.rollback = <<>> THEN s
                             ELSE StoreNew(Compile(s, step.rollback[1]), "_rb_discard"),
            steps, st)

CompileFlow(d, fns, builtins) ==
  LET s0 == RequireChecks(Fresh(d.params, fns, builtins), d.requires)
      begin == [st |-> Define(s0, "_flow_error"), error |-> s0.next, jumps |-> <<>>, last |-> s0.next]
      body == FoldLeft(FlowStep, begin, d.steps)
      value == IF d.steps = <<>> THEN Const(Void) ELSE Local(body.last)
      success == EmitAll(body.st, <<value, Simple("WrapOk"), Simple("Return")>>)
      chain == RollbackChain(FoldLeft(Patch, success, body.jumps), d.steps)
  IN  Chunk(d.name, EmitAll(chain, <<Local(body.error), Simple("Return")>>))

\* Chunk 1 is <main>, ended by Halt; the others follow in declaration order.
CompileProgram(main, decls, builtins) ==
  LET fns == {decls[i].name : i \in DOMAIN decls}
      entry == Chunk("<main>", Emit(Compile(Fresh(<<>>, fns, builtins), main), Simple("Halt")))
  IN  <<entry>> \o [i \in DOMAIN decls |->
                      IF decls[i].k = "fn" THEN CompileFn(decls[i], fns, builtins)
                      ELSE CompileFlow(decls[i], fns, builtins)]

-----------------------------------------------------------------------------
(* The operands surely on the stack before each instruction.  Every jump   *)
(* of the compiler is forward (patch_jump), so one pass computes it; an    *)
(* instruction nothing leads to gets Unreached.                            *)
Unreached == 50

Next1(ops, i) ==
  CASE ops[i].op \in {"Return", "Halt"} -> {}
    [] ops[i].op = "Jump" -> {ops[i].arg}
    [] ops[i].op = "JumpIfFalse" -> {i + 1, ops[i].arg}
    [] OTHER -> {i + 1}

Depths(ops) ==
  LET Depth(d, i) ==
        LET before == {j \in 1..(i - 1) : i \in Next1(ops, j)}
        IN  Append(d, IF i = 1 THEN 0
                      ELSE Least({Unreached} \cup {d[j] - Operands(ops[j]) + Leaves(ops[j]) : j \in before}))
  IN  FoldLeft(Depth, <<>>, [i \in 1..Len(ops) |-> i])
=============================================================================
