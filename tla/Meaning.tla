--------------------------------- MODULE Meaning ---------------------------------
(***************************************************************************)
(* What an expression of the language means: the value, the error or the   *)
(* end of the program it comes to, computed from the tree and an           *)
(* environment of names instead of a stack and slots.  A `let` lasts for   *)
(* the rest of its block, the arms of a match are tried in order and look  *)
(* into the parts of the value, and a clause of a contract speaks of the   *)
(* parameters and the result.  `return`, and `?` on an Err, end the        *)
(* function and not its contract: the ensures are about what it returns    *)
(* by either (SPEC.md:215-218, 344-350, bytecode.rs:87-88).  This is the   *)
(* reference that compiled programs are compared with; values, operators   *)
(* and their errors are those of module Bytecode, expressions those of     *)
(* module Compiler.                                                        *)
(***************************************************************************)
EXTENDS Bytecode, TLC

CONSTANT FunctionNamed(_)    \* the declaration a call means

Value(v) == <<"value", v>>
Error(e) == <<"error", e>>
Answer(v) == <<"return", v>>
IsValue(r) == r[1] = "value"
IsTrue(r) == r = Value(BoolV(TRUE))

RECURSIVE Suits(_, _), Binds(_, _)
\* Whether a value has the form of a pattern, and what the pattern's names are then.
Suits(p, v) ==
  CASE p.k \in {"wild", "ident"} -> TRUE
    [] p.k = "literal" -> v = p.v
    [] p.k = "ctor" -> Tag(v) = p.name /\ \A i \in DOMAIN p.fields : Suits(p.fields[i], Inner(v))
    [] p.k = "tuple" -> Tag(v) = "Tuple" /\ Len(Inner(v)) = Len(p.fields)
                          /\ \A i \in DOMAIN p.fields : Suits(p.fields[i], Inner(v)[i])
Binds(p, v) ==
  LET Parts(Part(_)) == LET upto[i \in 0..Len(p.fields)] == IF i = 0 THEN <<>> ELSE Binds(p.fields[i], Part(i)) @@ upto[i - 1]
                        IN  upto[Len(p.fields)]
  IN  CASE p.k = "ident" -> p.name :> v
        [] p.k = "ctor" -> Parts(LAMBDA i : Inner(v))
        [] p.k = "tuple" -> Parts(LAMBDA i : Inner(v)[i])
        [] OTHER -> <<>>

RECURSIVE Eval(_, _), CallResult(_, _)

\* The values of expressions from left to right, or the first that has none.
EvalAll(env, es) ==
  LET upto[i \in 0..Len(es)] ==
        IF i = 0 THEN Value(<<>>)
        ELSE IF ~IsValue(upto[i - 1]) THEN upto[i - 1]
        ELSE LET r == Eval(env, es[i]) IN IF IsValue(r) THEN Value(Append(upto[i - 1][2], r[2])) ELSE r
  IN  upto[Len(es)]

\* An operation applied to the values of expressions.
Apply(env, es, o) ==
  LET r == EvalAll(env, es)
  IN  IF ~IsValue(r) THEN r
      ELSE IF OperandFault(o, r[2]) # "none" THEN Error(OperandFault(o, r[2]))
      ELSE IF o.op \in CheckOps THEN Value(Void) ELSE Value(Result(o, r[2]))

EvalBinary(env, e) ==
  IF e.op = "Implies" THEN Apply(env, <<[k |-> "un", op |-> "Not", arg |-> e.left], e.right>>, Simple("Or"))
  ELSE Apply(env, <<e.left, e.right>>, Simple(e.op))

EvalIf(env, e) ==
  LET r == Eval(env, e.cond)
  IN  IF ~IsValue(r) THEN r
      ELSE IF Truthy(r[2]) THEN Eval(env, e.then)
      ELSE IF e.k = "if" THEN Eval(env, e.else) ELSE Value(Void)

\* An Err is returned from the function, the value of an Ok goes on.
EvalTry(env, e) ==
  LET r == Eval(env, e.arg)
  IN  IF IsValue(r) /\ Tag(r[2]) = "Err" THEN Answer(r[2]) ELSE Apply(env, <<e.arg>>, Simple(e.op))

EvalBlock(env, stmts) ==
  LET Step(s, e) ==
        LET r == Eval(s.env, IF e.k = "let" THEN e.value ELSE e)
        IN  IF ~IsValue(s.result) THEN s
            ELSE IF e.k = "let" /\ IsValue(r) THEN [env |-> (e.name :> r[2]) @@ s.env, result |-> Value(Void)]
            ELSE [s EXCEPT !.result = r]
      upto[i \in 0..Len(stmts)] ==
        IF i = 0 THEN [env |-> env, result |-> Value(Void)] ELSE Step(upto[i - 1], stmts[i])
  IN  upto[Len(stmts)].result

\* When no arm fits, the whole program ends with an Err.
EvalMatch(env, e) ==
  LET r == Eval(env, e.scrutinee)
      fitting == {i \in DOMAIN e.arms : Suits(e.arms[i].pat, r[2])}
      arm == e.arms[CHOOSE i \in fitting : \A j \in fitting : i <= j]
  IN  IF ~IsValue(r) THEN r
      ELSE IF fitting = {} THEN <<"end", ErrV(TextV("non-exhaustive match"))>>
      ELSE Eval(Binds(arm.pat, r[2]) @@ env, arm.body)

Eval(env, e) ==
  CASE e.k = "lit" -> Value(e.v)
    [] e.k = "ident" -> Value(env[e.name])
    [] e.k = "block" -> EvalBlock(env, e.stmts)
    [] e.k = "bin" -> EvalBinary(env, e)
    [] e.k = "try" -> EvalTry(env, e)
    [] e.k \in {"un", "ok", "err"} -> Apply(env, <<e.arg>>, Simple(e.op))
    [] e.k \in {"if", "ifthen"} -> EvalIf(env, e)
    [] e.k = "require" -> Apply(env, <<e.cond>>, Simple("CheckRequire"))
    [] e.k = "return" -> LET r == Eval(env, e.value) IN IF IsValue(r) THEN Answer(r[2]) ELSE r
    [] e.k = "tuple" -> Apply(env, e.elems, Instr("MakeTuple", 0, Len(e.elems)))
    [] e.k = "match" -> EvalMatch(env, e)
    [] e.k = "call" -> LET r == EvalAll(env, e.args)
                       IN  IF IsValue(r) THEN CallResult(FunctionNamed(e.fn), r[2]) ELSE r

\* The requires, then the body, then the ensures about what it comes to or returns.
CallResult(d, args) ==
  LET env == [p \in {d.params[i] : i \in DOMAIN d.params} |-> args[CHOOSE i \in DOMAIN d.params : d.params[i] = p]]
      Checks(e, conds, o) ==
        LET bad == {i \in DOMAIN conds : ~IsValue(Apply(e, <<conds[i]>>, Simple(o)))}
        IN  IF bad = {} THEN Value(Void)
            ELSE Apply(e, <<conds[CHOOSE i \in bad : \A j \in bad : i <= j]>>, Simple(o))
      before == Checks(env, d.requires, "CheckRequire")
      result == Eval(env, d.body)
      after == Checks(("result" :> result[2]) @@ env, d.ensures, "CheckEnsure")
  IN  IF ~IsValue(before) THEN before
      ELSE IF result[1] \notin {"value", "return"} THEN result
      ELSE IF IsValue(after) THEN Value(result[2]) ELSE after
=============================================================================
