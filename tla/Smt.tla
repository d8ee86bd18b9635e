----------------------------------- MODULE Smt -----------------------------------
(***************************************************************************)
(* What the solver is asked, crates/nous-verify/src/smt.rs, and the        *)
(* questions verifier.rs answers from the form of a clause alone.          *)
(*                                                                         *)
(* A clause is translated or not: comparisons take integers, connectives   *)
(* take Booleans, and a name is a variable of whichever sort its place     *)
(* calls for - the same name in both places is two variables.  Integers    *)
(* of the solver are unbounded and divide the Euclidean way.  The solver   *)
(* is external: it is taken to decide every translated clause, here by     *)
(* trying the integers of Sample for each variable.  Clauses divide by     *)
(* literals other than 0 only.  Expressions are those of module Compiler,  *)
(* with two forms more: `primed` and `self`.                               *)
(***************************************************************************)
EXTENDS Bytecode

CONSTANT Sample    \* the integers tried for a variable

Compares == OrderOps \cup {"Eq", "Neq"}
Connectives == LogicOps \cup {"Implies"}
Sides(e) == {e.left, e.right}

RECURSIVE Dotted(_)
\* flatten_field_access: the names of a chain that starts at a name, or <<>>.
Dotted(e) ==
  CASE e.k = "ident" -> <<e.name>>
    [] e.k = "field" -> LET base == Dotted(e.object) IN IF base = <<>> THEN <<>> ELSE Append(base, e.name)
    [] OTHER -> <<>>

\* The variable that an expression is where an integer is expected, or <<>>.
IntName(e) ==
  CASE e.k = "self" -> <<"self">>
    [] e.k = "primed" -> LET base == Dotted(e.arg) IN IF base = <<>> THEN <<>> ELSE Append(base, "'")
    [] OTHER -> Dotted(e)

RECURSIVE IsInt(_), IsBool(_)
\* Whether expr_to_z3_int and expr_to_z3_bool translate an expression.
IsInt(e) ==
  CASE e.k = "lit" -> Tag(e.v) = "Int"
    [] e.k = "bin" -> e.op \in IntOps /\ \A s \in Sides(e) : IsInt(s)
    [] e.k = "un" -> e.op = "Neg" /\ IsInt(e.arg)
    [] OTHER -> IntName(e) # <<>>
IsBool(e) ==
  CASE e.k = "lit" -> Tag(e.v) = "Bool"
    [] e.k = "bin" -> \/ e.op \in Compares /\ \A s \in Sides(e) : IsInt(s)
                      \/ e.op \in Connectives /\ \A s \in Sides(e) : IsBool(s)
    [] e.k = "un" -> e.op = "Not" /\ IsBool(e.arg)
    [] OTHER -> Dotted(e) # <<>>

RECURSIVE IntsOf(_), IntVars(_), BoolVars(_)
\* The variables of a translated integer expression, and of either sort of a
\* translated clause.
IntsOf(e) ==
  CASE e.k = "lit" -> {}
    [] e.k = "bin" -> UNION {IntsOf(s) : s \in Sides(e)}
    [] e.k = "un" -> IntsOf(e.arg)
    [] OTHER -> {IntName(e)}
IntVars(e) ==
  CASE e.k = "bin" -> UNION {IF e.op \in Compares THEN IntsOf(s) ELSE IntVars(s) : s \in Sides(e)}
    [] e.k = "un" -> IntVars(e.arg)
    [] OTHER -> {}
BoolVars(e) ==
  CASE e.k = "lit" -> {}
    [] e.k = "bin" -> IF e.op \in Compares THEN {} ELSE UNION {BoolVars(s) : s \in Sides(e)}
    [] e.k = "un" -> BoolVars(e.arg)
    [] OTHER -> {Dotted(e)}

-----------------------------------------------------------------------------
\* The remainder is never negative.
Modulo(l, r) == l % Abs(r)
Euclidean(op, l, r) ==
  CASE op = "Div" -> Quotient(l - Modulo(l, r), r)
    [] op = "Mod" -> Modulo(l, r)
    [] OTHER -> Exact(op, l, r)

RECURSIVE IntOf(_, _), Sat(_, _)
\* The value of an integer expression, and whether a clause is true, under an
\* assignment.
IntOf(e, a) ==
  CASE e.k = "lit" -> Inner(e.v)
    [] e.k = "bin" -> Euclidean(e.op, IntOf(e.left, a), IntOf(e.right, a))
    [] e.k = "un" -> -IntOf(e.arg, a)
    [] OTHER -> a.ints[IntName(e)]
Sat(e, a) ==
  CASE e.k = "lit" -> Inner(e.v)
    [] e.k = "un" -> ~Sat(e.arg, a)
    [] e.k = "bin" /\ e.op = "And" -> Sat(e.left, a) /\ Sat(e.right, a)
    [] e.k = "bin" /\ e.op = "Or" -> Sat(e.left, a) \/ Sat(e.right, a)
    [] e.k = "bin" /\ e.op = "Implies" -> Sat(e.left, a) => Sat(e.right, a)
    [] e.k = "bin" /\ e.op = "Eq" -> IntOf(e.left, a) = IntOf(e.right, a)
    [] e.k = "bin" /\ e.op = "Neq" -> IntOf(e.left, a) # IntOf(e.right, a)
    [] e.k = "bin" /\ e.op \in OrderOps -> Orders(e.op, IntOf(e.left, a), IntOf(e.right, a))
    [] OTHER -> a.bools[Dotted(e)]

Assignments(clauses) ==
  [ints : [UNION {IntVars(c) : c \in clauses} -> Sample],
   bools : [UNION {BoolVars(c) : c \in clauses} -> BOOLEAN]]

\* The solver is given the clauses of `assumed` and the negation of `claim`.
Refutable(assumed, claim) ==
  \E a \in Assignments(assumed \cup {claim}) : (\A c \in assumed : Sat(c, a)) /\ ~Sat(claim, a)

\* check_require_satisfiable: whether the clause can be false.  Of a clause
\* without variables the counterexample is empty.
SolveRequire(require) ==
  IF ~IsBool(require) THEN "unknown"
  ELSE IF ~Refutable({}, require) THEN "verified"
  ELSE IF IntVars(require) \cup BoolVars(require) = {} THEN "constant" ELSE "counterexample"

\* check_contract: whether the ensure can be false while the requires hold; the
\* ones that are not translated are left out.
SolveContract(requires, ensure) ==
  LET assumed == {requires[i] : i \in {j \in DOMAIN requires : IsBool(requires[j])}}
  IN  IF ~IsBool(ensure) THEN "unknown"
      ELSE IF Refutable(assumed, ensure) THEN "counterexample" ELSE "verified"

-----------------------------------------------------------------------------
IsFalse(e) == e.k = "lit" /\ e.v = BoolV(FALSE)

RECURSIVE HasPrimed(_)
HasPrimed(e) ==
  CASE e.k = "primed" -> TRUE
    [] e.k = "bin" -> HasPrimed(e.left) \/ HasPrimed(e.right)
    [] e.k = "un" -> HasPrimed(e.arg)
    [] e.k = "field" -> HasPrimed(e.object)
    [] OTHER -> FALSE

RECURSIVE RequiresIn(_)
\* collect_inline_requires: what is inside calls, matches and operators is not found.
RequiresIn(e) ==
  LET All(es) == LET to[i \in 0..Len(es)] == IF i = 0 THEN <<>> ELSE to[i - 1] \o RequiresIn(es[i])
                 IN  to[Len(es)]
  IN  CASE e.k = "require" -> <<e.cond>>
        [] e.k = "block" -> All(e.stmts)
        [] e.k = "if" -> All(<<e.cond, e.then, e.else>>)
        [] e.k = "ifthen" -> All(<<e.cond, e.then>>)
        [] e.k \in {"let", "let_"} -> RequiresIn(e.value)
        [] e.k = "transaction" -> RequiresIn(e.inner)
        [] OTHER -> <<>>

RequiresOfSteps(steps) ==
  LET upto[i \in 0..Len(steps)] == IF i = 0 THEN <<>> ELSE upto[i - 1] \o RequiresIn(steps[i].body)
  IN  upto[Len(steps)]
=============================================================================
