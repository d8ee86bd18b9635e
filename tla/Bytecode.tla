------------------------------ MODULE Bytecode ------------------------------
(***************************************************************************)
(* Values and instructions of the Nous virtual machine, from               *)
(* crates/nous-runtime/src/{value,bytecode,vm}.rs: what each instruction   *)
(* takes from the operand stack, what it leaves there, what it computes    *)
(* and when it raises a RuntimeError.  Control transfer (jumps, calls,     *)
(* returns) is the business of module Vm.                                  *)
(*                                                                         *)
(* A value is a tuple whose first component is its variant.  Decimals,     *)
(* byte strings, Nat values (which no literal and no builtin produces) and *)
(* the ordering of texts are left out; a text is a sequence of model       *)
(* letters so that `+` can concatenate.                                    *)
(***************************************************************************)
EXTENDS Integers, Sequences

CONSTANTS IntMin, IntMax    \* the bounds of the machine integer, i64 in vm.rs

ASSUME IntWidth == IntMin \in Int /\ IntMax \in Int /\ IntMin < 0 /\ 0 < IntMax

-----------------------------------------------------------------------------
Void == <<"Void">>
BoolV(b) == <<"Bool", b>>
IntV(n) == <<"Int", n>>
TextV(s) == <<"Text", s>>
OkV(v) == <<"Ok", v>>
ErrV(v) == <<"Err", v>>
FnV(name, arity) == <<"Fn", name, arity>>
EnumV(variant, fields) == <<"Enum", variant, fields>>
RecordV(name, fields) == <<"Record", name, fields>>

Tag(v) == v[1]
Inner(v) == v[2]
IsResult(v) == Tag(v) \in {"Ok", "Err"}

\* JumpIfFalse accepts every value: only `false` and Void are false.
Truthy(v) == IF Tag(v) = "Bool" THEN Inner(v) ELSE Tag(v) # "Void"

-----------------------------------------------------------------------------
\* An instruction: its name, its payload and its operand count where it has one.
Instr(op, arg, n) == [op |-> op, arg |-> arg, n |-> n]
Simple(op) == Instr(op, 0, 0)
Const(v) == Instr("LoadConst", v, 0)
Local(slot) == Instr("LoadLocal", slot, 0)
StoreAt(slot) == Instr("StoreLocal", slot, 0)

IntOps == {"Add", "Sub", "Mul", "Div", "Mod"}
OrderOps == {"Lt", "Lte", "Gt", "Gte"}
LogicOps == {"And", "Or"}
BinaryOps == IntOps \cup OrderOps \cup LogicOps \cup {"Eq", "Neq", "UpdateField"}
UnaryOps == {"Not", "Neg", "LoadField", "TupleIndex", "EnumField",
             "WrapOk", "WrapErr", "Unwrap", "UnwrapInner"}
MakeOps == {"MakeRecord", "MakeList", "MakeTuple"}
PeekOps == {"IsOk", "IsErr", "IsVariant", "Dup"}
CheckOps == {"CheckRequire", "CheckEnsure"}
ComputeOps == BinaryOps \cup UnaryOps \cup MakeOps

\* How many operands an instruction takes (PeekOps look at theirs and leave it).
Operands(o) ==
  CASE o.op \in BinaryOps -> 2
    [] o.op \in MakeOps \cup {"CallBuiltin"} -> o.n
    [] o.op = "Call" -> o.n + 1
    [] o.op \in {"LoadConst", "LoadLocal", "Jump", "Halt"} -> 0
    [] OTHER -> 1

\* How many values it leaves in their place, when it goes on in the same frame.
Leaves(o) ==
  CASE o.op \in PeekOps -> 2
    [] o.op \in CheckOps \cup {"StoreLocal", "JumpIfFalse", "Jump", "Halt", "Return"} -> 0
    [] OTHER -> 1

-----------------------------------------------------------------------------
Abs(n) == IF n < 0 THEN -n ELSE n

\* Rust's integer division truncates towards zero and `%` keeps the dividend's sign.
Quotient(l, r) == IF (l < 0) # (r < 0) THEN -(Abs(l) \div Abs(r)) ELSE Abs(l) \div Abs(r)
Remainder(l, r) == l - r * Quotient(l, r)

Exact(op, l, r) ==
  CASE op = "Add" -> l + r
    [] op = "Sub" -> l - r
    [] op = "Mul" -> l * r
    [] op = "Div" -> Quotient(l, r)
    [] OTHER -> Remainder(l, r)

Fits(n) == n \in IntMin..IntMax

\* The error an arithmetic instruction raises on these operands.  A zero divisor
\* is reported before the types are looked at; add, sub, mul and div are
\* checked, while `%` is not: IntMin % -1 panics.
ArithFault(op, l, r) ==
  IF op \in {"Div", "Mod"} /\ r = IntV(0) THEN "DivisionByZero"
  ELSE IF op = "Add" /\ Tag(l) = "Text" /\ Tag(r) = "Text" THEN "none"
  ELSE IF Tag(l) # "Int" \/ Tag(r) # "Int" THEN "TypeMismatch"
  ELSE IF op = "Mod" /\ l = IntV(IntMin) /\ r = IntV(-1) THEN "Panic"
  ELSE IF ~Fits(Exact(op, Inner(l), Inner(r))) THEN "Overflow"
  ELSE "none"

Orders(op, l, r) ==
  CASE op = "Lt" -> l < r
    [] op = "Lte" -> l <= r
    [] op = "Gt" -> r < l
    [] OTHER -> r <= l

UnaryFault(o, v) ==
  CASE o.op = "Not" /\ Tag(v) # "Bool" -> "TypeMismatch"
    [] o.op = "Neg" /\ Tag(v) # "Int" -> "TypeMismatch"
    [] o.op = "Neg" /\ Tag(v) = "Int" -> IF Fits(-Inner(v)) THEN "none" ELSE "Overflow"
    [] o.op = "LoadField" /\ Tag(v) # "Record" -> "NotARecord"
    [] o.op = "LoadField" /\ Tag(v) = "Record" ->
         IF o.arg \in DOMAIN v[3] THEN "none" ELSE "MissingField"
    [] o.op = "TupleIndex" ->
         IF Tag(v) = "Tuple" /\ o.arg < Len(Inner(v)) THEN "none" ELSE "TypeMismatch"
    [] o.op = "EnumField" ->
         IF Tag(v) = "Enum" /\ o.arg < Len(v[3]) THEN "none" ELSE "TypeMismatch"
    [] o.op = "Unwrap" /\ Tag(v) = "Err" -> "UnwrappedErr"
    [] o.op \in {"Unwrap", "UnwrapInner"} /\ ~IsResult(v) -> "TypeMismatch"
    [] OTHER -> "none"

BinaryFault(o, l, r) ==
  CASE o.op \in IntOps -> ArithFault(o.op, l, r)
    [] o.op \in OrderOps -> IF Tag(l) = "Int" /\ Tag(r) = "Int" THEN "none" ELSE "TypeMismatch"
    [] o.op \in LogicOps -> IF Tag(l) = "Bool" /\ Tag(r) = "Bool" THEN "none" ELSE "TypeMismatch"
    [] o.op = "UpdateField" -> IF Tag(l) = "Record" THEN "none" ELSE "TypeMismatch"
    [] OTHER -> "none"

CheckFault(o, v) ==
  CASE Tag(v) # "Bool" -> "TypeMismatch"
    [] v = BoolV(TRUE) -> "none"
    [] OTHER -> IF o.op = "CheckRequire" THEN "RequireViolated" ELSE "EnsureViolated"

\* The error the instruction raises on operands `a`, the deepest first, or "none".
OperandFault(o, a) ==
  CASE o.op \in BinaryOps -> BinaryFault(o, a[1], a[2])
    [] o.op \in UnaryOps -> UnaryFault(o, a[1])
    [] o.op \in CheckOps -> CheckFault(o, a[1])
    [] OTHER -> "none"

-----------------------------------------------------------------------------
UnaryResult(o, v) ==
  CASE o.op = "Not" -> BoolV(~Inner(v))
    [] o.op = "Neg" -> IntV(-Inner(v))
    [] o.op = "LoadField" -> v[3][o.arg]
    [] o.op = "TupleIndex" -> Inner(v)[o.arg + 1]
    [] o.op = "EnumField" -> v[3][o.arg + 1]
    [] o.op = "WrapOk" -> OkV(v)
    [] o.op = "WrapErr" -> ErrV(v)
    [] OTHER -> Inner(v)                              \* Unwrap, UnwrapInner

BinaryResult(o, l, r) ==
  CASE o.op \in IntOps -> IF Tag(l) = "Text" THEN TextV(Inner(l) \o Inner(r))
                          ELSE IntV(Exact(o.op, Inner(l), Inner(r)))
    [] o.op \in OrderOps -> BoolV(Orders(o.op, Inner(l), Inner(r)))
    [] o.op = "And" -> BoolV(Inner(l) /\ Inner(r))
    [] o.op = "Or" -> BoolV(Inner(l) \/ Inner(r))
    [] o.op = "Eq" -> BoolV(l = r)
    [] o.op = "Neq" -> BoolV(l # r)
    [] OTHER -> RecordV(l[2], [f \in DOMAIN l[3] \cup {o.arg} |->
                                  IF f = o.arg THEN r ELSE l[3][f]])

\* Mutant: IsErr answers what IsOk answers.
PeekResultOkOnly(o, v) ==
  CASE o.op \in {"IsOk", "IsErr"} -> BoolV(Tag(v) = "Ok")
    [] o.op = "IsVariant" -> BoolV(Tag(v) = "Enum" /\ v[2] = o.arg)
    [] OTHER -> v

PeekResult(o, v) ==
  CASE o.op = "IsOk" -> BoolV(Tag(v) = "Ok")
    [] o.op = "IsErr" -> BoolV(Tag(v) = "Err")
    [] o.op = "IsVariant" -> BoolV(Tag(v) = "Enum" /\ v[2] = o.arg)
    [] OTHER -> v                                     \* Dup

\* Record fields are zipped with their values; a repeated name keeps the last.
MakeResult(o, a) ==
  CASE o.op = "MakeList" -> <<"List", a>>
    [] o.op = "MakeTuple" -> <<"Tuple", a>>
    [] OTHER -> LET names == o.arg[2]
                IN  RecordV(o.arg[1],
                      [f \in {names[i] : i \in DOMAIN names} |->
                         a[CHOOSE i \in DOMAIN names :
                             names[i] = f /\ \A j \in DOMAIN names : names[j] = f => j <= i]])

\* Mutant: UnwrapInner leaves the Ok in place.
ResultStillWrapped(o, a) ==
  CASE o.op \in BinaryOps -> BinaryResult(o, a[1], a[2])
    [] o.op \in UnaryOps -> IF o.op = "UnwrapInner" THEN a[1] ELSE UnaryResult(o, a[1])
    [] OTHER -> MakeResult(o, a)

\* The value a compute instruction pushes.
Result(o, a) ==
  CASE o.op \in BinaryOps -> BinaryResult(o, a[1], a[2])
    [] o.op \in UnaryOps -> UnaryResult(o, a[1])
    [] OTHER -> MakeResult(o, a)
=============================================================================
