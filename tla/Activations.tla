------------------------------ MODULE Activations ------------------------------
(***************************************************************************)
(* What the virtual machine promises the compiler: every call of a         *)
(* function has locals and operands of its own.  The abstract              *)
(* specification of crates/nous-runtime/src/vm.rs, whose frames share one  *)
(* flat stack; here an activation is a chunk, a position in it, a sequence *)
(* of locals and a stack of operands, and no instruction can reach those   *)
(* of another, except that a value returned is pushed for the caller.      *)
(* There are no structural errors either: no underflow, no local or jump   *)
(* out of range.                                                           *)
(***************************************************************************)
EXTENDS Bytecode

CONSTANTS Code,             \* the compiled modules: id -> sequence of chunks
          BuiltinResults,   \* builtin name -> the values it may return
          FailingBuiltins   \* the builtins that may raise an error

VARIABLES module,    \* the id of the module being run
          calls,     \* the activations, the active one last
          outcome,   \* running, or what the program came to
          effects    \* history: the builtin calls made

vars == <<module, calls, outcome, effects>>

Running == <<"running">>
Finished(v) == <<"value", v>>
Failed(e) == <<"error", e>>

me == calls[Len(calls)]
Callers == SubSeq(calls, 1, Len(calls) - 1)
op == Code[module][me.chunk].ops[me.ip]
Taken == SubSeq(me.operands, Len(me.operands) - Operands(op) + 1, Len(me.operands))
Left == SubSeq(me.operands, 1, Len(me.operands) - Operands(op))

\* The first chunk that bears a name.
Named(name) == {c \in 1..Len(Code[module]) : Code[module][c].name = name}
Callee(name) == CHOOSE c \in Named(name) : \A b \in Named(name) : c <= b

CallFault(f) ==
  IF Tag(f) # "Fn" THEN "TypeMismatch"
  ELSE IF Named(f[2]) = {} THEN "UndefinedChunk"
  ELSE "none"
Fault == IF op.op = "Call" THEN CallFault(Taken[1]) ELSE OperandFault(op, Taken)

Executes(group) == outcome = Running /\ op.op \in group /\ Fault = "none"

\* A call begins with its arguments as the first locals, Void in the others, and
\* arguments beyond the locals as operands.
Begun(c, args) ==
  LET n == Code[module][c].local_count
  IN  [chunk |-> c, ip |-> 1,
       locals |-> [i \in 1..n |-> IF i <= Len(args) THEN args[i] ELSE Void],
       operands |-> SubSeq(args, n + 1, Len(args))]

\* The active call as it goes on at i with these locals and operands.
Gone(i, locals, operands) ==
  [chunk |-> me.chunk, ip |-> i, locals |-> locals, operands |-> operands]
GoesOn(i, locals, operands) == calls' = Append(Callers, Gone(i, locals, operands))
Push(v) == GoesOn(me.ip + 1, me.locals, Append(Left, v))

Target == IF op.op = "Jump" \/ ~Truthy(Taken[1]) THEN op.arg ELSE me.ip + 1

-----------------------------------------------------------------------------
\* An instruction that only concerns its own activation.
Work ==
  /\ \/ Executes({"LoadConst"}) /\ Push(op.arg)
     \/ Executes({"LoadLocal"}) /\ Push(me.locals[op.arg + 1])
     \/ Executes(ComputeOps) /\ Push(Result(op, Taken))
     \/ Executes(PeekOps) /\ GoesOn(me.ip + 1, me.locals, Append(me.operands, PeekResult(op, Taken[1])))
     \/ Executes(CheckOps) /\ GoesOn(me.ip + 1, me.locals, Left)
     \/ /\ Executes({"StoreLocal"})
        /\ GoesOn(me.ip + 1, [me.locals EXCEPT ![op.arg + 1] = Taken[1]], Left)
     \/ Executes({"Jump", "JumpIfFalse"}) /\ GoesOn(Target, me.locals, Left)
  /\ UNCHANGED <<module, outcome, effects>>

Call ==
  /\ Executes({"Call"})
  /\ calls' = Callers \o <<Gone(me.ip + 1, me.locals, Left),
                           Begun(Callee(Taken[1][2]), Tail(Taken))>>
  /\ UNCHANGED <<module, outcome, effects>>

Return ==
  /\ Executes({"Return"})
  /\ IF Len(calls) = 1
     THEN calls' = Callers /\ outcome' = Finished(Taken[1])
     ELSE /\ calls' = [Callers EXCEPT ![Len(Callers)].operands = Append(@, Taken[1])]
          /\ UNCHANGED outcome
  /\ UNCHANGED <<module, effects>>

Halt ==
  /\ Executes({"Halt"})
  /\ outcome' = Finished(me.operands[Len(me.operands)])
  /\ GoesOn(me.ip + 1, me.locals, me.operands)
  /\ UNCHANGED <<module, effects>>

CallBuiltin ==
  /\ Executes({"CallBuiltin"})
  /\ \E v \in BuiltinResults[op.arg] :
       /\ Push(v)
       /\ effects' = Append(effects, [name |-> op.arg, args |-> Taken, result |-> v])
  /\ UNCHANGED <<module, outcome>>

BuiltinFails ==
  /\ Executes({"CallBuiltin"})
  /\ op.arg \in FailingBuiltins
  /\ effects' = Append(effects, [name |-> op.arg, args |-> Taken, result |-> <<"Raised">>])
  /\ outcome' = Failed("Builtin")
  /\ UNCHANGED <<module, calls>>

\* An error of the language ends the program.
Fails ==
  /\ outcome = Running
  /\ Fault # "none"
  /\ outcome' = Failed(Fault)
  /\ UNCHANGED <<module, calls, effects>>

-----------------------------------------------------------------------------
Init ==
  /\ module \in DOMAIN Code
  /\ calls = <<Begun(1, <<>>)>>
  /\ outcome = Running
  /\ effects = <<>>

Next == Work \/ Call \/ Return \/ Halt \/ CallBuiltin \/ BuiltinFails \/ Fails

Spec == Init /\ [][Next]_vars
=============================================================================
