---------------------------------- MODULE Vm ----------------------------------
(***************************************************************************)
(* The stack machine of crates/nous-runtime/src/vm.rs: Vm::execute, one    *)
(* action per group of instructions of Vm::step.  One flat stack holds the *)
(* locals and the operands of every active frame; a frame is only a base   *)
(* into it, and `pop` checks nothing but that the whole stack is not empty *)
(* - nothing in the machine stops a callee from consuming its caller's     *)
(* operands.  What does is a property of the code it runs (Balanced).      *)
(*                                                                         *)
(* Chunks, instructions and stack positions are counted from 1, local      *)
(* slots from 0 as in the code.  LoadConst carries its constant.  What a   *)
(* builtin returns is up to the world: BuiltinResults gives the values it  *)
(* may return, FailingBuiltins those that may raise a RuntimeError, and    *)
(* `effects` records what was called, in order.                            *)
(***************************************************************************)
EXTENDS Bytecode

CONSTANTS Code,             \* the compiled modules: id -> sequence of chunks
          StackMap,         \* id -> chunk -> ip -> operands surely there
          BuiltinResults,   \* builtin name -> the values it may return
          FailingBuiltins   \* the builtins that may raise an error

VARIABLES module,    \* the id of the module being run
          stack,     \* Vm.stack
          frames,    \* Vm.frames, the active one last
          outcome,   \* running, or what execute returned
          effects    \* history: the builtin calls made

vars == <<module, stack, frames, outcome, effects>>

Running == <<"running">>
Finished(v) == <<"value", v>>
Failed(e) == <<"error", e>>
Raised == <<"Raised">>

\* The faults that no program of the language may ever cause.
StructuralFaults == {"StackUnderflow", "LocalOutOfRange", "InvalidJump", "Internal"}

-----------------------------------------------------------------------------
(* Well-formed code: `d[i]` operands are on the stack, above the locals of *)
(* the frame, whenever the instruction at i is about to run.               *)

\* Where control may go next in the same frame.
Successors(ops, i) ==
  CASE ops[i].op \in {"Return", "Halt"} -> {}
    [] ops[i].op = "Jump" -> {ops[i].arg}
    [] ops[i].op = "JumpIfFalse" -> {i + 1, ops[i].arg}
    [] OTHER -> {i + 1}

Balanced(chunk, d) ==
  LET ops == chunk.ops
  IN  /\ Len(ops) > 0
      /\ d \in [1..Len(ops) -> Nat]
      /\ d[1] = 0
      /\ \A i \in 1..Len(ops) :
           /\ ops[i].n \in Nat
           /\ Operands(ops[i]) <= d[i]
           /\ ops[i].op \in {"LoadLocal", "StoreLocal"} => ops[i].arg \in 0..(chunk.local_count - 1)
           /\ Successors(ops, i) \subseteq 1..Len(ops)
           /\ \A j \in Successors(ops, i) : d[j] <= d[i] - Operands(ops[i]) + Leaves(ops[i])

ASSUME CodeBalanced ==
  \A m \in DOMAIN Code :
    /\ Len(Code[m]) \in Nat \ {0}
    /\ \A c \in 1..Len(Code[m]) :
         /\ Code[m][c].local_count \in Nat
         /\ Len(Code[m][c].ops) \in Nat
         /\ Balanced(Code[m][c], StackMap[m][c])

-----------------------------------------------------------------------------
\* Mutant: the two numbers swapped.
FrameSwapped(c, base, n) == [chunk |-> c, ip |-> 1, base |-> n, local_count |-> base]
Frame(c, base, n) == [chunk |-> c, ip |-> 1, base |-> base, local_count |-> n]

\* Mutant: locals are not filled.
NoVoids(n) == <<>>
Voids(n) == [i \in 1..n |-> Void]

top == frames[Len(frames)]
ops == Code[module][top.chunk].ops
op == ops[top.ip]

Args == SubSeq(stack, Len(stack) - Operands(op) + 1, Len(stack))
Rest == SubSeq(stack, 1, Len(stack) - Operands(op))

\* Call looks its callee up by name: the first chunk that bears it.
Chunks == 1..Len(Code[module])
Named(name) == {c \in Chunks : Code[module][c].name = name}
Callee(name) == CHOOSE c \in Named(name) : \A d \in Named(name) : c <= d

CallFault(f) ==
  IF Tag(f) # "Fn" THEN "TypeMismatch"
  ELSE IF Named(f[2]) = {} THEN "UndefinedChunk"
  ELSE "none"

JumpTaken == op.op = "Jump" \/ (op.op = "JumpIfFalse" /\ ~Truthy(Args[1]))

\* The RuntimeError the next step returns, or "none"; in the order of the checks.
Fault ==
  IF top.ip > Len(ops) THEN "Internal"
  ELSE IF op.op \in {"LoadLocal", "StoreLocal"} /\ op.arg >= top.local_count THEN "LocalOutOfRange"
  ELSE IF Len(stack) < Operands(op) THEN "StackUnderflow"
  ELSE IF op.op = "LoadLocal" /\ top.base + op.arg >= Len(stack) THEN "Internal"
  ELSE IF JumpTaken /\ op.arg > Len(ops) + 1 THEN "InvalidJump"
  ELSE IF op.op = "Call" THEN CallFault(Args[1])
  ELSE OperandFault(op, Args)

\* The next step executes an instruction of this group and raises no error.
Executes(group) == outcome = Running /\ Fault = "none" /\ op.op \in group

GoTo(i) == frames' = [frames EXCEPT ![Len(frames)].ip = i]
Proceed == GoTo(top.ip + 1)
Push(v) == stack' = Append(Rest, v)

-----------------------------------------------------------------------------
LoadConst ==
  /\ Executes({"LoadConst"})
  /\ Push(op.arg)
  /\ Proceed
  /\ UNCHANGED <<module, outcome, effects>>

LoadLocal ==
  /\ Executes({"LoadLocal"})
  /\ Push(stack[top.base + op.arg + 1])
  /\ Proceed
  /\ UNCHANGED <<module, outcome, effects>>

\* The stack is extended with Void up to the slot if the slot is not there yet.
StoreLocal ==
  /\ Executes({"StoreLocal"})
  /\ LET slot == top.base + op.arg + 1
         size == IF Len(Rest) < slot THEN slot ELSE Len(Rest)
     IN  stack' = [i \in 1..size |-> IF i = slot THEN Args[1]
                                     ELSE IF i <= Len(Rest) THEN Rest[i] ELSE Void]
  /\ Proceed
  /\ UNCHANGED <<module, outcome, effects>>

Compute ==
  /\ Executes(ComputeOps)
  /\ Push(Result(op, Args))
  /\ Proceed
  /\ UNCHANGED <<module, outcome, effects>>

Peek ==
  /\ Executes(PeekOps)
  /\ stack' = Append(stack, PeekResult(op, Args[1]))
  /\ Proceed
  /\ UNCHANGED <<module, outcome, effects>>

Check ==
  /\ Executes(CheckOps)
  /\ stack' = Rest
  /\ Proceed
  /\ UNCHANGED <<module, outcome, effects>>

\* Mutant: an unpatched jump.
JumpToItself ==
  /\ Executes({"Jump", "JumpIfFalse"})
  /\ stack' = Rest
  /\ IF JumpTaken THEN GoTo(top.ip) ELSE Proceed
  /\ UNCHANGED <<module, outcome, effects>>

Jump ==
  /\ Executes({"Jump", "JumpIfFalse"})
  /\ stack' = Rest
  /\ IF JumpTaken THEN GoTo(op.arg) ELSE Proceed
  /\ UNCHANGED <<module, outcome, effects>>

\* The Fn value leaves the stack, the arguments become the callee's first
\* locals and its other locals are filled with Void.  Nothing compares the
\* number of arguments with the number of parameters.
Call ==
  /\ Executes({"Call"})
  /\ LET c == Callee(Args[1][2])
         locals == Code[module][c].local_count
         fill == IF op.n < locals THEN locals - op.n ELSE 0
     IN  /\ stack' = Rest \o Tail(Args) \o Voids(fill)
         /\ frames' = Append([frames EXCEPT ![Len(frames)].ip = top.ip + 1],
                             Frame(c, Len(Rest), locals))
  /\ UNCHANGED <<module, outcome, effects>>

\* Mutants: the caller's last operand goes too; the value is not pushed.
ReturnTooDeep ==
  /\ Executes({"Return"})
  /\ LET below == SubSeq(Rest, 1, top.base - 1)
     IN  IF Len(frames) = 1
         THEN stack' = below /\ outcome' = Finished(Args[1])
         ELSE stack' = Append(below, Args[1]) /\ UNCHANGED outcome
  /\ frames' = SubSeq(frames, 1, Len(frames) - 1)
  /\ UNCHANGED <<module, effects>>
ReturnNothing ==
  /\ Executes({"Return"})
  /\ stack' = SubSeq(Rest, 1, top.base)
  /\ IF Len(frames) = 1 THEN outcome' = Finished(Args[1]) ELSE UNCHANGED outcome
  /\ frames' = SubSeq(frames, 1, Len(frames) - 1)
  /\ UNCHANGED <<module, effects>>

\* The frame and everything it left on the stack go; its value is pushed for
\* the caller, or is the program's value when there is none.
Return ==
  /\ Executes({"Return"})
  /\ LET below == SubSeq(Rest, 1, IF top.base < Len(Rest) THEN top.base ELSE Len(Rest))
     IN  IF Len(frames) = 1
         THEN stack' = below /\ outcome' = Finished(Args[1])
         ELSE stack' = Append(below, Args[1]) /\ UNCHANGED outcome
  /\ frames' = SubSeq(frames, 1, Len(frames) - 1)
  /\ UNCHANGED <<module, effects>>

\* Halt ends the program from whatever frame executes it.
Halt ==
  /\ Executes({"Halt"})
  /\ outcome' = Finished(IF stack = <<>> THEN Void ELSE stack[Len(stack)])
  /\ Proceed
  /\ UNCHANGED <<module, stack, effects>>

CallBuiltin ==
  /\ Executes({"CallBuiltin"})
  /\ \E v \in BuiltinResults[op.arg] :
       /\ Push(v)
       /\ effects' = Append(effects, [name |-> op.arg, args |-> Args, result |-> v])
  /\ Proceed
  /\ UNCHANGED <<module, outcome>>

\* Mutant: what a builtin raises is a value like another.
BuiltinFailsSoftly ==
  /\ Executes({"CallBuiltin"})
  /\ op.arg \in FailingBuiltins
  /\ Push(ErrV(TextV(<<"raised">>)))
  /\ effects' = Append(effects, [name |-> op.arg, args |-> Args, result |-> Raised])
  /\ Proceed
  /\ UNCHANGED <<module, outcome>>

\* A builtin that raises ends the program: no frame can catch a RuntimeError.
BuiltinFails ==
  /\ Executes({"CallBuiltin"})
  /\ op.arg \in FailingBuiltins
  /\ effects' = Append(effects, [name |-> op.arg, args |-> Args, result |-> Raised])
  /\ outcome' = Failed("Builtin")
  /\ UNCHANGED <<module, stack, frames>>

\* What the failing instruction took off the stack goes with the machine.
Fails ==
  /\ outcome = Running
  /\ Fault # "none"
  /\ outcome' = Failed(Fault)
  /\ UNCHANGED <<module, stack, frames, effects>>

\* execute has returned: the machine is dropped.
Returned == outcome # Running /\ UNCHANGED vars

-----------------------------------------------------------------------------
Init ==
  /\ module \in DOMAIN Code
  /\ stack = Voids(Code[module][1].local_count)
  /\ frames = <<Frame(1, 0, Code[module][1].local_count)>>
  /\ outcome = Running
  /\ effects = <<>>

Next ==
  \/ LoadConst \/ LoadLocal \/ StoreLocal \/ Compute \/ Peek \/ Check
  \/ Jump \/ Call \/ Return \/ Halt \/ CallBuiltin \/ BuiltinFails \/ Fails
  \/ Returned

Spec == Init /\ [][Next]_vars

\* `execute` is a loop that calls step until it returns.
FairSpec == Spec /\ WF_vars(Next)

-----------------------------------------------------------------------------
IsSequence(s) == s \in Seq({s[i] : i \in DOMAIN s})

\* The frames are a stack of activations of chunks of the module.
TypeOK ==
  /\ module \in DOMAIN Code
  /\ IsSequence(stack)
  /\ IsSequence(effects)
  /\ frames \in Seq([chunk : Chunks, ip : Nat \ {0}, base : Nat, local_count : Nat])
  /\ outcome = Running => frames # <<>>
  /\ \A i \in 1..Len(frames) :
       /\ frames[i].ip <= Len(Code[module][frames[i].chunk].ops) + 1
       /\ frames[i].local_count = Code[module][frames[i].chunk].local_count

\* Where a frame's guaranteed operands end.
Floor(f) == f.base + f.local_count + StackMap[module][f.chunk][f.ip]

\* Every active frame finds at least the operands its code counts on: the top
\* frame on the stack, a suspended one below its callee's frame, where the
\* value the callee returns is still to come.
OperandsThere ==
  /\ outcome = Running =>
       /\ \A i \in 1..Len(frames) : frames[i].ip <= Len(Code[module][frames[i].chunk].ops)
       /\ Floor(top) <= Len(stack)
       /\ \A i \in 1..(Len(frames) - 1) : Floor(frames[i]) <= frames[i + 1].base + 1

\* Running balanced code, the machine never underflows its stack, never reaches
\* past a frame's locals, never jumps or runs off the end of a chunk
\* (vm.rs pop, LoadLocal, StoreLocal, Jump and the ip check of step).
NoStructuralFault == \A e \in StructuralFaults : outcome # Failed(e)

\* A step never changes what lies below the base of the frame that takes it:
\* a callee cannot touch its caller's locals or pending operands, whatever
\* `pop` would let it do (vm.rs Call, Return, pop).
BelowBaseUnchanged ==
  outcome = Running =>
    \A i \in 1..top.base : i <= Len(stack) /\ i <= Len(stack') /\ stack'[i] = stack[i]

FrameIsolation == [][BelowBaseUnchanged]_vars
=============================================================================
