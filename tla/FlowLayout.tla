------------------------------- MODULE FlowLayout -------------------------------
(***************************************************************************)
(* The machine of module Vm running flows: what Compiler::compile_flow     *)
(* (crates/nous-runtime/src/compiler.rs) makes of the flow                 *)
(*                                                                         *)
(*     flow name(x) require x > 0                                          *)
(*       step one: do1(x), rollback: undo1(one_result), ...                *)
(*                                                                         *)
(* called by `let out = name(input); out`, for any number of steps, as a   *)
(* condition on the code and not as a compiler: which instructions stand   *)
(* where.  The body of a step is a call of a builtin or of a function of   *)
(* the program that makes that call, either with `?` or without.           *)
(*                                                                         *)
(* Under this assumption, module Saga is what the machine implements.      *)
(***************************************************************************)
EXTENDS Isolation, FiniteSets

CONSTANTS Flows,      \* module id -> the flow it runs, as module Saga has it
          Layout      \* module id -> where the parts of the flow are, see LaidOut

Abstract == INSTANCE Saga WITH
  Results <- BuiltinResults, Raising <- FailingBuiltins,
  flow <- module, log <- effects, status <- outcome

-----------------------------------------------------------------------------
\* The instructions of `code` stand in a chunk from position p on.
Stand(chunk, p, code) == \A k \in DOMAIN code : chunk.ops[p + k - 1] = code[k]

\* The first chunk that bears the name is chunk c.
IsCallee(chunks, name, c) ==
  /\ c \in 1..Len(chunks) /\ chunks[c].name = name
  /\ \A b \in 1..(c - 1) : chunks[b].name # name

\* let out = name(input); out
MainCode(name, input) ==
  <<Const(FnV(name, 1)), Const(input), Instr("Call", 0, 1), StoreAt(0),
    Const(Void), StoreAt(1), Local(0), Simple("Halt")>>

\* require x > 0
GuardCode == <<Local(0), Const(IntV(0)), Simple("Gt"), Simple("CheckRequire")>>

\* A function with the parameter y and the body do(y).
WrapperCode(do) == <<Local(0), Instr("CallBuiltin", do, 1), Simple("Return")>>

\* The slots of the flow: its parameter, the error, the steps' results.
ErrorSlot == 1
ResultSlot(i) == i + 1
InputSlot(i) == IF i = 1 THEN 0 ELSE ResultSlot(i - 1)

\* The call a step makes, directly or through the wrapper of this name.
DirectCode(i, do) == <<Local(InputSlot(i)), Instr("CallBuiltin", do, 1)>>
WrappedCode(i, wrapper) ==
  <<Const(FnV(wrapper, 1)), Local(InputSlot(i)), Instr("Call", 0, 1)>>

\* What is done with what step i yields: an Err goes to the error slot and to
\* the rollbacks, Ok(v) and a bare v leave v in the step's slot.  q is where
\* this code stands, chain where the rollbacks do.
TestCode(i, q, chain) ==
  <<Simple("Dup"), Simple("IsErr"), Instr("JumpIfFalse", q + 5, 0),
    StoreAt(ErrorSlot), Instr("Jump", chain, 0),
    Simple("Dup"), Simple("IsOk"), Instr("JumpIfFalse", q + 9, 0),
    Simple("UnwrapInner"), StoreAt(ResultSlot(i))>>

AnswerCode(n) ==
  <<IF n = 0 THEN Const(Void) ELSE Local(ResultSlot(n)), Simple("WrapOk"), Simple("Return")>>

UndoCode(i, undo, drop) == <<Local(ResultSlot(i)), Instr("CallBuiltin", undo, 1), StoreAt(drop)>>
ReportCode == <<Local(ErrorSlot), Simple("Return")>>

\* Module m is the code of its flow: the flow is chunk l.chunk; step i starts at
\* l.start[i], makes its call through chunk l.via[i] unless that is 0, and its
\* value is there at l.test[i]; the answer is at l.start[n + 1]; the rollbacks
\* begin at l.chain, that of step i is at l.back[i] and stores what it returns
\* in slot l.drop[i]; the error is answered at l.back[0].
LaidOut(m) ==
  LET f == Flows[m]
      l == Layout[m]
      n == Len(f.steps)
      chunks == Code[m]
      body == chunks[l.chunk]
      undos == {i \in 1..n : f.steps[i].undo # "nothing"}
      ends == undos \cup {0}
      After(i) == l.start[i] + IF l.via[i] = 0 THEN 2 ELSE 3
  IN  /\ IsSequence(f.steps)
      /\ \A i \in 1..n : f.steps[i].try \in BOOLEAN
      /\ Inner(f.input) \in Int /\ f.input = IntV(Inner(f.input))
      /\ f.admitted = (0 < Inner(f.input))
      /\ chunks[1].local_count = 2
      /\ Stand(chunks[1], 1, MainCode(l.name, f.input))
      /\ IsCallee(chunks, l.name, l.chunk)
      /\ body.local_count > n + 1
      /\ Stand(body, 1, GuardCode) /\ l.start[1] = 5
      /\ l.start \in [1..(n + 1) -> Nat] /\ l.test \in [1..n -> Nat] /\ l.back \in [ends -> Nat]
      /\ \A i \in 1..n :
           /\ l.via[i] = 0 => Stand(body, l.start[i], DirectCode(i, f.steps[i].do))
           /\ l.via[i] # 0 =>
                LET wrapper == chunks[l.via[i]]
                IN  /\ IsCallee(chunks, wrapper.name, l.via[i])
                    /\ wrapper.local_count = 1
                    /\ Stand(wrapper, 1, WrapperCode(f.steps[i].do))
                    /\ Stand(body, l.start[i], WrappedCode(i, wrapper.name))
           /\ f.steps[i].try => /\ body.ops[After(i)] = Simple("Unwrap")
                                /\ l.test[i] = After(i) + 1
           /\ ~f.steps[i].try => l.test[i] = After(i)
           /\ Stand(body, l.test[i], TestCode(i, l.test[i], l.chain))
           /\ l.start[i + 1] = l.test[i] + 10
      /\ Stand(body, l.start[n + 1], AnswerCode(n))
      /\ \A i \in undos :
           /\ Stand(body, l.back[i], UndoCode(i, f.steps[i].undo, l.drop[i]))
           /\ l.drop[i] > n + 1
           /\ \A j \in ends : j < i /\ (\A k \in undos : k < i => k <= j) => l.back[j] = l.back[i] + 3
      /\ \A i \in ends : (\A j \in undos : j <= i) => l.back[i] = l.chain
      /\ Stand(body, l.back[0], ReportCode)

ASSUME FlowsLaidOut == DOMAIN Flows = DOMAIN Code /\ \A m \in DOMAIN Code : LaidOut(m)

-----------------------------------------------------------------------------
\* Compiled and run, a flow does what module Saga says and, as the VM keeps
\* stepping, ends as Saga says (compiler.rs compile_flow, vm.rs step).
ImplementsSaga == Abstract!Spec

\* The two properties are said in module Saga, of the calls the machine makes
\* and the value the program ends with.
\* A flow that answers with an Err has undone every completed step that has a
\* rollback, once, with the value that step produced, and a later step before
\* an earlier one; the Err is the failing step's own (compiler.rs:207-209).
CompletedStepsCompensated == Abstract!Compensated

\* A flow that answers with an Ok has completed every step, in order and once,
\* has undone none, and gives the last step's value (compiler.rs:269-278).
SuccessMeansAllDone == Abstract!AllDone
=============================================================================
