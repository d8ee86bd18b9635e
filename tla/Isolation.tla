------------------------------- MODULE Isolation -------------------------------
(***************************************************************************)
(* The machine of module Vm as an implementation of module Activations:    *)
(* how one flat stack is divided among the frames.  The locals of a frame  *)
(* stand from its base on, as many as its chunk has; from there to the     *)
(* base of the next frame, or to the end of the stack, stand its operands. *)
(***************************************************************************)
EXTENDS Vm

\* The program's value is an operand of the frame that halts: the compiler puts
\* Halt only where a value has just been pushed (compiler.rs compile, compile_match).
ASSUME HaltsOnAValue ==
  \A m \in DOMAIN Code : \A c \in 1..Len(Code[m]) : \A i \in 1..Len(Code[m][c].ops) :
    Code[m][c].ops[i].op = "Halt" => StackMap[m][c][i] > 0

-----------------------------------------------------------------------------
\* Where the part of frame i ends.
End(i) == IF i = Len(frames) THEN Len(stack) ELSE frames[i + 1].base

Activation(i) ==
  LET f == frames[i]
  IN  [chunk |-> f.chunk, ip |-> f.ip,
       locals |-> SubSeq(stack, f.base + 1, f.base + f.local_count),
       operands |-> SubSeq(stack, f.base + f.local_count + 1, End(i))]

\* The locals of a frame stand below the base of every later frame: nothing a callee
\* pushes or takes is a local of a call that waits for it (vm.rs Call: the base is
\* taken once the arguments and the Fn value have left the stack).
LocalsApart ==
  \A i, j \in 1..Len(frames) : i < j => frames[i].base + frames[i].local_count <= frames[j].base

Own == INSTANCE Activations WITH calls <- [i \in 1..Len(frames) |-> Activation(i)]

\* Whatever is called from where, running on the flat stack does what running
\* with a stack of its own for every call would: the same values, errors and
\* calls of builtins (vm.rs Call, Return, StoreLocal, LoadLocal, pop).
CallsKeepApart == Own!Spec
=============================================================================
