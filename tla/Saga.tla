---------------------------------- MODULE Saga ----------------------------------
(***************************************************************************)
(* What a compiled flow does, seen from the calls it makes: the abstract   *)
(* specification of the code emitted by Compiler::compile_flow             *)
(* (crates/nous-runtime/src/compiler.rs) as the VM runs it.                *)
(*                                                                         *)
(* The steps run in order, each given the previous step's value.  A step   *)
(* that yields an Err turns the flow round: the rollback of EVERY step of  *)
(* the flow runs, the last step's first, the failing step's and those of   *)
(* steps that were never reached included (they are given Void), and what  *)
(* a rollback returns is dropped.  A step written with `?` yields what is  *)
(* inside the Ok its call returns; when the call returns anything else,    *)
(* and when any call raises, the program ends with nothing undone.         *)
(***************************************************************************)
EXTENDS Bytecode, FiniteSets

CONSTANTS Flows,     \* flow -> [input, admitted, steps]; a step is [do, undo, try]
          Results,   \* name -> the values a call of it may return
          Raising    \* the names whose call may raise an error

VARIABLES flow, log, status

vars == <<flow, log, status>>

Nothing == "nothing"

steps == Flows[flow].steps
Calls == DOMAIN log

\* The first calls are those of the steps, in order.  `?` stops the program
\* at anything but an Ok.
Stops(i) == steps[i].try /\ Tag(log[i].result) # "Ok"
Got(i) == IF steps[i].try THEN Inner(log[i].result) ELSE log[i].result
Fails(i) == ~Stops(i) /\ Tag(Got(i)) = "Err"
Completes(i) == ~Stops(i) /\ Tag(Got(i)) # "Err"

Errs == {i \in Calls \cap DOMAIN steps : Fails(i)}
Broken == Errs # {}
failed == CHOOSE i \in Errs : \A j \in Errs : i <= j
Stopped == ~Broken /\ log # <<>> /\ Stops(Len(log))

\* What step i left for others to use.
Left(i) == IF IsResult(Got(i)) THEN Inner(Got(i)) ELSE Got(i)
Value(i) == IF i \notin Calls \/ (Broken /\ failed <= i) THEN Void ELSE Left(i)
Input(i) == IF i = 1 THEN Flows[flow].input ELSE Value(i - 1)

\* The steps with a rollback, and how many of their rollbacks come before that of step i.
UndoSteps == {i \in DOMAIN steps : steps[i].undo # Nothing}
Before(i) == Cardinality({j \in UndoSteps : j > i})
undone == Len(log) - failed

-----------------------------------------------------------------------------
Records(name, arg, v) == log' = Append(log, [name |-> name, args |-> <<arg>>, result |-> v])

\* Make a call, which returns a value or raises an error.
Calling(name, arg) ==
  \/ /\ \E v \in Results[name] : Records(name, arg, v)
     /\ UNCHANGED <<flow, status>>
  \/ /\ name \in Raising
     /\ Records(name, arg, <<"Raised">>)
     /\ status' = <<"error", "Builtin">>
     /\ UNCHANGED flow

Running == status = <<"running">>
Onward == Running /\ Flows[flow].admitted /\ ~Broken /\ ~Stopped

Reject ==
  /\ Running /\ ~Flows[flow].admitted
  /\ status' = <<"error", "RequireViolated">>
  /\ UNCHANGED <<flow, log>>

DoStep ==
  /\ Onward /\ Len(log) < Len(steps)
  /\ LET i == Len(log) + 1 IN Calling(steps[i].do, Input(i))

\* What `?` does not let through is an error of the program, which no rollback follows.
Abort ==
  /\ Running /\ Stopped
  /\ status' = <<"error", IF Tag(log[Len(log)].result) = "Err" THEN "UnwrappedErr" ELSE "TypeMismatch">>
  /\ UNCHANGED <<flow, log>>

UndoStep ==
  /\ Running /\ Broken
  /\ \E i \in UndoSteps : undone = Before(i) /\ Calling(steps[i].undo, Value(i))

Report ==
  /\ Running /\ Broken /\ undone = Cardinality(UndoSteps)
  /\ status' = <<"value", Got(failed)>>
  /\ UNCHANGED <<flow, log>>

Succeed ==
  /\ Onward /\ Len(log) = Len(steps)
  /\ status' = <<"value", OkV(IF steps = <<>> THEN Void ELSE Value(Len(steps)))>>
  /\ UNCHANGED <<flow, log>>

Init == flow \in DOMAIN Flows /\ log = <<>> /\ Running

Next == Reject \/ DoStep \/ Abort \/ UndoStep \/ Report \/ Succeed

Safety == Init /\ [][Next]_vars

\* The flow goes on until it has a value or an error.
Spec == Safety /\ WF_vars(Next)

-----------------------------------------------------------------------------
CalledWith(i, name, arg) == log[i].name = name /\ log[i].args = <<arg>>
Gave(i) == IF i = 0 THEN Flows[flow].input ELSE Left(i)

\* A flow that answers with an Err answers with the Err of one of its steps, up
\* to which every step completed, given what the step before it left.  Every
\* call made since is a rollback: each step that has one was rolled back exactly
\* once, a later step before an earlier one, and those that had completed were
\* given what they had left (compiler.rs:207-209).
Compensated ==
  status[1] = "value" /\ Tag(status[2]) = "Err" =>
    \E f \in Calls \cap DOMAIN steps :
      /\ status[2] = Got(f) /\ Fails(f)
      /\ \A i \in 1..f : CalledWith(i, steps[i].do, Gave(i - 1))
      /\ \A i \in 1..(f - 1) : Completes(i)
      /\ \E call \in [UndoSteps -> (f + 1)..Len(log)] :
           /\ \A k \in (f + 1)..Len(log) : \E i \in UndoSteps : call[i] = k
           /\ \A i, j \in UndoSteps : i < j => call[j] < call[i]
           /\ \A i \in UndoSteps :
                CalledWith(call[i], steps[i].undo, IF i < f THEN Left(i) ELSE Void)

\* A flow that answers with an Ok was admitted and has completed every step, in
\* order, once and given what the step before it left; it has called nothing
\* else, and gives what the last step left (compiler.rs:269-278).
AllDone ==
  status[1] = "value" /\ Tag(status[2]) = "Ok" =>
    /\ Flows[flow].admitted
    /\ Len(log) = Len(steps)
    /\ \A i \in DOMAIN steps : CalledWith(i, steps[i].do, Gave(i - 1)) /\ Completes(i)
    /\ Inner(status[2]) = IF steps = <<>> THEN Void ELSE Left(Len(steps))
=============================================================================
