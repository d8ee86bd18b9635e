-------------------------------- MODULE VmProofs --------------------------------
(***************************************************************************)
(* Proofs about module Vm, for every compiled module that is balanced      *)
(* (assumption CodeBalanced) and whatever the builtins return.             *)
(*                                                                         *)
(* The first part is about any such module: the types, the operands each   *)
(* frame counts on, the absence of structural errors and the isolation of  *)
(* the frames.  The second part, from `Running a flow` on, is about the    *)
(* modules that run a flow laid out as the compiler lays it out            *)
(* (assumption FlowsLaidOut of module FlowLayout): what the machine does   *)
(* is what module Saga says, for a flow of any number of steps.  The third *)
(* part, from `Calls keep apart` on, is about any module again, if it only *)
(* halts on a value (assumption HaltsOnAValue of module Isolation): the    *)
(* flat stack does what a stack for every call would (module Activations). *)
(***************************************************************************)
EXTENDS FlowLayout, SequenceTheorems, FiniteSetTheorems, WellFoundedInduction, TLAPS

-----------------------------------------------------------------------------
(* Sequences of values of any kind.                                        *)

\* A sequence over any set is a sequence in the sense of IsSequence.
LEMMA SequenceOver ==
  ASSUME NEW S, NEW s \in Seq(S)
  PROVE  IsSequence(s) /\ Len(s) \in Nat /\ DOMAIN s = 1..Len(s)
<1>1. Len(s) \in Nat /\ DOMAIN s = 1..Len(s)
  BY LenProperties
<1>2. s \in Seq(Range(s)) /\ Range(s) = {s[i] : i \in DOMAIN s}
  BY <1>1, SeqOfRange, RangeEquality
<1> QED BY <1>1, <1>2 DEF IsSequence

\* Append, with what it does to the length and to the elements.
LEMMA AppendSequence ==
  ASSUME NEW s, IsSequence(s), NEW v
  PROVE  /\ IsSequence(Append(s, v))
         /\ Len(Append(s, v)) = Len(s) + 1
         /\ \A i \in 1..Len(s) : Append(s, v)[i] = s[i]
<1> DEFINE S == {s[i] : i \in DOMAIN s} \cup {v}
<1>1. s \in Seq(S)
  BY SeqMonotonic DEF IsSequence
<1>2. v \in S
  OBVIOUS
<1> HIDE DEF S
<1>3. /\ Append(s, v) \in Seq(S)
      /\ Len(Append(s, v)) = Len(s) + 1
      /\ \A i \in 1..Len(s) : Append(s, v)[i] = s[i]
  BY <1>1, <1>2, AppendProperties
<1> QED BY <1>3, SequenceOver

\* A prefix of a sequence.
LEMMA PrefixSequence ==
  ASSUME NEW s, IsSequence(s), NEW n \in 0..Len(s)
  PROVE  /\ IsSequence(SubSeq(s, 1, n))
         /\ Len(SubSeq(s, 1, n)) = n
         /\ \A i \in 1..n : SubSeq(s, 1, n)[i] = s[i]
<1> DEFINE S == {s[i] : i \in DOMAIN s}
<1>1. s \in Seq(S) /\ Len(s) \in Nat
  BY LenProperties DEF IsSequence
<1>2. \A i \in 1..n : s[i] \in S
  BY <1>1, ElementOfSeq
<1>3. /\ SubSeq(s, 1, n) \in Seq(S)
      /\ Len(SubSeq(s, 1, n)) = IF 1 <= n THEN n - 1 + 1 ELSE 0
      /\ \A i \in 1 .. n - 1 + 1 : SubSeq(s, 1, n)[i] = s[1 + i - 1]
  BY <1>1, <1>2, SubSeqProperties
<1> HIDE DEF S
<1>4. IsSequence(SubSeq(s, 1, n))
  BY <1>3, SequenceOver
<1>5. n \in Nat
  BY <1>1
<1> QED BY <1>3, <1>4, <1>5

\* The concatenation of two sequences.
LEMMA ConcatSequence ==
  ASSUME NEW s, IsSequence(s), NEW t, IsSequence(t)
  PROVE  /\ IsSequence(s \o t)
         /\ Len(s \o t) = Len(s) + Len(t)
         /\ \A i \in 1..Len(s) : (s \o t)[i] = s[i]
<1> DEFINE S == {s[i] : i \in DOMAIN s} \cup {t[i] : i \in DOMAIN t}
<1>1. s \in Seq(S) /\ t \in Seq(S)
  BY SeqMonotonic DEF IsSequence
<1>2. Len(s) \in Nat /\ Len(t) \in Nat
  BY <1>1, LenProperties
<1>3. s \o t \in Seq(S)
  BY <1>1, ConcatProperties
<1> HIDE DEF S
<1>4. /\ Len(s \o t) = Len(s) + Len(t)
      /\ \A i \in 1 .. Len(s) + Len(t) : (s \o t)[i] = IF i <= Len(s) THEN s[i] ELSE t[i - Len(s)]
  BY <1>1, ConcatProperties
<1>5. IsSequence(s \o t)
  BY <1>3, SequenceOver
<1> QED BY <1>2, <1>4, <1>5

\* A function on 1..n is a sequence of length n.
LEMMA FunctionSequence ==
  ASSUME NEW n \in Nat, NEW f, f = [i \in 1..n |-> f[i]]
  PROVE  IsSequence(f) /\ Len(f) = n
<1> DEFINE S == {f[i] : i \in 1..n}
<1>1. f \in [1..n -> S]
  OBVIOUS
<1>2. f \in Seq(S) /\ DOMAIN f = 1..n
  BY <1>1, SeqDef
<1> HIDE DEF S
<1>3. Len(f) = n
  BY <1>2, LenProperties
<1> QED BY <1>2, <1>3, SequenceOver

-----------------------------------------------------------------------------
(* The instructions.                                                       *)

\* Computing on operands never raises one of the structural errors.
LEMMA OperandsCauseNoStructuralFault ==
  ASSUME NEW o, NEW a
  PROVE  OperandFault(o, a) \notin StructuralFaults
<1> DEFINE Ordinary == {"none", "TypeMismatch", "DivisionByZero", "Panic", "Overflow",
                        "NotARecord", "MissingField", "UnwrappedErr",
                        "RequireViolated", "EnsureViolated"}
<1>1. \A name, l, r : ArithFault(name, l, r) \in Ordinary
  BY DEF ArithFault
<1>2. \A l, r : BinaryFault(o, l, r) \in Ordinary
  <2> HIDE DEF Ordinary
  <2>1. {"none", "TypeMismatch"} \subseteq Ordinary
    BY DEF Ordinary
  <2> QED BY <1>1, <2>1 DEF BinaryFault
<1>3. \A v : UnaryFault(o, v) \in Ordinary
  BY DEF UnaryFault
<1>4. \A v : CheckFault(o, v) \in Ordinary
  BY DEF CheckFault
<1>5. OperandFault(o, a) \in Ordinary
  <2> HIDE DEF Ordinary
  <2>1. "none" \in Ordinary
    BY DEF Ordinary
  <2> QED BY <1>2, <1>3, <1>4, <2>1 DEF OperandFault
<1> QED BY <1>5 DEF StructuralFaults

\* Every instruction takes and leaves a number of operands.
LEMMA OperandsNat ==
  ASSUME NEW o, o.n \in Nat
  PROVE  Operands(o) \in Nat /\ Leaves(o) \in {0, 1, 2}
BY DEF Operands, Leaves

\* What Voids gives a frame is a sequence.
LEMMA VoidsSequence ==
  ASSUME NEW n \in Nat
  PROVE  IsSequence(Voids(n)) /\ Len(Voids(n)) = n
BY FunctionSequence DEF Voids

\* A name that some chunk bears has a first one.
LEMMA CalleeExists ==
  ASSUME NEW name, Named(name) # {}, Len(Code[module]) \in Nat
  PROVE  Callee(name) \in Chunks /\ Callee(name) \in Named(name)
<1>1. Named(name) \subseteq Chunks /\ Chunks \subseteq Nat
  BY DEF Named, Chunks
<1>2. \E c \in Named(name) : \A e \in Named(name) : ~(<<e, c>> \in OpToRel(<, Nat))
  BY Zenon, <1>1, WFMin, NatLessThanWellFounded
<1>3. \A c, e \in Nat : e < c => <<e, c>> \in OpToRel(<, Nat)
  BY DEF OpToRel
<1>4. \E c \in Named(name) : \A e \in Named(name) : c <= e
  <2>1. PICK c \in Named(name) : \A e \in Named(name) : ~(<<e, c>> \in OpToRel(<, Nat))
    BY Zenon, <1>2
  <2>2. ASSUME NEW e \in Named(name) PROVE c <= e
    <3>1. c \in Nat /\ e \in Nat
      BY <1>1
    <3>2. ~(e < c)
      BY Zenon, <1>3, <2>1, <3>1
    <3> QED BY <3>1, <3>2
  <2> QED BY <2>2
<1> QED BY <1>1, <1>4 DEF Callee

-----------------------------------------------------------------------------
(* A running machine is about to execute an instruction of its code, over  *)
(* the operands that instruction takes.                                    *)

IInv == TypeOK /\ OperandsThere

d == StackMap[module][top.chunk]

LEMMA AtInstruction ==
  ASSUME IInv, outcome = Running
  PROVE  /\ Len(frames) \in Nat \ {0}
         /\ top \in [chunk : Chunks, ip : Nat \ {0}, base : Nat, local_count : Nat]
         /\ top.local_count = Code[module][top.chunk].local_count
         /\ Len(ops) \in Nat /\ top.ip \in 1..Len(ops)
         /\ Balanced(Code[module][top.chunk], d)
         /\ Floor(top) <= Len(stack)
<1> USE DEF IInv
<1>1. Len(frames) \in Nat \ {0} /\ frames \in [1..Len(frames) -> [chunk : Chunks, ip : Nat \ {0}, base : Nat, local_count : Nat]]
  BY LenProperties, EmptySeq DEF TypeOK
<1>2. top \in [chunk : Chunks, ip : Nat \ {0}, base : Nat, local_count : Nat]
  BY <1>1 DEF top
<1>3. Balanced(Code[module][top.chunk], d) /\ Len(ops) \in Nat
  BY <1>2, CodeBalanced DEF TypeOK, Chunks, ops, d
<1>4. top.ip \in 1..Len(ops) /\ top.local_count = Code[module][top.chunk].local_count
  BY <1>1, <1>2, <1>3 DEF TypeOK, OperandsThere, top, ops
<1>5. Floor(top) <= Len(stack)
  BY DEF OperandsThere
<1> QED BY <1>1, <1>2, <1>3, <1>4, <1>5

LEMMA AtOperands ==
  ASSUME IInv, outcome = Running
  PROVE  /\ op.n \in Nat /\ Operands(op) \in Nat
         /\ d[top.ip] \in Nat /\ Operands(op) <= d[top.ip]
         /\ op.op \in {"LoadLocal", "StoreLocal"} => op.arg \in 0..(top.local_count - 1)
         /\ Successors(ops, top.ip) \subseteq 1..Len(ops)
         /\ \A j \in Successors(ops, top.ip) :
              d[j] \in Nat /\ d[j] <= d[top.ip] - Operands(op) + Leaves(op)
         /\ IsSequence(stack) /\ Len(stack) \in Nat
         /\ top.base + top.local_count + d[top.ip] <= Len(stack)
<1>1. /\ Len(ops) \in Nat /\ top.ip \in 1..Len(ops)
      /\ Balanced(Code[module][top.chunk], d)
      /\ top.local_count = Code[module][top.chunk].local_count
      /\ Floor(top) <= Len(stack)
  BY AtInstruction
<1>2. IsSequence(stack) /\ Len(stack) \in Nat
  BY SequenceOver DEF IInv, TypeOK, IsSequence
<1>3. top.base + top.local_count + d[top.ip] <= Len(stack)
  BY SMTT(30), <1>1 DEF Floor, d
<1>4. op.n \in Nat
  BY <1>1 DEF Balanced, ops, op
<1> QED BY Zenon, <1>1, <1>2, <1>3, <1>4, OperandsNat DEF Balanced, ops, op

\* What is left of the stack when the instruction has taken its operands still
\* covers the frame's locals.
LEMMA RestKeepsLocals ==
  ASSUME IInv, outcome = Running
  PROVE  /\ IsSequence(Rest)
         /\ Len(Rest) = Len(stack) - Operands(op)
         /\ top.base + top.local_count <= Len(Rest)
         /\ Len(Rest) \in Nat
         /\ \A i \in 1..Len(Rest) : Rest[i] = stack[i]
<1>1. /\ Operands(op) \in Nat /\ Len(stack) \in Nat /\ IsSequence(stack)
      /\ d[top.ip] \in Nat /\ Operands(op) <= d[top.ip]
      /\ top.base + top.local_count + d[top.ip] <= Len(stack)
  BY AtOperands
<1>2. top.base \in Nat /\ top.local_count \in Nat
  BY AtInstruction
<1>3. Len(stack) - Operands(op) \in 0..Len(stack)
  BY <1>1, <1>2
<1>4. /\ IsSequence(Rest) /\ Len(Rest) = Len(stack) - Operands(op)
      /\ \A i \in 1..Len(Rest) : Rest[i] = stack[i]
  BY <1>1, <1>3, PrefixSequence DEF Rest
<1> QED BY <1>1, <1>2, <1>3, <1>4

\* The faults a running machine may meet are not structural.
LEMMA FaultIsOrdinary ==
  ASSUME IInv, outcome = Running
  PROVE  Fault \notin StructuralFaults
<1>1. /\ Len(ops) \in Nat /\ top.ip \in 1..Len(ops)
      /\ top.base \in Nat /\ top.local_count \in Nat
  BY AtInstruction
<1>2. /\ Operands(op) \in Nat /\ Len(stack) \in Nat
      /\ d[top.ip] \in Nat /\ Operands(op) <= d[top.ip]
      /\ op.op \in {"LoadLocal", "StoreLocal"} => op.arg \in 0..(top.local_count - 1)
      /\ Successors(ops, top.ip) \subseteq 1..Len(ops)
      /\ top.base + top.local_count + d[top.ip] <= Len(stack)
  BY AtOperands
<1>3. ~(top.ip > Len(ops))
  BY <1>1
<1>4. ~(op.op \in {"LoadLocal", "StoreLocal"} /\ op.arg >= top.local_count)
  BY <1>1, <1>2
<1>5. ~(Len(stack) < Operands(op))
  BY <1>1, <1>2
<1>6. ~(op.op = "LoadLocal" /\ top.base + op.arg >= Len(stack))
  BY <1>1, <1>2, SMTT(30)
<1>7. ~(JumpTaken /\ op.arg > Len(ops) + 1)
  <2>1. JumpTaken => op.arg \in Successors(ops, top.ip)
    BY DEF JumpTaken, Successors, op
  <2> QED BY <1>1, <1>2, <2>1
<1>8. CallFault(Args[1]) \notin StructuralFaults
  BY DEF CallFault, StructuralFaults
<1> QED BY <1>3, <1>4, <1>5, <1>6, <1>7, <1>8, OperandsCauseNoStructuralFault DEF Fault

-----------------------------------------------------------------------------
(* Steps.                                                                  *)

LEMMA Slack ==
  ASSUME NEW b \in Int, NEW x \in Int, NEW y \in Int, NEW s \in Int, NEW o \in Int, NEW l \in Int,
         b + x <= s, y <= x - o + l
  PROVE  b + y <= s - o + l
OBVIOUS

\* An instruction that stays in its frame, leaves at least the operands it
\* promises and goes on to a successor preserves the invariant.
LEMMA StaysInFrame ==
  ASSUME IInv, outcome = Running,
         NEW j \in Successors(ops, top.ip),
         frames' = [frames EXCEPT ![Len(frames)].ip = j],
         module' = module, outcome' = outcome,
         IsSequence(effects'), IsSequence(stack'),
         Len(stack') >= Len(stack) - Operands(op) + Leaves(op)
  PROVE  IInv'
<1> DEFINE n == Len(frames)
           F == [chunk : Chunks, ip : Nat \ {0}, base : Nat, local_count : Nat]
<1>1. /\ n \in Nat \ {0} /\ top \in F /\ Len(ops) \in Nat
      /\ top.local_count = Code[module][top.chunk].local_count
  BY AtInstruction
<1>2. /\ Operands(op) \in Nat /\ d[top.ip] \in Nat /\ op.n \in Nat
      /\ Len(stack) \in Nat /\ Leaves(op) \in {0, 1, 2}
      /\ top.base + top.local_count + d[top.ip] <= Len(stack)
      /\ j \in 1..Len(ops) /\ d[j] \in Nat
      /\ d[j] <= d[top.ip] - Operands(op) + Leaves(op)
  BY AtOperands, OperandsNat
<1>3. frames \in Seq(F) /\ F' = F /\ Chunks' = Chunks
  BY DEF IInv, TypeOK, Chunks
<1>4. [top EXCEPT !.ip = j] \in F /\ frames' = [frames EXCEPT ![n] = [top EXCEPT !.ip = j]]
  <2>1. [top EXCEPT !.ip = j] \in F
    <3>1. j \in Nat \ {0} /\ top \in F
      BY <1>1, <1>2, SMTT(30)
    <3> QED BY <3>1
  <2>2. frames' = [frames EXCEPT ![n] = [top EXCEPT !.ip = j]]
    BY DEF top
  <2> QED BY <2>1, <2>2
<1>5. /\ frames' \in Seq(F) /\ Len(frames') = n
      /\ frames'[n] = [top EXCEPT !.ip = j]
      /\ \A i \in 1..(n - 1) : frames'[i] = frames[i]
  <2> HIDE DEF F
  <2>1. n \in 1..Len(frames)
    BY <1>1
  <2> QED BY <1>1, <1>3, <1>4, <2>1, ExceptSeq
<1>6. top' = [top EXCEPT !.ip = j]
  BY <1>5 DEF top
<1>7. \A i \in 1..n : /\ frames'[i].ip <= Len(Code[module][frames'[i].chunk].ops)
                      /\ frames'[i].local_count = Code[module][frames'[i].chunk].local_count
  <2>1. ASSUME NEW i \in 1..(n - 1)
        PROVE  /\ frames'[i].ip <= Len(Code[module][frames'[i].chunk].ops)
               /\ frames'[i].local_count = Code[module][frames'[i].chunk].local_count
    <3>1. i \in 1..n /\ frames'[i] = frames[i]
      <4>1. n \in Nat
        BY <1>1
      <4>2. frames'[i] = frames[i]
        BY <1>5
      <4> HIDE DEF n
      <4> QED BY <4>1, <4>2
    <3> QED BY <3>1 DEF IInv, TypeOK, OperandsThere
  <2>2. /\ frames'[n].ip <= Len(Code[module][frames'[n].chunk].ops)
        /\ frames'[n].local_count = Code[module][frames'[n].chunk].local_count
    <3>1. frames'[n].ip = j /\ frames'[n].chunk = top.chunk /\ frames'[n].local_count = top.local_count
      BY <1>1, <1>5, SMTT(30)
    <3>2. Len(ops) \in Nat /\ j \in 1..Len(ops)
      BY <1>1, <1>2
    <3>3. j <= Len(ops)
      <4> HIDE DEF ops
      <4> QED BY <3>2
    <3>4. top.local_count = Code[module][top.chunk].local_count
      BY <1>1
    <3>5. frames'[n].ip <= Len(Code[module][frames'[n].chunk].ops)
      BY <3>1, <3>3, Zenon DEF ops
    <3>6. frames'[n].local_count = Code[module][frames'[n].chunk].local_count
      BY <3>1, <3>4, Zenon
    <3> QED BY <3>5, <3>6
  <2>3. \A i \in 1..n : i = n \/ i \in 1..(n - 1)
    BY <1>1
  <2> HIDE DEF n
  <2> QED BY <2>1, <2>2, <2>3
<1>8. TypeOK'
  <2>1. \A i \in 1..n : /\ frames'[i].ip <= Len(Code[module][frames'[i].chunk].ops) + 1
                        /\ frames'[i].local_count = Code[module][frames'[i].chunk].local_count
    <3>1. \A i \in 1..n : frames'[i] \in F
      BY <1>5, ElementOfSeq
    <3>2. \A i \in 1..n : Len(Code[module][frames'[i].chunk].ops) \in Nat
      BY <3>1, CodeBalanced DEF IInv, TypeOK, Chunks
    <3> QED BY <1>7, <3>1, <3>2, SMTT(30)
  <2>2. frames' # <<>>
    BY <1>1, <1>5
  <2> QED BY <1>3, <1>5, <2>1, <2>2 DEF IInv, TypeOK
<1>9. OperandsThere'
  <2>1. \A i \in 1..n : frames'[i].ip <= Len(Code[module][frames'[i].chunk].ops)
    BY <1>7
  <2>2. Floor(top)' <= Len(stack')
    <3>1. Floor(top)' = top.base + top.local_count + d[j]
      BY <1>1, <1>6 DEF Floor, d
    <3>2. Len(stack') \in Nat
      BY SequenceOver DEF IsSequence
    <3>3. top.base \in Nat /\ top.local_count \in Nat
      BY <1>1
    <3>4. top.base + top.local_count + d[j] <= Len(stack) - Operands(op) + Leaves(op)
      <4>1. /\ Leaves(op) \in Int /\ Operands(op) \in Int /\ Len(stack) \in Int /\ d[j] \in Int
            /\ d[top.ip] \in Int
            /\ d[j] <= d[top.ip] - Operands(op) + Leaves(op)
            /\ top.base + top.local_count + d[top.ip] <= Len(stack)
        BY <1>2
      <4>2. top.base + top.local_count \in Int
        BY <3>3
      <4> QED BY <4>1, <4>2, Slack
    <3>5. Len(stack) - Operands(op) + Leaves(op) \in Int
      BY <1>2
    <3> QED BY <1>2, <3>1, <3>2, <3>3, <3>4, <3>5, SMTT(30)
  <2>3. \A i \in 1..(n - 1) : Floor(frames[i])' <= frames'[i + 1].base + 1
    <3>1. ASSUME NEW i \in 1..(n - 1) PROVE Floor(frames[i])' <= frames'[i + 1].base + 1
      <4>1. Floor(frames[i]) <= frames[i + 1].base + 1
        BY DEF IInv, OperandsThere
      <4>2. Floor(frames[i])' = Floor(frames[i])
        BY <1>1, <1>5 DEF Floor
      <4>3. frames'[i + 1].base = frames[i + 1].base
        <5>1. CASE i + 1 = n
          BY SMTT(30), <1>1, <1>5, <5>1 DEF top
        <5>2. CASE i + 1 # n
          BY <1>1, <1>5, <5>2
        <5> QED BY <5>1, <5>2
      <4> QED BY <4>1, <4>2, <4>3
    <3> QED BY <3>1
  <2> QED BY <1>5, <2>1, <2>2, <2>3 DEF OperandsThere
<1> QED BY <1>8, <1>9 DEF IInv

\* A push on what is left keeps everything below the frame's base.
LEMMA PushKeeps ==
  ASSUME IInv, outcome = Running, NEW v, stack' = Append(Rest, v)
  PROVE  /\ IsSequence(stack')
         /\ Len(stack') = Len(stack) - Operands(op) + 1
         /\ BelowBaseUnchanged
<1>1. /\ IsSequence(Rest) /\ Len(Rest) \in Nat
      /\ Len(Rest) = Len(stack) - Operands(op)
      /\ top.base + top.local_count <= Len(Rest)
      /\ \A i \in 1..Len(Rest) : Rest[i] = stack[i]
  BY RestKeepsLocals
<1>2. /\ IsSequence(stack') /\ Len(stack') = Len(Rest) + 1
      /\ \A i \in 1..Len(Rest) : stack'[i] = Rest[i]
  BY <1>1, AppendSequence
<1>3. top.base \in Nat /\ top.local_count \in Nat /\ Len(stack) \in Nat /\ Operands(op) \in Nat
  BY AtInstruction, AtOperands
<1>4. \A i \in 1..top.base : i \in 1..Len(Rest) /\ i <= Len(stack) /\ i <= Len(stack')
  BY <1>1, <1>2, <1>3
<1> QED BY <1>1, <1>2, <1>4 DEF BelowBaseUnchanged

\* The same for an instruction that leaves nothing.
LEMMA RestKeeps ==
  ASSUME IInv, outcome = Running, stack' = Rest
  PROVE  /\ IsSequence(stack')
         /\ Len(stack') = Len(stack) - Operands(op)
         /\ BelowBaseUnchanged
<1>1. /\ IsSequence(Rest) /\ Len(Rest) \in Nat
      /\ Len(Rest) = Len(stack) - Operands(op)
      /\ top.base + top.local_count <= Len(Rest)
      /\ \A i \in 1..Len(Rest) : Rest[i] = stack[i]
  BY RestKeepsLocals
<1>2. top.base \in Nat /\ top.local_count \in Nat /\ Len(stack) \in Nat /\ Operands(op) \in Nat
  BY AtInstruction, AtOperands
<1>3. \A i \in 1..top.base : i \in 1..Len(Rest) /\ i <= Len(stack) /\ i <= Len(stack')
  BY <1>1, <1>2
<1> QED BY <1>1, <1>3 DEF BelowBaseUnchanged

\* And for one that changes no value and adds one.
LEMMA PeekKeeps ==
  ASSUME IInv, outcome = Running, NEW v, stack' = Append(stack, v)
  PROVE  /\ IsSequence(stack')
         /\ Len(stack') = Len(stack) + 1
         /\ BelowBaseUnchanged
<1>1. IsSequence(stack) /\ Len(stack) \in Nat /\ top.base \in Nat /\ top.local_count \in Nat
      /\ d[top.ip] \in Nat /\ top.base + top.local_count + d[top.ip] <= Len(stack)
  BY AtInstruction, AtOperands
<1>2. /\ IsSequence(stack') /\ Len(stack') = Len(stack) + 1
      /\ \A i \in 1..Len(stack) : stack'[i] = stack[i]
  BY <1>1, AppendSequence
<1>3. \A i \in 1..top.base : i \in 1..Len(stack) /\ i <= Len(stack')
  BY <1>1, <1>2
<1> QED BY <1>2, <1>3 DEF BelowBaseUnchanged

\* The history stays a sequence.
LEMMA EffectsSequence ==
  ASSUME IInv, effects' = effects \/ \E v : effects' = Append(effects, v)
  PROVE  IsSequence(effects')
BY AppendSequence DEF IInv, TypeOK

-----------------------------------------------------------------------------
(* Each action preserves the invariant and what lies below the base.       *)

LEMMA LoadStep ==
  ASSUME IInv, LoadConst \/ LoadLocal
  PROVE  IInv' /\ BelowBaseUnchanged
<1>1. /\ outcome = Running /\ op.op \in {"LoadConst", "LoadLocal"}
      /\ \E v : stack' = Append(Rest, v)
      /\ frames' = [frames EXCEPT ![Len(frames)].ip = top.ip + 1]
      /\ module' = module /\ outcome' = outcome /\ effects' = effects
  BY DEF LoadConst, LoadLocal, Executes, Push, Proceed, GoTo
<1>2. Leaves(op) = 1 /\ top.ip + 1 \in Successors(ops, top.ip)
  BY <1>1 DEF Leaves, Successors, op, PeekOps, CheckOps
<1>3. /\ IsSequence(stack') /\ BelowBaseUnchanged /\ Len(stack') = Len(stack) - Operands(op) + 1
  BY <1>1, PushKeeps
<1>4. Len(stack') >= Len(stack) - Operands(op) + Leaves(op)
  BY <1>2, <1>3, AtOperands
<1> QED BY <1>1, <1>2, <1>3, <1>4, EffectsSequence, StaysInFrame

LEMMA ComputeStep ==
  ASSUME IInv, Compute \/ CallBuiltin
  PROVE  IInv' /\ BelowBaseUnchanged
<1>1. /\ outcome = Running /\ op.op \in ComputeOps \cup {"CallBuiltin"}
      /\ \E v : stack' = Append(Rest, v)
      /\ frames' = [frames EXCEPT ![Len(frames)].ip = top.ip + 1]
      /\ module' = module /\ outcome' = outcome
      /\ effects' = effects \/ \E v : effects' = Append(effects, v)
  BY DEF Compute, CallBuiltin, Executes, Push, Proceed, GoTo
<1>2. op.op \notin PeekOps \cup CheckOps \cup
                  {"StoreLocal", "JumpIfFalse", "Jump", "Halt", "Return"}
  BY <1>1 DEF ComputeOps, BinaryOps, UnaryOps, MakeOps, IntOps, OrderOps, LogicOps, PeekOps, CheckOps
<1>3. Leaves(op) = 1 /\ top.ip + 1 \in Successors(ops, top.ip)
  BY <1>2 DEF Leaves, Successors, op
<1>4. /\ IsSequence(stack') /\ BelowBaseUnchanged /\ Len(stack') = Len(stack) - Operands(op) + 1
  BY <1>1, PushKeeps
<1>5. Len(stack') >= Len(stack) - Operands(op) + Leaves(op)
  BY <1>3, <1>4, AtOperands
<1> QED BY <1>1, <1>3, <1>4, <1>5, EffectsSequence, StaysInFrame

LEMMA PeekStep ==
  ASSUME IInv, Peek
  PROVE  IInv' /\ BelowBaseUnchanged
<1>1. /\ outcome = Running /\ op.op \in PeekOps
      /\ \E v : stack' = Append(stack, v)
      /\ frames' = [frames EXCEPT ![Len(frames)].ip = top.ip + 1]
      /\ module' = module /\ outcome' = outcome /\ effects' = effects
  BY DEF Peek, Executes, Proceed, GoTo
<1>2. op.op \in {"IsOk", "IsErr", "IsVariant", "Dup"}
  BY <1>1 DEF PeekOps
<1>3. Operands(op) = 1 /\ Leaves(op) = 2 /\ top.ip + 1 \in Successors(ops, top.ip)
  <2>1. Operands(op) = 1
    BY <1>2 DEF Operands, BinaryOps, MakeOps, IntOps, OrderOps, LogicOps
  <2>2. Leaves(op) = 2
    BY <1>2 DEF Leaves, PeekOps, CheckOps
  <2>3. top.ip + 1 \in Successors(ops, top.ip)
    BY <1>2 DEF Successors, op
  <2> QED BY <2>1, <2>2, <2>3
<1>4. /\ IsSequence(stack') /\ BelowBaseUnchanged /\ Len(stack') = Len(stack) + 1
  BY <1>1, PeekKeeps
<1>5. Len(stack') >= Len(stack) - Operands(op) + Leaves(op)
  BY <1>3, <1>4, AtOperands
<1> QED BY <1>1, <1>3, <1>4, <1>5, EffectsSequence, StaysInFrame

LEMMA CheckStep ==
  ASSUME IInv, Check
  PROVE  IInv' /\ BelowBaseUnchanged
<1>1. /\ outcome = Running /\ op.op \in CheckOps /\ stack' = Rest
      /\ frames' = [frames EXCEPT ![Len(frames)].ip = top.ip + 1]
      /\ module' = module /\ outcome' = outcome /\ effects' = effects
  BY DEF Check, Executes, Proceed, GoTo
<1>2. op.op \in {"CheckRequire", "CheckEnsure"}
  BY <1>1 DEF CheckOps
<1>3. Leaves(op) = 0 /\ top.ip + 1 \in Successors(ops, top.ip)
  BY <1>2 DEF Leaves, Successors, op, PeekOps, CheckOps
<1>4. /\ IsSequence(stack') /\ BelowBaseUnchanged /\ Len(stack') = Len(stack) - Operands(op)
  BY <1>1, RestKeeps
<1>5. Len(stack') >= Len(stack) - Operands(op) + Leaves(op)
  BY <1>3, <1>4, AtOperands
<1> QED BY <1>1, <1>3, <1>4, <1>5, EffectsSequence, StaysInFrame

LEMMA JumpStep ==
  ASSUME IInv, Jump
  PROVE  IInv' /\ BelowBaseUnchanged
<1>1. /\ outcome = Running /\ op.op \in {"Jump", "JumpIfFalse"} /\ stack' = Rest
      /\ frames' = [frames EXCEPT ![Len(frames)].ip = IF JumpTaken THEN op.arg ELSE top.ip + 1]
      /\ module' = module /\ outcome' = outcome /\ effects' = effects
  BY DEF Jump, Executes, Proceed, GoTo
<1>2. /\ Leaves(op) = 0
      /\ (IF JumpTaken THEN op.arg ELSE top.ip + 1) \in Successors(ops, top.ip)
  BY <1>1 DEF Leaves, Successors, op, PeekOps, CheckOps, JumpTaken
<1>3. /\ IsSequence(stack') /\ BelowBaseUnchanged /\ Len(stack') = Len(stack) - Operands(op)
  BY <1>1, RestKeeps
<1>4. Len(stack') >= Len(stack) - Operands(op) + Leaves(op)
  BY <1>2, <1>3, AtOperands
<1> QED BY <1>1, <1>2, <1>3, <1>4, EffectsSequence, StaysInFrame

LEMMA StoreStep ==
  ASSUME IInv, StoreLocal
  PROVE  IInv' /\ BelowBaseUnchanged
<1> DEFINE slot == top.base + op.arg + 1
           size == IF Len(Rest) < slot THEN slot ELSE Len(Rest)
<1>1. /\ outcome = Running /\ op.op = "StoreLocal"
      /\ stack' = [i \in 1..size |-> IF i = slot THEN Args[1]
                                     ELSE IF i <= Len(Rest) THEN Rest[i] ELSE Void]
      /\ frames' = [frames EXCEPT ![Len(frames)].ip = top.ip + 1]
      /\ module' = module /\ outcome' = outcome /\ effects' = effects
  BY DEF StoreLocal, Executes, Proceed, GoTo
<1>2. Leaves(op) = 0 /\ top.ip + 1 \in Successors(ops, top.ip)
  BY <1>1 DEF Leaves, Successors, op, PeekOps, CheckOps
<1>3. /\ Len(Rest) \in Nat /\ Len(Rest) = Len(stack) - Operands(op)
      /\ top.base + top.local_count <= Len(Rest)
      /\ \A i \in 1..Len(Rest) : Rest[i] = stack[i]
  BY <1>1, RestKeepsLocals
<1>4. /\ op.arg \in 0..(top.local_count - 1) /\ Len(stack) \in Nat /\ Operands(op) \in Nat
      /\ top.base \in Nat /\ top.local_count \in Nat
  BY <1>1, AtOperands, AtInstruction
<1>5. size = Len(Rest) /\ slot > top.base
  BY SMTT(30), <1>3, <1>4
<1>6. IsSequence(stack') /\ Len(stack') = Len(Rest)
  BY <1>1, <1>3, <1>5, FunctionSequence
<1>7. BelowBaseUnchanged
  <2>1. ASSUME NEW i \in 1..top.base
        PROVE  i <= Len(stack) /\ i <= Len(stack') /\ stack'[i] = stack[i]
    <3>1. i \in 1..Len(Rest) /\ i # slot /\ i <= Len(stack)
      BY SMTT(30), <1>3, <1>4
    <3> HIDE DEF slot, size
    <3> QED BY <1>1, <1>3, <1>5, <1>6, <3>1
  <2> QED BY <2>1 DEF BelowBaseUnchanged
<1>8. Len(stack') >= Len(stack) - Operands(op) + Leaves(op)
  BY <1>2, <1>3, <1>4, <1>6
<1> QED BY <1>1, <1>2, <1>6, <1>7, <1>8, EffectsSequence, StaysInFrame

\* The operands of an instruction that takes some, as a sequence.
LEMMA ArgsSequence ==
  ASSUME IInv, outcome = Running, Operands(op) > 0
  PROVE  /\ IsSequence(Args) /\ Len(Args) = Operands(op)
         /\ IsSequence(Tail(Args)) /\ Len(Tail(Args)) = Operands(op) - 1
<1> DEFINE S == {stack[i] : i \in DOMAIN stack}
           k == Operands(op)
<1>1. /\ stack \in Seq(S) /\ Len(stack) \in Nat /\ DOMAIN stack = 1..Len(stack)
      /\ k \in Nat /\ k > 0 /\ k <= d[top.ip] /\ d[top.ip] \in Nat
      /\ top.base \in Nat /\ top.local_count \in Nat
      /\ top.base + top.local_count + d[top.ip] <= Len(stack)
  BY AtOperands, AtInstruction, SequenceOver DEF IsSequence
<1>2. Len(stack) - k + 1 \in 1..Len(stack)
  BY SMTT(30), <1>1
<1>3. \A i \in (Len(stack) - k + 1)..Len(stack) : stack[i] \in S
  BY <1>1, <1>2, SMTT(30)
<1> HIDE DEF S
<1>4. /\ Args \in Seq(S)
      /\ Len(Args) = Len(stack) - (Len(stack) - k + 1) + 1
  BY <1>1, <1>2, <1>3, SubSeqProperties DEF Args
<1>5. Len(Args) = k /\ Args # <<>>
  BY <1>1, <1>4, EmptySeq
<1>6. Tail(Args) \in Seq(S) /\ Len(Tail(Args)) = k - 1
  BY <1>4, <1>5, HeadTailProperties
<1> QED BY <1>4, <1>5, <1>6, SequenceOver

LEMMA CallStep ==
  ASSUME IInv, Call
  PROVE  IInv' /\ BelowBaseUnchanged
<1> DEFINE n == Len(frames)
           F == [chunk : Chunks, ip : Nat \ {0}, base : Nat, local_count : Nat]
           c == Callee(Args[1][2])
           locals == Code[module][c].local_count
           fill == IF op.n < locals THEN locals - op.n ELSE 0
           caller == [top EXCEPT !.ip = top.ip + 1]
           callee == Frame(c, Len(Rest), locals)
<1>1. /\ outcome = Running /\ op.op = "Call" /\ Fault = "none"
      /\ stack' = Rest \o Tail(Args) \o Voids(fill)
      /\ frames' = Append([frames EXCEPT ![n].ip = top.ip + 1], callee)
      /\ module' = module /\ outcome' = outcome /\ effects' = effects
  BY Zenon DEF Call, Executes
<1>2. /\ n \in Nat \ {0} /\ top \in F /\ Len(ops) \in Nat /\ top.ip \in 1..Len(ops)
      /\ top.local_count = Code[module][top.chunk].local_count
  BY Zenon, <1>1, AtInstruction
<1>3. /\ op.n \in Nat /\ Len(stack) \in Nat /\ d[top.ip] \in Nat
      /\ top.base + top.local_count + d[top.ip] <= Len(stack)
      /\ Successors(ops, top.ip) \subseteq 1..Len(ops)
      /\ \A j \in Successors(ops, top.ip) :
           d[j] \in Nat /\ d[j] <= d[top.ip] - Operands(op) + Leaves(op)
  BY Zenon, <1>1, AtOperands
<1>4. Operands(op) = op.n + 1 /\ Leaves(op) = 1 /\ top.ip + 1 \in Successors(ops, top.ip)
  <2>1. Operands(op) = op.n + 1
    BY Zenon, <1>1 DEF Operands, BinaryOps, MakeOps, IntOps, OrderOps, LogicOps
  <2>2. Leaves(op) = 1 /\ top.ip + 1 \in Successors(ops, top.ip)
    BY Zenon, <1>1 DEF Leaves, PeekOps, CheckOps, Successors, op
  <2> QED BY <2>1, <2>2
<1>5. /\ IsSequence(Rest) /\ Len(Rest) \in Nat /\ Len(Rest) = Len(stack) - Operands(op)
      /\ top.base + top.local_count <= Len(Rest)
      /\ \A i \in 1..Len(Rest) : Rest[i] = stack[i]
  BY Zenon, <1>1, RestKeepsLocals
<1>6. IsSequence(Tail(Args)) /\ Len(Tail(Args)) = op.n
  <2>1. Operands(op) > 0 /\ Operands(op) - 1 = op.n
    BY <1>3, <1>4, SMTT(30)
  <2> QED BY Zenon, <1>1, <2>1, ArgsSequence
<1>7. c \in Chunks /\ locals \in Nat /\ Len(Code[module][c].ops) \in Nat
      /\ Balanced(Code[module][c], StackMap[module][c])
  <2>1. CallFault(Args[1]) = "none"
    BY Zenon, <1>1 DEF Fault
  <2>2. Named(Args[1][2]) # {}
    BY <2>1 DEF CallFault
  <2>3. module \in DOMAIN Code
    BY DEF IInv, TypeOK
  <2>4. c \in Chunks
    BY <2>2, <2>3, CalleeExists, CodeBalanced
  <2> HIDE DEF c
  <2> QED BY <2>3, <2>4, CodeBalanced DEF Chunks
<1>8. /\ IsSequence(stack') /\ Len(stack') = Len(Rest) + op.n + fill
      /\ \A i \in 1..Len(Rest) : stack'[i] = Rest[i]
  <2>1. fill \in Nat
    BY <1>3, <1>7
  <2> HIDE DEF fill
  <2>2. IsSequence(Voids(fill)) /\ Len(Voids(fill)) = fill
    BY <2>1, VoidsSequence
  <2> DEFINE args == Tail(Args)
             both == Rest \o args
  <2> HIDE DEF args
  <2>3. IsSequence(args) /\ Len(args) = op.n
    BY <1>6 DEF args
  <2>4. /\ IsSequence(both) /\ Len(both) = Len(Rest) + Len(args)
        /\ \A i \in 1..Len(Rest) : both[i] = Rest[i]
    BY <1>5, <2>3, ConcatSequence
  <2>5. stack' = both \o Voids(fill)
    BY <1>1 DEF args
  <2> HIDE DEF both
  <2>6. /\ IsSequence(stack') /\ Len(stack') = Len(both) + Len(Voids(fill))
        /\ \A i \in 1..Len(both) : stack'[i] = both[i]
    BY <2>2, <2>4, <2>5, ConcatSequence
  <2>7. Len(both) = Len(Rest) + op.n /\ \A i \in 1..Len(Rest) : i \in 1..Len(both)
    BY <1>3, <1>5, <2>3, <2>4
  <2> QED BY <2>2, <2>4, <2>6, <2>7
<1>9. BelowBaseUnchanged
  <2>1. ASSUME NEW i \in 1..top.base
        PROVE  i <= Len(stack) /\ i <= Len(stack') /\ stack'[i] = stack[i]
    <3>1. top.base \in Nat /\ top.local_count \in Nat /\ fill \in Nat
      BY <1>2, <1>3, <1>7, SMTT(30)
    <3> HIDE DEF fill
    <3>2. i \in 1..Len(Rest)
      BY <1>5, <3>1
    <3>3. Len(Rest) <= Len(stack) /\ Len(Rest) <= Len(stack')
      <4>1. op.n \in Nat /\ Len(Rest) \in Nat /\ Len(stack) \in Nat /\ Len(Rest) = Len(stack) - (op.n + 1)
        BY <1>3, <1>4, <1>5
      <4>2. Len(Rest) <= Len(stack)
        BY <4>1
      <4>3. Len(stack') = Len(Rest) + op.n + fill
        BY <1>8
      <4> QED BY <3>1, <4>1, <4>2, <4>3
    <3>4. i <= Len(stack) /\ i <= Len(stack')
      BY <1>3, <1>5, <1>8, <3>1, <3>2, <3>3
    <3> QED BY <1>5, <1>8, <3>2, <3>4
  <2> QED BY <2>1 DEF BelowBaseUnchanged
<1>10. frames \in Seq(F) /\ F' = F /\ Chunks' = Chunks
  BY <1>1 DEF IInv, TypeOK, Chunks
<1>11. caller \in F /\ callee \in F
  <2>1. top.ip + 1 \in Nat \ {0} /\ top \in F
    BY <1>2
  <2>2. caller \in F
    BY <2>1
  <2> HIDE DEF c, locals
  <2>3. callee \in F
    BY <1>5, <1>7 DEF Frame
  <2> QED BY <2>2, <2>3
<1>12. /\ frames' \in Seq(F) /\ Len(frames') = n + 1
       /\ frames'[n + 1] = callee /\ frames'[n] = caller
       /\ \A i \in 1..(n - 1) : i \in 1..n /\ frames'[i] = frames[i]
  <2> DEFINE G == [frames EXCEPT ![n] = caller]
  <2>1. frames' = Append(G, callee)
    BY Zenon, <1>1 DEF top
  <2> HIDE DEF F, caller, callee
  <2>2. n \in 1..Len(frames)
    BY <1>2
  <2>3. /\ G \in Seq(F) /\ Len(G) = n /\ G[n] = caller
        /\ \A i \in 1..(n - 1) : G[i] = frames[i]
    BY <1>2, <1>10, <1>11, <2>2, ExceptSeq
  <2> HIDE DEF G
  <2>4. /\ frames' \in Seq(F) /\ Len(frames') = n + 1 /\ frames'[n + 1] = callee
        /\ \A i \in 1..n : frames'[i] = G[i]
    BY <1>11, <2>1, <2>3, AppendProperties
  <2>5. n \in Nat \ {0}
    BY <1>2
  <2> HIDE DEF n
  <2>6. n \in 1..n /\ \A i \in 1..(n - 1) : i \in 1..n
    BY <2>5
  <2> QED BY <2>3, <2>4, <2>6
<1>13. TypeOK'
  <2>1. ASSUME NEW i \in 1..(n + 1)
        PROVE  /\ frames'[i].ip <= Len(Code[module][frames'[i].chunk].ops) + 1
               /\ frames'[i].local_count = Code[module][frames'[i].chunk].local_count
    <3>1. CASE i = n + 1
      BY SMTT(30), <1>7, <1>12, <3>1 DEF Frame
    <3>2. CASE i = n
      <4>1. /\ frames'[i].ip = top.ip + 1 /\ frames'[i].chunk = top.chunk
            /\ frames'[i].local_count = top.local_count
        BY <1>2, <1>12, <3>2
      <4> QED BY <1>2, <4>1 DEF ops
    <3>3. CASE i \in 1..(n - 1)
      <4>1. i \in 1..n /\ frames'[i] = frames[i]
        BY <1>12, <3>3
      <4> QED BY <4>1 DEF IInv, TypeOK
    <3>4. i = n + 1 \/ i = n \/ i \in 1..(n - 1)
      BY <1>2
    <3> QED BY <3>1, <3>2, <3>3, <3>4
  <2>2. frames' # <<>>
    BY SMTT(30), <1>2, <1>12
  <2>3. module' \in DOMAIN Code /\ IsSequence(effects')
    BY <1>1 DEF IInv, TypeOK
  <2> HIDE DEF n, caller, callee
  <2> QED BY Zenon, <1>1, <1>8, <1>10, <1>12, <2>1, <2>2, <2>3 DEF TypeOK
<1>14. top' = callee
  BY <1>2, <1>12 DEF top
<1>15. Floor(top)' <= Len(stack')
  <2>1. Floor(top)' = Len(Rest) + locals + StackMap[module][c][1]
    BY Zenon, <1>1, <1>14 DEF Floor, Frame
  <2>2. StackMap[module][c][1] = 0
    BY <1>7 DEF Balanced
  <2>3. locals <= op.n + fill /\ op.n + fill \in Nat /\ locals \in Nat
    BY <1>3, <1>7
  <2> HIDE DEF fill, locals
  <2>4. Len(Rest) + locals + 0 <= Len(Rest) + (op.n + fill)
    BY <1>5, <2>3
  <2>5. Len(stack') = Len(Rest) + (op.n + fill)
    <3>1. fill \in Nat
      BY <1>3, <1>7 DEF fill, locals
    <3> QED BY <1>3, <1>5, <1>8, <3>1
  <2> QED BY <2>1, <2>2, <2>4, <2>5
<1>16. ASSUME NEW i \in 1..n PROVE Floor(frames[i])' <= frames'[i + 1].base + 1
  <2>1. CASE i = n
    <3>1. Floor(frames[i])' = top.base + top.local_count + d[top.ip + 1]
      BY Zenon, <1>1, <1>2, <1>12, <2>1 DEF Floor, d
    <3>2. frames'[i + 1].base = Len(Rest)
      BY <1>12, <2>1 DEF Frame
    <3>3. /\ d[top.ip + 1] \in Nat /\ d[top.ip + 1] <= d[top.ip] - Operands(op) + 1
          /\ top.base + top.local_count \in Int /\ Operands(op) \in Int
      <4>1. d[top.ip + 1] \in Nat /\ d[top.ip + 1] <= d[top.ip] - Operands(op) + 1
        <5>1. d[top.ip + 1] \in Nat /\ d[top.ip + 1] <= d[top.ip] - Operands(op) + Leaves(op)
          BY <1>3, <1>4
        <5> QED BY <1>4, <5>1
      <4>2. top.base + top.local_count \in Int
        BY <1>2
      <4>3. Operands(op) \in Int
        BY <1>3, <1>4
      <4> QED BY <4>1, <4>2, <4>3
    <3>4. top.base + top.local_count + d[top.ip + 1] <= Len(stack) - Operands(op) + 1
      BY <1>3, <3>3, Slack, SMTT(30)
    <3> QED BY <1>5, <3>1, <3>2, <3>4
  <2>2. CASE i \in 1..(n - 1)
    <3>1. Floor(frames[i]) <= frames[i + 1].base + 1
      BY Zenon, <1>1, <2>2 DEF IInv, OperandsThere
    <3>2. frames'[i] = frames[i]
      BY <1>12, <2>2
    <3>3. Floor(frames[i])' = Floor(frames[i])
      BY Zenon, <1>1, <3>2 DEF Floor
    <3>4. frames'[i + 1].base = frames[i + 1].base
      <4>1. CASE i + 1 = n
        BY <1>2, <1>12, <4>1 DEF top
      <4>2. CASE i + 1 # n
        <5>1. i + 1 \in 1..(n - 1)
          <6>1. n \in Nat
            BY <1>2
          <6> HIDE DEF n
          <6> QED BY <2>2, <4>2, <6>1
        <5> QED BY <1>12, <5>1
      <4> QED BY <4>1, <4>2
    <3> QED BY <3>1, <3>3, <3>4
  <2>3. i = n \/ i \in 1..(n - 1)
    BY <1>2
  <2> QED BY <2>1, <2>2, <2>3
<1>17. ASSUME NEW i \in 1..(n + 1)
       PROVE  frames'[i].ip <= Len(Code[module][frames'[i].chunk].ops)
  <2>1. CASE i = n + 1
    <3>1. Len(Code[module][c].ops) > 0
      BY <1>7 DEF Balanced
    <3> QED BY SMTT(30), <1>7, <1>12, <2>1, <3>1 DEF Frame
  <2>2. CASE i = n
    <3>1. top.ip + 1 <= Len(ops)
      BY <1>2, <1>3, <1>4
    <3> QED BY Zenon, <1>2, <1>12, <2>2, <3>1 DEF ops
  <2>3. CASE i \in 1..(n - 1)
    <3>1. i \in 1..n /\ frames'[i] = frames[i]
      BY <1>12, <2>3
    <3> QED BY Zenon, <1>1, <3>1 DEF IInv, OperandsThere
  <2>4. i = n + 1 \/ i = n \/ i \in 1..(n - 1)
    BY <1>2
  <2> QED BY <2>1, <2>2, <2>3, <2>4
<1>18. OperandsThere'
  <2>1. Len(frames') = n + 1 /\ n + 1 - 1 = n
    BY <1>2, <1>12
  <2>2. module' = module
    BY Zenon, <1>1
  <2> HIDE DEF n
  <2>3. \A i \in 1..Len(frames') : frames'[i].ip <= Len(Code[module'][frames'[i].chunk].ops)
    BY <1>17, <2>1, <2>2
  <2>4. \A i \in 1..(Len(frames') - 1) : Floor(frames[i])' <= frames'[i + 1].base + 1
    <3>1. Len(frames') - 1 = n
      <4>1. n \in Nat
        BY <1>2 DEF n
      <4> QED BY <2>1, <4>1
    <3> QED BY <1>16, <3>1 DEF Floor
  <2> QED BY <1>15, <2>3, <2>4 DEF OperandsThere
<1> QED BY <1>9, <1>13, <1>18 DEF IInv

\* A callee gives back all its frame held, and one value: its caller finds the
\* operands it had put aside.
LEMMA ReturnStep ==
  ASSUME IInv, Return
  PROVE  IInv' /\ BelowBaseUnchanged
<1> DEFINE n == Len(frames)
           F == [chunk : Chunks, ip : Nat \ {0}, base : Nat, local_count : Nat]
           kept == IF top.base < Len(Rest) THEN top.base ELSE Len(Rest)
           below == SubSeq(Rest, 1, kept)
<1>1. /\ outcome = Running /\ op.op = "Return"
      /\ n = 1 => stack' = below /\ outcome' = Finished(Args[1])
      /\ n # 1 => stack' = Append(below, Args[1]) /\ outcome' = outcome
      /\ frames' = SubSeq(frames, 1, n - 1)
      /\ module' = module /\ effects' = effects
  BY DEF Return, Executes
<1>2. /\ n \in Nat \ {0} /\ top.base \in Nat /\ top.local_count \in Nat
  BY <1>1, AtInstruction
<1>3. /\ IsSequence(Rest) /\ Len(Rest) \in Nat
      /\ top.base + top.local_count <= Len(Rest)
      /\ \A i \in 1..Len(Rest) : Rest[i] = stack[i]
      /\ Len(Rest) = Len(stack) - Operands(op)
      /\ Len(stack) \in Nat /\ Operands(op) \in Nat
  BY <1>1, RestKeepsLocals, AtOperands
<1>4. kept = top.base /\ kept \in 0..Len(Rest)
  BY <1>2, <1>3
<1>5. /\ IsSequence(below) /\ Len(below) = top.base
      /\ \A i \in 1..top.base : below[i] = Rest[i]
  <2> HIDE DEF kept
  <2> QED BY <1>3, <1>4, PrefixSequence
<1>6. /\ IsSequence(stack')
      /\ Len(stack') = IF n = 1 THEN top.base ELSE top.base + 1
      /\ \A i \in 1..top.base : stack'[i] = below[i]
  <2>1. n = 1 => stack' = below
    BY <1>1
  <2>2. n # 1 => stack' = Append(below, Args[1])
    BY <1>1
  <2> HIDE DEF below, n
  <2>3. CASE n = 1
    BY <1>5, <2>1, <2>3
  <2>4. CASE n # 1
    <3>1. /\ IsSequence(stack') /\ Len(stack') = Len(below) + 1
          /\ \A i \in 1..Len(below) : stack'[i] = below[i]
      <4>1. stack' = Append(below, Args[1])
        BY <2>2, <2>4
      <4>2. IsSequence(below)
        BY <1>5
      <4> QED BY <4>1, <4>2, AppendSequence
    <3> QED BY <1>5, <2>4, <3>1
  <2> QED BY <2>3, <2>4
<1>7. BelowBaseUnchanged
  <2>1. \A i \in 1..top.base : i \in 1..Len(Rest) /\ i <= Len(stack) /\ i <= Len(stack')
    BY <1>2, <1>3, <1>6, SMTT(30)
  <2> HIDE DEF below
  <2> QED BY <1>3, <1>5, <1>6, <2>1 DEF BelowBaseUnchanged
<1>8. frames \in Seq(F) /\ F' = F /\ Chunks' = Chunks
  BY <1>1 DEF IInv, TypeOK, Chunks
<1>9. /\ frames' \in Seq(F) /\ Len(frames') = n - 1
      /\ \A i \in 1..(n - 1) : i \in 1..n /\ frames'[i] = frames[i]
  <2> HIDE DEF F
  <2>1. \A i \in 1..(n - 1) : frames[i] \in F
    BY <1>2, <1>8, ElementOfSeq
  <2>2. /\ frames' \in Seq(F) /\ Len(frames') = IF 1 <= n - 1 THEN n - 1 - 1 + 1 ELSE 0
        /\ \A i \in 1..(n - 1 - 1 + 1) : frames'[i] = frames[1 + i - 1]
    BY <1>1, <1>2, <2>1, SubSeqProperties
  <2>3. n \in Nat \ {0}
    BY <1>2
  <2> HIDE DEF n
  <2> QED BY <2>2, <2>3
<1>10. TypeOK'
  <2>1. outcome' = Running => frames' # <<>>
    <3>1. CASE n = 1
      BY <1>1, <3>1 DEF Running, Finished
    <3>2. CASE n # 1
      BY <1>2, <1>9, <3>2
    <3> QED BY <3>1, <3>2
  <2>2. \A i \in 1..(n - 1) : /\ frames'[i].ip <= Len(Code[module][frames'[i].chunk].ops) + 1
                              /\ frames'[i].local_count = Code[module][frames'[i].chunk].local_count
    BY <1>9 DEF IInv, TypeOK
  <2>3. module' \in DOMAIN Code /\ IsSequence(effects')
    BY <1>1 DEF IInv, TypeOK
  <2> HIDE DEF n
  <2> QED BY <1>1, <1>6, <1>8, <1>9, <2>1, <2>2, <2>3 DEF TypeOK
<1>11. OperandsThere'
  <2> SUFFICES ASSUME outcome' = Running
               PROVE  /\ \A i \in 1..Len(frames') : frames'[i].ip <= Len(Code[module'][frames'[i].chunk].ops)
                      /\ Floor(top)' <= Len(stack')
                      /\ \A i \in 1..(Len(frames') - 1) : Floor(frames[i])' <= frames'[i + 1].base + 1
    BY DEF OperandsThere
  <2>1. n # 1
    BY <1>1 DEF Running, Finished
  <2>2. /\ \A i \in 1..n : frames[i].ip <= Len(Code[module][frames[i].chunk].ops)
        /\ \A i \in 1..(n - 1) : Floor(frames[i]) <= frames[i + 1].base + 1
    BY <1>1 DEF IInv, OperandsThere
  <2>3. \A i \in 1..Len(frames') : frames'[i].ip <= Len(Code[module'][frames'[i].chunk].ops)
    BY <1>1, <1>9, <2>2
  <2>4. Floor(top)' <= Len(stack')
    <3>1. n - 1 \in 1..(n - 1) /\ n - 1 + 1 = n
      <4>1. n \in Nat \ {0}
        BY <1>2
      <4> HIDE DEF n
      <4> QED BY <2>1, <4>1
    <3>2. top' = frames[n - 1]
      BY <1>9, <3>1 DEF top
    <3>3. Floor(top)' = Floor(frames[n - 1])
      BY <1>1, <3>2 DEF Floor
    <3>4. Floor(frames[n - 1]) <= top.base + 1
      BY <2>2, <3>1 DEF top
    <3> QED BY <1>6, <2>1, <3>3, <3>4
  <2>5. ASSUME NEW i \in 1..(Len(frames') - 1)
        PROVE  Floor(frames[i])' <= frames'[i + 1].base + 1
    <3>1. i \in 1..(n - 1) /\ i + 1 \in 1..(n - 1)
      <4>1. n \in Nat /\ i \in 1..(n - 1 - 1)
        BY <1>2, <1>9
      <4> HIDE DEF n
      <4> QED BY <4>1
    <3>2. Floor(frames[i])' = Floor(frames[i])
      BY <1>1, <1>9, <3>1 DEF Floor
    <3> QED BY <1>9, <2>2, <3>1, <3>2
  <2> QED BY <2>3, <2>4, <2>5
<1> QED BY <1>7, <1>10, <1>11 DEF IInv

\* A step that ends the program leaves the machine in a state of its type.
LEMMA EndingStep ==
  ASSUME IInv, Halt \/ BuiltinFails \/ Fails
  PROVE  IInv' /\ BelowBaseUnchanged
<1>1. /\ outcome = Running /\ outcome' # Running
      /\ module' = module /\ stack' = stack
      /\ effects' = effects \/ \E v : effects' = Append(effects, v)
      /\ frames' = frames \/ frames' = [frames EXCEPT ![Len(frames)].ip = top.ip + 1]
  BY DEF Halt, BuiltinFails, Fails, Executes, Proceed, GoTo, Running, Finished, Failed
<1>2. OperandsThere'
  BY <1>1 DEF OperandsThere
<1> DEFINE n == Len(frames)
           F == [chunk : Chunks, ip : Nat \ {0}, base : Nat, local_count : Nat]
<1>3. /\ n \in Nat \ {0} /\ top \in F /\ Len(ops) \in Nat /\ top.ip \in 1..Len(ops)
      /\ top.local_count = Code[module][top.chunk].local_count
  BY <1>1, AtInstruction
<1>4. frames \in Seq(F) /\ F' = F /\ Chunks' = Chunks
  BY <1>1 DEF IInv, TypeOK, Chunks
<1>5. ASSUME frames' = frames PROVE IInv'
  BY <1>1, <1>2, <1>4, <1>5, EffectsSequence DEF IInv, TypeOK
<1>6. ASSUME frames' = [frames EXCEPT ![Len(frames)].ip = top.ip + 1] PROVE IInv'
  <2> DEFINE next == [top EXCEPT !.ip = top.ip + 1]
  <2>1. next \in F /\ next.ip = top.ip + 1 /\ next.chunk = top.chunk /\ next.local_count = top.local_count
    <3>1. top.ip + 1 \in Nat \ {0} /\ top \in F
      BY <1>3
    <3> QED BY <3>1
  <2>2. frames' = [frames EXCEPT ![n] = next]
    BY <1>6 DEF top
  <2>3. /\ frames' \in Seq(F) /\ Len(frames') = n /\ frames'[n] = next
        /\ \A i \in 1..(n - 1) : i \in 1..n /\ frames'[i] = frames[i]
    <3>1. n \in 1..Len(frames) /\ \A i \in 1..(n - 1) : i \in 1..n /\ i # n
      BY <1>3
    <3> HIDE DEF F, next
    <3> QED BY <1>4, <2>1, <2>2, <3>1, ExceptSeq
  <2>4. ASSUME NEW i \in 1..n
        PROVE  /\ frames'[i].ip <= Len(Code[module][frames'[i].chunk].ops) + 1
               /\ frames'[i].local_count = Code[module][frames'[i].chunk].local_count
    <3>1. CASE i = n
      <4>1. /\ frames'[i].ip = top.ip + 1 /\ frames'[i].chunk = top.chunk
            /\ frames'[i].local_count = top.local_count
        <5> HIDE DEF next
        <5> QED BY <2>1, <2>3, <3>1
      <4> QED BY <1>3, <4>1 DEF ops
    <3>2. CASE i \in 1..(n - 1)
      BY <2>3, <3>2 DEF IInv, TypeOK
    <3>3. i = n \/ i \in 1..(n - 1)
      BY <1>3
    <3> QED BY <3>1, <3>2, <3>3
  <2>5. IsSequence(effects')
    BY <1>1, EffectsSequence
  <2>6. module' \in DOMAIN Code /\ IsSequence(stack')
    BY <1>1 DEF IInv, TypeOK
  <2>7. TypeOK'
    <3> HIDE DEF n, next
    <3> QED BY <1>1, <1>4, <2>3, <2>4, <2>5, <2>6 DEF TypeOK
  <2> QED BY <1>2, <2>7 DEF IInv
<1>7. IInv'
  BY <1>1, <1>2, <1>5, <1>6
<1>8. BelowBaseUnchanged
  <2>1. /\ top.base \in Nat /\ top.local_count \in Nat /\ Len(stack) \in Nat /\ d[top.ip] \in Nat
        /\ top.base + top.local_count + d[top.ip] <= Len(stack)
    BY <1>1, AtInstruction, AtOperands
  <2>2. \A i \in 1..top.base : i <= Len(stack)
    BY <2>1
  <2> QED BY <1>1, <2>2 DEF BelowBaseUnchanged
<1> QED BY <1>7, <1>8

\* Nothing changes when the program has ended.
LEMMA StutteringStep ==
  ASSUME IInv, UNCHANGED vars
  PROVE  IInv'
BY DEF vars, IInv, TypeOK, OperandsThere, Chunks, top, Floor, IsSequence

-----------------------------------------------------------------------------
(* The theorems.                                                           *)

\* The entry frame is on the stack with all its locals.
LEMMA InitInvariant == Init => IInv
<1> SUFFICES ASSUME Init PROVE IInv
  OBVIOUS
<1>1. /\ Len(Code[module]) \in Nat \ {0} /\ Code[module][1].local_count \in Nat
      /\ Len(Code[module][1].ops) \in Nat /\ Balanced(Code[module][1], StackMap[module][1])
  <2>1. module \in DOMAIN Code /\ Len(Code[module]) \in Nat \ {0}
    BY CodeBalanced DEF Init
  <2>2. 1 \in 1..Len(Code[module])
    BY <2>1
  <2> QED BY <2>1, <2>2, CodeBalanced
<1>2. Len(Code[module][1].ops) > 0 /\ StackMap[module][1][1] = 0
  BY <1>1 DEF Balanced
<1>3. /\ frames = <<Frame(1, 0, Code[module][1].local_count)>>
      /\ Len(frames) = 1 /\ top = Frame(1, 0, Code[module][1].local_count)
  BY DEF Init, top
<1>4. IsSequence(stack) /\ Len(stack) = Code[module][1].local_count
  BY <1>1, VoidsSequence DEF Init
<1>5. IsSequence(effects)
  BY EmptySeq, SequenceOver DEF Init
<1>6. Frame(1, 0, Code[module][1].local_count) \in
        [chunk : Chunks, ip : Nat \ {0}, base : Nat, local_count : Nat]
  BY <1>1 DEF Frame, Chunks
<1>7. TypeOK
  BY <1>1, <1>3, <1>4, <1>5, <1>6 DEF TypeOK, Init, Frame
<1>8. OperandsThere
  <2>1. Floor(top) <= Len(stack)
    BY <1>1, <1>2, <1>3, <1>4 DEF Floor, Frame
  <2> QED BY <1>1, <1>2, <1>3, <2>1 DEF OperandsThere, Frame
<1> QED BY <1>7, <1>8 DEF IInv

LEMMA StepInvariant == IInv /\ [Next]_vars => IInv'
<1> SUFFICES ASSUME IInv, [Next]_vars PROVE IInv'
  OBVIOUS
<1>1. CASE Next
  BY <1>1, LoadStep, StoreStep, ComputeStep, PeekStep, CheckStep, JumpStep, CallStep,
     ReturnStep, EndingStep, StutteringStep DEF Next, Returned
<1>2. CASE UNCHANGED vars
  BY <1>2, StutteringStep
<1> QED BY <1>1, <1>2

\* The machine's state is what module Vm says it is.
THEOREM TypeCorrect == Spec => []TypeOK
<1>1. IInv => TypeOK
  BY DEF IInv
<1> QED BY <1>1, InitInvariant, StepInvariant, PTL DEF Spec

\* Every active frame finds the operands its code counts on, whatever the
\* calls made meanwhile: the invariant that makes an unchecked `pop` safe.
THEOREM OperandsAlwaysThere == Spec => []OperandsThere
<1>1. IInv => OperandsThere
  BY DEF IInv
<1> QED BY <1>1, InitInvariant, StepInvariant, PTL DEF Spec

\* No balanced program makes the machine underflow, leave its locals, jump
\* astray or run off its code.
THEOREM NeverStructuralFault == Spec => []NoStructuralFault
<1>1. Init => NoStructuralFault
  BY DEF Init, NoStructuralFault, Running, Failed
<1>2. ASSUME IInv, NoStructuralFault, [Next]_vars
      PROVE  NoStructuralFault'
  <2>1. CASE Fails
    <3>1. Fault \notin StructuralFaults /\ outcome' = Failed(Fault)
      BY <1>2, <2>1, FaultIsOrdinary DEF Fails
    <3> QED BY <3>1 DEF NoStructuralFault, Failed
  <2>2. CASE BuiltinFails
    BY <2>2 DEF BuiltinFails, NoStructuralFault, Failed, StructuralFaults
  <2>3. CASE Halt \/ Return
    BY <1>2, <2>3 DEF Halt, Return, Finished, NoStructuralFault, Failed
  <2>4. CASE outcome' = outcome
    BY <1>2, <2>4 DEF NoStructuralFault
  <2> QED BY Zenon, <1>2, <2>1, <2>2, <2>3, <2>4
          DEF Next, vars, LoadConst, LoadLocal, StoreLocal, Compute, Peek, Check, Jump, Call,
              CallBuiltin, Returned
<1> QED BY <1>1, <1>2, InitInvariant, StepInvariant, PTL DEF Spec

\* No step of a frame changes what lies below its base.
THEOREM FramesIsolated == Spec => FrameIsolation
<1>1. ASSUME IInv, [Next]_vars
      PROVE  [BelowBaseUnchanged]_vars
  <2>1. CASE Returned
    BY <2>1 DEF Returned
  <2>2. CASE UNCHANGED vars
    BY <2>2
  <2>3. CASE Next /\ ~Returned
    BY <1>1, <2>3, LoadStep, StoreStep, ComputeStep, PeekStep, CheckStep, JumpStep, CallStep,
       ReturnStep, EndingStep DEF Next
  <2> QED BY <1>1, <2>1, <2>2, <2>3
<1> QED BY <1>1, InitInvariant, StepInvariant, PTL DEF Spec, FrameIsolation

-----------------------------------------------------------------------------
(* Running a flow: where the machine is, and what it holds there.          *)

flow == Flows[module]
layout == Layout[module]
stepCount == Len(flow.steps)
flowChunk == Code[module][layout.chunk]
undoSteps == Abstract!UndoSteps

MainFrame(p) == [chunk |-> 1, ip |-> p, base |-> 0, local_count |-> 2]
FlowFrame(p) ==
  [chunk |-> layout.chunk, ip |-> p, base |-> 2, local_count |-> flowChunk.local_count]
FnFrame(i, p, b) == [chunk |-> layout.via[i], ip |-> p, base |-> b, local_count |-> 1]

\* The machine is at an instruction of the entry chunk, of the flow, or of the
\* function through which step i makes its call.
InMain(p) == frames = <<MainFrame(p)>>
InFlow(p) == frames = <<MainFrame(4), FlowFrame(p)>>
InFn(i, p) ==
  /\ top.base \in Nat /\ top.base >= 2 + flowChunk.local_count
  /\ frames = <<MainFrame(4), FlowFrame(layout.start[i] + 3), FnFrame(i, p, top.base)>>

Top == stack[Len(stack)]
Below == stack[Len(stack) - 1]

\* The flow's locals while steps up to k have been left: its input and what
\* the steps before k left.
Kept(k) ==
  /\ stack[3] = flow.input
  /\ \A j \in 1..stepCount : stack[j + 4] = IF j < k THEN Abstract!Left(j) ELSE Void

\* The first k steps completed; step i was called after the others had
\* completed; step f failed after they had, and r calls were made since.
Through(k) == flow.admitted /\ Len(effects) = k /\ \A j \in 1..k : Abstract!Completes(j)
Called(i) == flow.admitted /\ Len(effects) = i /\ \A j \in 1..(i - 1) : Abstract!Completes(j)
Turned(f, r) ==
  /\ flow.admitted /\ Len(effects) = f + r
  /\ Abstract!Fails(f) /\ \A j \in 1..(f - 1) : Abstract!Completes(j)

AtEntry ==
  /\ effects = <<>>
  /\ \/ InMain(1) /\ Len(stack) = 2
     \/ InMain(2) /\ Len(stack) = 3 /\ stack[3] = FnV(layout.name, 1)
     \/ InMain(3) /\ Len(stack) = 4 /\ stack[3] = FnV(layout.name, 1) /\ stack[4] = flow.input

AtGuard ==
  /\ effects = <<>> /\ Kept(1)
  /\ \/ InFlow(1)
     \/ InFlow(2) /\ Top = flow.input
     \/ InFlow(3) /\ Below = flow.input /\ Top = IntV(0)
     \/ InFlow(4) /\ Top = BoolV(flow.admitted)

AtStart(i) == InFlow(layout.start[i]) /\ Through(i - 1) /\ Kept(i)

AtCall(i) ==
  /\ Through(i - 1) /\ Kept(i)
  /\ \/ layout.via[i] = 0 /\ InFlow(layout.start[i] + 1) /\ Top = Abstract!Input(i)
     \/ /\ layout.via[i] # 0
        /\ \/ InFlow(layout.start[i] + 1) /\ Top = FnV(Code[module][layout.via[i]].name, 1)
           \/ /\ InFlow(layout.start[i] + 2)
              /\ Below = FnV(Code[module][layout.via[i]].name, 1) /\ Top = Abstract!Input(i)
           \/ InFn(i, 1) /\ stack[top.base + 1] = Abstract!Input(i)
           \/ InFn(i, 2) /\ Top = Abstract!Input(i)

\* Where the call of step i leaves its result in the flow.
After(i) == layout.start[i] + IF layout.via[i] = 0 THEN 2 ELSE 3

AtResult(i) ==
  /\ Called(i) /\ Kept(i) /\ Top = effects[i].result
  /\ \/ layout.via[i] # 0 /\ InFn(i, 3)
     \/ InFlow(After(i)) /\ flow.steps[i].try

AtTest(i) ==
  /\ Called(i) /\ Kept(i) /\ ~Abstract!Stops(i)
  /\ \/ InFlow(layout.test[i]) /\ Top = Abstract!Got(i)
     \/ InFlow(layout.test[i] + 1) /\ Top = Abstract!Got(i)
     \/ /\ InFlow(layout.test[i] + 2)
        /\ Below = Abstract!Got(i) /\ Top = BoolV(Tag(Abstract!Got(i)) = "Err")

AtFailure(i) ==
  /\ Turned(i, 0) /\ Kept(i)
  /\ \/ InFlow(layout.test[i] + 3) /\ Top = Abstract!Got(i)
     \/ InFlow(layout.test[i] + 4) /\ stack[4] = Abstract!Got(i)

AtSuccess(i) ==
  /\ Through(i) /\ Kept(i)
  /\ \/ InFlow(layout.test[i] + 5) /\ Top = Abstract!Got(i)
     \/ InFlow(layout.test[i] + 6) /\ Top = Abstract!Got(i)
     \/ /\ InFlow(layout.test[i] + 7)
        /\ Below = Abstract!Got(i) /\ Top = BoolV(Tag(Abstract!Got(i)) = "Ok")
     \/ InFlow(layout.test[i] + 8) /\ Tag(Abstract!Got(i)) = "Ok" /\ Top = Abstract!Got(i)
     \/ InFlow(layout.test[i] + 9) /\ Top = Abstract!Left(i)

\* Step f failed and the rollbacks of the steps after i have been called.
AtUndo(f, i) ==
  /\ Kept(f) /\ stack[4] = Abstract!Got(f)
  /\ \/ InFlow(layout.back[i]) /\ Turned(f, Abstract!Before(i))
     \/ /\ i # 0 /\ InFlow(layout.back[i] + 1) /\ Turned(f, Abstract!Before(i))
        /\ Top = IF i < f THEN Abstract!Left(i) ELSE Void
     \/ i # 0 /\ InFlow(layout.back[i] + 2) /\ Turned(f, Abstract!Before(i) + 1)

\* What the flow owes its caller.
Due(v) ==
  \/ \E f \in 1..stepCount : Turned(f, Cardinality(undoSteps)) /\ v = Abstract!Got(f)
  \/ /\ Through(stepCount)
     /\ v = OkV(IF stepCount = 0 THEN Void ELSE Abstract!Left(stepCount))

AtAnswer ==
  \/ /\ InFlow(layout.start[stepCount + 1] + 1) /\ Through(stepCount)
     /\ Top = IF stepCount = 0 THEN Void ELSE Abstract!Left(stepCount)
  \/ InFlow(layout.start[stepCount + 1] + 2) /\ Due(Top)
  \/ InFlow(layout.back[0] + 1) /\ Due(Top)

AtExit ==
  \/ InMain(4) /\ Due(Top)
  \/ (InMain(5) \/ InMain(6) \/ InMain(7)) /\ Due(stack[1])
  \/ InMain(8) /\ Due(Top)

FlowInv ==
  outcome = Running =>
    \/ AtEntry \/ AtGuard \/ AtAnswer \/ AtExit
    \/ \E i \in 1..(stepCount + 1) : AtStart(i)
    \/ \E i \in 1..stepCount :
         AtCall(i) \/ AtResult(i) \/ AtTest(i) \/ AtFailure(i) \/ AtSuccess(i)
    \/ \E f \in 1..stepCount, i \in undoSteps \cup {0} : AtUndo(f, i)

\* The first k calls are those of the first k steps, each given what the one
\* before it left.
InOrder(k) == \A i \in 1..k : Abstract!CalledWith(i, flow.steps[i].do, Abstract!Gave(i - 1))

\* The r calls after the one that failed are the rollbacks that come first.
Undone(f, r) ==
  /\ \A u \in 1..r : \E i \in undoSteps : Abstract!Before(i) + 1 = u
  /\ \A i \in undoSteps : Abstract!Before(i) < r =>
       Abstract!CalledWith(f + 1 + Abstract!Before(i), flow.steps[i].undo,
                           IF i < f THEN Abstract!Left(i) ELSE Void)

\* What has happened at any time, and what the program ends with.
Trail(f, r) == Turned(f, r) /\ InOrder(f) /\ Undone(f, r)
SagaInv ==
  /\ \/ effects = <<>>
     \/ \E k \in 1..stepCount : Called(k) /\ InOrder(k)
     \/ \E f \in 1..stepCount, r \in 0..Cardinality(undoSteps) : Trail(f, r)
  /\ outcome[1] = "value" => Due(outcome[2])
-----------------------------------------------------------------------------
(* What each instruction does to the stack.                                *)

Quiet == UNCHANGED <<module, outcome, effects>>

\* The last k values make place for v; they are dropped.
Replaced(k, v) ==
  /\ Len(stack') = Len(stack) - k + 1
  /\ stack'[Len(stack) - k + 1] = v
  /\ \A i \in 1..(Len(stack) - k) : stack'[i] = stack[i]
Dropped(k) ==
  /\ Len(stack') = Len(stack) - k
  /\ \A i \in 1..(Len(stack) - k) : stack'[i] = stack[i]

\* No fault but those of calls and operands is met.
LEMMA FaultIs ==
  ASSUME IInv, outcome = Running
  PROVE  Fault = IF op.op = "Call" THEN CallFault(Args[1]) ELSE OperandFault(op, Args)
<1>1. /\ Len(ops) \in Nat /\ top.ip \in 1..Len(ops)
      /\ top.base \in Nat /\ top.local_count \in Nat
  BY AtInstruction
<1>2. /\ Operands(op) \in Nat /\ Len(stack) \in Nat
      /\ d[top.ip] \in Nat /\ Operands(op) <= d[top.ip]
      /\ op.op \in {"LoadLocal", "StoreLocal"} => op.arg \in 0..(top.local_count - 1)
      /\ Successors(ops, top.ip) \subseteq 1..Len(ops)
      /\ top.base + top.local_count + d[top.ip] <= Len(stack)
  BY AtOperands
<1>3. ~(top.ip > Len(ops))
  BY <1>1
<1>4. ~(op.op \in {"LoadLocal", "StoreLocal"} /\ op.arg >= top.local_count)
  BY <1>1, <1>2
<1>5. ~(Len(stack) < Operands(op))
  BY <1>1, <1>2
<1>6. ~(op.op = "LoadLocal" /\ top.base + op.arg >= Len(stack))
  BY <1>1, <1>2, SMTT(30)
<1>7. ~(JumpTaken /\ op.arg > Len(ops) + 1)
  <2>1. JumpTaken => op.arg \in Successors(ops, top.ip)
    BY DEF JumpTaken, Successors, op
  <2> QED BY <1>1, <1>2, <2>1
<1> QED BY <1>3, <1>4, <1>5, <1>6, <1>7 DEF Fault

\* The operands are the last values of the stack, in order.
LEMMA ArgsAre ==
  ASSUME IInv, outcome = Running
  PROVE  \A k \in 1..Operands(op) : Args[k] = stack[Len(stack) - Operands(op) + k]
<1> DEFINE S == {stack[i] : i \in DOMAIN stack}
           m == Len(stack) - Operands(op)
<1>1. /\ stack \in Seq(S) /\ Len(stack) \in Nat /\ DOMAIN stack = 1..Len(stack)
      /\ Operands(op) \in Nat /\ Operands(op) <= d[top.ip] /\ d[top.ip] \in Nat
      /\ top.base \in Nat /\ top.local_count \in Nat
      /\ top.base + top.local_count + d[top.ip] <= Len(stack)
  BY AtOperands, AtInstruction, SequenceOver DEF IsSequence
<1>2. m + 1 \in 1..(Len(stack) + 1) /\ m \in Nat
  BY SMTT(30), <1>1
<1>3. \A i \in (m + 1)..Len(stack) : stack[i] \in S
  BY SMTT(30), <1>1, <1>2
<1>4. Args = SubSeq(stack, m + 1, Len(stack))
  BY DEF Args
<1>5. Len(stack) - (m + 1) + 1 = Operands(op)
  BY <1>1
<1> HIDE DEF S, m
<1>6. \A k \in 1..(Len(stack) - (m + 1) + 1) : Args[k] = stack[m + 1 + k - 1]
  BY <1>1, <1>2, <1>3, <1>4, SubSeqProperties
<1>7. \A k \in 1..Operands(op) : m + 1 + k - 1 = m + k
  BY <1>1, <1>2
<1>8. \A k \in 1..Operands(op) : Args[k] = stack[m + k]
  BY <1>5, <1>6, <1>7
<1> QED BY <1>8 DEF m

\* Pushing on what the instruction leaves of the stack; leaving just that.
LEMMA PushReplaces ==
  ASSUME IInv, outcome = Running, NEW v, stack' = Append(Rest, v)
  PROVE  Replaced(Operands(op), v)
<1>1. /\ IsSequence(Rest) /\ Len(Rest) \in Nat
      /\ Len(Rest) = Len(stack) - Operands(op)
      /\ \A i \in 1..Len(Rest) : Rest[i] = stack[i]
  BY RestKeepsLocals
<1>2. /\ Len(stack') = Len(Rest) + 1
      /\ \A i \in 1..Len(Rest) : stack'[i] = Rest[i]
  BY <1>1, AppendSequence
<1>3. stack'[Len(Rest) + 1] = v
  BY <1>1, AppendProperties DEF IsSequence
<1> QED BY <1>1, <1>2, <1>3 DEF Replaced

LEMMA PeekReplaces ==
  ASSUME IInv, outcome = Running, NEW v, stack' = Append(stack, v)
  PROVE  Replaced(0, v)
<1>1. IsSequence(stack) /\ Len(stack) \in Nat
  BY AtOperands
<1>2. /\ Len(stack') = Len(stack) + 1
      /\ \A i \in 1..Len(stack) : stack'[i] = stack[i]
  BY <1>1, AppendSequence
<1>3. stack'[Len(stack) + 1] = v
  BY <1>1, AppendProperties DEF IsSequence
<1>4. Len(stack) - 0 = Len(stack)
  BY <1>1
<1> QED BY <1>2, <1>3, <1>4 DEF Replaced

LEMMA RestDrops ==
  ASSUME IInv, outcome = Running, stack' = Rest
  PROVE  Dropped(Operands(op))
BY RestKeepsLocals DEF Dropped

\* The operand count of the instructions of a flow.
LEMMA CountsOf ==
  /\ \A o : o.op \in {"LoadConst", "LoadLocal", "Jump", "Halt"} => Operands(o) = 0
  /\ \A o : o.op \in {"StoreLocal", "Dup", "IsErr", "IsOk", "JumpIfFalse", "UnwrapInner", "Unwrap",
                      "WrapOk", "Return", "CheckRequire"} => Operands(o) = 1
  /\ \A o : o.op = "Gt" => Operands(o) = 2
  /\ \A o : o.op = "CallBuiltin" => Operands(o) = o.n
  /\ \A o : o.op = "Call" => Operands(o) = o.n + 1
BY DEF Operands, BinaryOps, MakeOps, IntOps, OrderOps, LogicOps

\* The second of two concatenated sequences.
LEMMA LaterElement ==
  ASSUME NEW s, IsSequence(s), NEW t, IsSequence(t), NEW i \in 1..Len(t)
  PROVE  (s \o t)[Len(s) + i] = t[i]
<1> DEFINE S == {s[j] : j \in DOMAIN s} \cup {t[j] : j \in DOMAIN t}
<1>1. s \in Seq(S) /\ t \in Seq(S)
  BY SeqMonotonic DEF IsSequence
<1>2. Len(s) \in Nat /\ Len(t) \in Nat
  BY <1>1, LenProperties
<1> HIDE DEF S
<1>3. \A j \in 1 .. Len(s) + Len(t) : (s \o t)[j] = IF j <= Len(s) THEN s[j] ELSE t[j - Len(s)]
  BY <1>1, ConcatProperties
<1>4. Len(s) + i \in 1 .. Len(s) + Len(t) /\ ~(Len(s) + i <= Len(s)) /\ Len(s) + i - Len(s) = i
  BY <1>2
<1> QED BY <1>3, <1>4

\* The step a running machine takes is the one of its instruction.
LEMMA StepTaken ==
  ASSUME outcome = Running, Next, Fault = "none"
  PROVE  /\ op.op = "LoadConst" => LoadConst
         /\ op.op = "LoadLocal" => LoadLocal
         /\ op.op = "StoreLocal" => StoreLocal
         /\ op.op \in {"Gt", "WrapOk", "Unwrap", "UnwrapInner"} => Compute
         /\ op.op \in {"Dup", "IsErr", "IsOk"} => Peek
         /\ op.op = "CheckRequire" => Check
         /\ op.op \in {"Jump", "JumpIfFalse"} => Jump
         /\ op.op = "Call" => Call
         /\ op.op = "Return" => Return
         /\ op.op = "Halt" => Halt
         /\ op.op = "CallBuiltin" => CallBuiltin \/ BuiltinFails
<1> DEFINE Others == {"LoadConst", "LoadLocal", "StoreLocal", "Jump", "JumpIfFalse", "Call",
                      "Return", "Halt", "CallBuiltin"}
<1>1. /\ ComputeOps \cap (Others \cup PeekOps \cup CheckOps) = {}
      /\ PeekOps \cap (Others \cup CheckOps) = {} /\ CheckOps \cap Others = {}
      /\ {"Gt", "WrapOk", "Unwrap", "UnwrapInner"} \subseteq ComputeOps
      /\ {"Dup", "IsErr", "IsOk"} \subseteq PeekOps /\ "CheckRequire" \in CheckOps
  BY DEF ComputeOps, BinaryOps, UnaryOps, MakeOps, PeekOps, CheckOps, IntOps, OrderOps, LogicOps
<1>2. /\ LoadConst => op.op = "LoadConst"
      /\ LoadLocal => op.op = "LoadLocal"
      /\ StoreLocal => op.op = "StoreLocal"
      /\ Compute => op.op \in ComputeOps
      /\ Peek => op.op \in PeekOps
      /\ Check => op.op \in CheckOps
      /\ Jump => op.op \in {"Jump", "JumpIfFalse"}
      /\ Call => op.op = "Call"
      /\ Return => op.op = "Return"
      /\ Halt => op.op = "Halt"
      /\ CallBuiltin \/ BuiltinFails => op.op = "CallBuiltin"
  BY Zenon DEF LoadConst, LoadLocal, StoreLocal, Compute, Peek, Check, Jump, Call, Return, Halt,
         CallBuiltin, BuiltinFails, Executes
<1>3. \/ LoadConst \/ LoadLocal \/ StoreLocal \/ Compute \/ Peek \/ Check
      \/ Jump \/ Call \/ Return \/ Halt \/ CallBuiltin \/ BuiltinFails
  BY DEF Next, Fails, Returned
<1> QED BY <1>1, <1>2, <1>3

LEMMA FaultTaken ==
  ASSUME outcome = Running, Next, Fault # "none"
  PROVE  outcome' = Failed(Fault) /\ UNCHANGED <<module, stack, frames, effects>>
BY Zenon DEF Next, Fails, Returned, LoadConst, LoadLocal, StoreLocal, Compute, Peek, Check, Jump, Call,
       Return, Halt, CallBuiltin, BuiltinFails, Executes

\* LoadConst and LoadLocal push a value, and so do Dup, IsErr and IsOk, which
\* leave their operand in place.
LEMMA DoesConst ==
  ASSUME IInv, outcome = Running, Next, NEW v, op = Const(v)
  PROVE  Quiet /\ Proceed /\ Replaced(0, v)
<1>1. op.op = "LoadConst" /\ op.arg = v
  BY DEF Const, Instr
<1>2. LoadConst
  BY <1>1, FaultIs, StepTaken DEF OperandFault, BinaryOps, UnaryOps, CheckOps, IntOps, OrderOps, LogicOps
<1>3. stack' = Append(Rest, v)
  BY <1>1, <1>2 DEF LoadConst, Push
<1> QED BY <1>1, <1>2, <1>3, PushReplaces, CountsOf DEF LoadConst, Quiet

LEMMA DoesLocal ==
  ASSUME IInv, outcome = Running, Next, NEW slot, op = Local(slot)
  PROVE  Quiet /\ Proceed /\ Replaced(0, stack[top.base + slot + 1])
<1>1. op.op = "LoadLocal" /\ op.arg = slot
  BY DEF Local, Instr
<1>2. LoadLocal
  BY <1>1, FaultIs, StepTaken DEF OperandFault, BinaryOps, UnaryOps, CheckOps, IntOps, OrderOps, LogicOps
<1>3. stack' = Append(Rest, stack[top.base + slot + 1])
  BY <1>1, <1>2 DEF LoadLocal, Push
<1> QED BY <1>1, <1>2, <1>3, PushReplaces, CountsOf DEF LoadLocal, Quiet

LEMMA DoesPeek ==
  ASSUME IInv, outcome = Running, Next, NEW name \in {"Dup", "IsErr", "IsOk"}, op = Simple(name)
  PROVE  Quiet /\ Proceed /\ Replaced(0, PeekResult(op, Top))
<1>1. op.op = name
  BY DEF Simple, Instr
<1>2. Peek
  BY <1>1, FaultIs, StepTaken DEF OperandFault, BinaryOps, UnaryOps, CheckOps, IntOps, OrderOps, LogicOps
<1>3. Operands(op) = 1
  BY <1>1, CountsOf
<1>4. Args[1] = Top
  <2>1. Len(stack) \in Nat
    BY AtOperands
  <2> QED BY <1>3, <2>1, ArgsAre DEF Top
<1> QED BY <1>2, <1>4, PeekReplaces DEF Peek, Quiet

\* The operand of an instruction that takes one is the last value.
LEMMA OneOperand ==
  ASSUME IInv, outcome = Running, Operands(op) = 1
  PROVE  Args[1] = Top
<1>1. Len(stack) \in Nat
  BY AtOperands
<1> QED BY <1>1, ArgsAre DEF Top

\* Those of one that takes two are the last two.
LEMMA TwoOperands ==
  ASSUME IInv, outcome = Running, Operands(op) = 2
  PROVE  Args[1] = Below /\ Args[2] = Top
<1>1. Len(stack) \in Nat
  BY AtOperands
<1>2. Len(stack) - 2 + 1 = Len(stack) - 1 /\ Len(stack) - 2 + 2 = Len(stack)
  BY <1>1
<1> QED BY <1>2, ArgsAre DEF Top, Below

\* Unwrap, UnwrapInner and WrapOk: a value in place of the operand, or a fault.
LEMMA DoesUnary ==
  ASSUME IInv, outcome = Running, Next,
         NEW name \in {"WrapOk", "Unwrap", "UnwrapInner"}, op = Simple(name)
  PROVE  /\ UnaryFault(op, Top) = "none" => Quiet /\ Proceed /\ Replaced(1, UnaryResult(op, Top))
         /\ UnaryFault(op, Top) # "none" =>
              outcome' = Failed(UnaryFault(op, Top)) /\ UNCHANGED <<module, stack, frames, effects>>
<1>1. op.op = name
  BY DEF Simple, Instr
<1>2. Operands(op) = 1 /\ Args[1] = Top
  BY <1>1, CountsOf, OneOperand
<1>3. op.op \in UnaryOps /\ op.op \notin BinaryOps \cup CheckOps /\ op.op # "Call"
  BY <1>1 DEF BinaryOps, UnaryOps, CheckOps, IntOps, OrderOps, LogicOps
<1>4. Fault = UnaryFault(op, Top)
  BY <1>2, <1>3, FaultIs DEF OperandFault
<1>5. ASSUME UnaryFault(op, Top) = "none"
      PROVE  Quiet /\ Proceed /\ Replaced(1, UnaryResult(op, Top))
  <2>1. Compute
    BY <1>1, <1>4, <1>5, StepTaken
  <2>2. stack' = Append(Rest, UnaryResult(op, Top))
    BY <1>2, <1>3, <2>1 DEF Compute, Push, Result
  <2> QED BY <1>2, <2>1, <2>2, PushReplaces DEF Compute, Quiet
<1> QED BY <1>4, <1>5, FaultTaken

\* Gt on two integers.
LEMMA DoesGt ==
  ASSUME IInv, outcome = Running, Next, op = Simple("Gt"),
         NEW l, NEW r, Below = IntV(l), Top = IntV(r)
  PROVE  Quiet /\ Proceed /\ Replaced(2, BoolV(r < l))
<1>1. op.op = "Gt"
  BY DEF Simple, Instr
<1>2. Operands(op) = 2 /\ Args[1] = IntV(l) /\ Args[2] = IntV(r)
  BY <1>1, CountsOf, TwoOperands
<1>3. /\ op.op \in BinaryOps /\ op.op \notin UnaryOps \cup CheckOps
      /\ op.op \in OrderOps /\ op.op \notin IntOps \cup LogicOps
  BY <1>1 DEF BinaryOps, UnaryOps, CheckOps, IntOps, OrderOps, LogicOps
<1>4. Tag(IntV(l)) = "Int" /\ Tag(IntV(r)) = "Int" /\ Inner(IntV(l)) = l /\ Inner(IntV(r)) = r
  BY DEF Tag, Inner, IntV
<1>5. Fault = "none"
  <2>1. Fault = BinaryFault(op, IntV(l), IntV(r))
    BY <1>1, <1>2, <1>3, FaultIs DEF OperandFault
  <2> QED BY <1>1, <1>3, <1>4, <2>1 DEF BinaryFault
<1>6. Compute
  BY <1>1, <1>5, StepTaken
<1>7. Result(op, Args) = BoolV(r < l)
  <2>1. Result(op, Args) = BinaryResult(op, IntV(l), IntV(r))
    BY <1>2, <1>3 DEF Result
  <2>2. BinaryResult(op, IntV(l), IntV(r)) = BoolV(Orders("Gt", l, r))
    BY <1>1, <1>3, <1>4 DEF BinaryResult
  <2> QED BY <2>1, <2>2 DEF Orders
<1>8. stack' = Append(Rest, BoolV(r < l))
  BY <1>6, <1>7 DEF Compute, Push
<1> QED BY <1>2, <1>6, <1>8, PushReplaces DEF Compute, Quiet

\* The check of a require clause that yields a boolean.
LEMMA DoesCheck ==
  ASSUME IInv, outcome = Running, Next, op = Simple("CheckRequire"),
         NEW b \in BOOLEAN, Top = BoolV(b)
  PROVE  /\ b => Quiet /\ Proceed /\ Dropped(1)
         /\ ~b => outcome' = Failed("RequireViolated") /\ UNCHANGED <<module, stack, frames, effects>>
<1>1. op.op = "CheckRequire"
  BY DEF Simple, Instr
<1>2. Operands(op) = 1 /\ Args[1] = BoolV(b)
  BY <1>1, CountsOf, OneOperand
<1>3. op.op \in CheckOps /\ op.op \notin UnaryOps /\ op.op \notin BinaryOps
  BY <1>1 DEF BinaryOps, UnaryOps, CheckOps, IntOps, OrderOps, LogicOps
<1>4. Fault = CheckFault(op, BoolV(b))
  BY <1>1, <1>2, <1>3, FaultIs DEF OperandFault
<1>5. Tag(BoolV(b)) = "Bool" /\ (BoolV(b) = BoolV(TRUE) <=> b = TRUE)
  BY DEF Tag, BoolV
<1>6. Fault = IF b THEN "none" ELSE "RequireViolated"
  BY <1>1, <1>4, <1>5 DEF CheckFault
<1>7. ASSUME b PROVE Quiet /\ Proceed /\ Dropped(1)
  <2>1. Check
    BY <1>1, <1>6, <1>7, StepTaken
  <2> QED BY <1>2, <2>1, RestDrops DEF Check, Quiet
<1> QED BY <1>6, <1>7, FaultTaken

LEMMA DoesStore ==
  ASSUME IInv, outcome = Running, Next, NEW slot, op = StoreAt(slot)
  PROVE  /\ Quiet /\ Proceed
         /\ slot \in Nat /\ slot < top.local_count
         /\ Len(stack') = Len(stack) - 1
         /\ stack'[top.base + slot + 1] = Top
         /\ \A i \in 1..(Len(stack) - 1) : i # top.base + slot + 1 => stack'[i] = stack[i]
<1>1. op.op = "StoreLocal" /\ op.arg = slot
  BY DEF StoreAt, Instr
<1>2. StoreLocal
  BY <1>1, FaultIs, StepTaken DEF OperandFault, BinaryOps, UnaryOps, CheckOps, IntOps, OrderOps, LogicOps
<1>3. Operands(op) = 1 /\ Args[1] = Top
  BY <1>1, CountsOf, OneOperand
<1>4. /\ slot \in 0..(top.local_count - 1) /\ Len(stack) \in Nat
      /\ top.base \in Nat /\ top.local_count \in Nat
  BY <1>1, AtOperands, AtInstruction
<1>5. /\ Len(Rest) = Len(stack) - 1 /\ Len(Rest) \in Nat
      /\ top.base + top.local_count <= Len(Rest)
      /\ \A i \in 1..Len(Rest) : Rest[i] = stack[i]
  BY <1>3, RestKeepsLocals
<1>6. top.base + slot + 1 \in 1..Len(Rest)
  BY SMTT(30), <1>4, <1>5
<1>7. stack' = [i \in 1..Len(Rest) |-> IF i = top.base + slot + 1 THEN Top ELSE
                                       IF i <= Len(Rest) THEN Rest[i] ELSE Void]
  <2>1. ~(Len(Rest) < top.base + slot + 1)
    BY <1>5, <1>6
  <2> QED BY <1>1, <1>2, <1>3, <2>1 DEF StoreLocal
<1>8. Len(stack') = Len(Rest)
  BY <1>5, <1>7, FunctionSequence
<1>9. \A i \in 1..Len(Rest) : i <= Len(Rest)
  BY <1>5
<1>10. Quiet /\ Proceed
  BY <1>2 DEF StoreLocal, Quiet
<1> QED BY <1>4, <1>5, <1>6, <1>7, <1>8, <1>9, <1>10

LEMMA DoesJump ==
  ASSUME IInv, outcome = Running, Next, NEW p, op = Instr("Jump", p, 0)
  PROVE  Quiet /\ GoTo(p) /\ Dropped(0)
<1>1. op.op = "Jump" /\ op.arg = p
  BY DEF Instr
<1>2. Jump
  BY <1>1, FaultIs, StepTaken DEF OperandFault, BinaryOps, UnaryOps, CheckOps, IntOps, OrderOps, LogicOps
<1> QED BY <1>1, <1>2, RestDrops, CountsOf DEF Jump, JumpTaken, Quiet

LEMMA DoesJumpIfFalse ==
  ASSUME IInv, outcome = Running, Next, NEW p, op = Instr("JumpIfFalse", p, 0),
         NEW b \in BOOLEAN, Top = BoolV(b)
  PROVE  Quiet /\ Dropped(1) /\ IF b THEN Proceed ELSE GoTo(p)
<1>1. op.op = "JumpIfFalse" /\ op.arg = p
  BY DEF Instr
<1>2. Jump
  BY <1>1, FaultIs, StepTaken DEF OperandFault, BinaryOps, UnaryOps, CheckOps, IntOps, OrderOps, LogicOps
<1>3. Operands(op) = 1 /\ Args[1] = BoolV(b)
  BY <1>1, CountsOf, OneOperand
<1>4. Truthy(BoolV(b)) <=> b
  BY DEF Truthy, Tag, Inner, BoolV
<1> QED BY <1>1, <1>2, <1>3, <1>4, RestDrops DEF Jump, JumpTaken, Quiet

\* A call of a function with one parameter.
LEMMA DoesCall ==
  ASSUME IInv, outcome = Running, Next, op = Instr("Call", 0, 1),
         NEW name, NEW c, Below = FnV(name, 1), IsCallee(Code[module], name, c),
         NEW locals \in Nat \ {0}, Code[module][c].local_count = locals
  PROVE  /\ Quiet
         /\ frames' = Append([frames EXCEPT ![Len(frames)].ip = top.ip + 1],
                             Frame(c, Len(stack) - 2, locals))
         /\ Len(stack') = Len(stack) - 2 + locals
         /\ \A i \in 1..(Len(stack) - 2) : stack'[i] = stack[i]
         /\ stack'[Len(stack) - 1] = Top
         /\ \A i \in Len(stack)..Len(stack') : stack'[i] = Void
<1>1. op.op = "Call" /\ op.n = 1
  BY DEF Instr
<1>2. Operands(op) = 2 /\ Args[1] = FnV(name, 1) /\ Args[2] = Top
  BY <1>1, CountsOf, TwoOperands
<1>3. c \in Chunks /\ Named(name) # {} /\ Callee(name) = c
  <2>1. Len(Code[module]) \in Nat
    BY CodeBalanced DEF IInv, TypeOK
  <2>2. c \in Chunks /\ c \in Named(name) /\ \A b \in 1..(c - 1) : b \notin Named(name)
    BY DEF IsCallee, Chunks, Named
  <2>3. Callee(name) \in Named(name) /\ \A b \in Named(name) : Callee(name) <= b
    <3>1. \A b \in Named(name) : c <= b
      <4>1. \A b \in Named(name) : b \in 1..Len(Code[module]) /\ b \notin 1..(c - 1)
        BY <2>2 DEF Named, Chunks
      <4>2. c \in 1..Len(Code[module])
        BY <2>2 DEF Chunks
      <4>3. \A b \in 1..Len(Code[module]) : b \notin 1..(c - 1) => c <= b
        BY <2>1, <4>2
      <4> QED BY <4>1, <4>3
    <3> QED BY <2>2, <3>1 DEF Callee
  <2>4. Callee(name) \in 1..Len(Code[module]) /\ c \in 1..Len(Code[module])
    BY <2>2, <2>3 DEF Named, Chunks
  <2>5. Callee(name) <= c /\ ~(Callee(name) < c)
    BY <2>1, <2>2, <2>3, <2>4
  <2> QED BY <2>1, <2>2, <2>4, <2>5
<1>4. Tag(FnV(name, 1)) = "Fn" /\ FnV(name, 1)[2] = name
  BY DEF Tag, FnV
<1>5. Call
  <2>1. Fault = "none"
    BY <1>1, <1>2, <1>3, <1>4, FaultIs DEF CallFault
  <2> QED BY <1>1, <2>1, StepTaken
<1> DEFINE fill == IF 1 < locals THEN locals - 1 ELSE 0
<1>6. fill \in Nat /\ fill = locals - 1
  OBVIOUS
<1>7. /\ stack' = Rest \o Tail(Args) \o Voids(fill)
      /\ frames' = Append([frames EXCEPT ![Len(frames)].ip = top.ip + 1], Frame(c, Len(Rest), locals))
      /\ Quiet
  BY Zenon, <1>1, <1>2, <1>3, <1>4, <1>5 DEF Call, Quiet
<1> HIDE DEF fill
<1>8. /\ IsSequence(Rest) /\ Len(Rest) = Len(stack) - 2 /\ Len(Rest) \in Nat
      /\ \A i \in 1..Len(Rest) : Rest[i] = stack[i]
  BY <1>2, RestKeepsLocals
<1>9. /\ IsSequence(Tail(Args)) /\ Len(Tail(Args)) = 1
      /\ Tail(Args)[1] = Top
  <2>1. IsSequence(Args) /\ Len(Args) = 2 /\ IsSequence(Tail(Args)) /\ Len(Tail(Args)) = 1
    <3>1. Operands(op) > 0 /\ Operands(op) - 1 = 1
      BY <1>2
    <3> QED BY <1>2, <3>1, ArgsSequence
  <2>2. Args # <<>>
    BY <2>1, EmptySeq
  <2>3. Tail(Args)[1] = Args[1 + 1]
    BY <2>1, <2>2, HeadTailProperties DEF IsSequence
  <2>4. Tail(Args)[1] = Args[2]
    <3>1. 1 + 1 = 2
      OBVIOUS
    <3> QED BY <2>3, <3>1, Zenon
  <2> QED BY <1>2, <2>1, <2>4
<1>10. IsSequence(Voids(fill)) /\ Len(Voids(fill)) = fill /\ \A i \in 1..fill : Voids(fill)[i] = Void
  BY <1>6, VoidsSequence DEF Voids
<1> DEFINE args == Tail(Args)
           both == Rest \o args
<1> HIDE DEF args
<1>11. /\ IsSequence(both) /\ Len(both) = Len(Rest) + 1
       /\ \A i \in 1..Len(Rest) : both[i] = Rest[i]
       /\ both[Len(Rest) + 1] = Top
  <2>1. IsSequence(args) /\ Len(args) = 1 /\ args[1] = Top
    BY <1>9 DEF args
  <2>2. /\ IsSequence(both) /\ Len(both) = Len(Rest) + Len(args)
        /\ \A i \in 1..Len(Rest) : both[i] = Rest[i]
    BY <1>8, <2>1, ConcatSequence
  <2>3. both[Len(Rest) + 1] = args[1]
    <3>1. 1 \in 1..Len(args)
      BY <2>1
    <3>2. IsSequence(Rest) /\ IsSequence(args)
      BY <1>8, <2>1
    <3> QED BY <3>1, <3>2, LaterElement
  <2> QED BY <2>1, <2>2, <2>3
<1> HIDE DEF both
<1>12. /\ Len(stack') = Len(both) + fill
       /\ \A i \in 1..Len(both) : stack'[i] = both[i]
       /\ \A i \in 1..fill : stack'[Len(both) + i] = Void
  <2>1. stack' = both \o Voids(fill)
    BY <1>7 DEF both, args
  <2>2. IsSequence(both) /\ IsSequence(Voids(fill)) /\ Len(Voids(fill)) = fill
    BY <1>10, <1>11
  <2>3. /\ Len(stack') = Len(both) + fill
        /\ \A i \in 1..Len(both) : stack'[i] = both[i]
    BY <2>1, <2>2, ConcatSequence
  <2>4. \A i \in 1..fill : stack'[Len(both) + i] = Voids(fill)[i]
    BY <2>1, <2>2, LaterElement
  <2> QED BY <1>10, <2>3, <2>4
<1>13. Len(stack) \in Nat
  BY AtOperands
<1>14. \A i \in Len(stack)..Len(stack') : stack'[i] = Void
  <2> SUFFICES ASSUME NEW i \in Len(stack)..Len(stack') PROVE stack'[i] = Void
    OBVIOUS
  <2> DEFINE k == i - Len(both)
  <2>1. k \in 1..fill /\ i = Len(both) + k
    BY <1>6, <1>8, <1>11, <1>12, <1>13
  <2> HIDE DEF k
  <2> QED BY <1>12, <2>1
<1>15. /\ Len(stack') = Len(stack) - 2 + locals
       /\ Len(Rest) + 1 = Len(stack) - 1 /\ Len(Rest) + 1 \in 1..Len(both)
       /\ \A i \in 1..(Len(stack) - 2) : i \in 1..Len(Rest) /\ i \in 1..Len(both)
  BY <1>6, <1>8, <1>11, <1>12, <1>13
<1> QED BY <1>7, <1>8, <1>11, <1>12, <1>14, <1>15

\* The return of a function to its caller.
LEMMA DoesReturn ==
  ASSUME IInv, outcome = Running, Next, op = Simple("Return"), Len(frames) # 1
  PROVE  /\ Quiet
         /\ frames' = SubSeq(frames, 1, Len(frames) - 1)
         /\ Len(stack') = top.base + 1
         /\ \A i \in 1..top.base : stack'[i] = stack[i]
         /\ stack'[top.base + 1] = Top
<1>1. op.op = "Return"
  BY DEF Simple, Instr
<1>2. Operands(op) = 1 /\ Args[1] = Top
  BY <1>1, CountsOf, OneOperand
<1>3. Return
  BY <1>1, FaultIs, StepTaken DEF OperandFault, BinaryOps, UnaryOps, CheckOps, IntOps, OrderOps, LogicOps
<1>4. /\ top.base \in Nat /\ top.local_count \in Nat /\ Len(frames) \in Nat
  BY AtInstruction
<1>5. /\ IsSequence(Rest) /\ Len(Rest) \in Nat
      /\ top.base + top.local_count <= Len(Rest)
      /\ \A i \in 1..Len(Rest) : Rest[i] = stack[i]
  BY RestKeepsLocals
<1> DEFINE kept == IF top.base < Len(Rest) THEN top.base ELSE Len(Rest)
           below == SubSeq(Rest, 1, kept)
<1>6. kept = top.base /\ kept \in 0..Len(Rest)
  BY <1>4, <1>5
<1>7. stack' = Append(below, Top) /\ frames' = SubSeq(frames, 1, Len(frames) - 1) /\ Quiet
  BY <1>2, <1>3 DEF Return, Quiet
<1>8. IsSequence(below) /\ Len(below) = top.base /\ \A i \in 1..top.base : below[i] = Rest[i]
  <2> HIDE DEF kept
  <2> QED BY <1>5, <1>6, PrefixSequence
<1> HIDE DEF below
<1>9. /\ Len(stack') = Len(below) + 1
      /\ \A i \in 1..Len(below) : stack'[i] = below[i]
  BY <1>7, <1>8, AppendSequence
<1>10. stack'[Len(below) + 1] = Top
  BY <1>7, <1>8, AppendProperties DEF IsSequence
<1>11. \A i \in 1..top.base : i \in 1..Len(Rest)
  BY <1>4, <1>5
<1> QED BY <1>5, <1>7, <1>8, <1>9, <1>10, <1>11

\* A call of a builtin with one argument.
LEMMA DoesBuiltin ==
  ASSUME IInv, outcome = Running, Next, NEW name, op = Instr("CallBuiltin", name, 1)
  PROVE  \/ \E v \in BuiltinResults[name] :
              /\ Replaced(1, v) /\ Proceed
              /\ effects' = Append(effects, [name |-> name, args |-> <<Top>>, result |-> v])
              /\ UNCHANGED <<module, outcome>>
         \/ /\ name \in FailingBuiltins
            /\ effects' = Append(effects, [name |-> name, args |-> <<Top>>, result |-> Raised])
            /\ outcome' = Failed("Builtin") /\ UNCHANGED module
<1>1. op.op = "CallBuiltin" /\ op.n = 1 /\ op.arg = name
  BY DEF Instr
<1>2. Operands(op) = 1 /\ Args[1] = Top
  BY <1>1, CountsOf, OneOperand
<1>3. Args = <<Top>>
  <2>1. IsSequence(Args) /\ Len(Args) = 1
    BY <1>2, ArgsSequence
  <2>2. DOMAIN Args = 1..1 /\ Args = [i \in DOMAIN Args |-> Args[i]]
    BY <2>1, SequenceOver, LenProperties, SeqDef DEF IsSequence
  <2> QED BY <1>2, <2>2
<1>4. CallBuiltin \/ BuiltinFails
  BY <1>1, FaultIs, StepTaken DEF OperandFault, BinaryOps, UnaryOps, CheckOps, IntOps, OrderOps, LogicOps
<1>5. ASSUME CallBuiltin
      PROVE  \E v \in BuiltinResults[name] :
               /\ Replaced(1, v) /\ Proceed
               /\ effects' = Append(effects, [name |-> name, args |-> <<Top>>, result |-> v])
               /\ UNCHANGED <<module, outcome>>
  <2>1. PICK v \in BuiltinResults[name] :
          /\ stack' = Append(Rest, v) /\ Proceed
          /\ effects' = Append(effects, [name |-> name, args |-> <<Top>>, result |-> v])
          /\ UNCHANGED <<module, outcome>>
    BY <1>1, <1>3, <1>5 DEF CallBuiltin, Push
  <2>2. Replaced(1, v)
    BY <1>2, <2>1, PushReplaces
  <2> QED BY <2>1, <2>2
<1>6. ASSUME BuiltinFails
      PROVE  /\ name \in FailingBuiltins
             /\ effects' = Append(effects, [name |-> name, args |-> <<Top>>, result |-> Raised])
             /\ outcome' = Failed("Builtin") /\ UNCHANGED module
  BY <1>1, <1>3, <1>6 DEF BuiltinFails
<1> QED BY <1>4, <1>5, <1>6

LEMMA DoesHalt ==
  ASSUME IInv, outcome = Running, Next, op = Simple("Halt"), Len(stack) > 0
  PROVE  outcome' = Finished(Top) /\ UNCHANGED <<module, effects>>
<1>1. op.op = "Halt"
  BY DEF Simple, Instr
<1>2. Halt
  BY <1>1, FaultIs, StepTaken DEF OperandFault, BinaryOps, UnaryOps, CheckOps, IntOps, OrderOps, LogicOps
<1>3. stack # <<>>
  BY EmptySeq
<1> QED BY <1>2, <1>3 DEF Halt, Top

-----------------------------------------------------------------------------
(* Where the machine is.                                                   *)

LEMMA MainGo ==
  ASSUME NEW p, InMain(p)
  PROVE  /\ top = MainFrame(p) /\ Len(frames) = 1
         /\ ops = Code[module][1].ops /\ op = Code[module][1].ops[p]
         /\ \A q : GoTo(q) => InMain(q)'
<1>1. frames = <<MainFrame(p)>>
  BY DEF InMain
<1>2. top = MainFrame(p) /\ Len(frames) = 1
  BY <1>1 DEF top
<1>3. ASSUME NEW q, GoTo(q) PROVE InMain(q)'
  <2>1. frames' = [frames EXCEPT ![1].ip = q]
    BY <1>2, <1>3 DEF GoTo
  <2>2. frames' = <<[MainFrame(p) EXCEPT !.ip = q]>>
    BY <1>1, <2>1
  <2> QED BY <2>2 DEF InMain, MainFrame
<1> QED BY <1>2, <1>3 DEF ops, op, MainFrame

LEMMA FlowGo ==
  ASSUME NEW p, InFlow(p)
  PROVE  /\ top = FlowFrame(p) /\ Len(frames) = 2
         /\ ops = flowChunk.ops /\ op = flowChunk.ops[p]
         /\ \A q : GoTo(q) /\ module' = module => InFlow(q)'
<1>1. frames = <<MainFrame(4), FlowFrame(p)>>
  BY DEF InFlow
<1>2. top = FlowFrame(p) /\ Len(frames) = 2
  BY <1>1 DEF top
<1>3. ASSUME NEW q, GoTo(q), module' = module PROVE InFlow(q)'
  <2>1. frames' = [frames EXCEPT ![2].ip = q]
    BY <1>2, <1>3 DEF GoTo
  <2>2. frames' = <<MainFrame(4), [FlowFrame(p) EXCEPT !.ip = q]>>
    BY <1>1, <2>1
  <2>3. [FlowFrame(p) EXCEPT !.ip = q] = FlowFrame(q)'
    BY <1>3 DEF FlowFrame, flowChunk, layout
  <2> QED BY <2>2, <2>3 DEF InFlow, MainFrame
<1> QED BY <1>2, <1>3 DEF ops, op, FlowFrame, flowChunk

LEMMA FnGo ==
  ASSUME NEW i, NEW p, InFn(i, p)
  PROVE  /\ top = FnFrame(i, p, top.base) /\ Len(frames) = 3
         /\ top.base \in Nat /\ top.base >= 2 + flowChunk.local_count
         /\ ops = Code[module][layout.via[i]].ops /\ op = Code[module][layout.via[i]].ops[p]
         /\ \A q : GoTo(q) /\ module' = module => InFn(i, q)' /\ top.base' = top.base
<1>1. PICK b \in Nat :
        /\ b = top.base /\ b >= 2 + flowChunk.local_count
        /\ frames = <<MainFrame(4), FlowFrame(layout.start[i] + 3), FnFrame(i, p, b)>>
  BY DEF InFn
<1>2. top = FnFrame(i, p, b) /\ Len(frames) = 3
  BY <1>1 DEF top
<1>3. ASSUME NEW q, GoTo(q), module' = module PROVE InFn(i, q)' /\ top.base' = b
  <2>1. frames' = [frames EXCEPT ![3].ip = q]
    BY <1>2, <1>3 DEF GoTo
  <2>2. frames' = <<MainFrame(4), FlowFrame(layout.start[i] + 3), [FnFrame(i, p, b) EXCEPT !.ip = q]>>
    BY <1>1, <2>1
  <2>3. flowChunk' = flowChunk /\ layout' = layout
    BY <1>3 DEF flowChunk, layout
  <2>4. [FnFrame(i, p, b) EXCEPT !.ip = q] = FnFrame(i, q, b)'
    BY <2>3 DEF FnFrame
  <2>5. FlowFrame(layout.start[i] + 3)' = FlowFrame(layout.start[i] + 3)
    BY <2>3 DEF FlowFrame
  <2>6. top' = FnFrame(i, q, b)' /\ top.base' = b
    BY <2>2, <2>4 DEF top, FnFrame
  <2> QED BY <1>1, <2>2, <2>3, <2>4, <2>5, <2>6 DEF InFn, MainFrame
<1> QED BY <1>1, <1>2, <1>3 DEF ops, op, FnFrame

-----------------------------------------------------------------------------
(* What stands where.                                                      *)

\* The parts of the assumption, for the module that is run.
LEMMA TheFlow ==
  ASSUME IInv
  PROVE  /\ IsSequence(flow.steps) /\ stepCount \in Nat /\ DOMAIN flow.steps = 1..stepCount
         /\ \A i \in 1..stepCount : flow.steps[i].try \in BOOLEAN
         /\ undoSteps = {i \in 1..stepCount : flow.steps[i].undo # "nothing"}
         /\ Inner(flow.input) \in Int /\ flow.input = IntV(Inner(flow.input))
         /\ flow.admitted = (0 < Inner(flow.input))
         /\ Code[module][1].local_count = 2
         /\ IsCallee(Code[module], layout.name, layout.chunk)
         /\ flowChunk.local_count \in Nat /\ flowChunk.local_count > stepCount + 1
         /\ layout.start[1] = 5
         /\ \A i \in 1..(stepCount + 1) : layout.start[i] \in Nat
         /\ \A i \in 1..stepCount : layout.test[i] \in Nat /\ layout.start[i + 1] = layout.test[i] + 10
         /\ \A i \in undoSteps \cup {0} : layout.back[i] \in Nat
<1>1. module \in DOMAIN Code /\ LaidOut(module)
  BY FlowsLaidOut DEF IInv, TypeOK
<1>2. undoSteps = {i \in DOMAIN flow.steps : flow.steps[i].undo # "nothing"}
  BY DEF undoSteps, flow, Abstract!UndoSteps, Abstract!steps, Abstract!Nothing
<1>3. IsSequence(flow.steps)
  BY Zenon, <1>1 DEF LaidOut, flow
<1>4. stepCount \in Nat /\ DOMAIN flow.steps = 1..stepCount
  BY <1>3, SequenceOver DEF stepCount, IsSequence
<1>5. IsCallee(Code[module], layout.name, layout.chunk)
  BY Zenon, <1>1 DEF LaidOut, layout
<1>6. flowChunk.local_count \in Nat
  BY Zenon, <1>1, <1>5, CodeBalanced DEF IsCallee, flowChunk
<1>7. /\ \A i \in 1..stepCount : flow.steps[i].try \in BOOLEAN
      /\ Inner(flow.input) \in Int /\ flow.input = IntV(Inner(flow.input))
      /\ flow.admitted = (0 < Inner(flow.input))
      /\ Code[module][1].local_count = 2
      /\ flowChunk.local_count > stepCount + 1
      /\ layout.start[1] = 5
  BY Zenon, <1>1 DEF LaidOut, layout, flow, stepCount, flowChunk
<1>8. /\ layout.start \in [1..(stepCount + 1) -> Nat] /\ layout.test \in [1..stepCount -> Nat]
      /\ layout.back \in [undoSteps \cup {0} -> Nat]
  BY Zenon, <1>1, <1>2, <1>4 DEF LaidOut, layout, flow, stepCount
<1>9. \A i \in 1..stepCount : layout.start[i + 1] = layout.test[i] + 10
  BY Zenon, <1>1 DEF LaidOut, layout, flow, stepCount
<1> QED BY <1>2, <1>3, <1>4, <1>5, <1>6, <1>7, <1>8, <1>9

LEMMA EntryStands ==
  ASSUME IInv
  PROVE  LET code == Code[module][1].ops
         IN  /\ code[1] = Const(FnV(layout.name, 1)) /\ code[2] = Const(flow.input)
             /\ code[3] = Instr("Call", 0, 1) /\ code[4] = StoreAt(0) /\ code[5] = Const(Void)
             /\ code[6] = StoreAt(1) /\ code[7] = Local(0) /\ code[8] = Simple("Halt")
<1>1. Stand(Code[module][1], 1, MainCode(layout.name, flow.input))
  BY FlowsLaidOut DEF IInv, TypeOK, LaidOut, flow, layout
<1> DEFINE main == MainCode(layout.name, flow.input)
<1>2. DOMAIN main = 1..8
  BY DEF MainCode
<1>3. \A k \in 1..8 : 1 + k - 1 = k
  OBVIOUS
<1>4. \A k \in 1..8 : Code[module][1].ops[k] = main[k]
  <2> HIDE DEF main
  <2>1. \A k \in 1..8 : Code[module][1].ops[1 + k - 1] = main[k]
    BY <1>1, <1>2 DEF Stand, main
  <2> QED BY <1>3, <2>1
<1> QED BY SMTT(30), <1>4 DEF MainCode

LEMMA GuardStands ==
  ASSUME IInv
  PROVE  /\ flowChunk.ops[1] = Local(0) /\ flowChunk.ops[2] = Const(IntV(0))
         /\ flowChunk.ops[3] = Simple("Gt") /\ flowChunk.ops[4] = Simple("CheckRequire")
<1>1. Stand(flowChunk, 1, GuardCode)
  BY FlowsLaidOut DEF IInv, TypeOK, LaidOut, layout, flowChunk
<1>2. \A k \in 1..4 : flowChunk.ops[1 + k - 1] = GuardCode[k]
  BY <1>1 DEF Stand, GuardCode
<1>3. \A k \in 1..4 : 1 + k - 1 = k
  OBVIOUS
<1>4. \A k \in 1..4 : flowChunk.ops[k] = GuardCode[k]
  BY SMTT(30), <1>2, <1>3
<1> QED BY SMTT(30), <1>4 DEF GuardCode

LEMMA CallStands ==
  ASSUME IInv, NEW i \in 1..stepCount
  PROVE  LET p == layout.start[i]
             do == flow.steps[i].do
             wrapper == Code[module][layout.via[i]]
         IN  /\ layout.via[i] = 0 =>
                  /\ flowChunk.ops[p] = Local(InputSlot(i))
                  /\ flowChunk.ops[p + 1] = Instr("CallBuiltin", do, 1)
             /\ layout.via[i] # 0 =>
                  /\ IsCallee(Code[module], wrapper.name, layout.via[i]) /\ wrapper.local_count = 1
                  /\ flowChunk.ops[p] = Const(FnV(wrapper.name, 1))
                  /\ flowChunk.ops[p + 1] = Local(InputSlot(i))
                  /\ flowChunk.ops[p + 2] = Instr("Call", 0, 1)
                  /\ wrapper.ops[1] = Local(0) /\ wrapper.ops[2] = Instr("CallBuiltin", do, 1)
                  /\ wrapper.ops[3] = Simple("Return")
             /\ flow.steps[i].try => /\ flowChunk.ops[After(i)] = Simple("Unwrap")
                                     /\ layout.test[i] = After(i) + 1
             /\ ~flow.steps[i].try => layout.test[i] = After(i)
<1> DEFINE p == layout.start[i]
           do == flow.steps[i].do
           wrapper == Code[module][layout.via[i]]
<1>1. module \in DOMAIN Code /\ LaidOut(module)
  BY FlowsLaidOut DEF IInv, TypeOK
<1>2. p \in Nat
  <2>1. i \in 1..(stepCount + 1)
    BY TheFlow
  <2> QED BY <2>1, TheFlow
<1>3. layout.via[i] = 0 => Stand(flowChunk, p, DirectCode(i, do))
  BY Zenon, <1>1 DEF LaidOut, layout, flow, stepCount, flowChunk
<1>4. layout.via[i] # 0 =>
        /\ IsCallee(Code[module], wrapper.name, layout.via[i]) /\ wrapper.local_count = 1
        /\ Stand(wrapper, 1, WrapperCode(do)) /\ Stand(flowChunk, p, WrappedCode(i, wrapper.name))
  BY Zenon, <1>1 DEF LaidOut, layout, flow, stepCount, flowChunk
<1>5. /\ flow.steps[i].try => /\ flowChunk.ops[After(i)] = Simple("Unwrap")
                              /\ layout.test[i] = After(i) + 1
      /\ ~flow.steps[i].try => layout.test[i] = After(i)
  BY Zenon, <1>1 DEF LaidOut, layout, flow, stepCount, flowChunk, After
<1> HIDE DEF p, do, wrapper
<1>6. ASSUME Stand(flowChunk, p, DirectCode(i, do))
      PROVE  flowChunk.ops[p] = Local(InputSlot(i)) /\ flowChunk.ops[p + 1] = Instr("CallBuiltin", do, 1)
  <2>1. \A k \in 1..2 : flowChunk.ops[p + k - 1] = DirectCode(i, do)[k]
    BY <1>6 DEF Stand, DirectCode
  <2>2. p + 1 - 1 = p /\ p + 2 - 1 = p + 1
    BY <1>2
  <2> QED BY <2>1, <2>2 DEF DirectCode
<1>7. ASSUME Stand(flowChunk, p, WrappedCode(i, wrapper.name))
      PROVE  /\ flowChunk.ops[p] = Const(FnV(wrapper.name, 1))
             /\ flowChunk.ops[p + 1] = Local(InputSlot(i)) /\ flowChunk.ops[p + 2] = Instr("Call", 0, 1)
  <2>1. \A k \in 1..3 : flowChunk.ops[p + k - 1] = WrappedCode(i, wrapper.name)[k]
    BY <1>7 DEF Stand, WrappedCode
  <2>2. p + 1 - 1 = p /\ p + 2 - 1 = p + 1 /\ p + 3 - 1 = p + 2
    BY <1>2
  <2> QED BY <2>1, <2>2 DEF WrappedCode
<1>8. ASSUME Stand(wrapper, 1, WrapperCode(do))
      PROVE  /\ wrapper.ops[1] = Local(0) /\ wrapper.ops[2] = Instr("CallBuiltin", do, 1)
             /\ wrapper.ops[3] = Simple("Return")
  <2>1. \A k \in 1..3 : wrapper.ops[1 + k - 1] = WrapperCode(do)[k]
    BY <1>8 DEF Stand, WrapperCode
  <2>2. 1 + 1 - 1 = 1 /\ 1 + 2 - 1 = 2 /\ 1 + 3 - 1 = 3
    OBVIOUS
  <2> QED BY <2>1, <2>2 DEF WrapperCode
<1> QED BY <1>3, <1>4, <1>5, <1>6, <1>7, <1>8 DEF p, do, wrapper

LEMMA TestStands ==
  ASSUME IInv, NEW i \in 1..stepCount
  PROVE  LET q == layout.test[i]
             code == flowChunk.ops
         IN  /\ code[q] = Simple("Dup") /\ code[q + 1] = Simple("IsErr")
             /\ code[q + 2] = Instr("JumpIfFalse", q + 5, 0)
             /\ code[q + 3] = StoreAt(1) /\ code[q + 4] = Instr("Jump", layout.chain, 0)
             /\ code[q + 5] = Simple("Dup") /\ code[q + 6] = Simple("IsOk")
             /\ code[q + 7] = Instr("JumpIfFalse", q + 9, 0)
             /\ code[q + 8] = Simple("UnwrapInner") /\ code[q + 9] = StoreAt(i + 1)
<1> DEFINE q == layout.test[i]
           tests == TestCode(i, q, layout.chain)
<1>1. q \in Nat
  BY TheFlow
<1>2. Stand(flowChunk, q, tests)
  BY FlowsLaidOut DEF IInv, TypeOK, LaidOut, layout, flow, stepCount, flowChunk
<1> HIDE DEF q
<1>3. \A k \in 1..10 : flowChunk.ops[q + k - 1] = tests[k]
  BY <1>2 DEF Stand, TestCode
<1>4. \A k \in 0..9 : flowChunk.ops[q + k] = tests[k + 1]
  <2> SUFFICES ASSUME NEW k \in 0..9 PROVE flowChunk.ops[q + k] = tests[k + 1]
    OBVIOUS
  <2>1. k + 1 \in 1..10 /\ q + (k + 1) - 1 = q + k
    BY <1>1
  <2> HIDE DEF tests
  <2> QED BY <1>3, <2>1
<1>5. q + 0 = q
  BY <1>1
<1>6. /\ tests[1] = Simple("Dup") /\ tests[2] = Simple("IsErr")
      /\ tests[3] = Instr("JumpIfFalse", q + 5, 0)
      /\ tests[4] = StoreAt(1) /\ tests[5] = Instr("Jump", layout.chain, 0)
      /\ tests[6] = Simple("Dup") /\ tests[7] = Simple("IsOk")
      /\ tests[8] = Instr("JumpIfFalse", q + 9, 0)
      /\ tests[9] = Simple("UnwrapInner") /\ tests[10] = StoreAt(i + 1)
  BY DEF TestCode, ErrorSlot, ResultSlot
<1> HIDE DEF tests
<1> QED BY <1>4, <1>5, <1>6 DEF q

LEMMA AnswerStands ==
  ASSUME IInv
  PROVE  LET p == layout.start[stepCount + 1]
         IN  /\ flowChunk.ops[p] = IF stepCount = 0 THEN Const(Void) ELSE Local(stepCount + 1)
             /\ flowChunk.ops[p + 1] = Simple("WrapOk") /\ flowChunk.ops[p + 2] = Simple("Return")
<1> DEFINE p == layout.start[stepCount + 1]
<1>1. p \in Nat
  <2>1. stepCount + 1 \in 1..(stepCount + 1)
    BY SMTT(30), TheFlow
  <2> QED BY <2>1, TheFlow
<1>2. Stand(flowChunk, p, AnswerCode(stepCount))
  BY FlowsLaidOut DEF IInv, TypeOK, LaidOut, layout, flow, stepCount, flowChunk
<1> HIDE DEF p
<1>3. \A k \in 1..3 : flowChunk.ops[p + k - 1] = AnswerCode(stepCount)[k]
  BY <1>2 DEF Stand, AnswerCode
<1>4. p + 1 - 1 = p /\ p + 2 - 1 = p + 1 /\ p + 3 - 1 = p + 2
  BY <1>1
<1> QED BY <1>3, <1>4 DEF AnswerCode, ResultSlot, p

LEMMA UndoStands ==
  ASSUME IInv
  PROVE  /\ \A i \in undoSteps :
              /\ flowChunk.ops[layout.back[i]] = Local(i + 1)
              /\ flowChunk.ops[layout.back[i] + 1] = Instr("CallBuiltin", flow.steps[i].undo, 1)
              /\ flowChunk.ops[layout.back[i] + 2] = StoreAt(layout.drop[i])
              /\ layout.drop[i] > stepCount + 1
         /\ flowChunk.ops[layout.back[0]] = Local(1)
         /\ flowChunk.ops[layout.back[0] + 1] = Simple("Return")
<1>1. module \in DOMAIN Code /\ LaidOut(module)
  BY FlowsLaidOut DEF IInv, TypeOK
<1>2. undoSteps = {i \in 1..stepCount : flow.steps[i].undo # "nothing"}
  BY TheFlow
<1>3. \A i \in undoSteps \cup {0} : layout.back[i] \in Nat
  BY TheFlow
<1>4. ASSUME NEW i \in undoSteps
      PROVE  /\ flowChunk.ops[layout.back[i]] = Local(i + 1)
             /\ flowChunk.ops[layout.back[i] + 1] = Instr("CallBuiltin", flow.steps[i].undo, 1)
             /\ flowChunk.ops[layout.back[i] + 2] = StoreAt(layout.drop[i])
             /\ layout.drop[i] > stepCount + 1
  <2> DEFINE p == layout.back[i]
             code == UndoCode(i, flow.steps[i].undo, layout.drop[i])
  <2>1. Stand(flowChunk, p, code) /\ layout.drop[i] > stepCount + 1
    BY Zenon, <1>1, <1>2 DEF LaidOut, layout, flow, stepCount, flowChunk
  <2>2. p \in Nat
    BY <1>3
  <2> HIDE DEF p
  <2>3. \A k \in 1..3 : flowChunk.ops[p + k - 1] = code[k]
    BY <2>1 DEF Stand, UndoCode
  <2>4. p + 1 - 1 = p /\ p + 2 - 1 = p + 1 /\ p + 3 - 1 = p + 2
    BY <2>2
  <2> QED BY <2>1, <2>3, <2>4 DEF UndoCode, ResultSlot, p
<1>5. /\ flowChunk.ops[layout.back[0]] = Local(1)
      /\ flowChunk.ops[layout.back[0] + 1] = Simple("Return")
  <2> DEFINE p == layout.back[0]
  <2>1. Stand(flowChunk, p, ReportCode)
    BY Zenon, <1>1 DEF LaidOut, layout, flow, stepCount, flowChunk
  <2>2. p \in Nat
    BY <1>3
  <2> HIDE DEF p
  <2>3. \A k \in 1..2 : flowChunk.ops[p + k - 1] = ReportCode[k]
    BY <2>1 DEF Stand, ReportCode
  <2>4. p + 1 - 1 = p /\ p + 2 - 1 = p + 1
    BY <2>2
  <2> QED BY <2>3, <2>4 DEF ReportCode, ErrorSlot, p
<1> QED BY <1>4, <1>5

-----------------------------------------------------------------------------
(* The rollbacks, one after the other.                                     *)

ends == undoSteps \cup {0}

LEMMA SmallestOf ==
  ASSUME NEW S \in SUBSET Nat, S # {}
  PROVE  \E m \in S : \A n \in S : m <= n
<1>1. PICK m \in S : \A n \in S : ~(<<n, m>> \in OpToRel(<, Nat))
  BY Zenon, WFMin, NatLessThanWellFounded
<1>2. \A n \in S : ~(n < m)
  BY <1>1 DEF OpToRel
<1> QED BY <1>2

LEMMA LargestOf ==
  ASSUME NEW N \in Nat, NEW S \in SUBSET (0..N), S # {}
  PROVE  \E m \in S : \A n \in S : n <= m
<1> DEFINE T == {N - n : n \in S}
<1>1. T \in SUBSET Nat /\ T # {}
  <2>1. PICK n \in S : TRUE
    OBVIOUS
  <2>2. N - n \in T /\ \A k \in S : N - k \in Nat
    OBVIOUS
  <2> QED BY <2>2
<1> HIDE DEF T
<1>2. PICK t \in T : \A n \in T : t <= n
  BY <1>1, SmallestOf
<1>3. PICK m \in S : t = N - m
  BY DEF T
<1>4. ASSUME NEW n \in S PROVE n <= m
  <2>1. t <= N - n
    BY <1>2 DEF T
  <2> QED BY <1>3, <2>1
<1> QED BY <1>4

\* Module Saga counts as this module does.
LEMMA SameCount == \A S : Abstract!Cardinality(S) = Cardinality(S)
BY Zenon DEF Abstract!Cardinality, Cardinality

\* How many rollbacks come before one.
LEMMA Order ==
  ASSUME IInv
  PROVE  /\ undoSteps \subseteq 1..stepCount
         /\ Cardinality(undoSteps) \in Nat
         /\ Abstract!Before(0) = Cardinality(undoSteps)
         /\ \A i \in ends : Abstract!Before(i) \in 0..Cardinality(undoSteps)
         /\ \A i \in undoSteps : Abstract!Before(i) < Cardinality(undoSteps)
         /\ \A i \in ends : (\A j \in undoSteps : j <= i) => Abstract!Before(i) = 0
         /\ \A i \in undoSteps, j \in ends :
              j < i /\ (\A k \in undoSteps : k < i => k <= j) =>
                Abstract!Before(j) = Abstract!Before(i) + 1
         /\ \A i, j \in undoSteps : i < j => Abstract!Before(j) < Abstract!Before(i)
<1> DEFINE U == undoSteps
           Later(i) == {j \in U : j > i}
<1>1. U \subseteq 1..stepCount /\ stepCount \in Nat
  BY TheFlow
<1>2. IsFiniteSet(U)
  <2>1. IsFiniteSet(1..stepCount)
    BY <1>1, FS_Interval
  <2>2. U \in SUBSET (1..stepCount)
    BY <1>1
  <2> QED BY <2>1, <2>2, FS_Subset
<1>3. \A i : Abstract!Before(i) = Cardinality(Later(i))
  <2> TAKE i
  <2>1. Abstract!Before(i) = Cardinality({j \in Abstract!UndoSteps : j > i})
    BY SameCount DEF Abstract!Before
  <2> QED BY <2>1 DEF undoSteps
<1> HIDE DEF U
<1>4. \A i : /\ IsFiniteSet(Later(i)) /\ Cardinality(Later(i)) \in Nat
             /\ Cardinality(Later(i)) <= Cardinality(U)
             /\ Cardinality(Later(i)) = Cardinality(U) => Later(i) = U
  <2> SUFFICES ASSUME NEW i
               PROVE  /\ IsFiniteSet(Later(i)) /\ Cardinality(Later(i)) \in Nat
                      /\ Cardinality(Later(i)) <= Cardinality(U)
                      /\ Cardinality(Later(i)) = Cardinality(U) => Later(i) = U
    OBVIOUS
  <2>1. Later(i) \in SUBSET U
    OBVIOUS
  <2> HIDE DEF Later
  <2>2. /\ IsFiniteSet(Later(i)) /\ Cardinality(Later(i)) <= Cardinality(U)
        /\ Cardinality(U) = Cardinality(Later(i)) => U = Later(i)
    BY <1>2, <2>1, FS_Subset
  <2> QED BY <2>2, FS_CardinalityType
<1>5. Cardinality(U) \in Nat
  BY <1>2, FS_CardinalityType
<1>6. Later(0) = U
  <2>1. \A j \in U : j > 0
    BY <1>1
  <2> QED BY <2>1
<1>7. \A i \in U : Later(i) # U
  <2>1. \A i \in U : ~(i > i)
    BY <1>1
  <2> QED BY <2>1
<1>8. ASSUME NEW i \in ends, \A j \in U : j <= i PROVE Cardinality(Later(i)) = 0
  <2>1. i \in Nat /\ \A j \in U : j \in Nat
    BY <1>1 DEF ends, U
  <2>2. \A j \in U : ~(j > i)
    BY <1>8, <2>1
  <2>3. Later(i) = {}
    BY <2>2
  <2> QED BY <2>3, FS_EmptySet
<1>9. ASSUME NEW i \in U, NEW j \in ends, j < i, \A k \in U : k < i => k <= j
      PROVE  Cardinality(Later(j)) = Cardinality(Later(i)) + 1
  <2>1. i \in Nat /\ j \in Nat /\ \A k \in U : k \in Nat
    BY <1>1 DEF ends, U
  <2>2. (\A k \in U : k > j <=> k > i \/ k = i) /\ ~(i > i)
    BY <1>9, <2>1
  <2>4. Later(j) = Later(i) \cup {i} /\ i \notin Later(i)
    BY <2>2
  <2> HIDE DEF Later
  <2>3. IsFiniteSet(Later(i))
    BY <1>4
  <2> QED BY <2>3, <2>4, FS_AddElement
<1>10. ASSUME NEW i \in U, NEW j \in U, i < j
       PROVE  Cardinality(Later(j)) < Cardinality(Later(i))
  <2>1. i \in Nat /\ j \in Nat /\ \A k \in U : k \in Nat
    BY <1>1
  <2>7. (\A k \in U : k > j => k > i) /\ j > i /\ ~(j > j)
    BY <1>10, <2>1
  <2>2. Later(j) \in SUBSET Later(i) /\ j \in Later(i) /\ j \notin Later(j)
    BY <2>7
  <2> HIDE DEF Later
  <2>3. IsFiniteSet(Later(i))
    BY <1>4
  <2>4. /\ Cardinality(Later(j)) <= Cardinality(Later(i))
        /\ Cardinality(Later(i)) = Cardinality(Later(j)) => Later(i) = Later(j)
    BY <2>2, <2>3, FS_Subset
  <2>5. Cardinality(Later(j)) # Cardinality(Later(i))
    BY <2>2, <2>4
  <2>6. Cardinality(Later(j)) \in Nat /\ Cardinality(Later(i)) \in Nat
    BY <1>4
  <2> QED BY <2>4, <2>5, <2>6
<1> HIDE DEF Later
<1>11. U = undoSteps /\ \A i \in ends : i = 0 \/ i \in U
  BY DEF U, ends
<1>12. \A i \in U : Cardinality(Later(i)) < Cardinality(U)
  BY <1>4, <1>5, <1>7
<1>13. \A i : Cardinality(Later(i)) \in 0..Cardinality(U)
  BY <1>4, <1>5
<1> QED BY <1>1, <1>3, <1>5, <1>6, <1>8, <1>9, <1>10, <1>11, <1>12, <1>13

\* Where the chain begins and how it goes on.
LEMMA ChainBegins ==
  ASSUME IInv
  PROVE  \E i \in ends : layout.back[i] = layout.chain /\ Abstract!Before(i) = 0
<1>1. undoSteps \subseteq 1..stepCount /\ stepCount \in Nat
  BY TheFlow
<1>2. ends \in SUBSET (0..stepCount) /\ ends # {}
  BY <1>1 DEF ends
<1>3. PICK i \in ends : \A j \in ends : j <= i
  BY <1>1, <1>2, LargestOf
<1>4. \A j \in undoSteps : j <= i
  BY <1>3 DEF ends
<1>5. module \in DOMAIN Code /\ LaidOut(module)
  BY FlowsLaidOut DEF IInv, TypeOK
<1>6. layout.back[i] = layout.chain
  <2>1. undoSteps = {j \in 1..stepCount : flow.steps[j].undo # "nothing"}
    BY TheFlow
  <2> QED BY Zenon, <1>4, <1>5, <2>1 DEF LaidOut, layout, flow, stepCount, ends
<1> QED BY <1>4, <1>6, Order

LEMMA ChainGoesOn ==
  ASSUME IInv, NEW i \in undoSteps
  PROVE  \E j \in ends : layout.back[j] = layout.back[i] + 3 /\ Abstract!Before(j) = Abstract!Before(i) + 1
<1>1. undoSteps \subseteq 1..stepCount /\ stepCount \in Nat
  BY TheFlow
<1> DEFINE S == {j \in ends : j < i}
<1>2. S \in SUBSET (0..stepCount) /\ S # {}
  <2>1. \A j \in ends : j \in 0..stepCount
    BY <1>1 DEF ends
  <2>2. 0 \in S
    BY <1>1 DEF ends
  <2> QED BY <2>1, <2>2
<1>3. PICK j \in S : \A k \in S : k <= j
  <2> HIDE DEF S
  <2> QED BY Zenon, <1>1, <1>2, LargestOf
<1>4. j \in ends /\ j < i /\ \A k \in undoSteps : k < i => k <= j
  BY <1>3 DEF ends
<1>5. module \in DOMAIN Code /\ LaidOut(module)
  BY FlowsLaidOut DEF IInv, TypeOK
<1>6. layout.back[j] = layout.back[i] + 3
  <2>1. undoSteps = {k \in 1..stepCount : flow.steps[k].undo # "nothing"}
    BY TheFlow
  <2> QED BY Zenon, <1>4, <1>5, <2>1 DEF LaidOut, layout, flow, stepCount, ends
<1> QED BY <1>4, <1>6, Order

-----------------------------------------------------------------------------
(* What has happened.                                                      *)

LEMMA EffectsAre ==
  ASSUME IInv
  PROVE  IsSequence(effects) /\ Len(effects) \in Nat /\ DOMAIN effects = 1..Len(effects)
BY SequenceOver DEF IInv, TypeOK, IsSequence

LEMMA StepsAre ==
  ASSUME IInv
  PROVE  Abstract!steps = flow.steps /\ DOMAIN Abstract!steps = 1..stepCount
BY TheFlow DEF Abstract!steps, flow

\* Nothing failed so far: the next step is given what the last one left.
LEMMA OnTheWay ==
  ASSUME IInv, NEW k \in 0..stepCount, Through(k)
  PROVE  /\ ~Abstract!Broken /\ ~Abstract!Stopped
         /\ \A j \in 1..k : Abstract!Value(j) = Abstract!Left(j)
<1>1. /\ DOMAIN effects = 1..Len(effects) /\ Len(effects) = k /\ k \in Nat
      /\ \A j \in 1..k : Abstract!Completes(j)
  BY EffectsAre, TheFlow DEF Through
<1>2. \A j \in 1..k : ~Abstract!Fails(j) /\ ~Abstract!Stops(j)
  BY <1>1 DEF Abstract!Completes, Abstract!Fails
<1>3. ~Abstract!Broken
  BY <1>1, <1>2 DEF Abstract!Broken, Abstract!Errs, Abstract!Calls
<1>4. ~Abstract!Stopped
  <2>1. effects # <<>> => Abstract!Len(effects) \in 1..k
    <3>1. effects # <<>> => Len(effects) # 0
      BY EffectsAre, EmptySeq DEF IsSequence
    <3> QED BY <1>1, <3>1
  <2> QED BY <1>2, <2>1 DEF Abstract!Stopped
<1>5. \A j \in 1..k : Abstract!Value(j) = Abstract!Left(j)
  BY <1>1, <1>3 DEF Abstract!Value, Abstract!Calls
<1> QED BY <1>3, <1>4, <1>5

\* Step f failed.
LEMMA Failing ==
  ASSUME IInv, NEW f \in 1..stepCount, NEW r \in Nat, Turned(f, r)
  PROVE  /\ Abstract!Broken /\ Abstract!failed = f /\ Abstract!undone = r
         /\ \A j \in 1..stepCount :
              Abstract!Value(j) = IF j < f THEN Abstract!Left(j) ELSE Void
<1>1. /\ DOMAIN effects = 1..Len(effects) /\ Len(effects) = f + r
      /\ stepCount \in Nat /\ Abstract!Fails(f)
      /\ \A j \in 1..(f - 1) : Abstract!Completes(j)
  BY EffectsAre, TheFlow DEF Turned
<1>2. \A j \in 1..(f - 1) : ~Abstract!Fails(j)
  BY <1>1 DEF Abstract!Completes, Abstract!Fails
<1>3. f \in Abstract!Errs /\ \A j \in Abstract!Errs : j \in Nat /\ f <= j
  <2>1. DOMAIN Abstract!steps = 1..stepCount
    BY StepsAre
  <2>2. f \in 1..(f + r)
    OBVIOUS
  <2>3. f \in Abstract!Errs
    BY <1>1, <2>1, <2>2 DEF Abstract!Errs, Abstract!Calls
  <2>4. \A j \in Abstract!Errs : j \in 1..stepCount /\ Abstract!Fails(j)
    BY <2>1 DEF Abstract!Errs
  <2> QED BY <1>2, <2>3, <2>4
<1>4. Abstract!Broken
  BY <1>3 DEF Abstract!Broken
<1>5. Abstract!failed = f
  <2>1. Abstract!failed \in Abstract!Errs /\ \A j \in Abstract!Errs : Abstract!failed <= j
    BY <1>3 DEF Abstract!failed
  <2> QED BY <1>3, <2>1
<1>6. Abstract!undone = r
  <2>1. Abstract!undone = Len(effects) - f
    BY <1>5 DEF Abstract!undone
  <2> QED BY <1>1, <2>1
<1>7. \A j \in 1..stepCount : Abstract!Value(j) = IF j < f THEN Abstract!Left(j) ELSE Void
  <2> TAKE j \in 1..stepCount
  <2>1. (j < f => j \in 1..(f + r)) /\ (~(j < f) <=> f <= j)
    BY <1>1
  <2>2. Abstract!Value(j) = IF j \notin 1..(f + r) \/ f <= j THEN Void ELSE Abstract!Left(j)
    <3>1. DOMAIN effects = 1..(f + r)
      BY <1>1
    <3> QED BY <3>1, <1>4, <1>5 DEF Abstract!Value, Abstract!Calls, Abstract!Void, Void
  <2> QED BY <2>1, <2>2
<1> QED BY <1>4, <1>5, <1>6, <1>7

\* Step i called something that `?` does not let through.
LEMMA Stopping ==
  ASSUME IInv, NEW i \in 1..stepCount, Called(i), Abstract!Stops(i)
  PROVE  ~Abstract!Broken /\ Abstract!Stopped
<1>1. /\ DOMAIN effects = 1..i /\ Len(effects) = i /\ effects # <<>>
      /\ \A j \in 1..(i - 1) : Abstract!Completes(j)
  BY EffectsAre, EmptySeq DEF Called
<1>2. \A j \in 1..i : ~Abstract!Fails(j)
  <2>1. \A j \in 1..i : j = i \/ j \in 1..(i - 1)
    BY TheFlow
  <2> QED BY <1>1, <2>1 DEF Abstract!Completes, Abstract!Fails
<1>3. ~Abstract!Broken
  BY <1>1, <1>2 DEF Abstract!Broken, Abstract!Errs, Abstract!Calls
<1> QED BY <1>1, <1>3 DEF Abstract!Stopped

\* A call made is a call more.
LEMMA OneMore ==
  ASSUME IInv, module' = module, NEW e, effects' = Append(effects, e)
  PROVE  /\ Len(effects') = Len(effects) + 1 /\ effects'[Len(effects) + 1] = e
         /\ \A j \in 1..Len(effects) :
              /\ effects'[j] = effects[j]
              /\ Abstract!Stops(j)' = Abstract!Stops(j) /\ Abstract!Got(j)' = Abstract!Got(j)
              /\ Abstract!Fails(j)' = Abstract!Fails(j)
              /\ Abstract!Completes(j)' = Abstract!Completes(j)
              /\ Abstract!Left(j)' = Abstract!Left(j)
<1>1. IsSequence(effects)
  BY EffectsAre
<1>2. /\ Len(effects') = Len(effects) + 1
      /\ \A j \in 1..Len(effects) : effects'[j] = effects[j]
  BY <1>1, AppendSequence
<1>3. effects'[Len(effects) + 1] = e
  BY <1>1, AppendProperties DEF IsSequence
<1>4. ASSUME NEW j \in 1..Len(effects)
      PROVE  /\ Abstract!Stops(j)' = Abstract!Stops(j) /\ Abstract!Got(j)' = Abstract!Got(j)
             /\ Abstract!Fails(j)' = Abstract!Fails(j)
             /\ Abstract!Completes(j)' = Abstract!Completes(j)
             /\ Abstract!Left(j)' = Abstract!Left(j)
  <2>1. effects'[j] = effects[j]
    BY <1>2, <1>4
  <2>2. Abstract!Stops(j)' = Abstract!Stops(j) /\ Abstract!Got(j)' = Abstract!Got(j)
    BY <2>1 DEF Abstract!Stops, Abstract!Got, Abstract!steps
  <2> QED BY <2>2 DEF Abstract!Fails, Abstract!Completes, Abstract!Left
<1> QED BY <1>2, <1>3, <1>4

LEMMA SameBefore ==
  ASSUME module' = module
  PROVE  \A i : Abstract!Before(i)' = Abstract!Before(i)
<1> TAKE i
<1>1. Abstract!Before(i) = Abstract!Cardinality({j \in undoSteps : j > i})
  BY DEF Abstract!Before, undoSteps
<1>2. Abstract!Before(i)' = Abstract!Cardinality({j \in undoSteps' : j > i})
  BY DEF Abstract!Before, undoSteps
<1>3. undoSteps' = undoSteps
  BY DEF undoSteps, Abstract!UndoSteps, Abstract!steps
<1> QED BY <1>1, <1>2, <1>3

\* No call is made: what has happened stays as it is.
LEMMA NoCall ==
  ASSUME UNCHANGED <<module, effects>>
  PROVE  /\ flow' = flow /\ stepCount' = stepCount /\ undoSteps' = undoSteps
         /\ \A i : /\ Abstract!Before(i)' = Abstract!Before(i) /\ Abstract!Fails(i)' = Abstract!Fails(i)
                   /\ Abstract!Stops(i)' = Abstract!Stops(i) /\ Abstract!Got(i)' = Abstract!Got(i)
                   /\ Abstract!Left(i)' = Abstract!Left(i)
                   /\ Through(i)' = Through(i) /\ Called(i)' = Called(i)
         /\ \A f, r : Turned(f, r)' = Turned(f, r)
         /\ \A v : Due(v)' = Due(v)
<1>1. flow' = flow /\ stepCount' = stepCount
  BY DEF flow, stepCount
<1>2. undoSteps' = undoSteps
  BY DEF undoSteps, Abstract!UndoSteps, Abstract!steps
<1>3. \A i : Abstract!Before(i)' = Abstract!Before(i)
  BY SameBefore
<1>4. \A i : Abstract!Stops(i)' = Abstract!Stops(i) /\ Abstract!Got(i)' = Abstract!Got(i)
  BY DEF Abstract!Stops, Abstract!Got, Abstract!steps
<1>5. \A i : /\ Abstract!Fails(i)' = Abstract!Fails(i)
             /\ Abstract!Completes(i)' = Abstract!Completes(i)
             /\ Abstract!Left(i)' = Abstract!Left(i)
  BY <1>4 DEF Abstract!Fails, Abstract!Completes, Abstract!Left
<1>6. \A i : Through(i)' = Through(i) /\ Called(i)' = Called(i)
  BY <1>1, <1>5 DEF Through, Called
<1>7. \A f, r : Turned(f, r)' = Turned(f, r)
  BY <1>1, <1>5 DEF Turned
<1>8. \A v : Due(v)' = Due(v)
  BY <1>1, <1>2, <1>4, <1>5, <1>6, <1>7 DEF Due
<1> QED BY <1>1, <1>2, <1>3, <1>4, <1>5, <1>6, <1>7, <1>8

\* The program goes on without a call.
LEMMA NoMore ==
  ASSUME Quiet
  PROVE  /\ flow' = flow /\ layout' = layout /\ stepCount' = stepCount
         /\ flowChunk' = flowChunk /\ undoSteps' = undoSteps /\ ends' = ends
         /\ \A i : /\ Abstract!Before(i)' = Abstract!Before(i) /\ After(i)' = After(i)
                   /\ Abstract!Stops(i)' = Abstract!Stops(i) /\ Abstract!Got(i)' = Abstract!Got(i)
                   /\ Abstract!Left(i)' = Abstract!Left(i) /\ Abstract!Input(i)' = Abstract!Input(i)
                   /\ Through(i)' = Through(i) /\ Called(i)' = Called(i)
         /\ \A f, r : Turned(f, r)' = Turned(f, r)
         /\ \A v : Due(v)' = Due(v)
<1>1. UNCHANGED <<module, effects>>
  BY DEF Quiet
<1>2. layout' = layout
  BY <1>1 DEF layout
<1>3. flowChunk' = flowChunk /\ \A i : After(i)' = After(i)
  BY <1>1, <1>2 DEF flowChunk, After
<1>4. undoSteps' = undoSteps /\ ends' = ends
  BY <1>1, NoCall DEF ends
<1>5. \A i : Abstract!Input(i)' = Abstract!Input(i)
  <2>1. Abstract!Errs' = Abstract!Errs
    BY <1>1 DEF Abstract!Errs, Abstract!Calls, Abstract!steps, Abstract!Fails, Abstract!Stops, Abstract!Got
  <2>2. Abstract!Broken' = Abstract!Broken /\ Abstract!failed' = Abstract!failed
    BY <2>1 DEF Abstract!Broken, Abstract!failed
  <2>3. \A i : Abstract!Value(i)' = Abstract!Value(i)
    BY <1>1, <2>2, NoCall DEF Abstract!Value, Abstract!Calls
  <2> QED BY <1>1, <2>3 DEF Abstract!Input
<1> QED BY <1>1, <1>2, <1>3, <1>4, <1>5, NoCall


-----------------------------------------------------------------------------
(* What is on the stack.                                                   *)

\* The elements of a sequence appended to.
LEMMA AppendElements ==
  ASSUME NEW S, NEW s \in Seq(S), NEW v \in S, NEW t \in Seq(S), Len(t) = Len(s) + 1,
         t[Len(s) + 1] = v, \A i \in 1..Len(s) : t[i] = s[i]
  PROVE  Append(s, v) = t
<1> DEFINE n == Len(s)
<1>0. n \in Nat
  BY LenProperties
<1>1. /\ Append(s, v) \in Seq(S) /\ Len(Append(s, v)) = Len(s) + 1
      /\ \A i \in 1..Len(s) : Append(s, v)[i] = s[i]
  BY AppendProperties
<1>2. Append(s, v)[Len(s) + 1] = v
  BY AppendProperties
<1> DEFINE r == Append(s, v)
<1> HIDE DEF r, n
<1>3. r \in Seq(S) /\ Len(r) = n + 1 /\ r[n + 1] = v /\ \A i \in 1..n : r[i] = s[i]
  BY <1>1, <1>2 DEF r, n
<1>6. Len(t) = n + 1 /\ t[n + 1] = v /\ \A i \in 1..n : t[i] = s[i]
  BY DEF n
<1>4. \A i \in 1..Len(r) : r[i] = t[i]
  <2>1. \A i \in 1..(n + 1) : i \in 1..n \/ i = n + 1
    BY <1>0
  <2> QED BY <1>3, <1>6, <2>1
<1>5. r = t
  BY <1>3, <1>4, <1>6, SeqEqual
<1> QED BY <1>5 DEF r

LEMMA AppendSecond ==
  ASSUME NEW a, NEW b
  PROVE  Append(<<a>>, b) = <<a, b>>
<1> DEFINE S == {a, b}
           s == <<a>>
           t == <<a, b>>
<1>1. s \in Seq(S) /\ Len(s) = 1 /\ b \in S
  OBVIOUS
<1>2. t \in Seq(S) /\ Len(t) = 2 /\ t[2] = b /\ \A i \in 1..1 : t[i] = s[i]
  OBVIOUS
<1> HIDE DEF S, s, t
<1>4. Len(t) = Len(s) + 1 /\ t[Len(s) + 1] = b /\ \A i \in 1..Len(s) : t[i] = s[i]
  BY <1>1, <1>2
<1>3. Append(s, b) = t
  BY <1>1, <1>2, <1>4, AppendElements
<1> QED BY <1>3 DEF s, t

LEMMA AppendThird ==
  ASSUME NEW a, NEW b, NEW c
  PROVE  Append(<<a, b>>, c) = <<a, b, c>>
<1> DEFINE S == {a, b, c}
           s == <<a, b>>
           t == <<a, b, c>>
<1>1. s \in Seq(S) /\ Len(s) = 2 /\ c \in S
  OBVIOUS
<1>2. t \in Seq(S) /\ Len(t) = 3 /\ t[3] = c /\ \A i \in 1..2 : t[i] = s[i]
  OBVIOUS
<1> HIDE DEF S, s, t
<1>4. Len(t) = Len(s) + 1 /\ t[Len(s) + 1] = c /\ \A i \in 1..Len(s) : t[i] = s[i]
  BY <1>1, <1>2
<1>3. Append(s, c) = t
  BY <1>1, <1>2, <1>4, AppendElements
<1> QED BY <1>3 DEF s, t

InBody == (\E p : InFlow(p)) \/ (\E i, p : InFn(i, p))

\* The flow's locals are below the operands.
LEMMA Room ==
  ASSUME IInv, outcome = Running, InBody
  PROVE  /\ stepCount + 4 <= Len(stack) - Operands(op)
         /\ stepCount \in Nat /\ Len(stack) \in Nat /\ Operands(op) \in Nat
         /\ 2 + flowChunk.local_count <= Len(stack) - Operands(op)
<1>1. /\ Len(Rest) = Len(stack) - Operands(op) /\ top.base + top.local_count <= Len(Rest)
      /\ Len(Rest) \in Nat /\ Len(stack) \in Nat /\ Operands(op) \in Nat
  BY RestKeepsLocals, AtOperands
<1>2. flowChunk.local_count \in Nat /\ flowChunk.local_count > stepCount + 1 /\ stepCount \in Nat
  BY TheFlow
<1>3. top.base + top.local_count >= 2 + flowChunk.local_count
  <2>1. ASSUME NEW p, InFlow(p) PROVE top.base + top.local_count >= 2 + flowChunk.local_count
    <3>1. top.base = 2 /\ top.local_count = flowChunk.local_count
      BY <2>1, FlowGo DEF FlowFrame
    <3> QED BY <1>2, <3>1
  <2>2. ASSUME NEW i, NEW p, InFn(i, p) PROVE top.base + top.local_count >= 2 + flowChunk.local_count
    <3>1. top.base \in Nat /\ top.base >= 2 + flowChunk.local_count /\ top.local_count = 1
      BY <2>2, FnGo DEF FnFrame
    <3> QED BY <1>2, <3>1
  <2> QED BY <2>1, <2>2 DEF InBody
<1>4. top.base \in Nat /\ top.local_count \in Nat
  BY AtInstruction
<1> QED BY SMTT(30), <1>1, <1>2, <1>3, <1>4

\* What an instruction leaves of them.
LEMMA LocalsKept ==
  ASSUME IInv, outcome = Running, InBody, module' = module,
         \A i \in 1..(Len(stack) - Operands(op)) : stack'[i] = stack[i],
         NEW k, Kept(k), \A j \in 1..stepCount : j < k => Abstract!Left(j)' = Abstract!Left(j)
  PROVE  Kept(k)' /\ stack'[4] = stack[4]
<1>1. flow' = flow /\ stepCount' = stepCount
  BY DEF flow, stepCount
<1>2. \A i \in 1..(stepCount + 4) : stack'[i] = stack[i]
  BY Room
<1>3. stepCount \in Nat
  BY TheFlow
<1>4. stack'[3] = stack[3] /\ stack'[4] = stack[4] /\ \A j \in 1..stepCount : stack'[j + 4] = stack[j + 4]
  BY <1>2, <1>3
<1> QED BY <1>1, <1>4 DEF Kept

\* The same for an instruction that calls nothing.
LEMMA KeptOn ==
  ASSUME IInv, outcome = Running, InBody, Quiet, NEW k, Kept(k),
         \/ \E v : Replaced(Operands(op), v)
         \/ Dropped(Operands(op))
  PROVE  Kept(k)' /\ stack'[4] = stack[4]
<1>1. \A i \in 1..(Len(stack) - Operands(op)) : stack'[i] = stack[i]
  BY DEF Replaced, Dropped
<1>2. module' = module /\ \A j \in 1..stepCount : Abstract!Left(j)' = Abstract!Left(j)
  BY NoMore DEF Quiet
<1> QED BY <1>1, <1>2, LocalsKept

\* And for one that leaves its operand.
LEMMA KeptOnPeek ==
  ASSUME IInv, outcome = Running, InBody, Quiet, NEW k, Kept(k), NEW v, Replaced(0, v)
  PROVE  Kept(k)' /\ stack'[4] = stack[4]
<1>1. Operands(op) \in Nat /\ Len(stack) \in Nat
  BY Room
<1>2. \A i \in 1..(Len(stack) - Operands(op)) : stack'[i] = stack[i]
  BY <1>1 DEF Replaced
<1>3. module' = module /\ \A j \in 1..stepCount : Abstract!Left(j)' = Abstract!Left(j)
  BY NoMore DEF Quiet
<1> QED BY <1>2, <1>3, LocalsKept

LEMMA FirstTwo ==
  ASSUME NEW a, NEW b, NEW c
  PROVE  SubSeq(<<a, b, c>>, 1, 2) = <<a, b>>
<1> DEFINE S == {a, b, c}
           s == <<a, b, c>>
           t == <<a, b>>
           r == SubSeq(s, 1, 2)
<1>1. s \in Seq(S) /\ Len(s) = 3 /\ s[1] = a /\ s[2] = b
  OBVIOUS
<1>2. t \in Seq(S) /\ Len(t) = 2 /\ t[1] = a /\ t[2] = b
  OBVIOUS
<1> HIDE DEF S, s, t
<1>3. IsSequence(s)
  BY <1>1, SequenceOver
<1>4. IsSequence(r) /\ Len(r) = 2 /\ \A i \in 1..2 : r[i] = s[i]
  <2>1. 2 \in 0..Len(s)
    BY <1>1
  <2> QED BY <1>3, <2>1, PrefixSequence
<1> HIDE DEF r
<1>5. r \in Seq(S \cup {r[i] : i \in DOMAIN r}) /\ t \in Seq(S \cup {r[i] : i \in DOMAIN r})
  BY <1>2, <1>4, SeqMonotonic DEF IsSequence
<1>6. \A i \in 1..Len(r) : r[i] = t[i]
  BY <1>1, <1>2, <1>4
<1>7. r = t
  BY <1>2, <1>4, <1>5, <1>6, SeqEqual
<1> QED BY <1>7 DEF r, s, t

LEMMA FirstOne ==
  ASSUME NEW a, NEW b
  PROVE  SubSeq(<<a, b>>, 1, 1) = <<a>>
<1> DEFINE S == {a, b}
           s == <<a, b>>
           t == <<a>>
           r == SubSeq(s, 1, 1)
<1>1. s \in Seq(S) /\ Len(s) = 2 /\ s[1] = a
  OBVIOUS
<1>2. t \in Seq(S) /\ Len(t) = 1 /\ t[1] = a
  OBVIOUS
<1> HIDE DEF S, s, t
<1>3. IsSequence(s)
  BY <1>1, SequenceOver
<1>4. IsSequence(r) /\ Len(r) = 1 /\ \A i \in 1..1 : r[i] = s[i]
  <2>1. 1 \in 0..Len(s)
    BY <1>1
  <2> QED BY <1>3, <2>1, PrefixSequence
<1> HIDE DEF r
<1>5. r \in Seq(S \cup {r[i] : i \in DOMAIN r}) /\ t \in Seq(S \cup {r[i] : i \in DOMAIN r})
  BY <1>2, <1>4, SeqMonotonic DEF IsSequence
<1>6. \A i \in 1..Len(r) : r[i] = t[i]
  BY <1>1, <1>2, <1>4
<1>7. r = t
  BY <1>2, <1>4, <1>5, <1>6, SeqEqual
<1> QED BY <1>7 DEF r, s, t

\* Where a step finds what it is given.
LEMMA InputThere ==
  ASSUME IInv, NEW i \in 1..stepCount, Through(i - 1), Kept(i)
  PROVE  stack[2 + InputSlot(i) + 1] = Abstract!Input(i) /\ InputSlot(i) \in 0..stepCount
<1>1. stepCount \in Nat
  BY TheFlow
<1>2. CASE i = 1
  BY <1>1, <1>2 DEF InputSlot, Kept, Abstract!Input, flow
<1>3. CASE i # 1
  <2>1. i - 1 \in 1..(i - 1) /\ i - 1 \in 1..stepCount /\ i - 1 < i /\ i - 1 \in 0..stepCount
    BY <1>1, <1>3
  <2>2. InputSlot(i) = i /\ 2 + i + 1 = (i - 1) + 4
    BY <1>1, <1>3 DEF InputSlot, ResultSlot
  <2>3. stack[(i - 1) + 4] = Abstract!Left(i - 1)
    BY <2>1 DEF Kept
  <2>4. Abstract!Input(i) = Abstract!Left(i - 1)
    BY <1>3, <2>1, OnTheWay DEF Abstract!Input
  <2> QED BY <1>1, <2>2, <2>3, <2>4
<1> QED BY <1>2, <1>3

-----------------------------------------------------------------------------
(* From each place to the next.                                            *)

Moves == Abstract!Next \/ UNCHANGED <<module, effects, outcome>>

LEMMA FromEntry ==
  ASSUME IInv, outcome = Running, Next, AtEntry
  PROVE  FlowInv' /\ Moves
<1>1. effects = <<>>
  BY DEF AtEntry
<1>2. CASE InMain(1) /\ Len(stack) = 2
  <2>1. op = Const(FnV(layout.name, 1)) /\ top.ip = 1
    BY <1>2, MainGo, EntryStands DEF MainFrame
  <2>2. Quiet /\ Proceed /\ Replaced(0, FnV(layout.name, 1))
    BY <2>1, DoesConst
  <2>3. InMain(2)'
    BY <1>2, <2>1, <2>2, MainGo DEF Proceed
  <2>4. Len(stack') = 3 /\ stack'[3] = FnV(layout.name, 1)
    BY <1>2, <2>2 DEF Replaced
  <2>5. AtEntry'
    BY <1>1, <2>2, <2>3, <2>4, NoMore DEF AtEntry, Quiet
  <2> QED BY <2>2, <2>5 DEF FlowInv, Moves, Quiet
<1>3. CASE InMain(2) /\ Len(stack) = 3 /\ stack[3] = FnV(layout.name, 1)
  <2>1. op = Const(flow.input) /\ top.ip = 2
    BY <1>3, MainGo, EntryStands DEF MainFrame
  <2>2. Quiet /\ Proceed /\ Replaced(0, flow.input)
    BY <2>1, DoesConst
  <2>3. InMain(3)'
    BY <1>3, <2>1, <2>2, MainGo DEF Proceed
  <2>4. Len(stack') = 4 /\ stack'[4] = flow.input /\ stack'[3] = stack[3]
    BY <1>3, <2>2 DEF Replaced
  <2>5. AtEntry'
    BY <1>1, <1>3, <2>2, <2>3, <2>4, NoMore DEF AtEntry, Quiet
  <2> QED BY <2>2, <2>5 DEF FlowInv, Moves, Quiet
<1>4. CASE InMain(3) /\ Len(stack) = 4 /\ stack[3] = FnV(layout.name, 1) /\ stack[4] = flow.input
  <2>1. op = Instr("Call", 0, 1) /\ top = MainFrame(3) /\ Len(frames) = 1
    BY <1>4, MainGo, EntryStands
  <2>2. Below = FnV(layout.name, 1) /\ Top = flow.input
    BY <1>4 DEF Below, Top
  <2>3. /\ IsCallee(Code[module], layout.name, layout.chunk)
        /\ flowChunk.local_count \in Nat \ {0} /\ Code[module][layout.chunk].local_count = flowChunk.local_count
        /\ flowChunk.local_count > stepCount + 1 /\ stepCount \in Nat
    BY TheFlow DEF flowChunk
  <2>4. /\ Quiet
        /\ frames' = Append([frames EXCEPT ![Len(frames)].ip = top.ip + 1],
                            Frame(layout.chunk, Len(stack) - 2, flowChunk.local_count))
        /\ Len(stack') = Len(stack) - 2 + flowChunk.local_count
        /\ stack'[Len(stack) - 1] = Top
        /\ \A i \in Len(stack)..Len(stack') : stack'[i] = Void
    BY <2>1, <2>2, <2>3, DoesCall
  <2>5. InFlow(1)'
    <3>1. frames' = Append([frames EXCEPT ![1].ip = 4], Frame(layout.chunk, 2, flowChunk.local_count))
      BY <1>4, <2>1, <2>4 DEF MainFrame
    <3>2. [frames EXCEPT ![1].ip = 4] = <<[MainFrame(3) EXCEPT !.ip = 4]>>
      BY <1>4 DEF InMain
    <3>3. [MainFrame(3) EXCEPT !.ip = 4] = MainFrame(4)
      BY DEF MainFrame
    <3>4. frames' = <<MainFrame(4), FlowFrame(1)>>
      <4>1. Frame(layout.chunk, 2, flowChunk.local_count) = FlowFrame(1)
        BY DEF Frame, FlowFrame
      <4>2. frames' = Append(<<MainFrame(4)>>, FlowFrame(1))
        BY <3>1, <3>2, <3>3, <4>1
      <4> QED BY <4>2, AppendSecond
    <3>5. FlowFrame(1)' = FlowFrame(1) /\ MainFrame(4)' = MainFrame(4)
      BY <2>4, NoMore DEF FlowFrame, MainFrame
    <3> QED BY <3>4, <3>5 DEF InFlow
  <2>6. stack'[3] = flow.input /\ \A j \in 1..stepCount : stack'[j + 4] = Void
    <3>1. \A j \in 1..stepCount : j + 4 \in 4..(2 + flowChunk.local_count)
      BY <2>3
    <3> QED BY <1>4, <2>2, <2>4, <3>1
  <2>7. Kept(1)'
    <3>1. \A j \in 1..stepCount : ~(j < 1)
      BY <2>3
    <3> QED BY <2>4, <2>6, <3>1, NoMore DEF Kept
  <2>8. AtGuard'
    BY <1>1, <2>4, <2>5, <2>7 DEF AtGuard, Quiet
  <2> QED BY <2>4, <2>8 DEF FlowInv, Moves, Quiet
<1> QED BY <1>2, <1>3, <1>4 DEF AtEntry

LEMMA FromGuard ==
  ASSUME IInv, outcome = Running, Next, AtGuard
  PROVE  FlowInv' /\ Moves
<1>1. effects = <<>> /\ Kept(1) /\ InBody
  BY DEF AtGuard, InBody
<1>2. /\ layout.start[1] = 5 /\ stepCount \in Nat
      /\ Inner(flow.input) \in Int /\ flow.input = IntV(Inner(flow.input))
      /\ flow.admitted = (0 < Inner(flow.input))
  BY TheFlow
<1>3. Len(stack) \in Nat /\ Operands(op) \in Nat
  BY AtOperands
<1>4. CASE InFlow(1)
  <2>1. op = Local(0) /\ top.ip = 1 /\ top.base = 2
    BY <1>4, FlowGo, GuardStands DEF FlowFrame
  <2>2. Quiet /\ Proceed /\ Replaced(0, stack[3])
    BY <2>1, DoesLocal
  <2>3. InFlow(2)'
    BY <1>4, <2>1, <2>2, FlowGo DEF Proceed, Quiet
  <2>4. Top' = flow.input
    BY <1>1, <1>3, <2>2 DEF Replaced, Top, Kept
  <2>5. Kept(1)'
    BY <1>1, <2>1, <2>2, KeptOn, CountsOf DEF Local, Instr
  <2>6. AtGuard'
    BY <1>1, <2>2, <2>3, <2>4, <2>5, NoMore DEF AtGuard, Quiet
  <2> QED BY <2>2, <2>6 DEF FlowInv, Moves, Quiet
<1>5. CASE InFlow(2) /\ Top = flow.input
  <2>1. op = Const(IntV(0)) /\ top.ip = 2
    BY <1>5, FlowGo, GuardStands DEF FlowFrame
  <2>2. Quiet /\ Proceed /\ Replaced(0, IntV(0))
    BY <2>1, DoesConst
  <2>3. InFlow(3)'
    BY <1>5, <2>1, <2>2, FlowGo DEF Proceed, Quiet
  <2>4. Top' = IntV(0) /\ Below' = flow.input
    <3>1. Len(stack) \in 1..Len(stack)
      BY <1>1, <1>3, Room
    <3> QED BY <1>3, <1>5, <2>2, <3>1 DEF Replaced, Top, Below
  <2>5. Kept(1)'
    BY <1>1, <2>1, <2>2, KeptOn, CountsOf DEF Const, Instr
  <2>6. AtGuard'
    BY <1>1, <2>2, <2>3, <2>4, <2>5, NoMore DEF AtGuard, Quiet, IntV
  <2> QED BY <2>2, <2>6 DEF FlowInv, Moves, Quiet
<1>6. CASE InFlow(3) /\ Below = flow.input /\ Top = IntV(0)
  <2>1. op = Simple("Gt") /\ top.ip = 3
    BY <1>6, FlowGo, GuardStands DEF FlowFrame
  <2>2. Quiet /\ Proceed /\ Replaced(2, BoolV(flow.admitted))
    <3>1. Below = IntV(Inner(flow.input))
      BY <1>2, <1>6
    <3> QED BY <1>2, <1>6, <2>1, <3>1, DoesGt
  <2>3. InFlow(4)'
    BY <1>6, <2>1, <2>2, FlowGo DEF Proceed, Quiet
  <2>4. Top' = BoolV(flow.admitted)
    BY <1>3, <2>2 DEF Replaced, Top
  <2>5. Kept(1)'
    BY <1>1, <2>1, <2>2, KeptOn, CountsOf DEF Simple, Instr
  <2>6. AtGuard'
    BY <1>1, <2>2, <2>3, <2>4, <2>5, NoMore DEF AtGuard, Quiet, BoolV
  <2> QED BY <2>2, <2>6 DEF FlowInv, Moves, Quiet
<1>7. CASE InFlow(4) /\ Top = BoolV(flow.admitted)
  <2>1. op = Simple("CheckRequire") /\ top.ip = 4
    BY <1>7, FlowGo, GuardStands DEF FlowFrame
  <2>2. flow.admitted \in BOOLEAN
    BY <1>2
  <2>3. CASE flow.admitted
    <3>1. Quiet /\ Proceed /\ Dropped(1)
      BY <1>7, <2>1, <2>2, <2>3, DoesCheck
    <3>2. InFlow(5)'
      BY <1>7, <2>1, <3>1, FlowGo DEF Proceed, Quiet
    <3>3. Kept(1)'
      BY <1>1, <2>1, <3>1, KeptOn, CountsOf DEF Simple, Instr
    <3>4. Through(0)
      <4>1. Len(effects) = 0
        BY <1>1
      <4> QED BY <2>3, <4>1 DEF Through
    <3>5. AtStart(1)'
      <4>1. layout.start[1]' = 5
        BY <1>2, <3>1, NoMore
      <4>2. Through(0)'
        BY <3>1, <3>4, NoMore
      <4> QED BY <3>2, <3>3, <4>1, <4>2 DEF AtStart
    <3>6. 1 \in 1..(stepCount' + 1)
      BY <1>2, <3>1, NoMore
    <3> QED BY <3>1, <3>5, <3>6 DEF FlowInv, Moves, Quiet
  <2>4. CASE ~flow.admitted
    <3>1. outcome' = Failed("RequireViolated") /\ UNCHANGED <<module, stack, frames, effects>>
      BY <1>7, <2>1, <2>2, <2>4, DoesCheck
    <3>2. Abstract!Reject
      BY <2>4, <3>1 DEF Abstract!Reject, Abstract!Running, Running, Failed, flow
    <3>3. outcome' # Running
      BY <3>1 DEF Failed, Running
    <3> QED BY <3>2, <3>3 DEF FlowInv, Moves, Abstract!Next, Running
  <2> QED BY <2>2, <2>3, <2>4
<1> QED BY <1>4, <1>5, <1>6, <1>7 DEF AtGuard

LEMMA FromStart ==
  ASSUME IInv, outcome = Running, Next, NEW i \in 1..(stepCount + 1), AtStart(i)
  PROVE  FlowInv' /\ Moves
<1>1. InFlow(layout.start[i]) /\ Through(i - 1) /\ Kept(i) /\ InBody
  BY DEF AtStart, InBody
<1>2. stepCount \in Nat /\ i \in Nat /\ i - 1 \in 0..stepCount
  BY TheFlow
<1>3. Len(stack) \in Nat
  BY AtOperands
<1>4. op = flowChunk.ops[layout.start[i]] /\ top.ip = layout.start[i] /\ top.base = 2
  BY <1>1, FlowGo DEF FlowFrame
<1>5. CASE i = stepCount + 1
  <2> DEFINE v == IF stepCount = 0 THEN Void ELSE Abstract!Left(stepCount)
  <2>1. op = IF stepCount = 0 THEN Const(Void) ELSE Local(stepCount + 1)
    BY <1>4, <1>5, AnswerStands
  <2>2. Quiet /\ Proceed /\ Replaced(0, v) /\ Operands(op) = 0
    <3>1. CASE stepCount = 0
      <4>1. op = Const(Void)
        BY <2>1, <3>1
      <4> QED BY <3>1, <4>1, DoesConst, CountsOf DEF Const, Instr
    <3>2. CASE stepCount # 0
      <4>1. op = Local(stepCount + 1)
        BY <2>1, <3>2
      <4>2. 2 + (stepCount + 1) + 1 = stepCount + 4 /\ stepCount \in 1..stepCount /\ stepCount < i
        BY <1>2, <1>5, <3>2
      <4>3. stack[stepCount + 4] = v
        BY <1>1, <3>2, <4>2 DEF Kept
      <4>4. Quiet /\ Proceed /\ Replaced(0, stack[top.base + (stepCount + 1) + 1])
        BY <4>1, DoesLocal
      <4> QED BY <1>4, <4>1, <4>2, <4>3, <4>4, CountsOf DEF Local, Instr
    <3> QED BY <3>1, <3>2
  <2>3. InFlow(layout.start[i] + 1)'
    BY <1>1, <1>4, <2>2, FlowGo, NoMore DEF Proceed, Quiet
  <2>4. Top' = v
    BY <1>3, <2>2 DEF Replaced, Top
  <2>5. AtAnswer'
    <3>1. layout.start[i]' = layout.start[i] /\ Through(stepCount)' /\ v' = v /\ stepCount' = stepCount
      <4>1. i - 1 = stepCount
        BY <1>2, <1>5
      <4>2. Through(i - 1)' = Through(i - 1)
        BY <2>2, NoMore
      <4> QED BY <1>1, <2>2, <4>1, <4>2, NoMore
    <3>2. InFlow(layout.start[stepCount + 1] + 1)'
      BY <1>5, <2>2, <2>3, <3>1, NoMore
    <3> QED BY <2>4, <3>1, <3>2 DEF AtAnswer
  <2> QED BY <2>2, <2>5 DEF FlowInv, Moves, Quiet
<1>6. CASE i \in 1..stepCount
  <2>1. Through(i - 1)
    BY <1>1
  <2>2. CASE layout.via[i] = 0
    <3>1. op = Local(InputSlot(i))
      BY <1>4, <1>6, <2>2, CallStands
    <3>2. stack[2 + InputSlot(i) + 1] = Abstract!Input(i)
      BY <1>1, <1>2, <1>6, InputThere
    <3>3. Quiet /\ Proceed /\ Replaced(0, Abstract!Input(i)) /\ Operands(op) = 0
      BY <1>4, <3>1, <3>2, DoesLocal, CountsOf DEF Local, Instr
    <3>4. InFlow(layout.start[i] + 1)'
      BY <1>1, <1>4, <3>3, FlowGo, NoMore DEF Proceed, Quiet
    <3>5. Top' = Abstract!Input(i)
      BY <1>3, <3>3 DEF Replaced, Top
    <3>6. Kept(i)'
      BY <1>1, <3>3, KeptOn
    <3>7. AtCall(i)'
      BY <1>1, <2>2, <3>3, <3>4, <3>5, <3>6, NoMore DEF AtCall
    <3> QED BY <1>6, <3>3, <3>7, NoMore DEF FlowInv, Moves, Quiet
  <2>3. CASE layout.via[i] # 0
    <3> DEFINE v == FnV(Code[module][layout.via[i]].name, 1)
    <3>1. op = Const(v)
      BY <1>4, <1>6, <2>3, CallStands
    <3>3. Quiet /\ Proceed /\ Replaced(0, v) /\ Operands(op) = 0
      BY <3>1, DoesConst, CountsOf DEF Const, Instr
    <3>4. InFlow(layout.start[i] + 1)'
      BY <1>1, <1>4, <3>3, FlowGo, NoMore DEF Proceed, Quiet
    <3>5. Top' = v
      BY <1>3, <3>3 DEF Replaced, Top
    <3>6. Kept(i)'
      BY <1>1, <3>3, KeptOn
    <3>7. v' = v
      BY SMTT(30), <3>3, NoMore DEF Quiet
    <3>8. AtCall(i)'
      BY <1>1, <2>3, <3>3, <3>4, <3>5, <3>6, <3>7, NoMore DEF AtCall
    <3> QED BY <1>6, <3>3, <3>8, NoMore DEF FlowInv, Moves, Quiet
  <2> QED BY <2>2, <2>3
<1> QED BY <1>2, <1>5, <1>6

\* The call of a step: module Saga's DoStep, after which the machine is where
\* the call has its result.
LEMMA StepCalls ==
  ASSUME IInv, outcome = Running, Next, NEW i \in 1..stepCount, Through(i - 1), Kept(i), InBody,
         op = Instr("CallBuiltin", flow.steps[i].do, 1), Top = Abstract!Input(i)
  PROVE  /\ Abstract!DoStep /\ module' = module
         /\ outcome' = Running =>
              /\ Proceed /\ Called(i)' /\ Kept(i)'
              /\ Len(stack') = Len(stack) /\ stack'[Len(stack)] = effects'[i].result
         /\ outcome' # Running => outcome' = Failed("Builtin")
<1> DEFINE do == flow.steps[i].do
           call(v) == [name |-> do, args |-> <<Top>>, result |-> v]
<1>1. /\ Len(effects) = i - 1 /\ flow.admitted /\ stepCount \in Nat /\ i - 1 \in 0..stepCount
      /\ Len(effects) \in Nat /\ \A j \in 1..(i - 1) : Abstract!Completes(j)
  BY TheFlow, EffectsAre DEF Through
<1>2. Abstract!Onward
  BY <1>1, OnTheWay DEF Abstract!Onward, Abstract!Running, Running, flow
<1>3. /\ Len(effects) < Abstract!Len(Abstract!steps) /\ Len(effects) + 1 = i
      /\ Abstract!steps[i].do = do
  <2>1. Abstract!steps = flow.steps
    BY StepsAre
  <2>2. Len(flow.steps) = stepCount
    BY DEF stepCount
  <2> QED BY <1>1, <2>1, <2>2
<1>4. Abstract!Calling(do, Top) => Abstract!DoStep
  BY <1>2, <1>3 DEF Abstract!DoStep
<1>5. ASSUME NEW v \in BuiltinResults[do], Replaced(1, v), Proceed,
             effects' = Append(effects, call(v)), UNCHANGED <<module, outcome>>
      PROVE  /\ Abstract!DoStep /\ Called(i)' /\ Kept(i)'
             /\ Len(stack') = Len(stack) /\ stack'[Len(stack)] = effects'[i].result
  <2>1. Abstract!DoStep
    BY <1>4, <1>5 DEF Abstract!Calling, Abstract!Records
  <2>2. /\ Len(effects') = i /\ effects'[i] = call(v)
        /\ \A j \in 1..(i - 1) : /\ Abstract!Completes(j)' = Abstract!Completes(j)
                                 /\ Abstract!Left(j)' = Abstract!Left(j)
    BY <1>1, <1>3, <1>5, OneMore
  <2>3. Called(i)'
    BY <1>1, <1>5, <2>2 DEF Called, flow
  <2>4. Operands(op) = 1 /\ Len(stack) \in Nat
    BY CountsOf, AtOperands DEF Instr
  <2>5. Kept(i)'
    <3>1. \A j \in 1..stepCount : j < i => j \in 1..(i - 1)
      BY <1>1
    <3>2. \A j \in 1..(Len(stack) - Operands(op)) : stack'[j] = stack[j]
      BY <1>5, <2>4 DEF Replaced
    <3> QED BY <1>5, <2>2, <3>1, <3>2, LocalsKept
  <2>6. Len(stack') = Len(stack) /\ stack'[Len(stack)] = v
    <3>1. Len(stack) - 1 + 1 = Len(stack)
      BY <2>4
    <3> QED BY <1>5, <3>1 DEF Replaced
  <2> QED BY <2>1, <2>2, <2>3, <2>5, <2>6
<1>6. ASSUME do \in FailingBuiltins, effects' = Append(effects, call(Raised)),
             outcome' = Failed("Builtin"), module' = module
      PROVE  Abstract!DoStep /\ outcome' # Running
  <2>1. Abstract!Calling(do, Top)
    BY <1>6 DEF Abstract!Calling, Abstract!Records, Raised, Failed
  <2> QED BY <1>4, <1>6, <2>1 DEF Failed, Running
<1>7. \/ \E v \in BuiltinResults[do] :
           /\ Replaced(1, v) /\ Proceed
           /\ effects' = Append(effects, call(v)) /\ UNCHANGED <<module, outcome>>
      \/ /\ do \in FailingBuiltins
         /\ effects' = Append(effects, call(Raised))
         /\ outcome' = Failed("Builtin") /\ UNCHANGED module
  BY DoesBuiltin
<1> QED BY <1>5, <1>6, <1>7

\* What follows when the call leaves the machine with the result of step i.
LEMMA ResultThere ==
  ASSUME IInv, NEW i \in 1..stepCount, Called(i)', Kept(i)', module' = module,
         InFlow(After(i))', Top' = effects'[i].result
  PROVE  AtResult(i)' \/ AtTest(i)'
<1>1. flow' = flow /\ layout' = layout /\ After(i)' = After(i)
  BY DEF flow, layout, After
<1>2. CASE flow.steps[i].try
  BY <1>1, <1>2 DEF AtResult
<1>3. CASE ~flow.steps[i].try
  <2>1. ~Abstract!Stops(i)' /\ Abstract!Got(i)' = effects'[i].result
    BY <1>1, <1>3 DEF Abstract!Stops, Abstract!Got, Abstract!steps, flow
  <2>2. layout.test[i] = After(i)
    BY <1>3, CallStands
  <2>3. InFlow(layout.test[i])'
    BY <1>1, <2>2
  <2> QED BY <1>1, <2>1, <2>3 DEF AtTest
<1> QED BY <1>2, <1>3

LEMMA FromCall ==
  ASSUME IInv, outcome = Running, Next, NEW i \in 1..stepCount, AtCall(i)
  PROVE  FlowInv' /\ Moves
<1>1. Through(i - 1) /\ Kept(i) /\ InBody
  BY DEF AtCall, InBody
<1>2. Len(stack) \in Nat
  BY AtOperands
<1> DEFINE p == layout.start[i]
           fn == Code[module][layout.via[i]]
<1>3. p \in Nat /\ layout.start[i] \in Nat
  <2>1. i \in 1..(stepCount + 1)
    BY TheFlow
  <2> QED BY <2>1, TheFlow
<1>4. CASE layout.via[i] = 0 /\ InFlow(p + 1) /\ Top = Abstract!Input(i)
  <2>1. op = Instr("CallBuiltin", flow.steps[i].do, 1) /\ top.ip = p + 1
    BY <1>4, FlowGo, CallStands DEF FlowFrame
  <2>2. /\ Abstract!DoStep /\ module' = module
        /\ outcome' = Running =>
             /\ Proceed /\ Called(i)' /\ Kept(i)'
             /\ Len(stack') = Len(stack) /\ stack'[Len(stack)] = effects'[i].result
    BY <1>1, <1>4, <2>1, StepCalls
  <2>3. ASSUME outcome' = Running
        PROVE  AtResult(i)' \/ AtTest(i)'
    <3>1. After(i) = p + 1 + 1 /\ After(i)' = After(i)
      BY <1>3, <1>4, <2>2 DEF After, layout
    <3>2. InFlow(p + 1 + 1)'
      <4>1. layout' = layout
        BY <2>2 DEF layout
      <4> QED BY <1>4, <2>1, <2>2, <2>3, <4>1, FlowGo DEF Proceed
    <3>3. Top' = effects'[i].result
      BY <2>2, <2>3 DEF Top
    <3>4. InFlow(After(i))'
      <4>1. layout' = layout
        BY <2>2 DEF layout
      <4> QED BY <3>1, <3>2, <4>1
    <3> QED BY <2>2, <2>3, <3>3, <3>4, ResultThere
  <2>4. i \in 1..stepCount'
    BY <2>2 DEF stepCount, flow
  <2> QED BY <2>2, <2>3, <2>4 DEF FlowInv, Moves, Abstract!Next
<1>5. CASE layout.via[i] # 0 /\ InFlow(p + 1) /\ Top = FnV(fn.name, 1)
  <2>1. op = Local(InputSlot(i)) /\ top.ip = p + 1 /\ top.base = 2
    BY <1>5, FlowGo, CallStands DEF FlowFrame
  <2>2. stack[2 + InputSlot(i) + 1] = Abstract!Input(i)
    BY <1>1, InputThere
  <2>3. Quiet /\ Proceed /\ Replaced(0, Abstract!Input(i)) /\ Operands(op) = 0
    BY <2>1, <2>2, DoesLocal, CountsOf DEF Local, Instr
  <2>4. InFlow(p + 2)'
    <3>1. InFlow(p + 1 + 1)'
      BY <1>5, <2>1, <2>3, FlowGo, NoMore DEF Proceed, Quiet
    <3>2. p + 1 + 1 = p + 2 /\ p' = p
      BY <1>3, <2>3, NoMore
    <3> QED BY <3>1, <3>2
  <2>5. Top' = Abstract!Input(i) /\ Below' = FnV(fn.name, 1)
    <3>1. Len(stack) \in 1..Len(stack)
      BY <1>1, <1>2, Room
    <3> QED BY <1>2, <1>5, <2>3, <3>1 DEF Replaced, Top, Below
  <2>6. Kept(i)'
    BY <1>1, <2>3, KeptOn
  <2>7. FnV(fn.name, 1)' = FnV(fn.name, 1)
    BY SMTT(30), <2>3, NoMore DEF Quiet
  <2>8. AtCall(i)'
    BY <1>1, <1>5, <2>3, <2>4, <2>5, <2>6, <2>7, NoMore DEF AtCall
  <2> QED BY SMTT(30), <2>3, <2>8, NoMore DEF FlowInv, Moves, Quiet
<1>6. CASE layout.via[i] # 0 /\ InFlow(p + 2) /\ Below = FnV(fn.name, 1) /\ Top = Abstract!Input(i)
  <2>1. op = Instr("Call", 0, 1) /\ top = FlowFrame(p + 2) /\ Len(frames) = 2
    BY SMTT(30), <1>6, FlowGo, CallStands
  <2>2. IsCallee(Code[module], fn.name, layout.via[i]) /\ fn.local_count = 1
    BY <1>6, CallStands
  <2>3. /\ Quiet
        /\ frames' = Append([frames EXCEPT ![Len(frames)].ip = top.ip + 1],
                            Frame(layout.via[i], Len(stack) - 2, 1))
        /\ Len(stack') = Len(stack) - 2 + 1
        /\ \A j \in 1..(Len(stack) - 2) : stack'[j] = stack[j]
        /\ stack'[Len(stack) - 1] = Top
    BY SMTT(30), <1>6, <2>1, <2>2, DoesCall
  <2>4. Operands(op) = 2 /\ Len(stack) - 2 \in Nat /\ Len(stack) - 2 >= 2 + flowChunk.local_count
    <3>1. Operands(op) = 2
      BY <2>1, CountsOf DEF Instr
    <3>2. 2 + flowChunk.local_count <= Len(stack) - 2 /\ flowChunk.local_count \in Nat
      BY <1>1, <3>1, Room, TheFlow
    <3> QED BY <1>2, <3>1, <3>2
  <2>5. frames' = <<MainFrame(4), FlowFrame(p + 3), FnFrame(i, 1, Len(stack) - 2)>>
    <3>1. frames' = Append([frames EXCEPT ![2].ip = p + 2 + 1], Frame(layout.via[i], Len(stack) - 2, 1))
      BY <2>1, <2>3 DEF FlowFrame
    <3>2. [frames EXCEPT ![2].ip = p + 2 + 1] = <<MainFrame(4), [FlowFrame(p + 2) EXCEPT !.ip = p + 2 + 1]>>
      BY <1>6 DEF InFlow
    <3>3. [FlowFrame(p + 2) EXCEPT !.ip = p + 2 + 1] = FlowFrame(p + 3)
      <4>1. p + 2 + 1 = p + 3
        BY <1>3
      <4> HIDE DEF p
      <4> QED BY <4>1 DEF FlowFrame
    <3>4. Frame(layout.via[i], Len(stack) - 2, 1) = FnFrame(i, 1, Len(stack) - 2)
      BY DEF Frame, FnFrame
    <3>5. frames' = Append(<<MainFrame(4), FlowFrame(p + 3)>>, FnFrame(i, 1, Len(stack) - 2))
      BY <3>1, <3>2, <3>3, <3>4
    <3> QED BY <3>5, AppendThird
  <2>6. top.base' = Len(stack) - 2 /\ Len(stack') = Len(stack) - 1
    <3>1. top' = FnFrame(i, 1, Len(stack) - 2)
      <4>1. Len(frames') = 3 /\ frames'[3] = FnFrame(i, 1, Len(stack) - 2)
        BY <2>5
      <4> QED BY <4>1 DEF top
    <3>2. Len(stack) - 2 + 1 = Len(stack) - 1
      BY <1>2
    <3> QED BY <2>3, <3>1, <3>2 DEF FnFrame
  <2>7. InFn(i, 1)'
    <3>1. layout' = layout /\ flowChunk' = flowChunk
      BY <2>3, NoMore
    <3>2. MainFrame(4)' = MainFrame(4) /\ FlowFrame(p + 3)' = FlowFrame(p + 3)
      BY <3>1 DEF MainFrame, FlowFrame
    <3>3. FnFrame(i, 1, top.base)' = FnFrame(i, 1, Len(stack) - 2)
      BY <2>6, <3>1 DEF FnFrame
    <3> QED BY <2>4, <2>5, <2>6, <3>1, <3>2, <3>3 DEF InFn
  <2>8. Kept(i)'
    BY <1>1, <2>3, <2>4, LocalsKept, NoMore DEF Quiet
  <2>9. stack'[top.base' + 1] = Abstract!Input(i)
    <3>1. Len(stack) - 2 + 1 = Len(stack) - 1
      BY <1>2
    <3> QED BY <1>6, <2>3, <2>6, <3>1
  <2>10. AtCall(i)'
    BY <1>1, <1>6, <2>3, <2>7, <2>8, <2>9, NoMore DEF AtCall
  <2> QED BY SMTT(30), <2>3, <2>10, NoMore DEF FlowInv, Moves, Quiet
<1>7. CASE layout.via[i] # 0 /\ InFn(i, 1) /\ stack[top.base + 1] = Abstract!Input(i)
  <2>1. op = Local(0) /\ top.ip = 1 /\ top.base \in Nat
    BY <1>7, FnGo, CallStands DEF FnFrame
  <2>2. Quiet /\ Proceed /\ Replaced(0, Abstract!Input(i)) /\ Operands(op) = 0
    <3>1. top.base + 0 + 1 = top.base + 1
      BY <2>1
    <3> QED BY <1>7, <2>1, <3>1, DoesLocal, CountsOf DEF Local, Instr
  <2>3. InFn(i, 2)'
    BY <1>7, <2>1, <2>2, FnGo DEF Proceed, Quiet
  <2>4. Top' = Abstract!Input(i)
    BY <1>2, <2>2 DEF Replaced, Top
  <2>5. Kept(i)'
    BY <1>1, <2>2, KeptOn
  <2>6. AtCall(i)'
    BY <1>1, <1>7, <2>2, <2>3, <2>4, <2>5, NoMore DEF AtCall
  <2> QED BY <2>2, <2>6, NoMore DEF FlowInv, Moves, Quiet
<1>8. CASE layout.via[i] # 0 /\ InFn(i, 2) /\ Top = Abstract!Input(i)
  <2>1. op = Instr("CallBuiltin", flow.steps[i].do, 1) /\ top.ip = 2
    BY <1>8, FnGo, CallStands DEF FnFrame
  <2>2. /\ Abstract!DoStep /\ module' = module
        /\ outcome' = Running =>
             /\ Proceed /\ Called(i)' /\ Kept(i)'
             /\ Len(stack') = Len(stack) /\ stack'[Len(stack)] = effects'[i].result
    BY <1>1, <1>8, <2>1, StepCalls
  <2>3. ASSUME outcome' = Running
        PROVE  AtResult(i)'
    <3>1. InFn(i, 3)'
      BY <1>8, <2>1, <2>2, <2>3, FnGo DEF Proceed
    <3>2. Top' = effects'[i].result
      BY <2>2, <2>3 DEF Top
    <3>3. layout' = layout
      BY <2>2 DEF layout
    <3> QED BY <1>8, <2>2, <2>3, <3>1, <3>2, <3>3 DEF AtResult
  <2>4. i \in 1..stepCount'
    BY <2>2 DEF stepCount, flow
  <2> QED BY <2>2, <2>3, <2>4 DEF FlowInv, Moves, Abstract!Next
<1> QED BY <1>4, <1>5, <1>6, <1>7, <1>8 DEF AtCall

\* Module Saga sees the values the machine sees.
LEMMA SameValues ==
  /\ \A v : /\ Abstract!Tag(v) = Tag(v) /\ Abstract!Inner(v) = Inner(v)
            /\ Abstract!IsResult(v) = IsResult(v) /\ Abstract!OkV(v) = OkV(v)
  /\ Abstract!Void = Void
BY DEF Abstract!Tag, Tag, Abstract!Inner, Inner, Abstract!IsResult, IsResult, Abstract!OkV, OkV,
       Abstract!Void, Void

\* The instructions that unwrap.
LEMMA Unwrapping ==
  ASSUME NEW name \in {"Unwrap", "UnwrapInner", "WrapOk"}, NEW v
  PROVE  /\ UnaryFault(Simple(name), v) =
              IF name = "Unwrap" /\ Tag(v) = "Err" THEN "UnwrappedErr"
              ELSE IF name # "WrapOk" /\ ~IsResult(v) THEN "TypeMismatch" ELSE "none"
         /\ UnaryResult(Simple(name), v) = IF name = "WrapOk" THEN OkV(v) ELSE Inner(v)
<1> DEFINE o == Simple(name)
<1>1. o.op = name
  BY DEF Simple, Instr
<1>2. UnaryResult(o, v) = IF name = "WrapOk" THEN OkV(v) ELSE Inner(v)
  <2> HIDE DEF o
  <2> QED BY <1>1 DEF UnaryResult
<1>3. UnaryFault(o, v) =
        IF name = "Unwrap" /\ Tag(v) = "Err" THEN "UnwrappedErr"
        ELSE IF name # "WrapOk" /\ ~IsResult(v) THEN "TypeMismatch" ELSE "none"
  <2> HIDE DEF o
  <2>1. CASE name = "WrapOk"
    BY <1>1, <2>1 DEF UnaryFault
  <2>2. CASE name = "UnwrapInner"
    BY <1>1, <2>2 DEF UnaryFault
  <2>3. CASE name = "Unwrap"
    BY <1>1, <2>3 DEF UnaryFault, IsResult
  <2> QED BY <2>1, <2>2, <2>3
<1> QED BY <1>2, <1>3

LEMMA FromResult ==
  ASSUME IInv, outcome = Running, Next, NEW i \in 1..stepCount, AtResult(i)
  PROVE  FlowInv' /\ Moves
<1>1. Called(i) /\ Kept(i) /\ Top = effects[i].result /\ InBody
  BY DEF AtResult, InBody
<1>2. Len(stack) \in Nat /\ layout.start[i] \in Nat
  <2>1. i \in 1..(stepCount + 1)
    BY TheFlow
  <2> QED BY <2>1, TheFlow, AtOperands
<1>3. CASE layout.via[i] # 0 /\ InFn(i, 3)
  <2>1. /\ op = Simple("Return") /\ Len(frames) = 3 /\ top.base \in Nat
        /\ top.base >= 2 + flowChunk.local_count
    BY <1>3, FnGo, CallStands
  <2>2. /\ Quiet
        /\ frames' = SubSeq(frames, 1, Len(frames) - 1)
        /\ Len(stack') = top.base + 1
        /\ \A j \in 1..top.base : stack'[j] = stack[j]
        /\ stack'[top.base + 1] = Top
    BY <2>1, DoesReturn
  <2>3. InFlow(After(i))'
    <3>1. frames = <<MainFrame(4), FlowFrame(layout.start[i] + 3), FnFrame(i, 3, top.base)>>
      BY <1>3 DEF InFn
    <3>2. frames' = SubSeq(frames, 1, 2)
      BY <2>1, <2>2
    <3>3. frames' = <<MainFrame(4), FlowFrame(layout.start[i] + 3)>>
      BY <3>1, <3>2, FirstTwo
    <3>4. After(i) = layout.start[i] + 3
      BY <1>3 DEF After
    <3>5. FlowFrame(After(i))' = FlowFrame(layout.start[i] + 3) /\ MainFrame(4)' = MainFrame(4)
      BY <2>2, <3>4, NoMore DEF FlowFrame, MainFrame
    <3> QED BY <3>3, <3>5 DEF InFlow
  <2>4. Top' = effects'[i].result
    BY <1>1, <2>2 DEF Top, Quiet
  <2>5. Kept(i)'
    <3>1. stepCount \in Nat /\ flowChunk.local_count \in Nat /\ flowChunk.local_count > stepCount + 1
      BY TheFlow
    <3>2. 3 \in 1..top.base /\ \A j \in 1..stepCount : j + 4 \in 1..top.base
      BY <2>1, <3>1
    <3>3. stack'[3] = stack[3] /\ \A j \in 1..stepCount : stack'[j + 4] = stack[j + 4]
      BY <2>2, <3>2
    <3> QED BY <1>1, <2>2, <3>3, NoMore DEF Kept
  <2>6. Called(i)'
    BY <1>1, <2>2, NoMore
  <2>7. AtResult(i)' \/ AtTest(i)'
    BY <2>2, <2>3, <2>4, <2>5, <2>6, ResultThere DEF Quiet
  <2> QED BY <2>2, <2>7, NoMore DEF FlowInv, Moves, Quiet
<1>4. CASE InFlow(After(i)) /\ flow.steps[i].try
  <2> DEFINE v == effects[i].result
  <2>1. op = Simple("Unwrap") /\ top.ip = After(i) /\ layout.test[i] = After(i) + 1
    BY <1>4, FlowGo, CallStands DEF FlowFrame
  <2>2. Abstract!Stops(i) <=> Tag(v) # "Ok"
    BY <1>4, SameValues DEF Abstract!Stops, Abstract!steps, flow
  <2>3. Abstract!Got(i) = Inner(v)
    BY <1>4, SameValues DEF Abstract!Got, Abstract!steps, flow
  <2>4. CASE Tag(v) = "Ok"
    <3>1. UnaryFault(op, Top) = "none" /\ UnaryResult(op, Top) = Inner(v)
      BY <1>1, <2>1, <2>4, Unwrapping DEF IsResult
    <3>2. Quiet /\ Proceed /\ Replaced(1, Inner(v)) /\ Operands(op) = 1
      BY <2>1, <3>1, DoesUnary, CountsOf DEF Simple, Instr
    <3>3. InFlow(layout.test[i])'
      BY <1>4, <2>1, <3>2, FlowGo, NoMore DEF Proceed, Quiet
    <3>4. Top' = Abstract!Got(i)
      BY <1>2, <2>3, <3>2 DEF Replaced, Top
    <3>5. Kept(i)'
      BY <1>1, <3>2, KeptOn
    <3>6. AtTest(i)'
      BY <1>1, <2>2, <2>4, <3>2, <3>3, <3>4, <3>5, NoMore DEF AtTest
    <3> QED BY <3>2, <3>6, NoMore DEF FlowInv, Moves, Quiet
  <2>5. CASE Tag(v) # "Ok"
    <3> DEFINE e == IF Tag(v) = "Err" THEN "UnwrappedErr" ELSE "TypeMismatch"
    <3>1. UnaryFault(op, Top) = e /\ e # "none"
      BY <1>1, <2>1, <2>5, Unwrapping DEF IsResult
    <3>2. outcome' = Failed(e) /\ UNCHANGED <<module, stack, frames, effects>>
      BY <2>1, <3>1, DoesUnary
    <3>3. Abstract!Stopped
      BY <1>1, <2>2, <2>5, Stopping
    <3>4. Len(effects) = i
      BY <1>1 DEF Called
    <3>5. Abstract!Abort
      BY <3>2, <3>3, <3>4, SameValues DEF Abstract!Abort, Abstract!Running, Running, Failed
    <3> QED BY <3>2, <3>5 DEF FlowInv, Moves, Abstract!Next, Failed, Running
  <2> QED BY <2>4, <2>5
<1> QED BY <1>3, <1>4 DEF AtResult

LEMMA FromTest ==
  ASSUME IInv, outcome = Running, Next, NEW i \in 1..stepCount, AtTest(i)
  PROVE  FlowInv' /\ Moves
<1> DEFINE q == layout.test[i]
           v == Abstract!Got(i)
           err == Tag(v) = "Err"
<1>1. Called(i) /\ Kept(i) /\ ~Abstract!Stops(i) /\ InBody
  BY DEF AtTest, InBody
<1>2. Len(stack) \in Nat /\ q \in Nat
  BY TheFlow, AtOperands
<1>3. CASE InFlow(q) /\ Top = v
  <2>1. op = Simple("Dup") /\ top.ip = q
    BY <1>3, FlowGo, TestStands DEF FlowFrame
  <2>2. Quiet /\ Proceed /\ Replaced(0, v) /\ Operands(op) = 1
    <3>1. PeekResult(op, Top) = v
      BY <1>3, <2>1 DEF PeekResult, Simple, Instr
    <3> QED BY <2>1, <3>1, DoesPeek, CountsOf DEF Simple, Instr
  <2>3. InFlow(q + 1)'
    BY <1>3, <2>1, <2>2, FlowGo, NoMore DEF Proceed, Quiet
  <2>4. Top' = v
    BY <1>2, <2>2 DEF Replaced, Top
  <2>5. Kept(i)'
    BY <1>1, <2>1, <2>2, KeptOnPeek
  <2>6. AtTest(i)'
    BY <1>1, <2>2, <2>3, <2>4, <2>5, NoMore DEF AtTest
  <2> QED BY <2>2, <2>6, NoMore DEF FlowInv, Moves, Quiet
<1>4. CASE InFlow(q + 1) /\ Top = v
  <2>1. op = Simple("IsErr") /\ top.ip = q + 1
    BY <1>4, FlowGo, TestStands DEF FlowFrame
  <2>2. Quiet /\ Proceed /\ Replaced(0, BoolV(err)) /\ Operands(op) = 1
    <3>1. PeekResult(op, Top) = BoolV(err)
      BY <1>4, <2>1 DEF PeekResult, Simple, Instr
    <3> QED BY <2>1, <3>1, DoesPeek, CountsOf DEF Simple, Instr
  <2>3. InFlow(q + 2)'
    <3>1. q + 1 + 1 = q + 2
      BY <1>2
    <3> QED BY <1>4, <2>1, <2>2, <3>1, FlowGo, NoMore DEF Proceed, Quiet
  <2>4. Top' = BoolV(err) /\ Below' = v
    <3>1. Len(stack) \in 1..Len(stack)
      BY <1>1, <1>2, Room
    <3> QED BY <1>2, <1>4, <2>2, <3>1 DEF Replaced, Top, Below
  <2>5. Kept(i)'
    BY <1>1, <2>1, <2>2, KeptOnPeek
  <2>6. AtTest(i)'
    BY <1>1, <2>2, <2>3, <2>4, <2>5, NoMore DEF AtTest, BoolV, Tag
  <2> QED BY <2>2, <2>6, NoMore DEF FlowInv, Moves, Quiet
<1>5. CASE InFlow(q + 2) /\ Below = v /\ Top = BoolV(err)
  <2>1. op = Instr("JumpIfFalse", q + 5, 0) /\ top.ip = q + 2 /\ err \in BOOLEAN
    BY <1>5, FlowGo, TestStands DEF FlowFrame
  <2>2. Quiet /\ Dropped(1) /\ (IF err THEN Proceed ELSE GoTo(q + 5)) /\ Operands(op) = 1
    <3>1. PICK b \in BOOLEAN : b = err
      BY <2>1
    <3>2. Top = BoolV(b)
      BY <1>5, <3>1
    <3>3. Quiet /\ Dropped(1) /\ IF b THEN Proceed ELSE GoTo(q + 5)
      BY <2>1, <3>2, DoesJumpIfFalse
    <3>4. Operands(op) = 1
      BY <2>1, CountsOf DEF Instr
    <3>5. b <=> err
      BY <3>1
    <3> HIDE DEF err
    <3>6. IF err THEN Proceed ELSE GoTo(q + 5)
      BY <3>3, <3>5, Zenon
    <3> QED BY <3>3, <3>4, <3>6
  <2>3. Top' = v
    <3>1. Len(stack) - 1 \in 1..(Len(stack) - 1)
      BY <1>1, <1>2, <2>2, Room
    <3> QED BY <1>5, <2>2, <3>1 DEF Dropped, Top, Below
  <2>4. Kept(i)'
    BY <1>1, <2>2, KeptOn
  <2>5. CASE err
    <3>1. InFlow(q + 3)'
      <4>1. q + 2 + 1 = q + 3
        BY <1>2
      <4> QED BY <1>5, <2>1, <2>2, <2>5, <4>1, FlowGo, NoMore DEF Proceed, Quiet
    <3>2. Turned(i, 0)
      <4>1. Abstract!Fails(i)
        BY <1>1, <2>5, SameValues DEF Abstract!Fails
      <4>2. i = i + 0
        OBVIOUS
      <4> QED BY <1>1, <4>1, <4>2 DEF Turned, Called
    <3>3. AtFailure(i)'
      BY <2>2, <2>3, <2>4, <3>1, <3>2, NoMore DEF AtFailure
    <3> QED BY <2>2, <3>3, NoMore DEF FlowInv, Moves, Quiet
  <2>6. CASE ~err
    <3>1. InFlow(q + 5)'
      BY <1>5, <2>1, <2>2, <2>6, FlowGo, NoMore DEF Quiet
    <3>2. Through(i)
      <4>1. Abstract!Completes(i)
        BY <1>1, <2>6, SameValues DEF Abstract!Completes
      <4>2. \A j \in 1..i : j = i \/ j \in 1..(i - 1)
        BY TheFlow
      <4> QED BY <1>1, <4>1, <4>2 DEF Through, Called
    <3>3. AtSuccess(i)'
      BY <2>2, <2>3, <2>4, <3>1, <3>2, NoMore DEF AtSuccess
    <3> QED BY <2>2, <3>3, NoMore DEF FlowInv, Moves, Quiet
  <2> QED BY <2>5, <2>6
<1> QED BY <1>3, <1>4, <1>5 DEF AtTest

LEMMA FromFailure ==
  ASSUME IInv, outcome = Running, Next, NEW f \in 1..stepCount, AtFailure(f)
  PROVE  FlowInv' /\ Moves
<1> DEFINE q == layout.test[f]
           v == Abstract!Got(f)
<1>1. Turned(f, 0) /\ Kept(f) /\ InBody
  BY DEF AtFailure, InBody
<1>2. Len(stack) \in Nat /\ q \in Nat /\ stepCount \in Nat
  BY TheFlow, AtOperands
<1>3. CASE InFlow(q + 3) /\ Top = v
  <2>1. op = StoreAt(1) /\ top.ip = q + 3 /\ top.base = 2
    BY <1>3, FlowGo, TestStands DEF FlowFrame
  <2>2. /\ Quiet /\ Proceed /\ stack'[4] = Top
        /\ \A i \in 1..(Len(stack) - 1) : i # 4 => stack'[i] = stack[i]
    <3>1. top.base + 1 + 1 = 4
      BY <2>1
    <3> QED BY <2>1, <3>1, DoesStore
  <2>3. InFlow(q + 4)'
    <3>1. q + 3 + 1 = q + 4
      BY <1>2
    <3> QED BY <1>3, <2>1, <2>2, <3>1, FlowGo, NoMore DEF Proceed, Quiet
  <2>4. Kept(f)'
    <3>1. Operands(op) = 1
      BY <2>1, CountsOf DEF StoreAt, Instr
    <3>2. 3 \in 1..(Len(stack) - 1) /\ \A j \in 1..stepCount : j + 4 \in 1..(Len(stack) - 1) /\ j + 4 # 4
      BY <1>1, <1>2, <3>1, Room
    <3> QED BY <1>1, <2>2, <3>2, NoMore DEF Kept
  <2>5. AtFailure(f)'
    BY <1>1, <1>3, <2>2, <2>3, <2>4, NoMore DEF AtFailure
  <2> QED BY <2>2, <2>5, NoMore DEF FlowInv, Moves, Quiet
<1>4. CASE InFlow(q + 4) /\ stack[4] = v
  <2>1. op = Instr("Jump", layout.chain, 0)
    BY <1>4, FlowGo, TestStands
  <2>2. Quiet /\ GoTo(layout.chain) /\ Dropped(0) /\ Operands(op) = 0
    BY <2>1, DoesJump, CountsOf DEF Instr
  <2>3. InFlow(layout.chain)'
    BY <1>4, <2>2, FlowGo, NoMore DEF Quiet
  <2>4. Kept(f)' /\ stack'[4] = stack[4]
    BY <1>1, <2>2, KeptOn
  <2>5. PICK i \in ends : layout.back[i] = layout.chain /\ Abstract!Before(i) = 0
    BY ChainBegins
  <2>6. AtUndo(f, i)'
    <3>1. InFlow(layout.back[i])'
      BY <2>2, <2>3, <2>5, NoMore
    <3>2. Turned(f, Abstract!Before(i))'
      BY <1>1, <2>2, <2>5, NoMore
    <3> QED BY <1>4, <2>2, <2>4, <3>1, <3>2, NoMore DEF AtUndo
  <2>7. i \in (undoSteps \cup {0})'
    BY <2>2, NoMore DEF ends
  <2> QED BY <2>2, <2>6, <2>7, NoMore DEF FlowInv, Moves, Quiet
<1> QED BY <1>3, <1>4 DEF AtFailure

LEMMA FromSuccess ==
  ASSUME IInv, outcome = Running, Next, NEW i \in 1..stepCount, AtSuccess(i)
  PROVE  FlowInv' /\ Moves
<1> DEFINE q == layout.test[i]
           v == Abstract!Got(i)
           ok == Tag(v) = "Ok"
<1>1. Through(i) /\ Kept(i) /\ InBody
  BY DEF AtSuccess, InBody
<1>2. Len(stack) \in Nat /\ q \in Nat /\ stepCount \in Nat
  BY TheFlow, AtOperands
<1>3. CASE InFlow(q + 5) /\ Top = v
  <2>1. op = Simple("Dup") /\ top.ip = q + 5
    BY <1>3, FlowGo, TestStands DEF FlowFrame
  <2>2. Quiet /\ Proceed /\ Replaced(0, v)
    <3>1. PeekResult(op, Top) = v
      BY <1>3, <2>1 DEF PeekResult, Simple, Instr
    <3> QED BY <2>1, <3>1, DoesPeek
  <2>3. InFlow(q + 6)'
    <3>1. q + 5 + 1 = q + 6
      BY <1>2
    <3> QED BY <1>3, <2>1, <2>2, <3>1, FlowGo, NoMore DEF Proceed, Quiet
  <2>4. Top' = v
    BY <1>2, <2>2 DEF Replaced, Top
  <2>5. Kept(i)'
    BY <1>1, <2>2, KeptOnPeek
  <2>6. AtSuccess(i)'
    BY <1>1, <2>2, <2>3, <2>4, <2>5, NoMore DEF AtSuccess
  <2> QED BY <2>2, <2>6, NoMore DEF FlowInv, Moves, Quiet
<1>4. CASE InFlow(q + 6) /\ Top = v
  <2>1. op = Simple("IsOk") /\ top.ip = q + 6
    BY <1>4, FlowGo, TestStands DEF FlowFrame
  <2>2. Quiet /\ Proceed /\ Replaced(0, BoolV(ok))
    <3>1. PeekResult(op, Top) = BoolV(ok)
      BY <1>4, <2>1 DEF PeekResult, Simple, Instr
    <3> QED BY <2>1, <3>1, DoesPeek
  <2>3. InFlow(q + 7)'
    <3>1. q + 6 + 1 = q + 7
      BY <1>2
    <3> QED BY <1>4, <2>1, <2>2, <3>1, FlowGo, NoMore DEF Proceed, Quiet
  <2>4. Top' = BoolV(ok) /\ Below' = v
    <3>1. Len(stack) \in 1..Len(stack)
      BY <1>1, <1>2, Room
    <3> QED BY <1>2, <1>4, <2>2, <3>1 DEF Replaced, Top, Below
  <2>5. Kept(i)'
    BY <1>1, <2>2, KeptOnPeek
  <2>6. AtSuccess(i)'
    BY <1>1, <2>2, <2>3, <2>4, <2>5, NoMore DEF AtSuccess, BoolV, Tag
  <2> QED BY <2>2, <2>6, NoMore DEF FlowInv, Moves, Quiet
<1>5. CASE InFlow(q + 7) /\ Below = v /\ Top = BoolV(ok)
  <2>1. op = Instr("JumpIfFalse", q + 9, 0) /\ top.ip = q + 7 /\ ok \in BOOLEAN
    BY <1>5, FlowGo, TestStands DEF FlowFrame
  <2>2. Quiet /\ Dropped(1) /\ (IF ok THEN Proceed ELSE GoTo(q + 9)) /\ Operands(op) = 1
    <3>1. PICK b \in BOOLEAN : b = ok
      BY <2>1
    <3>2. Top = BoolV(b)
      BY <1>5, <3>1
    <3>3. Quiet /\ Dropped(1) /\ IF b THEN Proceed ELSE GoTo(q + 9)
      BY <2>1, <3>2, DoesJumpIfFalse
    <3>4. Operands(op) = 1
      BY <2>1, CountsOf DEF Instr
    <3>5. b <=> ok
      BY <3>1
    <3> HIDE DEF ok
    <3>6. IF ok THEN Proceed ELSE GoTo(q + 9)
      BY <3>3, <3>5, Zenon
    <3> QED BY <3>3, <3>4, <3>6
  <2>3. Top' = v
    <3>1. Len(stack) - 1 \in 1..(Len(stack) - 1)
      BY <1>1, <1>2, <2>2, Room
    <3> QED BY <1>5, <2>2, <3>1 DEF Dropped, Top, Below
  <2>4. Kept(i)'
    BY <1>1, <2>2, KeptOn
  <2>5. CASE ok
    <3>1. InFlow(q + 8)'
      <4>1. q + 7 + 1 = q + 8
        BY <1>2
      <4> QED BY <1>5, <2>1, <2>2, <2>5, <4>1, FlowGo, NoMore DEF Proceed, Quiet
    <3>2. AtSuccess(i)'
      BY <1>1, <2>2, <2>3, <2>4, <2>5, <3>1, NoMore DEF AtSuccess, Tag
    <3> QED BY <2>2, <3>2, NoMore DEF FlowInv, Moves, Quiet
  <2>6. CASE ~ok
    <3>1. InFlow(q + 9)'
      BY <1>5, <2>1, <2>2, <2>6, FlowGo, NoMore DEF Quiet
    <3>2. v = Abstract!Left(i)
      <4>1. i \in 1..i /\ Abstract!Completes(i)
        BY <1>1 DEF Through
      <4> QED BY <2>6, <4>1, SameValues DEF Abstract!Completes, Abstract!Left, IsResult
    <3>3. AtSuccess(i)'
      BY <1>1, <2>2, <2>3, <2>4, <3>1, <3>2, NoMore DEF AtSuccess
    <3> QED BY <2>2, <3>3, NoMore DEF FlowInv, Moves, Quiet
  <2> QED BY <2>5, <2>6
<1>6. CASE InFlow(q + 8) /\ ok /\ Top = v
  <2>1. op = Simple("UnwrapInner") /\ top.ip = q + 8
    BY <1>6, FlowGo, TestStands DEF FlowFrame
  <2>2. UnaryFault(op, Top) = "none" /\ UnaryResult(op, Top) = Abstract!Left(i)
    <3>1. IsResult(v)
      BY <1>6 DEF IsResult
    <3> QED BY <1>6, <2>1, <3>1, Unwrapping, SameValues DEF Abstract!Left
  <2>3. Quiet /\ Proceed /\ Replaced(1, Abstract!Left(i)) /\ Operands(op) = 1
    BY <2>1, <2>2, DoesUnary, CountsOf DEF Simple, Instr
  <2>4. InFlow(q + 9)'
    <3>1. q + 8 + 1 = q + 9
      BY <1>2
    <3> QED BY <1>6, <2>1, <2>3, <3>1, FlowGo, NoMore DEF Proceed, Quiet
  <2>5. Top' = Abstract!Left(i)
    BY <1>2, <2>3 DEF Replaced, Top
  <2>6. Kept(i)'
    BY <1>1, <2>3, KeptOn
  <2>7. AtSuccess(i)'
    BY <1>1, <2>3, <2>4, <2>5, <2>6, NoMore DEF AtSuccess
  <2> QED BY <2>3, <2>7, NoMore DEF FlowInv, Moves, Quiet
<1>7. CASE InFlow(q + 9) /\ Top = Abstract!Left(i)
  <2>1. op = StoreAt(i + 1) /\ top.ip = q + 9 /\ top.base = 2 /\ Operands(op) = 1
    <3>1. op = StoreAt(i + 1)
      BY <1>7, FlowGo, TestStands
    <3>2. top.ip = q + 9 /\ top.base = 2
      BY <1>7, FlowGo DEF FlowFrame
    <3> QED BY <3>1, <3>2, CountsOf DEF StoreAt, Instr
  <2>2. /\ Quiet /\ Proceed /\ stack'[i + 4] = Top
        /\ \A j \in 1..(Len(stack) - 1) : j # i + 4 => stack'[j] = stack[j]
    <3>1. top.base + (i + 1) + 1 = i + 4
      BY <2>1
    <3> QED BY <2>1, <3>1, DoesStore
  <2>3. InFlow(layout.start[i + 1])'
    <3>1. q + 9 + 1 = q + 10 /\ layout.start[i + 1] = q + 10
      BY SMTT(30), <1>2, TheFlow
    <3> QED BY <1>7, <2>1, <2>2, <3>1, FlowGo, NoMore DEF Proceed, Quiet
  <2>4. Kept(i + 1)'
    <3>1. stack'[3] = stack[3]
      <4>1. 3 \in 1..(Len(stack) - 1) /\ 3 # i + 4
        BY <1>1, <1>2, <2>1, Room
      <4> QED BY <2>2, <4>1
    <3>2. ASSUME NEW j \in 1..stepCount
          PROVE  stack'[j + 4] = IF j < i + 1 THEN Abstract!Left(j) ELSE Void
      <4>1. j + 4 \in 1..(Len(stack) - 1)
        BY <1>1, <1>2, <2>1, Room
      <4>2. CASE j = i
        BY <1>7, <2>2, <4>2
      <4>3. CASE j # i
        <5>1. j + 4 # i + 4 /\ (j < i + 1 <=> j < i)
          BY <4>3
        <5> QED BY <1>1, <2>2, <4>1, <5>1 DEF Kept
      <4> QED BY <4>2, <4>3
    <3>3. stack[3] = flow.input
      BY <1>1 DEF Kept
    <3> QED BY <2>2, <3>1, <3>2, <3>3, NoMore DEF Kept
  <2>5. AtStart(i + 1)'
    <3>1. i + 1 - 1 = i
      OBVIOUS
    <3>2. Through(i)'
      BY <1>1, <2>2, NoMore
    <3> QED BY <2>3, <2>4, <3>1, <3>2 DEF AtStart
  <2>6. i + 1 \in 1..(stepCount' + 1)
    BY <1>2, <2>2, NoMore
  <2> QED BY <2>2, <2>5, <2>6 DEF FlowInv, Moves, Quiet
<1> QED BY <1>3, <1>4, <1>5, <1>6, <1>7 DEF AtSuccess

LEMMA FromUndo ==
  ASSUME IInv, outcome = Running, Next, NEW f \in 1..stepCount, NEW i \in ends, AtUndo(f, i)
  PROVE  FlowInv' /\ Moves
<1> DEFINE b == layout.back[i]
           r == Abstract!Before(i)
           given == IF i < f THEN Abstract!Left(i) ELSE Void
<1>1. Kept(f) /\ stack[4] = Abstract!Got(f) /\ InBody
  BY DEF AtUndo, InBody
<1>2. /\ Len(stack) \in Nat /\ b \in Nat /\ stepCount \in Nat
      /\ r \in 0..Cardinality(undoSteps) /\ Cardinality(undoSteps) \in Nat
      /\ i # 0 => i \in undoSteps /\ i \in 1..stepCount
  BY TheFlow, AtOperands, Order DEF ends
<1>3. CASE i = 0 /\ InFlow(b) /\ Turned(f, r)
  <2>1. op = Local(1) /\ top.ip = b /\ top.base = 2
    BY <1>3, FlowGo, UndoStands DEF FlowFrame
  <2>2. Quiet /\ Proceed /\ Replaced(0, Abstract!Got(f))
    <3>1. top.base + 1 + 1 = 4
      BY <2>1
    <3> QED BY <1>1, <2>1, <3>1, DoesLocal
  <2>3. InFlow(layout.back[0] + 1)'
    BY <1>3, <2>1, <2>2, FlowGo, NoMore DEF Proceed, Quiet
  <2>4. Top' = Abstract!Got(f)
    BY <1>2, <2>2 DEF Replaced, Top
  <2>5. Due(Abstract!Got(f))
    <3>1. r = Cardinality(undoSteps)
      BY <1>3, Order
    <3> QED BY <1>3, <3>1 DEF Due
  <2>6. Due(Top)'
    <3>1. Due(Abstract!Got(f))' = Due(Abstract!Got(f))
      BY <2>2, NoMore
    <3>2. Abstract!Got(f)' = Abstract!Got(f)
      BY <2>2, NoMore
    <3> QED BY <2>4, <2>5, <3>1, <3>2
  <2>7. AtAnswer'
    BY <2>3, <2>6 DEF AtAnswer
  <2> QED BY <2>2, <2>7 DEF FlowInv, Moves, Quiet
<1>4. CASE i # 0 /\ InFlow(b) /\ Turned(f, r)
  <2>1. op = Local(i + 1) /\ top.ip = b /\ top.base = 2
    BY SMTT(30), <1>2, <1>4, FlowGo, UndoStands DEF FlowFrame
  <2>2. Quiet /\ Proceed /\ Replaced(0, given) /\ Operands(op) = 0
    <3>1. top.base + (i + 1) + 1 = i + 4
      BY <1>2, <1>4, <2>1
    <3>2. stack[i + 4] = given
      BY <1>1, <1>2, <1>4 DEF Kept
    <3>3. Operands(op) = 0
      BY <2>1, CountsOf DEF Local, Instr
    <3> QED BY <2>1, <3>1, <3>2, <3>3, DoesLocal
  <2>3. InFlow(b + 1)'
    BY <1>4, <2>1, <2>2, FlowGo, NoMore DEF Proceed, Quiet
  <2>4. Top' = given
    BY <1>2, <2>2 DEF Replaced, Top
  <2>5. Kept(f)' /\ stack'[4] = stack[4]
    BY <1>1, <2>2, KeptOn
  <2>6. Turned(f, r)' /\ given' = given
    BY <1>4, <2>2, NoMore
  <2>7. AtUndo(f, i)'
    <3>1. stack'[4] = Abstract!Got(f)'
      BY <1>1, <2>2, <2>5, NoMore
    <3>2. r' = r /\ b' = b
      BY <2>2, NoMore
    <3>3. Turned(f, Abstract!Before(i))'
      BY <2>6
    <3>4. Top' = (IF i < f THEN Abstract!Left(i) ELSE Void)'
      BY <2>4, <2>6
    <3> QED BY <1>4, <2>3, <2>5, <3>1, <3>3, <3>4 DEF AtUndo
  <2>8. i \in (undoSteps \cup {0})'
    BY <2>2, NoMore DEF ends
  <2> QED BY <2>2, <2>7, <2>8, NoMore DEF FlowInv, Moves, Quiet
<1>5. CASE i # 0 /\ InFlow(b + 1) /\ Turned(f, r) /\ Top = given
  <2> DEFINE undo == flow.steps[i].undo
             call(v) == [name |-> undo, args |-> <<Top>>, result |-> v]
  <2>1. op = Instr("CallBuiltin", undo, 1) /\ top.ip = b + 1 /\ Operands(op) = 1
    <3>1. op = Instr("CallBuiltin", undo, 1) /\ top.ip = b + 1
      BY SMTT(30), <1>2, <1>5, FlowGo, UndoStands DEF FlowFrame
    <3> QED BY <3>1, CountsOf DEF Instr
  <2>2. /\ Abstract!Broken /\ Abstract!undone = r /\ Abstract!Value(i) = Top
        /\ Abstract!steps[i].undo = undo /\ i \in Abstract!UndoSteps
    <3>1. r \in Nat
      BY <1>2
    <3>2. Abstract!Value(i) = given
      BY <1>2, <1>5, <3>1, Failing
    <3> QED BY <1>2, <1>5, <3>1, <3>2, Failing, StepsAre DEF undoSteps
  <2>3. Abstract!Calling(undo, Top) => Abstract!UndoStep
    BY <2>2 DEF Abstract!UndoStep, Abstract!Running, Running
  <2>4. ASSUME NEW v \in BuiltinResults[undo], Replaced(1, v), Proceed,
               effects' = Append(effects, call(v)), UNCHANGED <<module, outcome>>
        PROVE  Abstract!UndoStep /\ AtUndo(f, i)'
    <3>1. Abstract!UndoStep
      BY <2>3, <2>4 DEF Abstract!Calling, Abstract!Records
    <3>2. /\ Len(effects) = f + r /\ Len(effects') = f + (r + 1)
          /\ \A j \in 1..f : /\ Abstract!Completes(j)' = Abstract!Completes(j)
                             /\ Abstract!Fails(j)' = Abstract!Fails(j)
                             /\ Abstract!Got(j)' = Abstract!Got(j)
                             /\ Abstract!Left(j)' = Abstract!Left(j)
      <4>1. Len(effects) = f + r /\ r \in Nat
        BY <1>2, <1>5 DEF Turned
      <4>2. \A j \in 1..f : j \in 1..Len(effects)
        BY <4>1
      <4>3. f + r + 1 = f + (r + 1)
        BY <4>1
      <4> QED BY <2>4, <4>1, <4>2, <4>3, OneMore
    <3>3. Turned(f, r + 1)'
      <4>1. flow' = flow /\ r' = r
        BY <2>4, SameBefore DEF flow
      <4>2. \A j \in 1..(f - 1) : j \in 1..f
        OBVIOUS
      <4>3. f \in 1..f
        OBVIOUS
      <4> HIDE DEF r
      <4> QED BY <1>5, <3>2, <4>1, <4>2, <4>3 DEF Turned
    <3>4. InFlow(b + 2)'
      <4>1. layout' = layout
        BY <2>4 DEF layout
      <4>2. b + 1 + 1 = b + 2
        BY <1>2
      <4> QED BY <1>5, <2>1, <2>4, <4>1, <4>2, FlowGo DEF Proceed
    <3>5. Kept(f)' /\ stack'[4] = stack[4]
      <4>1. \A j \in 1..(Len(stack) - Operands(op)) : stack'[j] = stack[j]
        BY <2>1, <2>4 DEF Replaced
      <4>2. \A j \in 1..stepCount : j < f => j \in 1..f
        OBVIOUS
      <4> QED BY <1>1, <2>4, <3>2, <4>1, <4>2, LocalsKept
    <3>6. stack'[4] = Abstract!Got(f)'
      <4>1. f \in 1..f
        OBVIOUS
      <4> QED BY <1>1, <3>2, <3>5, <4>1
    <3> QED BY <1>5, <3>1, <3>3, <3>4, <3>5, <3>6 DEF AtUndo
  <2>5. ASSUME undo \in FailingBuiltins, effects' = Append(effects, call(Raised)),
               outcome' = Failed("Builtin"), module' = module
        PROVE  Abstract!UndoStep /\ outcome' # Running
    <3>1. Abstract!Calling(undo, Top)
      BY <2>5 DEF Abstract!Calling, Abstract!Records, Raised, Failed
    <3> QED BY <2>3, <2>5, <3>1 DEF Failed, Running
  <2>6. \/ \E v \in BuiltinResults[undo] :
             /\ Replaced(1, v) /\ Proceed
             /\ effects' = Append(effects, call(v)) /\ UNCHANGED <<module, outcome>>
        \/ /\ undo \in FailingBuiltins
           /\ effects' = Append(effects, call(Raised))
           /\ outcome' = Failed("Builtin") /\ UNCHANGED module
    BY <2>1, DoesBuiltin
  <2>7. Abstract!UndoStep /\ module' = module /\ (outcome' = Running => AtUndo(f, i)')
    BY <2>4, <2>5, <2>6
  <2>8. f \in 1..stepCount' /\ i \in (undoSteps \cup {0})'
    <3>1. stepCount' = stepCount /\ undoSteps' = undoSteps
      BY <2>7 DEF stepCount, flow, undoSteps, Abstract!UndoSteps, Abstract!steps
    <3> QED BY <3>1 DEF ends
  <2> QED BY <2>7, <2>8 DEF FlowInv, Moves, Abstract!Next
<1>6. CASE i # 0 /\ InFlow(b + 2) /\ Turned(f, r + 1)
  <2>1. op = StoreAt(layout.drop[i]) /\ top.ip = b + 2 /\ top.base = 2 /\ layout.drop[i] > stepCount + 1
    <3>1. op = StoreAt(layout.drop[i]) /\ layout.drop[i] > stepCount + 1
      BY <1>2, <1>6, FlowGo, UndoStands
    <3>2. top.ip = b + 2 /\ top.base = 2
      BY <1>6, FlowGo DEF FlowFrame
    <3> QED BY <3>1, <3>2
  <2>2. /\ Quiet /\ Proceed /\ layout.drop[i] \in Nat
        /\ \A j \in 1..(Len(stack) - 1) : j # top.base + layout.drop[i] + 1 => stack'[j] = stack[j]
    BY <2>1, DoesStore
  <2>3. \A j \in 3..(stepCount + 4) : stack'[j] = stack[j]
    <3>1. Operands(op) = 1
      BY <2>1, CountsOf DEF StoreAt, Instr
    <3>2. \A j \in 3..(stepCount + 4) : j \in 1..(Len(stack) - 1) /\ j # top.base + layout.drop[i] + 1
      BY SMTT(30), <1>1, <1>2, <2>1, <2>2, <3>1, Room
    <3> QED BY <2>2, <3>2
  <2>4. Kept(f)' /\ stack'[4] = stack[4]
    <3>1. /\ 3 \in 3..(stepCount + 4) /\ 4 \in 3..(stepCount + 4)
          /\ \A j \in 1..stepCount : j + 4 \in 3..(stepCount + 4)
      BY <1>2
    <3> QED BY <1>1, <2>2, <2>3, <3>1, NoMore DEF Kept
  <2>5. PICK k \in ends : layout.back[k] = b + 3 /\ Abstract!Before(k) = r + 1
    BY <1>2, <1>6, ChainGoesOn
  <2>6. InFlow(layout.back[k])'
    <3>1. b + 2 + 1 = b + 3
      BY SMTT(30), <1>2
    <3> QED BY <1>6, <2>1, <2>2, <2>5, <3>1, FlowGo, NoMore DEF Proceed, Quiet
  <2>7. AtUndo(f, k)'
    <3>1. Turned(f, Abstract!Before(k))'
      BY <1>6, <2>2, <2>5, NoMore
    <3>2. stack'[4] = Abstract!Got(f)'
      BY <1>1, <2>2, <2>4, NoMore
    <3> QED BY <2>4, <2>6, <3>1, <3>2 DEF AtUndo
  <2>8. k \in (undoSteps \cup {0})'
    BY <2>2, NoMore DEF ends
  <2> QED BY <2>2, <2>7, <2>8, NoMore DEF FlowInv, Moves, Quiet
<1> QED BY <1>3, <1>4, <1>5, <1>6 DEF AtUndo

\* What has been settled is settled: Report or Succeed.
LEMMA Settles ==
  ASSUME IInv, outcome = Running, NEW v, Due(v),
         outcome' = Finished(v), UNCHANGED <<module, effects>>
  PROVE  Abstract!Next
<1>1. CASE \E f \in 1..stepCount : Turned(f, Cardinality(undoSteps)) /\ v = Abstract!Got(f)
  <2>1. PICK f \in 1..stepCount : Turned(f, Cardinality(undoSteps)) /\ v = Abstract!Got(f)
    BY <1>1
  <2>2. /\ Abstract!Broken /\ Abstract!failed = f /\ Abstract!undone = Cardinality(undoSteps)
    BY <2>1, Failing, Order
  <2>3. Abstract!Cardinality(Abstract!UndoSteps) = Cardinality(undoSteps)
    BY SameCount DEF undoSteps
  <2>4. Abstract!Report
    BY <2>1, <2>2, <2>3 DEF Abstract!Report, Abstract!Running, Running, Finished
  <2> QED BY <2>4 DEF Abstract!Next
<1>2. CASE /\ Through(stepCount)
           /\ v = OkV(IF stepCount = 0 THEN Void ELSE Abstract!Left(stepCount))
  <2>1. stepCount \in 0..stepCount /\ stepCount \in Nat
    BY TheFlow
  <2>2. /\ ~Abstract!Broken /\ ~Abstract!Stopped
        /\ \A j \in 1..stepCount : Abstract!Value(j) = Abstract!Left(j)
    BY <1>2, <2>1, OnTheWay
  <2>3. Abstract!Onward /\ Len(effects) = stepCount
    BY <1>2, <2>2 DEF Abstract!Onward, Abstract!Running, Running, flow, Through
  <2>4. Abstract!Len(Abstract!steps) = stepCount /\ (Abstract!steps = <<>> <=> stepCount = 0)
    <3>1. Abstract!steps = flow.steps /\ IsSequence(flow.steps)
      BY StepsAre, TheFlow
    <3> QED BY <3>1, EmptySeq DEF stepCount, IsSequence
  <2>5. v = Abstract!OkV(IF Abstract!steps = <<>> THEN Abstract!Void
                         ELSE Abstract!Value(Abstract!Len(Abstract!steps)))
    <3>1. stepCount # 0 => stepCount \in 1..stepCount
      BY <2>1
    <3> QED BY <1>2, <2>2, <2>4, <3>1, SameValues
  <2>6. Abstract!Succeed
    BY <2>3, <2>4, <2>5 DEF Abstract!Succeed, Finished
  <2> QED BY <2>6 DEF Abstract!Next
<1> QED BY <1>1, <1>2 DEF Due

LEMMA FromAnswer ==
  ASSUME IInv, outcome = Running, Next, AtAnswer
  PROVE  FlowInv' /\ Moves
<1> DEFINE p == layout.start[stepCount + 1]
           v == IF stepCount = 0 THEN Void ELSE Abstract!Left(stepCount)
<1>1. InBody
  BY DEF AtAnswer, InBody
<1>2. Len(stack) \in Nat /\ p \in Nat /\ stepCount \in Nat
  <2>1. stepCount \in Nat /\ stepCount + 1 \in 1..(stepCount + 1)
    BY TheFlow
  <2> QED BY <2>1, TheFlow, AtOperands
<1>3. CASE InFlow(p + 1) /\ Through(stepCount) /\ Top = v
  <2>1. op = Simple("WrapOk") /\ top.ip = p + 1
    BY <1>3, FlowGo, AnswerStands DEF FlowFrame
  <2>2. Quiet /\ Proceed /\ Replaced(1, OkV(v))
    BY <1>3, <2>1, DoesUnary, Unwrapping
  <2>3. InFlow(p + 2)'
    <3>1. p + 1 + 1 = p + 2
      BY <1>2
    <3> QED BY <1>3, <2>1, <2>2, <3>1, FlowGo, NoMore DEF Proceed, Quiet
  <2>4. Top' = OkV(v)
    BY <1>2, <2>2 DEF Replaced, Top
  <2>5. Due(OkV(v))
    BY <1>3 DEF Due
  <2>6. Due(Top)'
    <3>1. Due(OkV(v))' = Due(OkV(v)) /\ OkV(v)' = OkV(v)
      BY <2>2, NoMore DEF OkV
    <3> QED BY <2>4, <2>5, <3>1
  <2>7. AtAnswer'
    BY <2>2, <2>3, <2>6, NoMore DEF AtAnswer
  <2> QED BY <2>2, <2>7 DEF FlowInv, Moves, Quiet
<1>4. ASSUME NEW q, InFlow(q), Due(Top), op = Simple("Return")
      PROVE  FlowInv' /\ Moves
  <2>1. frames = <<MainFrame(4), FlowFrame(q)>> /\ Len(frames) = 2 /\ top.base = 2
    BY <1>4, FlowGo DEF InFlow, FlowFrame
  <2>2. /\ Quiet
        /\ frames' = SubSeq(frames, 1, 1)
        /\ Len(stack') = 3 /\ stack'[3] = Top
    BY <1>4, <2>1, DoesReturn
  <2>3. frames' = <<MainFrame(4)>>
    BY <2>1, <2>2, FirstOne
  <2>4. InMain(4)'
    BY <2>3 DEF InMain, MainFrame
  <2>5. Due(Top)'
    <3>1. Top' = Top
      BY <2>2 DEF Top
    <3>2. Due(Top)' = Due(Top)
      BY <2>2, <3>1, NoMore
    <3> QED BY <1>4, <3>2
  <2>6. AtExit'
    BY <2>4, <2>5 DEF AtExit
  <2> QED BY <2>2, <2>6 DEF FlowInv, Moves, Quiet
<1>5. CASE InFlow(p + 2) /\ Due(Top)
  <2>1. op = Simple("Return")
    BY <1>5, FlowGo, AnswerStands
  <2> QED BY <1>4, <1>5, <2>1
<1>6. CASE InFlow(layout.back[0] + 1) /\ Due(Top)
  <2>1. op = Simple("Return")
    BY <1>6, FlowGo, UndoStands
  <2> QED BY <1>4, <1>6, <2>1
<1> QED BY <1>3, <1>5, <1>6 DEF AtAnswer

LEMMA FromExit ==
  ASSUME IInv, outcome = Running, Next, AtExit
  PROVE  FlowInv' /\ Moves
<1>1. /\ Len(stack) \in Nat /\ Operands(op) \in Nat
      /\ top.base + top.local_count <= Len(stack) - Operands(op)
  BY RestKeepsLocals, AtOperands
<1>2. ASSUME NEW p, InMain(p)
      PROVE  top.base = 0 /\ top.ip = p /\ 2 <= Len(stack) - Operands(op)
  BY <1>1, <1>2, MainGo DEF MainFrame
<1>3. ASSUME NEW v, Due(v), Quiet PROVE Due(v)' = Due(v)
  BY Zenon, <1>3, NoMore
<1>4. CASE InMain(4) /\ Due(Top)
  <2>1. op = StoreAt(0)
    BY <1>4, MainGo, EntryStands
  <2>2. Quiet /\ Proceed /\ stack'[1] = Top
    <3>1. top.base + 0 + 1 = 1
      BY <1>2, <1>4
    <3> QED BY <2>1, <3>1, DoesStore
  <2>3. InMain(5)'
    BY <1>2, <1>4, <2>2, MainGo DEF Proceed
  <2>4. Due(stack[1])'
    BY <1>3, <1>4, <2>2
  <2>5. AtExit'
    BY <2>3, <2>4 DEF AtExit
  <2> QED BY <2>2, <2>5 DEF FlowInv, Moves, Quiet
<1>5. CASE InMain(5) /\ Due(stack[1])
  <2>1. op = Const(Void)
    BY <1>5, MainGo, EntryStands
  <2>2. Quiet /\ Proceed /\ Replaced(0, Void)
    BY <2>1, DoesConst
  <2>3. InMain(6)'
    BY <1>2, <1>5, <2>2, MainGo DEF Proceed
  <2>4. stack'[1] = stack[1]
    <3>1. 1 \in 1..(Len(stack) - 0)
      BY <1>1, <1>2, <1>5
    <3> QED BY <2>2, <3>1 DEF Replaced
  <2>5. Due(stack[1])'
    BY <1>3, <1>5, <2>2, <2>4
  <2>6. AtExit'
    BY <2>3, <2>5 DEF AtExit
  <2> QED BY <2>2, <2>6 DEF FlowInv, Moves, Quiet
<1>6. CASE InMain(6) /\ Due(stack[1])
  <2>1. op = StoreAt(1) /\ Operands(op) = 1
    <3>1. op = StoreAt(1)
      BY <1>6, MainGo, EntryStands
    <3> QED BY <3>1, CountsOf DEF StoreAt, Instr
  <2>2. Quiet /\ Proceed /\ stack'[1] = stack[1]
    <3>1. 1 # top.base + 1 + 1 /\ 1 \in 1..(Len(stack) - 1)
      BY <1>1, <1>2, <1>6, <2>1
    <3> QED BY <2>1, <3>1, DoesStore
  <2>3. InMain(7)'
    BY <1>2, <1>6, <2>2, MainGo DEF Proceed
  <2>4. Due(stack[1])'
    BY <1>3, <1>6, <2>2
  <2>5. AtExit'
    BY <2>3, <2>4 DEF AtExit
  <2> QED BY <2>2, <2>5 DEF FlowInv, Moves, Quiet
<1>7. CASE InMain(7) /\ Due(stack[1])
  <2>1. op = Local(0)
    BY <1>7, MainGo, EntryStands
  <2>2. Quiet /\ Proceed /\ Replaced(0, stack[1])
    <3>1. top.base + 0 + 1 = 1
      BY <1>2, <1>7
    <3> QED BY <2>1, <3>1, DoesLocal
  <2>3. InMain(8)'
    BY <1>2, <1>7, <2>2, MainGo DEF Proceed
  <2>4. Due(Top)'
    <3>1. Top' = stack[1]
      BY <1>1, <2>2 DEF Replaced, Top
    <3>2. Due(Top)' = Due(stack[1])
      BY <1>3, <1>7, <2>2, <3>1
    <3> QED BY <1>7, <3>2
  <2>5. AtExit'
    BY <2>3, <2>4 DEF AtExit
  <2> QED BY <2>2, <2>5 DEF FlowInv, Moves, Quiet
<1>8. CASE InMain(8) /\ Due(Top)
  <2>1. op = Simple("Halt")
    BY <1>8, MainGo, EntryStands
  <2>2. Len(stack) > 0
    BY <1>1, <1>2, <1>8
  <2>3. outcome' = Finished(Top) /\ UNCHANGED <<module, effects>>
    BY <2>1, <2>2, DoesHalt
  <2>4. Abstract!Next
    BY <1>8, <2>3, Settles
  <2> QED BY <2>3, <2>4 DEF FlowInv, Moves, Finished, Running
<1> QED BY <1>4, <1>5, <1>6, <1>7, <1>8 DEF AtExit

-----------------------------------------------------------------------------
(* The machine implements module Saga.                                     *)

LEMMA FlowBegins == Init => FlowInv /\ Abstract!Init
<1> SUFFICES ASSUME Init PROVE FlowInv /\ Abstract!Init
  OBVIOUS
<1>1. IInv
  BY InitInvariant
<1>2. Code[module][1].local_count = 2
  BY <1>1, TheFlow
<1>3. InMain(1)
  BY <1>2 DEF Init, Frame, InMain, MainFrame
<1>4. Len(stack) = 2
  BY <1>2, VoidsSequence DEF Init
<1>5. AtEntry
  BY <1>3, <1>4 DEF Init, AtEntry
<1>6. Abstract!Init
  BY FlowsLaidOut DEF Init, Abstract!Init, Abstract!Running, Running
<1> QED BY <1>5, <1>6 DEF FlowInv

\* Where nothing changes, the machine stays where it is.
LEMMA SamePlace ==
  ASSUME UNCHANGED vars
  PROVE  FlowInv' <=> FlowInv
<1>1. Quiet /\ stack' = stack /\ frames' = frames
  BY DEF vars, Quiet
<1>2. \A p : InMain(p)' = InMain(p) /\ InFlow(p)' = InFlow(p)
  BY <1>1, NoMore DEF InMain, InFlow, MainFrame, FlowFrame
<1>3. \A i, p : InFn(i, p)' = InFn(i, p)
  BY <1>1, NoMore DEF InFn, MainFrame, FlowFrame, FnFrame, top
<1>4. \A k : Kept(k)' = Kept(k)
  BY <1>1, NoMore DEF Kept
<1>5. Top' = Top /\ Below' = Below /\ top' = top
  BY <1>1 DEF Top, Below, top
<1>6. AtEntry' <=> AtEntry
  BY <1>1, <1>2, NoMore DEF AtEntry, Quiet, FnV
<1>7. AtGuard' <=> AtGuard
  BY <1>1, <1>2, <1>4, <1>5, NoMore DEF AtGuard, Quiet, IntV, BoolV
<1>8. AtAnswer' <=> AtAnswer
  BY <1>1, <1>2, <1>5, NoMore DEF AtAnswer
<1>9. AtExit' <=> AtExit
  BY <1>1, <1>2, <1>5, NoMore DEF AtExit
<1>10. \A i : AtStart(i)' <=> AtStart(i)
  BY <1>1, <1>2, <1>4, NoMore DEF AtStart
<1>11. \A i : AtCall(i)' <=> AtCall(i)
  BY <1>1, <1>2, <1>3, <1>4, <1>5, NoMore DEF AtCall, Quiet, FnV
<1>12. \A i : AtResult(i)' <=> AtResult(i)
  BY <1>1, <1>2, <1>3, <1>4, <1>5, NoMore DEF AtResult, Quiet
<1>13. \A i : AtTest(i)' <=> AtTest(i)
  BY <1>1, <1>2, <1>4, <1>5, NoMore DEF AtTest, BoolV, Tag
<1>14. \A i : AtFailure(i)' <=> AtFailure(i)
  BY <1>1, <1>2, <1>4, <1>5, NoMore DEF AtFailure
<1>15. \A i : AtSuccess(i)' <=> AtSuccess(i)
  BY <1>1, <1>2, <1>4, <1>5, NoMore DEF AtSuccess, BoolV, Tag
<1>16. \A f, i : AtUndo(f, i)' <=> AtUndo(f, i)
  BY <1>1, <1>2, <1>4, <1>5, NoMore DEF AtUndo
<1>17. stepCount' = stepCount /\ undoSteps' = undoSteps /\ outcome' = outcome
  BY <1>1, NoMore DEF Quiet
<1> QED BY <1>6, <1>7, <1>8, <1>9, <1>10, <1>11, <1>12, <1>13, <1>14, <1>15, <1>16, <1>17 DEF FlowInv

LEMMA FlowMoves == IInv /\ FlowInv /\ [Next]_vars => FlowInv' /\ Moves
<1> SUFFICES ASSUME IInv, FlowInv, [Next]_vars PROVE FlowInv' /\ Moves
  OBVIOUS
<1>1. CASE outcome = Running /\ Next
  <2>1. CASE AtEntry
    BY <1>1, <2>1, FromEntry
  <2>2. CASE AtGuard
    BY <1>1, <2>2, FromGuard
  <2>3. CASE AtAnswer
    BY <1>1, <2>3, FromAnswer
  <2>4. CASE AtExit
    BY <1>1, <2>4, FromExit
  <2>5. CASE \E i \in 1..(stepCount + 1) : AtStart(i)
    BY <1>1, <2>5, FromStart
  <2>6. CASE \E i \in 1..stepCount :
               AtCall(i) \/ AtResult(i) \/ AtTest(i) \/ AtFailure(i) \/ AtSuccess(i)
    BY <1>1, <2>6, FromCall, FromResult, FromTest, FromFailure, FromSuccess
  <2>7. CASE \E f \in 1..stepCount, i \in undoSteps \cup {0} : AtUndo(f, i)
    BY <1>1, <2>7, FromUndo DEF ends
  <2> QED BY <1>1, <2>1, <2>2, <2>3, <2>4, <2>5, <2>6, <2>7 DEF FlowInv
<1>2. CASE outcome # Running /\ Next
  <2>1. UNCHANGED vars
    BY Zenon, <1>2 DEF Next, Executes, LoadConst, LoadLocal, StoreLocal, Compute, Peek, Check, Jump, Call,
           Return, Halt, CallBuiltin, BuiltinFails, Fails, Returned
  <2> QED BY <1>2, <2>1 DEF FlowInv, Moves, vars
<1>3. CASE UNCHANGED vars
  <2>1. UNCHANGED <<module, outcome, effects>> /\ UNCHANGED <<stack, frames>>
    BY <1>3 DEF vars
  <2>2. FlowInv' <=> FlowInv
    BY <1>3, SamePlace
  <2> QED BY <2>1, <2>2 DEF Moves
<1> QED BY <1>1, <1>2, <1>3

-----------------------------------------------------------------------------
(* What module Saga's steps have left behind at any time.                  *)

\* A call of step k has been made: what was said of the calls before it still
\* holds of them.
LEMMA InOrderStays ==
  ASSUME IInv, module' = module, NEW e, effects' = Append(effects, e),
         NEW k \in 0..stepCount, k <= Len(effects), InOrder(k)
  PROVE  /\ InOrder(k)'
         /\ \A i \in 0..k : Abstract!Gave(i)' = Abstract!Gave(i)
<1>1. Len(effects) \in Nat /\ stepCount \in Nat /\ flow' = flow
  BY EffectsAre, TheFlow DEF flow
<1>2. ASSUME NEW i \in 0..k PROVE Abstract!Gave(i)' = Abstract!Gave(i)
  <2>1. CASE i = 0
    BY <2>1 DEF Abstract!Gave
  <2>2. CASE i # 0
    <3>1. i \in 1..Len(effects)
      BY <1>1, <2>2
    <3> QED BY <2>2, <3>1, OneMore DEF Abstract!Gave
  <2> QED BY <2>1, <2>2
<1>3. ASSUME NEW i \in 1..k
      PROVE  Abstract!CalledWith(i, flow.steps[i].do, Abstract!Gave(i - 1))'
  <2>1. i \in 1..Len(effects) /\ i - 1 \in 0..k
    BY <1>1
  <2>2. effects'[i] = effects[i]
    BY <2>1, OneMore
  <2>3. Abstract!CalledWith(i, flow.steps[i].do, Abstract!Gave(i - 1))
    BY DEF InOrder
  <2> QED BY <1>1, <1>2, <2>1, <2>2, <2>3 DEF Abstract!CalledWith
<1> QED BY <1>2, <1>3 DEF InOrder

\* No call is made: the same is said of the calls there are.
LEMMA TrailStays ==
  ASSUME UNCHANGED <<module, effects>>
  PROVE  /\ \A k : InOrder(k)' = InOrder(k)
         /\ \A f, r : Trail(f, r)' = Trail(f, r)
<1>1. \A i : Abstract!Gave(i)' = Abstract!Gave(i)
  BY NoCall DEF Abstract!Gave
<1>2. \A k : InOrder(k)' = InOrder(k)
  BY <1>1, NoCall DEF InOrder, Abstract!CalledWith
<1>3. \A f, r : Undone(f, r)' = Undone(f, r)
  BY NoCall DEF Undone, Abstract!CalledWith, Void
<1> QED BY <1>2, <1>3, NoCall DEF Trail

\* Once a step has failed, what follows are rollbacks.
LEMMA BrokenTrail ==
  ASSUME IInv, SagaInv, Abstract!Broken
  PROVE  \E f \in 1..stepCount, r \in 0..Cardinality(undoSteps) : Trail(f, r)
<1>1. PICK j \in Abstract!Errs : TRUE
  BY DEF Abstract!Broken
<1>2. j \in 1..Len(effects) /\ j \in 1..stepCount /\ Abstract!Fails(j)
  BY <1>1, EffectsAre, StepsAre DEF Abstract!Errs, Abstract!Calls
<1>3. effects # <<>>
  BY <1>2, EmptySeq
<1>4. CASE \E k \in 1..stepCount : Called(k) /\ InOrder(k)
  <2>1. PICK k \in 1..stepCount : Called(k) /\ InOrder(k)
    BY <1>4
  <2>2. Len(effects) = k /\ flow.admitted /\ \A i \in 1..(k - 1) : Abstract!Completes(i)
    BY <2>1 DEF Called
  <2>3. ~Abstract!Completes(j)
    BY <1>2 DEF Abstract!Fails, Abstract!Completes
  <2>4. j = k /\ k = k + 0
    BY <1>2, <2>2, <2>3
  <2>5. Turned(k, 0)
    BY <1>2, <2>2, <2>4 DEF Turned
  <2>6. Undone(k, 0)
    <3>1. ASSUME NEW i \in undoSteps PROVE ~(Abstract!Before(i) < 0)
      BY Order DEF ends
    <3> QED BY <3>1 DEF Undone
  <2>7. 0 \in 0..Cardinality(undoSteps)
    BY Order
  <2> QED BY <2>1, <2>5, <2>6, <2>7 DEF Trail
<1> QED BY <1>3, <1>4 DEF SagaInv

\* As long as none has failed, every call but perhaps the last has completed.
LEMMA OpenTrail ==
  ASSUME IInv, SagaInv, ~Abstract!Broken, ~Abstract!Stopped, flow.admitted
  PROVE  Len(effects) \in 0..stepCount /\ Through(Len(effects)) /\ InOrder(Len(effects))
<1>1. CASE effects = <<>>
  <2>1. Len(effects) = 0 /\ stepCount \in Nat
    BY <1>1, TheFlow
  <2> QED BY <2>1 DEF Through, InOrder
<1>2. CASE \E k \in 1..stepCount : Called(k) /\ InOrder(k)
  <2>1. PICK k \in 1..stepCount : Called(k) /\ InOrder(k)
    BY <1>2
  <2>2. Len(effects) = k /\ k \in Nat /\ stepCount \in Nat /\ \A i \in 1..(k - 1) : Abstract!Completes(i)
    BY <2>1, TheFlow DEF Called
  <2>3. effects # <<>>
    BY <2>1, <2>2, EmptySeq
  <2>4. ~Abstract!Stops(k)
    BY <2>2, <2>3 DEF Abstract!Stopped
  <2>5. ~Abstract!Fails(k)
    <3>1. k \in Abstract!Calls \cap DOMAIN Abstract!steps
      BY <2>1, <2>2, EffectsAre, StepsAre DEF Abstract!Calls
    <3> QED BY <3>1 DEF Abstract!Broken, Abstract!Errs
  <2>6. Abstract!Completes(k)
    BY <2>4, <2>5 DEF Abstract!Completes, Abstract!Fails
  <2>7. \A i \in 1..k : i = k \/ i \in 1..(k - 1)
    BY <2>2
  <2> QED BY <2>1, <2>2, <2>6, <2>7 DEF Through
<1>3. CASE \E f \in 1..stepCount, r \in 0..Cardinality(undoSteps) : Trail(f, r)
  <2>1. PICK f \in 1..stepCount, r \in 0..Cardinality(undoSteps) : Trail(f, r)
    BY <1>3
  <2>2. Abstract!Broken
    BY <2>1, Order, Failing DEF Trail
  <2> QED BY <2>2
<1> QED BY <1>1, <1>2, <1>3 DEF SagaInv

\* A call that is made is recorded, whatever comes of it.
LEMMA CallIsRecorded ==
  ASSUME NEW name, NEW arg, Abstract!Calling(name, arg)
  PROVE  \E e : /\ effects' = Append(effects, e) /\ module' = module
               /\ e.name = name /\ e.args = <<arg>>
<1>1. PICK v : effects' = Append(effects, [name |-> name, args |-> <<arg>>, result |-> v]) /\ module' = module
  BY DEF Abstract!Calling, Abstract!Records
<1>2. \E e : e = [name |-> name, args |-> <<arg>>, result |-> v]
  OBVIOUS
<1> QED BY <1>1, <1>2

\* The next step is called: it is given what the last one left.
LEMMA OnwardKeepsTrail ==
  ASSUME IInv, SagaInv, Abstract!DoStep
  PROVE  \E k \in 1..stepCount' : (Called(k) /\ InOrder(k))'
<1>0. PICK n \in Nat : n = Len(effects)
  BY Zenon, EffectsAre
<1>1. /\ flow.admitted /\ ~Abstract!Broken /\ ~Abstract!Stopped /\ n < stepCount
  BY <1>0, StepsAre DEF Abstract!DoStep, Abstract!Onward, flow, stepCount
<1>2. n \in 0..stepCount /\ Through(n) /\ InOrder(n) /\ n \in Nat
  BY <1>0, <1>1, OpenTrail
<1>3. \A j \in 1..n : Abstract!Value(j) = Abstract!Left(j)
  BY <1>2, OnTheWay
<1>4. PICK e : /\ effects' = Append(effects, e) /\ module' = module
               /\ e.name = flow.steps[n + 1].do /\ e.args = <<Abstract!Input(n + 1)>>
  <2>1. Abstract!Calling(flow.steps[n + 1].do, Abstract!Input(n + 1))
    BY <1>0, StepsAre DEF Abstract!DoStep
  <2> QED BY <2>1, CallIsRecorded
<1>5. Abstract!Input(n + 1) = Abstract!Gave(n)
  <2>1. CASE n = 0
    BY <2>1 DEF Abstract!Input, Abstract!Gave
  <2>2. CASE n # 0
    <3>1. n + 1 # 1 /\ n + 1 - 1 = n /\ n \in 1..n
      BY <1>2, <2>2
    <3> QED BY <1>3, <2>2, <3>1 DEF Abstract!Input, Abstract!Gave
  <2> QED BY <2>1, <2>2
<1>6. stepCount' = stepCount /\ flow' = flow
  BY <1>4 DEF stepCount, flow
<1>7. Called(n + 1)'
  <2>1. flow.admitted' = flow.admitted /\ Len(effects') = n + 1
    BY <1>0, <1>4, OneMore DEF flow
  <2>2. \A j \in 1..(n + 1 - 1) : Abstract!Completes(j)'
    BY <1>0, <1>2, <1>4, OneMore DEF Through
  <2> QED BY <1>1, <1>6, <2>1, <2>2 DEF Called
<1>8. InOrder(n + 1)'
  <2>1. InOrder(n)' /\ Abstract!Gave(n)' = Abstract!Gave(n)
    <3>1. n <= Len(effects) /\ n \in 0..n
      BY <1>0
    <3> QED BY <1>2, <1>4, <3>1, InOrderStays
  <2>2. Abstract!CalledWith(n + 1, flow.steps[n + 1].do, Abstract!Gave(n))'
    <3>1. effects'[n + 1] = e
      BY <1>0, <1>4, OneMore
    <3> QED BY <1>4, <1>5, <1>6, <2>1, <3>1 DEF Abstract!CalledWith
  <2>3. n + 1 - 1 = n /\ \A i \in 1..(n + 1) : i = n + 1 \/ i \in 1..n
    BY <1>2
  <2> QED BY <2>1, <2>2, <2>3 DEF InOrder
<1>9. n + 1 \in 1..stepCount'
  BY <1>1, <1>2, <1>6, TheFlow
<1> QED BY <1>7, <1>8, <1>9

\* The next rollback is called: the one of the step before, in the order of the chain.
LEMMA UndoKeepsTrail ==
  ASSUME IInv, SagaInv, Abstract!UndoStep
  PROVE  \E f \in 1..stepCount', r \in 0..Cardinality(undoSteps') : Trail(f, r)'
<1>1. Abstract!Broken
  BY DEF Abstract!UndoStep
<1>2. PICK f \in 1..stepCount, r \in 0..Cardinality(undoSteps) : Trail(f, r)
  BY <1>1, BrokenTrail
<1>3. /\ f \in Nat /\ r \in Nat /\ stepCount \in Nat /\ Cardinality(undoSteps) \in Nat
      /\ Turned(f, r) /\ InOrder(f) /\ Undone(f, r) /\ Len(effects) = f + r
  BY <1>2, Order, TheFlow DEF Trail, Turned
<1>4. /\ Abstract!undone = r
      /\ \A j \in 1..stepCount : Abstract!Value(j) = IF j < f THEN Abstract!Left(j) ELSE Void
  BY <1>3, Failing
<1>5. PICK i \in undoSteps : r = Abstract!Before(i) /\ Abstract!Calling(flow.steps[i].undo, Abstract!Value(i))
  BY <1>4, StepsAre DEF Abstract!UndoStep, undoSteps
<1>6. PICK e : /\ effects' = Append(effects, e) /\ module' = module
               /\ e.name = flow.steps[i].undo
               /\ e.args = <<IF i < f THEN Abstract!Left(i) ELSE Void>>
  <2>1. i \in 1..stepCount
    BY Order
  <2>2. Abstract!Value(i) = IF i < f THEN Abstract!Left(i) ELSE Void
    BY <1>4, <2>1
  <2> QED BY <1>5, <2>2, CallIsRecorded
<1>7. /\ flow' = flow /\ stepCount' = stepCount /\ undoSteps' = undoSteps
      /\ \A j : Abstract!Before(j)' = Abstract!Before(j)
  BY <1>6, SameBefore DEF stepCount, flow, undoSteps, Abstract!UndoSteps, Abstract!steps
<1>8. r + 1 \in 0..Cardinality(undoSteps)
  BY <1>3, <1>5, Order
<1>9. Turned(f, r + 1)'
  <2>1. Len(effects') = f + (r + 1) /\ flow.admitted
    BY <1>3, <1>6, OneMore DEF Turned
  <2>2. f \in 1..Len(effects) /\ \A j \in 1..(f - 1) : j \in 1..Len(effects)
    BY <1>3
  <2>3. Abstract!Fails(f)' /\ \A j \in 1..(f - 1) : Abstract!Completes(j)'
    BY <1>3, <1>6, <2>2, OneMore DEF Turned
  <2> QED BY <1>7, <2>1, <2>3 DEF Turned
<1>10. InOrder(f)'
  BY <1>3, <1>6, InOrderStays
<1>11. Undone(f, r + 1)'
  <2>1. ASSUME NEW u \in 1..(r + 1) PROVE \E j \in undoSteps : Abstract!Before(j) + 1 = u
    <3>1. CASE u = r + 1
      BY <1>5, <3>1
    <3>2. CASE u # r + 1
      <4>1. u \in 1..r
        BY <1>3, <3>2
      <4> QED BY <1>3, <4>1 DEF Undone
    <3> QED BY <3>1, <3>2
  <2>2. ASSUME NEW j \in undoSteps, Abstract!Before(j) < r + 1
        PROVE  Abstract!CalledWith(f + 1 + Abstract!Before(j), flow.steps[j].undo,
                                   IF j < f THEN Abstract!Left(j) ELSE Void)'
    <3>1. Abstract!Before(j) \in Nat /\ Abstract!Before(j)' = Abstract!Before(j) /\ j \in 1..stepCount
      BY <1>7, Order DEF ends
    <3>2. Abstract!Left(j)' = Abstract!Left(j) \/ ~(j < f)
      <4>1. j < f => j \in 1..Len(effects)
        BY <1>3, <3>1
      <4> QED BY <1>6, <4>1, OneMore
    <3>3. PICK p \in Nat : p = f + 1 + Abstract!Before(j)
      BY <1>3, <3>1
    <3>4. CASE Abstract!Before(j) < r
      <4>1. /\ effects[p].name = flow.steps[j].undo
            /\ effects[p].args = <<IF j < f THEN Abstract!Left(j) ELSE Void>>
        BY <1>3, <3>3, <3>4 DEF Undone, Abstract!CalledWith
      <4>2. p \in 1..Len(effects)
        BY <1>3, <3>1, <3>3, <3>4
      <4>3. effects'[p] = effects[p]
        BY <1>6, <4>2, OneMore
      <4> QED BY <1>7, <3>1, <3>2, <3>3, <4>1, <4>3 DEF Abstract!CalledWith, Void
    <3>5. CASE ~(Abstract!Before(j) < r)
      <4>1. Abstract!Before(j) = r
        BY <1>3, <2>2, <3>1, <3>5
      <4>2. j = i
        <5>1. i < j \/ j < i \/ i = j
          BY <3>1, Order
        <5>2. i < j => Abstract!Before(j) < Abstract!Before(i)
          BY Order
        <5>3. j < i => Abstract!Before(i) < Abstract!Before(j)
          BY Order
        <5> QED BY <1>3, <1>5, <4>1, <5>1, <5>2, <5>3
      <4>3. p = Len(effects) + 1
        BY <1>3, <3>3, <4>1
      <4>4. effects'[p] = e
        BY <1>6, <4>3, OneMore
      <4> QED BY <1>6, <1>7, <3>1, <3>2, <3>3, <4>2, <4>4 DEF Abstract!CalledWith, Void
    <3> QED BY <3>4, <3>5
  <2> QED BY <1>7, <2>1, <2>2 DEF Undone
<1> QED BY <1>7, <1>8, <1>9, <1>10, <1>11 DEF Trail

\* The flow answers: what it owes is what it gives.
LEMMA AnswerIsDue ==
  ASSUME IInv, SagaInv, Abstract!Report \/ Abstract!Succeed
  PROVE  UNCHANGED <<module, effects>> /\ outcome'[1] = "value" /\ Due(outcome'[2])
<1>1. CASE Abstract!Report
  <2>1. /\ Abstract!Broken /\ UNCHANGED <<module, effects>>
        /\ outcome' = <<"value", Abstract!Got(Abstract!failed)>>
        /\ Abstract!undone = Cardinality(undoSteps)
    BY <1>1, SameCount DEF Abstract!Report, undoSteps
  <2>2. PICK f \in 1..stepCount, r \in 0..Cardinality(undoSteps) : Trail(f, r)
    BY <2>1, BrokenTrail
  <2>3. Abstract!failed = f /\ Turned(f, Cardinality(undoSteps))
    BY <2>1, <2>2, Order, Failing DEF Trail
  <2> QED BY <2>1, <2>3 DEF Due
<1>2. CASE Abstract!Succeed
  <2>1. /\ flow.admitted /\ ~Abstract!Broken /\ ~Abstract!Stopped /\ Len(effects) = stepCount
        /\ UNCHANGED <<module, effects>>
        /\ outcome' = <<"value", OkV(IF Abstract!steps = <<>> THEN Void ELSE Abstract!Value(stepCount))>>
    BY <1>2, StepsAre, SameValues
    DEF Abstract!Succeed, Abstract!Onward, flow, stepCount
  <2>2. stepCount \in Nat /\ stepCount \in 0..stepCount /\ Through(stepCount)
    BY <2>1, OpenTrail
  <2>3. \A j \in 1..stepCount : Abstract!Value(j) = Abstract!Left(j)
    BY <2>2, OnTheWay
  <2>4. Abstract!steps = <<>> <=> stepCount = 0
    <3>1. Abstract!steps = flow.steps /\ IsSequence(flow.steps)
      BY StepsAre, TheFlow
    <3> QED BY <3>1, EmptySeq DEF stepCount, IsSequence
  <2>5. stepCount # 0 => stepCount \in 1..stepCount
    BY <2>2
  <2> QED BY <2>1, <2>2, <2>3, <2>4, <2>5 DEF Due
<1> QED BY <1>1, <1>2

LEMMA SagaBegins == Abstract!Init => SagaInv
BY DEF Abstract!Init, Abstract!Running, SagaInv

LEMMA SagaMoves == IInv /\ IInv' /\ SagaInv /\ Moves => SagaInv'
<1> SUFFICES ASSUME IInv, SagaInv, Moves PROVE SagaInv'
  OBVIOUS
<1> DEFINE History == \/ effects = <<>>
                      \/ \E k \in 1..stepCount : Called(k) /\ InOrder(k)
                      \/ \E f \in 1..stepCount, r \in 0..Cardinality(undoSteps) : Trail(f, r)
<1>1. History
  BY DEF SagaInv
<1>2. ASSUME UNCHANGED <<module, effects>> PROVE History'
  BY <1>1, <1>2, NoCall, TrailStays
<1>3. CASE Abstract!DoStep
  <2>1. outcome'[1] # "value"
    BY <1>3 DEF Abstract!DoStep, Abstract!Onward, Abstract!Calling, Abstract!Running
  <2> QED BY <1>3, <2>1, OnwardKeepsTrail DEF SagaInv
<1>4. CASE Abstract!UndoStep
  <2>1. outcome'[1] # "value"
    BY <1>4 DEF Abstract!UndoStep, Abstract!Calling, Abstract!Running
  <2> QED BY <1>4, <2>1, UndoKeepsTrail DEF SagaInv
<1>5. CASE Abstract!Reject \/ Abstract!Abort
  <2>1. UNCHANGED <<module, effects>> /\ outcome'[1] # "value"
    BY <1>5 DEF Abstract!Reject, Abstract!Abort
  <2> QED BY <1>2, <2>1 DEF SagaInv
<1>6. CASE Abstract!Report \/ Abstract!Succeed
  <2>1. UNCHANGED <<module, effects>> /\ Due(outcome'[2])
    BY <1>6, AnswerIsDue
  <2>2. Due(outcome[2])'
    BY <2>1, NoCall
  <2> QED BY <1>2, <2>1, <2>2 DEF SagaInv
<1>7. CASE UNCHANGED <<module, effects, outcome>>
  <2>1. outcome[1] = "value" => Due(outcome[2])'
    BY <1>7, NoCall DEF SagaInv
  <2> QED BY <1>2, <1>7, <2>1 DEF SagaInv
<1> QED BY <1>3, <1>4, <1>5, <1>6, <1>7 DEF Moves, Abstract!Next

-----------------------------------------------------------------------------
(* What the answer says about the calls that were made.                    *)

LEMMA TrailCompensates ==
  ASSUME IInv, SagaInv
  PROVE  CompletedStepsCompensated
<1> SUFFICES ASSUME outcome[1] = "value", Tag(outcome[2]) = "Err" PROVE Abstract!Compensated
  BY SameValues DEF CompletedStepsCompensated, Abstract!Compensated
<1> DEFINE n == Cardinality(undoSteps)
<1>1. PICK f \in 1..stepCount : Turned(f, n) /\ outcome[2] = Abstract!Got(f)
  <2>1. Due(outcome[2])
    BY DEF SagaInv
  <2>2. \A v : Tag(OkV(v)) = "Ok"
    BY DEF Tag, OkV
  <2> QED BY <2>1, <2>2 DEF Due
<1>2. /\ n \in Nat /\ stepCount \in Nat /\ f \in Nat /\ Len(effects) = f + n
      /\ Abstract!Fails(f) /\ \A i \in 1..(f - 1) : Abstract!Completes(i)
  BY <1>1, Order, TheFlow DEF Turned
<1>3. InOrder(f) /\ Undone(f, n)
  <2>1. Abstract!Broken /\ Abstract!failed = f
    BY <1>1, <1>2, Failing
  <2>2. PICK g \in 1..stepCount, r \in 0..n : Trail(g, r)
    BY <2>1, BrokenTrail
  <2>3. r \in Nat /\ Turned(g, r)
    BY <1>2, <2>2 DEF Trail
  <2>4. g = f
    BY <2>1, <2>3, Failing
  <2>5. Len(effects) = g + r
    BY <2>3 DEF Turned
  <2>6. r = n
    BY <1>2, <2>3, <2>4, <2>5
  <2> QED BY <2>2, <2>4, <2>6 DEF Trail
<1>4. f \in Abstract!Calls \cap DOMAIN Abstract!steps
  BY <1>2, EffectsAre, StepsAre DEF Abstract!Calls
<1>5. \A i \in 1..f : Abstract!CalledWith(i, Abstract!steps[i].do, Abstract!Gave(i - 1))
  BY <1>3, StepsAre DEF InOrder
<1> DEFINE call == [i \in undoSteps |-> f + 1 + Abstract!Before(i)]
           C(g) == /\ \A k \in (f + 1)..Len(effects) : \E i \in undoSteps : g[i] = k
                   /\ \A i, j \in undoSteps : i < j => g[j] < g[i]
                   /\ \A i \in undoSteps :
                        Abstract!CalledWith(g[i], Abstract!steps[i].undo, IF i < f THEN Abstract!Left(i) ELSE Void)
<1>6. \A i \in undoSteps : Abstract!Before(i) \in Nat /\ Abstract!Before(i) < n
  BY Order DEF ends
<1>7. call \in [undoSteps -> (f + 1)..Len(effects)]
  BY <1>2, <1>6
<1>8. C(call)
  <2>1. ASSUME NEW k \in (f + 1)..Len(effects) PROVE \E i \in undoSteps : call[i] = k
    <3>1. k - f \in 1..n
      BY <1>2
    <3>2. PICK i \in undoSteps : Abstract!Before(i) + 1 = k - f
      BY <1>3, <3>1 DEF Undone
    <3>3. call[i] = k
      BY <1>2, <1>6, <3>2
    <3> QED BY <3>3
  <2>2. ASSUME NEW i \in undoSteps, NEW j \in undoSteps, i < j PROVE call[j] < call[i]
    <3>1. Abstract!Before(j) < Abstract!Before(i)
      BY <2>2, Order
    <3> QED BY <1>2, <1>6, <3>1
  <2>3. ASSUME NEW i \in undoSteps
        PROVE  Abstract!CalledWith(call[i], Abstract!steps[i].undo, IF i < f THEN Abstract!Left(i) ELSE Void)
    BY <1>3, <1>6, StepsAre DEF Undone
  <2> QED BY <2>1, <2>2, <2>3
<1>9. \E g \in [undoSteps -> (f + 1)..Len(effects)] : C(g)
  <2> HIDE DEF call, C
  <2> QED BY <1>7, <1>8
<1> QED BY <1>1, <1>2, <1>4, <1>5, <1>9, SameValues DEF Abstract!Compensated, undoSteps

LEMMA TrailIsAllDone ==
  ASSUME IInv, SagaInv
  PROVE  SuccessMeansAllDone
<1> SUFFICES ASSUME outcome[1] = "value", Tag(outcome[2]) = "Ok" PROVE Abstract!AllDone
  BY SameValues DEF SuccessMeansAllDone, Abstract!AllDone
<1>1. /\ Through(stepCount)
      /\ outcome[2] = OkV(IF stepCount = 0 THEN Void ELSE Abstract!Left(stepCount))
  <2>1. Due(outcome[2])
    BY DEF SagaInv
  <2>2. \A f : Turned(f, Cardinality(undoSteps)) => Tag(Abstract!Got(f)) = "Err"
    BY SameValues DEF Turned, Abstract!Fails
  <2> QED BY <2>1, <2>2 DEF Due
<1>2. stepCount \in Nat /\ stepCount \in 0..stepCount /\ Len(effects) = stepCount /\ flow.admitted
  BY <1>1, TheFlow DEF Through
<1>3. ~Abstract!Broken /\ ~Abstract!Stopped
  BY <1>1, <1>2, OnTheWay
<1>4. InOrder(stepCount)
  BY <1>2, <1>3, OpenTrail
<1>5. Inner(outcome[2]) = IF stepCount = 0 THEN Void ELSE Abstract!Left(stepCount)
  BY <1>1 DEF Inner, OkV
<1>6. Abstract!steps = <<>> <=> stepCount = 0
  <2>1. Abstract!steps = flow.steps /\ IsSequence(flow.steps)
    BY StepsAre, TheFlow
  <2> QED BY <2>1, EmptySeq DEF stepCount, IsSequence
<1>7. Len(Abstract!steps) = stepCount
  BY StepsAre DEF stepCount
<1>8. \A i \in DOMAIN Abstract!steps :
        Abstract!CalledWith(i, Abstract!steps[i].do, Abstract!Gave(i - 1)) /\ Abstract!Completes(i)
  BY <1>1, <1>4, StepsAre DEF InOrder, Through
<1> QED BY <1>2, <1>5, <1>6, <1>7, <1>8, SameValues DEF Abstract!AllDone, flow

-----------------------------------------------------------------------------
\* The machine, the flow it runs and the history of its calls.
FlowRuns == IInv /\ FlowInv /\ SagaInv

LEMMA FlowRunsInvariant == Spec => []FlowRuns
<1>1. Init => FlowRuns
  BY InitInvariant, FlowBegins, SagaBegins DEF FlowRuns
<1>2. FlowRuns /\ [Next]_vars => FlowRuns'
  BY StepInvariant, FlowMoves, SagaMoves DEF FlowRuns
<1> QED BY <1>1, <1>2, PTL DEF Spec

\* Whatever compiled code is laid out as FlowLayout says (and TLC finds that of
\* all the compiler emits for the flows of MCFlow), running it does nothing but
\* what module Saga allows: every call the machine makes is the one the saga
\* makes next, with the same argument, and it ends as the saga ends.
THEOREM FlowsAreSagas == Spec => Abstract!Safety
<1>1. Init => Abstract!Init
  BY FlowBegins
<1>2. FlowRuns /\ [Next]_vars => [Abstract!Next]_(Abstract!vars)
  BY FlowMoves DEF FlowRuns, Moves, Abstract!vars
<1> QED BY <1>1, <1>2, FlowRunsInvariant, PTL DEF Spec, Abstract!Safety

\* A flow of any number of steps that answers with an Err has rolled back every
\* step that has a rollback, once, later steps first, the completed ones with
\* what they had left.
THEOREM FlowsAreCompensated == Spec => []CompletedStepsCompensated
<1>1. FlowRuns => CompletedStepsCompensated
  BY TrailCompensates DEF FlowRuns
<1> QED BY <1>1, FlowRunsInvariant, PTL

\* A flow that answers with an Ok has completed every step, in order and once,
\* and has rolled back none.
THEOREM FlowsSucceedWhole == Spec => []SuccessMeansAllDone
<1>1. FlowRuns => SuccessMeansAllDone
  BY TrailIsAllDone DEF FlowRuns
<1> QED BY <1>1, FlowRunsInvariant, PTL

-----------------------------------------------------------------------------
(* Calls keep apart: pieces of sequences.                                  *)

\* The piece of a sequence behind position a up to position b.
LEMMA Slice ==
  ASSUME NEW s, IsSequence(s), NEW a \in Nat, NEW b \in Nat, a <= b, b <= Len(s)
  PROVE  /\ IsSequence(SubSeq(s, a + 1, b))
         /\ Len(SubSeq(s, a + 1, b)) = b - a
         /\ \A i \in 1..(b - a) : SubSeq(s, a + 1, b)[i] = s[a + i]
<1> DEFINE S == {s[i] : i \in DOMAIN s}
<1>1. s \in Seq(S) /\ Len(s) \in Nat
  BY LenProperties DEF IsSequence
<1>2. \A i \in (a + 1)..b : s[i] \in S
  BY <1>1, ElementOfSeq
<1> HIDE DEF S
<1>3. /\ SubSeq(s, a + 1, b) \in Seq(S)
      /\ Len(SubSeq(s, a + 1, b)) = IF a + 1 <= b THEN b - (a + 1) + 1 ELSE 0
      /\ \A i \in 1..(b - (a + 1) + 1) : SubSeq(s, a + 1, b)[i] = s[a + 1 + i - 1]
  BY <1>1, <1>2, SubSeqProperties
<1>4. \A i \in 1..(b - a) : a + 1 + i - 1 = a + i
  OBVIOUS
<1>5. b - (a + 1) + 1 = b - a /\ (~(a + 1 <= b) => b - a = 0)
  OBVIOUS
<1>6. IsSequence(SubSeq(s, a + 1, b))
  BY <1>3, SequenceOver
<1>7. Len(SubSeq(s, a + 1, b)) = b - a
  BY <1>3, <1>5
<1>8. ASSUME NEW i \in 1..(b - a) PROVE SubSeq(s, a + 1, b)[i] = s[a + i]
  BY <1>3, <1>4, <1>5
<1> QED BY <1>6, <1>7, <1>8

\* There is nothing between a position and one before it.
LEMMA EmptySlice ==
  ASSUME NEW s, NEW a \in Nat, NEW b \in Nat, b <= a
  PROVE  SubSeq(s, a + 1, b) = <<>>
<1>1. SubSeq(s, a + 1, b) \in Seq({}) /\ Len(SubSeq(s, a + 1, b)) = 0
  BY SubSeqProperties
<1> QED BY <1>1, EmptySeq

\* Two sequences with the same elements are one.
LEMMA SameSequence ==
  ASSUME NEW s, IsSequence(s), NEW t, IsSequence(t), Len(s) = Len(t),
         \A i \in 1..Len(s) : s[i] = t[i]
  PROVE  s = t
<1> DEFINE S == {s[i] : i \in DOMAIN s} \cup {t[i] : i \in DOMAIN t}
<1>1. s \in Seq(S) /\ t \in Seq(S)
  BY SeqMonotonic DEF IsSequence
<1> HIDE DEF S
<1> QED BY <1>1, SeqEqual

\* Pieces of two sequences that agree there.
LEMMA SameSlice ==
  ASSUME NEW s, IsSequence(s), NEW t, IsSequence(t),
         NEW a \in Nat, NEW b \in Nat, a <= b, b <= Len(s), b <= Len(t),
         \A i \in 1..b : s[i] = t[i]
  PROVE  SubSeq(s, a + 1, b) = SubSeq(t, a + 1, b)
<1>1. \A i \in 1..(b - a) : a + i \in 1..b
  OBVIOUS
<1>2. \A i \in 1..(b - a) : SubSeq(s, a + 1, b)[i] = SubSeq(t, a + 1, b)[i]
  BY <1>1, Slice
<1> QED BY <1>2, Slice, SameSequence

\* The last piece of a sequence that was appended to.
LEMMA SliceOfAppend ==
  ASSUME NEW s, IsSequence(s), NEW v, NEW a \in Nat, a <= Len(s)
  PROVE  SubSeq(Append(s, v), a + 1, Len(s) + 1) = Append(SubSeq(s, a + 1, Len(s)), v)
<1> DEFINE m == Len(s)
           t == SubSeq(s, a + 1, m)
           u == SubSeq(Append(s, v), a + 1, m + 1)
<1>1. m \in Nat
  BY SequenceOver DEF IsSequence
<1>2. /\ IsSequence(Append(s, v)) /\ Len(Append(s, v)) = m + 1
      /\ \A i \in 1..m : Append(s, v)[i] = s[i]
  BY AppendSequence
<1>3. Append(s, v)[m + 1] = v
  BY AppendProperties DEF IsSequence
<1>4. /\ IsSequence(t) /\ Len(t) = m - a
      /\ \A i \in 1..(m - a) : t[i] = s[a + i]
  BY <1>1, Slice
<1>5. /\ IsSequence(u) /\ Len(u) = m + 1 - a
      /\ \A i \in 1..(m + 1 - a) : u[i] = Append(s, v)[a + i]
  <2> DEFINE w == Append(s, v)
             b == m + 1
  <2>1. IsSequence(w) /\ b \in Nat /\ a <= b /\ b <= Len(w)
    BY <1>1, <1>2
  <2> HIDE DEF w, b
  <2>2. /\ IsSequence(SubSeq(w, a + 1, b)) /\ Len(SubSeq(w, a + 1, b)) = b - a
        /\ \A i \in 1..(b - a) : SubSeq(w, a + 1, b)[i] = w[a + i]
    BY <2>1, Slice
  <2> QED BY <2>2 DEF w, b
<1>6. /\ IsSequence(Append(t, v)) /\ Len(Append(t, v)) = Len(t) + 1
      /\ \A i \in 1..Len(t) : Append(t, v)[i] = t[i]
  BY <1>4, AppendSequence
<1>7. Append(t, v)[Len(t) + 1] = v
  BY <1>4, AppendProperties DEF IsSequence
<1> HIDE DEF m, t, u
<1>8. ASSUME NEW i \in 1..(m + 1 - a) PROVE u[i] = Append(t, v)[i]
  <2>1. CASE i = m + 1 - a
    <3>1. a + i = m + 1 /\ i = Len(t) + 1
      BY <1>1, <1>4, <2>1
    <3> QED BY <1>3, <1>5, <1>7, <3>1
  <2>2. CASE i # m + 1 - a
    <3>1. i \in 1..(m - a) /\ a + i \in 1..m
      BY <1>1, <2>2
    <3> QED BY <1>2, <1>4, <1>5, <1>6, <3>1
  <2> QED BY <2>1, <2>2
<1>9. Len(u) = Len(Append(t, v))
  BY <1>1, <1>4, <1>5, <1>6
<1>10. u = Append(t, v)
  BY <1>5, <1>6, <1>8, <1>9, SameSequence
<1> QED BY <1>10 DEF m, t, u

-----------------------------------------------------------------------------
(* The instructions of both specifications are the same.                   *)

LEMMA SameGroups ==
  /\ Own!ComputeOps = ComputeOps /\ Own!PeekOps = PeekOps /\ Own!CheckOps = CheckOps
  /\ Own!BinaryOps = BinaryOps /\ Own!UnaryOps = UnaryOps /\ Own!MakeOps = MakeOps
  /\ Own!IntOps = IntOps /\ Own!OrderOps = OrderOps /\ Own!LogicOps = LogicOps
BY DEF Own!ComputeOps, Own!PeekOps, Own!CheckOps, Own!BinaryOps, Own!UnaryOps, Own!MakeOps,
       Own!IntOps, Own!OrderOps, Own!LogicOps,
       ComputeOps, PeekOps, CheckOps, BinaryOps, UnaryOps, MakeOps, IntOps, OrderOps, LogicOps

LEMMA SameConstructors ==
  /\ Own!Void = Void
  /\ \A v : Own!Tag(v) = Tag(v) /\ Own!Inner(v) = Inner(v) /\ Own!IsResult(v) = IsResult(v)
  /\ \A v : Own!Truthy(v) = Truthy(v)
  /\ \A v : Own!BoolV(v) = BoolV(v) /\ Own!IntV(v) = IntV(v) /\ Own!TextV(v) = TextV(v)
  /\ \A v : Own!OkV(v) = OkV(v) /\ Own!ErrV(v) = ErrV(v)
  /\ \A r, f : Own!RecordV(r, f) = RecordV(r, f)
BY DEF Own!Void, Own!Tag, Own!Inner, Own!IsResult, Own!Truthy, Own!BoolV, Own!IntV, Own!TextV,
       Own!OkV, Own!ErrV, Own!RecordV,
       Void, Tag, Inner, IsResult, Truthy, BoolV, IntV, TextV, OkV, ErrV, RecordV

LEMMA SameOperands == \A o : Own!Operands(o) = Operands(o)
BY SameGroups DEF Own!Operands, Operands

LEMMA SameExact == \A name, l, r : Own!Exact(name, l, r) = Exact(name, l, r)
BY DEF Own!Exact, Exact, Own!Quotient, Quotient, Own!Remainder, Remainder, Own!Abs, Abs

LEMMA SameFault == \A o, a : Own!OperandFault(o, a) = OperandFault(o, a)
<1>1. \A name, l, r : Own!ArithFault(name, l, r) = ArithFault(name, l, r)
  BY SameConstructors, SameExact DEF Own!ArithFault, ArithFault, Own!Fits, Fits
<1>2. \A o, l, r : Own!BinaryFault(o, l, r) = BinaryFault(o, l, r)
  BY <1>1, SameGroups, SameConstructors DEF Own!BinaryFault, BinaryFault
<1>3. \A o, v : Own!UnaryFault(o, v) = UnaryFault(o, v)
  BY SameConstructors DEF Own!UnaryFault, UnaryFault, Own!Fits, Fits
<1>4. \A o, v : Own!CheckFault(o, v) = CheckFault(o, v)
  BY SameConstructors DEF Own!CheckFault, CheckFault
<1> QED BY <1>2, <1>3, <1>4, SameGroups DEF Own!OperandFault, OperandFault

LEMMA SameResult ==
  /\ \A o, a : Own!Result(o, a) = Result(o, a)
  /\ \A o, v : Own!PeekResult(o, v) = PeekResult(o, v)
<1>1. \A name, l, r : Own!Orders(name, l, r) = Orders(name, l, r)
  BY DEF Own!Orders, Orders
<1>2. \A o, l, r : Own!BinaryResult(o, l, r) = BinaryResult(o, l, r)
  BY <1>1, SameGroups, SameConstructors, SameExact DEF Own!BinaryResult, BinaryResult
<1>3. \A o, v : Own!UnaryResult(o, v) = UnaryResult(o, v)
  BY SameConstructors DEF Own!UnaryResult, UnaryResult
<1>4. \A o, a : Own!MakeResult(o, a) = MakeResult(o, a)
  BY SameConstructors DEF Own!MakeResult, MakeResult
<1>5. \A o, v : Own!PeekResult(o, v) = PeekResult(o, v)
  BY SameConstructors DEF Own!PeekResult, PeekResult
<1> QED BY <1>2, <1>3, <1>4, <1>5, SameGroups DEF Own!Result, Result

-----------------------------------------------------------------------------
(* The parts of the stack.                                                 *)

calls == [i \in 1..Len(frames) |-> Activation(i)]

\* What the machine keeps, and that the parts of its frames are apart: that a frame
\* finds its operands (OperandsThere) does not say it, since that leaves a caller
\* waiting for a value one place more than there is.
ApartInv == IInv /\ LocalsApart

\* The active frame's part, and what the instruction leaves of its operands.
LEMMA ActivePart ==
  ASSUME ApartInv, outcome = Running
  PROVE  /\ Own!me = Activation(Len(frames)) /\ Own!me.chunk = top.chunk /\ Own!me.ip = top.ip
         /\ Own!me.locals = SubSeq(stack, top.base + 1, top.base + top.local_count)
         /\ Own!me.operands = SubSeq(stack, top.base + top.local_count + 1, Len(stack))
         /\ Own!op = op
         /\ Own!Left = SubSeq(stack, top.base + top.local_count + 1, Len(Rest))
         /\ Own!Taken = Args
<1> DEFINE b == top.base + top.local_count
           k == Operands(op)
           m == Len(stack)
<1>1. Len(frames) \in Nat \ {0} /\ Len(frames) \in 1..Len(frames)
  BY AtInstruction DEF ApartInv
<1>2. Len(calls) = Len(frames)
  BY <1>1, FunctionSequence DEF calls
<1>3. Own!me = Activation(Len(frames))
  BY <1>1, <1>2 DEF Own!me, calls
<1>4. /\ Own!me.chunk = top.chunk /\ Own!me.ip = top.ip
      /\ Own!me.locals = SubSeq(stack, top.base + 1, top.base + top.local_count)
      /\ Own!me.operands = SubSeq(stack, b + 1, m)
  BY <1>3 DEF Activation, End, top
<1>5. Own!op = op
  BY <1>4 DEF Own!op, op, ops
<1>6. Own!Operands(Own!op) = k
  BY <1>5, SameOperands
<1>7. /\ IsSequence(stack) /\ m \in Nat /\ k \in Nat /\ b \in Nat
      /\ b <= m - k
  <2>1. /\ k \in Nat /\ d[top.ip] \in Nat /\ k <= d[top.ip]
        /\ IsSequence(stack) /\ m \in Nat /\ b + d[top.ip] <= m
    BY AtOperands DEF ApartInv
  <2>2. top.base \in Nat /\ top.local_count \in Nat
    BY AtInstruction DEF ApartInv
  <2>3. b \in Nat
    BY <2>2
  <2> HIDE DEF b, k, m
  <2> QED BY <2>1, <2>3
<1>8. Len(Rest) = m - k
  BY RestKeepsLocals DEF ApartInv
<1> DEFINE mine == SubSeq(stack, b + 1, m)
<1> HIDE DEF b, k, m
<1>9. /\ IsSequence(mine) /\ Len(mine) = m - b
      /\ \A i \in 1..(m - b) : mine[i] = stack[b + i]
  BY <1>7, Slice, SMTT(30) DEF m
<1> HIDE DEF mine
<1>10. Own!Left = SubSeq(mine, 0 + 1, m - b - k) /\ Own!Taken = SubSeq(mine, m - b - k + 1, m - b)
  <2>1. Own!me.operands = mine
    BY <1>4 DEF mine
  <2>2. Own!Left = SubSeq(mine, 1, Len(mine) - k) /\ Own!Taken = SubSeq(mine, Len(mine) - k + 1, Len(mine))
    BY <1>6, <2>1 DEF Own!Left, Own!Taken
  <2>3. 0 + 1 = 1
    OBVIOUS
  <2> QED BY <1>9, <2>2, <2>3
<1>11. 0 \in Nat /\ m - b - k \in Nat /\ m - b \in Nat /\ m - k \in Nat /\ 0 <= m - b - k /\ m - b - k <= m - b
       /\ b <= m - k /\ m - k <= m
  BY <1>7
<1>12. Own!Left = SubSeq(stack, b + 1, m - k)
  <2>1. /\ IsSequence(Own!Left) /\ Len(Own!Left) = m - b - k
        /\ \A i \in 1..(m - b - k) : Own!Left[i] = mine[i]
    <3> DEFINE e == m - b - k
    <3>1. e \in Nat /\ 0 \in Nat /\ 0 <= e /\ e <= Len(mine)
      BY <1>9, <1>11
    <3> HIDE DEF e
    <3>2. /\ IsSequence(SubSeq(mine, 0 + 1, e)) /\ Len(SubSeq(mine, 0 + 1, e)) = e - 0
          /\ \A i \in 1..(e - 0) : SubSeq(mine, 0 + 1, e)[i] = mine[0 + i]
      BY <1>9, <3>1, Slice
    <3>3. e - 0 = e /\ \A i \in 1..e : 0 + i = i
      BY <3>1
    <3>4. Own!Left = SubSeq(mine, 0 + 1, e)
      BY <1>10 DEF e
    <3>5. \A i \in 1..e : Own!Left[i] = mine[i]
      BY <3>2, <3>3, <3>4
    <3>6. IsSequence(Own!Left) /\ Len(Own!Left) = e
      BY <3>2, <3>3, <3>4
    <3> QED BY <3>5, <3>6 DEF e
  <2> DEFINE e == m - k
  <2>2. e \in Nat /\ b <= e /\ e <= Len(stack)
    BY <1>11 DEF m
  <2> HIDE DEF e
  <2>3. /\ IsSequence(SubSeq(stack, b + 1, e)) /\ Len(SubSeq(stack, b + 1, e)) = e - b
        /\ \A i \in 1..(e - b) : SubSeq(stack, b + 1, e)[i] = stack[b + i]
    BY <1>7, <2>2, Slice
  <2>4. e - b = m - b - k /\ \A i \in 1..(e - b) : i \in 1..(m - b)
    BY <1>7 DEF e
  <2> DEFINE t == SubSeq(stack, b + 1, e)
  <2> HIDE DEF t
  <2>5. Len(Own!Left) = Len(t) /\ \A i \in 1..Len(Own!Left) : Own!Left[i] = t[i]
    BY <1>9, <2>1, <2>3, <2>4 DEF t
  <2>6. Own!Left = t
    BY <2>1, <2>3, <2>5, SameSequence DEF t
  <2> QED BY <2>6 DEF e, t
<1>13. Own!Taken = Args
  <2> DEFINE a == m - b - k
             e == m - b
  <2>1. a \in Nat /\ e \in Nat /\ a <= e /\ e <= Len(mine) /\ e - a = k
    BY <1>7, <1>9, <1>11
  <2>2. \A i \in 1..k : b + (a + i) = m - k + i /\ a + i \in 1..(m - b)
    BY <1>7, <1>11
  <2>3. Own!Taken = SubSeq(mine, a + 1, e)
    BY <1>10
  <2> HIDE DEF a, e
  <2>4. /\ IsSequence(Own!Taken) /\ Len(Own!Taken) = e - a
        /\ \A i \in 1..(e - a) : Own!Taken[i] = mine[a + i]
    BY Zenon, <1>9, <2>1, <2>3, Slice
  <2>5. \A i \in 1..k : Own!Taken[i] = stack[m - k + i]
    BY <1>9, <2>1, <2>2, <2>4
  <2>6. \A i \in 1..k : Args[i] = stack[m - k + i]
    BY ArgsAre DEF ApartInv, k, m
  <2>7. IsSequence(Args) /\ Len(Args) = k
    <3>1. CASE k = 0
      <4>1. m - k = m /\ m <= m
        BY <1>7, <3>1
      <4>2. Args = SubSeq(stack, m + 1, m)
        BY <4>1 DEF Args, k, m
      <4>3. Args = <<>>
        BY <1>7, <4>1, <4>2, EmptySlice
      <4> QED BY <3>1, <4>3, EmptySeq, SequenceOver
    <3>2. CASE k # 0
      BY <1>7, <3>2, ArgsSequence DEF ApartInv, k
    <3> QED BY <3>1, <3>2
  <2> QED BY <2>1, <2>4, <2>5, <2>6, <2>7, SameSequence
<1> QED BY <1>3, <1>4, <1>5, <1>8, <1>12, <1>13 DEF b, m

\* The errors an instruction may meet are the same.
LEMMA SameErrors ==
  ASSUME ApartInv, outcome = Running
  PROVE  Own!Fault = Fault
<1>1. Own!op = op /\ Own!Taken = Args
  BY ActivePart
<1>2. Fault = IF op.op = "Call" THEN CallFault(Args[1]) ELSE OperandFault(op, Args)
  BY FaultIs DEF ApartInv
<1>3. \A v : Own!CallFault(v) = CallFault(v)
  BY SameConstructors DEF Own!CallFault, CallFault, Own!Named, Named, Chunks
<1> QED BY <1>1, <1>2, <1>3, SameFault DEF Own!Fault

\* Nor do the instructions executed differ.
LEMMA SameExecution ==
  ASSUME ApartInv, NEW group
  PROVE  Executes(group) => Own!Executes(group)
BY ActivePart, SameErrors DEF Executes, Own!Executes, Running, Own!Running

-----------------------------------------------------------------------------
(* What a step leaves of the parts of the stack.                           *)

\* A sequence of frames, the parts of which are known to be apart.
LEMMA FramesApart ==
  ASSUME ApartInv, outcome = Running
  PROVE  /\ Len(frames) \in Nat \ {0} /\ IsSequence(frames) /\ DOMAIN frames = 1..Len(frames)
         /\ \A i \in 1..Len(frames) : /\ frames[i].base \in Nat /\ frames[i].local_count \in Nat
                                      /\ frames[i] \in [chunk : Chunks, ip : Nat \ {0}, base : Nat, local_count : Nat]
         /\ \A i \in 1..(Len(frames) - 1) :
              /\ i \in 1..Len(frames) /\ i + 1 \in 1..Len(frames)
              /\ frames[i].base + frames[i].local_count <= End(i) /\ End(i) <= top.base /\ End(i) \in Nat
<1> DEFINE n == Len(frames)
           F == [chunk : Chunks, ip : Nat \ {0}, base : Nat, local_count : Nat]
<1>1. n \in Nat \ {0} /\ frames \in Seq(F)
  BY AtInstruction DEF ApartInv, IInv, TypeOK
<1>2. DOMAIN frames = 1..n /\ \A i \in 1..n : frames[i] \in F
  <2> HIDE DEF F
  <2> QED BY <1>1, LenProperties, ElementOfSeq
<1>3. IsSequence(frames)
  BY <1>1, SequenceOver
<1>4. \A i \in 1..n : frames[i].base \in Nat /\ frames[i].local_count \in Nat
  BY <1>2
<1> HIDE DEF F
<1>5. ASSUME NEW i \in 1..(n - 1)
      PROVE  /\ i \in 1..n /\ i + 1 \in 1..n
             /\ frames[i].base + frames[i].local_count <= End(i) /\ End(i) <= top.base /\ End(i) \in Nat
  <2>1. i \in 1..n /\ i + 1 \in 1..n /\ i # n /\ i < i + 1 /\ n \in 1..n
    BY <1>1
  <2>2. End(i) = frames[i + 1].base
    BY <2>1 DEF End
  <2>3. frames[i].base + frames[i].local_count <= frames[i + 1].base
    BY <2>1 DEF ApartInv, LocalsApart
  <2>4. frames[i + 1].base <= top.base
    <3>1. CASE i + 1 = n
      BY <1>4, <2>1, <3>1 DEF top
    <3>2. CASE i + 1 # n
      <4>1. i + 1 < n
        BY <1>1, <2>1, <3>2
      <4>2. frames[i + 1].base + frames[i + 1].local_count <= frames[n].base
        BY <2>1, <4>1 DEF ApartInv, LocalsApart
      <4> QED BY <1>4, <2>1, <4>2 DEF top
    <3> QED BY <3>1, <3>2
  <2> QED BY <1>4, <2>1, <2>2, <2>3, <2>4
<1> QED BY <1>1, <1>2, <1>3, <1>4, <1>5 DEF F

\* A call that waits keeps its locals and operands.
LEMMA Waiting ==
  ASSUME ApartInv, outcome = Running, IsSequence(stack'), BelowBaseUnchanged,
         NEW i \in 1..(Len(frames) - 1), frames'[i] = frames[i], End(i)' = End(i)
  PROVE  Activation(i)' = Activation(i)
<1> DEFINE a == frames[i].base
           b == frames[i].base + frames[i].local_count
           e == End(i)
<1>1. /\ a \in Nat /\ b \in Nat /\ a <= b /\ b <= e /\ e <= top.base /\ e \in Nat /\ i \in 1..Len(frames)
  <2>1. /\ frames[i].base \in Nat /\ frames[i].local_count \in Nat /\ b <= e /\ e <= top.base /\ e \in Nat
        /\ i \in 1..Len(frames)
    BY FramesApart
  <2> QED BY <2>1
<1>2. /\ IsSequence(stack) /\ Len(stack) \in Nat /\ Len(stack') \in Nat /\ top.base \in Nat
      /\ top.base <= Len(stack) /\ top.base <= Len(stack')
      /\ \A j \in 1..top.base : stack[j] = stack'[j]
  <2>1. IsSequence(stack) /\ Len(stack) \in Nat /\ top.base \in Nat
    BY AtOperands, AtInstruction DEF ApartInv
  <2>2. Len(stack') \in Nat
    BY SequenceOver DEF IsSequence
  <2>3. \A j \in 1..top.base : j <= Len(stack) /\ j <= Len(stack') /\ stack'[j] = stack[j]
    BY DEF BelowBaseUnchanged
  <2>4. top.base = 0 \/ top.base \in 1..top.base
    BY <2>1
  <2> QED BY <2>1, <2>2, <2>3, <2>4
<1> HIDE DEF a, b, e
<1>3. /\ \A j \in 1..b : stack[j] = stack'[j]
      /\ \A j \in 1..e : stack[j] = stack'[j]
      /\ b <= Len(stack) /\ b <= Len(stack') /\ e <= Len(stack) /\ e <= Len(stack')
  BY <1>1, <1>2
<1>4. SubSeq(stack, a + 1, b) = SubSeq(stack', a + 1, b)
  BY <1>1, <1>2, <1>3, SameSlice
<1>5. SubSeq(stack, b + 1, e) = SubSeq(stack', b + 1, e)
  BY <1>1, <1>2, <1>3, SameSlice
<1> QED BY <1>4, <1>5 DEF Activation, a, b, e

\* The calls below the active one, as the abstract specification has them.
LEMMA CallersAre ==
  ASSUME ApartInv, outcome = Running
  PROVE  /\ IsSequence(calls) /\ Len(calls) = Len(frames)
         /\ IsSequence(Own!Callers) /\ Len(Own!Callers) = Len(frames) - 1
         /\ \A i \in 1..(Len(frames) - 1) : Own!Callers[i] = Activation(i)
<1> DEFINE n == Len(frames)
<1>1. n \in Nat \ {0}
  BY AtInstruction DEF ApartInv
<1>2. IsSequence(calls) /\ Len(calls) = n
  BY <1>1, FunctionSequence DEF calls
<1>3. Own!Callers = SubSeq(calls, 1, n - 1)
  BY <1>2 DEF Own!Callers, calls
<1>4. n - 1 \in 0..Len(calls) /\ \A i \in 1..(n - 1) : i \in 1..n
  BY <1>1, <1>2
<1>5. /\ IsSequence(SubSeq(calls, 1, n - 1)) /\ Len(SubSeq(calls, 1, n - 1)) = n - 1
      /\ \A i \in 1..(n - 1) : SubSeq(calls, 1, n - 1)[i] = calls[i]
  BY <1>2, <1>4, PrefixSequence
<1> QED BY <1>2, <1>3, <1>4, <1>5 DEF calls

\* A step within the active frame that changes nothing below it.
LEMMA GoesOnInFrame ==
  ASSUME ApartInv, outcome = Running, IsSequence(stack'), BelowBaseUnchanged,
         NEW i, GoTo(i)
  PROVE  Own!GoesOn(i, SubSeq(stack', top.base + 1, top.base + top.local_count),
                       SubSeq(stack', top.base + top.local_count + 1, Len(stack')))
<1> DEFINE n == Len(frames)
           now == Own!Gone(i, SubSeq(stack', top.base + 1, top.base + top.local_count),
                              SubSeq(stack', top.base + top.local_count + 1, Len(stack')))
           m == n - 1
<1>1. n \in Nat \ {0} /\ IsSequence(frames) /\ DOMAIN frames = 1..n /\ top = frames[n]
  BY FramesApart DEF top
<1>2. frames' = [frames EXCEPT ![n] = [top EXCEPT !.ip = i]]
  BY DEF GoTo, top
<1>3. /\ Len(frames') = n
      /\ \A j \in 1..m : j \in 1..n /\ j # n /\ j + 1 \in 1..n /\ frames'[j] = frames[j]
      /\ frames'[n] = [top EXCEPT !.ip = i]
  <2>1. frames \in Seq({frames[j] : j \in DOMAIN frames})
    BY <1>1 DEF IsSequence
  <2>2. DOMAIN frames' = 1..n /\ frames' = [j \in 1..n |-> frames'[j]]
    BY <1>1, <1>2
  <2>3. Len(frames') = n
    BY <1>1, <2>2, FunctionSequence
  <2>4. n \in 1..n /\ \A j \in 1..m : j \in 1..n /\ j # n /\ j + 1 \in 1..n
    <3>1. n \in Nat \ {0}
      BY <1>1
    <3> HIDE DEF n
    <3> QED BY <3>1
  <2> QED BY <1>1, <1>2, <2>3, <2>4
<1>4. frames'[n].base = top.base /\ frames'[n].local_count = top.local_count /\ frames'[n].chunk = top.chunk
      /\ frames'[n].ip = i
  <2>1. top \in [chunk : Chunks, ip : Nat \ {0}, base : Nat, local_count : Nat]
    BY AtInstruction DEF ApartInv
  <2> QED BY <1>3, <2>1
<1>5. ASSUME NEW j \in 1..m PROVE Activation(j)' = Activation(j)
  <2>1. End(j)' = End(j)
    <3>1. End(j)' = frames'[j + 1].base /\ End(j) = frames[j + 1].base
      BY <1>3 DEF End
    <3>2. CASE j + 1 = n
      BY <1>1, <1>4, <3>1, <3>2
    <3>3. CASE j + 1 # n
      <4>1. j + 1 \in 1..m
        <5>1. n \in Nat \ {0} /\ j + 1 # n
          BY Zenon, <1>1, <3>3
        <5> HIDE DEF n
        <5> QED BY <5>1
      <4> QED BY <1>3, <3>1, <4>1
    <3> QED BY <3>2, <3>3
  <2> QED BY <1>3, <2>1, Waiting
<1>6. ASSUME NEW j, j = n PROVE Activation(j)' = now
  <2>1. Own!me.chunk = top.chunk
    BY ActivePart
  <2>2. End(j)' = Len(stack')
    BY <1>3, <1>6 DEF End
  <2>3. frames'[j].base = top.base /\ frames'[j].local_count = top.local_count /\ frames'[j].chunk = top.chunk
        /\ frames'[j].ip = i
    BY <1>4, <1>6
  <2> QED BY <2>1, <2>2, <2>3 DEF Activation, Own!Gone
<1>7. /\ IsSequence(Own!Callers) /\ Len(Own!Callers) = m
      /\ \A j \in 1..m : Own!Callers[j] = Activation(j)
  BY CallersAre
<1> DEFINE then == Append(Own!Callers, now)
<1> HIDE DEF now, then
<1>8. /\ IsSequence(then) /\ Len(then) = m + 1 /\ then[m + 1] = now
      /\ \A j \in 1..m : then[j] = Activation(j)
  <2>1. /\ IsSequence(then) /\ Len(then) = Len(Own!Callers) + 1
        /\ \A j \in 1..Len(Own!Callers) : then[j] = Own!Callers[j]
    BY <1>7, AppendSequence DEF then
  <2>2. then[Len(Own!Callers) + 1] = now
    BY <1>7, AppendProperties DEF IsSequence, then
  <2> QED BY <1>7, <2>1, <2>2
<1>9. calls' = [j \in 1..n |-> calls'[j]] /\ \A j \in 1..n : calls'[j] = Activation(j)'
  BY <1>3 DEF calls
<1>10. IsSequence(calls') /\ Len(calls') = n
  BY <1>1, <1>9, FunctionSequence
<1>11. \A j \in 1..n : calls'[j] = then[j]
  <2>1. m + 1 = n /\ n \in 1..n /\ \A j \in 1..n : j = n \/ j \in 1..m
    <3>1. n \in Nat \ {0}
      BY <1>1
    <3> HIDE DEF n
    <3> QED BY <3>1
  <2>2. ASSUME NEW j, j = n PROVE calls'[j] = then[j]
    BY <1>6, <1>8, <1>9, <2>1, <2>2
  <2>3. \A j \in 1..m : calls'[j] = then[j]
    BY <1>3, <1>5, <1>8, <1>9
  <2> QED BY Zenon, <2>1, <2>2, <2>3
<1>12. calls' = then
  <2>1. m + 1 = n
    BY <1>1
  <2> QED BY <1>8, <1>10, <1>11, <2>1, SameSequence
<1> QED BY <1>12 DEF Own!GoesOn, calls, now, then

\* What is left of the stack holds the locals, and the rest of the operands.
LEMMA RestParts ==
  ASSUME ApartInv, outcome = Running
  PROVE  /\ IsSequence(Rest) /\ Len(Rest) \in Nat /\ Len(Rest) <= Len(stack)
         /\ top.base \in Nat /\ top.base + top.local_count \in Nat
         /\ top.base <= top.base + top.local_count
         /\ top.base + top.local_count <= Len(Rest)
         /\ SubSeq(Rest, top.base + 1, top.base + top.local_count) = Own!me.locals
         /\ SubSeq(Rest, top.base + top.local_count + 1, Len(Rest)) = Own!Left
<1> DEFINE a == top.base
           b == top.base + top.local_count
           e == Len(Rest)
<1>1. a \in Nat /\ b \in Nat /\ a <= b /\ IsSequence(stack) /\ Len(stack) \in Nat
  <2>1. top.base \in Nat /\ top.local_count \in Nat
    BY AtInstruction DEF ApartInv
  <2> QED BY <2>1, AtOperands DEF ApartInv
<1>2. /\ IsSequence(Rest) /\ e \in Nat /\ b <= e /\ e <= Len(stack)
      /\ \A i \in 1..e : Rest[i] = stack[i]
  <2>1. Operands(op) \in Nat /\ Len(stack) \in Nat
    BY AtOperands DEF ApartInv
  <2> QED BY <2>1, RestKeepsLocals DEF ApartInv
<1>3. /\ Own!me.locals = SubSeq(stack, a + 1, b)
      /\ Own!Left = SubSeq(stack, b + 1, e)
  BY ActivePart
<1> HIDE DEF a, b
<1>4. /\ b <= Len(stack) /\ b <= Len(Rest) /\ e <= Len(Rest)
      /\ \A i \in 1..b : Rest[i] = stack[i]
  BY <1>1, <1>2
<1>5. SubSeq(Rest, a + 1, b) = SubSeq(stack, a + 1, b)
  BY <1>1, <1>2, <1>4, SameSlice
<1> HIDE DEF e
<1>6. SubSeq(Rest, b + 1, e) = SubSeq(stack, b + 1, e)
  BY <1>1, <1>2, <1>4, SameSlice
<1> QED BY <1>1, <1>2, <1>3, <1>4, <1>5, <1>6 DEF a, b, e

\* The first values of a sequence that was appended to.
LEMMA SliceBeforeAppend ==
  ASSUME NEW s, IsSequence(s), NEW v, NEW a \in Nat, NEW b \in Nat, a <= b, b <= Len(s)
  PROVE  SubSeq(Append(s, v), a + 1, b) = SubSeq(s, a + 1, b)
<1> DEFINE t == Append(s, v)
<1>1. /\ IsSequence(t) /\ Len(t) = Len(s) + 1 /\ \A i \in 1..Len(s) : t[i] = s[i]
  BY AppendSequence
<1>2. Len(s) \in Nat
  BY SequenceOver DEF IsSequence
<1> HIDE DEF t
<1>3. b <= Len(t) /\ \A i \in 1..b : t[i] = s[i]
  BY <1>1, <1>2
<1>4. SubSeq(t, a + 1, b) = SubSeq(s, a + 1, b)
  BY <1>1, <1>3, SameSlice
<1> QED BY <1>4 DEF t

\* A push on what the instruction leaves.
LEMMA PushInFrame ==
  ASSUME ApartInv, outcome = Running, NEW v, stack' = Append(Rest, v), Proceed
  PROVE  Own!Push(v)
<1> DEFINE a == top.base
           b == top.base + top.local_count
<1>1. /\ IsSequence(Rest) /\ Len(Rest) \in Nat /\ a \in Nat /\ b \in Nat /\ a <= b /\ b <= Len(Rest)
      /\ SubSeq(Rest, a + 1, b) = Own!me.locals
      /\ SubSeq(Rest, b + 1, Len(Rest)) = Own!Left
  BY RestParts
<1>2. IsSequence(stack') /\ BelowBaseUnchanged
  BY PushKeeps DEF ApartInv
<1>3. Own!GoesOn(top.ip + 1, SubSeq(stack', a + 1, b), SubSeq(stack', b + 1, Len(stack')))
  BY <1>2, GoesOnInFrame DEF Proceed
<1>4. Len(stack') = Len(Rest) + 1
  BY <1>1, AppendSequence
<1> HIDE DEF a, b
<1>5. SubSeq(stack', a + 1, b) = Own!me.locals
  BY <1>1, SliceBeforeAppend
<1>6. SubSeq(stack', b + 1, Len(stack')) = Append(Own!Left, v)
  BY <1>1, <1>4, SliceOfAppend
<1>7. Own!me.ip = top.ip
  BY ActivePart
<1> QED BY <1>3, <1>5, <1>6, <1>7 DEF Own!Push

\* An instruction that only takes its operands.
LEMMA DropInFrame ==
  ASSUME ApartInv, outcome = Running, stack' = Rest, NEW i, GoTo(i)
  PROVE  Own!GoesOn(i, Own!me.locals, Own!Left)
<1>1. IsSequence(stack') /\ BelowBaseUnchanged
  BY RestKeeps DEF ApartInv
<1> QED BY <1>1, GoesOnInFrame, RestParts

\* One that takes nothing and pushes a value.
LEMMA PeekInFrame ==
  ASSUME ApartInv, outcome = Running, NEW v, stack' = Append(stack, v), Proceed
  PROVE  Own!GoesOn(Own!me.ip + 1, Own!me.locals, Append(Own!me.operands, v))
<1> DEFINE a == top.base
           b == top.base + top.local_count
<1>1. /\ IsSequence(stack) /\ Len(stack) \in Nat /\ a \in Nat /\ b \in Nat /\ a <= b /\ b <= Len(stack)
      /\ SubSeq(stack, a + 1, b) = Own!me.locals
      /\ SubSeq(stack, b + 1, Len(stack)) = Own!me.operands
      /\ Own!me.ip = top.ip
  <2>1. /\ a \in Nat /\ b \in Nat /\ a <= b /\ b <= Len(Rest) /\ Len(Rest) \in Nat /\ Len(Rest) <= Len(stack)
    BY RestParts
  <2>2. IsSequence(stack) /\ Len(stack) \in Nat
    BY AtOperands DEF ApartInv
  <2>3. b <= Len(stack)
    <3> HIDE DEF b
    <3> QED BY <2>1, <2>2
  <2> QED BY <2>1, <2>2, <2>3, ActivePart
<1>2. IsSequence(stack') /\ BelowBaseUnchanged /\ Len(stack') = Len(stack) + 1
  BY PeekKeeps DEF ApartInv
<1>3. Own!GoesOn(top.ip + 1, SubSeq(stack', a + 1, b), SubSeq(stack', b + 1, Len(stack')))
  BY <1>2, GoesOnInFrame DEF Proceed
<1> HIDE DEF a, b
<1>4. SubSeq(stack', a + 1, b) = Own!me.locals
  BY <1>1, SliceBeforeAppend
<1>5. SubSeq(stack', b + 1, Len(stack')) = Append(Own!me.operands, v)
  BY <1>1, <1>2, SliceOfAppend
<1> QED BY <1>1, <1>3, <1>4, <1>5

\* A store changes one local.
LEMMA StoreInFrame ==
  ASSUME ApartInv, StoreLocal
  PROVE  Own!GoesOn(Own!me.ip + 1, [Own!me.locals EXCEPT ![Own!op.arg + 1] = Own!Taken[1]], Own!Left)
<1> DEFINE a == top.base
           b == top.base + top.local_count
           slot == top.base + op.arg + 1
           m == Len(Rest)
           size == IF m < slot THEN slot ELSE m
<1>1. /\ outcome = Running /\ op.op = "StoreLocal"
      /\ stack' = [i \in 1..size |-> IF i = slot THEN Args[1]
                                     ELSE IF i <= m THEN Rest[i] ELSE Void]
      /\ Proceed
  BY DEF StoreLocal, Executes
<1>2. /\ IsSequence(Rest) /\ m \in Nat /\ a \in Nat /\ b \in Nat /\ a <= b /\ b <= m
      /\ SubSeq(Rest, a + 1, b) = Own!me.locals
      /\ SubSeq(Rest, b + 1, m) = Own!Left
  BY <1>1, RestParts
<1>3. /\ op.arg \in 0..(top.local_count - 1) /\ top.local_count \in Nat
  BY <1>1, AtOperands, AtInstruction DEF ApartInv
<1>4. slot \in (a + 1)..b /\ slot = a + (op.arg + 1) /\ op.arg + 1 \in 1..(b - a)
  <2> DEFINE x == op.arg
             n == top.local_count
  <2>1. x \in 0..(n - 1) /\ n \in Nat /\ a \in Nat /\ b = a + n /\ slot = a + x + 1
    BY <1>2, <1>3
  <2> HIDE DEF a, b, slot, x, n
  <2>2. slot \in (a + 1)..b /\ slot = a + (x + 1) /\ x + 1 \in 1..(b - a)
    BY <2>1
  <2> QED BY <2>2 DEF x
<1>5. Own!op = op /\ Own!Taken = Args /\ Own!me.ip = top.ip
  BY <1>1, ActivePart
<1>6. BelowBaseUnchanged
  BY StoreStep DEF ApartInv
<1> HIDE DEF a, b, slot
<1>7. size = m
  BY <1>2, <1>4
<1> HIDE DEF size
<1>8. IsSequence(stack') /\ Len(stack') = m
  BY <1>1, <1>2, <1>7, FunctionSequence
<1>9. \A i \in 1..m : stack'[i] = IF i = slot THEN Args[1] ELSE Rest[i]
  BY <1>1, <1>7
<1>10. Own!GoesOn(top.ip + 1, SubSeq(stack', a + 1, b), SubSeq(stack', b + 1, Len(stack')))
  BY <1>1, <1>6, <1>8, GoesOnInFrame DEF Proceed, a, b
<1> HIDE DEF m
<1>11. SubSeq(stack', b + 1, Len(stack')) = Own!Left
  <2> DEFINE x == SubSeq(stack', b + 1, m)
             y == SubSeq(Rest, b + 1, m)
  <2>1. /\ IsSequence(x) /\ Len(x) = m - b /\ \A i \in 1..(m - b) : x[i] = stack'[b + i]
    BY <1>2, <1>8, Slice
  <2>2. /\ IsSequence(y) /\ Len(y) = m - b /\ \A i \in 1..(m - b) : y[i] = Rest[b + i]
    BY <1>2, Slice DEF m
  <2> HIDE DEF x, y
  <2>3. ASSUME NEW i \in 1..(m - b) PROVE x[i] = y[i]
    <3>1. b + i \in 1..m /\ b + i # slot
      BY <1>2, <1>4
    <3> QED BY <1>9, <2>1, <2>2, <3>1
  <2>4. x = y
    BY <2>1, <2>2, <2>3, SameSequence
  <2> QED BY <1>2, <1>8, <2>4 DEF x, y
<1>12. SubSeq(stack', a + 1, b) = [Own!me.locals EXCEPT ![op.arg + 1] = Args[1]]
  <2> DEFINE x == SubSeq(stack', a + 1, b)
             y == SubSeq(Rest, a + 1, b)
             z == [y EXCEPT ![op.arg + 1] = Args[1]]
  <2>1. /\ IsSequence(x) /\ Len(x) = b - a /\ \A i \in 1..(b - a) : x[i] = stack'[a + i]
    BY <1>2, <1>8, Slice
  <2>2. /\ IsSequence(y) /\ Len(y) = b - a /\ \A i \in 1..(b - a) : y[i] = Rest[a + i]
    BY <1>2, Slice DEF m
  <2> HIDE DEF x, y
  <2>3. DOMAIN y = 1..(b - a)
    BY <2>2, SequenceOver DEF IsSequence
  <2>4. z = [i \in 1..(b - a) |-> z[i]]
    BY <2>3
  <2>5. b - a \in Nat
    BY <1>2
  <2>6. IsSequence(z) /\ Len(z) = b - a
    BY <2>4, <2>5, FunctionSequence
  <2>7. ASSUME NEW i \in 1..(b - a) PROVE x[i] = z[i]
    <3>1. a + i \in 1..m /\ (a + i = slot <=> i = op.arg + 1)
      <4> DEFINE k == op.arg + 1
      <4>1. k \in 1..(b - a) /\ slot = a + k
        BY <1>4
      <4> HIDE DEF k
      <4>2. a + i \in 1..m /\ (a + i = slot <=> i = k)
        BY <1>2, <4>1
      <4> QED BY <4>2 DEF k
    <3>2. x[i] = IF i = op.arg + 1 THEN Args[1] ELSE y[i]
      BY <1>9, <2>1, <2>2, <3>1
    <3>3. z[i] = IF i = op.arg + 1 THEN Args[1] ELSE y[i]
      BY <2>3
    <3> QED BY <3>2, <3>3
  <2> HIDE DEF z
  <2>8. x = z
    BY <2>1, <2>6, <2>7, SameSequence
  <2> QED BY <1>2, <2>8 DEF x, y, z
<1> QED BY <1>5, <1>10, <1>11, <1>12

\* What a call puts on the stack: the arguments that have a place among the
\* locals, the other locals, and the arguments that have none.
Missing(args, n) == IF Len(args) < n THEN n - Len(args) ELSE 0
Filled(args, n) == [i \in 1..n |-> IF i <= Len(args) THEN args[i] ELSE Void]
WithLocals(s, args, n) == s \o args \o Voids(Missing(args, n))
Piece(s, a, b) == SubSeq(s, a + 1, b)
LEMMA NewPart ==
  ASSUME NEW s, IsSequence(s), NEW args, IsSequence(args), NEW n \in Nat,
         NEW whole, whole = WithLocals(s, args, n), NEW end, end = Len(s) + n
  PROVE  /\ Missing(args, n) \in Nat /\ Len(s) \in Nat /\ Len(args) \in Nat
         /\ IsSequence(whole)
         /\ Len(whole) = Len(s) + Len(args) + Missing(args, n)
         /\ \A i \in 1..Len(s) : WithLocals(s, args, n)[i] = s[i]
         /\ Piece(whole, Len(s), end) = Filled(args, n)
         /\ Piece(whole, end, Len(whole)) = Piece(args, n, Len(args))
<1> DEFINE both == s \o args
           m == Len(s)
           k == Len(args)
           new == [i \in 1..n |-> IF i <= k THEN args[i] ELSE Void]
           t == whole
           fill == Missing(args, n)
<1>1. m \in Nat /\ k \in Nat /\ fill \in Nat
  BY SequenceOver DEF IsSequence, Missing
<1>2. t = both \o Voids(fill)
  BY DEF WithLocals
<1>3. fill = IF k < n THEN n - k ELSE 0
  BY DEF Missing
<1> HIDE DEF t, fill
<1>4. IsSequence(both) /\ Len(both) = m + k
      /\ \A i \in 1..m : both[i] = s[i]
  BY ConcatSequence
<1>5. \A i \in 1..k : both[m + i] = args[i]
  BY LaterElement
<1>6. IsSequence(Voids(fill)) /\ Len(Voids(fill)) = fill /\ \A i \in 1..fill : Voids(fill)[i] = Void
  BY <1>1, VoidsSequence DEF Voids
<1> HIDE DEF both
<1>7. IsSequence(t) /\ Len(t) = m + k + fill
      /\ \A i \in 1..(m + k) : t[i] = both[i]
  <2>1. /\ IsSequence(t) /\ Len(t) = Len(both) + Len(Voids(fill))
        /\ \A i \in 1..Len(both) : t[i] = both[i]
    BY <1>4, <1>6, <1>2, ConcatSequence
  <2> QED BY <1>4, <1>6, <2>1
<1>8. \A i \in 1..fill : t[m + k + i] = Void
  BY SMTT(30), <1>4, <1>6, <1>2, LaterElement
<1> HIDE DEF m, k
<1>9. \A i \in 1..m : t[i] = s[i]
  <2>1. \A i \in 1..m : i \in 1..(m + k)
    BY <1>1
  <2> QED BY <1>4, <1>7, <2>1
<1>10. \A i \in 1..k : t[m + i] = args[i]
  <2>1. \A i \in 1..k : m + i \in 1..(m + k)
    BY <1>1
  <2> QED BY <1>5, <1>7, <2>1
<1>11. IsSequence(new) /\ Len(new) = n
  <2>1. new = [i \in 1..n |-> new[i]]
    OBVIOUS
  <2> HIDE DEF new
  <2> QED BY <2>1, FunctionSequence
<1>12. SubSeq(t, m + 1, m + n) = new
  <2> DEFINE e == m + n
             x == SubSeq(t, m + 1, e)
  <2>1. e \in Nat /\ m <= e /\ e <= m + k + fill /\ e - m = n
    BY <1>1, <1>3
  <2> HIDE DEF e
  <2>6. IsSequence(t) /\ e <= Len(t) /\ m \in Nat
    BY <1>1, <1>7, <2>1
  <2>2. IsSequence(x) /\ Len(x) = n /\ \A i \in 1..n : x[i] = t[m + i]
    <3>1. IsSequence(x) /\ Len(x) = e - m /\ \A i \in 1..(e - m) : x[i] = t[m + i]
      BY <2>1, <2>6, Slice
    <3> QED BY <2>1, <3>1
  <2>3. ASSUME NEW i \in 1..n PROVE t[m + i] = new[i]
    <3>1. CASE i <= k
      <4>1. i \in 1..k
        BY <3>1
      <4>2. new[i] = args[i]
        BY <3>1
      <4> QED BY <1>10, <4>1, <4>2
    <3>2. CASE ~(i <= k)
      <4> DEFINE j == i - k
      <4>1. j \in 1..fill /\ m + i = m + k + j
        BY <1>1, <1>3, <3>2
      <4>2. new[i] = Void
        BY <3>2
      <4> HIDE DEF j, new
      <4> QED BY <1>8, <4>1, <4>2
    <3> QED BY <3>1, <3>2
  <2> HIDE DEF x, new
  <2>4. Len(x) = Len(new) /\ \A i \in 1..Len(x) : x[i] = new[i]
    BY <1>11, <2>2, <2>3
  <2>5. x = new
    BY <1>11, <2>2, <2>4, SameSequence
  <2> QED BY <2>5 DEF x, e
<1>13. SubSeq(t, m + n + 1, Len(t)) = SubSeq(args, n + 1, k)
  <2> DEFINE a == m + n
             e == Len(t)
             x == SubSeq(t, a + 1, e)
             y == SubSeq(args, n + 1, k)
  <2>1. a \in Nat /\ e \in Nat /\ e = m + k + fill
    <3>1. e = m + k + fill /\ fill \in Nat
      BY <1>1, <1>7
    <3> HIDE DEF e
    <3> QED BY <1>1, <3>1
  <2> HIDE DEF e
  <2>2. CASE k <= n
    <3>1. e <= a
      BY <1>1, <1>3, <2>1, <2>2
    <3> HIDE DEF a
    <3>2. x = <<>>
      BY <2>1, <3>1, EmptySlice
    <3>3. y = <<>>
      BY <1>1, <2>2, EmptySlice
    <3> QED BY <3>2, <3>3 DEF a, e
  <2>3. CASE ~(k <= n)
    <3>1. a <= e /\ e - a = k - n /\ n <= k /\ e = m + k
      BY <1>1, <1>3, <2>1, <2>3
    <3>2. \A i \in 1..(k - n) : n + i \in 1..k /\ a + i = m + (n + i)
      BY <1>1
    <3> HIDE DEF a
    <3>3. IsSequence(x) /\ Len(x) = k - n /\ \A i \in 1..(k - n) : x[i] = t[a + i]
      <4>1. e <= Len(t)
        BY <2>1 DEF e
      <4>2. IsSequence(x) /\ Len(x) = e - a /\ \A i \in 1..(e - a) : x[i] = t[a + i]
        <5>1. IsSequence(t) /\ a \in Nat
          BY <1>7, <2>1
        <5> QED BY <2>1, <3>1, <4>1, <5>1, Slice
      <4> QED BY <3>1, <4>2
    <3>4. IsSequence(y) /\ Len(y) = k - n /\ \A i \in 1..(k - n) : y[i] = args[n + i]
      <4>1. k <= Len(args)
        BY <1>1 DEF k
      <4> QED BY <1>1, <3>1, <4>1, Slice
    <3> HIDE DEF x, y
    <3>5. \A i \in 1..(k - n) : x[i] = y[i]
      BY <1>10, <3>2, <3>3, <3>4
    <3>6. x = y
      BY <3>3, <3>4, <3>5, SameSequence
    <3> QED BY <3>6 DEF x, y, a, e
  <2> QED BY <2>2, <2>3
<1> QED BY <1>1, <1>7, <1>9, <1>12, <1>13 DEF m, k, new, t, fill, Filled, Piece

-----------------------------------------------------------------------------
(* Calls and returns.                                                      *)

\* What a call does, to the frames and to the stack.
LEMMA CallDoes ==
  ASSUME ApartInv, Call
  PROVE  LET n == Len(frames)
             c == Callee(Args[1][2])
             locals == Code[module][c].local_count
         IN  /\ outcome = Running /\ op.op = "Call" /\ locals \in Nat
             /\ module' = module /\ outcome' = outcome /\ effects' = effects
             /\ stack' = WithLocals(Rest, Tail(Args), locals)
             /\ IsSequence(Tail(Args))
             /\ n \in Nat \ {0} /\ IsSequence(frames') /\ Len(frames') = n + 1
             /\ \A i \in 1..(n - 1) : i \in 1..n /\ i # n /\ i + 1 \in 1..n /\ frames'[i] = frames[i]
             /\ frames'[n] = [top EXCEPT !.ip = top.ip + 1]
             /\ frames'[n + 1] = Frame(c, Len(Rest), locals)
<1> DEFINE n == Len(frames)
           c == Callee(Args[1][2])
           locals == Code[module][c].local_count
           called == Frame(c, Len(Rest), locals)
           moved == [frames EXCEPT ![n].ip = top.ip + 1]
<1>1. /\ outcome = Running /\ op.op = "Call" /\ Fault = "none"
      /\ stack' = Rest \o Tail(Args) \o Voids(IF op.n < locals THEN locals - op.n ELSE 0)
      /\ frames' = Append(moved, called)
      /\ module' = module /\ outcome' = outcome /\ effects' = effects
  BY Zenon DEF Call, Executes
<1>2. locals \in Nat
  <2>1. CallFault(Args[1]) = "none"
    BY Zenon, <1>1 DEF Fault
  <2>2. Named(Args[1][2]) # {}
    BY <2>1 DEF CallFault
  <2>3. module \in DOMAIN Code
    BY DEF ApartInv, IInv, TypeOK
  <2>4. c \in Chunks
    BY <2>2, <2>3, CalleeExists, CodeBalanced
  <2> HIDE DEF c
  <2> QED BY <2>3, <2>4, CodeBalanced DEF Chunks
<1>3. IsSequence(Tail(Args)) /\ Len(Tail(Args)) = op.n
  <2>1. op.n \in Nat /\ Operands(op) = op.n + 1
    BY Zenon, <1>1, AtOperands, CountsOf DEF ApartInv
  <2>2. Operands(op) > 0 /\ Operands(op) - 1 = op.n
    BY <2>1
  <2> QED BY Zenon, <1>1, <2>2, ArgsSequence DEF ApartInv
<1>4. stack' = WithLocals(Rest, Tail(Args), locals)
  BY Zenon, <1>1, <1>3 DEF WithLocals, Missing
<1>5. n \in Nat \ {0} /\ IsSequence(frames) /\ DOMAIN frames = 1..n /\ top = frames[n]
  BY Zenon, <1>1, FramesApart DEF top
<1> HIDE DEF n, called, locals, c
<1>6. n \in 1..n /\ \A i \in 1..(n - 1) : i \in 1..n /\ i # n /\ i + 1 \in 1..n
  BY <1>5
<1>7. /\ moved = [i \in 1..n |-> moved[i]]
      /\ moved[n] = [top EXCEPT !.ip = top.ip + 1]
      /\ \A i \in 1..(n - 1) : moved[i] = frames[i]
  BY <1>5, <1>6
<1> HIDE DEF moved
<1>8. IsSequence(moved) /\ Len(moved) = n
  BY <1>5, <1>7, FunctionSequence
<1>9. /\ IsSequence(frames') /\ Len(frames') = n + 1
      /\ \A i \in 1..n : frames'[i] = moved[i]
  BY <1>1, <1>8, AppendSequence
<1>10. frames'[n + 1] = called
  BY <1>1, <1>8, AppendProperties DEF IsSequence
<1> QED BY Zenon, <1>1, <1>2, <1>3, <1>4, <1>5, <1>6, <1>7, <1>9, <1>10 DEF n, called, locals, c

\* A call goes on after its callee has been given a part of its own.
LEMMA CallMoves ==
  ASSUME ApartInv, Call
  PROVE  Own!Call
<1> DEFINE n == Len(frames)
           m == n - 1
           c == Callee(Args[1][2])
           locals == Code[module][c].local_count
           a == top.base
           b == top.base + top.local_count
           e == Len(Rest)
           now == Own!Gone(top.ip + 1, Own!me.locals, Own!Left)
           new == Own!Begun(c, Tail(Args))
<1>1. /\ outcome = Running /\ op.op = "Call" /\ locals \in Nat
      /\ module' = module /\ outcome' = outcome /\ effects' = effects
      /\ stack' = WithLocals(Rest, Tail(Args), locals)
      /\ IsSequence(Tail(Args))
      /\ n \in Nat \ {0} /\ IsSequence(frames') /\ Len(frames') = n + 1
      /\ \A i \in 1..m : i \in 1..n /\ i # n /\ i + 1 \in 1..n /\ frames'[i] = frames[i]
      /\ frames'[n] = [top EXCEPT !.ip = top.ip + 1]
      /\ frames'[n + 1] = Frame(c, e, locals)
  BY CallDoes
<1>2. /\ IsSequence(Rest) /\ e \in Nat /\ a \in Nat /\ b \in Nat /\ a <= b /\ b <= e
      /\ SubSeq(Rest, a + 1, b) = Own!me.locals
      /\ SubSeq(Rest, b + 1, e) = Own!Left
  BY <1>1, RestParts
<1>3. /\ Own!op = op /\ Own!Taken = Args /\ Own!me.ip = top.ip /\ Own!me.chunk = top.chunk
  BY <1>1, ActivePart
<1>4. /\ IsSequence(stack') /\ Len(stack') \in Nat /\ e <= Len(stack')
      /\ \A i \in 1..e : stack'[i] = Rest[i]
      /\ SubSeq(stack', e + 1, e + locals) = Filled(Tail(Args), locals)
      /\ SubSeq(stack', e + locals + 1, Len(stack')) = SubSeq(Tail(Args), locals + 1, Len(Tail(Args)))
  <2> DEFINE args == Tail(Args)
             z == e + locals
             w == stack'
  <2>1. /\ IsSequence(args) /\ w = WithLocals(Rest, args, locals) /\ locals \in Nat
        /\ z = Len(Rest) + locals
    BY <1>1
  <2>2. IsSequence(Rest)
    BY <1>2
  <2> HIDE DEF args, locals, z, w
  <2>3. Missing(args, locals) \in Nat /\ Len(Rest) \in Nat /\ Len(args) \in Nat
    BY <2>1, <2>2, NewPart
  <2>4. IsSequence(w) /\ Len(w) = Len(Rest) + Len(args) + Missing(args, locals)
    BY <2>1, <2>2, NewPart
  <2>5. \A i \in 1..Len(Rest) : w[i] = Rest[i]
    BY <2>1, <2>2, NewPart
  <2>6. Piece(w, Len(Rest), z) = Filled(args, locals)
    BY <2>1, <2>2, NewPart
  <2>7. Piece(w, z, Len(w)) = Piece(args, locals, Len(args))
    BY <2>1, <2>2, NewPart
  <2> HIDE DEF e
  <2>8. Len(w) \in Nat /\ Len(Rest) <= Len(w)
    BY <2>3, <2>4
  <2> QED BY <2>3, <2>4, <2>5, <2>6, <2>7, <2>8 DEF args, e, z, w, Piece
<1>5. BelowBaseUnchanged
  BY CallStep DEF ApartInv
<1>6. ASSUME NEW i \in 1..m PROVE Activation(i)' = Activation(i)
  <2>1. End(i)' = End(i)
    <3>1. n + 1 # i
      BY <1>1
    <3>2. End(i)' = frames'[i + 1].base /\ End(i) = frames[i + 1].base
      BY <1>1, <3>1 DEF End
    <3>3. CASE i + 1 = n
      <4>1. top \in [chunk : Chunks, ip : Nat \ {0}, base : Nat, local_count : Nat] /\ top = frames[n]
        BY <1>1, AtInstruction DEF ApartInv, top
      <4> QED BY SMTT(30), <1>1, <3>2, <3>3, <4>1
    <3>4. CASE i + 1 # n
      <4>1. i + 1 \in 1..m
        <5>1. n \in Nat \ {0}
          BY <1>1
        <5> HIDE DEF n
        <5> QED BY <3>4, <5>1
      <4> QED BY <1>1, <3>2, <4>1
    <3> QED BY <3>3, <3>4
  <2> QED BY Zenon, <1>1, <1>4, <1>5, <2>1, Waiting
<1>7. ASSUME NEW j, j = n PROVE Activation(j)' = now
  <2>1. /\ frames'[j].base = a /\ frames'[j].local_count = top.local_count /\ frames'[j].chunk = top.chunk
        /\ frames'[j].ip = top.ip + 1
    <3>1. top \in [chunk : Chunks, ip : Nat \ {0}, base : Nat, local_count : Nat]
      BY <1>1, AtInstruction DEF ApartInv
    <3> QED BY <1>1, <1>7, <3>1
  <2>2. End(j)' = e
    <3>1. n + 1 # n
      BY <1>1
    <3> QED BY <1>1, <1>7, <3>1 DEF End, Frame
  <2> HIDE DEF a, b, e
  <2>3. /\ IsSequence(Rest) /\ e \in Nat /\ a \in Nat /\ b \in Nat /\ a <= b /\ b <= e
        /\ IsSequence(stack') /\ Len(stack') \in Nat /\ e <= Len(stack')
        /\ \A i \in 1..e : stack'[i] = Rest[i]
    BY Zenon, <1>2, <1>4
  <2>7. e = Len(Rest)
    BY DEF e
  <2>8. b <= Len(stack') /\ b <= Len(Rest) /\ e <= Len(Rest) /\ \A i \in 1..b : i \in 1..e
    BY <2>3, <2>7
  <2>9. SubSeq(stack', a + 1, b) = SubSeq(Rest, a + 1, b)
    BY <2>3, <2>8, SameSlice
  <2>10. SubSeq(stack', b + 1, e) = SubSeq(Rest, b + 1, e)
    BY <2>3, <2>8, SameSlice
  <2>4. SubSeq(stack', a + 1, b) = Own!me.locals
    BY <1>2, <2>9
  <2>5. SubSeq(stack', b + 1, e) = Own!Left
    BY <1>2, <2>10
  <2>6. Activation(j)' = [chunk |-> top.chunk, ip |-> top.ip + 1,
                          locals |-> SubSeq(stack', a + 1, b), operands |-> SubSeq(stack', b + 1, e)]
    BY <2>1, <2>2 DEF Activation, a, b
  <2> QED BY <1>3, <2>4, <2>5, <2>6 DEF Own!Gone
<1>8. ASSUME NEW j, j = n + 1 PROVE Activation(j)' = new
  <2>1. frames'[j].base = e /\ frames'[j].local_count = locals /\ frames'[j].chunk = c /\ frames'[j].ip = 1
    BY <1>1, <1>8 DEF Frame
  <2>2. End(j)' = Len(stack')
    BY <1>1, <1>8 DEF End
  <2>3. Own!Void = Void
    BY SameConstructors
  <2> HIDE DEF c
  <2>4. Activation(j)' = [chunk |-> c, ip |-> 1,
                          locals |-> SubSeq(stack', e + 1, e + locals),
                          operands |-> SubSeq(stack', e + locals + 1, Len(stack'))]
    BY <2>1, <2>2 DEF Activation
  <2> QED BY <1>4, <2>3, <2>4 DEF Own!Begun, Filled
<1>9. /\ IsSequence(Own!Callers) /\ Len(Own!Callers) = m
      /\ \A j \in 1..m : Own!Callers[j] = Activation(j)
  BY <1>1, CallersAre
<1> DEFINE two == <<now, new>>
           then == Own!Callers \o two
<1> HIDE DEF now, new
<1>10. IsSequence(two) /\ Len(two) = 2 /\ two[1] = now /\ two[2] = new
  <2>1. two \in Seq({now, new}) /\ Len(two) = 2 /\ two[1] = now /\ two[2] = new
    OBVIOUS
  <2> QED BY <2>1, SequenceOver
<1> HIDE DEF two
<1>11. /\ IsSequence(then) /\ Len(then) = m + 2
       /\ \A j \in 1..m : then[j] = Activation(j)
       /\ then[m + 1] = now /\ then[m + 2] = new
  <2>1. /\ IsSequence(then) /\ Len(then) = Len(Own!Callers) + Len(two)
        /\ \A j \in 1..Len(Own!Callers) : then[j] = Own!Callers[j]
    BY <1>9, <1>10, ConcatSequence
  <2>2. 1 \in 1..Len(two) /\ 2 \in 1..Len(two)
    BY <1>10
  <2>4. IsSequence(Own!Callers) /\ IsSequence(two)
    BY <1>9, <1>10
  <2>3. then[Len(Own!Callers) + 1] = two[1] /\ then[Len(Own!Callers) + 2] = two[2]
    <3>1. then[Len(Own!Callers) + 1] = two[1]
      BY <2>2, <2>4, LaterElement
    <3>2. then[Len(Own!Callers) + 2] = two[2]
      BY <2>2, <2>4, LaterElement
    <3> QED BY <3>1, <3>2
  <2> QED BY <1>9, <1>10, <2>1, <2>3
<1> HIDE DEF then
<1>12. calls' = [j \in 1..(n + 1) |-> calls'[j]] /\ \A j \in 1..(n + 1) : calls'[j] = Activation(j)'
  BY <1>1 DEF calls
<1>13. n + 1 \in Nat /\ m + 1 = n /\ m + 2 = n + 1 /\ n \in 1..(n + 1) /\ n + 1 \in 1..(n + 1)
       /\ \A j \in 1..(n + 1) : j \in 1..m \/ j = n \/ j = n + 1
  <2>1. n \in Nat \ {0}
    BY <1>1
  <2> HIDE DEF n
  <2> QED BY <2>1
<1>14. IsSequence(calls') /\ Len(calls') = n + 1
  BY <1>12, <1>13, FunctionSequence
<1>15. ASSUME NEW j \in 1..(n + 1) PROVE calls'[j] = then[j]
  <2>1. CASE j \in 1..m
    BY <1>6, <1>11, <1>12, <2>1
  <2>2. CASE j = n
    BY <1>7, <1>11, <1>12, <1>13, <2>2
  <2>3. CASE j = n + 1
    BY <1>8, <1>11, <1>12, <1>13, <2>3
  <2> QED BY Zenon, <1>13, <2>1, <2>2, <2>3
<1>16. calls' = then
  BY Zenon, <1>11, <1>13, <1>14, <1>15, SameSequence
<1>17. Own!Callee(Args[1][2]) = c
  BY DEF Own!Callee, Callee, Own!Named, Named, Chunks
<1>18. Own!Executes({"Call"})
  BY Zenon, SameExecution DEF Call
<1> QED BY <1>1, <1>3, <1>16, <1>17, <1>18 DEF Own!Call, calls, then, two, now, new

\* A return takes the callee's part away and gives its value to the caller.
LEMMA ReturnMoves ==
  ASSUME ApartInv, Return
  PROVE  Own!Return
<1> DEFINE n == Len(frames)
           m == n - 1
           a == top.base
           below == SubSeq(Rest, 1, a)
           v == Args[1]
<1>1. /\ outcome = Running /\ n \in Nat \ {0} /\ m \in Nat /\ a \in Nat
      /\ module' = module /\ effects' = effects /\ frames' = SubSeq(frames, 1, m)
  <2>1. outcome = Running /\ module' = module /\ effects' = effects /\ frames' = SubSeq(frames, 1, m)
    BY DEF Return, Executes
  <2>2. n \in Nat \ {0} /\ a \in Nat
    BY <2>1, AtInstruction DEF ApartInv
  <2>3. m \in Nat
    <3> HIDE DEF n
    <3> QED BY <2>2
  <2> QED BY <2>1, <2>2, <2>3
<1>2. /\ IsSequence(Rest) /\ Len(Rest) \in Nat /\ a <= Len(Rest)
      /\ IsSequence(stack) /\ Len(stack) \in Nat /\ Len(Rest) <= Len(stack)
      /\ \A i \in 1..Len(Rest) : Rest[i] = stack[i]
  <2>1. IsSequence(Rest) /\ Len(Rest) \in Nat /\ Len(Rest) <= Len(stack)
        /\ a + top.local_count \in Nat /\ a <= a + top.local_count /\ a + top.local_count <= Len(Rest)
    BY <1>1, RestParts
  <2>2. \A i \in 1..Len(Rest) : Rest[i] = stack[i]
    BY <1>1, RestKeepsLocals DEF ApartInv
  <2>3. IsSequence(stack) /\ Len(stack) \in Nat
    BY <1>1, AtOperands DEF ApartInv
  <2>4. a <= Len(Rest)
    <3> DEFINE b == a + top.local_count
    <3>1. b \in Nat /\ a <= b /\ b <= Len(Rest)
      BY <2>1
    <3> HIDE DEF a, b
    <3> QED BY <1>1, <2>1, <3>1
  <2> QED BY <2>1, <2>2, <2>3, <2>4
<1>3. IF n = 1 THEN outcome' = Finished(v)
               ELSE stack' = Append(below, v) /\ outcome' = outcome
  <2>1. (IF a < Len(Rest) THEN a ELSE Len(Rest)) = a
    BY <1>1, <1>2
  <2> QED BY <2>1 DEF Return
<1>4. /\ Own!Executes({"Return"}) /\ Own!Taken = Args /\ Own!Finished(v) = Finished(v)
  BY <1>1, SameExecution, ActivePart DEF Return, Finished, Own!Finished
<1>5. /\ IsSequence(calls) /\ Len(calls) = n
      /\ IsSequence(Own!Callers) /\ Len(Own!Callers) = m
      /\ \A i \in 1..m : Own!Callers[i] = Activation(i)
  BY <1>1, CallersAre
<1>6. /\ Len(frames') = m /\ \A i \in 1..m : i \in 1..n /\ i # n /\ frames'[i] = frames[i]
  <2>1. IsSequence(frames) /\ m \in 0..Len(frames) /\ \A i \in 1..m : i \in 1..n /\ i # n
    <3>1. IsSequence(frames) /\ n \in Nat \ {0}
      BY <1>1, FramesApart
    <3> HIDE DEF n
    <3>2. m \in 0..n /\ \A i \in 1..m : i \in 1..n /\ i # n
      BY <3>1
    <3> QED BY <3>1, <3>2 DEF n
  <2> HIDE DEF m, n
  <2> QED BY <1>1, <2>1, PrefixSequence
<1>7. calls' = [j \in 1..m |-> calls'[j]] /\ \A j \in 1..m : calls'[j] = Activation(j)'
  BY <1>6 DEF calls
<1>8. IsSequence(calls') /\ Len(calls') = m
  <2> HIDE DEF m
  <2> QED BY <1>1, <1>7, FunctionSequence
<1>9. BelowBaseUnchanged
  BY ReturnStep DEF ApartInv
<1>10. CASE n = 1
  <2>1. m = 0
    BY <1>10
  <2> HIDE DEF m
  <2>2. calls' = Own!Callers
    BY <1>5, <1>8, <2>1, SameSequence
  <2> QED BY <1>1, <1>3, <1>4, <1>5, <1>10, <2>2 DEF Own!Return, calls
<1>11. CASE n # 1
  <2> DEFINE caller == frames[m]
             p == caller.base
             q == caller.base + caller.local_count
             waiting == Activation(m)
             now == [Own!Callers EXCEPT ![m].operands = Append(@, v)]
  <2>1. m \in 1..m /\ m + 1 = n
    <3>1. n \in Nat \ {0}
      BY <1>1
    <3> HIDE DEF n
    <3> QED BY <1>11, <3>1
  <2>2. /\ p \in Nat /\ q \in Nat /\ p <= q /\ q <= a /\ End(m) = a
    <3>1. /\ caller.base \in Nat /\ caller.local_count \in Nat /\ q <= End(m)
      BY <1>1, <2>1, FramesApart
    <3>2. End(m) = a
      BY <1>6, <2>1 DEF End, top
    <3> QED BY <3>1, <3>2
  <2>3. /\ IsSequence(below) /\ Len(below) = a /\ \A i \in 1..a : below[i] = Rest[i]
    <3>1. a \in 0..Len(Rest)
      BY <1>1, <1>2
    <3> HIDE DEF a
    <3> QED BY <1>2, <3>1, PrefixSequence
  <2> HIDE DEF a
  <2>4. \A i \in 1..a : i \in 1..Len(Rest) /\ below[i] = stack[i]
    BY <1>1, <1>2, <2>3
  <2> HIDE DEF below, v
  <2>5. stack' = Append(below, v) /\ outcome' = outcome
    BY <1>3, <1>11
  <2>6. IsSequence(stack') /\ Len(stack') = a + 1
    BY <2>3, <2>5, AppendSequence
  <2> HIDE DEF p, q
  <2>7. q <= Len(below) /\ q <= Len(stack) /\ a <= Len(below) /\ a <= Len(stack)
        /\ \A i \in 1..q : i \in 1..a
    BY <1>1, <1>2, <2>2, <2>3
  <2>8. SubSeq(stack', p + 1, q) = SubSeq(stack, p + 1, q)
    <3>1. SubSeq(stack', p + 1, q) = SubSeq(below, p + 1, q)
      BY <2>2, <2>3, <2>5, <2>7, SliceBeforeAppend
    <3>2. \A i \in 1..q : below[i] = stack[i]
      BY <2>4, <2>7
    <3>3. SubSeq(below, p + 1, q) = SubSeq(stack, p + 1, q)
      BY <1>2, <2>2, <2>3, <2>7, <3>2, SameSlice
    <3> QED BY <3>1, <3>3
  <2>9. SubSeq(stack', q + 1, a + 1) = Append(SubSeq(stack, q + 1, a), v)
    <3>1. SubSeq(stack', q + 1, a + 1) = Append(SubSeq(below, q + 1, a), v)
      BY <2>2, <2>3, <2>5, <2>7, SliceOfAppend
    <3>2. \A i \in 1..a : below[i] = stack[i]
      BY <2>4
    <3>3. SubSeq(below, q + 1, a) = SubSeq(stack, q + 1, a)
      BY <1>1, <1>2, <2>2, <2>3, <2>7, <3>2, SameSlice
    <3> QED BY <3>1, <3>3
  <2>10. ASSUME NEW j, j = m PROVE Activation(j)' = [waiting EXCEPT !.operands = Append(@, v)]
    <3>1. frames'[j] = caller /\ End(j)' = a + 1
      BY <1>6, <2>1, <2>6, <2>10 DEF End
    <3>2. Activation(j)' = [chunk |-> caller.chunk, ip |-> caller.ip,
                            locals |-> SubSeq(stack', p + 1, q), operands |-> SubSeq(stack', q + 1, a + 1)]
      BY <3>1 DEF Activation, p, q
    <3>3. waiting = [chunk |-> caller.chunk, ip |-> caller.ip,
                     locals |-> SubSeq(stack, p + 1, q), operands |-> SubSeq(stack, q + 1, a)]
      BY <2>2 DEF Activation, p, q
    <3> DEFINE x == SubSeq(stack, p + 1, q)
               y == SubSeq(stack, q + 1, a)
    <3>4. Activation(j)' = [chunk |-> caller.chunk, ip |-> caller.ip, locals |-> x, operands |-> Append(y, v)]
      BY <2>8, <2>9, <3>2
    <3> HIDE DEF caller, waiting, x, y
    <3>5. waiting = [chunk |-> caller.chunk, ip |-> caller.ip, locals |-> x, operands |-> y]
      BY <3>3 DEF x, y
    <3>6. [waiting EXCEPT !.operands = Append(@, v)] =
            [chunk |-> caller.chunk, ip |-> caller.ip, locals |-> x, operands |-> Append(y, v)]
      BY SMTT(30), <3>5
    <3> QED BY <3>4, <3>6
  <2>11. ASSUME NEW j \in 1..m, j # m PROVE Activation(j)' = Activation(j)
    <3>1. j + 1 \in 1..m
      BY <1>1, <2>11
    <3>2. End(j)' = End(j)
      BY <1>6, <2>11, <3>1 DEF End
    <3> QED BY <1>1, <1>6, <1>9, <2>6, <3>2, Waiting
  <2>12. DOMAIN Own!Callers = 1..m
    BY <1>5, SequenceOver DEF IsSequence
  <2>13. now = [j \in 1..m |-> now[j]] /\ now[m] = [waiting EXCEPT !.operands = Append(@, v)]
         /\ \A j \in 1..m : j # m => now[j] = Activation(j)
    <3> HIDE DEF m
    <3> QED BY <1>5, <2>1, <2>12
  <2> HIDE DEF now, waiting
  <2>14. IsSequence(now) /\ Len(now) = m
    <3> HIDE DEF m
    <3> QED BY <1>1, <2>13, FunctionSequence
  <2>15. ASSUME NEW j \in 1..m PROVE calls'[j] = now[j]
    <3>1. CASE j = m
      BY <1>7, <2>10, <2>13, <3>1
    <3>2. CASE j # m
      BY <1>7, <2>11, <2>13, <3>2
    <3> QED BY <3>1, <3>2
  <2>16. calls' = now
    <3> HIDE DEF m
    <3> QED BY <1>8, <2>14, <2>15, SameSequence
  <2>17. Own!Taken[1] = v
    BY <1>4 DEF v
  <2> QED BY <1>1, <1>4, <1>5, <1>11, <2>5, <2>16, <2>17 DEF Own!Return, calls, now
<1> QED BY <1>10, <1>11

-----------------------------------------------------------------------------
(* Every step of the machine is a step of calls that have their own parts. *)

LEMMA WorkMoves ==
  ASSUME ApartInv, LoadConst \/ LoadLocal \/ StoreLocal \/ Compute \/ Peek \/ Check \/ Jump
  PROVE  Own!Work
<1>1. outcome = Running /\ module' = module /\ outcome' = outcome /\ effects' = effects
  BY DEF LoadConst, LoadLocal, StoreLocal, Compute, Peek, Check, Jump, Executes
<1>2. /\ Own!op = op /\ Own!Taken = Args /\ Own!me.ip = top.ip
      /\ Own!me.locals = SubSeq(stack, top.base + 1, top.base + top.local_count)
  BY <1>1, ActivePart
<1>3. CASE LoadConst
  BY <1>1, <1>2, <1>3, PushInFrame, SameExecution DEF LoadConst, Push, Own!Work
<1>4. CASE LoadLocal
  <2>1. Own!me.locals[op.arg + 1] = stack[top.base + op.arg + 1]
    <3> DEFINE a == top.base
               n == top.local_count
               b == top.base + top.local_count
               k == op.arg + 1
    <3>1. op.arg \in 0..(n - 1) /\ n \in Nat /\ a \in Nat
      BY <1>1, <1>4, AtOperands, AtInstruction DEF ApartInv, LoadLocal, Executes
    <3>2. /\ IsSequence(stack) /\ b \in Nat /\ a <= b /\ b <= Len(stack)
      <4>1. /\ b \in Nat /\ a <= b /\ b <= Len(Rest) /\ Len(Rest) \in Nat /\ Len(Rest) <= Len(stack)
        BY <1>1, RestParts
      <4>2. IsSequence(stack) /\ Len(stack) \in Nat
        BY <1>1, AtOperands DEF ApartInv
      <4> HIDE DEF b
      <4> QED BY <4>1, <4>2
    <3>3. k \in 1..(b - a) /\ a + k = top.base + op.arg + 1
      <4> DEFINE x == op.arg
      <4>1. x \in 0..(n - 1) /\ n \in Nat /\ a \in Nat /\ b = a + n /\ k = x + 1
        BY <3>1
      <4> HIDE DEF x, a, n, b, k
      <4>2. k \in 1..(b - a) /\ a + k = a + x + 1
        BY <4>1
      <4> QED BY <4>2 DEF a, x
    <3> HIDE DEF a, b, k
    <3>4. SubSeq(stack, a + 1, b)[k] = stack[a + k]
      BY <3>1, <3>2, <3>3, Slice
    <3> QED BY <1>2, <3>3, <3>4 DEF a, b, k
  <2>2. Own!Push(stack[top.base + op.arg + 1])
    BY <1>1, <1>4, PushInFrame DEF LoadLocal, Push
  <2> QED BY <1>1, <1>2, <1>4, <2>1, <2>2, SameExecution DEF LoadLocal, Own!Work
<1>5. CASE StoreLocal
  BY <1>1, <1>5, StoreInFrame, SameExecution DEF StoreLocal, Own!Work
<1>6. CASE Compute
  <2>1. Own!Push(Own!Result(Own!op, Own!Taken))
    BY <1>1, <1>2, <1>6, PushInFrame, SameResult DEF Compute, Push
  <2>2. Own!Executes(Own!ComputeOps)
    BY <1>6, SameExecution, SameGroups DEF Compute
  <2> QED BY <1>1, <2>1, <2>2 DEF Own!Work
<1>7. CASE Peek
  <2>1. Own!GoesOn(Own!me.ip + 1, Own!me.locals,
                   Append(Own!me.operands, Own!PeekResult(Own!op, Own!Taken[1])))
    BY <1>1, <1>2, <1>7, PeekInFrame, SameResult DEF Peek
  <2>2. Own!Executes(Own!PeekOps)
    BY <1>7, SameExecution, SameGroups DEF Peek
  <2> QED BY <1>1, <2>1, <2>2 DEF Own!Work
<1>8. CASE Check
  <2>1. Own!GoesOn(Own!me.ip + 1, Own!me.locals, Own!Left)
    BY <1>1, <1>2, <1>8, DropInFrame DEF Check, Proceed
  <2>2. Own!Executes(Own!CheckOps)
    BY <1>8, SameExecution, SameGroups DEF Check
  <2> QED BY <1>1, <2>1, <2>2 DEF Own!Work
<1>9. CASE Jump
  <2>1. op.op \in {"Jump", "JumpIfFalse"} /\ GoTo(IF JumpTaken THEN op.arg ELSE top.ip + 1) /\ stack' = Rest
    BY <1>9 DEF Jump, Executes, Proceed, GoTo
  <2>2. Own!Target = IF JumpTaken THEN op.arg ELSE top.ip + 1
    <3>1. \A v : Own!Truthy(v) = Truthy(v)
      BY SameConstructors
    <3> QED BY <1>2, <2>1, <3>1 DEF Own!Target, JumpTaken
  <2>3. Own!GoesOn(Own!Target, Own!me.locals, Own!Left)
    BY <1>1, <2>1, <2>2, DropInFrame
  <2>4. Own!Executes({"Jump", "JumpIfFalse"})
    BY <1>9, SameExecution DEF Jump
  <2> QED BY <1>1, <2>3, <2>4 DEF Own!Work
<1> QED BY <1>3, <1>4, <1>5, <1>6, <1>7, <1>8, <1>9

\* The frame that halts has the value it halts with.
LEMMA HaltMoves ==
  ASSUME ApartInv, Halt
  PROVE  Own!Halt
<1> DEFINE b == top.base + top.local_count
           m == Len(stack)
<1>1. outcome = Running /\ op.op = "Halt" /\ module' = module /\ stack' = stack /\ effects' = effects /\ Proceed
      /\ outcome' = Finished(IF stack = <<>> THEN Void ELSE stack[m])
  BY DEF Halt, Executes
<1>2. /\ Own!me.ip = top.ip
      /\ Own!me.locals = SubSeq(stack, top.base + 1, b)
      /\ Own!me.operands = SubSeq(stack, b + 1, m)
  BY <1>1, ActivePart
<1>3. IsSequence(stack) /\ m \in Nat /\ b \in Nat /\ b < m
  <2>1. d[top.ip] \in Nat /\ b + d[top.ip] <= m /\ m \in Nat /\ IsSequence(stack)
    BY <1>1, AtOperands DEF ApartInv
  <2>2. b \in Nat
    BY <1>1, RestParts
  <2>3. d[top.ip] > 0
    <3>1. module \in DOMAIN Code /\ top.chunk \in 1..Len(Code[module]) /\ top.ip \in 1..Len(ops)
      BY <1>1, AtInstruction DEF ApartInv, IInv, TypeOK, Chunks
    <3> QED BY <1>1, <3>1, HaltsOnAValue DEF d, op, ops
  <2> HIDE DEF b, m
  <2> QED BY <2>1, <2>2, <2>3
<1>4. BelowBaseUnchanged
  BY EndingStep DEF ApartInv
<1>5. Own!GoesOn(top.ip + 1, Own!me.locals, Own!me.operands)
  BY <1>1, <1>2, <1>3, <1>4, GoesOnInFrame DEF Proceed
<1>6. Own!me.operands[Len(Own!me.operands)] = stack[m] /\ stack # <<>>
  <2> DEFINE x == SubSeq(stack, b + 1, m)
  <2>1. b <= m /\ m <= Len(stack)
    BY <1>3
  <2>2. stack # <<>>
    BY <1>3, EmptySeq
  <2> HIDE DEF b
  <2>3. Len(x) = m - b /\ \A i \in 1..(m - b) : x[i] = stack[b + i]
    BY <1>3, <2>1, Slice
  <2> HIDE DEF m, x
  <2>4. m - b \in 1..(m - b) /\ b + (m - b) = m
    BY <1>3
  <2>5. x[m - b] = stack[m]
    BY <2>3, <2>4
  <2> QED BY <1>2, <2>2, <2>3, <2>5 DEF x
<1>7. Own!Executes({"Halt"})
  BY SameExecution DEF Halt
<1> QED BY <1>1, <1>2, <1>5, <1>6, <1>7 DEF Own!Halt, Own!Finished, Finished

\* When neither stack nor frames change, no call does.
LEMMA SameCalls ==
  ASSUME UNCHANGED <<stack, frames>>
  PROVE  calls' = calls
BY DEF calls, Activation, End

LEMMA BuiltinMoves ==
  ASSUME ApartInv, CallBuiltin \/ BuiltinFails \/ Fails
  PROVE  Own!CallBuiltin \/ Own!BuiltinFails \/ Own!Fails
<1>1. outcome = Running /\ module' = module
  BY DEF CallBuiltin, BuiltinFails, Fails, Executes
<1>2. Own!op = op /\ Own!Taken = Args /\ Own!Fault = Fault
  BY <1>1, ActivePart, SameErrors
<1>3. CASE CallBuiltin
  <2>1. PICK v \in BuiltinResults[op.arg] :
          Push(v) /\ effects' = Append(effects, [name |-> op.arg, args |-> Args, result |-> v])
    BY <1>3 DEF CallBuiltin
  <2>2. Own!Push(v)
    BY <1>1, <1>3, <2>1, PushInFrame DEF CallBuiltin, Push
  <2>3. Own!Executes({"CallBuiltin"}) /\ outcome' = outcome
    BY <1>3, SameExecution DEF CallBuiltin
  <2> QED BY <1>1, <1>2, <2>1, <2>2, <2>3 DEF Own!CallBuiltin
<1>4. CASE BuiltinFails
  <2>1. calls' = calls
    BY <1>4, SameCalls DEF BuiltinFails
  <2>2. Own!Executes({"CallBuiltin"})
    BY <1>4, SameExecution DEF BuiltinFails
  <2> QED BY <1>2, <1>4, <2>1, <2>2 DEF BuiltinFails, Own!BuiltinFails, Raised, Failed, Own!Failed, calls
<1>5. CASE Fails
  <2>1. calls' = calls
    BY <1>5, SameCalls DEF Fails
  <2> QED BY <1>2, <1>5, <2>1 DEF Fails, Own!Fails, Failed, Own!Failed, Running, Own!Running, calls
<1> QED BY <1>3, <1>4, <1>5

-----------------------------------------------------------------------------
(* The locals stay below the frames called later.                          *)

\* A step that leaves every frame where it is.
LEMMA FramesStay ==
  ASSUME ApartInv, outcome = Running,
         frames' = frames \/ \E i : frames' = [frames EXCEPT ![Len(frames)].ip = i]
  PROVE  LocalsApart'
<1> DEFINE n == Len(frames)
<1>1. n \in Nat \ {0} /\ IsSequence(frames) /\ DOMAIN frames = 1..n
      /\ \A j \in 1..n : frames[j] \in [chunk : Chunks, ip : Nat \ {0}, base : Nat, local_count : Nat]
  BY FramesApart
<1>2. CASE frames' = frames
  BY <1>2 DEF ApartInv, LocalsApart
<1>3. ASSUME NEW i, frames' = [frames EXCEPT ![n].ip = i] PROVE LocalsApart'
  <2>1. frames' = [j \in 1..n |-> frames'[j]]
    BY <1>1, <1>3
  <2>2. Len(frames') = n
    <3> HIDE DEF n
    <3> QED BY <1>1, <2>1, FunctionSequence
  <2>3. \A j \in 1..n : frames'[j].base = frames[j].base /\ frames'[j].local_count = frames[j].local_count
    <3> HIDE DEF n
    <3> QED BY <1>1, <1>3
  <2> QED BY <2>2, <2>3 DEF ApartInv, LocalsApart
<1> QED BY <1>2, <1>3

LEMMA CallStaysApart ==
  ASSUME ApartInv, Call
  PROVE  LocalsApart'
<1> DEFINE n == Len(frames)
           m == n - 1
           c == Callee(Args[1][2])
           locals == Code[module][c].local_count
           e == Len(Rest)
<1>1. /\ outcome = Running /\ n \in Nat \ {0} /\ Len(frames') = n + 1
      /\ \A i \in 1..m : i \in 1..n /\ frames'[i] = frames[i]
      /\ frames'[n] = [top EXCEPT !.ip = top.ip + 1]
      /\ frames'[n + 1] = Frame(c, e, locals)
  BY CallDoes
<1>2. /\ top \in [chunk : Chunks, ip : Nat \ {0}, base : Nat, local_count : Nat] /\ top = frames[n]
      /\ \A i \in 1..n : frames[i].base \in Nat /\ frames[i].local_count \in Nat
      /\ \A i \in 1..m : frames[i].base + frames[i].local_count <= End(i) /\ End(i) <= top.base /\ End(i) \in Nat
  BY <1>1, FramesApart, AtInstruction DEF ApartInv, top
<1>3. e \in Nat /\ top.base + top.local_count <= e
  BY <1>1, RestKeepsLocals DEF ApartInv
<1>4. frames'[n].base = top.base /\ frames'[n].local_count = top.local_count
  BY <1>1, <1>2
<1>5. frames'[n + 1].base = e
  BY <1>1 DEF Frame
<1> HIDE DEF e, n
<1>6. \A i \in 1..m : frames[i].base + frames[i].local_count <= top.base
  BY <1>1, <1>2, SMTT(30)
<1>7. \A i \in 1..(n + 1) : i \in 1..m \/ i = n \/ i = n + 1
  BY <1>1
<1>8. ASSUME NEW i \in 1..(n + 1), NEW j \in 1..(n + 1), i < j
      PROVE  frames'[i].base + frames'[i].local_count <= frames'[j].base
  <2>1. CASE j = n + 1
    <3>1. CASE i = n
      BY <1>3, <1>4, <1>5, <2>1, <3>1
    <3>2. CASE i \in 1..m
      <4> DEFINE x == frames[i].base + frames[i].local_count
                 a == top.base
                 l == top.local_count
      <4>1. i \in 1..n /\ frames'[i] = frames[i]
        BY <1>1, <3>2
      <4>2. x \in Nat /\ x <= a /\ a \in Nat /\ l \in Nat /\ a + l <= e
        <5>1. frames[i].base \in Nat /\ frames[i].local_count \in Nat
          BY <1>2, <4>1
        <5>2. x \in Nat
          BY <5>1
        <5> HIDE DEF x
        <5>3. x <= a
          BY <1>6, <3>2 DEF x
        <5> QED BY <1>2, <1>3, <5>2, <5>3
      <4> HIDE DEF x, a, l
      <4>3. x <= e
        BY <1>3, <4>2
      <4> QED BY <1>5, <2>1, <4>1, <4>3 DEF x
    <3> QED BY <1>1, <1>7, <1>8, <2>1, <3>1, <3>2
  <2>2. CASE j = n
    <3>1. i \in 1..m
      BY <1>1, <1>8, <2>2
    <3> QED BY <1>1, <1>4, <1>6, <2>2, <3>1
  <2>3. CASE j \in 1..m
    <3>1. i \in 1..m
      BY <1>1, <1>8, <2>3
    <3>2. i \in 1..n /\ j \in 1..n
      BY <1>1, <2>3, <3>1
    <3>3. frames[i].base + frames[i].local_count <= frames[j].base
      BY <1>8, <3>2 DEF ApartInv, LocalsApart, n
    <3>4. frames'[i] = frames[i] /\ frames'[j] = frames[j]
      BY <1>1, <2>3, <3>1
    <3> QED BY <3>3, <3>4
  <2> QED BY <1>7, <2>1, <2>2, <2>3
<1> QED BY <1>1, <1>8 DEF LocalsApart

LEMMA ReturnStaysApart ==
  ASSUME ApartInv, Return
  PROVE  LocalsApart'
<1> DEFINE n == Len(frames)
           m == n - 1
<1>1. outcome = Running /\ frames' = SubSeq(frames, 1, m)
  BY DEF Return, Executes
<1>2. IsSequence(frames) /\ n \in Nat \ {0}
  BY <1>1, FramesApart
<1>3. m \in 0..n /\ \A i \in 1..m : i \in 1..n
  <2> HIDE DEF n
  <2> QED BY <1>2
<1>4. Len(frames') = m /\ \A i \in 1..m : frames'[i] = frames[i]
  <2> HIDE DEF m
  <2> QED BY <1>1, <1>2, <1>3, PrefixSequence
<1> QED BY <1>3, <1>4 DEF ApartInv, LocalsApart

LEMMA StayApart ==
  ASSUME ApartInv, Next \/ UNCHANGED vars
  PROVE  ApartInv'
<1>1. IInv'
  BY StepInvariant DEF ApartInv
<1>2. CASE Call
  BY <1>1, <1>2, CallStaysApart DEF ApartInv
<1>3. CASE Return
  BY <1>1, <1>3, ReturnStaysApart DEF ApartInv
<1>4. CASE UNCHANGED vars
  BY <1>1, <1>4 DEF vars, ApartInv, LocalsApart
<1>5. ASSUME LoadConst \/ LoadLocal \/ StoreLocal \/ Compute \/ Peek \/ Check \/ Jump \/ Halt
             \/ CallBuiltin \/ BuiltinFails \/ Fails
      PROVE  ApartInv'
  <2>1. outcome = Running
    BY <1>5 DEF LoadConst, LoadLocal, StoreLocal, Compute, Peek, Check, Jump, Halt, CallBuiltin,
                BuiltinFails, Fails, Executes
  <2>2. frames' = frames \/ \E i : frames' = [frames EXCEPT ![Len(frames)].ip = i]
    BY <1>5 DEF LoadConst, LoadLocal, StoreLocal, Compute, Peek, Check, Jump, Halt, CallBuiltin,
                BuiltinFails, Fails, Proceed, GoTo
  <2> QED BY <1>1, <2>1, <2>2, FramesStay DEF ApartInv
<1> QED BY <1>2, <1>3, <1>4, <1>5 DEF Next, Returned

\* The program begins with one call, without operands.
LEMMA CallsBegin == Init => ApartInv /\ Own!Init
<1> SUFFICES ASSUME Init PROVE ApartInv /\ Own!Init
  OBVIOUS
<1> DEFINE n == Code[module][1].local_count
<1>1. IInv
  BY InitInvariant
<1>2. frames = <<Frame(1, 0, n)>> /\ Len(frames) = 1 /\ stack = Voids(n) /\ outcome = Running
  BY DEF Init
<1>3. LocalsApart
  BY <1>2 DEF LocalsApart
<1>4. n \in Nat
  BY <1>1, <1>2, AtInstruction DEF top, Frame
<1>5. IsSequence(stack) /\ Len(stack) = n /\ \A i \in 1..n : stack[i] = Void
  BY <1>2, <1>4, VoidsSequence DEF Voids
<1>6. Activation(1) = [chunk |-> 1, ip |-> 1, locals |-> SubSeq(stack, 0 + 1, n),
                       operands |-> SubSeq(stack, n + 1, n)]
  <2>1. frames[1].base = 0 /\ frames[1].local_count = n /\ frames[1].chunk = 1 /\ frames[1].ip = 1
    BY <1>2 DEF Frame
  <2>2. End(1) = n
    BY <1>2, <1>5 DEF End
  <2>3. 0 + n = n
    BY <1>4
  <2> QED BY <2>1, <2>2, <2>3 DEF Activation
<1>7. SubSeq(stack, 0 + 1, n) = Filled(<<>>, n)
  <2> DEFINE x == SubSeq(stack, 0 + 1, n)
             y == Filled(<<>>, n)
  <2> HIDE DEF n
  <2>1. 0 \in Nat /\ 0 <= n /\ n <= Len(stack) /\ n - 0 = n
    BY <1>4, <1>5
  <2>2. IsSequence(x) /\ Len(x) = n /\ \A i \in 1..n : x[i] = stack[0 + i]
    <3>1. IsSequence(x) /\ Len(x) = n - 0 /\ \A i \in 1..(n - 0) : x[i] = stack[0 + i]
      BY <1>4, <1>5, <2>1, Slice
    <3> QED BY <2>1, <3>1
  <2>3. y = [i \in 1..n |-> y[i]] /\ \A i \in 1..n : y[i] = Void
    BY EmptySeq DEF Filled
  <2> HIDE DEF x, y
  <2>4. IsSequence(y) /\ Len(y) = n
    BY <1>4, <2>3, FunctionSequence
  <2>5. \A i \in 1..n : x[i] = y[i]
    BY <1>5, <2>2, <2>3
  <2>6. x = y
    BY <2>2, <2>4, <2>5, SameSequence
  <2> QED BY <2>6 DEF x, y
<1>8. SubSeq(stack, n + 1, n) = <<>>
  <2> HIDE DEF n
  <2> QED BY <1>4, EmptySlice
<1>9. SubSeq(<<>>, n + 1, Len(<<>>)) = <<>>
  <2>1. Len(<<>>) \in Nat /\ Len(<<>>) <= n
    BY <1>4
  <2> HIDE DEF n
  <2> QED BY <1>4, <2>1, EmptySlice
<1>10. Activation(1) = Own!Begun(1, <<>>)
  <2>1. Own!Void = Void
    BY SameConstructors
  <2> QED BY <1>6, <1>7, <1>8, <1>9, <2>1 DEF Own!Begun, Filled
<1>11. calls = <<Activation(1)>>
  BY <1>2 DEF calls
<1> QED BY <1>1, <1>3, <1>10, <1>11 DEF ApartInv, Own!Init, Init, Running, Own!Running, calls

\* Every step is one of calls that keep apart, or changes nothing.
LEMMA CallsMove ==
  ASSUME ApartInv, Next \/ UNCHANGED vars
  PROVE  Own!Next \/ UNCHANGED Own!vars
<1>1. CASE LoadConst \/ LoadLocal \/ StoreLocal \/ Compute \/ Peek \/ Check \/ Jump
  BY <1>1, WorkMoves DEF Own!Next
<1>2. CASE Call
  BY <1>2, CallMoves DEF Own!Next
<1>3. CASE Return
  BY <1>3, ReturnMoves DEF Own!Next
<1>4. CASE Halt
  BY <1>4, HaltMoves DEF Own!Next
<1>5. CASE CallBuiltin \/ BuiltinFails \/ Fails
  BY <1>5, BuiltinMoves DEF Own!Next
<1>6. CASE UNCHANGED vars
  <2>1. calls' = calls /\ module' = module /\ outcome' = outcome /\ effects' = effects
    BY <1>6, SameCalls DEF vars
  <2> QED BY <2>1 DEF Own!vars, calls
<1> QED BY <1>1, <1>2, <1>3, <1>4, <1>5, <1>6 DEF Next, Returned

\* The locals of a call stay below the base of every later frame, whatever the
\* callees do to the stack above.
THEOREM LocalsStayApart == Spec => []LocalsApart
<1>1. ApartInv => LocalsApart
  BY DEF ApartInv
<1>2. ApartInv /\ [Next]_vars => ApartInv'
  BY StayApart
<1> QED BY <1>1, <1>2, CallsBegin, PTL DEF Spec

\* On balanced code, running on one flat stack that no instruction checks is
\* running with locals and operands of its own for every call.
THEOREM MachineKeepsCallsApart == Spec => CallsKeepApart
<1>1. Init => ApartInv /\ Own!Init
  BY CallsBegin
<1>2. ApartInv /\ [Next]_vars => ApartInv'
  BY StayApart
<1>3. ApartInv /\ [Next]_vars => [Own!Next]_Own!vars
  BY CallsMove
<1> QED BY <1>1, <1>2, <1>3, PTL DEF Spec, CallsKeepApart, Own!Spec
===============================================================================
