----------------------------- MODULE VerifierProofs -----------------------------
(***************************************************************************)
(* Proofs about module Verifier, for every program and every solver: its   *)
(* types, that the diagnostics about state machines are exact, and that    *)
(* each clause is counted once.  What can be reached is what belongs to    *)
(* every closed set, so that no induction over paths is needed; that a     *)
(* search backwards from all terminal states finds what searches forwards  *)
(* from each state would is a fact about closures (BackwardIsForward).     *)
(* The counts rest on the partition of the clauses by the solver's answers.*)
(***************************************************************************)
EXTENDS Verifier, FiniteSetTheorems, TLAPS

-----------------------------------------------------------------------------
(* Closures.                                                               *)

LEMMA ClosureHasFrom ==
  ASSUME NEW next, NEW from, from \subseteq DOMAIN next
  PROVE  from \subseteq Closure(from, next)
BY DEF Closure

LEMMA ClosureLeast ==
  ASSUME NEW next, NEW from, NEW S \in SUBSET DOMAIN next, from \subseteq S, Closed(S, next)
  PROVE  Closure(from, next) \subseteq S
BY DEF Closure

LEMMA ClosureClosed ==
  ASSUME NEW next, NEW from, \A s \in DOMAIN next : next[s] \subseteq DOMAIN next
  PROVE  Closed(Closure(from, next), next)
<1> SUFFICES ASSUME NEW s \in Closure(from, next), NEW t \in next[s]
             PROVE  t \in Closure(from, next)
  BY DEF Closed
<1>1. s \in DOMAIN next /\ t \in DOMAIN next
  BY DEF Closure
<1>2. ASSUME NEW S \in SUBSET DOMAIN next, from \subseteq S, Closed(S, next)
      PROVE  t \in S
  <2>1. s \in S
    BY <1>2 DEF Closure
  <2> QED BY <1>2, <2>1 DEF Closed
<1> QED BY <1>1, <1>2 DEF Closure

-----------------------------------------------------------------------------
(* The states of a machine.                                                *)

LEMMA MachineSteps ==
  ASSUME NEW i
  PROVE  /\ DOMAIN Onward(i) = States(i) /\ DOMAIN Backward(i) = States(i)
         /\ \A s \in States(i) : Onward(i)[s] = Successors(i, s) /\ Backward(i)[s] = Predecessors(i, s)
         /\ \A s \in States(i) : Onward(i)[s] \subseteq States(i) /\ Backward(i)[s] \subseteq States(i)
         /\ \A s, t \in States(i) : t \in Onward(i)[s] <=> s \in Backward(i)[t]
         /\ Terminal(i) \subseteq States(i)
<1>1. \A s \in States(i) : Successors(i, s) \subseteq States(i) /\ Predecessors(i, s) \subseteq States(i)
  BY DEF Successors, Predecessors, States, Sources, Targets
<1>2. \A s, t \in States(i) : t \in Successors(i, s) <=> s \in Predecessors(i, t)
  BY DEF Successors, Predecessors
<1> QED BY <1>1, <1>2 DEF Onward, Backward, Terminal, States

CanTerminate(i) == Closure(Terminal(i), Backward(i))

\* What a search backwards from all terminal states finds are the states from
\* which one forwards finds a terminal state.
LEMMA BackwardIsForward ==
  ASSUME NEW i, NEW s \in States(i)
  PROVE  s \in CanTerminate(i) <=> From(i, s) \cap Terminal(i) # {}
<1> DEFINE Can == CanTerminate(i)
           Cannot == States(i) \ Can
           Leading == {t \in States(i) : From(i, t) \cap Terminal(i) # {}}
<1>1. Terminal(i) \subseteq Can /\ Can \subseteq States(i) /\ Closed(Can, Backward(i))
  <2>1. Terminal(i) \subseteq DOMAIN Backward(i) /\ \A t \in DOMAIN Backward(i) : Backward(i)[t] \subseteq DOMAIN Backward(i)
    BY MachineSteps
  <2>2. Can \subseteq States(i)
    BY MachineSteps DEF CanTerminate, Closure
  <2> QED BY <2>1, <2>2, ClosureHasFrom, ClosureClosed DEF CanTerminate
<1>2. ASSUME NEW t \in States(i) PROVE t \in From(i, t) /\ From(i, t) \subseteq States(i) /\ Closed(From(i, t), Onward(i))
  <2>1. {t} \subseteq DOMAIN Onward(i) /\ \A u \in DOMAIN Onward(i) : Onward(i)[u] \subseteq DOMAIN Onward(i)
    BY MachineSteps
  <2>2. From(i, t) \subseteq States(i)
    BY MachineSteps DEF From, Closure
  <2>3. {t} \subseteq From(i, t) /\ Closed(From(i, t), Onward(i))
    BY <2>1, ClosureHasFrom, ClosureClosed DEF From
  <2> QED BY <2>2, <2>3
<1>3. ASSUME From(i, s) \cap Terminal(i) # {}, s \notin Can PROVE FALSE
  <2>1. Closed(Cannot, Onward(i))
    BY <1>1, MachineSteps DEF Closed
  <2>2. From(i, s) \subseteq Cannot
    <3> HIDE DEF Cannot
    <3>1. s \in Cannot /\ Cannot \in SUBSET DOMAIN Onward(i)
      BY <1>3, MachineSteps DEF Cannot
    <3> QED BY <2>1, <3>1, ClosureLeast DEF From
  <2> QED BY <1>1, <1>3, <2>2
<1>4. Can \subseteq Leading
  <2>1. Terminal(i) \subseteq Leading
    BY <1>2, MachineSteps
  <2>2. Closed(Leading, Backward(i))
    <3> SUFFICES ASSUME NEW u \in Leading, NEW t \in Backward(i)[u] PROVE t \in Leading
      BY DEF Closed
    <3>1. t \in States(i) /\ u \in States(i) /\ u \in Onward(i)[t]
      BY MachineSteps
    <3>2. u \in From(i, t)
      BY <1>2, <3>1 DEF Closed
    <3>3. From(i, u) \subseteq From(i, t)
      <4>1. From(i, t) \in SUBSET DOMAIN Onward(i) /\ {u} \subseteq From(i, t) /\ Closed(From(i, t), Onward(i))
        BY <1>2, <3>1, <3>2, MachineSteps
      <4> QED BY <4>1, ClosureLeast DEF From
    <3> QED BY <3>1, <3>3
  <2>3. Leading \in SUBSET DOMAIN Backward(i)
    BY MachineSteps
  <2> HIDE DEF Leading
  <2> QED BY <2>1, <2>2, <2>3, ClosureLeast DEF CanTerminate
<1> QED BY <1>3, <1>4

LEMMA StuckStates ==
  ASSUME NEW i, Initial(i) \in States(i)
  PROVE  Stuck(i) = ((States(i) \ Terminal(i)) \ (States(i) \ Reachable(i))) \ CanTerminate(i)
<1>1. Reachable(i) \subseteq States(i)
  BY MachineSteps DEF Reachable, Closure
<1>2. Terminal(i) \subseteq CanTerminate(i)
  BY MachineSteps, ClosureHasFrom DEF CanTerminate
<1>3. \A s \in Reachable(i) : s \in CanTerminate(i) <=> From(i, s) \cap Terminal(i) # {}
  BY <1>1, BackwardIsForward
<1> QED BY <1>1, <1>2, <1>3 DEF Stuck

-----------------------------------------------------------------------------
(* Declarations and their clauses.                                         *)

LEMMA DeclTypes ==
  ASSUME program \in DOMAIN Programs
  PROVE  /\ Len(decls) \in Nat
         /\ \A i \in Decls : i \in Nat /\ 1 <= i /\ i <= Len(decls)
         /\ \A i \in Decls : /\ decls[i].kind \in {"fn", "flow", "entity", "state", "capability", "main"}
                             /\ decls[i].kind \in {"fn", "flow"} => IsList(decls[i].requires) /\ IsList(decls[i].ensures)
                             /\ decls[i].kind = "flow" => IsList(InlineRequires(decls[i].steps))
                             /\ decls[i].kind = "entity" => IsList(decls[i].invariants)
                             /\ decls[i].kind = "state" => Len(decls[i].transitions) \in Nat
<1>1. /\ Len(decls) \in Nat
      /\ \A i \in 1..Len(decls) :
           /\ decls[i].kind \in {"fn", "flow", "entity", "state", "capability", "main"}
           /\ decls[i].kind \in {"fn", "flow"} => IsList(decls[i].requires) /\ IsList(decls[i].ensures)
           /\ decls[i].kind = "flow" => IsList(InlineRequires(decls[i].steps))
           /\ decls[i].kind = "entity" => IsList(decls[i].invariants)
           /\ decls[i].kind = "state" => Len(decls[i].transitions) \in Nat
  BY ProgramsAreLists DEF decls
<1> QED BY <1>1 DEF Decls

\* Of the clauses of a list some pass a test and the others do not.
LEMMA Halves ==
  ASSUME NEW s, IsList(s), NEW A \in SUBSET DOMAIN s
  PROVE  /\ IsFiniteSet(A) /\ Cardinality(A) \in Nat
         /\ Cardinality(A) + Cardinality(DOMAIN s \ A) = Len(s)
<1>1. Len(s) \in Nat /\ DOMAIN s = 1..Len(s)
  BY DEF IsList
<1>2. IsFiniteSet(DOMAIN s) /\ Cardinality(DOMAIN s) = Len(s)
  <2>1. 1 \in Int /\ Len(s) \in Int
    BY <1>1
  <2> QED BY <1>1, <2>1, FS_Interval
<1>3. IsFiniteSet(A) /\ IsFiniteSet(DOMAIN s \ A)
  BY <1>2, FS_Subset
<1>4. Cardinality(A) \in Nat /\ Cardinality(DOMAIN s \ A) \in Nat
  BY <1>3, FS_CardinalityType
<1>5. A \cap (DOMAIN s \ A) = {} /\ A \cup (DOMAIN s \ A) = DOMAIN s
  OBVIOUS
<1>6. Cardinality(DOMAIN s) = Cardinality(A) + Cardinality(DOMAIN s \ A) - Cardinality({})
  BY <1>3, <1>5, FS_Union
<1> QED BY <1>2, <1>3, <1>4, <1>6, FS_EmptySet

\* What the solver says of the requires and the ensures of the declaration
\* visited, in numbers.
LEMMA ClauseCounts ==
  ASSUME IsList(decl.requires), IsList(decl.ensures)
  PROVE  /\ Count(decl.requires, Decided) \in Nat /\ Count(decl.requires, Undecided) \in Nat
         /\ Count(decl.requires, Decided) + Count(decl.requires, Undecided) = Len(decl.requires)
         /\ Count(decl.ensures, Holds) \in Nat /\ Count(decl.ensures, Open) \in Nat
         /\ IsFiniteSet(Where(decl.ensures, Refuted)) /\ Count(decl.ensures, Refuted) \in Nat
         /\ Count(decl.ensures, Holds) + Count(decl.ensures, Open) + Count(decl.ensures, Refuted) = Len(decl.ensures)
<1> DEFINE R == Where(decl.requires, Decided)
           H == Where(decl.ensures, Holds)
           O == Where(decl.ensures, Open)
           F == Where(decl.ensures, Refuted)
<1>1. R \in SUBSET DOMAIN decl.requires /\ Where(decl.requires, Undecided) = DOMAIN decl.requires \ R
  BY DEF Where, Decided
<1>2. Where(decl.requires, Undecided) \in SUBSET DOMAIN decl.requires
  BY DEF Where
<1>3. H \in SUBSET DOMAIN decl.ensures /\ O \in SUBSET DOMAIN decl.ensures /\ F \in SUBSET DOMAIN decl.ensures
  BY DEF Where
<1>4. H \cap O = {} /\ H \cup O = DOMAIN decl.ensures \ F
  BY DEF Where, Refuted, Holds, Open
<1> HIDE DEF R, H, O, F
<1>5. Cardinality(F) + Cardinality(DOMAIN decl.ensures \ F) = Len(decl.ensures)
  BY <1>3, Halves
<1>6. IsFiniteSet(H) /\ IsFiniteSet(O) /\ IsFiniteSet(F) /\ Cardinality(H) \in Nat /\ Cardinality(O) \in Nat /\ Cardinality(F) \in Nat
  BY <1>3, Halves
<1>7. Cardinality(H \cup O) = Cardinality(H) + Cardinality(O) - Cardinality({})
  BY <1>4, <1>6, FS_Union
<1>8. Cardinality(H) + Cardinality(O) + Cardinality(F) = Len(decl.ensures)
  <2>1. Cardinality(DOMAIN decl.ensures \ F) = Cardinality(H) + Cardinality(O) - Cardinality({})
    BY <1>4, <1>7
  <2>2. Cardinality({}) = 0
    BY FS_EmptySet
  <2> HIDE <1>4, <1>7
  <2> QED BY <1>5, <1>6, <2>1, <2>2
<1>9. /\ Cardinality(R) \in Nat /\ Cardinality(Where(decl.requires, Undecided)) \in Nat
      /\ Cardinality(R) + Cardinality(Where(decl.requires, Undecided)) = Len(decl.requires)
  BY <1>1, <1>2, Halves
<1> QED BY <1>6, <1>8, <1>9 DEF Count, R, H, O, F

-----------------------------------------------------------------------------
(* Types.                                                                  *)

Visit == VisitSynthesized \/ VisitFn \/ VisitFlow \/ VisitEntity \/ VisitOther \/ VisitEmptyMachine

LEMMA Visiting ==
  ASSUME TypeOK, Visit
  PROVE  /\ at \in Decls /\ at' = at + 1 /\ phase = "walk"
         /\ UNCHANGED <<program, phase, queue, visited, unreached>>
<1>1. phase = "walk" /\ at <= Len(decls) /\ at' = at + 1 /\ UNCHANGED <<program, phase, queue, visited, unreached>>
  BY DEF Visit, VisitSynthesized, VisitFn, VisitFlow, VisitEntity, VisitOther, VisitEmptyMachine, Visits, search
<1>2. at \in Decls
  BY <1>1, DeclTypes DEF TypeOK, Decls
<1> QED BY <1>1, <1>2

\* What a step finds is about the declaration it has come to.
Findings == errors \cup warnings \cup diagnostics
FindsHere == \A d \in Findings' : d \in Findings \/ d.decl = at

LEMMA VisitFindsHere ==
  ASSUME Visit
  PROVE  FindsHere
<1>1. \A d \in RequireWarnings \cup RequireDiagnostics \cup Remarks \cup ContractErrors \cup ContractWarnings : d.decl = at
  <2> DEFINE Here(S) == \A d \in S : d.decl = at
  <2>1. \A k, w : Found(k, w).decl = at
    BY DEF Found
  <2> HIDE DEF Here
  <2>2. ASSUME NEW k, NEW W PROVE Here({Found(k, w) : w \in W})
    BY <2>1 DEF Here
  <2>3. ASSUME NEW A, NEW B, Here(A), Here(B) PROVE Here(A \cup B)
    BY <2>3 DEF Here
  <2>4. Here(RequireWarnings) /\ Here(RequireDiagnostics)
    BY <2>2, <2>3, Zenon DEF RequireWarnings, RequireDiagnostics, AllFound
  <2>5. Here(Remarks)
    BY <2>2, <2>3, Zenon DEF Remarks
  <2>6. Here(ContractErrors)
    BY <2>2, <2>3, Zenon DEF ContractErrors, AllFound
  <2>7. Here(ContractWarnings)
    BY <2>2, <2>3, <2>4, Zenon DEF ContractWarnings, AllFound
  <2> QED BY <2>4, <2>5, <2>6, <2>7 DEF Here
<1>2. Found("synthesized", 0).decl = at
  BY DEF Found
<1>3. CASE VisitSynthesized
  BY <1>1, <1>2, <1>3 DEF VisitSynthesized, FindsHere, Findings
<1>4. CASE VisitFn
  BY <1>1, <1>4 DEF VisitFn, FindsHere, Findings
<1>5. CASE VisitFlow
  <2>1. \A d \in AllFound("UnsatisfiableRequire", InlineRequires(decl.steps), LiteralFalse) : d.decl = at
    BY DEF AllFound, Found
  <2>2. \A d \in {Found("no rollback", i) : i \in {j \in DOMAIN decl.steps : ~decl.steps[j].undo}} : d.decl = at
    <3>1. \A k, w : Found(k, w).decl = at
      BY DEF Found
    <3> QED BY <3>1, Zenon
  <2>3. /\ errors' = errors \cup ContractErrors \cup AllFound("UnsatisfiableRequire", InlineRequires(decl.steps), LiteralFalse)
        /\ warnings' = warnings \cup ContractWarnings \cup Remarks
                         \cup {Found("no rollback", i) : i \in {j \in DOMAIN decl.steps : ~decl.steps[j].undo}}
        /\ diagnostics' = diagnostics \cup RequireDiagnostics
    BY <1>5 DEF VisitFlow
  <2> QED BY <1>1, <2>1, <2>2, <2>3 DEF FindsHere, Findings
<1>6. CASE VisitEntity
  BY <1>6 DEF VisitEntity, FindsHere, Findings, AllFound, Found
<1>7. CASE VisitOther \/ VisitEmptyMachine
  BY <1>7 DEF VisitOther, VisitEmptyMachine, FindsHere, Findings
<1> QED BY <1>3, <1>4, <1>5, <1>6, <1>7 DEF Visit

LEMMA VisitCounts ==
  ASSUME TypeOK, Visit
  PROVE  verified' \in Nat /\ unverified' \in Nat
<1>1. /\ at \in Decls /\ program \in DOMAIN Programs /\ verified \in Nat /\ unverified \in Nat
  BY Visiting DEF TypeOK
<1>2. /\ decl.kind \in {"fn", "flow"} => IsList(decl.requires) /\ IsList(decl.ensures)
      /\ decl.kind = "flow" => IsList(InlineRequires(decl.steps))
      /\ decl.kind = "entity" => IsList(decl.invariants)
  BY <1>1, DeclTypes DEF decl
<1>3. CASE VisitSynthesized
  <2>1. IsList(decl.requires) /\ IsList(decl.ensures)
    BY <1>2, <1>3 DEF VisitSynthesized, Visits
  <2>2. Count(decl.requires, Decided) \in Nat /\ Count(decl.requires, Undecided) \in Nat /\ Len(decl.ensures) \in Nat
    BY <2>1, ClauseCounts DEF IsList
  <2> QED BY <1>1, <1>3, <2>2 DEF VisitSynthesized
<1>4. CASE VisitFn \/ VisitFlow
  <2>1. IsList(decl.requires) /\ IsList(decl.ensures)
    BY <1>2, <1>4 DEF VisitFn, VisitFlow, Visits
  <2>2. ContractVerified \in Nat /\ ContractUnverified \in Nat
    <3>1. /\ Count(decl.requires, Decided) \in Nat /\ Count(decl.requires, Undecided) \in Nat
          /\ Count(decl.ensures, Holds) \in Nat /\ Count(decl.ensures, Open) \in Nat
      BY <2>1, ClauseCounts
    <3> QED BY <3>1 DEF ContractVerified, ContractUnverified
  <2>3. VisitFlow => Len(InlineRequires(decl.steps)) \in Nat
    BY <1>2 DEF VisitFlow, Visits, IsList
  <2>4. CASE VisitFn
    BY <1>1, <2>2, <2>4 DEF VisitFn
  <2>5. CASE VisitFlow
    <3>1. verified' = verified + ContractVerified /\ unverified' = unverified + ContractUnverified + Len(InlineRequires(decl.steps))
      BY <2>5 DEF VisitFlow
    <3> QED BY <1>1, <2>2, <2>3, <2>5, <3>1
  <2> QED BY <1>4, <2>4, <2>5
<1>5. CASE VisitEntity
  BY <1>1, <1>2, <1>5 DEF VisitEntity, Visits, IsList
<1>6. CASE VisitOther \/ VisitEmptyMachine
  BY <1>1, <1>6 DEF VisitOther, VisitEmptyMachine, counts
<1> QED BY <1>3, <1>4, <1>5, <1>6 DEF Visit

LEMMA InitTypes == Init => TypeOK
<1> SUFFICES ASSUME Init PROVE TypeOK
  OBVIOUS
<1>1. program \in DOMAIN Programs /\ Len(decls) \in Nat
  BY DeclTypes DEF Init
<1> QED BY <1>1 DEF Init, TypeOK

\* A machine is searched in the states of its transitions.
Searching == phase \in {"forward", "backward"}

LEMMA SearchedMachine ==
  ASSUME TypeOK, Searching
  PROVE  /\ at \in Kind("state") /\ at \in Decls /\ Len(decl.transitions) \in Nat /\ Len(decl.transitions) > 0
         /\ Initial(at) \in States(at) /\ visited \subseteq States(at)
<1>1. /\ at \in Kind("state") /\ at \in Decls /\ Len(decl.transitions) > 0 /\ visited \subseteq States(at)
      /\ program \in DOMAIN Programs
  BY DEF TypeOK, Searching, Kind
<1>2. Len(decl.transitions) \in Nat
  BY <1>1, DeclTypes DEF Kind, decl
<1>3. 1 \in Steps(at)
  BY <1>1, <1>2 DEF Steps, decl
<1> QED BY <1>1, <1>2, <1>3 DEF Initial, States, Sources

LEMMA FirstMachine ==
  ASSUME TypeOK, SearchForward
  PROVE  at \in Kind("state") /\ Initial(at) \in States(at)
<1>1. at <= Len(decls) /\ decl.kind = "state" /\ Len(decl.transitions) > 0 /\ at >= 1 /\ at \in Nat /\ program \in DOMAIN Programs
  BY DeclTypes DEF TypeOK, SearchForward, Visits
<1>2. at \in Kind("state")
  BY <1>1, DeclTypes DEF Kind, Decls, decl
<1>3. Len(decl.transitions) \in Nat
  BY <1>1, <1>2, DeclTypes DEF Kind, decl
<1>4. 1 \in Steps(at)
  BY <1>1, <1>3 DEF Steps, decl
<1> QED BY <1>2, <1>4 DEF Initial, States, Sources

LEMMA TypesKept == TypeOK /\ [Next]_vars => TypeOK'
<1> SUFFICES ASSUME TypeOK, [Next]_vars PROVE TypeOK'
  OBVIOUS
<1>1. /\ program \in DOMAIN Programs /\ Len(decls) \in Nat /\ at \in Nat /\ at >= 1 /\ at <= Len(decls) + 1
      /\ \A d \in Findings : d.decl \in Decls
      /\ verified \in Nat /\ unverified \in Nat
  BY DeclTypes DEF TypeOK, Findings
<1>2. ASSUME program' = program PROVE decls' = decls /\ Decls' = Decls /\ Kind("state")' = Kind("state")
  BY <1>2 DEF decls, Decls, Kind
<1>3. CASE Visit
  <2>1. at \in Decls /\ at' = at + 1 /\ phase = "walk" /\ UNCHANGED <<program, phase, queue, visited, unreached>>
    BY <1>3, Visiting
  <2>2. \A d \in Findings' : d.decl \in Decls'
    BY <1>1, <1>2, <1>3, <2>1, VisitFindsHere DEF FindsHere
  <2>3. verified' \in Nat /\ unverified' \in Nat
    BY <1>3, VisitCounts
  <2>4. at' \in 1..(Len(decls) + 1)
    BY <1>1, <2>1 DEF Decls
  <2> QED BY <1>1, <1>2, <2>1, <2>2, <2>3, <2>4 DEF TypeOK, Findings
<1>4. CASE SearchForward
  <2>1. at \in Kind("state") /\ Initial(at) \in States(at)
    BY <1>4, FirstMachine
  <2>2. States(at)' = States(at) /\ decl' = decl
    BY <1>4, <1>2 DEF SearchForward, States, Sources, Targets, Steps, decl
  <2>3. visited' \subseteq States(at)' /\ queue' \subseteq visited'
    BY <1>4, <2>1, <2>2 DEF SearchForward
  <2> QED BY <1>1, <1>2, <1>4, <2>1, <2>2, <2>3 DEF SearchForward, TypeOK, counts, Findings
<1>5. CASE ExpandForward \/ ExpandBackward
  <2>1. Searching /\ queue \subseteq visited /\ visited \subseteq States(at)
    BY <1>5 DEF ExpandForward, ExpandBackward, Searching, TypeOK
  <2>2. UNCHANGED <<program, at, phase, unreached, verified, unverified, errors, warnings, diagnostics>>
    BY <1>5 DEF ExpandForward, ExpandBackward, counts
  <2>3. Expand(Onward(at)) \/ Expand(Backward(at))
    BY <1>5 DEF ExpandForward, ExpandBackward
  <2>4. visited' \subseteq States(at) /\ queue' \subseteq visited'
    BY <2>1, <2>3, MachineSteps DEF Expand
  <2>5. States(at)' = States(at) /\ decl' = decl
    BY <2>2, <1>2 DEF States, Sources, Targets, Steps, decl
  <2>6. at \in Kind("state") /\ Len(decl.transitions) > 0
    BY <2>1 DEF TypeOK, Searching
  <2> QED BY <1>1, <1>2, <2>1, <2>2, <2>4, <2>5, <2>6 DEF TypeOK, Searching, Findings
<1>6. CASE SearchBackward
  <2>1. Searching /\ phase' = "backward" /\ UNCHANGED <<program, at, verified, unverified, errors, warnings>>
    BY <1>6 DEF SearchBackward, Searching, counts
  <2>2. \A d \in Findings' : d \in Findings \/ d.decl = at
    BY <1>6 DEF SearchBackward, Findings, Found
  <2>3. States(at)' = States(at) /\ decl' = decl
    BY <2>1, <1>2 DEF States, Sources, Targets, Steps, decl
  <2>4. visited' \subseteq States(at) /\ queue' \subseteq visited'
    BY <1>6, MachineSteps DEF SearchBackward
  <2>5. at \in Kind("state") /\ at \in Decls /\ Len(decl.transitions) > 0
    BY <2>1, SearchedMachine
  <2>6. \A d \in Findings' : d.decl \in Decls'
    BY <1>1, <1>2, <2>1, <2>2, <2>5
  <2> QED BY <1>1, <1>2, <2>1, <2>3, <2>4, <2>5, <2>6 DEF TypeOK, Findings
<1>7. CASE ReportStuck
  <2>1. Searching /\ phase' = "walk" /\ queue' = {} /\ visited' = {} /\ at' = at + 1 /\ UNCHANGED <<program, verified, unverified, errors, warnings>>
    BY <1>7 DEF ReportStuck, Searching, counts
  <2>2. \A d \in Findings' : d \in Findings \/ d.decl = at
    BY <1>7 DEF ReportStuck, Findings, Found
  <2>3. at \in Decls
    BY <2>1, SearchedMachine
  <2>4. \A d \in Findings' : d.decl \in Decls'
    BY <1>1, <1>2, <2>1, <2>2, <2>3
  <2>5. at' \in 1..(Len(decls) + 1)
    BY <1>1, <2>1, <2>3 DEF Decls
  <2> QED BY <1>1, <1>2, <2>1, <2>4, <2>5 DEF TypeOK, Findings
<1>8. CASE Finish
  <2>1. phase' = "done" /\ at > Len(decls) /\ UNCHANGED <<program, at, queue, visited, unreached, verified, unverified, errors, diagnostics>>
    BY <1>8 DEF Finish, counts
  <2>2. \A d \in warnings' : d \in warnings \/ d.decl \in Downgraded
    <3>1. \A i \in Downgraded : [kind |-> "TRUST DOWNGRADE", decl |-> i, what |-> 0].decl = i
      OBVIOUS
    <3>2. warnings' = warnings \cup {[kind |-> "TRUST DOWNGRADE", decl |-> i, what |-> 0] : i \in Downgraded}
      BY <1>8 DEF Finish
    <3> QED BY <3>1, <3>2, Zenon
  <2>3. Downgraded \subseteq Decls
    BY DEF Downgraded, Fns, Kind
  <2>4. \A d \in Findings' : d.decl \in Decls'
    BY <1>1, <1>2, <2>1, <2>2, <2>3 DEF Findings
  <2> QED BY <1>1, <1>2, <1>8, <2>1, <2>4 DEF Finish, TypeOK, Findings
<1>9. CASE UNCHANGED vars
  BY <1>1, <1>9 DEF vars, TypeOK, decls, decl, Decls, Kind, States, Sources, Targets, Steps
<1> QED BY <1>3, <1>4, <1>5, <1>6, <1>7, <1>8, <1>9 DEF Next, Visit, Returned

\* For every program and solver the types hold: a machine is searched in its
\* own states, and what is found is about declarations of the program.
THEOREM TypeCorrect == Spec => []TypeOK
BY InitTypes, TypesKept, PTL DEF Spec

-----------------------------------------------------------------------------
(* The searches of a state machine, and what is diagnosed.                 *)

\* In a search all that was found can be reached, and what was found and is not
\* in the queue has been expanded.
Searched(from, next) ==
  from \subseteq visited /\ visited \subseteq Closure(from, next) /\ \A s \in visited \ queue : next[s] \subseteq visited

SearchInv ==
  \A i \in Kind("state") : i = at =>
    /\ phase = "forward" => Searched({Initial(i)}, Onward(i))
    /\ phase = "backward" => Searched(Terminal(i), Backward(i)) /\ unreached = States(i) \ Reachable(i)

Missed(i) == States(i) \ Reachable(i)
Dead(i) == {k \in Steps(i) : decls[i].transitions[k].from \notin Reachable(i)}
Past(i) == i < at \/ (i = at /\ phase = "backward")

DiagnosedInv ==
  \A i \in Kind("state") : Len(decls[i].transitions) > 0 =>
    /\ Diagnosed("E201_UNREACHABLE_STATE", i) = IF Past(i) THEN Missed(i) ELSE {}
    /\ Diagnosed("W202_DEAD_ACTION", i) = IF Past(i) THEN Dead(i) ELSE {}
    /\ Diagnosed("E203_LIVENESS_VIOLATION", i) = IF i < at THEN Stuck(i) ELSE {}

MachineInv == TypeOK /\ SearchInv /\ DiagnosedInv

LEMMA SearchStarts ==
  ASSUME NEW from, NEW next, from \subseteq DOMAIN next, visited = from, queue = from
  PROVE  Searched(from, next)
BY ClosureHasFrom DEF Searched

LEMMA SearchGoesOn ==
  ASSUME NEW from, NEW next, \A s \in DOMAIN next : next[s] \subseteq DOMAIN next,
         queue \subseteq visited, Searched(from, next), Expand(next)
  PROVE  Searched(from, next)'
<1>1. PICK s \in queue : visited' = visited \cup next[s] /\ queue' = (queue \ {s}) \cup (next[s] \ visited)
  BY DEF Expand
<1>2. Closed(Closure(from, next), next)
  BY ClosureClosed
<1>3. visited' \subseteq Closure(from, next)
  BY <1>1, <1>2 DEF Searched, Closed
<1>4. \A t \in visited' \ queue' : next[t] \subseteq visited'
  BY <1>1 DEF Searched
<1> QED BY <1>1, <1>3, <1>4 DEF Searched

\* When the queue is empty everything that can be reached has been found.
LEMMA SearchEnds ==
  ASSUME NEW from, NEW next, Searched(from, next), queue = {}
  PROVE  visited = Closure(from, next)
<1>1. visited \subseteq DOMAIN next
  BY DEF Searched, Closure
<1>2. visited \in SUBSET DOMAIN next /\ from \subseteq visited /\ Closed(visited, next)
  BY <1>1 DEF Searched, Closed
<1>3. Closure(from, next) \subseteq visited
  BY <1>2, ClosureLeast
<1> QED BY <1>3 DEF Searched

\* A step diagnoses W and V of the declaration it has come to.
Diagnoses(kind, W, other, V) ==
  diagnostics' = diagnostics \cup {Found(kind, w) : w \in W} \cup {Found(other, v) : v \in V}

LEMMA DiagnosedAdds ==
  ASSUME NEW kind, NEW W, NEW other, NEW V, kind # other, Diagnoses(kind, W, other, V),
         NEW k, NEW i
  PROVE  Diagnosed(k, i)' = Diagnosed(k, i) \cup
           (IF i # at THEN {} ELSE IF k = kind THEN W ELSE IF k = other THEN V ELSE {})
<1> DEFINE New == IF i # at THEN {} ELSE IF k = kind THEN W ELSE IF k = other THEN V ELSE {}
<1> USE DEF Diagnoses
<1>1. \A c, w : Found(c, w).kind = c /\ Found(c, w).decl = at /\ Found(c, w).what = w
  BY DEF Found
<1>2. ASSUME NEW d \in diagnostics', d \notin diagnostics, d.kind = k, d.decl = i PROVE d.what \in New
  <2>1. (\E w \in W : d = Found(kind, w)) \/ (\E v \in V : d = Found(other, v))
    BY <1>2
  <2>2. CASE \E w \in W : d = Found(kind, w)
    <3>1. PICK w \in W : d = Found(kind, w)
      BY <2>2
    <3> QED BY <1>1, <1>2, <3>1
  <2>3. CASE \E v \in V : d = Found(other, v)
    <3>1. PICK v \in V : d = Found(other, v)
      BY <2>3
    <3> QED BY <1>1, <1>2, <3>1
  <2> QED BY <2>1, <2>2, <2>3
<1>3. ASSUME NEW w \in New PROVE \E d \in diagnostics' : d.kind = k /\ d.decl = i /\ d.what = w
  <2>1. i = at /\ ((k = kind /\ w \in W) \/ (k = other /\ w \in V))
    BY <1>3
  <2>2. Found(k, w) \in diagnostics'
    BY <2>1
  <2> QED BY <1>1, <2>1, <2>2
<1>4. diagnostics \subseteq diagnostics'
  OBVIOUS
<1>5. Diagnosed(k, i)' = {d.what : d \in {x \in diagnostics' : x.kind = k /\ x.decl = i}}
  BY DEF Diagnosed
<1> HIDE DEF New
<1>6. New \subseteq Diagnosed(k, i)'
  BY <1>3, <1>5
<1>7. Diagnosed(k, i) \subseteq Diagnosed(k, i)'
  BY <1>4, <1>5 DEF Diagnosed
<1>8. ASSUME NEW w \in Diagnosed(k, i)', w \notin Diagnosed(k, i) PROVE w \in New
  <2>1. PICK d \in diagnostics' : d.kind = k /\ d.decl = i /\ d.what = w
    BY <1>5, <1>8
  <2>2. d \notin diagnostics
    BY <1>8, <2>1 DEF Diagnosed
  <2> QED BY <1>2, <2>1, <2>2
<1>9. Diagnosed(k, i)' = Diagnosed(k, i) \cup New
  BY <1>6, <1>7, <1>8
<1> QED BY <1>9 DEF New

\* A program keeps its machines.
LEMMA SameMachines ==
  ASSUME program' = program
  PROVE  /\ decls' = decls /\ Kind("state")' = Kind("state")
         /\ \A i : /\ States(i)' = States(i) /\ Terminal(i)' = Terminal(i) /\ Initial(i)' = Initial(i)
                   /\ Onward(i)' = Onward(i) /\ Backward(i)' = Backward(i) /\ Reachable(i)' = Reachable(i)
                   /\ Stuck(i)' = Stuck(i) /\ Missed(i)' = Missed(i) /\ Dead(i)' = Dead(i)
<1>1. decls' = decls
  BY DEF decls
<1>2. \A i : States(i)' = States(i) /\ Terminal(i)' = Terminal(i) /\ Initial(i)' = Initial(i)
  BY <1>1 DEF States, Terminal, Initial, Sources, Targets, Steps
<1>3. \A i : Onward(i)' = Onward(i) /\ Backward(i)' = Backward(i)
  BY <1>1, <1>2 DEF Onward, Backward, Successors, Predecessors, Steps
<1>4. \A i : Reachable(i)' = Reachable(i)
  BY <1>2, <1>3 DEF Reachable, Closure, Closed
<1>5. \A i : Stuck(i)' = Stuck(i)
  BY <1>2, <1>3, <1>4 DEF Stuck, From, Closure, Closed
<1>6. \A i : Missed(i)' = Missed(i) /\ Dead(i)' = Dead(i)
  BY <1>1, <1>2, <1>4 DEF Missed, Dead, Steps
<1>7. Kind("state")' = Kind("state")
  BY <1>1 DEF Kind, Decls
<1> QED BY <1>1, <1>2, <1>3, <1>4, <1>5, <1>6, <1>7

LEMMA InitMachines == Init => MachineInv
<1> SUFFICES ASSUME Init PROVE MachineInv
  OBVIOUS
<1>1. TypeOK /\ \A i \in Kind("state") : ~(i < 1)
  BY InitTypes, DeclTypes DEF TypeOK, Kind
<1>2. DiagnosedInv
  BY <1>1 DEF Init, DiagnosedInv, Diagnosed, Past
<1> QED BY <1>1, <1>2 DEF Init, MachineInv, SearchInv

LEMMA SearchKept == MachineInv /\ [Next]_vars => SearchInv'
<1> SUFFICES ASSUME MachineInv, [Next]_vars PROVE SearchInv'
  OBVIOUS
<1> USE DEF MachineInv
<1>1. program' = program
  BY DEF Next, vars, VisitSynthesized, VisitFn, VisitFlow, VisitEntity, VisitOther, VisitEmptyMachine, SearchForward,
         ExpandForward, SearchBackward, ExpandBackward, ReportStuck, Finish, Returned
<1>2. SUFFICES ASSUME NEW i \in Kind("state"), i = at', phase' \in {"forward", "backward"}
               PROVE  /\ phase' = "forward" => Searched({Initial(i)}, Onward(i))'
                      /\ phase' = "backward" => Searched(Terminal(i), Backward(i))' /\ unreached' = States(i) \ Reachable(i)
  BY <1>1, SameMachines DEF SearchInv
<1>3. /\ States(i)' = States(i) /\ Terminal(i)' = Terminal(i) /\ Initial(i)' = Initial(i)
      /\ Onward(i)' = Onward(i) /\ Backward(i)' = Backward(i) /\ Reachable(i)' = Reachable(i)
  BY <1>1, SameMachines
<1>4. CASE SearchForward
  <2>1. at = i /\ phase' = "forward" /\ visited' = {Initial(i)} /\ queue' = {Initial(i)}
    BY <1>2, <1>4 DEF SearchForward
  <2>2. {Initial(i)} \subseteq DOMAIN Onward(i)
    BY <1>4, <2>1, FirstMachine, MachineSteps
  <2>3. {Initial(i)} \subseteq Closure({Initial(i)}, Onward(i))
    BY <2>2, ClosureHasFrom
  <2> QED BY <1>3, <2>1, <2>3 DEF Searched, Closure, Closed
<1>5. CASE ExpandForward
  <2>1. at = i /\ phase = "forward" /\ phase' = "forward" /\ Expand(Onward(i)) /\ queue \subseteq visited
    BY <1>2, <1>5 DEF ExpandForward, TypeOK
  <2>2. Searched({Initial(i)}, Onward(i))
    BY <2>1 DEF SearchInv
  <2>3. PICK next : next = Onward(i)
    OBVIOUS
  <2>4. PICK from : from = {Initial(i)}
    OBVIOUS
  <2>5. Searched(from, next)'
    BY <2>1, <2>2, <2>3, <2>4, MachineSteps, SearchGoesOn
  <2> QED BY <1>3, <2>1, <2>3, <2>4, <2>5 DEF Searched, Closure, Closed
<1>6. CASE SearchBackward
  <2>1. /\ at = i /\ phase = "forward" /\ phase' = "backward" /\ visited' = Terminal(i) /\ queue' = Terminal(i)
        /\ queue = {} /\ unreached' = (States(i) \ visited) \ {Initial(i)}
    BY <1>2, <1>6 DEF SearchBackward
  <2>2. Searched({Initial(i)}, Onward(i))
    BY <2>1 DEF SearchInv
  <2>3. visited = Reachable(i) /\ Initial(i) \in visited
    <3>1. visited = Closure({Initial(i)}, Onward(i))
      BY <2>1, <2>2, SearchEnds
    <3> QED BY <2>2, <3>1 DEF Reachable, Searched
  <2>4. Terminal(i) \subseteq Closure(Terminal(i), Backward(i))
    BY MachineSteps, ClosureHasFrom
  <2> QED BY <1>3, <2>1, <2>3, <2>4 DEF Searched, Closure, Closed
<1>7. CASE ExpandBackward
  <2>1. /\ at = i /\ phase = "backward" /\ phase' = "backward" /\ Expand(Backward(i)) /\ queue \subseteq visited
        /\ unreached' = unreached
    BY <1>2, <1>7 DEF ExpandBackward, TypeOK
  <2>2. Searched(Terminal(i), Backward(i)) /\ unreached = States(i) \ Reachable(i)
    BY <2>1 DEF SearchInv
  <2>3. PICK next : next = Backward(i)
    OBVIOUS
  <2>4. PICK from : from = Terminal(i)
    OBVIOUS
  <2>5. Searched(from, next)'
    BY <2>1, <2>2, <2>3, <2>4, MachineSteps, SearchGoesOn
  <2> QED BY <1>3, <2>1, <2>2, <2>3, <2>4, <2>5 DEF Searched, Closure, Closed
<1>8. CASE Visit \/ ReportStuck \/ Finish
  <2>1. phase' \notin {"forward", "backward"}
    BY <1>8, Visiting DEF ReportStuck, Finish
  <2> QED BY <1>2, <2>1
<1>9. CASE UNCHANGED vars
  BY <1>2, <1>3, <1>9 DEF vars, SearchInv, Searched, Closure, Closed
<1> QED BY <1>4, <1>5, <1>6, <1>7, <1>8, <1>9 DEF Next, Visit, Returned

LEMMA DiagnosedKept == MachineInv /\ [Next]_vars => DiagnosedInv'
<1> SUFFICES ASSUME MachineInv, [Next]_vars PROVE DiagnosedInv'
  OBVIOUS
<1> USE DEF MachineInv
<1>1. program' = program
  BY DEF Next, vars, VisitSynthesized, VisitFn, VisitFlow, VisitEntity, VisitOther, VisitEmptyMachine, SearchForward,
         ExpandForward, SearchBackward, ExpandBackward, ReportStuck, Finish, Returned
<1> DEFINE U == "E201_UNREACHABLE_STATE"
           D == "W202_DEAD_ACTION"
           L == "E203_LIVENESS_VIOLATION"
<1>2. SUFFICES ASSUME NEW i \in Kind("state"), Len(decls[i].transitions) > 0
               PROVE  /\ Diagnosed(U, i)' = IF Past(i)' THEN Missed(i) ELSE {}
                      /\ Diagnosed(D, i)' = IF Past(i)' THEN Dead(i) ELSE {}
                      /\ Diagnosed(L, i)' = IF i < at' THEN Stuck(i) ELSE {}
  BY <1>1, SameMachines DEF DiagnosedInv
<1>3. /\ Diagnosed(U, i) = IF Past(i) THEN Missed(i) ELSE {}
      /\ Diagnosed(D, i) = IF Past(i) THEN Dead(i) ELSE {}
      /\ Diagnosed(L, i) = IF i < at THEN Stuck(i) ELSE {}
  BY <1>2 DEF DiagnosedInv
<1>4. /\ i \in Nat /\ i >= 1 /\ i <= Len(decls) /\ at \in Nat /\ Len(decls) \in Nat /\ decls[i].kind = "state"
  BY DeclTypes DEF TypeOK, Kind
<1>5. diagnostics' = diagnostics =>
        Diagnosed(U, i)' = Diagnosed(U, i) /\ Diagnosed(D, i)' = Diagnosed(D, i) /\ Diagnosed(L, i)' = Diagnosed(L, i)
  BY DEF Diagnosed
<1>6. CASE Visit
  <2>1. at' = at + 1 /\ phase' = phase /\ phase = "walk" /\ i # at
    <3>1. at' = at + 1 /\ phase' = phase /\ phase = "walk"
      BY <1>6, Visiting
    <3>2. Visits("fn") \/ Visits("flow") \/ Visits("entity") \/ Visits("capability") \/ Visits("main")
            \/ (Visits("state") /\ Len(decl.transitions) = 0)
      BY <1>6 DEF Visit, VisitSynthesized, VisitFn, VisitFlow, VisitEntity, VisitOther, VisitEmptyMachine
    <3>3. i # at
      BY <1>2, <1>4, <3>2 DEF Visits, decl
    <3> QED BY <3>1, <3>3
  <2>2. /\ i < at' <=> i < at
        /\ Past(i)' <=> Past(i)
    BY <1>4, <2>1 DEF Past
  <2>3. CASE diagnostics' = diagnostics
    BY <1>3, <1>5, <2>2, <2>3
  <2>4. CASE diagnostics' = diagnostics \cup RequireDiagnostics
    <3> DEFINE W == Where(decl.requires, Conditional)
    <3>1. Diagnoses("W301_REQUIRE_NOT_ALWAYS_TRUE", W, "none", {})
      BY <2>4 DEF RequireDiagnostics, AllFound, Diagnoses
    <3> HIDE DEF W
    <3>2. \A k : Diagnosed(k, i)' = Diagnosed(k, i) \cup
             (IF i # at THEN {} ELSE IF k = "W301_REQUIRE_NOT_ALWAYS_TRUE" THEN W ELSE IF k = "none" THEN {} ELSE {})
      BY <3>1, DiagnosedAdds
    <3>3. \A k : Diagnosed(k, i)' = Diagnosed(k, i)
      BY <2>1, <3>2
    <3> QED BY <1>3, <2>2, <3>3
  <2> QED BY <1>6, <2>3, <2>4
        DEF Visit, VisitSynthesized, VisitFn, VisitFlow, VisitEntity, VisitOther, VisitEmptyMachine
<1>7. CASE SearchForward \/ ExpandForward \/ ExpandBackward
  <2>1. at' = at /\ diagnostics' = diagnostics /\ (phase' = "backward" <=> phase = "backward")
    BY <1>7 DEF SearchForward, ExpandForward, ExpandBackward, Visits
  <2>2. Past(i)' <=> Past(i)
    BY <2>1 DEF Past
  <2> QED BY <1>3, <1>5, <2>1, <2>2
<1>8. CASE SearchBackward
  <2> DEFINE lost == (States(at) \ visited) \ {Initial(at)}
  <2>1. /\ at' = at /\ phase = "forward" /\ phase' = "backward" /\ queue = {}
        /\ Diagnoses(U, lost, D, DeadActions(lost))
    BY <1>8 DEF SearchBackward, Diagnoses
  <2>2. CASE i = at
    <3>1. Searched({Initial(i)}, Onward(i))
      BY <2>1, <2>2 DEF SearchInv
    <3>2. visited = Reachable(i) /\ Initial(i) \in visited
      <4>1. visited = Closure({Initial(i)}, Onward(i))
        BY <2>1, <3>1, SearchEnds
      <4> QED BY <3>1, <4>1 DEF Reachable, Searched
    <3>3. lost = Missed(i)
      BY <2>2, <3>2 DEF Missed
    <3>4. DeadActions(lost) = Dead(i)
      <4>1. \A k \in Steps(i) : decls[i].transitions[k].from \in States(i)
        BY DEF States, Sources
      <4>2. DeadActions(Missed(i)) = {k \in Steps(i) : decls[i].transitions[k].from \in Missed(i)}
        BY <2>2 DEF DeadActions, decl
      <4> QED BY <3>3, <4>1, <4>2 DEF Missed, Dead
    <3> HIDE DEF lost
    <3>5. \A k : Diagnosed(k, i)' = Diagnosed(k, i) \cup
             (IF i # at THEN {} ELSE IF k = U THEN lost ELSE IF k = D THEN DeadActions(lost) ELSE {})
      BY <2>1, DiagnosedAdds
    <3>6. /\ Diagnosed(U, i)' = Diagnosed(U, i) \cup lost /\ Diagnosed(D, i)' = Diagnosed(D, i) \cup DeadActions(lost)
          /\ Diagnosed(L, i)' = Diagnosed(L, i)
      BY <2>2, <3>5
    <3>7. ~Past(i) /\ Past(i)' /\ ~(i < at)
      BY <1>4, <2>1, <2>2 DEF Past
    <3> QED BY <1>3, <2>1, <3>3, <3>4, <3>6, <3>7
  <2>3. CASE i # at
    <3> HIDE DEF lost
    <3>1. \A k : Diagnosed(k, i)' = Diagnosed(k, i) \cup
             (IF i # at THEN {} ELSE IF k = U THEN lost ELSE IF k = D THEN DeadActions(lost) ELSE {})
      BY <2>1, DiagnosedAdds
    <3>2. \A k : Diagnosed(k, i)' = Diagnosed(k, i)
      BY <2>3, <3>1
    <3>3. Past(i)' <=> Past(i)
      BY <2>1, <2>3 DEF Past
    <3> QED BY <1>3, <2>1, <3>2, <3>3
  <2> QED BY <2>2, <2>3
<1>9. CASE ReportStuck
  <2> DEFINE stuck == ((States(at) \ Terminal(at)) \ unreached) \ visited
  <2>1. /\ at' = at + 1 /\ phase = "backward" /\ phase' = "walk" /\ queue = {}
        /\ Diagnoses(L, stuck, "none", {})
    BY <1>9 DEF ReportStuck, Diagnoses
  <2>2. Past(i)' <=> Past(i)
    BY <1>4, <2>1 DEF Past
  <2>3. CASE i = at
    <3>1. Searched(Terminal(i), Backward(i)) /\ unreached = States(i) \ Reachable(i)
      BY <2>1, <2>3 DEF SearchInv
    <3>2. visited = CanTerminate(i)
      BY <2>1, <3>1, SearchEnds DEF CanTerminate
    <3>3. Initial(i) \in States(i)
      BY <2>1, <2>3, SearchedMachine DEF Searching
    <3>4. stuck = Stuck(i)
      BY <2>3, <3>1, <3>2, <3>3, StuckStates
    <3> HIDE DEF stuck
    <3>5. \A k : Diagnosed(k, i)' = Diagnosed(k, i) \cup
             (IF i # at THEN {} ELSE IF k = L THEN stuck ELSE IF k = "none" THEN {} ELSE {})
      BY <2>1, DiagnosedAdds
    <3>6. /\ Diagnosed(U, i)' = Diagnosed(U, i) /\ Diagnosed(D, i)' = Diagnosed(D, i)
          /\ Diagnosed(L, i)' = Diagnosed(L, i) \cup stuck
      <4>1. Diagnosed(U, i)' = Diagnosed(U, i) \cup {}
        BY <2>3, <3>5
      <4>2. Diagnosed(D, i)' = Diagnosed(D, i) \cup {}
        BY <2>3, <3>5
      <4>3. Diagnosed(L, i)' = Diagnosed(L, i) \cup stuck
        BY <2>3, <3>5
      <4> QED BY <4>1, <4>2, <4>3
    <3>7. ~(i < at) /\ i < at'
      BY <1>4, <2>1, <2>3
    <3> QED BY <1>3, <2>2, <3>4, <3>6, <3>7
  <2>4. CASE i # at
    <3> HIDE DEF stuck
    <3>1. \A k : Diagnosed(k, i)' = Diagnosed(k, i) \cup
             (IF i # at THEN {} ELSE IF k = L THEN stuck ELSE IF k = "none" THEN {} ELSE {})
      BY <2>1, DiagnosedAdds
    <3>2. \A k : Diagnosed(k, i)' = Diagnosed(k, i)
      BY <2>4, <3>1
    <3>3. i < at' <=> i < at
      BY <1>4, <2>1, <2>4
    <3> QED BY <1>3, <2>2, <3>2, <3>3
  <2> QED BY <2>3, <2>4
<1>10. CASE Finish
  <2>1. at' = at /\ diagnostics' = diagnostics /\ at > Len(decls)
    BY <1>10 DEF Finish
  <2>2. i < at /\ Past(i)' /\ Past(i)
    BY <1>4, <2>1 DEF Past
  <2> QED BY <1>3, <1>5, <2>1, <2>2
<1>11. CASE UNCHANGED vars
  BY <1>3, <1>5, <1>11 DEF vars, Past
<1> QED BY <1>6, <1>7, <1>8, <1>9, <1>10, <1>11 DEF Next, Visit, Returned

LEMMA MachineInvariant == Spec => []MachineInv
<1>1. MachineInv /\ [Next]_vars => MachineInv'
  BY TypesKept, SearchKept, DiagnosedKept DEF MachineInv
<1> QED BY <1>1, InitMachines, PTL DEF Spec

LEMMA MachinesDone ==
  ASSUME MachineInv, phase = "done", NEW i \in Kind("state")
  PROVE  i < at
<1>1. i \in Nat /\ i <= Len(decls) /\ Len(decls) \in Nat /\ at \in Nat /\ at > Len(decls)
  BY DeclTypes DEF MachineInv, TypeOK, Kind
<1> QED BY <1>1

\* For every program, the states diagnosed as unreachable and the actions
\* diagnosed as dead are exactly those that no path of transitions comes to
\* (verifier.rs:293-322).
THEOREM UnreachableAreExact == Spec => []UnreachableExact
<1>1. MachineInv => UnreachableExact
  BY MachinesDone DEF UnreachableExact, MachineInv, DiagnosedInv, Past, Missed, Dead
<1> QED BY <1>1, MachineInvariant, PTL

\* For every program, the states diagnosed as stuck are exactly the reachable
\* ones from which no terminal state can be reached: one search backwards from
\* all terminal states finds what a search forwards from each state would
\* (verifier.rs:324-346).
THEOREM StuckAreExact == Spec => []StuckExact
<1>1. MachineInv => StuckExact
  BY MachinesDone DEF StuckExact, MachineInv, DiagnosedInv
<1> QED BY <1>1, MachineInvariant, PTL

-----------------------------------------------------------------------------
(* The clauses counted.                                                    *)

\* What was refuted is about declarations that have been visited.
RefutedInv == IsFiniteSet(Refutations) /\ \A e \in Refutations : e.decl < at
CountInv == TypeOK /\ RefutedInv

LEMMA RefutedHere ==
  ASSUME IsFiniteSet(Where(decl.ensures, Refuted))
  PROVE  LET new == AllFound("ConstraintViolation", decl.ensures, Refuted)
         IN  /\ IsFiniteSet(new) /\ Cardinality(new) = Count(decl.ensures, Refuted)
             /\ \A e \in new : e.kind = "ConstraintViolation" /\ e.decl = at
<1> DEFINE W == Where(decl.ensures, Refuted)
           new == AllFound("ConstraintViolation", decl.ensures, Refuted)
           f == [w \in W |-> Found("ConstraintViolation", w)]
<1>1. \A w : LET e == Found("ConstraintViolation", w)
             IN  e.kind = "ConstraintViolation" /\ e.decl = at /\ e.what = w
  BY DEF Found
<1>2. new = {Found("ConstraintViolation", w) : w \in W}
  BY DEF AllFound
<1> HIDE DEF W, new
<1>3. f \in Surjection(W, new)
  BY <1>2 DEF Surjection
<1>4. f \in Injection(W, new)
  <2>1. \A a, b \in W : f[a] = f[b] => a = b
    BY <1>1
  <2> QED BY <1>3, <2>1 DEF Surjection, Injection, IsInjective
<1>5. IsFiniteSet(new) /\ Cardinality(new) = Cardinality(W)
  <2>1. IsFiniteSet(W)
    BY DEF W
  <2> HIDE DEF f
  <2> QED BY <1>3, <1>4, <2>1, FS_Surjection
<1>6. \A e \in new : e.kind = "ConstraintViolation" /\ e.decl = at
  BY <1>1, <1>2
<1> QED BY <1>5, <1>6 DEF W, new, Count

LEMMA InitCounts == Init => CountInv
<1> SUFFICES ASSUME Init PROVE CountInv
  OBVIOUS
<1>1. Refutations = {}
  BY DEF Init, Refutations
<1> QED BY <1>1, InitTypes, FS_EmptySet DEF CountInv, RefutedInv

LEMMA ContractSum ==
  ASSUME NEW d \in Nat, NEW u \in Nat, NEW h \in Nat, NEW o \in Nat, NEW f \in Nat, NEW old \in Nat,
         NEW r, NEW e, NEW new, d + u = r, h + o + f = e, new = old + f
  PROVE  (d + h) + (u + o) + new = old + r + e
OBVIOUS

\* Checking a contract refutes what it refutes and answers for every clause.
LEMMA ContractCounts ==
  ASSUME CountInv, at \in Decls, decl.kind \in {"fn", "flow"}, NEW E,
         \A e \in E : e.kind = "UnsatisfiableRequire", errors' = errors \cup ContractErrors \cup E
  PROVE  /\ IsFiniteSet(Refutations') /\ \A e \in Refutations' : e \in Refutations \/ e.decl = at
         /\ ContractVerified \in Nat /\ ContractUnverified \in Nat
         /\ Cardinality(Refutations) \in Nat /\ Cardinality(Refutations') \in Nat
         /\ ContractVerified + ContractUnverified + Cardinality(Refutations')
              = Cardinality(Refutations) + Len(decl.requires) + Len(decl.ensures)
<1> DEFINE new == AllFound("ConstraintViolation", decl.ensures, Refuted)
<1>1. program \in DOMAIN Programs /\ IsFiniteSet(Refutations) /\ \A e \in Refutations : e.decl < at
  BY DEF CountInv, TypeOK, RefutedInv
<1>2. IsList(decl.requires) /\ IsList(decl.ensures) /\ at \in Nat
  BY <1>1, DeclTypes DEF decl
<1>3. /\ Count(decl.requires, Decided) \in Nat /\ Count(decl.requires, Undecided) \in Nat
      /\ Count(decl.requires, Decided) + Count(decl.requires, Undecided) = Len(decl.requires)
      /\ Count(decl.ensures, Holds) \in Nat /\ Count(decl.ensures, Open) \in Nat
      /\ IsFiniteSet(Where(decl.ensures, Refuted)) /\ Count(decl.ensures, Refuted) \in Nat
      /\ Count(decl.ensures, Holds) + Count(decl.ensures, Open) + Count(decl.ensures, Refuted) = Len(decl.ensures)
  BY <1>2, ClauseCounts
<1>4. /\ IsFiniteSet(new) /\ Cardinality(new) = Count(decl.ensures, Refuted)
      /\ \A e \in new : e.kind = "ConstraintViolation" /\ e.decl = at
  BY <1>3, RefutedHere
<1>5. \A e \in AllFound("UnsatisfiableRequire", decl.requires, LiteralFalse) : e.kind = "UnsatisfiableRequire"
  BY DEF AllFound, Found
<1>6. Refutations' = Refutations \cup new
  <2>1. errors' = errors \cup (AllFound("UnsatisfiableRequire", decl.requires, LiteralFalse) \cup new) \cup E
    BY DEF ContractErrors
  <2> HIDE DEF new
  <2>2. Refutations' = {e \in errors' : e.kind = "ConstraintViolation"}
    BY DEF Refutations
  <2> QED BY <1>4, <1>5, <2>1, <2>2 DEF Refutations
<1> HIDE DEF new
<1>7. Refutations \cap new = {}
  BY <1>1, <1>2, <1>4
<1>8. Cardinality(Refutations') = Cardinality(Refutations) + Cardinality(new) - Cardinality({})
  BY <1>1, <1>4, <1>6, <1>7, FS_Union
<1>9. IsFiniteSet(Refutations')
  BY <1>1, <1>4, <1>6, FS_Union
<1>10. Cardinality(Refutations) \in Nat /\ Cardinality(Refutations') \in Nat /\ Cardinality({}) = 0
  BY <1>1, <1>9, FS_CardinalityType, FS_EmptySet
<1>11. \A e \in Refutations' : e \in Refutations \/ e.decl = at
  BY <1>4, <1>6
<1>12. Cardinality(Refutations') = Cardinality(Refutations) + Count(decl.ensures, Refuted)
  BY <1>3, <1>4, <1>8, <1>10
<1>13. /\ ContractVerified = Count(decl.requires, Decided) + Count(decl.ensures, Holds)
       /\ ContractUnverified = Count(decl.requires, Undecided) + Count(decl.ensures, Open)
  BY DEF ContractVerified, ContractUnverified
<1> HIDE <1>8
<1>14. ContractVerified + ContractUnverified + Cardinality(Refutations')
         = Cardinality(Refutations) + Len(decl.requires) + Len(decl.ensures)
  <2>1. PICK r, e : r = Len(decl.requires) /\ e = Len(decl.ensures)
    OBVIOUS
  <2>2. PICK d, u, h, o, f : /\ d = Count(decl.requires, Decided) /\ u = Count(decl.requires, Undecided)
                             /\ h = Count(decl.ensures, Holds) /\ o = Count(decl.ensures, Open)
                             /\ f = Count(decl.ensures, Refuted)
    OBVIOUS
  <2>3. PICK old, new2 : old = Cardinality(Refutations) /\ new2 = Cardinality(Refutations')
    OBVIOUS
  <2>4. d \in Nat /\ u \in Nat /\ h \in Nat /\ o \in Nat /\ f \in Nat /\ d + u = r /\ h + o + f = e
    BY <1>3, <2>1, <2>2
  <2>5. old \in Nat /\ new2 = old + f
    BY <1>10, <1>12, <2>2, <2>3
  <2>6. (d + h) + (u + o) + new2 = old + r + e
    BY <2>4, <2>5, ContractSum
  <2>7. ContractVerified = d + h /\ ContractUnverified = u + o
    BY <1>13, <2>2
  <2> QED BY <2>1, <2>3, <2>6, <2>7
<1>15. ContractVerified \in Nat /\ ContractUnverified \in Nat
  BY <1>3, <1>13
<1> QED BY <1>9, <1>10, <1>11, <1>14, <1>15

LEMMA StepCounts ==
  ASSUME CountInv, [Next]_vars
  PROVE  CountsOnce /\ RefutedInv'
<1>1. /\ program \in DOMAIN Programs /\ IsFiniteSet(Refutations) /\ \A e \in Refutations : e.decl < at /\ e.decl \in Nat
      /\ verified \in Nat /\ unverified \in Nat /\ at \in Nat /\ Cardinality(Refutations) \in Nat
  <2>1. /\ program \in DOMAIN Programs /\ IsFiniteSet(Refutations) /\ \A e \in Refutations : e.decl < at /\ e.decl \in Decls
        /\ verified \in Nat /\ unverified \in Nat /\ at \in 1..(Len(decls) + 1)
    BY DEF CountInv, TypeOK, RefutedInv, Refutations
  <2> QED BY <2>1, DeclTypes, FS_CardinalityType
\* Steps that leave the errors alone.
<1>2. ASSUME errors' = errors, at' = at \/ at' = at + 1
      PROVE  Refutations' = Refutations /\ RefutedInv'
  <2>1. Refutations' = Refutations
    BY <1>2 DEF Refutations
  <2>2. \A e \in Refutations : e.decl < at'
    BY <1>1, <1>2
  <2> QED BY <1>1, <2>1, <2>2 DEF RefutedInv
<1>3. CASE Visit
  <2>1. at \in Decls /\ at' = at + 1
    BY <1>3, Visiting DEF CountInv
  <2>2. /\ decl.kind \in {"fn", "flow", "entity", "state", "capability", "main"}
        /\ decl.kind \in {"fn", "flow"} => IsList(decl.requires) /\ IsList(decl.ensures)
        /\ decl.kind = "flow" => IsList(InlineRequires(decl.steps))
        /\ decl.kind = "entity" => IsList(decl.invariants)
    BY <1>1, <2>1, DeclTypes DEF decl
  <2>3. CountsOnce <=> Answered' = Answered + Clauses(decl)
    BY <1>1, <2>1 DEF CountsOnce
  <2>4. CASE VisitSynthesized
    <3>1. decl.kind = "fn" /\ errors' = errors
      BY <2>4 DEF VisitSynthesized, Visits
    <3>2. /\ verified' = verified + Count(decl.requires, Decided) + Len(decl.ensures)
          /\ unverified' = unverified + Count(decl.requires, Undecided)
      BY <2>4 DEF VisitSynthesized
    <3>3. /\ Count(decl.requires, Decided) \in Nat /\ Count(decl.requires, Undecided) \in Nat
          /\ Count(decl.requires, Decided) + Count(decl.requires, Undecided) = Len(decl.requires)
          /\ Len(decl.ensures) \in Nat
      BY <2>2, <3>1, ClauseCounts DEF IsList
    <3>4. Clauses(decl) = Len(decl.requires) + Len(decl.ensures)
      BY <3>1 DEF Clauses
    <3>5. Refutations' = Refutations /\ RefutedInv'
      BY <1>2, <2>1, <3>1
    <3>6. Answered' = Answered + Clauses(decl)
      <4>1. Answered' = verified' + unverified' + Cardinality(Refutations)
        BY <3>5 DEF Answered
      <4>2. Answered = verified + unverified + Cardinality(Refutations)
        BY DEF Answered
      <4>3. PICK r, e, d, u, c : /\ r = Len(decl.requires) /\ e = Len(decl.ensures) /\ c = Cardinality(Refutations)
                                 /\ d = Count(decl.requires, Decided) /\ u = Count(decl.requires, Undecided)
        OBVIOUS
      <4>4. d \in Nat /\ u \in Nat /\ e \in Nat /\ c \in Nat /\ d + u = r
        BY <1>1, <3>3, <4>3
      <4>5. verified' = verified + d + e /\ unverified' = unverified + u /\ Clauses(decl) = r + e
        BY <3>2, <3>4, <4>3
      <4>6. Answered' = verified' + unverified' + c /\ Answered = verified + unverified + c
        BY <4>1, <4>2, <4>3
      <4> QED BY <1>1, <4>4, <4>5, <4>6
    <3> QED BY <2>3, <3>5, <3>6
  <2>5. CASE VisitFn \/ VisitFlow
    <3>1. decl.kind \in {"fn", "flow"} /\ (decl.kind = "fn" <=> VisitFn)
      BY <2>5 DEF VisitFn, VisitFlow, Visits
    <3> DEFINE inline == IF decl.kind = "flow" THEN InlineRequires(decl.steps) ELSE <<>>
               Inline == IF decl.kind = "flow" THEN Len(inline) ELSE 0
               E == IF decl.kind = "flow" THEN AllFound("UnsatisfiableRequire", inline, LiteralFalse) ELSE {}
    <3>2. \A e \in E : e.kind = "UnsatisfiableRequire"
      BY DEF AllFound, Found
    <3>3. errors' = errors \cup ContractErrors \cup E
      <4>1. CASE VisitFn
        <5>1. E = {} /\ errors' = errors \cup ContractErrors
          BY <3>1, <4>1 DEF VisitFn
        <5> QED BY <5>1
      <4>2. CASE VisitFlow
        <5>1. decl.kind = "flow"
          BY <4>2 DEF VisitFlow, Visits
        <5> QED BY <4>2, <5>1 DEF VisitFlow
      <4> QED BY <2>5, <4>1, <4>2
    <3>4. verified' = verified + ContractVerified /\ unverified' = unverified + ContractUnverified + Inline /\ Inline \in Nat
      <4>1. CASE VisitFn
        <5>1. Inline = 0 /\ verified' = verified + ContractVerified /\ unverified' = unverified + ContractUnverified
          BY <3>1, <4>1 DEF VisitFn
        <5>2. ContractUnverified \in Nat
          BY <2>2, <3>1, ClauseCounts DEF ContractUnverified
        <5> HIDE DEF Inline
        <5>3. unverified' = unverified + ContractUnverified + Inline
          BY <1>1, <5>1, <5>2
        <5> QED BY <5>1, <5>3
      <4>2. CASE VisitFlow
        <5>1. decl.kind = "flow"
          BY <4>2 DEF VisitFlow, Visits
        <5>2. Inline = Len(InlineRequires(decl.steps))
          BY <5>1
        <5>3. Inline \in Nat
          BY <2>2, <5>1, <5>2 DEF IsList
        <5>4. unverified' = unverified + ContractUnverified + Len(InlineRequires(decl.steps)) /\ verified' = verified + ContractVerified
          BY <4>2 DEF VisitFlow
        <5> HIDE DEF Inline
        <5>5. unverified' = unverified + ContractUnverified + Inline
          BY <5>2, <5>4
        <5> QED BY <5>3, <5>4, <5>5
      <4> QED BY <2>5, <4>1, <4>2
    <3>5. Clauses(decl) = Len(decl.requires) + Len(decl.ensures) + Inline
      <4>1. Len(decl.requires) \in Nat /\ Len(decl.ensures) \in Nat
        BY <2>2, <3>1 DEF IsList
      <4>2. CASE decl.kind = "fn"
        <5>1. Clauses(decl) = Len(decl.requires) + Len(decl.ensures) /\ Inline = 0
          BY <4>2 DEF Clauses
        <5> HIDE DEF Inline
        <5> QED BY <4>1, <5>1
      <4>3. CASE decl.kind = "flow"
        BY <4>3 DEF Clauses
      <4> QED BY <3>1, <4>2, <4>3
    <3>6. Len(decl.requires) \in Nat /\ Len(decl.ensures) \in Nat
      BY <2>2, <3>1 DEF IsList
    <3> HIDE DEF inline, Inline, E
    <3>7. /\ IsFiniteSet(Refutations') /\ \A e \in Refutations' : e \in Refutations \/ e.decl = at
          /\ ContractVerified \in Nat /\ ContractUnverified \in Nat
          /\ Cardinality(Refutations) \in Nat /\ Cardinality(Refutations') \in Nat
          /\ ContractVerified + ContractUnverified + Cardinality(Refutations')
               = Cardinality(Refutations) + Len(decl.requires) + Len(decl.ensures)
      BY <2>1, <3>1, <3>2, <3>3, ContractCounts
    <3>8. RefutedInv'
      <4>1. \A e \in Refutations' : e.decl < at'
        BY <1>1, <2>1, <3>7
      <4> QED BY <3>7, <4>1 DEF RefutedInv
    <3>9. Answered' = Answered + Clauses(decl)
      <4>1. Answered' = verified' + unverified' + Cardinality(Refutations') /\ Answered = verified + unverified + Cardinality(Refutations)
        BY DEF Answered
      <4>2. PICK r, e, v, u, c, c2 : /\ r = Len(decl.requires) /\ e = Len(decl.ensures)
                                     /\ v = ContractVerified /\ u = ContractUnverified
                                     /\ c = Cardinality(Refutations) /\ c2 = Cardinality(Refutations')
        OBVIOUS
      <4>3. r \in Nat /\ e \in Nat /\ v \in Nat /\ u \in Nat /\ c \in Nat /\ c2 \in Nat /\ v + u + c2 = c + r + e
        BY <3>6, <3>7, <4>2
      <4>4. verified' = verified + v /\ unverified' = unverified + u + Inline /\ Inline \in Nat /\ Clauses(decl) = r + e + Inline
        BY <3>4, <3>5, <4>2
      <4>5. Answered' = verified' + unverified' + c2 /\ Answered = verified + unverified + c
        BY <4>1, <4>2
      <4> QED BY <1>1, <4>3, <4>4, <4>5
    <3> QED BY <2>3, <3>8, <3>9
  <2>6. CASE VisitEntity
    <3>1. decl.kind = "entity" /\ unverified' = unverified + Len(decl.invariants) /\ verified' = verified
          /\ Clauses(decl) = Len(decl.invariants) /\ Len(decl.invariants) \in Nat
      BY <2>2, <2>6 DEF VisitEntity, Visits, Clauses, IsList
    <3>2. errors' = errors \cup AllFound("InvariantBroken", decl.invariants, LiteralFalse)
      BY <2>6 DEF VisitEntity
    <3>3. Refutations' = Refutations
      <4>1. \A e \in AllFound("InvariantBroken", decl.invariants, LiteralFalse) : e.kind = "InvariantBroken"
        BY DEF AllFound, Found
      <4> QED BY <3>2, <4>1 DEF Refutations
    <3>4. RefutedInv'
      <4>1. \A e \in Refutations : e.decl < at'
        BY <1>1, <2>1
      <4> QED BY <1>1, <3>3, <4>1 DEF RefutedInv
    <3>5. Answered' = Answered + Clauses(decl)
      <4>1. Answered' = verified' + unverified' + Cardinality(Refutations) /\ Answered = verified + unverified + Cardinality(Refutations)
        BY <3>3 DEF Answered
      <4> QED BY <1>1, <3>1, <4>1
    <3> QED BY <2>3, <3>4, <3>5
  <2>7. CASE VisitOther \/ VisitEmptyMachine
    <3>1. decl.kind \in {"capability", "main", "state"} /\ errors' = errors /\ verified' = verified /\ unverified' = unverified
      BY <2>7 DEF VisitOther, VisitEmptyMachine, Visits, counts
    <3>2. Clauses(decl) = 0
      BY <3>1 DEF Clauses
    <3>3. Refutations' = Refutations /\ RefutedInv'
      BY <1>2, <2>1, <3>1
    <3>4. Answered' = Answered + Clauses(decl)
      <4>1. Answered' = Answered /\ Answered \in Nat
        BY <1>1, <3>1, <3>3 DEF Answered
      <4> QED BY <3>2, <4>1
    <3> QED BY <2>3, <3>3, <3>4
  <2> QED BY <1>3, <2>4, <2>5, <2>6, <2>7 DEF Visit
<1>4. CASE SearchForward \/ ExpandForward \/ SearchBackward \/ ExpandBackward \/ Finish \/ UNCHANGED vars
  <2>1. at' = at /\ errors' = errors /\ verified' = verified /\ unverified' = unverified
    BY <1>4 DEF SearchForward, ExpandForward, SearchBackward, ExpandBackward, Finish, vars, counts
  <2>2. Refutations' = Refutations /\ RefutedInv'
    BY <1>2, <2>1
  <2>3. Answered' = Answered /\ Answered \in Nat
    BY <1>1, <2>1, <2>2 DEF Answered
  <2> QED BY <2>1, <2>2, <2>3 DEF CountsOnce
<1>5. CASE ReportStuck
  <2>1. at' = at + 1 /\ errors' = errors /\ verified' = verified /\ unverified' = unverified /\ Searching
    BY <1>5 DEF ReportStuck, counts, Searching
  <2>2. decl.kind = "state"
    BY <2>1, SearchedMachine DEF CountInv, Kind, decl
  <2>3. Refutations' = Refutations /\ RefutedInv'
    BY <1>2, <2>1
  <2>4. Answered' = Answered /\ Answered \in Nat /\ Clauses(decl) = 0
    BY <1>1, <2>1, <2>2, <2>3 DEF Answered, Clauses
  <2> QED BY <1>1, <2>1, <2>3, <2>4 DEF CountsOnce
<1> QED BY <1>3, <1>4, <1>5 DEF Next, Visit, Returned

\* For every program and solver each clause ends in exactly one place: counted
\* as verified, counted as unverified, or reported as refuted
\* (verifier.rs:134-174, 354-431, 479-517).
THEOREM ClausesAreCounted == Spec => EveryClauseCounted
<1>1. CountInv /\ [Next]_vars => CountInv' /\ CountsOnce
  BY TypesKept, StepCounts DEF CountInv
<1> QED BY <1>1, InitCounts, PTL DEF Spec, EveryClauseCounted
=============================================================================
