------------------------------ MODULE CheckerProofs ------------------------------
(***************************************************************************)
(* Proofs about module Checker, for every program: its types, that the     *)
(* states reported are exactly the unreachable ones, that undeclared       *)
(* effects are reported exactly along whole chains of calls, and that the  *)
(* bodies accepted have the types their functions declare.  Reachability   *)
(* is membership in every closed set, so that no induction over paths is   *)
(* needed.                                                                 *)
(***************************************************************************)
EXTENDS Checker, WellFoundedInduction, TLAPS

-----------------------------------------------------------------------------
(* Declarations, and what the steps do to the errors.                      *)

LEMMA ProgramTypes ==
  ASSUME program \in Programs
  PROVE  /\ Len(program) \in Nat
         /\ \A i \in Decls : i \in Nat /\ program[i].kind \in {"fn", "flow", "alias", "state"}
         /\ \A i \in Kind("state") : Len(program[i].transitions) \in Nat
BY ProgramsAreLists DEF Decls, Kind

\* What a step reports is added to what was reported of its declaration.
Reports(kind, W) == errors' = errors \cup {Error(kind, w) : w \in W}

LEMMA ReportedAdds ==
  ASSUME NEW kind, NEW W, Reports(kind, W), NEW k, NEW i
  PROVE  Reported(k, i)' = IF k = kind /\ i = at THEN Reported(k, i) \cup W ELSE Reported(k, i)
<1> USE DEF Reports
<1>1. ASSUME NEW e \in errors', e \notin errors PROVE e.kind = kind /\ e.decl = at /\ e.what \in W
  BY <1>1 DEF Error
<1>2. ASSUME NEW w \in W
      PROVE  \E e \in errors' : e.kind = kind /\ e.decl = at /\ e.what = w
  <2>1. Error(kind, w) \in errors'
    OBVIOUS
  <2> QED BY <2>1 DEF Error
<1>3. errors \subseteq errors'
  OBVIOUS
<1>4. Reported(k, i)' = {e.what : e \in {x \in errors' : x.kind = k /\ x.decl = i}}
  BY DEF Reported
<1>5. Reported(k, i) \subseteq Reported(k, i)'
  BY <1>3, <1>4 DEF Reported
<1>6. ASSUME NEW w \in Reported(k, i)', w \notin Reported(k, i)
      PROVE  k = kind /\ i = at /\ w \in W
  BY <1>1, <1>4, <1>6 DEF Reported
<1>7. k = kind /\ i = at => W \subseteq Reported(k, i)'
  BY <1>2, <1>4
<1> QED BY <1>5, <1>6, <1>7

\* Types that are unknown or do not match are reported of the declaration that
\* the pass has come to.
TypeErrors == errors \subseteq errors' /\ \A e \in errors' \ errors : e.kind \in {"UnknownType", "TypeMismatch"} /\ e.decl = at

LEMMA OthersReported ==
  ASSUME TypeErrors, NEW k, k \notin {"UnknownType", "TypeMismatch"}, NEW i
  PROVE  Reported(k, i)' = Reported(k, i)
BY DEF TypeErrors, Reported

LEMMA ReportedGrows ==
  ASSUME errors \subseteq errors', NEW k, NEW i
  PROVE  Reported(k, i) \subseteq Reported(k, i)'
BY DEF Reported

LEMMA CheckingReportsTypes ==
  ASSUME CheckAlias \/ CheckFn \/ CheckFlow \/ RefuseFlow
  PROVE  TypeErrors
BY DEF CheckAlias, CheckFn, CheckFlow, RefuseFlow, TypeErrors, Unknown, Mismatch, Error

-----------------------------------------------------------------------------
(* Types.                                                                  *)

LEMMA InitTypes == Init => TypeOK
<1> SUFFICES ASSUME Init PROVE TypeOK
  OBVIOUS
<1>1. program \in Programs /\ Len(program) \in Nat
  BY ProgramTypes DEF Init
<1>2. DOMAIN functions = {} /\ DOMAIN aliases = {}
  BY DEF Init
<1>3. {j \in Kind("alias") : phase # "prescan" \/ j < at} = {}
  BY ProgramTypes, <1>1 DEF Init, Kind, Decls
<1> QED BY <1>1, <1>2, <1>3 DEF Init, TypeOK

LEMMA SuccessorsAreStates ==
  ASSUME NEW i, NEW s
  PROVE  Successors(i, s) \subseteq States(i)
BY DEF Successors, States

LEMMA TypesKept == TypeOK /\ [Next]_vars => TypeOK'
<1> SUFFICES ASSUME TypeOK, [Next]_vars PROVE TypeOK'
  OBVIOUS
<1> DEFINE Aliased == {program[i].name : i \in {j \in Kind("alias") : phase # "prescan" \/ j < at}}
           ErrorsOK == \A e \in errors : /\ e.kind \in {"UnknownType", "TypeMismatch", "UnreachableState", "UndeclaredEffect"}
                                         /\ e.decl \in Decls
<1>1. program \in Programs /\ Len(program) \in Nat /\ at \in Nat /\ at <= Len(program) + 1 /\ at >= 1
  BY ProgramTypes DEF TypeOK
<1>2. Decls = 1..Len(program) /\ \A i \in Decls : i \in Nat
  BY <1>1 DEF Decls
<1>3. CASE PrescanFn
  <2>1. at \in Decls /\ at \in Fns /\ at \notin Kind("alias") /\ phase = "prescan" /\ visited = {}
    BY <1>1, <1>2, <1>3 DEF PrescanFn, At, decl, Fns, Kind, TypeOK
  <2>2. Aliased' = Aliased
    BY <1>1, <1>2, <1>3, <2>1 DEF PrescanFn, Kind, Decls
  <2>3. DOMAIN functions' = DOMAIN functions \cup {program[at].name}
    BY <1>3 DEF PrescanFn, Updated, decl
  <2> QED BY <1>1, <1>2, <1>3, <2>1, <2>2, <2>3 DEF PrescanFn, TypeOK, Fns, Kind, Decls
<1>4. CASE PrescanType
  <2>1. at \in Decls /\ at \in Kind("alias") /\ phase = "prescan" /\ visited = {}
    BY <1>1, <1>2, <1>4 DEF PrescanType, At, decl, Kind, TypeOK
  <2>2. Aliased' = Aliased \cup {program[at].name}
    BY <1>1, <1>2, <1>4, <2>1 DEF PrescanType, Kind, Decls
  <2> QED BY <1>1, <1>2, <1>4, <2>1, <2>2 DEF PrescanType, TypeOK, Fns, Kind, Decls, decl
<1>5. CASE PrescanState \/ PassOver
  <2>1. at \in Decls /\ visited = {} /\ (phase = "prescan" => at \notin Kind("alias"))
    BY <1>1, <1>2, <1>5 DEF PrescanState, PassOver, At, decl, Kind, TypeOK
  <2>2. Aliased' = Aliased
    BY <1>1, <1>2, <1>5, <2>1 DEF PrescanState, PassOver, Kind, Decls
  <2> QED BY <1>1, <1>2, <1>5, <2>1, <2>2 DEF PrescanState, PassOver, TypeOK, Fns, Kind, Decls
<1>6. CASE CheckAlias \/ CheckFn \/ CheckFlow \/ RefuseFlow
  <2>1. at \in Decls /\ visited = {} /\ phase = "detail"
    BY <1>1, <1>2, <1>6 DEF CheckAlias, CheckFn, CheckFlow, RefuseFlow, At, decl, Kind, TypeOK
  <2>2. ErrorsOK'
    BY <1>6, <2>1, CheckingReportsTypes DEF TypeErrors, TypeOK, CheckAlias, CheckFn, CheckFlow, RefuseFlow, Decls
  <2>3. DOMAIN aliases' \subseteq known
    <3>1. CASE CheckAlias
      <4>1. program[at].name \in known
        BY <2>1, <3>1 DEF CheckAlias, At, decl, Kind, TypeOK
      <4>2. DOMAIN aliases' = DOMAIN aliases \cup {program[at].name}
        BY <3>1 DEF CheckAlias, Updated, decl
      <4> QED BY <4>1, <4>2 DEF TypeOK
    <3> QED BY <1>6, <3>1 DEF TypeOK, CheckFn, CheckFlow, RefuseFlow
  <2>4. DOMAIN functions' \subseteq {program[i].name : i \in Fns}
    <3>1. CASE CheckFn \/ CheckFlow
      <4>1. at \in Fns
        BY <2>1, <3>1 DEF CheckFn, CheckFlow, At, decl, Fns, Kind
      <4>2. DOMAIN functions' = DOMAIN functions \cup {program[at].name}
        BY <3>1 DEF CheckFn, CheckFlow, Updated, decl
      <4> QED BY <4>1, <4>2 DEF TypeOK
    <3> QED BY <1>6, <3>1 DEF TypeOK, CheckAlias, RefuseFlow
  <2>5. program' = program /\ phase' = phase /\ at' = at + 1 /\ known' = known /\ visited' = visited /\ queue' = queue
    BY <1>6 DEF CheckAlias, CheckFn, CheckFlow, RefuseFlow
  <2>6. Aliased' = Aliased
    BY <2>1, <2>5 DEF Kind, Decls
  <2> HIDE DEF Aliased
  <2> QED BY <1>1, <1>2, <2>1, <2>2, <2>3, <2>4, <2>5, <2>6 DEF TypeOK, Fns, Kind, Decls, Aliased
<1>7. CASE CheckEmptyState
  <2>1. at \in Decls /\ phase = "detail" /\ States(at) = {}
    BY <1>1, <1>2, <1>7 DEF CheckEmptyState, At, decl, States
  <2>2. visited = {}
    BY <2>1 DEF TypeOK
  <2> QED BY <1>1, <1>2, <1>7, <2>1, <2>2 DEF CheckEmptyState, TypeOK, Fns, Kind, Decls
<1>8. CASE StartSearch
  <2>1. Initial(at) \in States(at) /\ At("detail", "state")
    BY <1>1, <1>2, <1>8, ProgramTypes DEF StartSearch, Initial, States, At, decl, Kind
  <2> QED BY <1>1, <1>8, <2>1 DEF StartSearch, TypeOK, Fns, Kind, Decls, At, decl, States
<1>9. ASSUME NEW state \in queue, Expand(state) PROVE TypeOK'
  <2>1. Successors(at, state) \subseteq States(at)
    BY SuccessorsAreStates
  <2> QED BY <1>1, <1>9, <2>1 DEF Expand, TypeOK, Fns, Kind, Decls, At, decl, States
<1>10. CASE ReportUnreachable
  <2>1. at \in Decls /\ phase = "detail"
    BY <1>1, <1>2, <1>10 DEF ReportUnreachable, At
  <2>2. ErrorsOK'
    BY <1>10, <2>1 DEF ReportUnreachable, TypeOK, Error, Decls
  <2> QED BY <1>1, <1>2, <1>10, <2>1, <2>2 DEF ReportUnreachable, TypeOK, Fns, Kind, Decls
<1>11. CASE CheckEffects
  <2>1. at \in Decls /\ phase = "effects" /\ visited = {}
    BY <1>1, <1>2, <1>11 DEF CheckEffects, At, TypeOK
  <2>2. ErrorsOK'
    BY <1>11, <2>1 DEF CheckEffects, TypeOK, Error, Decls
  <2> QED BY <1>1, <1>2, <1>11, <2>1, <2>2 DEF CheckEffects, TypeOK, Fns, Kind, Decls
<1>12. CASE NextPhase
  <2>1. at = Len(program) + 1 /\ visited = {}
    BY <1>1, <1>12 DEF NextPhase, TypeOK, At
  <2>2. phase' \in {"detail", "effects", "done"}
    BY <1>12 DEF NextPhase, TypeOK
  <2>3. Aliased' = Aliased
    <3>1. Aliased = {program[i].name : i \in Kind("alias")}
      BY <1>1, <1>2, <2>1 DEF Kind
    <3>2. program' = program /\ phase' # "prescan"
      BY <1>12, <2>2 DEF NextPhase
    <3>3. Kind("alias")' = Kind("alias")
      BY <3>2 DEF Kind, Decls
    <3>4. Aliased' = {program[i].name : i \in Kind("alias")}
      BY <3>2, <3>3
    <3> QED BY <3>1, <3>4
  <2>4. program' = program /\ at' = 1 /\ at' \in 1..(Len(program) + 1)
    BY <1>1, <1>12 DEF NextPhase
  <2>5. functions' = functions /\ aliases' = aliases /\ known' = known /\ queue' = queue /\ visited' = visited /\ errors' = errors
    BY <1>12 DEF NextPhase
  <2> HIDE DEF Aliased
  <2> QED BY <1>1, <2>1, <2>2, <2>3, <2>4, <2>5 DEF TypeOK, Fns, Kind, Decls, Aliased
<1>13. CASE Checked \/ UNCHANGED vars
  BY <1>13 DEF Checked, vars, TypeOK, Fns, Kind, Decls, At, decl, States
<1> QED BY <1>3, <1>4, <1>5, <1>6, <1>7, <1>8, <1>9, <1>10, <1>11, <1>12, <1>13 DEF Next

\* The passes and the environment keep their types: names are known once they
\* are declared, the search stays among the states of its machine, and errors
\* are of declarations (checker.rs:62-119).
THEOREM TypeCorrect == Spec => []TypeOK
<1> QED BY InitTypes, TypesKept, PTL DEF Spec

-----------------------------------------------------------------------------
(* State machines: what has been found of the one that is searched, and    *)
(* what has been reported of those that were.                              *)

Searched(i) == phase \in {"effects", "done"} \/ (phase = "detail" /\ i < at)

Searching ==
  visited # {} =>
    /\ Initial(at) \in visited
    /\ visited \subseteq Reachable(at)
    /\ \A s \in visited \ queue : Successors(at, s) \subseteq visited

StatesReported ==
  \A i \in Kind("state") :
    Reported("UnreachableState", i) = IF Searched(i) THEN States(i) \ Reachable(i) ELSE {}

StateInv == TypeOK /\ Searching /\ StatesReported

LEMMA MachinesKept ==
  ASSUME program' = program, NEW i
  PROVE  /\ States(i)' = States(i) /\ Initial(i)' = Initial(i) /\ Reachable(i)' = Reachable(i)
         /\ \A s : Successors(i, s)' = Successors(i, s)
BY DEF States, Initial, Reachable, StepClosed, Successors

\* What a reachable state leads to is reachable.
LEMMA ReachableClosed ==
  ASSUME NEW i, NEW s \in Reachable(i)
  PROVE  Successors(i, s) \subseteq Reachable(i)
<1> SUFFICES ASSUME NEW t \in Successors(i, s) PROVE t \in Reachable(i)
  OBVIOUS
<1>1. t \in States(i)
  BY SuccessorsAreStates
<1>2. ASSUME NEW S \in SUBSET States(i), Initial(i) \in S, StepClosed(i, S) PROVE t \in S
  BY <1>2 DEF Reachable, StepClosed
<1> QED BY <1>1, <1>2 DEF Reachable

\* A search that is over has found every reachable state.
LEMMA SearchComplete ==
  ASSUME TypeOK, Searching, visited # {}, queue = {}
  PROVE  visited = Reachable(at)
<1>1. visited \in SUBSET States(at) /\ Initial(at) \in visited /\ StepClosed(at, visited)
  BY DEF TypeOK, Searching, StepClosed
<1>2. Reachable(at) \subseteq visited
  BY <1>1 DEF Reachable
<1> QED BY <1>2 DEF Searching

LEMMA InitStates == Init => StateInv
<1> SUFFICES ASSUME Init PROVE StateInv
  OBVIOUS
<1>1. TypeOK
  BY InitTypes
<1>2. Searching
  BY DEF Init, Searching
<1>3. StatesReported
  BY DEF Init, StatesReported, Searched, Reported
<1> QED BY <1>1, <1>2, <1>3 DEF StateInv

LEMMA SearchingKept == StateInv /\ [Next]_vars => Searching'
<1> SUFFICES ASSUME StateInv, [Next]_vars, visited' # {} PROVE Searching'
  BY DEF Searching
<1> USE DEF StateInv
<1>1. program' = program /\ program \in Programs
  BY DEF TypeOK, Next, vars, PrescanFn, PrescanType, PrescanState, CheckAlias, CheckFn, CheckFlow, RefuseFlow,
         CheckEmptyState, StartSearch, Expand, ReportUnreachable, CheckEffects, PassOver, NextPhase, Checked
<1>2. CASE StartSearch
  <2>1. at \in Kind("state") /\ at' = at /\ Len(program[at].transitions) > 0
    BY <1>2 DEF StartSearch, At, decl, Kind, Decls, TypeOK
  <2>2. Initial(at) \in States(at)
    BY <1>1, <2>1, ProgramTypes DEF Initial, States
  <2>3. Initial(at) \in Reachable(at)
    BY <2>2 DEF Reachable
  <2>4. visited' = {Initial(at)} /\ queue' = {Initial(at)}
    BY <1>2 DEF StartSearch
  <2> QED BY <1>1, <2>1, <2>3, <2>4, MachinesKept DEF Searching
<1>3. ASSUME NEW state \in queue, Expand(state) PROVE Searching'
  <2>1. at' = at /\ visited' = visited \cup Successors(at, state) /\ state \in visited
    BY <1>3 DEF Expand, TypeOK
  <2>2. queue' = (queue \ {state}) \cup (Successors(at, state) \ visited)
    BY <1>3 DEF Expand
  <2>3. Initial(at) \in visited /\ visited \subseteq Reachable(at) /\ \A s \in visited \ queue : Successors(at, s) \subseteq visited
    BY <2>1 DEF Searching
  <2>4. visited' \subseteq Reachable(at)
    BY <2>1, <2>3, ReachableClosed
  <2>5. \A s \in visited' \ queue' : Successors(at, s) \subseteq visited'
    BY <2>1, <2>2, <2>3
  <2> QED BY <1>1, <2>1, <2>3, <2>4, <2>5, MachinesKept DEF Searching
<1>4. CASE UNCHANGED <<at, queue, visited>>
  BY <1>1, <1>4, MachinesKept DEF Searching
<1>5. CASE visited' = visited /\ ~At("detail", "state")
  BY <1>5 DEF TypeOK
<1>6. CASE CheckEmptyState
  <2>1. at \in Decls /\ States(at) = {}
    BY <1>1, <1>6, ProgramTypes DEF CheckEmptyState, At, decl, States, TypeOK, Decls
  <2> QED BY <1>6, <2>1 DEF CheckEmptyState, TypeOK
<1>7. CASE NextPhase
  BY <1>7, <1>1, ProgramTypes DEF NextPhase, TypeOK, At
<1> QED
  BY <1>2, <1>3, <1>4, <1>5, <1>6, <1>7
  DEF Next, vars, PrescanFn, PrescanType, PrescanState, CheckAlias, CheckFn, CheckFlow, RefuseFlow,
      ReportUnreachable, CheckEffects, PassOver, Checked, At

LEMMA StatesReportedKept == StateInv /\ [Next]_vars => StatesReported'
<1> SUFFICES ASSUME StateInv, [Next]_vars PROVE StatesReported'
  OBVIOUS
<1> USE DEF StateInv
<1>1. program' = program /\ program \in Programs /\ Kind("state")' = Kind("state")
  BY DEF TypeOK, Next, vars, PrescanFn, PrescanType, PrescanState, CheckAlias, CheckFn, CheckFlow, RefuseFlow,
         CheckEmptyState, StartSearch, Expand, ReportUnreachable, CheckEffects, PassOver, NextPhase, Checked, Kind, Decls
<1>2. /\ at \in Nat /\ Len(program) \in Nat
      /\ \A i \in Kind("state") : i \in Nat /\ i <= Len(program) /\ program[i].kind = "state"
  BY <1>1, ProgramTypes DEF TypeOK, Kind, Decls
<1>3. SUFFICES ASSUME NEW i \in Kind("state")
               PROVE  Reported("UnreachableState", i)' = IF Searched(i)' THEN States(i) \ Reachable(i) ELSE {}
  BY <1>1, MachinesKept DEF StatesReported
<1>4. Reported("UnreachableState", i) = IF Searched(i) THEN States(i) \ Reachable(i) ELSE {}
  BY DEF StatesReported
<1>5. errors' = errors => Reported("UnreachableState", i)' = Reported("UnreachableState", i)
  BY DEF Reported
<1>6. CASE PrescanFn \/ PrescanType \/ PrescanState \/ PassOver
  <2>1. errors' = errors /\ phase' = phase /\ phase # "detail"
    BY <1>6 DEF PrescanFn, PrescanType, PrescanState, PassOver, At
  <2> QED BY <1>4, <1>5, <2>1 DEF Searched
<1>7. CASE CheckAlias \/ CheckFn \/ CheckFlow \/ RefuseFlow
  <2>1. i # at
    BY <1>2, <1>7 DEF CheckAlias, CheckFn, CheckFlow, RefuseFlow, At, decl
  <2>2. phase' = phase /\ at' = at + 1
    BY <1>7 DEF CheckAlias, CheckFn, CheckFlow, RefuseFlow
  <2>3. Reported("UnreachableState", i)' = Reported("UnreachableState", i)
    BY <1>7, CheckingReportsTypes, OthersReported
  <2> QED BY <1>2, <1>4, <2>1, <2>2, <2>3 DEF Searched
<1>8. CASE CheckEmptyState
  <2>1. phase = "detail" /\ phase' = phase /\ at' = at + 1 /\ errors' = errors /\ States(at) = {}
    BY <1>8 DEF CheckEmptyState, At, decl, States
  <2>2. CASE i = at
    BY <1>2, <1>4, <1>5, <2>1, <2>2 DEF Searched
  <2>3. CASE i # at
    BY <1>2, <1>4, <1>5, <2>1, <2>3 DEF Searched
  <2> QED BY <2>2, <2>3
<1>9. CASE UNCHANGED <<phase, at, errors>>
  BY <1>4, <1>5, <1>9 DEF Searched
<1>10. CASE ReportUnreachable
  <2>1. phase = "detail" /\ phase' = phase /\ at' = at + 1 /\ visited = Reachable(at)
    BY <1>10, SearchComplete DEF ReportUnreachable, At
  <2>2. Reported("UnreachableState", i)' =
          IF i = at THEN Reported("UnreachableState", i) \cup (States(at) \ visited) ELSE Reported("UnreachableState", i)
    <3>1. Reports("UnreachableState", States(at) \ visited)
      BY <1>10 DEF ReportUnreachable, Reports
    <3> QED BY <3>1, ReportedAdds
  <2>3. CASE i = at
    <3>1. Reported("UnreachableState", i) = {} /\ Searched(i)'
      BY <1>2, <1>4, <2>1, <2>3 DEF Searched
    <3> QED BY <2>1, <2>2, <2>3, <3>1
  <2>4. CASE i # at
    BY <1>2, <1>4, <2>1, <2>2, <2>4 DEF Searched
  <2> QED BY <2>3, <2>4
<1>11. CASE CheckEffects
  <2>1. phase = "effects" /\ phase' = phase
    BY <1>11 DEF CheckEffects, At
  <2>2. Reported("UnreachableState", i)' = Reported("UnreachableState", i)
    <3>1. Reports("UndeclaredEffect", Leaks)
      BY <1>11 DEF CheckEffects, Reports
    <3> QED BY <3>1, ReportedAdds
  <2> QED BY <1>4, <2>1, <2>2 DEF Searched
<1>12. CASE NextPhase
  <2>1. errors' = errors /\ at' = 1 /\ at > Len(program) /\ ~(i < 1) /\ i < at
    BY <1>2, <1>12 DEF NextPhase, Kind, Decls
  <2>2. \/ phase = "prescan" /\ phase' = "detail"
        \/ phase = "detail" /\ phase' = "effects"
        \/ phase = "effects" /\ phase' = "done"
    BY <1>12 DEF NextPhase, TypeOK
  <2> QED BY <1>4, <1>5, <2>1, <2>2 DEF Searched
<1> QED
  BY <1>6, <1>7, <1>8, <1>9, <1>10, <1>11, <1>12 DEF Next, vars, StartSearch, Expand, Checked

LEMMA StateInvariant == Spec => []StateInv
<1>1. StateInv /\ [Next]_vars => StateInv'
  BY TypesKept, SearchingKept, StatesReportedKept DEF StateInv
<1> QED BY <1>1, InitStates, PTL DEF Spec

\* For every state machine, the states reported are exactly those that no path
\* of transitions from the first state leads to (checker.rs:220-276, 1443-1470).
THEOREM UnreachableStatesExact == Spec => []UnreachableExact
<1>1. StateInv => UnreachableExact
  BY DEF StateInv, StatesReported, Searched, UnreachableExact
<1> QED BY <1>1, StateInvariant, PTL

-----------------------------------------------------------------------------
(* Effects: what the environment holds of the functions, and what has been *)
(* reported of those that were compared.                                   *)

NoRefusal == \A i \in Kind("flow") : Reported("TypeMismatch", i) = {}

LastBefore(j, n) == j < n /\ \A k \in Fns : program[k].name = program[j].name /\ k < n => k <= j

NamesRecorded ==
  \A j \in Fns : phase # "prescan" \/ j < at => program[j].name \in DOMAIN functions

SignaturesRecorded ==
  phase # "prescan" /\ NoRefusal =>
    \A j \in Fns : LastBefore(j, IF phase = "detail" THEN at ELSE Len(program) + 1) =>
                     functions[program[j].name] = program[j].effects

LeaksOf(i) == UNION {functions[n] \ program[i].effects : n \in program[i].calls \cap DOMAIN functions}
Compared(i) == phase = "done" \/ (phase = "effects" /\ i < at)

EffectsReported ==
  \A i \in Decls :
    Reported("UndeclaredEffect", i) = IF i \in Fns /\ Compared(i) THEN LeaksOf(i) ELSE {}

EffectInv == TypeOK /\ NamesRecorded /\ SignaturesRecorded /\ EffectsReported

LEMMA ProgramKept ==
  ASSUME TypeOK, [Next]_vars
  PROVE  /\ program' = program /\ program \in Programs /\ Fns' = Fns /\ Decls' = Decls
         /\ Kind("flow")' = Kind("flow") /\ errors \subseteq errors'
         /\ at \in Nat /\ Len(program) \in Nat /\ Fns \subseteq Decls
         /\ \A i \in Decls : i \in Nat /\ i >= 1 /\ i <= Len(program)
<1>1. program' = program /\ errors \subseteq errors'
  BY DEF Next, vars, PrescanFn, PrescanType, PrescanState, CheckAlias, CheckFn, CheckFlow, RefuseFlow,
         CheckEmptyState, StartSearch, Expand, ReportUnreachable, CheckEffects, PassOver, NextPhase, Checked
<1>2. program \in Programs /\ at \in Nat /\ Len(program) \in Nat
  BY ProgramTypes DEF TypeOK
<1> QED BY <1>1, <1>2 DEF Fns, Kind, Decls

LEMMA RefusalStands ==
  ASSUME TypeOK, [Next]_vars, NoRefusal'
  PROVE  NoRefusal
BY ProgramKept, ReportedGrows DEF NoRefusal

LEMMA InitEffects == Init => EffectInv
<1> SUFFICES ASSUME Init PROVE EffectInv
  OBVIOUS
<1>1. TypeOK /\ \A j \in Fns : ~(j < 1)
  BY InitTypes, ProgramTypes DEF TypeOK, Fns, Kind, Decls
<1>2. NamesRecorded /\ SignaturesRecorded
  BY <1>1 DEF Init, NamesRecorded, SignaturesRecorded
<1>3. EffectsReported
  BY DEF Init, EffectsReported, Compared, Reported
<1> QED BY <1>1, <1>2, <1>3 DEF EffectInv

LEMMA NamesKept == EffectInv /\ [Next]_vars => NamesRecorded'
<1> SUFFICES ASSUME EffectInv, [Next]_vars, NEW j \in Fns, phase' # "prescan" \/ j < at'
             PROVE  program[j].name \in DOMAIN functions'
  BY ProgramKept DEF NamesRecorded, EffectInv
<1> USE DEF EffectInv
<1>1. j \in Nat /\ at \in Nat /\ j <= Len(program) /\ Len(program) \in Nat /\ j \in Fns
  BY ProgramKept
<1>2. phase # "prescan" \/ j < at => program[j].name \in DOMAIN functions
  BY DEF NamesRecorded
<1>3. DOMAIN functions \subseteq DOMAIN functions'
  BY DEF Next, vars, PrescanFn, PrescanType, PrescanState, CheckAlias, CheckFn, CheckFlow, RefuseFlow, Updated,
         CheckEmptyState, StartSearch, Expand, ReportUnreachable, CheckEffects, PassOver, NextPhase, Checked
<1>4. CASE PrescanFn
  <2>1. program[at].name \in DOMAIN functions' /\ at' = at + 1 /\ phase' = phase
    BY <1>4 DEF PrescanFn, Updated, decl
  <2> QED BY <1>1, <1>2, <1>3, <2>1
<1>5. CASE PrescanType \/ PrescanState
  <2>1. j # at /\ at' = at + 1 /\ phase' = phase
    BY <1>1, <1>5 DEF PrescanType, PrescanState, At, decl, Fns, Kind
  <2> QED BY <1>1, <1>2, <1>3, <2>1
<1>6. CASE NextPhase
  BY <1>1, <1>2, <1>3, <1>6 DEF NextPhase
<1>7. CASE CheckAlias \/ CheckFn \/ CheckFlow \/ RefuseFlow \/ CheckEmptyState \/ CheckEffects \/ PassOver \/ ReportUnreachable
  <2>1. phase # "prescan"
    BY <1>7 DEF CheckAlias, CheckFn, CheckFlow, RefuseFlow, CheckEmptyState, CheckEffects, PassOver, ReportUnreachable, At
  <2> QED BY <1>2, <1>3, <2>1
<1>8. CASE UNCHANGED <<phase, at, functions>>
  BY <1>2, <1>8
<1> QED BY <1>4, <1>5, <1>6, <1>7, <1>8 DEF Next, vars, StartSearch, Expand, Checked

LEMMA SignaturesKept == EffectInv /\ [Next]_vars => SignaturesRecorded'
<1> DEFINE End == IF phase = "detail" THEN at ELSE Len(program) + 1
<1> SUFFICES ASSUME EffectInv, [Next]_vars, phase' # "prescan", NoRefusal', NEW j \in Fns, LastBefore(j, End')
             PROVE  functions'[program[j].name] = program[j].effects
  <2>1. ASSUME EffectInv, [Next]_vars PROVE program' = program /\ Fns' = Fns
    BY <2>1, ProgramKept DEF EffectInv
  <2>2. ASSUME program' = program, Fns' = Fns, NEW j PROVE LastBefore(j, End)' <=> LastBefore(j, End')
    BY <2>2 DEF LastBefore
  <2> QED BY <2>1, <2>2 DEF SignaturesRecorded
<1> USE DEF EffectInv
<1>1. /\ NoRefusal /\ program' = program /\ at \in Nat /\ Len(program) \in Nat
      /\ \A k \in Fns : k \in Nat /\ k >= 1 /\ k <= Len(program)
  BY ProgramKept, RefusalStands
<1>2. phase # "prescan" /\ LastBefore(j, End) => functions[program[j].name] = program[j].effects
  BY <1>1 DEF SignaturesRecorded
<1>3. phase # "prescan" => program[j].name \in DOMAIN functions
  BY DEF NamesRecorded
<1>4. CASE CheckFn \/ CheckFlow
  <2>1. phase = "detail" /\ End = at /\ End' = at + 1 /\ at \in Fns
    BY <1>1, <1>4 DEF CheckFn, CheckFlow, At, decl, Fns, Kind, Decls, TypeOK
  <2>2. functions' = Updated(functions, program[at].name, program[at].effects)
    BY <1>4 DEF CheckFn, CheckFlow, decl
  <2>3. CASE program[j].name = program[at].name
    <3>1. j = at
      BY <1>1, <2>1, <2>3 DEF LastBefore
    <3> QED BY <2>2, <3>1 DEF Updated
  <2>4. CASE program[j].name # program[at].name
    <3>1. LastBefore(j, End)
      BY <1>1, <2>1, <2>4 DEF LastBefore
    <3>2. functions'[program[j].name] = functions[program[j].name]
      BY <1>3, <2>1, <2>2, <2>4 DEF Updated
    <3> QED BY <1>2, <2>1, <3>1, <3>2
  <2> QED BY <2>3, <2>4
<1>5. CASE RefuseFlow
  <2>1. at \in Kind("flow") /\ Kind("flow")' = Kind("flow")
    BY <1>1, <1>5, ProgramKept DEF RefuseFlow, At, decl, Kind, Decls, TypeOK
  <2>2. Error("TypeMismatch", decl.returns) \in errors'
    BY <1>5 DEF RefuseFlow
  <2>3. PICK i \in Kind("flow") : i = at
    BY <2>1
  <2>4. Reported("TypeMismatch", i)' # {}
    BY <2>2, <2>3 DEF Reported, Error
  <2> QED BY <2>1, <2>4 DEF NoRefusal
<1>6. CASE CheckAlias \/ CheckEmptyState \/ ReportUnreachable
  <2>1. phase = "detail" /\ End = at /\ End' = at + 1 /\ at \notin Fns /\ functions' = functions
    BY <1>6 DEF CheckAlias, CheckEmptyState, ReportUnreachable, At, decl, Fns, Kind
  <2>2. LastBefore(j, End)
    BY <1>1, <2>1 DEF LastBefore
  <2> QED BY <1>2, <2>1, <2>2
<1>7. CASE CheckEffects \/ PassOver
  <2>1. phase = "effects" /\ phase' = phase /\ End' = End /\ functions' = functions
    BY <1>1, <1>7 DEF CheckEffects, PassOver, At
  <2> QED BY <1>2, <2>1
<1>8. CASE NextPhase
  <2>1. functions' = functions /\ at' = 1 /\ at > Len(program) /\ at <= Len(program) + 1
    BY <1>8 DEF NextPhase, TypeOK
  <2>2. \/ phase = "prescan" /\ phase' = "detail"
        \/ phase # "prescan" /\ phase' \in {"effects", "done"}
    BY <1>8 DEF NextPhase, TypeOK
  <2>3. CASE phase = "prescan"
    <3>1. End' = 1
      BY <2>1, <2>2, <2>3
    <3> QED BY <1>1, <3>1 DEF LastBefore
  <2>4. CASE phase # "prescan"
    <3>1. End = Len(program) + 1 /\ End' = Len(program) + 1
      BY <1>1, <2>1, <2>2, <2>4
    <3> QED BY <1>2, <2>1, <2>4, <3>1
  <2> QED BY <2>3, <2>4
<1>9. CASE UNCHANGED <<phase, at, functions>>
  <2>1. End' = End
    BY <1>1, <1>9
  <2> QED BY <1>2, <1>9, <2>1
<1>10. CASE PrescanFn \/ PrescanType \/ PrescanState
  BY <1>10 DEF PrescanFn, PrescanType, PrescanState, At
<1> QED BY <1>4, <1>5, <1>6, <1>7, <1>8, <1>9, <1>10 DEF Next, vars, StartSearch, Expand, Checked

LEMMA EffectsReportedKept == EffectInv /\ [Next]_vars => EffectsReported'
<1> SUFFICES ASSUME EffectInv, [Next]_vars PROVE EffectsReported'
  OBVIOUS
<1> USE DEF EffectInv
<1>1. /\ program' = program /\ Fns' = Fns /\ Decls' = Decls /\ at \in Nat /\ Len(program) \in Nat
      /\ \A i \in Decls : i \in Nat /\ i >= 1 /\ i <= Len(program)
  BY ProgramKept
<1>2. SUFFICES ASSUME NEW i \in Decls
               PROVE  Reported("UndeclaredEffect", i)' = IF i \in Fns /\ Compared(i)' THEN LeaksOf(i)' ELSE {}
  BY <1>1 DEF EffectsReported
<1>3. Reported("UndeclaredEffect", i) = IF i \in Fns /\ Compared(i) THEN LeaksOf(i) ELSE {}
  BY DEF EffectsReported
<1>4. errors' = errors => Reported("UndeclaredEffect", i)' = Reported("UndeclaredEffect", i)
  BY DEF Reported
<1>5. functions' = functions => LeaksOf(i)' = LeaksOf(i)
  BY <1>1 DEF LeaksOf
<1>6. CASE CheckEffects
  <2>1. phase = "effects" /\ phase' = phase /\ at' = at + 1 /\ functions' = functions /\ at \in Fns
    BY <1>1, <1>6 DEF CheckEffects, At, decl, Fns, Kind, Decls, TypeOK
  <2>2. Reports("UndeclaredEffect", LeaksOf(at))
    BY <1>6 DEF CheckEffects, Reports, Leaks, LeaksOf, decl
  <2>3. Reported("UndeclaredEffect", i)' =
          IF i = at THEN Reported("UndeclaredEffect", i) \cup LeaksOf(at) ELSE Reported("UndeclaredEffect", i)
    BY <2>2, ReportedAdds
  <2>4. CASE i = at
    <3>1. ~Compared(i) /\ Compared(i)' /\ i \in Fns
      BY <1>1, <2>1, <2>4 DEF Compared
    <3> QED BY <1>3, <1>5, <2>1, <2>3, <2>4, <3>1
  <2>5. CASE i # at
    <3>1. Compared(i)' <=> Compared(i)
      BY <1>1, <2>1, <2>5 DEF Compared
    <3> QED BY <1>3, <1>5, <2>1, <2>3, <2>5, <3>1
  <2> QED BY <2>4, <2>5
<1>7. CASE PassOver
  <2>1. phase = "effects" /\ phase' = phase /\ at' = at + 1 /\ functions' = functions /\ errors' = errors /\ at \notin Fns
    BY <1>7 DEF PassOver, At, decl, Fns, Kind
  <2>2. i \in Fns => (Compared(i)' <=> Compared(i))
    BY <1>1, <2>1 DEF Compared
  <2> QED BY <1>3, <1>4, <1>5, <2>1, <2>2
<1>8. CASE NextPhase
  <2>1. functions' = functions /\ errors' = errors /\ at' = 1 /\ at > Len(program)
    BY <1>8 DEF NextPhase
  <2>2. \/ phase = "prescan" /\ phase' = "detail"
        \/ phase = "detail" /\ phase' = "effects"
        \/ phase = "effects" /\ phase' = "done"
    BY <1>8 DEF NextPhase, TypeOK
  <2>3. Compared(i)' <=> Compared(i)
    BY <1>1, <2>1, <2>2 DEF Compared
  <2> QED BY <1>3, <1>4, <1>5, <2>1, <2>3
<1>9. CASE PrescanFn \/ PrescanType \/ PrescanState \/ CheckEmptyState
  <2>1. errors' = errors /\ phase' = phase /\ phase \in {"prescan", "detail"}
    BY <1>9 DEF PrescanFn, PrescanType, PrescanState, CheckEmptyState, At
  <2> QED BY <1>3, <1>4, <2>1 DEF Compared
<1>10. CASE CheckAlias \/ CheckFn \/ CheckFlow \/ RefuseFlow
  <2>1. phase' = phase /\ phase = "detail"
    BY <1>10 DEF CheckAlias, CheckFn, CheckFlow, RefuseFlow, At
  <2>2. Reported("UndeclaredEffect", i)' = Reported("UndeclaredEffect", i)
    BY <1>10, CheckingReportsTypes, OthersReported
  <2> QED BY <1>3, <2>1, <2>2 DEF Compared
<1>11. CASE ReportUnreachable
  <2>1. phase' = phase /\ phase = "detail"
    BY <1>11 DEF ReportUnreachable, At
  <2>2. Reports("UnreachableState", States(at) \ visited)
    BY <1>11 DEF ReportUnreachable, Reports
  <2>3. Reported("UndeclaredEffect", i)' = Reported("UndeclaredEffect", i)
    BY <2>2, ReportedAdds
  <2> QED BY <1>3, <2>1, <2>3 DEF Compared
<1>12. CASE UNCHANGED <<phase, at, functions, errors>>
  BY <1>3, <1>4, <1>5, <1>12 DEF Compared
<1> QED BY <1>6, <1>7, <1>8, <1>9, <1>10, <1>11, <1>12 DEF Next, vars, StartSearch, Expand, Checked

LEMMA EffectInvariant == Spec => []EffectInv
<1>1. EffectInv /\ [Next]_vars => EffectInv'
  BY TypesKept, NamesKept, SignaturesKept, EffectsReportedKept DEF EffectInv
<1> QED BY <1>1, InitEffects, PTL DEF Spec

-----------------------------------------------------------------------------
(* Chains of calls.                                                        *)

\* Of the functions of a name, one is the last.
LEMMA LastOfAName ==
  ASSUME TypeOK, NEW i \in Fns
  PROVE  \E j \in Fns : program[j].name = program[i].name /\ LastNamed(j)
<1> DEFINE Same == {j \in Fns : program[j].name = program[i].name}
           Left == {Len(program) - j : j \in Same}
<1>1. Len(program) \in Nat /\ \A j \in Fns : j \in Nat /\ j <= Len(program)
  BY ProgramTypes DEF TypeOK, Fns, Kind, Decls
<1>2. Left \subseteq Nat /\ Left # {}
  BY <1>1
<1> HIDE DEF Left
<1>3. PICK m \in Left : \A n \in Left : ~(<<n, m>> \in OpToRel(<, Nat))
  BY <1>2, WFMin, NatLessThanWellFounded
<1>4. \A n \in Left : ~(n < m)
  BY <1>2, <1>3 DEF OpToRel
<1>5. PICK j \in Same : m = Len(program) - j
  BY DEF Left
<1>6. ASSUME NEW k \in Fns, program[k].name = program[j].name PROVE k <= j
  <2>1. Len(program) - k \in Left
    BY <1>5, <1>6 DEF Left
  <2>2. ~(Len(program) - k < Len(program) - j)
    BY <1>4, <1>5, <2>1
  <2> QED BY <1>1, <1>5, <2>2
<1> QED BY <1>5, <1>6 DEF LastNamed

\* When the effects have been compared, no undeclared effect has been reported
\* just when each function declares the effects of those it can reach.
LEMMA NoLeakMeansDeclared ==
  ASSUME EffectInv, phase = "done", NoRefusal
  PROVE  (\A i \in Decls : Reported("UndeclaredEffect", i) = {})
           <=> \A i \in Fns : \A j \in Reach(i) : program[j].effects \subseteq program[i].effects
<1> USE DEF EffectInv
<1>1. \A j \in Fns : LastNamed(j) => functions[program[j].name] = program[j].effects
  <2>1. ASSUME NEW j \in Fns, LastNamed(j) PROVE LastBefore(j, Len(program) + 1)
    BY <2>1, ProgramTypes DEF LastNamed, LastBefore, TypeOK, Fns, Kind, Decls
  <2> QED BY <2>1 DEF SignaturesRecorded
<1>2. \A i \in Decls : Reported("UndeclaredEffect", i) = IF i \in Fns THEN LeaksOf(i) ELSE {}
  BY DEF EffectsReported, Compared
<1>3. Fns \subseteq Decls /\ \A j \in Fns : program[j].name \in DOMAIN functions
  BY DEF Fns, Kind, NamesRecorded
<1>4. ASSUME \A i \in Decls : Reported("UndeclaredEffect", i) = {}, NEW i \in Fns, NEW j \in Reach(i)
      PROVE  program[j].effects \subseteq program[i].effects
  <2> DEFINE S == {k \in Fns : program[k].effects \subseteq program[i].effects}
  <2>1. ASSUME NEW k \in S, NEW c \in Callees(k) PROVE c \in S
    <3>1. c \in Fns /\ program[c].name \in program[k].calls /\ LastNamed(c)
      BY DEF Callees
    <3>2. LeaksOf(k) = {}
      BY <1>2, <1>3, <1>4
    <3>3. functions[program[c].name] \subseteq program[k].effects
      BY <1>3, <3>1, <3>2 DEF LeaksOf
    <3> QED BY <1>1, <3>1, <3>3
  <2>2. i \in S /\ CallClosed(S) /\ S \in SUBSET Fns
    BY <2>1 DEF CallClosed
  <2>3. j \in S
    BY <2>2 DEF Reach
  <2> QED BY <2>3
<1>5. ASSUME \A i \in Fns : \A j \in Reach(i) : program[j].effects \subseteq program[i].effects,
             NEW i \in Fns, NEW e \in LeaksOf(i)
      PROVE  FALSE
  <2>1. PICK n \in program[i].calls \cap DOMAIN functions : e \in functions[n] \ program[i].effects
    BY DEF LeaksOf
  <2>2. PICK k \in Fns : program[k].name = n
    BY <2>1 DEF TypeOK
  <2>3. PICK j \in Fns : program[j].name = n /\ LastNamed(j)
    BY <2>2, LastOfAName
  <2>4. j \in Callees(i)
    BY <2>1, <2>3 DEF Callees
  <2>5. j \in Reach(i)
    BY <2>3, <2>4 DEF Reach, CallClosed
  <2> QED BY <1>1, <1>5, <2>1, <2>3, <2>5
<1> QED BY <1>2, <1>4, <1>5

\* For every program without refused flows, undeclared effects are reported
\* exactly: comparing each function with those it calls is enough for whole
\* chains and cycles of calls (checker.rs:98-113, 439-484).
THEOREM EffectsAreExact == Spec => []EffectsExact
<1>1. EffectInv => EffectsExact
  BY NoLeakMeansDeclared DEF EffectsExact, NoRefusal
<1> QED BY <1>1, EffectInvariant, PTL

-----------------------------------------------------------------------------
(* Types that agree.                                                       *)

\* normalize_type is defined by recursion over the length of the chain, which
\* is well-founded: what is found so far determines the next name.
LEMMA ChainUnfolds ==
  ASSUME NEW type
  PROVE  LET c == Chain(type)
         IN  \A n \in Nat :
               c[n] = IF n = 0 THEN type
                      ELSE IF c[n - 1] \in DOMAIN aliases /\ \A k \in 0..(n - 2) : c[k] # c[n - 1]
                           THEN aliases[c[n - 1]]
                           ELSE c[n - 1]
<1> DEFINE Step(c, n) == IF n = 0 THEN type
                         ELSE IF c[n - 1] \in DOMAIN aliases /\ \A k \in 0..(n - 2) : c[k] # c[n - 1]
                              THEN aliases[c[n - 1]]
                              ELSE c[n - 1]
           Fits(p, m) == \A n \in 0..m : p[n] = Step(p, n)
           First(m) == CHOOSE p : Fits(p, m)
           g == [n \in Nat |-> First(n)[n]]
<1>1. ASSUME NEW n \in Nat, NEW p, NEW q, \A k \in 0..(n - 1) : p[k] = q[k]
      PROVE  Step(p, n) = Step(q, n)
  <2>1. CASE n = 0
    BY <2>1
  <2>2. CASE n # 0
    <3>1. n - 1 \in 0..(n - 1) /\ 0..(n - 2) \subseteq 0..(n - 1)
      BY <2>2
    <3>2. p[n - 1] = q[n - 1] /\ \A k \in 0..(n - 2) : p[k] = q[k]
      BY <1>1, <3>1
    <3> QED BY <2>2, <3>2
  <2> QED BY <2>1, <2>2
<1> HIDE DEF Step
<1>2. ASSUME NEW m \in Nat, NEW l \in Nat, NEW p, NEW q, Fits(p, m), Fits(q, l), NEW n \in (0..m) \cap (0..l)
      PROVE  p[n] = q[n]
  <2> DEFINE Differ == {k \in (0..m) \cap (0..l) : p[k] # q[k]}
  <2>1. SUFFICES ASSUME Differ # {} PROVE FALSE
    OBVIOUS
  <2>2. Differ \in SUBSET Nat
    OBVIOUS
  <2> HIDE DEF Differ
  <2>3. PICK d \in Differ : \A k \in Differ : ~(<<k, d>> \in OpToRel(<, Nat))
    BY <2>1, <2>2, WFMin, NatLessThanWellFounded
  <2>4. \A k \in Differ : ~(k < d)
    BY <2>2, <2>3 DEF OpToRel
  <2>5. d \in Nat /\ d <= m /\ d <= l /\ p[d] # q[d]
    BY DEF Differ
  <2>6. \A k \in 0..(d - 1) : p[k] = q[k]
    BY <2>4, <2>5 DEF Differ
  <2>7. Step(p, d) = Step(q, d)
    BY <1>1, <2>5, <2>6
  <2> QED BY <1>2, <2>5, <2>7
<1>3. ASSUME NEW m \in Nat PROVE \E p : Fits(p, m)
  <2> DEFINE Lacking == {k \in Nat : ~\E p : Fits(p, k)}
  <2>1. SUFFICES ASSUME Lacking # {} PROVE FALSE
    OBVIOUS
  <2> HIDE DEF Lacking
  <2>2. Lacking \in SUBSET Nat
    BY DEF Lacking
  <2>3. PICK d \in Lacking : \A k \in Lacking : ~(<<k, d>> \in OpToRel(<, Nat))
    BY <2>1, <2>2, WFMin, NatLessThanWellFounded
  <2>4. \A k \in Lacking : ~(k < d)
    BY <2>2, <2>3 DEF OpToRel
  <2>5. d \in Nat /\ ~\E p : Fits(p, d)
    BY DEF Lacking
  <2>6. CASE d = 0
    <3> DEFINE p == [n \in Nat |-> type]
    <3>1. Fits(p, d)
      BY <2>6 DEF Step
    <3> QED BY <2>5, <3>1
  <2>7. CASE d # 0
    <3>1. PICK p : Fits(p, d - 1)
      BY <2>4, <2>5, <2>7 DEF Lacking
    <3> DEFINE q == [n \in Nat |-> IF n < d THEN p[n] ELSE Step(p, d)]
    <3>2. \A n \in 0..(d - 1) : q[n] = p[n]
      BY <2>5
    <3>3. q[d] = Step(p, d)
      BY <2>5
    <3> HIDE DEF q
    <3>4. ASSUME NEW n \in 0..d PROVE q[n] = Step(q, n)
      <4>1. n \in Nat /\ \A k \in 0..(n - 1) : p[k] = q[k]
        BY <2>5, <3>2
      <4>2. Step(p, n) = Step(q, n)
        BY <1>1, <4>1
      <4>3. CASE n = d
        BY <3>3, <4>2, <4>3
      <4>4. CASE n # d
        <5>1. n \in 0..(d - 1)
          BY <2>5, <4>4
        <5> QED BY <3>1, <3>2, <4>2, <5>1
      <4> QED BY <4>3, <4>4
    <3> QED BY <2>5, <3>4
  <2> QED BY <2>6, <2>7
<1>4. \A m \in Nat : Fits(First(m), m)
  BY <1>3
<1> HIDE DEF First
<1>5. ASSUME NEW n \in Nat PROVE g[n] = Step(g, n)
  <2>1. ASSUME NEW k \in 0..(n - 1) PROVE First(n)[k] = g[k]
    <3>1. k \in Nat /\ k \in (0..n) \cap (0..k)
      OBVIOUS
    <3>2. Fits(First(n), n) /\ Fits(First(k), k)
      BY <1>4, <3>1
    <3> HIDE DEF Fits
    <3>3. First(n)[k] = First(k)[k]
      BY <1>2, <3>1, <3>2
    <3> QED BY <3>1, <3>3
  <2>2. Step(First(n), n) = Step(g, n)
    BY <1>1, <2>1
  <2>3. n \in 0..n
    OBVIOUS
  <2> QED BY <1>4, <2>2, <2>3
<1>6. g = [n \in Nat |-> Step(g, n)]
  BY <1>5
<1> DEFINE c == Chain(type)
<1>7. c = CHOOSE f : f = [n \in Nat |-> Step(f, n)]
  BY DEF Chain, Step
<1> HIDE DEF c, g
<1>8. c = [n \in Nat |-> Step(c, n)]
  BY <1>6, <1>7
<1> QED BY <1>8 DEF c, Step

\* A name whose only target is another stands for what that stands for.
LEMMA TargetDenotes ==
  ASSUME NEW t \in Names, NEW u, Targets(t) = {u}
  PROVE  Denotes(t) = Denotes(u)
<1>1. ASSUME NEW x \in Denotes(t) PROVE x \in Denotes(u)
  <2>1. x \in Names /\ Targets(x) = {} /\ x # t
    BY DEF Denotes
  <2>2. ASSUME NEW S \in SUBSET Names, u \in S, TypeClosed(S) PROVE x \in S
    <3>1. S \cup {t} \in SUBSET Names /\ TypeClosed(S \cup {t})
      BY <2>2 DEF TypeClosed
    <3>2. x \in S \cup {t}
      BY <3>1 DEF Denotes
    <3> QED BY <2>1, <3>2
  <2> QED BY <2>1, <2>2 DEF Denotes
<1>2. ASSUME NEW x \in Denotes(u) PROVE x \in Denotes(t)
  <2>1. x \in Names /\ Targets(x) = {}
    BY DEF Denotes
  <2>2. ASSUME NEW S \in SUBSET Names, t \in S, TypeClosed(S) PROVE x \in S
    <3>1. u \in S
      BY <2>2 DEF TypeClosed
    <3> QED BY <2>2, <3>1 DEF Denotes
  <2> QED BY <2>1, <2>2 DEF Denotes
<1> QED BY <1>1, <1>2

LEMMA NumbersStandForThemselves ==
  ASSUME AliasesSound, NEW t \in Numeric
  PROVE  Denotes(t) \subseteq Numeric
<1>1. Targets(t) = {} /\ {t} \in SUBSET Names
  BY TypeNames DEF AliasesSound, Targets, Names, Kind
<1>2. TypeClosed({t})
  BY <1>1 DEF TypeClosed
<1> QED BY <1>1, <1>2 DEF Denotes

\* Where the aliases recorded are those declared so far, following them loses
\* nothing, however far it goes.
AliasesRecorded == \A a \in DOMAIN aliases : \E i \in Kind("alias") : program[i].name = a /\ program[i].to = aliases[a]

LEMMA FollowingDenotes ==
  ASSUME AliasesRecorded, AliasesSound, NEW type, NEW n \in Nat
  PROVE  Denotes(Chain(type)[n]) = Denotes(type)
<1> DEFINE c == Chain(type)
           Astray == {k \in Nat : Denotes(c[k]) # Denotes(type)}
<1>1. SUFFICES ASSUME Astray # {} PROVE FALSE
  OBVIOUS
<1>2. c[0] = type /\ \A k \in Nat : c[k + 1] = c[k] \/ (c[k] \in DOMAIN aliases /\ c[k + 1] = aliases[c[k]])
  <2> HIDE DEF c
  <2>1. \A k \in Nat : k + 1 # 0 /\ (k + 1) - 1 = k /\ k + 1 \in Nat
    OBVIOUS
  <2> QED BY <2>1, ChainUnfolds DEF c
<1> HIDE DEF c
<1>3. Astray \in SUBSET Nat
  OBVIOUS
<1> HIDE DEF Astray
<1>4. PICK d \in Astray : \A k \in Astray : ~(<<k, d>> \in OpToRel(<, Nat))
  BY <1>1, <1>3, WFMin, NatLessThanWellFounded
<1>5. d \in Nat /\ Denotes(c[d]) # Denotes(type) /\ \A k \in Astray : ~(k < d)
  BY <1>3, <1>4 DEF Astray, OpToRel
<1>6. d # 0
  BY <1>2, <1>5
<1>7. d - 1 \in Nat /\ (d - 1) + 1 = d /\ Denotes(c[d - 1]) = Denotes(type)
  BY <1>5, <1>6 DEF Astray
<1>8. CASE c[d] = c[d - 1]
  BY <1>5, <1>7, <1>8
<1>9. CASE c[d - 1] \in DOMAIN aliases /\ c[d] = aliases[c[d - 1]]
  <2>1. PICK i \in Kind("alias") : program[i].name = c[d - 1] /\ program[i].to = c[d]
    BY <1>9 DEF AliasesRecorded
  <2>2. Targets(c[d - 1]) = {c[d]} /\ c[d - 1] \in Names
    BY <2>1 DEF Targets, AliasesSound, Names
  <2> QED BY <1>5, <1>7, <2>2, TargetDenotes
<1> QED BY <1>2, <1>7, <1>8, <1>9

LEMMA NormalizedDenotes ==
  ASSUME program \in Programs, AliasesRecorded, AliasesSound, NEW type
  PROVE  Denotes(Normalized(type)) = Denotes(type)
BY FollowingDenotes, ProgramTypes DEF Normalized

LEMMA CompatibleIsSame ==
  ASSUME program \in Programs, AliasesRecorded, AliasesSound, NEW left, NEW right, Compatible(left, right)
  PROVE  SameType(left, right)
<1>1. Denotes(Normalized(left)) = Denotes(left) /\ Denotes(Normalized(right)) = Denotes(right)
  BY NormalizedDenotes
<1>2. CASE Normalized(left) = Normalized(right)
  BY <1>1, <1>2 DEF SameType
<1>3. CASE Normalized(left) \in Numeric /\ Normalized(right) \in Numeric
  BY <1>1, <1>3, NumbersStandForThemselves DEF SameType
<1> QED BY <1>2, <1>3 DEF Compatible

\* A function that the second pass has gone over and not complained of.
Detailed(i) == phase \in {"effects", "done"} \/ (phase = "detail" /\ i < at)
AcceptedGive ==
  AliasesSound =>
    \A i \in Fns : Detailed(i) /\ program[i].gives # Unchecked /\ Reported("TypeMismatch", i) = {} => Gives(i)
AgreeInv == TypeOK /\ AliasesRecorded /\ AcceptedGive

LEMMA InitAgree == Init => AgreeInv
<1> SUFFICES ASSUME Init PROVE AgreeInv
  OBVIOUS
<1>1. DOMAIN aliases = {} /\ \A i \in Fns : ~Detailed(i)
  BY DEF Init, Detailed
<1> QED BY <1>1, InitTypes DEF AgreeInv, AliasesRecorded, AcceptedGive

LEMMA ProgramMeansTheSame ==
  ASSUME program' = program, NEW i
  PROVE  /\ AliasesSound' = AliasesSound /\ Gives(i)' = Gives(i)
         /\ Fns' = Fns /\ Kind("alias")' = Kind("alias")
BY DEF AliasesSound, Kind, Decls, Denotes, Names, Targets, TypeClosed, Fns, Gives, SameType

\* What the second pass says of a function when it gets to it.
LEMMA BodyChecked ==
  ASSUME AgreeInv, AliasesSound, CheckFn \/ CheckFlow \/ RefuseFlow,
         NEW i, i = at, program[i].gives # Unchecked, Reported("TypeMismatch", i)' = {}
  PROVE  Gives(i)
<1>1. at \in Decls /\ program \in Programs /\ decl = program[at]
  BY ProgramTypes DEF AgreeInv, TypeOK, CheckFn, CheckFlow, RefuseFlow, At, Decls, decl
<1>2. ASSUME NEW w, Error("TypeMismatch", w) \in errors' PROVE FALSE
  <2>1. Error("TypeMismatch", w).kind = "TypeMismatch" /\ Error("TypeMismatch", w).decl = at
    BY DEF Error
  <2>2. Error("TypeMismatch", w).what \in Reported("TypeMismatch", i)'
    BY <1>2, <2>1 DEF Reported
  <2> QED BY <2>2
<1>3. CASE CheckFn
  <2>1. Compatible(program[at].returns, program[at].gives)
    BY <1>1, <1>2, <1>3 DEF CheckFn, Mismatch
  <2> QED BY <1>1, <1>3, <2>1, CompatibleIsSame DEF AgreeInv, CheckFn, At, Gives
<1>4. CASE CheckFlow
  <2> DEFINE r == Normalized(program[at].returns)
  <2>1. r \in DOMAIN OkType /\ Compatible(OkType[r], program[at].gives)
    BY <1>1, <1>2, <1>4 DEF CheckFlow, Mismatch
  <2>2. SameType(program[at].returns, r)
    BY <1>1, NormalizedDenotes DEF AgreeInv, SameType
  <2>3. SameType(OkType[r], program[at].gives)
    BY <1>1, <2>1, CompatibleIsSame DEF AgreeInv
  <2>4. program[at].kind = "flow"
    BY <1>1, <1>4 DEF CheckFlow, At
  <2> HIDE DEF r
  <2> QED BY <2>1, <2>2, <2>3, <2>4 DEF Gives
<1>5. CASE RefuseFlow
  BY <1>2, <1>5 DEF RefuseFlow
<1> QED BY <1>3, <1>4, <1>5

LEMMA AliasesRecordedKept == AgreeInv /\ [Next]_vars => AliasesRecorded'
<1> SUFFICES ASSUME AgreeInv, [Next]_vars PROVE AliasesRecorded'
  OBVIOUS
<1>1. program' = program /\ Kind("alias")' = Kind("alias")
  <2>1. program' = program
    BY ProgramKept DEF AgreeInv
  <2> QED BY <2>1, ProgramMeansTheSame
<1>2. CASE CheckAlias
  <2>1. at \in Kind("alias") /\ decl = program[at]
    BY <1>2, ProgramTypes DEF CheckAlias, At, Kind, Decls, decl, AgreeInv, TypeOK
  <2>2. /\ DOMAIN aliases' = DOMAIN aliases \cup {program[at].name}
        /\ aliases'[program[at].name] = program[at].to
        /\ \A a \in DOMAIN aliases : a # program[at].name => aliases'[a] = aliases[a]
    BY <1>2, <2>1 DEF CheckAlias, Updated
  <2> QED BY <1>1, <2>1, <2>2 DEF AgreeInv, AliasesRecorded
<1>3. CASE aliases' = aliases
  BY <1>1, <1>3 DEF AgreeInv, AliasesRecorded
<1> QED BY <1>2, <1>3 DEF Next, vars, PrescanFn, PrescanType, PrescanState, CheckFn, CheckFlow, RefuseFlow,
      CheckEmptyState, StartSearch, Expand, ReportUnreachable, CheckEffects, PassOver, NextPhase, Checked

LEMMA AcceptedGiveKept == AgreeInv /\ [Next]_vars => AcceptedGive'
<1> SUFFICES ASSUME AgreeInv, [Next]_vars PROVE AcceptedGive'
  OBVIOUS
<1>1. /\ program' = program /\ program \in Programs /\ errors \subseteq errors' /\ at \in Nat /\ Len(program) \in Nat
      /\ \A i \in Fns : i \in Nat /\ i >= 1 /\ i <= Len(program)
      /\ Fns' = Fns /\ AliasesSound' = AliasesSound /\ \A i : Gives(i)' = Gives(i)
  BY ProgramKept, ProgramMeansTheSame DEF AgreeInv, Fns
<1>2. SUFFICES ASSUME AliasesSound, NEW i \in Fns, Detailed(i)', program[i].gives # Unchecked,
                      Reported("TypeMismatch", i)' = {}
               PROVE  Gives(i)
  BY <1>1 DEF AcceptedGive
<1>3. Reported("TypeMismatch", i) = {}
  BY <1>1, <1>2, ReportedGrows
<1>4. CASE Detailed(i)
  BY <1>2, <1>3, <1>4 DEF AgreeInv, AcceptedGive
<1>5. CASE ~Detailed(i)
  <2>1. phase \in {"prescan", "detail", "effects", "done"} /\ at >= 1 /\ at <= Len(program) + 1
    BY <1>1 DEF AgreeInv, TypeOK
  <2>2. CASE CheckFn \/ CheckFlow \/ RefuseFlow
    <3>1. phase = "detail" /\ phase' = "detail" /\ at' = at + 1
      BY <2>2 DEF CheckFn, CheckFlow, RefuseFlow, At
    <3>2. i = at
      BY <1>1, <1>2, <1>5, <3>1 DEF Detailed
    <3> QED BY <1>2, <2>2, <3>2, BodyChecked
  <2>3. CASE CheckAlias \/ CheckEmptyState \/ ReportUnreachable
    <3>1. phase = "detail" /\ phase' = "detail" /\ at' = at + 1 /\ program[at].kind \in {"alias", "state"}
      BY <2>3 DEF CheckAlias, CheckEmptyState, ReportUnreachable, At, decl
    <3>2. i = at
      BY <1>1, <1>2, <1>5, <3>1 DEF Detailed
    <3> QED BY <3>1, <3>2 DEF Fns, Kind
  <2>4. CASE NextPhase
    <3>1. phase # "prescan"
      BY <1>1, <1>2, <2>4 DEF NextPhase, Detailed
    <3> QED BY <1>1, <1>5, <2>1, <2>4, <3>1 DEF NextPhase, Detailed
  <2>5. CASE (phase' = phase /\ at' = at) \/ (phase' = phase /\ phase \in {"prescan", "effects"})
    BY <1>2, <1>5, <2>5 DEF Detailed
  <2> QED BY <2>2, <2>3, <2>4, <2>5 DEF Next, vars, PrescanFn, PrescanType, PrescanState, StartSearch, Expand,
        CheckEffects, PassOver, Checked, At
<1> QED BY <1>4, <1>5

LEMMA AgreeInvariant == Spec => []AgreeInv
<1>1. AgreeInv /\ [Next]_vars => AgreeInv'
  BY TypesKept, AliasesRecordedKept, AcceptedGiveKept DEF AgreeInv
<1> QED BY <1>1, InitAgree, PTL DEF Spec

\* For every program whose aliases are sound, a body that is accepted has the
\* type its function declares, a flow's last step the type inside the Result:
\* aliases that are declared later, and chains of any length, change nothing
\* (checker.rs:282-404, 542-553, 1113-1203).
THEOREM AcceptedBodiesAgree == Spec => []AcceptedAgree
<1>1. AgreeInv => AcceptedAgree
  BY DEF AgreeInv, AcceptedGive, Detailed, AcceptedAgree
<1> QED BY <1>1, AgreeInvariant, PTL
=============================================================================
