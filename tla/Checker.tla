--------------------------------- MODULE Checker ---------------------------------
(***************************************************************************)
(* The type and effect checker, crates/nous-types/src/checker.rs:          *)
(* TypeChecker::check goes over the declarations three times.  The first   *)
(* pass collects the names of types and the signatures of functions, the   *)
(* second checks each declaration in detail, searching the transitions of  *)
(* a state machine for states that cannot be reached, the third compares   *)
(* the effects of each function with those of the functions it calls.      *)
(* Errors are collected and stop nothing.                                  *)
(*                                                                         *)
(* A type is a name: a built-in one, one of the Results, or an alias of    *)
(* another.  A function has the effects it declares, the names its body    *)
(* calls, its return type and the type its body is found to have; a flow   *)
(* calls what its steps and its rollbacks call, and gives what its last    *)
(* step gives.  Functions may share a name.                                *)
(***************************************************************************)
EXTENDS Naturals, Sequences

CONSTANTS Programs,    \* sequences of declarations
          Builtin,     \* BUILTIN_TYPES
          Numeric,     \* those that mix in arithmetic
          OkType       \* of each Result type, the type it holds when it is Ok

ASSUME TypeNames == Numeric \subseteq Builtin /\ DOMAIN OkType \subseteq Builtin \ Numeric
ASSUME ProgramsAreLists ==
  \A p \in Programs :
    /\ Len(p) \in Nat /\ DOMAIN p = 1..Len(p)
    /\ \A i \in 1..Len(p) :
         /\ p[i].kind \in {"fn", "flow", "alias", "state"}
         /\ p[i].kind = "state" => Len(p[i].transitions) \in Nat

Unchecked == "unchecked"   \* a body of unknown type, or none: it is synthesized from the ensures clauses

VARIABLES program,
          phase,       \* "prescan", "detail", "effects" or "done"
          at,          \* the declaration the pass has come to
          known,       \* env.known_types
          aliases,     \* env.aliases
          functions,   \* env.functions: name -> declared effects
          queue,       \* reachable_states: the states found and not yet expanded
          visited,     \* reachable_states: the states found
          errors       \* what has been reported: [kind, decl, what]

vars == <<program, phase, at, known, aliases, functions, queue, visited, errors>>

decl == program[at]
At(pass, kind) == phase = pass /\ at <= Len(program) /\ decl.kind = kind
Error(kind, what) == [kind |-> kind, decl |-> at, what |-> what]
Updated(f, x, v) == [y \in DOMAIN f \cup {x} |-> IF y = x THEN v ELSE f[y]]

-----------------------------------------------------------------------------
(* Types.                                                                  *)

\* normalize_type: aliases are followed until one comes round again.
Chain(type) ==
  LET c[n \in Nat] ==
        IF n = 0 THEN type
        ELSE IF c[n - 1] \in DOMAIN aliases /\ \A k \in 0..(n - 2) : c[k] # c[n - 1]
             THEN aliases[c[n - 1]]
             ELSE c[n - 1]
  IN  c
Normalized(type) == Chain(type)[Len(program) + 1]

\* Mutant: one number is enough.
CompatibleWithNumber(left, right) ==
  Normalized(left) = Normalized(right) \/ Normalized(left) \in Numeric

\* merge_types on names.
Compatible(left, right) ==
  \/ Normalized(left) = Normalized(right)
  \/ Normalized(left) \in Numeric /\ Normalized(right) \in Numeric

-----------------------------------------------------------------------------
(* Phase 1: names.                                                         *)

PrescanFn ==
  /\ At("prescan", "fn") \/ At("prescan", "flow")
  /\ functions' = Updated(functions, decl.name, decl.effects)
  /\ at' = at + 1
  /\ UNCHANGED <<program, phase, known, aliases, queue, visited, errors>>

PrescanType ==
  /\ At("prescan", "alias")
  /\ known' = known \cup {decl.name}
  /\ at' = at + 1
  /\ UNCHANGED <<program, phase, aliases, functions, queue, visited, errors>>

PrescanState ==
  /\ At("prescan", "state")
  /\ at' = at + 1
  /\ UNCHANGED <<program, phase, known, aliases, functions, queue, visited, errors>>

-----------------------------------------------------------------------------
(* Phase 2: each declaration by itself.                                    *)

Unknown(type) == IF type \in known THEN {} ELSE {Error("UnknownType", type)}

\* check_type_alias: the alias counts from here on.
CheckAlias ==
  /\ At("detail", "alias")
  /\ errors' = errors \cup Unknown(decl.to)
  /\ aliases' = Updated(aliases, decl.name, decl.to)
  /\ at' = at + 1
  /\ UNCHANGED <<program, phase, known, functions, queue, visited>>

Mismatch(expected, got) ==
  IF got = Unchecked \/ Compatible(expected, got) THEN {} ELSE {Error("TypeMismatch", got)}

\* check_fn: the body has the return type; the signature is recorded again.
CheckFn ==
  /\ At("detail", "fn")
  /\ errors' = errors \cup Unknown(decl.returns) \cup Mismatch(decl.returns, decl.gives)
  /\ functions' = Updated(functions, decl.name, decl.effects)
  /\ at' = at + 1
  /\ UNCHANGED <<program, phase, known, aliases, queue, visited>>

\* check_flow: the last step gives what an Ok holds; a flow that does not return
\* a Result is refused, and its signature is not recorded again.
CheckFlow ==
  /\ At("detail", "flow") /\ Normalized(decl.returns) \in DOMAIN OkType
  /\ errors' = errors \cup Unknown(decl.returns) \cup Mismatch(OkType[Normalized(decl.returns)], decl.gives)
  /\ functions' = Updated(functions, decl.name, decl.effects)
  /\ at' = at + 1
  /\ UNCHANGED <<program, phase, known, aliases, queue, visited>>

RefuseFlow ==
  /\ At("detail", "flow") /\ Normalized(decl.returns) \notin DOMAIN OkType
  /\ errors' = errors \cup Unknown(decl.returns) \cup {Error("TypeMismatch", decl.returns)}
  /\ at' = at + 1
  /\ UNCHANGED <<program, phase, known, aliases, functions, queue, visited>>

\* check_state: the states are those the transitions name, the first of them
\* is where the machine begins.
States(i) == UNION {{program[i].transitions[k].from, program[i].transitions[k].to} :
                       k \in 1..Len(program[i].transitions)}
Initial(i) == program[i].transitions[1].from
Successors(i, state) ==
  {program[i].transitions[k].to :
     k \in {j \in 1..Len(program[i].transitions) : program[i].transitions[j].from = state}}

CheckEmptyState ==
  /\ At("detail", "state") /\ Len(decl.transitions) = 0
  /\ at' = at + 1
  /\ UNCHANGED <<program, phase, known, aliases, functions, queue, visited, errors>>

StartSearch ==
  /\ At("detail", "state") /\ Len(decl.transitions) > 0 /\ visited = {}
  /\ visited' = {Initial(at)}
  /\ queue' = {Initial(at)}
  /\ UNCHANGED <<program, phase, at, known, aliases, functions, errors>>

\* Mutant: a state found again is expanded again.
ExpandAgain(state) ==
  /\ At("detail", "state") /\ state \in queue
  /\ visited' = visited \cup Successors(at, state)
  /\ queue' = (queue \ {state}) \cup Successors(at, state)
  /\ UNCHANGED <<program, phase, at, known, aliases, functions, errors>>

\* A state is taken from the queue; the order does not matter to what is found.
Expand(state) ==
  /\ At("detail", "state") /\ state \in queue
  /\ visited' = visited \cup Successors(at, state)
  /\ queue' = (queue \ {state}) \cup (Successors(at, state) \ visited)
  /\ UNCHANGED <<program, phase, at, known, aliases, functions, errors>>

\* Mutant: only states that nothing leads to are reported.
ReportSources ==
  /\ At("detail", "state") /\ visited # {} /\ queue = {}
  /\ errors' = errors \cup {Error("UnreachableState", s) :
                  s \in {t \in States(at) \ visited : \A u \in States(at) : t \notin Successors(at, u)}}
  /\ visited' = {}
  /\ at' = at + 1
  /\ UNCHANGED <<program, phase, known, aliases, functions, queue>>

ReportUnreachable ==
  /\ At("detail", "state") /\ visited # {} /\ queue = {}
  /\ errors' = errors \cup {Error("UnreachableState", s) : s \in States(at) \ visited}
  /\ visited' = {}
  /\ at' = at + 1
  /\ UNCHANGED <<program, phase, known, aliases, functions, queue>>

-----------------------------------------------------------------------------
(* Phase 3: effects.                                                       *)

\* Mutant: a function without effects is not looked into.
LeaksOfImpure ==
  UNION {functions[n] \ decl.effects : n \in {c \in decl.calls \cap DOMAIN functions : decl.effects # {}}}

\* check_effect_leakage: what the functions called do must be declared.  A name
\* that no function has (a builtin, a variable) counts for nothing.
Leaks ==
  UNION {functions[n] \ decl.effects : n \in decl.calls \cap DOMAIN functions}

CheckEffects ==
  /\ At("effects", "fn") \/ At("effects", "flow")
  /\ errors' = errors \cup {Error("UndeclaredEffect", e) : e \in Leaks}
  /\ at' = at + 1
  /\ UNCHANGED <<program, phase, known, aliases, functions, queue, visited>>

PassOver ==
  /\ At("effects", "alias") \/ At("effects", "state")
  /\ at' = at + 1
  /\ UNCHANGED <<program, phase, known, aliases, functions, queue, visited, errors>>

-----------------------------------------------------------------------------
NextPhase ==
  /\ at > Len(program) /\ phase # "done"
  /\ phase' = CASE phase = "prescan" -> "detail" [] phase = "detail" -> "effects" [] phase = "effects" -> "done"
  /\ at' = 1
  /\ UNCHANGED <<program, known, aliases, functions, queue, visited, errors>>

Checked == phase = "done" /\ UNCHANGED vars

Init ==
  /\ program \in Programs
  /\ phase = "prescan" /\ at = 1
  /\ known = Builtin /\ aliases = <<>> /\ functions = <<>>
  /\ queue = {} /\ visited = {} /\ errors = {}

Next ==
  \/ PrescanFn \/ PrescanType \/ PrescanState
  \/ CheckAlias \/ CheckFn \/ CheckFlow \/ RefuseFlow \/ CheckEmptyState \/ StartSearch \/ (\E state \in queue : Expand(state))
  \/ ReportUnreachable \/ CheckEffects \/ PassOver \/ NextPhase \/ Checked

Spec == Init /\ [][Next]_vars

\* `check` runs to its end.
FairSpec == Spec /\ WF_vars(Next)

-----------------------------------------------------------------------------
Decls == 1..Len(program)
Kind(kind) == {i \in Decls : program[i].kind = kind}
Fns == Kind("fn") \cup Kind("flow")
Reported(kind, i) == {e.what : e \in {x \in errors : x.kind = kind /\ x.decl = i}}

TypeOK ==
  /\ program \in Programs
  /\ phase \in {"prescan", "detail", "effects", "done"}
  /\ at \in 1..(Len(program) + 1)
  /\ DOMAIN functions \subseteq {program[i].name : i \in Fns}
  /\ DOMAIN aliases \subseteq known
  /\ known = Builtin \cup {program[i].name : i \in {j \in Kind("alias") : phase # "prescan" \/ j < at}}
  /\ queue \subseteq visited
  /\ visited # {} => At("detail", "state") /\ visited \subseteq States(at)
  /\ \A e \in errors :
       /\ e.kind \in {"UnknownType", "TypeMismatch", "UnreachableState", "UndeclaredEffect"}
       /\ e.decl \in Decls

\* The functions that a call of a name leads to: the last declared of that name.
LastNamed(i) == \A j \in Fns : program[j].name = program[i].name => j <= i
Callees(i) == {j \in Fns : program[j].name \in program[i].calls /\ LastNamed(j)}
CallClosed(S) == \A j \in S : Callees(j) \subseteq S
Reach(i) == {j \in Fns : \A S \in SUBSET Fns : i \in S /\ CallClosed(S) => j \in S}

\* The check of each function against those it calls is exact for whole chains
\* of calls: unless a flow was refused, no undeclared effect is reported just
\* when every function declares all effects of everything it can reach, around
\* cycles of calls and past functions that share a name too (checker.rs:98-113,
\* 462-483).
EffectsExact ==
  phase = "done" /\ (\A i \in Kind("flow") : Reported("TypeMismatch", i) = {}) =>
    ((\A i \in Decls : Reported("UndeclaredEffect", i) = {})
       <=> \A i \in Fns : \A j \in Reach(i) : program[j].effects \subseteq program[i].effects)

\* The states that can be reached from the first.
StepClosed(i, S) == \A s \in S : Successors(i, s) \subseteq S
Reachable(i) == {s \in States(i) : \A S \in SUBSET States(i) : Initial(i) \in S /\ StepClosed(i, S) => s \in S}

\* The states reported of a machine are exactly those that no path of
\* transitions from the first state leads to (checker.rs:239-263, 1443-1468).
UnreachableExact ==
  phase = "done" =>
    \A i \in Kind("state") :
      Reported("UnreachableState", i) = States(i) \ Reachable(i)

\* What a type stands for, all aliases of the program counted: the names it
\* leads to that are not aliases.
Targets(type) == {program[i].to : i \in {j \in Kind("alias") : program[j].name = type}}
TypeClosed(S) == \A t \in S : Targets(t) \subseteq S
Names == Builtin \cup {program[i].name : i \in Kind("alias")} \cup {program[i].to : i \in Kind("alias")}
           \cup {program[i].returns : i \in Fns} \cup {program[i].gives : i \in Fns}
Denotes(type) == {t \in Names : Targets(t) = {} /\ \A S \in SUBSET Names : type \in S /\ TypeClosed(S) => t \in S}
SameType(left, right) ==
  \/ Denotes(left) = Denotes(right)
  \/ Denotes(left) \cup Denotes(right) \subseteq Numeric

\* Each alias is declared once and leads to a type.  Nothing keeps a program
\* from giving an alias the name of a number, which then counts as one above its
\* declaration only.
AliasesSound ==
  /\ \A i, j \in Kind("alias") : program[i].name = program[j].name => i = j
  /\ \A i \in Kind("alias") : program[i].name \notin Numeric
  /\ \A i \in Kind("alias") : Denotes(program[i].name) # {}

\* What function i ought to give, a flow the type inside its Result.
Gives(i) ==
  IF program[i].kind = "fn" THEN SameType(program[i].returns, program[i].gives)
  ELSE \E r \in DOMAIN OkType : SameType(program[i].returns, r) /\ SameType(OkType[r], program[i].gives)

\* Where aliases are sound, a body that is accepted has the type its function
\* declares, whatever the order of the declarations and the length of the
\* chains of aliases (checker.rs:1113-1203).
AcceptedAgree ==
  phase = "done" /\ AliasesSound =>
    \A i \in Fns :
      program[i].gives # Unchecked /\ Reported("TypeMismatch", i) = {} => Gives(i)

\* Checking ends: the search of a state machine with cycles too.
Terminates == <>(phase = "done")
=============================================================================
