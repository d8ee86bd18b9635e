-------------------------------- MODULE Verifier --------------------------------
(***************************************************************************)
(* The contract verifier, crates/nous-verify/src/verifier.rs:              *)
(* Verifier::verify visits the declarations in order.  The clauses of a    *)
(* contract go to the solver one by one; the transitions of a state        *)
(* machine are searched forwards from its first state and backwards from   *)
(* its terminal states; at the end the functions whose trust was lowered   *)
(* are warned about.  Errors are collected and stop nothing; what is no    *)
(* error is counted, warned about or put into a diagnostic.                *)
(*                                                                         *)
(* What the solver answers is a parameter (module Smt says what), and so   *)
(* are the clauses found inside the steps of a flow.  A warning or a       *)
(* diagnostic is a record of its kind, its declaration and what it is      *)
(* about.  The trust that analyze gives is that of module Trust: each      *)
(* function has the weakest level among all it depends on.                 *)
(***************************************************************************)
EXTENDS Naturals, Sequences, FiniteSets

CONSTANTS Programs,               \* name of a program -> its declarations
          RequireVerdict(_),      \* check_require_satisfiable
          ContractVerdict(_, _),  \* check_contract: requires, ensure
          LiteralFalse(_),        \* is_literal_false
          UsesPrimed(_),          \* uses_primed_var
          InlineRequires(_)       \* of the steps of a flow: the requires inside their bodies

IsList(s) == Len(s) \in Nat /\ DOMAIN s = 1..Len(s)

ASSUME ProgramsAreLists ==
  \A p \in DOMAIN Programs :
    /\ Len(Programs[p]) \in Nat
    /\ \A i \in 1..Len(Programs[p]) :
         LET d == Programs[p][i]
         IN  /\ d.kind \in {"fn", "flow", "entity", "state", "capability", "main"}
             /\ d.kind \in {"fn", "flow"} => IsList(d.requires) /\ IsList(d.ensures)
             /\ d.kind = "flow" => IsList(InlineRequires(d.steps))
             /\ d.kind = "entity" => IsList(d.invariants)
             /\ d.kind = "state" => Len(d.transitions) \in Nat

VARIABLES program,
          at,            \* the declaration visited
          phase,         \* "walk", "forward" and "backward" in a state machine, "done"
          queue,         \* of the search: the states found and not yet expanded
          visited,       \* of the search: the states found
          unreached,     \* unreachable_states, once the forward search is over
          verified,      \* verified_count
          unverified,    \* unverified_count
          errors, warnings, diagnostics

vars == <<program, at, phase, queue, visited, unreached, verified, unverified, errors, warnings, diagnostics>>
search == <<phase, queue, visited, unreached>>
counts == <<verified, unverified>>

decls == Programs[program]
decl == decls[at]
Visits(kind) == phase = "walk" /\ at <= Len(decls) /\ decl.kind = kind
Found(kind, what) == [kind |-> kind, decl |-> at, what |-> what]

Where(clauses, Test(_)) == {i \in DOMAIN clauses : Test(clauses[i])}
Count(clauses, Test(_)) == Cardinality(Where(clauses, Test))
AllFound(kind, clauses, Test(_)) == {Found(kind, i) : i \in Where(clauses, Test)}

-----------------------------------------------------------------------------
(* Contracts.                                                              *)

Undecided(require) == RequireVerdict(require) = "unknown"
Decided(require) == ~Undecided(require)

\* A clause that can be false under values of its variables; a constant one
\* has none to show.
Conditional(require) == RequireVerdict(require) = "counterexample"

\* A require that is not always true is the callers' business: it counts as
\* verified all the same.
RequireWarnings ==
  AllFound("callers must ensure", decl.requires, Conditional)
    \cup AllFound("require unknown", decl.requires, Undecided)
RequireDiagnostics == AllFound("W301_REQUIRE_NOT_ALWAYS_TRUE", decl.requires, Conditional)

Remarks ==
  {Found("no effects", x) : x \in {y \in {0} : decl.effects = {}}}
    \cup {Found("trust level", x) : x \in {decl.trust} \ {"checked"}}
    \cup {Found("obligation", x) : x \in 1..decl.obligations}

\* visit_fn_decl of a function without a body: the compiler will make one from
\* its ensures, so they are not sent to the solver.
VisitSynthesized ==
  /\ Visits("fn") /\ decl.bodyless /\ decl.ensures # <<>>
  /\ verified' = verified + Count(decl.requires, Decided) + Len(decl.ensures)
  /\ unverified' = unverified + Count(decl.requires, Undecided)
  /\ warnings' = warnings \cup RequireWarnings \cup {Found("synthesized", 0)} \cup Remarks
  /\ diagnostics' = diagnostics \cup RequireDiagnostics
  /\ at' = at + 1
  /\ UNCHANGED <<program, search, errors>>

Holds(ensure) == ContractVerdict(decl.requires, ensure) = "verified"
Open(ensure) == ContractVerdict(decl.requires, ensure) = "unknown"
Refuted(ensure) == ~Holds(ensure) /\ ~Open(ensure)

\* check_contract: each ensure is to follow from the requires alone; the body
\* is not looked at.
ContractErrors ==
  AllFound("UnsatisfiableRequire", decl.requires, LiteralFalse)
    \cup AllFound("ConstraintViolation", decl.ensures, Refuted)
ContractWarnings ==
  RequireWarnings \cup AllFound("ensure unknown", decl.ensures, Open)
    \cup AllFound("primed", decl.ensures, UsesPrimed)
ContractVerified == Count(decl.requires, Decided) + Count(decl.ensures, Holds)
ContractUnverified == Count(decl.requires, Undecided) + Count(decl.ensures, Open)

VisitFn ==
  /\ Visits("fn") /\ ~(decl.bodyless /\ decl.ensures # <<>>)
  /\ errors' = errors \cup ContractErrors
  /\ verified' = verified + ContractVerified
  /\ unverified' = unverified + ContractUnverified
  /\ warnings' = warnings \cup ContractWarnings \cup Remarks
  /\ diagnostics' = diagnostics \cup RequireDiagnostics
  /\ at' = at + 1
  /\ UNCHANGED <<program, search>>

\* Mutant: only the contract of a flow is counted.
VisitFlowContract ==
  /\ Visits("flow")
  /\ errors' = errors \cup ContractErrors
  /\ verified' = verified + ContractVerified
  /\ unverified' = unverified + ContractUnverified
  /\ warnings' = warnings \cup ContractWarnings \cup Remarks
  /\ diagnostics' = diagnostics \cup RequireDiagnostics
  /\ at' = at + 1
  /\ UNCHANGED <<program, search>>

\* visit_flow_decl: the requires inside the steps are only counted.
VisitFlow ==
  /\ Visits("flow")
  /\ LET inline == InlineRequires(decl.steps)
     IN  /\ errors' = errors \cup ContractErrors \cup AllFound("UnsatisfiableRequire", inline, LiteralFalse)
         /\ unverified' = unverified + ContractUnverified + Len(inline)
  /\ verified' = verified + ContractVerified
  /\ warnings' = warnings \cup ContractWarnings \cup Remarks
                   \cup {Found("no rollback", i) : i \in {j \in DOMAIN decl.steps : ~decl.steps[j].undo}}
  /\ diagnostics' = diagnostics \cup RequireDiagnostics
  /\ at' = at + 1
  /\ UNCHANGED <<program, search>>

\* check_invariant_expr, for each invariant.
VisitEntity ==
  /\ Visits("entity")
  /\ unverified' = unverified + Len(decl.invariants)
  /\ errors' = errors \cup AllFound("InvariantBroken", decl.invariants, LiteralFalse)
  /\ at' = at + 1
  /\ UNCHANGED <<program, search, verified, warnings, diagnostics>>

\* Declarations without contracts: visit_decl passes them over.
VisitOther ==
  /\ Visits("capability") \/ Visits("main")
  /\ at' = at + 1
  /\ UNCHANGED <<program, search, counts, errors, warnings, diagnostics>>

-----------------------------------------------------------------------------
(* State machines: verify_state_machine.                                   *)

Steps(i) == 1..Len(decls[i].transitions)
Sources(i) == {decls[i].transitions[k].from : k \in Steps(i)}
Targets(i) == {decls[i].transitions[k].to : k \in Steps(i)}
States(i) == Sources(i) \cup Targets(i)
Terminal(i) == Targets(i) \ Sources(i)
Initial(i) == decls[i].transitions[1].from
Successors(i, s) == {decls[i].transitions[k].to : k \in {j \in Steps(i) : decls[i].transitions[j].from = s}}
Predecessors(i, s) == {decls[i].transitions[k].from : k \in {j \in Steps(i) : decls[i].transitions[j].to = s}}

VisitEmptyMachine ==
  /\ Visits("state") /\ Len(decl.transitions) = 0
  /\ at' = at + 1
  /\ UNCHANGED <<program, search, counts, errors, warnings, diagnostics>>
\* The states next to each, along the transitions and against them.
Onward(i) == [s \in States(i) |-> Successors(i, s)]
Backward(i) == [s \in States(i) |-> Predecessors(i, s)]

\* bfs_reachable begins.
SearchForward ==
  /\ Visits("state") /\ Len(decl.transitions) > 0
  /\ phase' = "forward"
  /\ queue' = {Initial(at)}
  /\ visited' = {Initial(at)}
  /\ UNCHANGED <<program, at, unreached, counts, errors, warnings, diagnostics>>

\* One turn of the loop of a search: a state is taken from the queue and those
\* next to it that are new are put there; their order does not matter to what
\* is found.
Expand(next) ==
  \E s \in queue :
    /\ visited' = visited \cup next[s]
    /\ queue' = (queue \ {s}) \cup (next[s] \ visited)

ExpandForward ==
  /\ phase = "forward"
  /\ Expand(Onward(at))
  /\ UNCHANGED <<program, at, phase, unreached, counts, errors, warnings, diagnostics>>

DeadActions(lost) == {k \in Steps(at) : decl.transitions[k].from \in lost}

\* Mutants: what is reported are the states that nothing leads to; the
\* backward search begins at every target; at the first state as well.
ReportUntargeted ==
  /\ phase = "forward" /\ queue = {}
  /\ LET lost == (States(at) \ Targets(at)) \ {Initial(at)}
     IN  /\ unreached' = lost
         /\ diagnostics' = diagnostics \cup {Found("E201_UNREACHABLE_STATE", s) : s \in lost}
                             \cup {Found("W202_DEAD_ACTION", k) : k \in DeadActions(lost)}
  /\ phase' = "backward"
  /\ queue' = Terminal(at)
  /\ visited' = Terminal(at)
  /\ UNCHANGED <<program, at, counts, errors, warnings>>
BackwardFromTargets ==
  /\ phase = "forward" /\ queue = {}
  /\ LET lost == (States(at) \ visited) \ {Initial(at)}
     IN  /\ unreached' = lost
         /\ diagnostics' = diagnostics \cup {Found("E201_UNREACHABLE_STATE", s) : s \in lost}
                             \cup {Found("W202_DEAD_ACTION", k) : k \in DeadActions(lost)}
  /\ phase' = "backward"
  /\ queue' = Targets(at)
  /\ visited' = Targets(at)
  /\ UNCHANGED <<program, at, counts, errors, warnings>>

\* The forward search is over: bfs_reachable_multi begins at the terminal states.
SearchBackward ==
  /\ phase = "forward" /\ queue = {}
  /\ LET lost == (States(at) \ visited) \ {Initial(at)}
     IN  /\ unreached' = lost
         /\ diagnostics' = diagnostics \cup {Found("E201_UNREACHABLE_STATE", s) : s \in lost}
                             \cup {Found("W202_DEAD_ACTION", k) : k \in DeadActions(lost)}
  /\ phase' = "backward"
  /\ queue' = Terminal(at)
  /\ visited' = Terminal(at)
  /\ UNCHANGED <<program, at, counts, errors, warnings>>

\* Mutant: a state found again is expanded again.
ExpandBackwardAgain ==
  /\ phase = "backward"
  /\ \E s \in queue :
       /\ visited' = visited \cup Predecessors(at, s)
       /\ queue' = (queue \ {s}) \cup Predecessors(at, s)
  /\ UNCHANGED <<program, at, phase, unreached, counts, errors, warnings, diagnostics>>

ExpandBackward ==
  /\ phase = "backward"
  /\ Expand(Backward(at))
  /\ UNCHANGED <<program, at, phase, unreached, counts, errors, warnings, diagnostics>>

\* Both searches are over: a state from which no terminal state can be reached
\* is reported, unless it was reported as unreachable.
ReportStuck ==
  /\ phase = "backward" /\ queue = {}
  /\ LET stuck == ((States(at) \ Terminal(at)) \ unreached) \ visited
     IN  diagnostics' = diagnostics \cup {Found("E203_LIVENESS_VIOLATION", s) : s \in stuck}
  /\ phase' = "walk"
  /\ queue' = {} /\ visited' = {} /\ unreached' = {}
  /\ at' = at + 1
  /\ UNCHANGED <<program, counts, errors, warnings>>

-----------------------------------------------------------------------------
(* The end: trust.                                                         *)

Decls == 1..Len(decls)
Kind(kind) == {i \in Decls : decls[i].kind = kind}
Fns == Kind("fn") \cup Kind("flow") \cup Kind("capability")
Weaker(a, b) ==
  LET strength == [proved |-> 3, checked |-> 2, observed |-> 1, assumed |-> 0] IN strength[a] < strength[b]
Callees(i) == {j \in Fns : decls[j].name \in decls[i].calls}
Depends(i) == {j \in Fns : \A S \in SUBSET Fns : i \in S /\ (\A k \in S : Callees(k) \subseteq S) => j \in S}
Downgraded == {i \in Fns : \E j \in Depends(i) : Weaker(decls[j].trust, decls[i].trust)}

Finish ==
  /\ phase = "walk" /\ at > Len(decls)
  /\ warnings' = warnings \cup {[kind |-> "TRUST DOWNGRADE", decl |-> i, what |-> 0] : i \in Downgraded}
  /\ phase' = "done"
  /\ UNCHANGED <<program, at, queue, visited, unreached, counts, errors, diagnostics>>

\* verify has returned: Err(errors) when there are any, or Ok and the counts.
Returned == phase = "done" /\ UNCHANGED vars

Init ==
  /\ program \in DOMAIN Programs
  /\ at = 1 /\ phase = "walk"
  /\ queue = {} /\ visited = {} /\ unreached = {}
  /\ verified = 0 /\ unverified = 0
  /\ errors = {} /\ warnings = {} /\ diagnostics = {}

Next ==
  \/ VisitSynthesized \/ VisitFn \/ VisitFlow \/ VisitEntity \/ VisitOther
  \/ VisitEmptyMachine \/ SearchForward \/ ExpandForward \/ SearchBackward \/ ExpandBackward \/ ReportStuck
  \/ Finish \/ Returned

Spec == Init /\ [][Next]_vars

\* `verify` runs to its end.
FairSpec == Spec /\ WF_vars(Next)

-----------------------------------------------------------------------------
TypeOK ==
  /\ program \in DOMAIN Programs
  /\ at \in 1..(Len(decls) + 1)
  /\ phase \in {"walk", "forward", "backward", "done"}
  /\ phase = "done" => at > Len(decls)
  /\ phase \in {"walk", "done"} => visited = {}
  /\ phase \in {"forward", "backward"} =>
       at \in Kind("state") /\ Len(decl.transitions) > 0 /\ visited \subseteq States(at)
  /\ queue \subseteq visited
  /\ verified \in Nat /\ unverified \in Nat
  /\ \A d \in errors \cup warnings \cup diagnostics : d.decl \in Decls

Diagnosed(code, i) == {d.what : d \in {x \in diagnostics : x.kind = code /\ x.decl = i}}

\* What every set that has the states of `from` and is closed under `next` has.
Closed(S, next) == \A s \in S : next[s] \subseteq S
Closure(from, next) == {s \in DOMAIN next : \A S \in SUBSET DOMAIN next : from \subseteq S /\ Closed(S, next) => s \in S}
Reachable(i) == Closure({Initial(i)}, Onward(i))

\* The states diagnosed as unreachable are exactly those that no path of
\* transitions from the machine's first state leads to, and the actions
\* diagnosed as dead are exactly the transitions that start in one of them,
\* whatever was found in the machines before it (verifier.rs:293-322).
UnreachableExact ==
  phase = "done" =>
    \A i \in Kind("state") : Len(decls[i].transitions) > 0 =>
      /\ Diagnosed("E201_UNREACHABLE_STATE", i) = States(i) \ Reachable(i)
      /\ Diagnosed("W202_DEAD_ACTION", i) = {k \in Steps(i) : decls[i].transitions[k].from \notin Reachable(i)}

\* The states from which every path that can be followed stays short of the
\* states without transitions.
From(i, s) == Closure({s}, Onward(i))
Stuck(i) == {s \in Reachable(i) : From(i, s) \cap Terminal(i) = {}}

\* The states diagnosed as stuck are exactly the reachable ones from which no
\* path leads to a terminal state: the search backwards from all terminal
\* states at once agrees with searches forwards from each state, and a machine
\* without terminal states is stuck everywhere (verifier.rs:324-346).
StuckExact ==
  phase = "done" =>
    \A i \in Kind("state") : Len(decls[i].transitions) > 0 =>
      Diagnosed("E203_LIVENESS_VIOLATION", i) = Stuck(i)

\* The number of clauses of a declaration that the verifier answers for.
Clauses(d) ==
  CASE d.kind = "fn" -> Len(d.requires) + Len(d.ensures)
    [] d.kind = "flow" -> Len(d.requires) + Len(d.ensures) + Len(InlineRequires(d.steps))
    [] d.kind = "entity" -> Len(d.invariants)
    [] OTHER -> 0
Refutations == {e \in errors : e.kind = "ConstraintViolation"}
Answered == verified + unverified + Cardinality(Refutations)

\* Every clause enters exactly one of the three counts: leaving a declaration, the
\* clauses counted as verified, counted as unverified or refuted have together grown
\* by all of its clauses, whatever its mixture of body, synthesis and steps, and
\* nothing else changes them (verifier.rs:134-174, 354-431, 479-517).  What is reported
\* besides is no count: a require that is literally false is, and counts as verified.
CountsOnce == Answered' = Answered + (IF at' = at THEN 0 ELSE Clauses(decl))
EveryClauseCounted == [][CountsOnce]_vars

\* Verification ends: the searches of machines with cycles too.
Terminates == <>(phase = "done")
=============================================================================
