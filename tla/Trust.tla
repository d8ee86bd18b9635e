---------------------------------- MODULE Trust ----------------------------------
(***************************************************************************)
(* Trust propagation, crates/nous-verify/src/trust.rs: a function is as    *)
(* trustworthy as the weakest function it depends on.  `analyze` sweeps    *)
(* over the callers, lowering each to the weakest of its callees, until a  *)
(* sweep changes nothing or MaxSweeps (100 in the code) have been made.    *)
(*                                                                         *)
(* The call graph and the declared levels are chosen in Init and never     *)
(* change.  A sweep follows the order of a HashMap and a caller's callees  *)
(* that of a HashSet: any order.                                           *)
(***************************************************************************)
EXTENDS Naturals, FiniteSets

CONSTANTS Fns,        \* the functions, flows and capabilities of the program
          Builtins,   \* the other names it calls
          Graphs,     \* the call graphs considered: Fns -> the names a body calls
          Declarable, \* the levels their declarations use
          MaxSweeps

ASSUME SweepsPositive == MaxSweeps \in Nat \ {0}
ASSUME GraphsOverNames == Graphs \subseteq [Fns -> SUBSET (Fns \cup Builtins)]
ASSUME DeclarableLevels == Declarable \subseteq {"proved", "checked", "observed", "assumed"}
ASSUME BuiltinsApart == Fns \cap Builtins = {}
ASSUME FnsFinite == IsFiniteSet(Fns)

VARIABLES calls,       \* Fns -> the names a body calls
          declared,    \* Fns -> the level the programmer wrote
          effective,   \* Fns -> the level after propagation so far
          witness,     \* Fns -> the callee blamed for the level, or NoWitness
          todo,        \* the callers this sweep has yet to visit
          changed,     \* has this sweep changed anything?
          sweeps,      \* the sweeps begun
          downgraded   \* the report, once made

vars == <<calls, declared, effective, witness, todo, changed, sweeps, downgraded>>
input == <<calls, declared>>

Levels == {"proved", "checked", "observed", "assumed"}
NoWitness == "(transitive)"  \* no identifier is written so
ASSUME WitnessNamed == NoWitness \notin Fns
Pending == <<>>              \* `downgraded` before the report

Weakness(level) ==
  CASE level = "proved" -> 0
    [] level = "checked" -> 1
    [] level = "observed" -> 2
    [] level = "assumed" -> 3

\* Mutant: the stronger of the two.
MeetStronger(a, b) == IF a = "proved" \/ b = "proved" THEN "proved" ELSE b

\* The weaker of two levels.
Meet(a, b) ==
  IF a = "assumed" \/ b = "assumed" THEN "assumed"
  ELSE IF a = "observed" \/ b = "observed" THEN "observed"
  ELSE IF a = "checked" \/ b = "checked" THEN "checked"
  ELSE "proved"

\* What a visit makes of f: the weakest of its own level and of its callees',
\* names that are no function of the program counting for nothing.
Combined(f) ==
  CHOOSE l \in Levels :
    /\ l \in {effective[c] : c \in (calls[f] \cap Fns) \cup {f}}
    /\ \A c \in (calls[f] \cap Fns) \cup {f} : Meet(effective[c], l) = l

-----------------------------------------------------------------------------
\* Mutant: `changed` is not reset.
BeginSweepStillChanged ==
  /\ todo = {} /\ changed /\ sweeps < MaxSweeps /\ downgraded = Pending
  /\ sweeps' = sweeps + 1
  /\ todo' = Fns
  /\ UNCHANGED <<input, effective, witness, changed, downgraded>>

BeginSweep ==
  /\ todo = {} /\ changed /\ sweeps < MaxSweeps /\ downgraded = Pending
  /\ changed' = FALSE
  /\ sweeps' = sweeps + 1
  /\ todo' = Fns
  /\ UNCHANGED <<input, effective, witness, downgraded>>

\* Mutants: `changed` is not set; any weaker callee is blamed.
VisitQuietly(f) ==
  /\ f \in todo
  /\ todo' = todo \ {f}
  /\ effective' = [effective EXCEPT ![f] = Combined(f)]
  /\ \E w \in (calls[f] \cap Fns) \cup {NoWitness} : witness' = [witness EXCEPT ![f] = w]
  /\ UNCHANGED <<input, changed, sweeps, downgraded>>
VisitBlamingWeaker(f) ==
  /\ f \in todo
  /\ todo' = todo \ {f}
  /\ LET level == Combined(f)
     IN  IF level = effective[f]
         THEN UNCHANGED <<effective, witness, changed>>
         ELSE /\ effective' = [effective EXCEPT ![f] = level]
              /\ \E c \in calls[f] \cap Fns :
                   /\ Weakness(effective[c]) > Weakness(effective[f])
                   /\ witness' = [witness EXCEPT ![f] = c]
              /\ changed' = TRUE
  /\ UNCHANGED <<input, sweeps, downgraded>>

\* Visit caller f.  The witness is the first callee met at the level f falls to.
Visit(f) ==
  /\ f \in todo
  /\ todo' = todo \ {f}
  /\ LET level == Combined(f)
     IN  IF level = effective[f]
         THEN UNCHANGED <<effective, witness, changed>>
         ELSE /\ effective' = [effective EXCEPT ![f] = level]
              /\ \E c \in calls[f] \cap Fns :
                   /\ effective[c] = level
                   /\ witness' = [witness EXCEPT ![f] = c]
              /\ changed' = TRUE
  /\ UNCHANGED <<input, sweeps, downgraded>>

\* The sweeps are over: report the functions weaker than they declare.
Report ==
  /\ todo = {} /\ (~changed \/ sweeps >= MaxSweeps) /\ downgraded = Pending
  /\ downgraded' = <<{f \in Fns : effective[f] # declared[f]}>>
  /\ UNCHANGED <<input, effective, witness, todo, changed, sweeps>>

Reported == downgraded # Pending /\ UNCHANGED vars

Init ==
  /\ calls \in Graphs
  /\ declared \in [Fns -> Declarable]
  /\ effective = declared
  /\ witness = [f \in Fns |-> NoWitness]
  /\ todo = {}
  /\ changed = TRUE
  /\ sweeps = 0
  /\ downgraded = Pending

Next == BeginSweep \/ (\E f \in Fns : Visit(f)) \/ Report \/ Reported

Spec == Init /\ [][Next]_vars

-----------------------------------------------------------------------------
TypeOK ==
  /\ calls \in [Fns -> SUBSET (Fns \cup Builtins)]
  /\ declared \in [Fns -> Levels]
  /\ effective \in [Fns -> Levels]
  /\ witness \in [Fns -> Fns \cup {NoWitness}]
  /\ todo \in SUBSET Fns
  /\ changed \in BOOLEAN
  /\ sweeps \in 0..MaxSweeps
  /\ downgraded \in {Pending} \cup {<<S>> : S \in SUBSET Fns}

\* f depends on g: every set that has f and the callees of its members has g.
Closed(S) == \A f \in S : calls[f] \cap Fns \subseteq S
Reach(f) == {g \in Fns : \A S \in SUBSET Fns : f \in S /\ Closed(S) => g \in S}

\* Propagation never makes a function look more trustworthy than it was a step
\* before, hence never more than declared (trust.rs meet, analyze).
NeverStrengthened ==
  [][\A f \in Fns : Weakness(effective[f]) <= Weakness(effective'[f])]_vars

\* A level is never invented: it is the declared level of something the
\* function depends on, at every moment of the computation.
Justified == \A f \in Fns : \E g \in Reach(f) : effective[f] = declared[g]

\* The report is made when the last sweep changed nothing, or at the cap.
Converged == downgraded # Pending /\ ~changed

\* After convergence each function has exactly the weakest level declared
\* among all it depends on, whatever the order of the visits (trust.rs:3-9).
WeakestLink ==
  Converged =>
    \A f \in Fns :
      /\ \A g \in Reach(f) : Weakness(declared[g]) <= Weakness(effective[f])
      /\ \E g \in Reach(f) : declared[g] = effective[f]

\* The functions from f on, each blaming the next.
Blames(S) == \A f \in S : witness[f] # NoWitness => witness[f] \in S
Blamed(f) == {g \in Fns : \A S \in SUBSET Fns : f \in S /\ Blames(S) => g \in S}

\* The report's witnesses explain it: each downgraded function blames one of
\* its callees, and the blame leads, always at that level, to a function that
\* declares it - even around cycles of calls (trust.rs:115-135).
WitnessesLeadToTheSource ==
  Converged =>
    \A f \in downgraded[1] :
      /\ witness[f] \in calls[f]
      /\ \A g \in Blamed(f) : effective[g] = effective[f]
      /\ \E g \in Blamed(f) : declared[g] = effective[f]

\* Sweeping as often as there are functions is enough: the cap cuts nothing off
\* in a program of at most MaxSweeps functions (trust.rs:107-110).
ConvergesWithinCap ==
  downgraded # Pending /\ Cardinality(Fns) <= MaxSweeps => ~changed
=============================================================================
