------------------------------ MODULE TrustProofs ------------------------------
(***************************************************************************)
(* Proofs about module Trust, for every program: any set of functions, any *)
(* call graph over them and any cap on the sweeps.                         *)
(***************************************************************************)
EXTENDS Trust, Integers, FiniteSetTheorems, TLAPS

-----------------------------------------------------------------------------
(* The lattice of levels.                                                  *)

\* Weakness numbers the levels, each by its own number.
LEMMA WeaknessOrders ==
  /\ \A a \in Levels : Weakness(a) \in 0..3
  /\ \A a, b \in Levels : Weakness(a) = Weakness(b) => a = b
<1>1. /\ Weakness("proved") = 0 /\ Weakness("checked") = 1
      /\ Weakness("observed") = 2 /\ Weakness("assumed") = 3
  BY DEF Weakness
<1> QED BY <1>1 DEF Levels

\* Meet is commutative, associative and idempotent (trust.rs meet), so that the
\* order in which a caller's callees are combined cannot matter.
THEOREM MeetIsASemilattice ==
  /\ \A a, b \in Levels : Meet(a, b) \in Levels /\ Meet(a, b) = Meet(b, a)
  /\ \A a \in Levels : Meet(a, a) = a
  /\ \A a, b, c \in Levels : Meet(Meet(a, b), c) = Meet(a, Meet(b, c))
BY DEF Levels, Meet

\* Meet takes the weaker: it gives b back exactly when b is no stronger than a.
LEMMA MeetTakesTheWeaker ==
  \A a, b \in Levels : Meet(a, b) = b <=> Weakness(a) <= Weakness(b)
BY DEF Levels, Meet, Weakness

\* A set of levels that is not empty has a weakest member.
LEMMA WeakestExists ==
  ASSUME NEW S, S \subseteq Levels, S # {}
  PROVE  \E l \in S : \A m \in S : Meet(m, l) = l
<1>1. CASE "assumed" \in S
  BY <1>1 DEF Levels, Meet
<1>2. CASE "assumed" \notin S /\ "observed" \in S
  <2>1. \A m \in S : Meet(m, "observed") = "observed"
    BY <1>2 DEF Levels, Meet
  <2> QED BY <1>2, <2>1
<1>3. CASE "assumed" \notin S /\ "observed" \notin S /\ "checked" \in S
  <2>1. \A m \in S : Meet(m, "checked") = "checked"
    BY <1>3 DEF Levels, Meet
  <2> QED BY <1>3, <2>1
<1>4. CASE "assumed" \notin S /\ "observed" \notin S /\ "checked" \notin S
  <2>1. S = {"proved"}
    BY <1>4 DEF Levels
  <2> QED BY <2>1 DEF Meet
<1> QED BY <1>1, <1>2, <1>3, <1>4

-----------------------------------------------------------------------------
(* The dependencies of a function.                                         *)

\* A function depends on itself.
LEMMA DependsOnItself ==
  ASSUME NEW f \in Fns
  PROVE  f \in Reach(f)
BY DEF Reach

\* What a callee depends on, its caller depends on.
LEMMA CalleesDependenciesAreOnes ==
  ASSUME NEW f \in Fns, NEW c \in calls[f] \cap Fns
  PROVE  Reach(c) \subseteq Reach(f)
BY DEF Reach, Closed

-----------------------------------------------------------------------------
(* The inductive invariant.                                                *)

\* The functions this sweep has visited, if nothing has changed since it began,
\* are no stronger than any of their callees.
VisitedSettled ==
  ~changed =>
    \A f \in Fns \ todo : \A c \in calls[f] \cap Fns :
      Weakness(effective[c]) <= Weakness(effective[f])

\* No function is stronger than it was declared.
NoStronger == \A f \in Fns : Weakness(declared[f]) <= Weakness(effective[f])

\* The report is made between sweeps.
ReportedLast == downgraded # Pending => todo = {}

IInv == TypeOK /\ VisitedSettled /\ NoStronger /\ Justified /\ ReportedLast

\* A visit computes the level of f or of one of its callees, and none of them
\* is weaker.
LEMMA CombinedIsWeakest ==
  ASSUME TypeOK, NEW f \in Fns
  PROVE  /\ Combined(f) \in Levels
         /\ \E c \in (calls[f] \cap Fns) \cup {f} : effective[c] = Combined(f)
         /\ \A c \in (calls[f] \cap Fns) \cup {f} : Weakness(effective[c]) <= Weakness(Combined(f))
<1> DEFINE C == (calls[f] \cap Fns) \cup {f}
           S == {effective[c] : c \in C}
           P(l) == l \in S /\ \A c \in C : Meet(effective[c], l) = l
<1>1. S \subseteq Levels /\ S # {}
  BY DEF TypeOK
<1>2. PICK l \in S : \A m \in S : Meet(m, l) = l
  BY <1>1, WeakestExists
<1>3. \E k \in Levels : P(k)
  BY <1>1, <1>2
<1>4. Combined(f) = CHOOSE k \in Levels : P(k)
  BY DEF Combined
<1>5. Combined(f) \in Levels /\ P(Combined(f))
  <2> HIDE DEF P
  <2> QED BY <1>3, <1>4
<1>6. \A c \in C : effective[c] \in Levels
  BY DEF TypeOK
<1>7. \A c \in C : Weakness(effective[c]) <= Weakness(Combined(f))
  BY <1>5, <1>6, MeetTakesTheWeaker
<1> QED BY <1>5, <1>7

\* The program analysed does not change.
LEMMA StepKeepsInput ==
  ASSUME [Next]_vars
  PROVE  calls' = calls /\ declared' = declared
BY DEF Next, vars, input, BeginSweep, Visit, Report, Reported

LEMMA InitInvariant == Init => IInv
<1> SUFFICES ASSUME Init PROVE IInv
  OBVIOUS
<1>1. TypeOK
  <2>1. calls \in [Fns -> SUBSET (Fns \cup Builtins)]
    BY GraphsOverNames DEF Init
  <2>2. declared \in [Fns -> Levels] /\ effective \in [Fns -> Levels]
    BY DeclarableLevels DEF Init, Levels
  <2>3. 0 \in 0..MaxSweeps
    BY SweepsPositive
  <2> QED BY <2>1, <2>2, <2>3 DEF Init, TypeOK
<1>2. NoStronger
  BY <1>1, WeaknessOrders DEF Init, NoStronger, TypeOK
<1>3. Justified
  BY DependsOnItself DEF Init, Justified
<1>4. VisitedSettled /\ ReportedLast
  BY DEF Init, VisitedSettled, ReportedLast
<1> QED BY <1>1, <1>2, <1>3, <1>4 DEF IInv

\* A visit changes only the level of the function visited, to that of one of
\* its callees, and to a weaker one.
LEMMA VisitWeakens ==
  ASSUME TypeOK, NEW f \in Fns, Visit(f)
  PROVE  /\ effective' \in [Fns -> Levels]
         /\ \A g \in Fns \ {f} : effective'[g] = effective[g]
         /\ Weakness(effective[f]) <= Weakness(effective'[f])
         /\ effective'[f] = effective[f] \/ \E c \in calls[f] \cap Fns : effective'[f] = effective[c]
<1>1. /\ Combined(f) \in Levels
      /\ \A c \in (calls[f] \cap Fns) \cup {f} : Weakness(effective[c]) <= Weakness(Combined(f))
  BY CombinedIsWeakest
<1>2. effective \in [Fns -> Levels] /\ effective[f] \in Levels
  BY DEF TypeOK
<1>3. CASE Combined(f) = effective[f]
  <2>1. effective' = effective
    BY <1>3 DEF Visit
  <2> QED BY <1>2, <2>1, WeaknessOrders
<1>4. CASE Combined(f) # effective[f]
  <2>1. /\ effective' = [effective EXCEPT ![f] = Combined(f)]
        /\ \E c \in calls[f] \cap Fns : effective[c] = Combined(f)
    BY <1>4 DEF Visit
  <2>2. effective'[f] = Combined(f)
    BY <1>2, <2>1
  <2> QED BY <1>1, <1>2, <2>1, <2>2
<1> QED BY <1>3, <1>4

\* A visit keeps the types.
LEMMA VisitKeepsTypes ==
  ASSUME TypeOK, NEW f \in Fns, Visit(f)
  PROVE  TypeOK'
<1>1. effective' \in [Fns -> Levels]
  BY VisitWeakens
<1>2. witness' \in [Fns -> Fns \cup {NoWitness}] /\ changed' \in BOOLEAN
  <2>1. CASE Combined(f) = effective[f]
    BY <2>1 DEF Visit, TypeOK
  <2>2. CASE Combined(f) # effective[f]
    BY <2>2 DEF Visit, TypeOK
  <2> QED BY <2>1, <2>2
<1>3. todo' \in SUBSET Fns
  BY DEF Visit, TypeOK
<1>4. UNCHANGED <<input, sweeps, downgraded>>
  BY DEF Visit
<1> QED BY <1>1, <1>2, <1>3, <1>4 DEF TypeOK, input

\* A visit that changes nothing leaves f settled; one that changes something
\* says so.
LEMMA VisitSettles ==
  ASSUME IInv, NEW f \in Fns, Visit(f)
  PROVE  VisitedSettled'
<1>1. CASE Combined(f) = effective[f]
  <2>1. effective' = effective /\ changed' = changed /\ calls' = calls /\ todo' = todo \ {f}
    BY <1>1 DEF Visit, input
  <2>2. \A c \in calls[f] \cap Fns : Weakness(effective[c]) <= Weakness(effective[f])
    BY <1>1, CombinedIsWeakest DEF IInv
  <2> QED BY <2>1, <2>2 DEF IInv, VisitedSettled
<1>2. CASE Combined(f) # effective[f]
  BY <1>2 DEF Visit, VisitedSettled
<1> QED BY <1>1, <1>2

\* A level taken over from a callee is declared by something the callee, and
\* hence the caller, depends on.
LEMMA VisitKeepsJustified ==
  ASSUME IInv, NEW f \in Fns, Visit(f)
  PROVE  Justified'
<1>1. calls' = calls /\ declared' = declared
  BY DEF Visit, input
<1>2. \A g \in Fns : Reach(g)' = Reach(g)
  BY <1>1 DEF Reach, Closed
<1>3. \A g \in Fns : \E h \in Reach(g) : effective'[g] = declared[h]
  <2>1. SUFFICES ASSUME NEW g \in Fns PROVE \E h \in Reach(g) : effective'[g] = declared[h]
    OBVIOUS
  <2>2. \A k \in Fns : \E h \in Reach(k) : effective[k] = declared[h]
    BY DEF IInv, Justified
  <2>3. CASE effective'[g] = effective[g]
    BY <2>2, <2>3
  <2>4. CASE effective'[g] # effective[g]
    <3>1. g = f /\ \E c \in calls[f] \cap Fns : effective'[f] = effective[c]
      BY <2>4, VisitWeakens DEF IInv
    <3>2. PICK c \in calls[f] \cap Fns : effective'[f] = effective[c]
      BY <3>1
    <3>3. PICK h \in Reach(c) : effective[c] = declared[h]
      BY <2>2
    <3>4. h \in Reach(f)
      BY <3>3, CalleesDependenciesAreOnes
    <3> QED BY <3>1, <3>2, <3>3, <3>4
  <2> QED BY <2>3, <2>4
<1> QED BY <1>1, <1>2, <1>3 DEF Justified

LEMMA StepInvariant == IInv /\ [Next]_vars => IInv'
<1> SUFFICES ASSUME IInv, [Next]_vars PROVE IInv'
  OBVIOUS
<1>1. CASE BeginSweep
  <2>1. TypeOK'
    <3>1. sweeps' \in 0..MaxSweeps
      BY <1>1, SweepsPositive DEF IInv, TypeOK, BeginSweep
    <3>2. UNCHANGED <<calls, declared, effective, witness, downgraded>> /\ todo' = Fns /\ changed' = FALSE
      BY <1>1 DEF BeginSweep, input
    <3> QED BY <3>1, <3>2 DEF IInv, TypeOK
  <2>2. VisitedSettled'
    BY <1>1 DEF VisitedSettled, BeginSweep
  <2>3. NoStronger'
    BY <1>1 DEF IInv, NoStronger, BeginSweep, input
  <2>4. Justified'
    BY <1>1 DEF IInv, Justified, Reach, Closed, BeginSweep, input
  <2>5. ReportedLast'
    BY <1>1 DEF IInv, ReportedLast, BeginSweep
  <2> QED BY <2>1, <2>2, <2>3, <2>4, <2>5 DEF IInv
<1>2. ASSUME NEW f \in Fns, Visit(f) PROVE IInv'
  <2>1. TypeOK' /\ VisitedSettled' /\ Justified'
    BY <1>2, VisitKeepsTypes, VisitSettles, VisitKeepsJustified DEF IInv
  <2>2. NoStronger'
    <3>1. declared' = declared
      BY <1>2 DEF Visit, input
    <3>2. \A g \in Fns : Weakness(effective[g]) <= Weakness(effective'[g])
      BY <1>2, VisitWeakens, WeaknessOrders DEF IInv, TypeOK
    <3>3. \A g \in Fns : Weakness(declared[g]) \in Int /\ Weakness(effective[g]) \in Int
                         /\ Weakness(effective'[g]) \in Int
      BY <2>1, WeaknessOrders DEF IInv, TypeOK
    <3> QED BY <3>1, <3>2, <3>3 DEF IInv, NoStronger
  <2>3. ReportedLast'
    BY <1>2 DEF IInv, ReportedLast, Visit
  <2> QED BY <2>1, <2>2, <2>3 DEF IInv
<1>3. CASE Report
  <2>1. TypeOK'
    BY <1>3 DEF IInv, TypeOK, Report, input
  <2>2. VisitedSettled' /\ NoStronger' /\ ReportedLast'
    BY <1>3 DEF IInv, VisitedSettled, NoStronger, ReportedLast, Report, input
  <2>3. Justified'
    BY <1>3 DEF IInv, Justified, Reach, Closed, Report, input
  <2> QED BY <2>1, <2>2, <2>3 DEF IInv
<1>4. CASE Reported \/ UNCHANGED vars
  <2>1. UNCHANGED vars
    BY <1>4 DEF Reported
  <2>2. TypeOK' /\ VisitedSettled' /\ NoStronger' /\ ReportedLast'
    BY <2>1 DEF IInv, TypeOK, VisitedSettled, NoStronger, ReportedLast, vars
  <2>3. Justified'
    BY <2>1 DEF IInv, Justified, Reach, Closed, vars
  <2> QED BY <2>2, <2>3 DEF IInv
<1> QED BY <1>1, <1>2, <1>3, <1>4 DEF Next

LEMMA Invariant == Spec => []IInv
BY InitInvariant, StepInvariant, PTL DEF Spec

-----------------------------------------------------------------------------
\* The variables keep their types.
THEOREM TypeCorrect == Spec => []TypeOK
<1>1. IInv => TypeOK
  BY DEF IInv
<1> QED BY Invariant, <1>1, PTL

\* A function's level is at every moment one declared by something it depends on.
THEOREM LevelsJustified == Spec => []Justified
<1>1. IInv => Justified
  BY DEF IInv
<1> QED BY Invariant, <1>1, PTL

\* Every function reported after convergence has exactly the weakest level
\* declared among all it depends on: by ~changed and VisitedSettled, the
\* functions no weaker than f's level are a closed set that f belongs to.
THEOREM TrustIsTheWeakestLink == Spec => []WeakestLink
<1>1. IInv => WeakestLink
  <2> SUFFICES ASSUME IInv, Converged, NEW f \in Fns
               PROVE  /\ \A g \in Reach(f) : Weakness(declared[g]) <= Weakness(effective[f])
                      /\ \E g \in Reach(f) : declared[g] = effective[f]
    BY DEF WeakestLink
  <2> DEFINE S == {g \in Fns : Weakness(effective[g]) <= Weakness(effective[f])}
  <2>1. \A g \in Fns : Weakness(effective[g]) \in Int /\ Weakness(declared[g]) \in Int
    BY WeaknessOrders DEF IInv, TypeOK
  <2>2. todo = {} /\ ~changed
    BY DEF Converged, IInv, ReportedLast
  <2>3. Closed(S)
    BY <2>1, <2>2 DEF Closed, IInv, VisitedSettled
  <2>4. f \in S /\ S \in SUBSET Fns
    BY <2>1
  <2>5. \A g \in Reach(f) : g \in S
    BY <2>3, <2>4 DEF Reach
  <2>6. \A g \in Reach(f) : Weakness(declared[g]) <= Weakness(effective[f])
    BY <2>1, <2>5 DEF IInv, NoStronger
  <2>7. \E g \in Reach(f) : declared[g] = effective[f]
    BY DEF IInv, Justified
  <2> QED BY <2>6, <2>7
<1> QED BY Invariant, <1>1, PTL

\* No step of the analysis makes a function look more trustworthy.
THEOREM TrustOnlyWeakens == Spec => NeverStrengthened
<1> DEFINE Weakens == \A f \in Fns : Weakness(effective[f]) <= Weakness(effective'[f])
<1>1. IInv /\ [Next]_vars => [Weakens]_vars
  <2> SUFFICES ASSUME IInv, Next PROVE Weakens
    BY DEF vars
  <2>1. \A g \in Fns : Weakness(effective[g]) \in Int
    BY WeaknessOrders DEF IInv, TypeOK
  <2>2. CASE BeginSweep \/ Report \/ Reported
    BY <2>1, <2>2 DEF BeginSweep, Report, Reported, vars
  <2>3. ASSUME NEW f \in Fns, Visit(f) PROVE Weakens
    BY <2>1, <2>3, VisitWeakens DEF IInv
  <2> QED BY <2>2, <2>3 DEF Next
<1> QED BY Invariant, <1>1, PTL DEF Spec, NeverStrengthened

-----------------------------------------------------------------------------
(* The witnesses.                                                          *)

\* A function has a witness just when it is weaker than declared; the witness
\* is a callee, no stronger than the function.
WitnessesFit ==
  \A f \in Fns :
    IF witness[f] = NoWitness THEN effective[f] = declared[f]
    ELSE /\ witness[f] \in calls[f] \cap Fns
         /\ Weakness(effective[f]) <= Weakness(effective[witness[f]])

\* No functions blame only each other: whoever is first in a circle to fall to
\* its level blames someone outside.
Grounded == \A S \in SUBSET Fns : S # {} => \E g \in S : witness[g] \notin S

\* The report lists the functions weaker than declared.
ReportExact == downgraded # Pending => downgraded[1] = {f \in Fns : effective[f] # declared[f]}

WitnessInv == IInv /\ WitnessesFit /\ Grounded /\ ReportExact

\* What a visit that changes something does.
LEMMA VisitLowers ==
  ASSUME IInv, NEW f \in Fns, Visit(f), effective' # effective \/ witness' # witness
  PROVE  \E c \in calls[f] \cap Fns :
           /\ effective' = [effective EXCEPT ![f] = effective[c]]
           /\ witness' = [witness EXCEPT ![f] = c]
           /\ Weakness(effective[f]) < Weakness(effective[c])
<1>1. Combined(f) # effective[f]
  BY DEF Visit
<1>2. PICK c \in calls[f] \cap Fns :
        /\ effective[c] = Combined(f)
        /\ effective' = [effective EXCEPT ![f] = Combined(f)]
        /\ witness' = [witness EXCEPT ![f] = c]
  BY <1>1 DEF Visit
<1>3. effective[f] \in Levels /\ effective[c] \in Levels
  BY DEF IInv, TypeOK
<1>4. Weakness(effective[f]) <= Weakness(effective[c]) /\ effective[c] # effective[f]
  BY <1>1, <1>2, CombinedIsWeakest DEF IInv
<1>5. Weakness(effective[f]) < Weakness(effective[c])
  BY <1>3, <1>4, WeaknessOrders
<1> QED BY <1>2, <1>5

LEMMA VisitKeepsWitnesses ==
  ASSUME WitnessInv, NEW f \in Fns, Visit(f)
  PROVE  WitnessesFit' /\ Grounded'
<1>1. calls' = calls /\ declared' = declared
  BY DEF Visit, input
<1>2. CASE effective' = effective /\ witness' = witness
  BY <1>1, <1>2 DEF WitnessInv, WitnessesFit, Grounded
<1>3. CASE effective' # effective \/ witness' # witness
  <2>1. PICK c \in calls[f] \cap Fns :
          /\ effective' = [effective EXCEPT ![f] = effective[c]]
          /\ witness' = [witness EXCEPT ![f] = c]
          /\ Weakness(effective[f]) < Weakness(effective[c])
    BY <1>3, VisitLowers DEF WitnessInv
  <2>2. /\ effective \in [Fns -> Levels] /\ declared \in [Fns -> Levels]
        /\ witness \in [Fns -> Fns \cup {NoWitness}]
    BY DEF WitnessInv, IInv, TypeOK
  <2>3. \A g \in Fns : Weakness(effective[g]) \in Int
    BY <2>2, WeaknessOrders
  <2>4. /\ effective'[f] = effective[c] /\ witness'[f] = c /\ c # f
        /\ \A g \in Fns \ {f} : effective'[g] = effective[g] /\ witness'[g] = witness[g]
    BY <2>1, <2>2, <2>3
  <2>5. \A g \in Fns : /\ Weakness(effective[g]) <= Weakness(effective'[g])
                       /\ Weakness(effective'[g]) \in Int
    BY <2>1, <2>3, <2>4
  <2>6. WitnessesFit'
    <3>1. SUFFICES ASSUME NEW g \in Fns
                   PROVE  IF witness'[g] = NoWitness THEN effective'[g] = declared[g]
                          ELSE /\ witness'[g] \in calls[g] \cap Fns
                               /\ Weakness(effective'[g]) <= Weakness(effective'[witness'[g]])
      BY <1>1 DEF WitnessesFit
    <3>2. CASE g = f
      BY <2>3, <2>4, <3>2, WitnessNamed
    <3>3. CASE g # f /\ witness[g] = NoWitness
      BY <2>4, <3>3 DEF WitnessInv, WitnessesFit
    <3>4. CASE g # f /\ witness[g] # NoWitness
      <4>1. witness[g] \in calls[g] \cap Fns /\ Weakness(effective[g]) <= Weakness(effective[witness[g]])
        BY <3>4 DEF WitnessInv, WitnessesFit
      <4>2. Weakness(effective[g]) <= Weakness(effective'[witness[g]])
        BY <2>3, <2>5, <4>1
      <4> QED BY <2>4, <3>4, <4>1, <4>2
    <3> QED BY <3>2, <3>3, <3>4
  <2>7. Grounded'
    <3>1. SUFFICES ASSUME NEW S \in SUBSET Fns, S # {}, \A g \in S : witness'[g] \in S
                   PROVE  FALSE
      BY DEF Grounded
    <3>2. CASE f \notin S
      BY <2>4, <3>1, <3>2 DEF WitnessInv, Grounded
    <3>3. CASE f \in S
      <4> DEFINE T == {g \in S \ {f} : Weakness(effective[c]) <= Weakness(effective[g])}
      <4>1. c \in T /\ T \in SUBSET Fns
        BY <2>3, <2>4, <3>1, <3>3
      <4>2. ASSUME NEW g \in T PROVE witness[g] \in T
        <5>1. witness[g] \in S /\ g \in Fns /\ witness[g] # NoWitness
          BY <2>4, <3>1, WitnessNamed
        <5>2. Weakness(effective[g]) <= Weakness(effective[witness[g]])
          BY <5>1 DEF WitnessInv, WitnessesFit
        <5>3. Weakness(effective[c]) <= Weakness(effective[witness[g]])
          BY <2>3, <5>1, <5>2
        <5>4. witness[g] # f
          BY <2>1, <2>3, <5>3
        <5> QED BY <5>1, <5>3, <5>4
      <4> QED BY <4>1, <4>2 DEF WitnessInv, Grounded
    <3> QED BY <3>2, <3>3
  <2> QED BY <2>6, <2>7
<1> QED BY <1>2, <1>3

LEMMA WitnessInvariant == Spec => []WitnessInv
<1>1. Init => WitnessInv
  <2> SUFFICES ASSUME Init PROVE WitnessInv
    OBVIOUS
  <2>1. \A f \in Fns : witness[f] = NoWitness
    BY DEF Init
  <2>2. Grounded
    BY <2>1, WitnessNamed DEF Grounded
  <2>3. WitnessesFit /\ ReportExact
    BY <2>1 DEF Init, WitnessesFit, ReportExact
  <2> QED BY <2>2, <2>3, InitInvariant DEF WitnessInv
<1>2. WitnessInv /\ [Next]_vars => WitnessInv'
  <2> SUFFICES ASSUME WitnessInv, [Next]_vars PROVE WitnessInv'
    OBVIOUS
  <2>1. IInv'
    BY StepInvariant DEF WitnessInv
  <2>2. ASSUME NEW f \in Fns, Visit(f) PROVE WitnessInv'
    <3>1. WitnessesFit' /\ Grounded'
      BY <2>2, VisitKeepsWitnesses
    <3>2. downgraded = Pending /\ downgraded' = downgraded
      BY <2>2 DEF WitnessInv, IInv, ReportedLast, Visit
    <3> QED BY <2>1, <3>1, <3>2 DEF WitnessInv, ReportExact
  <2>3. CASE BeginSweep \/ Reported \/ UNCHANGED vars
    BY <2>1, <2>3 DEF WitnessInv, WitnessesFit, Grounded, ReportExact, BeginSweep, Reported, vars, input
  <2>4. CASE Report
    BY <2>1, <2>4 DEF WitnessInv, WitnessesFit, Grounded, ReportExact, Report, input
  <2> QED BY <2>2, <2>3, <2>4 DEF Next
<1> QED BY <1>1, <1>2, PTL DEF Spec

\* The witnesses explain the report: blame leads at one level, through callees,
\* to a function that declares the level.  After convergence a witness is not
\* weaker than whom it explains, and the functions blamed cannot all blame each
\* other.
THEOREM WitnessesExplain == Spec => []WitnessesLeadToTheSource
<1>1. WitnessInv => WitnessesLeadToTheSource
  <2> SUFFICES ASSUME WitnessInv, Converged, NEW f \in downgraded[1]
               PROVE  /\ witness[f] \in calls[f]
                      /\ \A g \in Blamed(f) : effective[g] = effective[f]
                      /\ \E g \in Blamed(f) : declared[g] = effective[f]
    BY DEF WitnessesLeadToTheSource
  <2>1. f \in Fns /\ effective[f] # declared[f]
    BY DEF WitnessInv, ReportExact, Converged
  <2>2. witness[f] \in calls[f]
    BY <2>1 DEF WitnessInv, WitnessesFit
  <2>3. todo = {} /\ ~changed
    BY DEF Converged, WitnessInv, IInv, ReportedLast
  <2>4. ASSUME NEW g \in Fns, witness[g] # NoWitness
        PROVE  witness[g] \in Fns /\ effective[witness[g]] = effective[g]
    <3>1. witness[g] \in calls[g] \cap Fns /\ Weakness(effective[g]) <= Weakness(effective[witness[g]])
      BY <2>4 DEF WitnessInv, WitnessesFit
    <3>2. Weakness(effective[witness[g]]) <= Weakness(effective[g])
      BY <2>3, <3>1 DEF WitnessInv, IInv, VisitedSettled
    <3>3. effective[g] \in Levels /\ effective[witness[g]] \in Levels
      BY <3>1 DEF WitnessInv, IInv, TypeOK
    <3> QED BY <3>1, <3>2, <3>3, WeaknessOrders
  <2>5. \A g \in Blamed(f) : effective[g] = effective[f]
    <3> DEFINE S == {g \in Fns : effective[g] = effective[f]}
    <3>1. f \in S /\ S \in SUBSET Fns /\ Blames(S)
      BY <2>1, <2>4 DEF Blames
    <3> QED BY <3>1 DEF Blamed
  <2>6. f \in Blamed(f) /\ Blamed(f) \in SUBSET Fns
    BY <2>1 DEF Blamed
  <2>7. PICK g \in Blamed(f) : witness[g] \notin Blamed(f)
    BY <2>6 DEF WitnessInv, Grounded
  <2>8. witness[g] = NoWitness
    BY <2>4, <2>6, <2>7 DEF Blamed, Blames
  <2>9. declared[g] = effective[g]
    BY <2>6, <2>8 DEF WitnessInv, WitnessesFit
  <2> QED BY <2>2, <2>5, <2>7, <2>9
<1> QED BY WitnessInvariant, <1>1, PTL

-----------------------------------------------------------------------------
(* The number of sweeps.                                                   *)

\* The level bounds all that f depends on.
Bounds(f, level) == \A g \in Reach(f) : Weakness(declared[g]) <= Weakness(level)

\* The functions that have come to their level.
Final == {f \in Fns : Bounds(f, effective[f])}

\* A visit will bring f to its level: a callee has it already.
Ready(f) == f \notin Final /\ \E c \in calls[f] \cap Fns : Bounds(f, effective[c])

\* Each sweep brings one more function to its level, or all have come to theirs.
OneMoreEachSweep ==
  \/ Final = Fns
  \/ Cardinality(Final) >= sweeps + 1
  \/ Cardinality(Final) >= sweeps /\ \E f \in todo : Ready(f)

\* A sweep that changes something began before all had.
ChangesLeft == changed => sweeps = 0 \/ sweeps < Cardinality(Fns)

\* The sweeps are at an end when the report is made.
ReportedLate == downgraded # Pending => ~changed \/ sweeps >= MaxSweeps

SweepInv == IInv /\ OneMoreEachSweep /\ ChangesLeft /\ ReportedLate

LEMMA LevelsAreNumbers ==
  ASSUME TypeOK
  PROVE  \A f \in Fns : /\ effective[f] \in Levels /\ declared[f] \in Levels
                        /\ Weakness(effective[f]) \in Int /\ Weakness(declared[f]) \in Int
BY WeaknessOrders DEF TypeOK

LEMMA DependenciesAreFunctions ==
  ASSUME NEW f \in Fns
  PROVE  /\ Reach(f) \in SUBSET Fns
         /\ \A S \in SUBSET Fns : f \in S /\ Closed(S) => Reach(f) \subseteq S
BY DEF Reach

\* Of some functions one is declared the weakest.
LEMMA WeakestDeclared ==
  ASSUME TypeOK, NEW S \in SUBSET Fns, S # {}
  PROVE  \E g \in S : \A h \in S : Weakness(declared[h]) <= Weakness(declared[g])
<1> DEFINE L == {declared[g] : g \in S}
<1>1. L \subseteq Levels /\ L # {}
  BY DEF TypeOK
<1>2. PICK l \in L : \A m \in L : Meet(m, l) = l
  BY <1>1, WeakestExists
<1>3. \A m \in L : Weakness(m) <= Weakness(l)
  BY <1>1, <1>2, MeetTakesTheWeaker
<1> QED BY <1>3

LEMMA CountingFunctions ==
  ASSUME NEW S \in SUBSET Fns
  PROVE  /\ IsFiniteSet(S) /\ Cardinality(S) \in Nat /\ Cardinality(Fns) \in Nat
         /\ Cardinality(S) <= Cardinality(Fns)
         /\ S # Fns => Cardinality(S) < Cardinality(Fns)
         /\ \A T \in SUBSET S : Cardinality(T) <= Cardinality(S)
<1>1. IsFiniteSet(S)
  BY FnsFinite, FS_Subset
<1> QED BY <1>1, FnsFinite, FS_Subset, FS_CardinalityType

\* While not all have come to their levels, one is ready: the functions that
\* f depends on and that are stronger than the weakest of them, f among them,
\* would otherwise be closed under calls, without that weakest one.
LEMMA OneIsReady ==
  ASSUME IInv, Final # Fns
  PROVE  \E f \in Fns : Ready(f)
<1> SUFFICES ASSUME \A f \in Fns : ~Ready(f) PROVE FALSE
  OBVIOUS
<1>1. PICK f \in Fns : f \notin Final
  BY DEF Final
<1>2. Reach(f) \in SUBSET Fns /\ f \in Reach(f)
  BY DependenciesAreFunctions, DependsOnItself
<1>3. PICK w \in Reach(f) : \A h \in Reach(f) : Weakness(declared[h]) <= Weakness(declared[w])
  BY <1>2, WeakestDeclared DEF IInv
<1> DEFINE S == {h \in Reach(f) : Weakness(effective[h]) < Weakness(declared[w])}
<1>4. \A h \in Fns : /\ Weakness(effective[h]) \in Int /\ Weakness(declared[h]) \in Int
                     /\ Weakness(declared[h]) <= Weakness(effective[h])
  BY LevelsAreNumbers DEF IInv, NoStronger
<1>5. f \in S
  <2>1. PICK g \in Reach(f) : ~(Weakness(declared[g]) <= Weakness(effective[f]))
    BY <1>1 DEF Final, Bounds
  <2> QED BY <1>2, <1>3, <1>4, <2>1
<1>6. Closed(S)
  <2> SUFFICES ASSUME NEW h \in S, NEW c \in calls[h] \cap Fns PROVE c \in S
    BY DEF Closed
  <2>1. h \in Fns /\ Reach(h) \subseteq Reach(f)
    <3>1. Closed(Reach(f))
      BY CalleesDependenciesAreOnes, <1>2, DependsOnItself DEF Closed, Reach
    <3> QED BY <1>2, <3>1, DependenciesAreFunctions
  <2>2. c \in Reach(h) /\ c \in Reach(f)
    BY <2>1, CalleesDependenciesAreOnes, DependsOnItself
  <2>3. CASE Weakness(effective[c]) < Weakness(declared[w])
    BY <2>2, <2>3
  <2>4. CASE ~(Weakness(effective[c]) < Weakness(declared[w]))
    <3>1. Bounds(h, effective[c])
      BY <1>2, <1>3, <1>4, <2>1, <2>4 DEF Bounds
    <3>2. PICK g \in Reach(c) : effective[c] = declared[g]
      BY DEF IInv, Justified
    <3>3. g \in Reach(h)
      BY <2>1, <3>2, CalleesDependenciesAreOnes
    <3>4. h \notin Final
      BY <1>2, <1>4, <2>1, <2>4, <3>2, <3>3 DEF Final, Bounds
    <3> QED BY <2>1, <3>1, <3>4 DEF Ready
  <2> QED BY <2>3, <2>4
<1>7. w \in S
  BY <1>2, <1>5, <1>6, DependenciesAreFunctions
<1> QED BY <1>2, <1>4, <1>7

\* Visits take no function off its level, and bring a ready one to its own.
LEMMA VisitBringsHome ==
  ASSUME IInv, NEW f \in Fns, Visit(f)
  PROVE  /\ Final \subseteq Final'
         /\ Ready(f) => f \in Final'
         /\ \A g \in Fns \ {f} : Ready(g) => Ready(g)'
<1>1. calls' = calls /\ declared' = declared
  BY DEF Visit, input
<1>2. \A g \in Fns : Reach(g)' = Reach(g) /\ Reach(g) \in SUBSET Fns
  BY <1>1, DependenciesAreFunctions DEF Reach, Closed
<1>3. /\ effective' \in [Fns -> Levels]
      /\ \A g \in Fns \ {f} : effective'[g] = effective[g]
      /\ Weakness(effective[f]) <= Weakness(effective'[f])
  BY VisitWeakens DEF IInv
<1>4. \A g \in Fns : /\ Weakness(effective[g]) \in Int /\ Weakness(declared[g]) \in Int
                     /\ Weakness(effective'[g]) \in Int
                     /\ Weakness(effective[g]) <= Weakness(effective'[g])
  BY <1>3, LevelsAreNumbers, WeaknessOrders DEF IInv
<1>5. ASSUME NEW g \in Fns, NEW h \in Fns, Bounds(g, effective[h])
      PROVE  \A k \in Reach(g) : Weakness(declared[k]) <= Weakness(effective'[h])
  BY <1>2, <1>4, <1>5 DEF Bounds
<1>6. Final' = {g \in Fns : \A k \in Reach(g) : Weakness(declared[k]) <= Weakness(effective'[g])}
  BY <1>1, <1>2 DEF Final, Bounds
<1>7. Final \subseteq Final'
  BY <1>5, <1>6 DEF Final
<1>8. Ready(f) => f \in Final'
  <2> SUFFICES ASSUME Ready(f) PROVE f \in Final'
    OBVIOUS
  <2>1. PICK c \in calls[f] \cap Fns : Bounds(f, effective[c])
    BY DEF Ready
  <2>2. Weakness(effective[c]) <= Weakness(Combined(f)) /\ Combined(f) \in Levels
    BY CombinedIsWeakest DEF IInv
  <2>3. effective'[f] = Combined(f)
    BY DEF Visit, IInv, TypeOK
  <2>4. \A k \in Reach(f) : Weakness(declared[k]) <= Weakness(effective'[f])
    BY <1>2, <1>4, <2>1, <2>2, <2>3 DEF Bounds
  <2> QED BY <1>6, <2>4
<1>9. ASSUME NEW g \in Fns \ {f}, Ready(g)
       PROVE  Ready(g)'
  <2>1. PICK c \in calls[g] \cap Fns : Bounds(g, effective[c])
    BY <1>9 DEF Ready
  <2>2. g \notin Final'
    BY <1>3, <1>6, <1>9 DEF Ready, Final, Bounds
  <2>3. \A k \in Reach(g) : Weakness(declared[k]) <= Weakness(effective'[c])
    BY <1>5, <2>1
  <2> QED BY <1>1, <1>2, <2>1, <2>2, <2>3 DEF Ready, Bounds
<1> QED BY <1>7, <1>8, <1>9

LEMMA InitSweeps == Init => SweepInv
<1> SUFFICES ASSUME Init PROVE SweepInv
  OBVIOUS
<1>1. IInv /\ sweeps = 0 /\ downgraded = Pending
  BY InitInvariant DEF Init
<1>2. OneMoreEachSweep
  <2>1. CASE Fns = {}
    BY <2>1 DEF OneMoreEachSweep, Final
  <2>2. CASE Fns # {}
    <3>1. PICK g \in Fns : \A h \in Fns : Weakness(declared[h]) <= Weakness(declared[g])
      BY <1>1, <2>2, WeakestDeclared DEF IInv
    <3>2. g \in Final
      BY <3>1, DependenciesAreFunctions DEF Final, Bounds, Init
    <3>3. Final \in SUBSET Fns
      BY DEF Final
    <3>4. IsFiniteSet(Final) /\ Cardinality(Final) \in Nat /\ Cardinality(Final) # 0
      BY <3>2, <3>3, CountingFunctions, FS_EmptySet
    <3> QED BY <1>1, <3>4 DEF OneMoreEachSweep
  <2> QED BY <2>1, <2>2
<1> QED BY <1>1, <1>2 DEF SweepInv, ChangesLeft, ReportedLate

LEMMA FinalKept ==
  ASSUME UNCHANGED <<input, effective>>
  PROVE  Final' = Final /\ \A f \in Fns : Ready(f)' <=> Ready(f)
<1>1. calls' = calls /\ declared' = declared /\ effective' = effective
  BY DEF input
<1>2. \A f \in Fns : Reach(f)' = Reach(f)
  BY <1>1 DEF Reach, Closed
<1>3. Final' = Final
  BY <1>1, <1>2 DEF Final, Bounds
<1> QED BY <1>1, <1>2, <1>3 DEF Ready, Bounds

LEMMA BeginKeepsSweeps ==
  ASSUME SweepInv, BeginSweep
  PROVE  OneMoreEachSweep' /\ ChangesLeft' /\ ReportedLate'
<1>1. /\ todo = {} /\ todo' = Fns /\ sweeps' = sweeps + 1 /\ changed' = FALSE
      /\ UNCHANGED <<input, effective, downgraded>> /\ downgraded = Pending /\ sweeps \in Nat
  BY DEF BeginSweep, SweepInv, IInv, TypeOK
<1>2. Final' = Final /\ \A f \in Fns : Ready(f)' <=> Ready(f)
  BY <1>1, FinalKept
<1>3. CASE Final = Fns
  BY <1>1, <1>2, <1>3 DEF OneMoreEachSweep, ChangesLeft, ReportedLate
<1>4. CASE Final # Fns
  <2>1. Cardinality(Final) >= sweeps'
    BY <1>1, <1>4 DEF SweepInv, OneMoreEachSweep
  <2>2. PICK f \in Fns : Ready(f)
    BY <1>4, OneIsReady DEF SweepInv
  <2> QED BY <1>1, <1>2, <2>1, <2>2 DEF OneMoreEachSweep, ChangesLeft, ReportedLate
<1> QED BY <1>3, <1>4

LEMMA VisitKeepsSweeps ==
  ASSUME SweepInv, NEW f \in Fns, Visit(f)
  PROVE  OneMoreEachSweep' /\ ChangesLeft' /\ ReportedLate'
<1>1. todo' = todo \ {f} /\ f \in todo /\ sweeps' = sweeps /\ downgraded' = downgraded /\ sweeps \in Nat
  BY DEF Visit, SweepInv, IInv, TypeOK
<1>2. /\ Final \subseteq Final' /\ Final' \in SUBSET Fns
      /\ Ready(f) => f \in Final'
      /\ \A g \in Fns \ {f} : Ready(g) => Ready(g)'
  BY VisitBringsHome DEF SweepInv, Final
<1>3. /\ IsFiniteSet(Final) /\ Cardinality(Final) \in Nat
      /\ Cardinality(Final') \in Nat /\ Cardinality(Fns) \in Nat
      /\ Cardinality(Final) <= Cardinality(Final')
      /\ Final # Fns => Cardinality(Final) < Cardinality(Fns)
  BY <1>2, CountingFunctions
<1>4. OneMoreEachSweep'
  <2>1. CASE Final = Fns
    BY <1>2, <2>1 DEF OneMoreEachSweep
  <2>2. CASE Cardinality(Final) >= sweeps + 1
    BY <1>1, <1>3, <2>2 DEF OneMoreEachSweep
  <2>3. ASSUME Cardinality(Final) >= sweeps, NEW g \in todo, Ready(g)
        PROVE  OneMoreEachSweep'
    <3>1. g \in Fns
      BY DEF SweepInv, IInv, TypeOK
    <3>2. CASE g # f
      BY <1>1, <1>2, <1>3, <2>3, <3>1, <3>2 DEF OneMoreEachSweep
    <3>3. CASE g = f
      <4>1. f \notin Final /\ Final \cup {f} \in SUBSET Final'
        BY <1>2, <2>3, <3>3 DEF Ready
      <4>2. Cardinality(Final \cup {f}) = Cardinality(Final) + 1
        BY <1>3, <4>1, FS_AddElement
      <4>3. Cardinality(Final \cup {f}) <= Cardinality(Final')
        BY <1>2, <4>1, CountingFunctions
      <4> QED BY <1>1, <1>3, <2>3, <4>2, <4>3 DEF OneMoreEachSweep
    <3> QED BY <3>2, <3>3
  <2> QED BY <2>1, <2>2, <2>3 DEF SweepInv, OneMoreEachSweep
<1>5. ChangesLeft'
  <2>1. CASE Combined(f) = effective[f]
    <3>1. changed' = changed
      BY <2>1 DEF Visit
    <3> QED BY <1>1, <3>1 DEF SweepInv, ChangesLeft
  <2>2. CASE Combined(f) # effective[f]
    <3>1. f \notin Final
      <4>1. PICK c \in calls[f] \cap Fns : effective[c] = Combined(f) /\ Weakness(effective[f]) < Weakness(effective[c])
        BY <2>2, CombinedIsWeakest, LevelsAreNumbers, WeaknessOrders DEF SweepInv, IInv
      <4>2. PICK g \in Reach(c) : effective[c] = declared[g]
        BY DEF SweepInv, IInv, Justified
      <4>3. g \in Reach(f)
        BY <4>2, CalleesDependenciesAreOnes
      <4>4. Weakness(effective[f]) \in Int /\ Weakness(effective[c]) \in Int
        BY LevelsAreNumbers DEF SweepInv, IInv
      <4> QED BY <4>1, <4>2, <4>3, <4>4 DEF Final, Bounds
    <3>2. Final # Fns /\ sweeps < Cardinality(Fns)
      BY <1>1, <1>3, <3>1 DEF SweepInv, OneMoreEachSweep
    <3> QED BY <1>1, <3>2 DEF ChangesLeft
  <2> QED BY <2>1, <2>2
<1>6. ReportedLate'
  BY <1>1 DEF SweepInv, IInv, ReportedLast, ReportedLate
<1> QED BY <1>4, <1>5, <1>6

LEMMA SweepInvariant == Spec => []SweepInv
<1>1. SweepInv /\ [Next]_vars => SweepInv'
  <2> SUFFICES ASSUME SweepInv, [Next]_vars PROVE SweepInv'
    OBVIOUS
  <2>1. IInv'
    BY StepInvariant DEF SweepInv
  <2>2. ASSUME NEW f \in Fns, Visit(f) PROVE SweepInv'
    BY <2>1, <2>2, VisitKeepsSweeps DEF SweepInv
  <2>3. CASE BeginSweep
    BY <2>1, <2>3, BeginKeepsSweeps DEF SweepInv
  <2>4. CASE Report \/ Reported \/ UNCHANGED vars
    <3>1. UNCHANGED <<input, effective, todo, changed, sweeps>>
      BY <2>4 DEF Report, Reported, vars, input
    <3>2. Final' = Final /\ \A f \in Fns : Ready(f)' <=> Ready(f)
      BY <3>1, FinalKept
    <3>3. todo \in SUBSET Fns
      BY DEF SweepInv, IInv, TypeOK
    <3>4. OneMoreEachSweep' /\ ChangesLeft'
      BY <3>1, <3>2, <3>3 DEF SweepInv, OneMoreEachSweep, ChangesLeft
    <3>5. ReportedLate'
      BY <2>4 DEF SweepInv, ReportedLate, Report, Reported, vars
    <3> QED BY <2>1, <3>4, <3>5 DEF SweepInv
  <2> QED BY <2>2, <2>3, <2>4 DEF Next
<1> QED BY InitSweeps, <1>1, PTL DEF Spec

\* As many sweeps as there are functions are enough, in whatever order callers
\* and callees are visited: while not all functions have come to their levels,
\* each sweep brings one more to its own, and one has it from the start.
THEOREM SweepsSuffice == Spec => []ConvergesWithinCap
<1>1. SweepInv => ConvergesWithinCap
  <2> SUFFICES ASSUME SweepInv, downgraded # Pending, Cardinality(Fns) <= MaxSweeps, changed
               PROVE  FALSE
    BY DEF ConvergesWithinCap
  <2>1. sweeps >= MaxSweeps /\ sweeps \in Nat /\ MaxSweeps \in Nat \ {0}
    BY SweepsPositive DEF SweepInv, ReportedLate, IInv, TypeOK
  <2>2. sweeps < Cardinality(Fns)
    BY <2>1 DEF SweepInv, ChangesLeft
  <2>3. Cardinality(Fns) \in Nat
    BY CountingFunctions
  <2> QED BY <2>1, <2>2, <2>3
<1> QED BY SweepInvariant, <1>1, PTL
=============================================================================
