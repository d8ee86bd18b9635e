--------------------------------- MODULE MCRepl ---------------------------------
(***************************************************************************)
(* A session with declarations of one line (an alias) and of several (a    *)
(* state machine).  A line is blank, begins a declaration, or is one more  *)
(* transition of the machine above it.  A source parses when each machine  *)
(* has a transition and each transition a machine, and checks when every   *)
(* state of a machine can be reached from its first (checker.rs,           *)
(* check_state).                                                           *)
(***************************************************************************)
EXTENDS Naturals, Sequences

VARIABLES source, defCount, response

Namespace == [kind |-> "ns"]
Blank == [kind |-> "blank"]
Alias == [kind |-> "type"]
Machine == [kind |-> "state"]
Step(a, b) == [kind |-> "step", from |-> a, to |-> b]

Start == <<Namespace, Blank>>
Typed == { <<Alias>>, <<Machine>>, <<Machine, Blank>>, <<Step("B", "C")>>,
           <<Machine, Step("A", "B")>>, <<Machine, Step("A", "B"), Step("C", "A")>> }
Asked == { <<[kind |-> "main"], [kind |-> "body"]>> }

\* The line before line i that is not blank.
Before(s, i) ==
  LET lines == {j \in 1..(i - 1) : s[j] # Blank}
  IN  IF lines = {} THEN 0 ELSE CHOOSE j \in lines : \A k \in lines : k <= j
After(s, i) ==
  LET lines == {j \in (i + 1)..Len(s) : s[j] # Blank}
  IN  IF lines = {} THEN 0 ELSE CHOOSE j \in lines : \A k \in lines : j <= k

WellFormed(s) ==
  \A i \in 1..Len(s) :
    /\ s[i] = Machine => After(s, i) # 0 /\ s[After(s, i)].kind = "step"
    /\ s[i].kind = "step" => Before(s, i) # 0 /\ s[Before(s, i)].kind \in {"step", "state"}

\* The transitions of the machine that begins at line m.
StepsOf(s, m) == {s[i] : i \in {j \in (m + 1)..Len(s) : s[j].kind = "step" /\ ~\E k \in (m + 1)..j : s[k].kind \notin {"step", "blank"}}}
Sound(s) ==
  \A m \in {i \in 1..Len(s) : s[i] = Machine} :
    LET steps == StepsOf(s, m)
        states == {t.from : t \in steps} \cup {t.to : t \in steps}
        first == s[After(s, m)].from
    IN  \A S \in SUBSET states :
          first \in S /\ (\A t \in steps : t.from \in S => t.to \in S) => S = states
Finds(s) == TRUE
Yields(s, e) == TRUE
LongEnough == 6

INSTANCE Repl WITH
  Header <- Start, Definitions <- Typed, Expressions <- Asked, Parses <- WellFormed, Checks <- Sound,
  Verifies <- Finds, Evaluates <- Yields, MaxLines <- LongEnough
=============================================================================
