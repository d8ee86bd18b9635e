-------------------------------- MODULE MCChecker --------------------------------
(***************************************************************************)
(* Model checking of the checker over three families of programs: three    *)
(* functions, the third under a name of its own or the first one's, or a   *)
(* flow, with every choice of calls and of two effects; a state machine of *)
(* up to three transitions between three states; and three declarations,   *)
(* each an alias, a function or a flow, in any order.                      *)
(***************************************************************************)
EXTENDS Checker

Types == {"Int", "Nat", "Text", "Result"}
Numbers == {"Int", "Nat"}
Results == [r \in {"Result"} |-> "Int"]

Fn(name, effects, calls, returns, gives) ==
  [kind |-> "fn", name |-> name, effects |-> effects, calls |-> calls, returns |-> returns, gives |-> gives]
Flow(name, effects, calls, returns, gives) == [Fn(name, effects, calls, returns, gives) EXCEPT !.kind = "flow"]
Alias(name, to) == [kind |-> "alias", name |-> name, to |-> to]
Machine(transitions) == [kind |-> "state", transitions |-> transitions]

FnsCalling(name, callable) ==
  {Fn(name, e, c, "Int", "Int") : e \in {{}, {"io"}, {"db"}, {"io", "db"}}, c \in SUBSET callable}
Calling ==
  {<<f, g, h>> : f \in FnsCalling("f", {"g", "h"}), g \in FnsCalling("g", {"f", "g", "print"}), h \in FnsCalling("h", {"f", "g"})}
    \cup {<<f, g, h>> : f \in FnsCalling("f", {"g"}), g \in FnsCalling("g", {"f", "g"}), h \in FnsCalling("f", {"f", "g"})}
    \cup {<<f, g, Flow(name, e, c, r, "Nat")>> : f \in FnsCalling("f", {"g"}), g \in FnsCalling("g", {"f"}),
             name \in {"f", "h"}, e \in {{}, {"io"}}, c \in SUBSET {"f", "g"}, r \in {"Result", "Text"}}

Edges == [from : {"new", "open", "shut"}, to : {"new", "open", "shut"}]
Machines == {<<Machine(t)>> : t \in UNION {[1..n -> Edges] : n \in 0..3}}
  \cup {<<Machine(t), Machine(u)>> : t, u \in UNION {[1..n -> Edges] : n \in 1..1}}

Aliases == {Alias("A", t) : t \in {"Int", "Result", "B", "C"}} \cup {Alias("B", t) : t \in {"Nat", "Text", "A"}}
  \cup {Alias("Nat", "Text")}
Typed == {Fn("f", {}, {}, r, g) : r \in {"Int", "Text", "A"}, g \in {"Nat", "A", "B", Unchecked}}
  \cup {Flow("f", {}, {}, r, g) : r \in {"Result", "A"}, g \in {"Nat", "B"}}
Aliasing == {<<x, y, z>> : x, y, z \in Aliases \cup Typed}

AllPrograms == Calling \cup Machines \cup Aliasing

\* TLC keeps the value of a definition that no .cfg names.
SmallPrograms == AllPrograms
=============================================================================
