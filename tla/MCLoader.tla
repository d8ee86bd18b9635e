-------------------------------- MODULE MCLoader --------------------------------
(***************************************************************************)
(* Model checking of the loader over projects of an entry file, a sibling  *)
(* and two files of a subdirectory: two uses of the entry and one of each  *)
(* other file, in every choice: self-uses, diamonds, cycles, uses that     *)
(* lead nowhere, and uses that lead to lib/c.ns only through its namespace *)
(* and only once it has been read.                                         *)
(***************************************************************************)
EXTENDS Loader

main == <<"main">>
a == <<"a">>
b == <<"lib", "b">>
c == <<"lib", "c">>
core == <<"core">>
coreIo == <<"core", "io">>

Paths == {main, a, b, c}
OneUse == {<<>>} \cup {<<u>> : u \in Paths \cup {core}}
TwoUses == {<<u, v>> : u \in Paths, v \in Paths}
NestedUses == OneUse \cup {<<coreIo>>}

Namespace(f) == CASE f = a -> NoNamespace [] f = c -> core [] OTHER -> f

Layout(um, ua, ub, uc, broken) ==
  [f \in Paths |->
    [ns |-> Namespace(f), sound |-> f # broken,
     uses |-> CASE f = main -> um [] f = a -> ua [] f = b -> ub [] f = c -> uc]]

AllProjects ==
  {[entry |-> main, files |-> Layout(um, ua, ub, uc, broken)] :
      um \in TwoUses, ua \in OneUse, ub \in NestedUses, uc \in OneUse, broken \in {None, c}}
    \cup {[entry |-> <<"missing">>, files |-> Layout(<<>>, <<>>, <<>>, <<>>, None)]}

\* TLC keeps the value of a definition that no .cfg names.
SmallProjects == AllProjects
=============================================================================
