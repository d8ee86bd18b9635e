--------------------------------- MODULE Loader ---------------------------------
(***************************************************************************)
(* The module loader, crates/nous-parser/src/loader.rs: load_program reads *)
(* the entry file, then, depth first and before the declarations of a      *)
(* file, the files its `use` declarations resolve to.  A file is marked as *)
(* loaded before it is read, which is what stops a cycle of uses.          *)
(*                                                                         *)
(* A file is named by the path of its directories and its module name, a   *)
(* sequence of segments; canonicalization is taken for granted.  A project *)
(* is chosen in Init and its files do not change while they are loaded.    *)
(* `deps` is a history variable: the uses resolved, as <<user, used>>.     *)
(***************************************************************************)
EXTENDS Naturals, Sequences

CONSTANT Projects    \* records [entry, files], files: path -> [ns, uses, sound]

ASSUME UsesAreLists == \A p \in Projects : \A f \in DOMAIN p.files : Len(p.files[f].uses) \in Nat

NoNamespace == <<>>

VARIABLES project,        \* what is on disk
          frames,         \* the calls of `load` in progress, the innermost last
          loaded,         \* Loader.loaded
          registry,       \* Loader.ns_to_path
          declarations,   \* Loader.declarations, as the files they come from
          status,         \* "start", "loading", "done" or "failed"
          deps

vars == <<project, frames, loaded, registry, declarations, status, deps>>

OnDisk == DOMAIN project.files
Uses(f) == project.files[f].uses

Front(path) == SubSeq(path, 1, Len(path) - 1)
Last(path) == path[Len(path)]

None == <<>>
Known(ns) == IF ns \in DOMAIN registry THEN registry[ns] ELSE None

\* resolve_use, strategies 1 to 3: a sibling of the using file, or else a path
\* below its directory.
FoundOnDisk(use, file) ==
  LET sibling == Append(Front(file), Last(use))
      below == Front(file) \o use
  IN  IF sibling \in OnDisk THEN sibling ELSE IF below \in OnDisk THEN below ELSE None

\* Otherwise the file that has declared the namespace, or the one above it.
Resolve(use, file) ==
  IF use = <<>> THEN None
  ELSE IF FoundOnDisk(use, file) # None THEN FoundOnDisk(use, file)
  ELSE IF Known(use) # None THEN Known(use)
  ELSE IF Len(use) >= 2 THEN Known(Front(use))
  ELSE None

Top == frames[Len(frames)]
CurrentUse == Uses(Top.file)[Top.next]
Target == Resolve(CurrentUse, Top.file)
AtUse == status = "loading" /\ Top.next <= Len(Uses(Top.file))

Advanced == [frames EXCEPT ![Len(frames)].next = @ + 1]
Depend == deps' = deps \cup {<<Top.file, Target>>}

-----------------------------------------------------------------------------
\* A file met for the first time: marked, read and parsed, its namespace noted.
\* A file that cannot be read or parsed ends the whole load.
Open(f, below) ==
  /\ loaded' = loaded \cup {f}
  /\ IF project.files[f].sound
     THEN /\ frames' = Append(below, [file |-> f, next |-> 1])
          /\ LET ns == project.files[f].ns
             IN  registry' = IF ns = NoNamespace THEN registry
                             ELSE [n \in DOMAIN registry \cup {ns} |-> IF n = ns THEN f ELSE registry[n]]
          /\ status' = "loading"
     ELSE status' = "failed" /\ UNCHANGED <<frames, registry>>
  /\ UNCHANGED <<project, declarations>>

\* load_program: the entry file may not exist.
Start ==
  /\ status = "start"
  /\ IF project.entry \in OnDisk THEN Open(project.entry, frames)
     ELSE status' = "failed" /\ UNCHANGED <<project, frames, loaded, registry, declarations>>
  /\ UNCHANGED deps

\* Mutant: the file is not looked up among those loaded.
UseAnyFile ==
  /\ AtUse /\ Target # None
  /\ Open(Target, Advanced)
  /\ Depend

\* The next use leads to a file not loaded yet.
UseNewFile ==
  /\ AtUse /\ Target # None /\ Target \notin loaded
  /\ Open(Target, Advanced)
  /\ Depend

\* Loaded already, or being loaded further out: nothing to do.
UseLoadedFile ==
  /\ AtUse /\ Target \in loaded
  /\ frames' = Advanced
  /\ Depend
  /\ UNCHANGED <<project, loaded, registry, declarations, status>>

\* Mutant: the use is tried again.
RetryUnresolved ==
  /\ AtUse /\ Target = None
  /\ UNCHANGED vars

\* A use that leads nowhere is skipped without an error.
UseUnresolved ==
  /\ AtUse /\ Target = None
  /\ frames' = Advanced
  /\ UNCHANGED <<project, loaded, registry, declarations, status, deps>>

\* Mutants: the file's declarations go before its dependencies'; the last use
\* is left out.
FinishInFront ==
  /\ status = "loading" /\ Top.next > Len(Uses(Top.file))
  /\ declarations' = <<Top.file>> \o declarations
  /\ frames' = SubSeq(frames, 1, Len(frames) - 1)
  /\ status' = IF Len(frames) = 1 THEN "done" ELSE status
  /\ UNCHANGED <<project, loaded, registry, deps>>
FinishOneEarly ==
  /\ status = "loading" /\ Top.next >= Len(Uses(Top.file))
  /\ declarations' = Append(declarations, Top.file)
  /\ frames' = SubSeq(frames, 1, Len(frames) - 1)
  /\ status' = IF Len(frames) = 1 THEN "done" ELSE status
  /\ UNCHANGED <<project, loaded, registry, deps>>

\* The uses are done: the file's own declarations follow those it depends on.
Finish ==
  /\ status = "loading" /\ Top.next > Len(Uses(Top.file))
  /\ declarations' = Append(declarations, Top.file)
  /\ frames' = SubSeq(frames, 1, Len(frames) - 1)
  /\ status' = IF Len(frames) = 1 THEN "done" ELSE status
  /\ UNCHANGED <<project, loaded, registry, deps>>

Ended == status \in {"done", "failed"} /\ UNCHANGED vars

Init ==
  /\ project \in Projects
  /\ frames = <<>> /\ loaded = {} /\ registry = <<>> /\ declarations = <<>>
  /\ status = "start"
  /\ deps = {}

Next == Start \/ UseNewFile \/ UseLoadedFile \/ UseUnresolved \/ Finish \/ Ended

Spec == Init /\ [][Next]_vars

\* load_program runs to its end.
FairSpec == Spec /\ WF_vars(Next)

-----------------------------------------------------------------------------
Collected == {declarations[i] : i \in 1..Len(declarations)}
InProgress == {frames[i].file : i \in 1..Len(frames)}

TypeOK ==
  /\ project \in Projects
  /\ frames \in Seq([file : OnDisk, next : Nat \ {0}])
  /\ loaded \subseteq OnDisk
  /\ \A ns \in DOMAIN registry : registry[ns] \in OnDisk
  /\ declarations \in Seq(OnDisk)
  /\ status \in {"start", "loading", "done", "failed"}
  /\ status = "loading" => frames # <<>>
  /\ deps \subseteq OnDisk \X OnDisk

\* No file's declarations are taken twice, however many uses lead to it and
\* around cycles of uses (loader.rs:11, 53-57): a file loaded is either open,
\* once, or collected, once.
LoadedOnce ==
  /\ \A i, j \in 1..Len(declarations) : declarations[i] = declarations[j] => i = j
  /\ \A i, j \in 1..Len(frames) : frames[i].file = frames[j].file => i = j
  /\ Collected \cap InProgress = {}
  /\ status # "failed" => loaded = Collected \cup InProgress

\* g needs f, itself or through others: every set that has g and what its
\* members use has f.
UseClosed(S) == \A e \in deps : e[1] \in S => e[2] \in S
Needs(g, f) == \A S \in SUBSET OnDisk : g \in S /\ UseClosed(S) => f \in S

\* A file's declarations come after those of every file that it uses, unless
\* that file in turn needs it (loader.rs:31, 85-102).
DependenciesFirst ==
  \A i \in 1..Len(declarations) : \A e \in deps :
    e[1] = declarations[i] =>
      Needs(e[2], e[1]) \/ \E j \in 1..(i - 1) : declarations[j] = e[2]

\* The program loaded is the entry file and all it needs: every use that leads
\* to a file on disk was followed, nothing else gets in, and a file that cannot
\* be parsed is never part of it (loader.rs:62, 85-91).
LoadedAllNeeded ==
  status = "done" =>
    /\ Collected = {f \in OnDisk : Needs(project.entry, f)}
    /\ \A f \in Collected :
         /\ project.files[f].sound
         /\ \A i \in 1..Len(Uses(f)) :
              LET found == FoundOnDisk(Uses(f)[i], f)
              IN  Uses(f)[i] # <<>> /\ found # None => <<f, found>> \in deps

\* Loading ends, whatever cycles the uses make.
Terminates == <>(status \in {"done", "failed"})
=============================================================================
