------------------------------ MODULE LoaderProofs ------------------------------
(***************************************************************************)
(* Proofs about module Loader, for every set of projects: each file is     *)
(* taken once, after the files it depends on, and the program loaded is    *)
(* the entry file and all it needs.                                        *)
(***************************************************************************)
EXTENDS Loader, Integers, SequenceTheorems, WellFoundedInduction, TLAPS

Frame == [file : OnDisk, next : Nat \ {0}]

-----------------------------------------------------------------------------
(* The inductive invariant.                                                *)

\* Each file being loaded was led to by a use of the one around it.
Linked ==
  \A i, j \in 1..Len(frames) : j = i + 1 => <<frames[i].file, frames[j].file>> \in deps

\* What each status says of the calls in progress and of the entry file.
Rooted ==
  /\ status = "start" => frames = <<>> /\ loaded = {} /\ declarations = <<>> /\ deps = {}
  /\ status \in {"loading", "done"} => project.entry \in loaded
  /\ status = "done" => frames = <<>>

DepsLoaded == \A e \in deps : e[1] \in loaded /\ e[2] \in loaded

LoadedNeeded == \A f \in loaded : Needs(project.entry, f)

SoundSoFar == \A f \in Collected \cup InProgress : project.files[f].sound

\* The uses of f before number n that lead to a file on disk are among deps.
Followed(f, n) ==
  \A i \in 1..Len(Uses(f)) :
    /\ i < n /\ Uses(f)[i] # <<>> /\ FoundOnDisk(Uses(f)[i], f) # None
    => <<f, FoundOnDisk(Uses(f)[i], f)>> \in deps

UsesFollowed ==
  /\ \A f \in Collected : Followed(f, Len(Uses(f)) + 1)
  /\ \A k \in 1..Len(frames) : \A f, n :
       f = frames[k].file /\ n = frames[k].next => Followed(f, n)

IInv ==
  /\ TypeOK
  /\ LoadedOnce
  /\ Linked
  /\ Rooted
  /\ DepsLoaded
  /\ LoadedNeeded
  /\ SoundSoFar
  /\ UsesFollowed
  /\ DependenciesFirst

-----------------------------------------------------------------------------
(* The stack of calls.                                                     *)

\* While the load goes on there is an innermost call.
LEMMA AtTop ==
  ASSUME TypeOK, status = "loading"
  PROVE  /\ Len(frames) \in Nat \ {0} /\ Len(frames) \in 1..Len(frames)
         /\ Top \in Frame /\ Top = frames[Len(frames)]
         /\ \A i \in 1..Len(frames) : frames[i] \in Frame
<1>1. frames \in Seq(Frame) /\ frames # <<>>
  BY DEF TypeOK, Frame
<1> HIDE DEF Frame
<1>2. Len(frames) \in Nat \ {0}
  BY <1>1, EmptySeq
<1>3. \A i \in 1..Len(frames) : frames[i] \in Frame
  BY <1>1, ElementOfSeq
<1> QED BY <1>2, <1>3 DEF Top

\* Going on to the next use changes nothing but the position in the list of uses.
LEMMA AdvancedFrames ==
  ASSUME TypeOK, status = "loading"
  PROVE  /\ Advanced \in Seq(Frame) /\ Len(Advanced) = Len(frames)
         /\ \A i \in 1..Len(frames) :
              /\ Advanced[i].file = frames[i].file
              /\ Advanced[i].next = IF i = Len(frames) THEN Top.next + 1 ELSE frames[i].next
<1> DEFINE n == Len(frames)
           e == [Top EXCEPT !.next = Top.next + 1]
<1>1. frames \in Seq(Frame)
  BY DEF TypeOK, Frame
<1>2. n \in 1..n /\ Top \in Frame /\ Top = frames[n]
  BY AtTop
<1>3. e \in Frame /\ e.file = Top.file /\ e.next = Top.next + 1
  BY <1>2 DEF Frame
<1>4. Advanced = [frames EXCEPT ![n] = e]
  BY <1>2 DEF Advanced
<1> HIDE DEF e, Frame
<1>5. /\ Advanced \in Seq(Frame) /\ Len(Advanced) = n
      /\ \A i \in 1..n : Advanced[i] = IF i = n THEN e ELSE frames[i]
  BY <1>1, <1>2, <1>3, <1>4, ExceptSeq
<1> QED BY <1>2, <1>3, <1>5

\* A use leads to a file on disk or nowhere.
LEMMA TargetOnDisk ==
  ASSUME TypeOK, Target # None
  PROVE  Target \in OnDisk
<1>1. \A ns : Known(ns) # None => Known(ns) \in OnDisk
  BY DEF Known, TypeOK
<1>2. \A u, f : FoundOnDisk(u, f) # None => FoundOnDisk(u, f) \in OnDisk
  BY DEF FoundOnDisk
<1>3. \A u, f : Resolve(u, f) # None => Resolve(u, f) \in OnDisk
  BY <1>1, <1>2, Zenon DEF Resolve
<1> QED BY <1>3 DEF Target

\* A file found on disk is what the use is resolved to.
LEMMA FoundIsTarget ==
  ASSUME CurrentUse # <<>>, FoundOnDisk(CurrentUse, Top.file) # None
  PROVE  Target = FoundOnDisk(CurrentUse, Top.file)
BY DEF Target, Resolve

\* A file being loaded needs every file being loaded further in.
LEMMA StackReaches ==
  ASSUME TypeOK, Linked, status = "loading", NEW i \in 1..Len(frames)
  PROVE  Needs(frames[i].file, Top.file)
<1> DEFINE n == Len(frames)
<1>1. n \in Nat \ {0} /\ Top = frames[n]
  BY AtTop
<1> SUFFICES ASSUME NEW S \in SUBSET OnDisk, frames[i].file \in S, UseClosed(S), Top.file \notin S
             PROVE  FALSE
  BY DEF Needs
<1> DEFINE Out == {k \in i..n : frames[k].file \notin S}
<1>2. n \in Out /\ Out \subseteq Nat
  BY <1>1
<1>3. PICK k \in Out : \A m \in Out : ~(<<m, k>> \in OpToRel(<, Nat))
  BY <1>2, WFMin, NatLessThanWellFounded
<1>4. \A m \in Out : ~(m < k)
  BY <1>2, <1>3 DEF OpToRel
<1>5. k \in i..n /\ frames[k].file \notin S /\ k # i
  OBVIOUS
<1>6. k - 1 \in i..n /\ k - 1 < k /\ k - 1 \in 1..n /\ k \in 1..n /\ k = (k - 1) + 1
  BY <1>1, <1>5
<1>7. frames[k - 1].file \in S
  BY <1>4, <1>6
<1>8. <<frames[k - 1].file, frames[k].file>> \in deps
  BY <1>6 DEF Linked
<1> QED BY <1>5, <1>7, <1>8 DEF UseClosed

\* What is needed stays needed as dependencies are added.
LEMMA NeedsGrows ==
  ASSUME NEW g, NEW f, Needs(g, f), deps \subseteq deps', project' = project
  PROVE  Needs(g, f)'
BY DEF Needs, UseClosed, OnDisk

-----------------------------------------------------------------------------
(* What every step preserves while no declarations are taken.              *)

\* The order of the declarations, when the uses of files collected stay as they are.
LEMMA KeepsOrder ==
  ASSUME DependenciesFirst, declarations' = declarations, project' = project,
         deps \subseteq deps', \A e \in deps' : e \in deps \/ e[1] \notin Collected
  PROVE  DependenciesFirst'
<1> SUFFICES ASSUME NEW i \in 1..Len(declarations), NEW e \in deps', e[1] = declarations[i]
             PROVE  Needs(e[2], e[1])' \/ \E j \in 1..(i - 1) : declarations[j] = e[2]
  BY DEF DependenciesFirst
<1>1. e \in deps
  BY DEF Collected
<1>2. Needs(e[2], e[1]) \/ \E j \in 1..(i - 1) : declarations[j] = e[2]
  BY <1>1 DEF DependenciesFirst
<1> QED BY <1>2, NeedsGrows

\* What has been followed stays followed as dependencies are added.
LEMMA FollowedGrows ==
  ASSUME NEW f, NEW n, Followed(f, n), deps \subseteq deps', project' = project
  PROVE  Followed(f, n)'
BY DEF Followed, Uses, FoundOnDisk, OnDisk

\* A use that has been dealt with is followed if it led anywhere.
LEMMA FollowedNext ==
  ASSUME IInv, AtUse, deps \subseteq deps', project' = project,
         Target # None => <<Top.file, Target>> \in deps',
         NEW k \in 1..Len(frames), NEW f, NEW n,
         f = Advanced[k].file, n = Advanced[k].next
  PROVE  Followed(f, n)'
<1>1. TypeOK /\ status = "loading" /\ UsesFollowed
  BY DEF IInv, AtUse
<1>2. f = frames[k].file /\ n = IF k = Len(frames) THEN Top.next + 1 ELSE frames[k].next
  BY <1>1, AdvancedFrames
<1>3. Followed(f, frames[k].next)
  BY <1>1, <1>2 DEF UsesFollowed
<1>5. CASE k # Len(frames)
  <2>1. Followed(f, n)
    BY <1>2, <1>3, <1>5
  <2> QED BY <2>1, FollowedGrows
<1>6. CASE k = Len(frames)
  <2>1. f = Top.file /\ n = Top.next + 1 /\ Top.next \in Nat /\ Followed(f, Top.next)
    BY <1>1, <1>2, <1>3, <1>6, AtTop DEF Frame
  <2> SUFFICES ASSUME NEW i \in 1..Len(Uses(f)), i < n, Uses(f)[i] # <<>>, FoundOnDisk(Uses(f)[i], f) # None
               PROVE  <<f, FoundOnDisk(Uses(f)[i], f)>> \in deps'
    BY DEF Followed, Uses, FoundOnDisk, OnDisk
  <2>2. CASE i < Top.next
    BY <2>1, <2>2 DEF Followed
  <2>3. CASE i = Top.next
    BY <2>1, <2>3, FoundIsTarget DEF CurrentUse
  <2>4. i \in Int
    OBVIOUS
  <2> QED BY <2>1, <2>2, <2>3, <2>4
<1> QED BY <1>5, <1>6

-----------------------------------------------------------------------------
(* The steps.                                                              *)

\* A file met for the first time, inside calls that stand for those in progress.
LEMMA OpenStep ==
  ASSUME IInv, NEW f \in OnDisk, f \notin loaded, status \in {"start", "loading"},
         NEW below \in Seq(Frame), Len(below) = Len(frames),
         \A i \in 1..Len(frames) : below[i].file = frames[i].file,
         \A k \in 1..Len(frames) : \A g, n :
            g = below[k].file /\ n = below[k].next => Followed(g, n)',
         Open(f, below),
         deps \subseteq deps',
         \A e \in deps' : e \in deps \/ (status = "loading" /\ e = <<Top.file, f>>),
         status = "loading" => <<Top.file, f>> \in deps',
         status = "start" => f = project.entry
  PROVE  IInv'
<1> DEFINE n == Len(frames)
           r == [file |-> f, next |-> 1]
<1>1. /\ project' = project /\ loaded' = loaded \cup {f} /\ declarations' = declarations
      /\ OnDisk' = OnDisk /\ Frame' = Frame /\ Collected' = Collected
  BY DEF Open, OnDisk, Frame, Collected
<1>2. /\ frames \in Seq(Frame) /\ n \in Nat /\ r \in Frame
      /\ \A i \in 1..n : frames[i] \in Frame /\ below[i] \in Frame
  <2>1. frames \in Seq(Frame) /\ r \in Frame
    BY DEF IInv, TypeOK, Frame
  <2> HIDE DEF Frame, r
  <2> QED BY <2>1, LenProperties, ElementOfSeq
<1>3. status = "loading" => Top.file \in InProgress /\ Top.file \in loaded /\ Top = frames[n] /\ n \in 1..n
  BY AtTop DEF IInv, LoadedOnce, InProgress
<1>4. status = "start" => n = 0 /\ frames = <<>> /\ deps = {} /\ loaded = {} /\ declarations = <<>>
  BY EmptySeq DEF IInv, Rooted
<1>5. \/ /\ status' = "failed" /\ frames' = frames /\ registry' = registry
      \/ /\ status' = "loading" /\ frames' = Append(below, r) /\ project.files[f].sound
         /\ \A ns \in DOMAIN registry' : registry'[ns] \in OnDisk
  BY DEF Open, IInv, TypeOK
<1>6. ASSUME status' = "loading"
      PROVE  /\ frames' \in Seq(Frame) /\ frames' # <<>> /\ Len(frames') = n + 1
             /\ frames'[n + 1] = r /\ \A i \in 1..n : frames'[i] = below[i]
  <2>1. frames' = Append(below, r)
    BY <1>5, <1>6
  <2> HIDE DEF r, Frame
  <2> QED BY <1>2, <2>1, AppendProperties
<1>7. InProgress' = IF status' = "loading" THEN InProgress \cup {f} ELSE InProgress
  <2>1. CASE status' = "loading"
    <3>1. \A i \in 1..(n + 1) : frames'[i].file = IF i = n + 1 THEN f ELSE frames[i].file
      BY <1>2, <1>6, <2>1
    <3>2. 1..(n + 1) = 1..n \cup {n + 1}
      BY <1>2
    <3>3. InProgress' = {frames'[i].file : i \in 1..(n + 1)}
      BY <1>6, <2>1 DEF InProgress
    <3> HIDE DEF n
    <3>4. InProgress = {frames[i].file : i \in 1..n}
      BY DEF InProgress, n
    <3>5. n + 1 \notin 1..n
      BY <1>2
    <3>6. \A i \in 1..n : frames'[i].file = frames[i].file
      BY <3>1, <3>2, <3>5
    <3>7. frames'[n + 1].file = f
      BY <3>1, <3>2
    <3>8. InProgress' = {frames'[i].file : i \in 1..n} \cup {frames'[n + 1].file}
      BY <3>2, <3>3
    <3>9. {frames'[i].file : i \in 1..n} = {frames[i].file : i \in 1..n}
      BY <3>6
    <3>10. InProgress' = InProgress \cup {f}
      BY <3>4, <3>7, <3>8, <3>9
    <3> QED BY <2>1, <3>10
  <2>2. CASE status' # "loading"
    BY <1>5, <2>2 DEF InProgress
  <2> QED BY <2>1, <2>2
<1>8. TypeOK'
  <2>1. deps' \subseteq OnDisk \X OnDisk
    BY <1>2, <1>3 DEF IInv, TypeOK, Frame
  <2>2. frames' \in Seq(Frame)
    BY <1>2, <1>5, <1>6
  <2> QED BY <1>1, <1>5, <1>6, <2>1, <2>2 DEF IInv, TypeOK, Frame
<1>9. LoadedOnce'
  <2>1. f \notin Collected /\ f \notin InProgress /\ loaded = Collected \cup InProgress
    BY DEF IInv, LoadedOnce
  <2>2. \A i, j \in 1..Len(frames') : frames'[i].file = frames'[j].file => i = j
    <3>1. CASE status' = "loading"
      <4>1. \A i \in 1..(n + 1) : frames'[i].file = IF i = n + 1 THEN f ELSE frames[i].file
        BY <1>2, <1>6, <3>1
      <4>2. \A i \in 1..n : frames[i].file # f
        BY <2>1 DEF InProgress
      <4>3. \A i \in 1..(n + 1) : i = n + 1 \/ i \in 1..n
        BY <1>2
      <4>4. \A i, j \in 1..n : frames[i].file = frames[j].file => i = j
        BY DEF IInv, LoadedOnce
      <4>5. Len(frames') = n + 1
        BY <1>6, <3>1
      <4> HIDE DEF n
      <4> QED BY <4>1, <4>2, <4>3, <4>4, <4>5
    <3>2. CASE status' # "loading"
      BY <1>5, <3>2 DEF IInv, LoadedOnce
    <3> QED BY <3>1, <3>2
  <2>3. Collected' \cap InProgress' = {}
    BY <1>1, <1>7, <2>1 DEF IInv, LoadedOnce
  <2>4. status' # "failed" => loaded' = Collected' \cup InProgress'
    BY <1>1, <1>5, <1>7, <2>1
  <2>5. \A i, j \in 1..Len(declarations') : declarations'[i] = declarations'[j] => i = j
    BY <1>1 DEF IInv, LoadedOnce
  <2> QED BY <2>2, <2>3, <2>4, <2>5 DEF LoadedOnce
<1>10. Linked'
  <2> SUFFICES ASSUME NEW i \in 1..Len(frames'), NEW j \in 1..Len(frames'), j = i + 1
               PROVE  <<frames'[i].file, frames'[j].file>> \in deps'
    BY DEF Linked
  <2>1. CASE status' = "loading"
    <3>1. i \in 1..n /\ j \in 1..(n + 1) /\ Len(frames') = n + 1 /\ frames'[i].file = frames[i].file
      BY <1>2, <1>6, <2>1
    <3>2. CASE j = n + 1
      <4>1. i = n /\ n > 0 /\ frames'[j].file = f
        BY <1>2, <1>6, <2>1, <3>1, <3>2
      <4>2. status = "loading"
        BY <1>4, <4>1
      <4> QED BY <1>3, <3>1, <4>1, <4>2
    <3>3. CASE j # n + 1
      <4>1. j \in 1..n
        BY <1>2, <3>1, <3>3
      <4>2. frames'[j].file = frames[j].file
        BY <1>6, <2>1, <4>1
      <4> QED BY <3>1, <4>1, <4>2 DEF IInv, Linked
    <3> QED BY <3>2, <3>3
  <2>2. CASE status' # "loading"
    BY <1>5, <2>2 DEF IInv, Linked
  <2> QED BY <2>1, <2>2
<1>11. Rooted'
  BY <1>1, <1>5 DEF IInv, Rooted
<1>12. DepsLoaded'
  BY <1>1, <1>3 DEF IInv, DepsLoaded
<1>13. LoadedNeeded'
  <2> SUFFICES ASSUME NEW g \in loaded' PROVE Needs(project.entry, g)'
    BY DEF LoadedNeeded
  <2>1. CASE g \in loaded
    BY <1>1, <2>1, NeedsGrows DEF IInv, LoadedNeeded
  <2>2. CASE g = f /\ status = "start"
    BY <1>1, <2>2 DEF Needs
  <2>3. CASE g = f /\ status = "loading"
    <3>1. Needs(project.entry, Top.file) /\ <<Top.file, f>> \in deps'
      BY <1>3, <2>3 DEF IInv, LoadedNeeded
    <3> SUFFICES ASSUME NEW S \in SUBSET OnDisk', project'.entry \in S, UseClosed(S)'
                 PROVE  g \in S
      BY DEF Needs
    <3>2. UseClosed(S) /\ project.entry \in S /\ S \in SUBSET OnDisk
      BY <1>1 DEF UseClosed
    <3>3. Top.file \in S
      BY <3>1, <3>2 DEF Needs
    <3> QED BY <2>3, <3>1, <3>3 DEF UseClosed
  <2> QED BY <1>1, <2>1, <2>2, <2>3
<1>14. SoundSoFar'
  BY <1>1, <1>5, <1>7 DEF IInv, SoundSoFar
<1>15. UsesFollowed'
  <2>1. ASSUME NEW g \in Collected' PROVE Followed(g, Len(Uses(g)) + 1)'
    <3>1. Followed(g, Len(Uses(g)) + 1)
      BY <1>1 DEF IInv, UsesFollowed
    <3> QED BY <1>1, <3>1 DEF Followed, Uses, FoundOnDisk, OnDisk
  <2>2. ASSUME NEW k \in 1..Len(frames'), NEW g, NEW m, g = frames'[k].file, m = frames'[k].next
        PROVE  Followed(g, m)'
    <3>1. CASE status' = "loading"
      <4>1. CASE k = n + 1
        <5>1. \A i \in 1..Len(Uses(g)) : ~(i < 1)
          OBVIOUS
        <5>2. m = 1
          BY <1>6, <2>2, <3>1, <4>1
        <5> QED BY <1>1, <5>1, <5>2 DEF Followed, Uses
      <4>2. CASE k # n + 1
        <5>1. k \in 1..n
          BY <1>2, <1>6, <3>1, <4>2
        <5> QED BY <1>6, <2>2, <3>1, <5>1
      <4> QED BY <4>1, <4>2
    <3>2. CASE status' # "loading"
      <4>1. frames' = frames
        BY <1>5, <3>2
      <4>2. Followed(g, m)
        BY <2>2, <4>1 DEF IInv, UsesFollowed
      <4> QED BY <1>1, <4>2, FollowedGrows
    <3> QED BY <3>1, <3>2
  <2> QED BY <2>1, <2>2 DEF UsesFollowed
<1>16. DependenciesFirst'
  <2>1. status = "loading" => Top.file \notin Collected
    BY <1>3 DEF IInv, LoadedOnce
  <2>2. \A e \in deps' : e \in deps \/ e[1] \notin Collected
    BY <2>1
  <2> QED BY <1>1, <2>2, KeepsOrder DEF IInv
<1> QED BY <1>8, <1>9, <1>10, <1>11, <1>12, <1>13, <1>14, <1>15, <1>16 DEF IInv

\* The next use leads to a file loaded already or nowhere.
LEMMA AdvanceStep ==
  ASSUME IInv, AtUse, frames' = Advanced, deps \subseteq deps',
         Target # None => <<Top.file, Target>> \in deps',
         \A e \in deps' : e \in deps \/ (e = <<Top.file, Target>> /\ Target \in loaded),
         UNCHANGED <<project, loaded, registry, declarations, status>>
  PROVE  IInv'
<1> DEFINE n == Len(frames)
<1>1. /\ status = "loading" /\ TypeOK /\ Top = frames[n] /\ n \in 1..n
      /\ Top.file \in InProgress /\ Top.file \in loaded /\ Top.file \notin Collected
      /\ OnDisk' = OnDisk /\ Frame' = Frame /\ Collected' = Collected
  <2>1. status = "loading" /\ TypeOK /\ LoadedOnce
    BY DEF IInv, AtUse
  <2>2. Top = frames[n] /\ n \in 1..n
    BY <2>1, AtTop
  <2>3. Top.file \in InProgress
    BY <2>2 DEF InProgress
  <2>4. Top.file \in loaded /\ Top.file \notin Collected
    BY <2>1, <2>3 DEF LoadedOnce
  <2>5. OnDisk' = OnDisk /\ Frame' = Frame /\ Collected' = Collected
    BY DEF OnDisk, Frame, Collected
  <2> QED BY <2>1, <2>2, <2>3, <2>4, <2>5
<1>2. /\ frames' \in Seq(Frame) /\ Len(frames') = n /\ n \in Nat \ {0}
      /\ \A i \in 1..n : frames'[i].file = frames[i].file
  BY <1>1, AdvancedFrames, AtTop
<1>3. InProgress' = InProgress
  <2>1. {frames'[i].file : i \in 1..n} = {frames[i].file : i \in 1..n}
    BY <1>2
  <2> QED BY <1>2, <2>1 DEF InProgress
<1>4. TypeOK'
  <2>1. loaded \subseteq OnDisk /\ frames' # <<>>
    BY <1>1, <1>2, EmptySeq DEF TypeOK
  <2>2. deps' \subseteq OnDisk \X OnDisk
    BY <1>1, <2>1 DEF TypeOK
  <2> QED BY <1>1, <1>2, <2>1, <2>2 DEF TypeOK, Frame
<1>5. LoadedOnce'
  BY <1>1, <1>2, <1>3 DEF IInv, LoadedOnce
<1>6. Linked'
  BY <1>2 DEF IInv, Linked
<1>7. Rooted'
  BY <1>1 DEF IInv, Rooted
<1>8. DepsLoaded'
  BY <1>1 DEF IInv, DepsLoaded
<1>9. LoadedNeeded'
  BY NeedsGrows DEF IInv, LoadedNeeded
<1>10. SoundSoFar'
  BY <1>1, <1>3 DEF IInv, SoundSoFar
<1>11. UsesFollowed'
  <2>1. ASSUME NEW g \in Collected' PROVE Followed(g, Len(Uses(g)) + 1)'
    <3>1. Followed(g, Len(Uses(g)) + 1)
      BY <1>1 DEF IInv, UsesFollowed
    <3> QED BY <3>1 DEF Followed, Uses, FoundOnDisk, OnDisk
  <2>2. ASSUME NEW k \in 1..Len(frames'), NEW g, NEW m, g = frames'[k].file, m = frames'[k].next
        PROVE  Followed(g, m)'
    BY <1>2, <2>2, FollowedNext
  <2> QED BY <2>1, <2>2 DEF UsesFollowed
<1>12. DependenciesFirst'
  <2>1. \A e \in deps' : e \in deps \/ e[1] \notin Collected
    BY <1>1
  <2> QED BY <2>1, KeepsOrder DEF IInv
<1> QED BY <1>4, <1>5, <1>6, <1>7, <1>8, <1>9, <1>10, <1>11, <1>12 DEF IInv

\* The declarations of a file follow those of the files it depends on, save
\* those that are still being loaded further out and so depend on it.
LEMMA FinishStep ==
  ASSUME IInv, Finish
  PROVE  IInv'
<1> DEFINE n == Len(frames)
           f == Top.file
           m == Len(declarations)
<1>1. /\ status = "loading" /\ Top.next > Len(Uses(f))
      /\ declarations' = Append(declarations, f)
      /\ frames' = SubSeq(frames, 1, n - 1)
      /\ status' = IF n = 1 THEN "done" ELSE status
      /\ project' = project /\ loaded' = loaded /\ registry' = registry /\ deps' = deps
      /\ OnDisk' = OnDisk /\ Frame' = Frame
  BY DEF Finish, OnDisk, Frame
<1>2. /\ n \in Nat \ {0} /\ n \in 1..n /\ Top = frames[n] /\ f \in OnDisk /\ Top.next \in Nat
      /\ \A i \in 1..n : frames[i] \in Frame
      /\ f \in InProgress /\ f \notin Collected
  <2>1. TypeOK /\ LoadedOnce
    BY DEF IInv
  <2>2. /\ n \in Nat \ {0} /\ n \in 1..n /\ Top = frames[n] /\ Top \in Frame
        /\ \A i \in 1..n : frames[i] \in Frame
    BY <1>1, <2>1, AtTop
  <2>3. f \in InProgress
    BY <2>2 DEF InProgress
  <2> QED BY <2>1, <2>2, <2>3 DEF Frame, LoadedOnce
<1>3. /\ frames' \in Seq(Frame) /\ Len(frames') = n - 1
      /\ \A i \in 1..(n - 1) : frames'[i] = frames[i] /\ i \in 1..n
      /\ n # 1 => frames' # <<>>
  <2> HIDE DEF Frame
  <2>1. \A i \in 1..(n - 1) : i \in 1..n /\ frames[i] \in Frame
    BY <1>2
  <2>2. 1 \in Int /\ n - 1 \in Int
    BY <1>2
  <2> HIDE DEF n
  <2>3. /\ SubSeq(frames, 1, n - 1) \in Seq(Frame)
        /\ Len(SubSeq(frames, 1, n - 1)) = IF 1 <= n - 1 THEN n - 1 - 1 + 1 ELSE 0
        /\ \A i \in 1 .. n - 1 - 1 + 1 : SubSeq(frames, 1, n - 1)[i] = frames[1 + i - 1]
    BY <2>1, <2>2, SubSeqProperties
  <2>4. Len(frames') = n - 1
    BY <1>1, <1>2, <2>3
  <2>5. \A i \in 1..(n - 1) : frames'[i] = frames[i]
    BY <1>1, <1>2, <2>3
  <2>6. n # 1 => frames' # <<>>
    BY <1>2, <2>4, EmptySeq
  <2> QED BY <1>1, <2>1, <2>3, <2>4, <2>5, <2>6
<1>4. /\ declarations' \in Seq(OnDisk) /\ m \in Nat /\ Len(declarations') = m + 1
      /\ declarations'[m + 1] = f /\ \A i \in 1..m : declarations'[i] = declarations[i]
  <2>1. declarations \in Seq(OnDisk)
    BY DEF IInv, TypeOK
  <2> HIDE DEF f
  <2> QED BY <1>1, <1>2, <2>1, AppendProperties, LenProperties
<1>5. /\ Collected' = Collected \cup {f}
      /\ InProgress = InProgress' \cup {f} /\ f \notin InProgress'
  <2>1. Collected' = {declarations'[i] : i \in 1..m} \cup {declarations'[m + 1]}
    <3>1. 1..(m + 1) = 1..m \cup {m + 1}
      BY <1>4
    <3> QED BY <1>4, <3>1 DEF Collected
  <2>2. {declarations'[i] : i \in 1..m} = Collected
    BY <1>4 DEF Collected
  <2>3. InProgress = {frames[i].file : i \in 1..(n - 1)} \cup {frames[n].file}
    <3>1. 1..n = 1..(n - 1) \cup {n}
      BY <1>2
    <3> QED BY <3>1 DEF InProgress
  <2>4. InProgress' = {frames[i].file : i \in 1..(n - 1)}
    <3>1. {frames'[i].file : i \in 1..(n - 1)} = {frames[i].file : i \in 1..(n - 1)}
      BY <1>3
    <3> QED BY <1>3, <3>1 DEF InProgress
  <2>5. f \notin {frames[i].file : i \in 1..(n - 1)}
    <3> SUFFICES ASSUME NEW i \in 1..(n - 1), frames[i].file = f PROVE FALSE
      OBVIOUS
    <3>1. i \in 1..n /\ i # n
      BY <1>2
    <3> QED BY <1>2, <3>1 DEF IInv, LoadedOnce
  <2> QED BY <1>2, <1>4, <2>1, <2>2, <2>3, <2>4, <2>5
<1>6. TypeOK'
  BY <1>1, <1>3, <1>4 DEF IInv, TypeOK, Frame
<1>7. LoadedOnce'
  <2>1. \A i, j \in 1..Len(declarations') : declarations'[i] = declarations'[j] => i = j
    <3>1. \A i \in 1..m : declarations[i] # f
      BY <1>2 DEF Collected
    <3>2. \A i \in 1..(m + 1) : i = m + 1 \/ i \in 1..m
      BY <1>4
    <3>3. \A i, j \in 1..m : declarations[i] = declarations[j] => i = j
      BY DEF IInv, LoadedOnce
    <3> HIDE DEF m, f
    <3> QED BY <1>4, <3>1, <3>2, <3>3
  <2>2. \A i, j \in 1..Len(frames') : frames'[i].file = frames'[j].file => i = j
    BY <1>3 DEF IInv, LoadedOnce
  <2>3. Collected' \cap InProgress' = {} /\ loaded' = Collected' \cup InProgress'
    BY <1>1, <1>5 DEF IInv, LoadedOnce
  <2> QED BY <2>1, <2>2, <2>3 DEF LoadedOnce
<1>8. Linked'
  BY <1>1, <1>3 DEF IInv, Linked
<1>9. Rooted'
  <2>1. n = 1 => frames' = <<>>
    BY <1>1, SubSeqEmpty
  <2> QED BY <1>1, <2>1 DEF IInv, Rooted
<1>10. DepsLoaded'
  BY <1>1 DEF IInv, DepsLoaded
<1>11. LoadedNeeded'
  BY <1>1, NeedsGrows DEF IInv, LoadedNeeded
<1>12. SoundSoFar'
  BY <1>1, <1>2, <1>5 DEF IInv, SoundSoFar
<1>13. UsesFollowed'
  <2>1. ASSUME NEW g \in Collected' PROVE Followed(g, Len(Uses(g)) + 1)'
    <3>1. Followed(g, Len(Uses(g)) + 1)
      <4>1. CASE g \in Collected
        BY <4>1 DEF IInv, UsesFollowed
      <4>2. CASE g = f
        <5>1. Followed(f, Top.next)
          BY <1>2 DEF IInv, UsesFollowed
        <5>2. \A i \in 1..Len(Uses(f)) : i < Top.next
          <6>1. project \in Projects /\ f \in DOMAIN project.files
            BY <1>2 DEF IInv, TypeOK, OnDisk
          <6>2. Len(Uses(f)) \in Nat
            BY <6>1, UsesAreLists DEF Uses
          <6> QED BY <1>1, <1>2, <6>2
        <5> QED BY <4>2, <5>1, <5>2 DEF Followed
      <4> QED BY <1>5, <4>1, <4>2
    <3> QED BY <1>1, <3>1 DEF Followed, Uses, FoundOnDisk, OnDisk
  <2>2. ASSUME NEW k \in 1..Len(frames'), NEW g, NEW x, g = frames'[k].file, x = frames'[k].next
        PROVE  Followed(g, x)'
    <3>1. Followed(g, x)
      BY <1>3, <2>2 DEF IInv, UsesFollowed
    <3> QED BY <1>1, <3>1, FollowedGrows
  <2> QED BY <2>1, <2>2 DEF UsesFollowed
<1>14. DependenciesFirst'
  <2> SUFFICES ASSUME NEW i \in 1..(m + 1), NEW e \in deps, e[1] = declarations'[i]
               PROVE  Needs(e[2], e[1])' \/ \E j \in 1..(i - 1) : declarations'[j] = e[2]
    BY <1>1, <1>4 DEF DependenciesFirst
  <2>1. CASE i \in 1..m
    <3>1. Needs(e[2], e[1]) \/ \E j \in 1..(i - 1) : declarations[j] = e[2]
      BY <1>4, <2>1 DEF IInv, DependenciesFirst
    <3>2. \A j \in 1..(i - 1) : j \in 1..m
      BY <1>4, <2>1
    <3> QED BY <1>1, <1>4, <3>1, <3>2, NeedsGrows
  <2>2. CASE i = m + 1
    <3>1. e[1] = f /\ (e[2] \in Collected \/ e[2] \in InProgress)
      BY <1>1, <1>4, <2>2 DEF IInv, DepsLoaded, LoadedOnce
    <3>2. CASE e[2] \in Collected
      <4>1. PICK j \in 1..m : declarations[j] = e[2]
        BY <3>2 DEF Collected
      <4>2. j \in 1..(i - 1) /\ declarations'[j] = e[2]
        BY <1>4, <2>2, <4>1
      <4> QED BY <4>2
    <3>3. CASE e[2] \in InProgress
      <4>1. PICK k \in 1..n : frames[k].file = e[2]
        BY <3>3 DEF InProgress
      <4>2. Needs(e[2], e[1])
        BY <1>1, <3>1, <4>1, StackReaches DEF IInv
      <4> QED BY <1>1, <4>2, NeedsGrows
    <3> QED BY <3>1, <3>2, <3>3
  <2> QED BY <1>4, <2>1, <2>2
<1> QED BY <1>6, <1>7, <1>8, <1>9, <1>10, <1>11, <1>12, <1>13, <1>14 DEF IInv

-----------------------------------------------------------------------------
LEMMA Initially ==
  ASSUME Init
  PROVE  IInv
<1> USE DEF Init
<1>1. Collected = {} /\ InProgress = {} /\ Len(frames) = 0 /\ Len(declarations) = 0
  BY DEF Collected, InProgress
<1>2. TypeOK
  BY EmptySeq DEF TypeOK
<1>3. LoadedOnce /\ Linked /\ Rooted /\ SoundSoFar
  BY <1>1 DEF LoadedOnce, Linked, Rooted, SoundSoFar
<1>4. DepsLoaded /\ LoadedNeeded /\ UsesFollowed /\ DependenciesFirst
  BY <1>1 DEF DepsLoaded, LoadedNeeded, UsesFollowed, DependenciesFirst
<1> QED BY <1>2, <1>3, <1>4 DEF IInv

LEMMA Inductive ==
  ASSUME IInv, [Next]_vars
  PROVE  IInv'
<1>1. CASE Start
  <2>1. status = "start" /\ UNCHANGED deps /\ frames = <<>> /\ loaded = {} /\ deps = {}
    BY <1>1 DEF Start, IInv, Rooted
  <2>2. CASE project.entry \in OnDisk
    <3>1. Open(project.entry, frames)
      BY <1>1, <2>2 DEF Start
    <3>2. frames \in Seq(Frame) /\ Len(frames) = 0
      BY <2>1, EmptySeq
    <3>3. \A k \in 1..Len(frames) : FALSE
      BY <3>2
    <3> HIDE DEF Frame
    <3> QED BY <2>1, <2>2, <3>1, <3>2, <3>3, OpenStep
  <2>3. CASE project.entry \notin OnDisk
    <3>1. status' = "failed" /\ UNCHANGED <<project, frames, loaded, registry, declarations, deps>>
      BY <1>1, <2>3 DEF Start
    <3>2. Len(frames) = 0 /\ declarations = <<>> /\ Len(declarations) = 0
      BY <2>1, EmptySeq DEF IInv, Rooted
    <3>3. TypeOK'
      BY <3>1 DEF IInv, TypeOK, OnDisk
    <3>4. LoadedOnce' /\ Linked' /\ Rooted' /\ DepsLoaded' /\ LoadedNeeded'
      BY <2>1, <3>1, <3>2 DEF IInv, LoadedOnce, Linked, Rooted, DepsLoaded, LoadedNeeded, Collected, InProgress
    <3>5. SoundSoFar' /\ UsesFollowed' /\ DependenciesFirst'
      BY <2>1, <3>1, <3>2 DEF SoundSoFar, UsesFollowed, DependenciesFirst, Collected, InProgress
    <3> QED BY <3>3, <3>4, <3>5 DEF IInv
  <2> QED BY <2>2, <2>3
<1>2. CASE UseNewFile
  <2>1. /\ AtUse /\ Target # None /\ Target \notin loaded /\ Open(Target, Advanced)
        /\ deps' = deps \cup {<<Top.file, Target>>}
    BY <1>2 DEF UseNewFile, Depend
  <2>2. TypeOK /\ status = "loading" /\ project' = project
    BY <2>1 DEF IInv, AtUse, Open
  <2>3. Target \in OnDisk
    BY <2>1, <2>2, TargetOnDisk
  <2>4. /\ Advanced \in Seq(Frame) /\ Len(Advanced) = Len(frames)
        /\ \A i \in 1..Len(frames) : Advanced[i].file = frames[i].file
    BY <2>2, AdvancedFrames
  <2>5. \A k \in 1..Len(frames) : \A g, n :
          g = Advanced[k].file /\ n = Advanced[k].next => Followed(g, n)'
    BY <2>1, <2>2, FollowedNext
  <2> QED BY <2>1, <2>2, <2>3, <2>4, <2>5, OpenStep
<1>3. CASE UseLoadedFile
  <2>1. /\ AtUse /\ Target \in loaded /\ frames' = Advanced
        /\ deps' = deps \cup {<<Top.file, Target>>}
        /\ UNCHANGED <<project, loaded, registry, declarations, status>>
    BY <1>3 DEF UseLoadedFile, Depend
  <2> QED BY <2>1, AdvanceStep
<1>4. CASE UseUnresolved
  <2>1. /\ AtUse /\ Target = None /\ frames' = Advanced /\ deps' = deps
        /\ UNCHANGED <<project, loaded, registry, declarations, status>>
    BY <1>4 DEF UseUnresolved
  <2> QED BY <2>1, AdvanceStep
<1>5. CASE Finish
  BY <1>5, FinishStep
<1>6. CASE UNCHANGED vars
  <2> USE <1>6 DEF vars
  <2>1. TypeOK' /\ LoadedOnce' /\ Linked' /\ Rooted' /\ DepsLoaded' /\ SoundSoFar'
    <3>1. OnDisk' = OnDisk /\ Collected' = Collected /\ InProgress' = InProgress
      BY DEF OnDisk, Collected, InProgress
    <3>2. TypeOK'
      BY <3>1 DEF IInv, TypeOK
    <3>3. LoadedOnce' /\ SoundSoFar'
      BY <3>1 DEF IInv, LoadedOnce, SoundSoFar
    <3>4. Linked' /\ Rooted' /\ DepsLoaded'
      BY DEF IInv, Linked, Rooted, DepsLoaded
    <3> QED BY <3>2, <3>3, <3>4
  <2>2. LoadedNeeded' /\ DependenciesFirst'
    BY NeedsGrows DEF IInv, LoadedNeeded, DependenciesFirst
  <2>3. \A f, n : Followed(f, n) => Followed(f, n)'
    BY FollowedGrows
  <2>4. UsesFollowed'
    <3>1. Collected' = Collected /\ frames' = frames /\ \A f : Uses(f)' = Uses(f)
      BY DEF Collected, Uses
    <3> QED BY <2>3, <3>1 DEF IInv, UsesFollowed
  <2> QED BY <2>1, <2>2, <2>4 DEF IInv
<1> QED BY <1>1, <1>2, <1>3, <1>4, <1>5, <1>6 DEF Next, Ended

LEMMA Invariant == Spec => []IInv
BY Initially, Inductive, PTL DEF Spec

\* The variables keep their types.
THEOREM TypeCorrect == Spec => []TypeOK
<1>1. IInv => TypeOK
  BY DEF IInv
<1> QED BY Invariant, <1>1, PTL

\* No file's declarations are taken twice, whatever the uses (loader.rs:53-57).
THEOREM EachFileOnce == Spec => []LoadedOnce
<1>1. IInv => LoadedOnce
  BY DEF IInv
<1> QED BY Invariant, <1>1, PTL

\* A file's declarations come after those of the files it uses, save where the
\* uses form a cycle (loader.rs:31, 85-102).
THEOREM InDependencyOrder == Spec => []DependenciesFirst
<1>1. IInv => DependenciesFirst
  BY DEF IInv
<1> QED BY Invariant, <1>1, PTL

\* The program is the entry file and exactly what it needs (loader.rs:85-91).
THEOREM WholeProgramLoaded == Spec => []LoadedAllNeeded
<1>1. IInv => LoadedAllNeeded
  <2> SUFFICES ASSUME IInv, status = "done" PROVE LoadedAllNeeded
    BY DEF LoadedAllNeeded
  <2>1. frames = <<>> /\ InProgress = {} /\ loaded = Collected /\ project.entry \in loaded
    <3>1. frames = <<>> /\ Len(frames) = 0 /\ project.entry \in loaded
      BY EmptySeq DEF IInv, Rooted
    <3>2. InProgress = {}
      BY <3>1 DEF InProgress
    <3> QED BY <3>1, <3>2 DEF IInv, LoadedOnce
  <2>2. Collected = {f \in OnDisk : Needs(project.entry, f)}
    <3>1. loaded \subseteq OnDisk /\ \A f \in loaded : Needs(project.entry, f)
      BY DEF IInv, TypeOK, LoadedNeeded
    <3>2. UseClosed(loaded)
      BY DEF IInv, DepsLoaded, UseClosed
    <3>3. \A f : Needs(project.entry, f) => f \in loaded
      BY <2>1, <3>1, <3>2 DEF Needs
    <3> QED BY <2>1, <3>1, <3>3
  <2>3. \A f \in Collected : project.files[f].sound
    BY DEF IInv, SoundSoFar
  <2>4. \A f \in Collected : \A i \in 1..Len(Uses(f)) :
          Uses(f)[i] # <<>> /\ FoundOnDisk(Uses(f)[i], f) # None
            => <<f, FoundOnDisk(Uses(f)[i], f)>> \in deps
    <3> SUFFICES ASSUME NEW f \in Collected, NEW i \in 1..Len(Uses(f)),
                        Uses(f)[i] # <<>>, FoundOnDisk(Uses(f)[i], f) # None
                 PROVE  <<f, FoundOnDisk(Uses(f)[i], f)>> \in deps
      OBVIOUS
    <3>1. Followed(f, Len(Uses(f)) + 1)
      BY DEF IInv, UsesFollowed
    <3>2. i < Len(Uses(f)) + 1
      <4>1. f \in loaded /\ loaded \subseteq DOMAIN project.files /\ project \in Projects
        BY <2>1 DEF IInv, TypeOK, OnDisk
      <4>2. Len(Uses(f)) \in Nat
        BY <4>1, UsesAreLists DEF Uses
      <4> QED BY <4>2
    <3> QED BY <3>1, <3>2 DEF Followed
  <2> QED BY <2>2, <2>3, <2>4 DEF LoadedAllNeeded
<1> QED BY Invariant, <1>1, PTL
=============================================================================
