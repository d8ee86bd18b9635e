------------------------------ MODULE IndentProofs ------------------------------
(***************************************************************************)
(* Proofs about module Indent, for every set of sources: the blocks open   *)
(* are those of the off-side rule, the tokens balance, and a source is     *)
(* refused only for a line that fits nowhere.                              *)
(***************************************************************************)
EXTENDS Indent, SequenceTheorems, FiniteSetTheorems, WellFoundedInduction, TLAPS

Tokens == {INDENT, DEDENT} \cup {Text(i) : i \in 1..Len(source)}
OpenBlocks == {indent_stack[i] : i \in DOMAIN indent_stack}

-----------------------------------------------------------------------------
(* Counting tokens.                                                        *)

\* The positions up to n, and those after n up to m, that hold a token, and
\* Depth in any sequence of tokens.
Held(s, token, n) == {i \in 1..n : s[i] = token}
HeldAfter(s, token, n, m) == {i \in (n + 1)..m : s[i] = token}
DepthOf(s, n) == Cardinality(Held(s, INDENT, n)) - Cardinality(Held(s, DEDENT, n))

LEMMA TokensDiffer ==
  /\ INDENT # DEDENT
  /\ \A i : Text(i) # INDENT /\ Text(i) # DEDENT
BY DEF INDENT, DEDENT, Text

\* The positions that hold a token can be counted.
LEMMA CountsAreNumbers ==
  ASSUME NEW s, NEW token, NEW n \in Nat
  PROVE  IsFiniteSet(Held(s, token, n)) /\ Cardinality(Held(s, token, n)) \in Nat
<1>1. IsFiniteSet(1..n) /\ Held(s, token, n) \in SUBSET (1..n)
  BY FS_Interval DEF Held
<1>2. IsFiniteSet(Held(s, token, n))
  BY <1>1, FS_Subset
<1> QED BY <1>2, FS_CardinalityType

\* Counting on past position n.
LEMMA CountExtends ==
  ASSUME NEW s, NEW t, NEW token, NEW n \in Nat, NEW m \in Nat, n <= m,
         \A i \in 1..n : t[i] = s[i]
  PROVE  Cardinality(Held(t, token, m)) =
           Cardinality(Held(s, token, n)) + Cardinality(HeldAfter(t, token, n, m))
<1> DEFINE A == Held(s, token, n)
           B == HeldAfter(t, token, n, m)
           C == Held(t, token, m)
<1>1. C = A \cup B /\ A \cap B = {}
  <2>1. 1..m = 1..n \cup (n + 1)..m /\ 1..n \cap (n + 1)..m = {}
    OBVIOUS
  <2> QED BY <2>1 DEF Held, HeldAfter
<1>2. IsFiniteSet(A) /\ Cardinality(A) \in Nat
  BY CountsAreNumbers
<1>3. IsFiniteSet(B) /\ Cardinality(B) \in Nat
  <2>1. IsFiniteSet((n + 1)..m) /\ B \in SUBSET ((n + 1)..m)
    <3>1. n + 1 \in Int /\ m \in Int
      OBVIOUS
    <3>2. IsFiniteSet((n + 1)..m)
      BY <3>1, FS_Interval
    <3>3. B \in SUBSET ((n + 1)..m)
      BY DEF HeldAfter
    <3> QED BY <3>2, <3>3
  <2> HIDE DEF B
  <2>2. IsFiniteSet(B)
    BY <2>1, FS_Subset
  <2> QED BY <2>2, FS_CardinalityType
<1> HIDE DEF A, B, C
<1>4. Cardinality(C) = Cardinality(A) + Cardinality(B) - Cardinality(A \cap B)
  BY <1>1, <1>2, <1>3, FS_Union
<1>5. Cardinality(A \cap B) = 0
  BY <1>1, FS_EmptySet
<1>6. Cardinality(C) = Cardinality(A) + Cardinality(B)
  BY <1>2, <1>3, <1>4, <1>5
<1> QED BY <1>6 DEF A, B, C

LEMMA DepthIsInt ==
  ASSUME NEW s, NEW n \in Nat
  PROVE  DepthOf(s, n) \in Int
<1>1. Cardinality(Held(s, INDENT, n)) \in Nat /\ Cardinality(Held(s, DEDENT, n)) \in Nat
  BY CountsAreNumbers
<1> QED BY <1>1 DEF DepthOf

\* The depth changes by what is put after position n.
LEMMA DepthExtends ==
  ASSUME NEW s, NEW t, NEW n \in Nat, NEW m \in Nat, n <= m,
         \A i \in 1..n : t[i] = s[i]
  PROVE  /\ DepthOf(s, n) \in Int
         /\ Cardinality(HeldAfter(t, INDENT, n, m)) \in Nat
            /\ Cardinality(HeldAfter(t, DEDENT, n, m)) \in Nat
            => DepthOf(t, m) = DepthOf(s, n) + Cardinality(HeldAfter(t, INDENT, n, m))
                                 - Cardinality(HeldAfter(t, DEDENT, n, m))
<1>1. ASSUME NEW token
      PROVE  Cardinality(Held(t, token, m)) =
               Cardinality(Held(s, token, n)) + Cardinality(HeldAfter(t, token, n, m))
  BY CountExtends
<1>2. Cardinality(Held(s, INDENT, n)) \in Nat /\ Cardinality(Held(s, DEDENT, n)) \in Nat
  BY CountsAreNumbers
<1> QED BY <1>1, <1>2 DEF DepthOf

\* Tokens that neither open nor close leave the depth as it was.
LEMMA DepthFlat ==
  ASSUME NEW s, NEW t, NEW n \in Nat, NEW m \in Nat, n <= m,
         \A i \in 1..n : t[i] = s[i],
         \A i \in (n + 1)..m : t[i] # INDENT /\ t[i] # DEDENT
  PROVE  DepthOf(t, m) = DepthOf(s, n)
<1>1. HeldAfter(t, INDENT, n, m) = {} /\ HeldAfter(t, DEDENT, n, m) = {}
  BY DEF HeldAfter
<1>2. /\ Cardinality(HeldAfter(t, INDENT, n, m)) = 0
      /\ Cardinality(HeldAfter(t, DEDENT, n, m)) = 0
  BY <1>1, FS_EmptySet
<1> QED BY <1>2, DepthExtends

\* An INDENT makes it one more.
LEMMA DepthDeeper ==
  ASSUME NEW s, NEW n \in Nat, s[n + 1] = INDENT
  PROVE  DepthOf(s, n + 1) = DepthOf(s, n) + 1
<1>1. HeldAfter(s, INDENT, n, n + 1) = {n + 1} /\ HeldAfter(s, DEDENT, n, n + 1) = {}
  BY TokensDiffer DEF HeldAfter
<1>2. /\ Cardinality(HeldAfter(s, INDENT, n, n + 1)) = 1
      /\ Cardinality(HeldAfter(s, DEDENT, n, n + 1)) = 0
  BY <1>1, FS_EmptySet, FS_Singleton
<1>3. n + 1 \in Nat /\ n <= n + 1
  OBVIOUS
<1> QED BY <1>2, <1>3, DepthExtends

\* DEDENTs make it as many less.
LEMMA DepthShallower ==
  ASSUME NEW s, NEW t, NEW n \in Nat, NEW m \in Nat, n <= m,
         \A i \in 1..n : t[i] = s[i],
         \A i \in (n + 1)..m : t[i] = DEDENT
  PROVE  DepthOf(t, m) = DepthOf(s, n) - (m - n)
<1>1. HeldAfter(t, INDENT, n, m) = {} /\ HeldAfter(t, DEDENT, n, m) = (n + 1)..m
  BY TokensDiffer DEF HeldAfter
<1>2. Cardinality((n + 1)..m) = m - n
  <2>1. n + 1 \in Int /\ m \in Int
    OBVIOUS
  <2>2. Cardinality((n + 1)..m) = IF n + 1 > m THEN 0 ELSE m - (n + 1) + 1
    BY <2>1, FS_Interval
  <2> QED BY <2>2
<1>3. /\ Cardinality(HeldAfter(t, INDENT, n, m)) = 0
      /\ Cardinality(HeldAfter(t, DEDENT, n, m)) = m - n /\ m - n \in Nat
  BY <1>1, <1>2, FS_EmptySet
<1> QED BY <1>3, DepthExtends

\* The sequence t is s up to n, then k DEDENTs and at most one line, up to m.
ClosedBy(s, t, n, k, m) ==
  /\ n \in Nat /\ k \in Nat /\ m \in {n + k, n + k + 1}
  /\ \A i \in 1..n : t[i] = s[i]
  /\ \A i \in (n + 1)..(n + k) : t[i] = DEDENT
  /\ m = n + k + 1 => t[m] # INDENT /\ t[m] # DEDENT
  /\ k <= DepthOf(s, n) /\ \A i \in 1..n : DepthOf(s, i) >= 0

\* DEDENTs, and the line after them, close as many blocks.
LEMMA DedentsThenLine ==
  ASSUME NEW s, NEW t, NEW n, NEW k, NEW m, ClosedBy(s, t, n, k, m)
  PROVE  DepthOf(t, m) = DepthOf(s, n) - k /\ \A i \in 1..m : DepthOf(t, i) >= 0
<1> USE DEF ClosedBy
<1>1. \A i \in 1..n : DepthOf(t, i) >= 0
  <2> SUFFICES ASSUME NEW i \in 1..n PROVE DepthOf(t, i) >= 0
    OBVIOUS
  <2>1. i \in Nat /\ \A j \in 1..i : t[j] = s[j]
    OBVIOUS
  <2>2. \A j \in (i + 1)..i : t[j] # INDENT /\ t[j] # DEDENT
    OBVIOUS
  <2>3. DepthOf(t, i) = DepthOf(s, i)
    BY <2>1, <2>2, DepthFlat
  <2> QED BY <2>3
<1>2. ASSUME NEW i \in (n + 1)..(n + k) PROVE DepthOf(t, i) >= 0
  <2>1. i \in Nat /\ n <= i /\ \A j \in (n + 1)..i : t[j] = DEDENT
    OBVIOUS
  <2>2. DepthOf(t, i) = DepthOf(s, n) - (i - n)
    BY <2>1, DepthShallower
  <2>3. DepthOf(s, n) \in Int
    BY DepthIsInt
  <2> QED BY <2>1, <2>2, <2>3
<1>3. DepthOf(t, n + k) = DepthOf(s, n) - k
  <2> DEFINE q == n + k
  <2>1. /\ n \in Nat /\ q \in Nat /\ n <= q /\ q - n = k
        /\ \A i \in 1..n : t[i] = s[i]
        /\ \A i \in (n + 1)..q : t[i] = DEDENT
    OBVIOUS
  <2> HIDE DEF q, ClosedBy
  <2>2. DepthOf(t, q) = DepthOf(s, n) - (q - n)
    BY <2>1, DepthShallower
  <2> QED BY <2>1, <2>2 DEF q
<1>4. DepthOf(s, n) \in Int /\ DepthOf(t, n + k) >= 0
  <2>1. DepthOf(s, n) \in Int
    BY DepthIsInt
  <2> QED BY <1>3, <2>1
<1>5. m = n + k + 1 => DepthOf(t, m) = DepthOf(t, n + k)
  <2> SUFFICES ASSUME m = n + k + 1 PROVE DepthOf(t, m) = DepthOf(t, n + k)
    OBVIOUS
  <2>1. /\ n + k \in Nat /\ m \in Nat /\ n + k <= m
        /\ \A i \in ((n + k) + 1)..m : i = m
    OBVIOUS
  <2>2. \A i \in ((n + k) + 1)..m : t[i] # INDENT /\ t[i] # DEDENT
    BY <2>1
  <2> DEFINE q == n + k
  <2>3. /\ q \in Nat /\ m \in Nat /\ q <= m /\ \A i \in 1..q : t[i] = t[i]
        /\ \A i \in (q + 1)..m : t[i] # INDENT /\ t[i] # DEDENT
    BY <2>1, <2>2
  <2> HIDE DEF q
  <2>4. DepthOf(t, m) = DepthOf(t, q)
    BY <2>3, DepthFlat
  <2> QED BY <2>4 DEF q
<1>6. \A i \in 1..m : i \in 1..n \/ i \in (n + 1)..(n + k) \/ (i = m /\ m = n + k + 1)
  OBVIOUS
<1> QED BY <1>1, <1>2, <1>3, <1>4, <1>5, <1>6

\* An INDENT and the line after it open one.
LEMMA IndentThenLine ==
  ASSUME NEW s, NEW t, NEW n \in Nat,
         \A i \in 1..n : t[i] = s[i],
         t[n + 1] = INDENT, t[n + 2] # INDENT, t[n + 2] # DEDENT,
         DepthOf(s, n) >= 0, \A i \in 1..n : DepthOf(s, i) >= 0
  PROVE  DepthOf(t, n + 2) = DepthOf(s, n) + 1 /\ \A i \in 1..(n + 2) : DepthOf(t, i) >= 0
<1>1. \A i \in 0..n : DepthOf(t, i) = DepthOf(s, i)
  <2> SUFFICES ASSUME NEW i \in 0..n PROVE DepthOf(t, i) = DepthOf(s, i)
    OBVIOUS
  <2>1. /\ i \in Nat /\ \A j \in 1..i : t[j] = s[j]
        /\ \A j \in (i + 1)..i : t[j] # INDENT /\ t[j] # DEDENT
    OBVIOUS
  <2> QED BY <2>1, DepthFlat
<1>2. DepthOf(t, n) = DepthOf(s, n) /\ DepthOf(s, n) \in Int
  BY <1>1, DepthIsInt
<1>3. DepthOf(t, n + 1) = DepthOf(t, n) + 1
  BY DepthDeeper
<1>4. DepthOf(t, n + 2) = DepthOf(t, n + 1)
  <2>1. /\ n + 1 \in Nat /\ n + 2 \in Nat /\ n + 1 <= n + 2
        /\ \A i \in ((n + 1) + 1)..(n + 2) : t[i] # INDENT /\ t[i] # DEDENT
    OBVIOUS
  <2> QED BY <2>1, DepthFlat
<1>5. \A i \in 1..(n + 2) : i \in 1..n \/ i = n + 1 \/ i = n + 2
  OBVIOUS
<1>6. \A i \in 1..n : i \in 0..n
  OBVIOUS
<1> QED BY <1>1, <1>2, <1>3, <1>4, <1>5, <1>6

-----------------------------------------------------------------------------
(* The inductive invariant and the stack.                                  *)

IInv ==
  /\ TypeOK
  /\ Nested
  /\ Bracketed
  /\ OffSide
  /\ OnlyMisfitsRefused

\* Depth is DepthOf the result.
LEMMA DepthIsDepthOf ==
  /\ \A n : Depth(n) = DepthOf(result, n)
  /\ \A n : Depth(n)' = DepthOf(result', n)
BY DEF Depth, Count, DepthOf, Held

\* Bracketed, after a step, in terms of DepthOf.
LEMMA DepthPrimed ==
  ASSUME \A i \in 1..Len(result') : DepthOf(result', i) >= 0,
         DepthOf(result', Len(result')) = Len(indent_stack') - 1,
         status' = "done" => Len(indent_stack') = 1
  PROVE  Bracketed'
<1>1. Depth(Len(result))' = DepthOf(result', Len(result'))
  BY DEF Depth, Count, DepthOf, Held
<1>2. \A i \in 1..Len(result') : Depth(i)' >= 0
  BY DEF Depth, Count, DepthOf, Held
<1> QED BY <1>1, <1>2 DEF Bracketed

\* The stack is never empty, and its last block is the deepest.
LEMMA LevelIsDeepest ==
  ASSUME TypeOK, Nested
  PROVE  /\ Len(indent_stack) \in Nat \ {0} /\ DOMAIN indent_stack = 1..Len(indent_stack)
         /\ Level = indent_stack[Len(indent_stack)] /\ Level \in Nat
         /\ \A i \in 1..Len(indent_stack) : indent_stack[i] \in Nat /\ indent_stack[i] <= Level
<1>1. /\ Len(indent_stack) \in Nat \ {0} /\ DOMAIN indent_stack = 1..Len(indent_stack)
      /\ \A i \in 1..Len(indent_stack) : indent_stack[i] \in Nat
  BY EmptySeq, LenProperties, ElementOfSeq DEF TypeOK
<1> DEFINE n == Len(indent_stack)
<1>2. n \in 1..n /\ \A i \in 1..n : i = n \/ i < n
  <2>1. n \in Nat \ {0}
    BY <1>1
  <2> HIDE DEF n
  <2> QED BY <2>1
<1>3. Level = indent_stack[n] /\ Level \in Nat
  BY <1>1, <1>2 DEF Level
<1>4. ASSUME NEW i \in 1..n PROVE indent_stack[i] <= Level
  <2>1. indent_stack[i] \in Nat
    BY <1>1
  <2>2. CASE i = n
    BY <1>3, <2>2
  <2>3. CASE i < n
    <3>1. indent_stack[i] < indent_stack[n]
      BY <1>2, <2>3 DEF Nested
    <3> QED BY <1>3, <2>1, <3>1
  <2> QED BY <1>2, <2>2, <2>3
<1> QED BY <1>1, <1>3, <1>4

\* The line to read is indented by a number of bytes.
LEMMA SpacesNat ==
  ASSUME TypeOK, AtLine
  PROVE  Spaces \in Nat /\ line \in 1..Len(source) /\ Len(source) \in Nat /\ Laid(line)
<1>1. source \in Seq(Nat \cup {Skipped})
  BY SourcesWellFormed DEF TypeOK
<1>2. Len(source) \in Nat
  BY <1>1, LenProperties
<1>3. line \in 1..Len(source)
  BY <1>2 DEF TypeOK, AtLine
<1> QED BY <1>1, <1>2, <1>3, ElementOfSeq DEF AtLine, Laid, Spaces

\* Popping the blocks deeper than the line leaves the first Kept of them.
LEMMA KeptIsPrefix ==
  ASSUME TypeOK, Nested, AtLine
  PROVE  /\ Kept \in 1..Len(indent_stack)
         /\ \A i \in 1..Len(indent_stack) : indent_stack[i] <= Spaces <=> i <= Kept
<1> DEFINE n == Len(indent_stack)
           Shallow == {i \in 0..(n - 1) : indent_stack[n - i] <= Spaces}
<1>1. /\ n \in Nat \ {0} /\ DOMAIN indent_stack = 1..n
      /\ \A i \in 1..n : indent_stack[i] \in Nat
  BY LevelIsDeepest
<1>2. Spaces \in Nat /\ indent_stack[1] = 0
  BY SpacesNat DEF Nested
<1>3. n - 1 \in Shallow /\ Shallow \subseteq Nat
  <2>1. n - 1 \in 0..(n - 1) /\ n - (n - 1) = 1
    BY <1>1
  <2>2. indent_stack[n - (n - 1)] <= Spaces
    BY <1>2, <2>1
  <2> QED BY <1>1, <2>1, <2>2
<1>4. PICK k \in Shallow : \A m \in Shallow : ~(<<m, k>> \in OpToRel(<, Nat))
  BY <1>3, WFMin, NatLessThanWellFounded
<1>5. \A m \in Shallow : ~(m < k)
  BY <1>3, <1>4 DEF OpToRel
<1>6. n - k \in 1..n /\ indent_stack[n - k] <= Spaces
  BY <1>1
<1>7. \A i \in ((n - k) + 1)..n : indent_stack[i] > Spaces
  <2> SUFFICES ASSUME NEW i \in ((n - k) + 1)..n, ~(indent_stack[i] > Spaces) PROVE FALSE
    OBVIOUS
  <2>1. k \in 0..(n - 1)
    OBVIOUS
  <2>2. i \in 1..n /\ n - i \in 0..(n - 1) /\ n - i < k /\ n - (n - i) = i
    BY <1>1, <2>1
  <2>3. indent_stack[n - (n - i)] <= Spaces
    BY <1>1, <1>2, <2>2
  <2>4. n - i \in Shallow
    BY <2>2, <2>3
  <2> QED BY <1>5, <2>2, <2>4
<1>8. \E m \in DOMAIN indent_stack :
        indent_stack[m] <= Spaces /\ \A i \in (m + 1)..n : indent_stack[i] > Spaces
  BY <1>1, <1>6, <1>7
<1>9. /\ Kept \in DOMAIN indent_stack /\ indent_stack[Kept] <= Spaces
      /\ \A i \in (Kept + 1)..n : indent_stack[i] > Spaces
  BY <1>8 DEF Kept
<1>10. ASSUME NEW i \in 1..n PROVE indent_stack[i] <= Spaces <=> i <= Kept
  <2>1. Kept \in 1..n /\ indent_stack[Kept] \in Nat /\ indent_stack[i] \in Nat
    BY <1>1, <1>9
  <2>2. CASE i < Kept
    <3>1. indent_stack[i] < indent_stack[Kept]
      BY <2>1, <2>2 DEF Nested
    <3> QED BY <1>2, <1>9, <2>1, <2>2, <3>1
  <2>3. CASE i = Kept
    BY <1>9, <2>1, <2>3
  <2>4. CASE i > Kept
    <3>1. i \in (Kept + 1)..n
      BY <2>1, <2>4
    <3>2. indent_stack[i] > Spaces
      BY <1>9, <3>1
    <3> QED BY <1>2, <2>1, <2>4, <3>2
  <2> QED BY <2>1, <2>2, <2>3, <2>4
<1> QED BY <1>1, <1>9, <1>10

\* A line laid out closes the columns not less than its own and opens its own.
LEMMA OpenColumnsAfterLine ==
  ASSUME TypeOK, AtLine
  PROVE  OpenColumns(line) = {0} \cup {c \in OpenColumns(line - 1) : c < Spaces} \cup {Spaces}
<1> DEFINE Before == {j \in 1..(line - 1) : OpenAfter(j, line - 1)}
           Now == {j \in 1..line : OpenAfter(j, line)}
<1>1. /\ Spaces \in Nat /\ line \in Nat \ {0} /\ Laid(line)
      /\ \A i \in 1..line : source[i] \in Nat \cup {Skipped}
  <2>1. Spaces \in Nat /\ line \in 1..Len(source) /\ Len(source) \in Nat /\ Laid(line)
    BY SpacesNat
  <2>2. source \in Seq(Nat \cup {Skipped})
    BY SourcesWellFormed DEF TypeOK
  <2>3. \A i \in 1..line : i \in 1..Len(source)
    BY <2>1
  <2> QED BY <2>1, <2>2, <2>3, ElementOfSeq
<1>2. line \in Now
  BY <1>1 DEF OpenAfter
<1>3. ASSUME NEW i \in 1..(line - 1)
      PROVE  i \in Now <=> i \in Before /\ source[i] < Spaces
  <2>1. i \in 1..line /\ (i + 1)..line = ((i + 1)..(line - 1)) \cup {line}
    BY <1>1
  <2>2. OpenAfter(i, line) <=> OpenAfter(i, line - 1) /\ source[line] > source[i]
    BY <1>1, <2>1 DEF OpenAfter
  <2>3. source[line] > source[i] <=> source[i] < Spaces
    BY <1>1, <2>1 DEF Spaces, Skipped
  <2> QED BY <2>1, <2>2, <2>3
<1>4. \A i \in 1..line : i = line \/ i \in 1..(line - 1)
  BY <1>1
<1>5. 0 < Spaces \/ Spaces = 0
  BY <1>1
<1> DEFINE Cols(S) == {source[i] : i \in S}
<1>6. Cols(Now) = {c \in Cols(Before) : c < Spaces} \cup {Spaces}
  <2>1. Cols(Now) \subseteq {c \in Cols(Before) : c < Spaces} \cup {Spaces}
    <3> SUFFICES ASSUME NEW i \in Now
                 PROVE  source[i] \in {c \in Cols(Before) : c < Spaces} \cup {Spaces}
      OBVIOUS
    <3>1. CASE i = line
      BY <3>1 DEF Spaces
    <3>2. CASE i \in 1..(line - 1)
      <4>1. i \in Before /\ source[i] < Spaces
        BY <1>3, <3>2
      <4> HIDE DEF Before
      <4> QED BY <4>1
    <3> QED BY <1>4, <3>1, <3>2
  <2>2. {c \in Cols(Before) : c < Spaces} \subseteq Cols(Now)
    <3> SUFFICES ASSUME NEW i \in Before, source[i] < Spaces PROVE i \in Now
      OBVIOUS
    <3> QED BY <1>3
  <2>3. Spaces \in Cols(Now)
    BY <1>2 DEF Spaces
  <2> HIDE DEF Cols
  <2> QED BY <2>1, <2>2, <2>3
<1>7. OpenColumns(line) = {0} \cup Cols(Now) /\ OpenColumns(line - 1) = {0} \cup Cols(Before)
  BY DEF OpenColumns
<1> HIDE DEF Cols, Now, Before
<1> QED BY <1>5, <1>6, <1>7

\* A line skipped changes no column.
LEMMA OpenColumnsAfterSkip ==
  ASSUME TypeOK, line <= Len(source), Spaces = Skipped
  PROVE  OpenColumns(line) = OpenColumns(line - 1)
<1>1. line \in Nat \ {0}
  BY LenProperties, SourcesWellFormed DEF TypeOK
<1>2. ~Laid(line)
  BY DEF Laid, Spaces
<1>3. ASSUME NEW i
      PROVE  OpenAfter(i, line) <=> OpenAfter(i, line - 1)
  <2>1. CASE i \in 1..(line - 1)
    <3>1. i \in 1..line /\ (i + 1)..line = ((i + 1)..(line - 1)) \cup {line}
      BY <1>1, <2>1
    <3> QED BY <1>2, <2>1, <3>1 DEF OpenAfter
  <2>2. CASE i \notin 1..(line - 1)
    <3>1. i \in 1..line => i = line
      BY <1>1, <2>2
    <3> QED BY <1>2, <2>2, <3>1 DEF OpenAfter
  <2> QED BY <2>1, <2>2
<1>4. {j \in 1..line : OpenAfter(j, line)} = {j \in 1..(line - 1) : OpenAfter(j, line - 1)}
  <2>1. \A j : OpenAfter(j, line) => j \in 1..line
    BY DEF OpenAfter
  <2>2. \A j : OpenAfter(j, line - 1) => j \in 1..(line - 1)
    BY DEF OpenAfter
  <2> QED BY <1>3, <2>1, <2>2
<1> QED BY <1>4 DEF OpenColumns

-----------------------------------------------------------------------------
(* The tokens put after the result.                                        *)

\* DEDENTs after the result.
LEMMA DedentsAppended ==
  ASSUME TypeOK, NEW k \in Nat
  PROVE  LET r == result \o Dedents(k)
         IN  /\ r \in Seq(Tokens) /\ Len(r) = Len(result) + k /\ Len(result) \in Nat
             /\ \A i \in 1..Len(result) : r[i] = result[i]
             /\ \A i \in (Len(result) + 1)..(Len(result) + k) : r[i] = DEDENT
<1> DEFINE D == Dedents(k)
           n == Len(result)
<1>1. D \in [1..k -> Tokens]
  BY DEF Dedents, Tokens
<1>2. D \in Seq(Tokens) /\ Len(D) = k
  <2>1. D \in Seq(Tokens) /\ DOMAIN D = 1..k
    BY <1>1, SeqDef
  <2> HIDE DEF D
  <2> QED BY <2>1, LenProperties
<1>3. result \in Seq(Tokens) /\ n \in Nat
  BY LenProperties DEF TypeOK, Tokens
<1>4. \A i \in 1..k : D[i] = DEDENT
  BY DEF Dedents
<1> HIDE DEF D
<1>5. /\ result \o D \in Seq(Tokens) /\ Len(result \o D) = n + k
      /\ \A i \in 1..(n + k) : (result \o D)[i] = IF i <= n THEN result[i] ELSE D[i - n]
  BY <1>2, <1>3, ConcatProperties
<1> HIDE DEF n
<1>6. \A i \in (n + 1)..(n + k) : i \in 1..(n + k) /\ ~(i <= n) /\ i - n \in 1..k
  BY <1>3
<1>7. \A i \in 1..n : i \in 1..(n + k) /\ i <= n
  BY <1>3
<1> QED BY <1>3, <1>4, <1>5, <1>6, <1>7 DEF D, n

\* The line after tokens.
LEMMA LineAppended ==
  ASSUME TypeOK, AtLine, NEW r \in Seq(Tokens)
  PROVE  /\ r \o <<Text(line)>> \in Seq(Tokens) /\ Len(r) \in Nat
         /\ Len(r \o <<Text(line)>>) = Len(r) + 1
         /\ \A i \in 1..Len(r) : (r \o <<Text(line)>>)[i] = r[i]
         /\ (r \o <<Text(line)>>)[Len(r) + 1] = Text(line)
<1>1. Text(line) \in Tokens
  BY SpacesNat DEF Tokens
<1> HIDE DEF Tokens
<1>2. <<Text(line)>> \in Seq(Tokens) /\ Len(<<Text(line)>>) = 1 /\ <<Text(line)>>[1] = Text(line)
  BY <1>1
<1> QED BY <1>2, ConcatProperties, LenProperties

\* An INDENT and the line after the result.
LEMMA IndentAppended ==
  ASSUME TypeOK, AtLine
  PROVE  LET r == result \o <<INDENT, Text(line)>>
         IN  /\ r \in Seq(Tokens) /\ Len(r) = Len(result) + 2 /\ Len(result) \in Nat
             /\ \A i \in 1..Len(result) : r[i] = result[i]
             /\ r[Len(result) + 1] = INDENT /\ r[Len(result) + 2] = Text(line)
<1> DEFINE new == <<INDENT, Text(line)>>
<1>1. Text(line) \in Tokens /\ INDENT \in Tokens
  BY SpacesNat DEF Tokens
<1>2. result \in Seq(Tokens)
  BY DEF TypeOK, Tokens
<1> HIDE DEF Tokens
<1>3. new \in Seq(Tokens) /\ Len(new) = 2 /\ new[1] = INDENT /\ new[2] = Text(line)
  BY <1>1
<1> HIDE DEF new
<1>4. Len(result) \in Nat
  BY <1>2, LenProperties
<1>5. /\ result \o new \in Seq(Tokens) /\ Len(result \o new) = Len(result) + Len(new)
      /\ \A i \in 1..(Len(result) + Len(new)) :
           (result \o new)[i] = IF i <= Len(result) THEN result[i] ELSE new[i - Len(result)]
  BY <1>2, <1>3, ConcatProperties
<1> DEFINE n == Len(result)
<1>6. /\ n + 1 \in 1..(n + 2) /\ n + 2 \in 1..(n + 2) /\ ~(n + 1 <= n) /\ ~(n + 2 <= n)
      /\ (n + 1) - n = 1 /\ (n + 2) - n = 2 /\ \A i \in 1..n : i \in 1..(n + 2) /\ i <= n
  <2> HIDE DEF n
  <2> QED BY <1>4 DEF n
<1> QED BY <1>3, <1>4, <1>5, <1>6 DEF new

-----------------------------------------------------------------------------
(* The steps.                                                              *)

\* What is said of the source alone does not change.
LEMMA SourceFixed ==
  ASSUME source' = source
  PROVE  /\ \A n : Laid(n)' <=> Laid(n)
         /\ \A n : OpenColumns(n)' = OpenColumns(n)
         /\ \A n : Fits(n)' <=> Fits(n)
<1>1. \A n : Laid(n)' <=> Laid(n)
  BY DEF Laid
<1>2. \A n : OpenColumns(n)' = OpenColumns(n)
  BY DEF OpenColumns, OpenAfter, Laid
<1> QED BY <1>1, <1>2 DEF Fits

\* The off-side rule and the refusals, when a line is laid out.
LEMMA LineLaidOut ==
  ASSUME IInv, AtEvenLine, source' = source, line' = line + 1, status' = status,
         OpenBlocks' = {c \in OpenBlocks : c < Spaces} \cup {Spaces},
         Spaces \in OpenBlocks \/ \A c \in OpenBlocks : Spaces > c
  PROVE  OffSide' /\ OnlyMisfitsRefused'
<1>1. /\ TypeOK /\ AtLine /\ status = "reading" /\ Spaces % 2 = 0
      /\ OpenBlocks = OpenColumns(line - 1)
  BY DEF IInv, AtEvenLine, AtLine, OffSide, OpenBlocks
<1>2. Spaces \in Nat /\ line \in Nat \ {0}
  BY <1>1, SpacesNat
<1>3. OpenColumns(line) = {0} \cup {c \in OpenColumns(line - 1) : c < Spaces} \cup {Spaces}
  BY <1>1, OpenColumnsAfterLine
<1>4. 0 \in OpenColumns(line - 1)
  BY DEF OpenColumns
<1>5. OpenBlocks' = OpenColumns(line)
  BY <1>1, <1>2, <1>3, <1>4
<1>6. line' - 1 = line
  BY <1>2
<1>7. OpenColumns(line - 1)' = OpenColumns(line)
  BY <1>6 DEF OpenColumns, OpenAfter, Laid
<1>8. OffSide'
  BY <1>5, <1>7 DEF OffSide, OpenBlocks
<1>9. Fits(line)
  BY <1>1 DEF Fits, Spaces
<1>10. \A n \in 1..(line' - 1) : Laid(n)' => Fits(n)'
  <2>1. \A n \in 1..line : n = line \/ n \in 1..(line - 1)
    BY <1>2
  <2> QED BY <1>6, <1>9, <2>1, SourceFixed DEF IInv, OnlyMisfitsRefused
<1>11. OnlyMisfitsRefused'
  BY <1>1, <1>10 DEF OnlyMisfitsRefused
<1> QED BY <1>8, <1>11

LEMMA IndentStep ==
  ASSUME IInv, IndentLine
  PROVE  IInv'
<1> DEFINE n == Len(indent_stack)
           L == Len(result)
<1>1. /\ AtEvenLine /\ AtLine /\ TypeOK /\ Nested /\ Spaces > Level /\ Spaces \in Nat
      /\ indent_stack' = Append(indent_stack, Spaces)
      /\ result' = result \o <<INDENT, Text(line)>>
      /\ line' = line + 1 /\ source' = source /\ status' = status /\ status = "reading"
  BY SpacesNat DEF IInv, IndentLine, AtEvenLine, AtLine
<1>2. /\ n \in Nat \ {0} /\ DOMAIN indent_stack = 1..n /\ Level \in Nat
      /\ \A i \in 1..n : indent_stack[i] \in Nat /\ indent_stack[i] <= Level
  BY <1>1, LevelIsDeepest
<1>3. /\ indent_stack' \in Seq(Nat) /\ indent_stack' # <<>> /\ Len(indent_stack') = n + 1
      /\ \A i \in 1..n : indent_stack'[i] = indent_stack[i]
      /\ indent_stack'[n + 1] = Spaces /\ DOMAIN indent_stack' = 1..(n + 1)
  <2>1. indent_stack \in Seq(Nat)
    BY <1>1 DEF TypeOK
  <2>2. /\ indent_stack' \in Seq(Nat) /\ indent_stack' # <<>> /\ Len(indent_stack') = n + 1
        /\ \A i \in 1..n : indent_stack'[i] = indent_stack[i]
        /\ indent_stack'[n + 1] = Spaces
    <3> DEFINE new == Append(indent_stack, Spaces)
    <3>1. /\ new \in Seq(Nat) /\ new # <<>> /\ Len(new) = Len(indent_stack) + 1
          /\ \A i \in 1..Len(indent_stack) : new[i] = indent_stack[i]
          /\ new[Len(indent_stack) + 1] = Spaces
      <4>1. Spaces \in Nat
        BY <1>1
      <4> HIDE DEF n
      <4> QED BY <2>1, <4>1, AppendProperties, SMTT(30)
    <3> HIDE DEF new
    <3> QED BY <1>1, <3>1 DEF new
  <2>3. DOMAIN indent_stack' = 1..(n + 1)
    BY <2>2, LenProperties
  <2> QED BY <2>2, <2>3
<1>4. \A i \in 1..(n + 1) : i \in 1..n \/ i = n + 1
  BY <1>2
<1>5. /\ result' \in Seq(Tokens) /\ Len(result') = L + 2 /\ L \in Nat
      /\ \A i \in 1..L : result'[i] = result[i]
      /\ result'[L + 1] = INDENT /\ result'[L + 2] = Text(line)
  BY <1>1, IndentAppended
<1>6. TypeOK'
  <2>1. line' \in 1..(Len(source) + 1)
    BY <1>1, SpacesNat
  <2> QED BY <1>1, <1>3, <1>5, <2>1 DEF TypeOK, Tokens
<1>7. Nested'
  <2>1. indent_stack'[1] = 0
    BY <1>1, <1>2, <1>3 DEF Nested
  <2>2. ASSUME NEW i \in 1..(n + 1), NEW j \in 1..(n + 1), i < j
        PROVE  indent_stack'[i] < indent_stack'[j]
    <3>1. i \in 1..n
      BY <1>2, <2>2
    <3>2. CASE j \in 1..n
      BY <1>1, <1>3, <2>2, <3>1, <3>2 DEF Nested
    <3>3. CASE j = n + 1
      BY <1>1, <1>2, <1>3, <3>1, <3>3
    <3> QED BY <1>4, <3>2, <3>3
  <2> QED BY <1>3, <2>1, <2>2 DEF Nested
<1>8. Bracketed'
  <2>1. DepthOf(result, L) = n - 1 /\ \A i \in 1..L : DepthOf(result, i) >= 0
    BY DepthIsDepthOf DEF IInv, Bracketed
  <2> HIDE DEF L, n
  <2>2. /\ result'[L + 2] # INDENT /\ result'[L + 2] # DEDENT /\ DepthOf(result, L) >= 0
    <3>1. result'[L + 2] # INDENT /\ result'[L + 2] # DEDENT
      BY <1>5, TokensDiffer, Zenon
    <3>2. n \in Nat \ {0}
      BY <1>2
    <3> QED BY <2>1, <3>1, <3>2
  <2>3. /\ DepthOf(result', L + 2) = DepthOf(result, L) + 1
        /\ \A i \in 1..(L + 2) : DepthOf(result', i) >= 0
    BY <1>5, <2>1, <2>2, IndentThenLine
  <2>4. DepthOf(result', Len(result')) = Len(indent_stack') - 1
    <3>1. n \in Nat /\ Len(indent_stack') = n + 1 /\ Len(result') = L + 2
      BY <1>2, <1>3, <1>5
    <3>2. DepthOf(result', L + 2) = n
      BY <2>1, <2>3, <3>1
    <3> QED BY <3>1, <3>2
  <2>5. DepthOf(result', Len(result')) \in Int /\ \A i \in 1..Len(result') : DepthOf(result', i) >= 0
    BY <1>5, <2>3, DepthIsInt
  <2> QED BY <1>1, <2>4, <2>5, DepthPrimed DEF Bracketed
<1>9. OffSide' /\ OnlyMisfitsRefused'
  <2>1. \A c \in OpenBlocks : Spaces > c
    BY <1>1, <1>2 DEF OpenBlocks
  <2>2. OpenBlocks' = OpenBlocks \cup {Spaces}
    <3>1. 1..(n + 1) = 1..n \cup {n + 1}
      BY <1>2
    <3>2. OpenBlocks' = {indent_stack'[i] : i \in 1..n} \cup {indent_stack'[n + 1]}
      BY <1>3, <3>1 DEF OpenBlocks
    <3>3. {indent_stack'[i] : i \in 1..n} = OpenBlocks
      BY <1>2, <1>3 DEF OpenBlocks
    <3> QED BY <1>3, <3>2, <3>3
  <2>3. \A c \in OpenBlocks : c < Spaces
    BY <1>1, <1>2 DEF OpenBlocks
  <2>4. OpenBlocks' = {c \in OpenBlocks : c < Spaces} \cup {Spaces}
    BY <2>2, <2>3
  <2> QED BY <1>1, <2>1, <2>4, LineLaidOut
<1> QED BY <1>6, <1>7, <1>8, <1>9 DEF IInv

LEMMA SameLevelStep ==
  ASSUME IInv, SameLevelLine
  PROVE  IInv'
<1> DEFINE n == Len(indent_stack)
           L == Len(result)
<1>1. /\ AtEvenLine /\ AtLine /\ TypeOK /\ Nested /\ Spaces = Level /\ Spaces \in Nat
      /\ indent_stack' = indent_stack
      /\ result' = Append(result, Text(line))
      /\ line' = line + 1 /\ source' = source /\ status' = status /\ status = "reading"
  BY SpacesNat DEF IInv, SameLevelLine, AtEvenLine, AtLine
<1>2. /\ n \in Nat \ {0} /\ DOMAIN indent_stack = 1..n /\ Level = indent_stack[n]
      /\ \A i \in 1..n : indent_stack[i] \in Nat /\ indent_stack[i] <= Level
  BY <1>1, LevelIsDeepest
<1>3. /\ result' \in Seq(Tokens) /\ Len(result') = L + 1 /\ L \in Nat
      /\ \A i \in 1..L : result'[i] = result[i]
      /\ result'[L + 1] = Text(line)
  <2>1. result \in Seq(Tokens) /\ Text(line) \in Tokens
    BY <1>1, SpacesNat DEF TypeOK, Tokens
  <2> HIDE DEF Tokens
  <2> QED BY <1>1, <2>1, AppendProperties, LenProperties
<1>4. TypeOK'
  <2>1. line' \in 1..(Len(source) + 1)
    BY <1>1, SpacesNat
  <2> QED BY <1>1, <1>3, <2>1 DEF TypeOK, Tokens
<1>5. Nested'
  BY <1>1 DEF Nested
<1>6. Bracketed'
  <2>1. DepthOf(result, L) = n - 1 /\ \A i \in 1..L : DepthOf(result, i) >= 0
    BY DepthIsDepthOf DEF IInv, Bracketed
  <2> HIDE DEF L, n
  <2>2. result'[L + 1] # INDENT /\ result'[L + 1] # DEDENT /\ 0 <= DepthOf(result, L)
    <3>1. result'[L + 1] # INDENT /\ result'[L + 1] # DEDENT
      BY <1>3, TokensDiffer, Zenon
    <3>2. n \in Nat \ {0}
      BY <1>2
    <3> QED BY <2>1, <3>1, <3>2
  <2>3. L + 1 \in {L + 0, L + 0 + 1} /\ 0 \in Nat /\ \A i \in (L + 1)..(L + 0) : result'[i] = DEDENT
    BY <1>3
  <2>4. /\ DepthOf(result', L + 1) = DepthOf(result, L) - 0
        /\ \A i \in 1..(L + 1) : DepthOf(result', i) >= 0
    <3>1. PICK t : t = result'
      OBVIOUS
    <3>2. ClosedBy(result, t, L, 0, L + 1)
      BY <1>3, <2>1, <2>2, <2>3, <3>1 DEF ClosedBy
    <3>3. DepthOf(t, L + 1) = DepthOf(result, L) - 0 /\ \A i \in 1..(L + 1) : DepthOf(t, i) >= 0
      BY <3>2, DedentsThenLine
    <3> QED BY <3>1, <3>3
  <2>5. DepthOf(result', Len(result')) = Len(indent_stack') - 1
    <3>1. n \in Nat /\ Len(indent_stack') = n /\ Len(result') = L + 1
      BY <1>1, <1>2, <1>3 DEF n
    <3>2. DepthOf(result', L + 1) = n - 1
      BY <2>1, <2>4, <3>1
    <3> QED BY <3>1, <3>2
  <2>6. \A i \in 1..Len(result') : DepthOf(result', i) >= 0
    BY <1>3, <2>4
  <2> QED BY <1>1, <2>5, <2>6, DepthPrimed DEF Bracketed
<1>7. OffSide' /\ OnlyMisfitsRefused'
  <2>1. Spaces \in OpenBlocks
    BY <1>1, <1>2 DEF OpenBlocks
  <2>2. \A c \in OpenBlocks : c < Spaces \/ c = Spaces
    BY <1>1, <1>2 DEF OpenBlocks
  <2>3. OpenBlocks' = OpenBlocks
    BY <1>1 DEF OpenBlocks
  <2>4. OpenBlocks' = {c \in OpenBlocks : c < Spaces} \cup {Spaces}
    BY <2>1, <2>2, <2>3
  <2> QED BY <1>1, <2>1, <2>4, LineLaidOut
<1> QED BY <1>4, <1>5, <1>6, <1>7 DEF IInv

LEMMA DedentStep ==
  ASSUME IInv, DedentLine
  PROVE  IInv'
<1> DEFINE n == Len(indent_stack)
           L == Len(result)
           r == result \o Dedents(Popped)
           level == indent_stack[Kept] = Spaces
<1>1. /\ AtEvenLine /\ AtLine /\ TypeOK /\ Nested /\ Spaces < Level /\ Spaces \in Nat
      /\ indent_stack' = SubSeq(indent_stack, 1, Kept)
      /\ source' = source /\ status = "reading"
      /\ level => result' = r \o <<Text(line)>> /\ line' = line + 1 /\ status' = status
      /\ ~level => result' = r /\ line' = line /\ status' = "unopened"
  BY SpacesNat DEF IInv, DedentLine, AtEvenLine, AtLine
<1>2. /\ n \in Nat \ {0} /\ DOMAIN indent_stack = 1..n /\ Level = indent_stack[n] /\ Level \in Nat
      /\ \A i \in 1..n : indent_stack[i] \in Nat /\ indent_stack[i] <= Level
  BY <1>1, LevelIsDeepest
<1>3. /\ Kept \in 1..n /\ \A i \in 1..n : indent_stack[i] <= Spaces <=> i <= Kept
  BY <1>1, KeptIsPrefix
<1>4. Kept \in Nat \ {0} /\ Kept < n /\ Popped = n - Kept /\ Popped \in Nat
  <2>1. n \in 1..n
    BY <1>2
  <2>2. ~(n <= Kept)
    BY <1>1, <1>2, <1>3, <2>1
  <2> HIDE DEF n
  <2>3. Kept \in Nat \ {0} /\ Kept < n
    BY <1>2, <1>3, <2>2
  <2> QED BY <1>2, <2>3 DEF Popped, n
<1>5. /\ indent_stack' \in Seq(Nat) /\ indent_stack' # <<>> /\ Len(indent_stack') = Kept
      /\ DOMAIN indent_stack' = 1..Kept
      /\ \A i \in 1..Kept : indent_stack'[i] = indent_stack[i] /\ i \in 1..n
  <2> HIDE DEF n
  <2>1. \A i \in 1..Kept : i \in 1..n
    BY <1>2, <1>3
  <2>2. /\ SubSeq(indent_stack, 1, Kept) \in Seq(Nat)
        /\ Len(SubSeq(indent_stack, 1, Kept)) = IF 1 <= Kept THEN Kept - 1 + 1 ELSE 0
        /\ \A i \in 1 .. Kept - 1 + 1 : SubSeq(indent_stack, 1, Kept)[i] = indent_stack[1 + i - 1]
    BY <1>2, <1>3, <1>4, <2>1, SubSeqProperties
  <2>3. Len(indent_stack') = Kept /\ indent_stack' \in Seq(Nat)
    BY <1>1, <1>4, <2>2
  <2>4. \A i \in 1..Kept : indent_stack'[i] = indent_stack[i]
    BY <1>1, <1>4, <2>2
  <2>5. DOMAIN indent_stack' = 1..Kept /\ indent_stack' # <<>>
    BY <1>4, <2>3, LenProperties, EmptySeq
  <2> QED BY <2>1, <2>3, <2>4, <2>5
<1>6. /\ r \in Seq(Tokens) /\ Len(r) = L + Popped /\ L \in Nat
      /\ \A i \in 1..L : r[i] = result[i]
      /\ \A i \in (L + 1)..(L + Popped) : r[i] = DEDENT
  BY <1>1, <1>4, DedentsAppended
<1> HIDE DEF r
<1>7. /\ result' \in Seq(Tokens)
      /\ Len(result') = IF level THEN L + Popped + 1 ELSE L + Popped
      /\ \A i \in 1..(L + Popped) : result'[i] = r[i]
      /\ level => result'[L + Popped + 1] = Text(line)
  <2>1. CASE level
    BY <1>1, <1>6, <2>1, LineAppended
  <2>2. CASE ~level
    BY <1>1, <1>6, <2>2
  <2> QED BY <2>1, <2>2
<1>8. /\ \A i \in 1..L : result'[i] = result[i]
      /\ \A i \in (L + 1)..(L + Popped) : result'[i] = DEDENT
  <2> HIDE DEF L
  <2>1. \A i \in 1..L : i \in 1..(L + Popped)
    BY <1>4, <1>6
  <2>2. \A i \in (L + 1)..(L + Popped) : i \in 1..(L + Popped)
    BY <1>4, <1>6
  <2> QED BY <1>6, <1>7, <2>1, <2>2
<1>9. TypeOK'
  <2>1. line' \in 1..(Len(source) + 1)
    BY <1>1, SpacesNat
  <2>2. status' \in {"reading", "unopened"}
    BY <1>1
  <2> QED BY <1>1, <1>5, <1>7, <2>1, <2>2 DEF TypeOK, Tokens
<1>10. Nested'
  <2>1. indent_stack'[1] = 0
    BY <1>1, <1>4, <1>5 DEF Nested
  <2> QED BY <1>1, <1>5, <2>1 DEF Nested
<1>11. Bracketed'
  <2>1. DepthOf(result, L) = n - 1 /\ \A i \in 1..L : DepthOf(result, i) >= 0
    BY DepthIsDepthOf DEF IInv, Bracketed
  <2> HIDE DEF L, n, level
  <2>2. PICK k \in Nat : k = Popped
    BY <1>4
  <2>3. PICK m : m = Len(result')
    OBVIOUS
  <2>4. m \in {L + k, L + k + 1} /\ (m = L + k + 1 => level)
    BY <1>4, <1>6, <1>7, <2>2, <2>3
  <2>5. k <= DepthOf(result, L)
    BY <1>2, <1>4, <2>1, <2>2
  <2>6. m = L + k + 1 => result'[m] # INDENT /\ result'[m] # DEDENT
    <3> SUFFICES ASSUME m = L + k + 1 PROVE result'[m] # INDENT /\ result'[m] # DEDENT
      OBVIOUS
    <3>1. result'[m] = Text(line)
      BY <1>7, <2>2, <2>4
    <3> QED BY <3>1, TokensDiffer, Zenon
  <2>7. \A i \in (L + 1)..(L + k) : result'[i] = DEDENT
    BY <1>8, <2>2
  <2>8. DepthOf(result', m) = DepthOf(result, L) - k /\ \A i \in 1..m : DepthOf(result', i) >= 0
    <3>1. PICK t : t = result'
      OBVIOUS
    <3>2. ClosedBy(result, t, L, k, m)
      BY <1>6, <1>8, <2>1, <2>4, <2>5, <2>6, <2>7, <3>1 DEF ClosedBy
    <3>3. DepthOf(t, m) = DepthOf(result, L) - k /\ \A i \in 1..m : DepthOf(t, i) >= 0
      BY <3>2, DedentsThenLine
    <3> QED BY <3>1, <3>3
  <2>9. DepthOf(result', m) = Len(indent_stack') - 1
    BY <1>2, <1>4, <1>5, <2>1, <2>2, <2>8
  <2>10. status' # "done"
    BY <1>1
  <2> QED BY <2>3, <2>8, <2>9, <2>10, DepthPrimed
<1>12. /\ \A c \in OpenBlocks : c <= Spaces => \E i \in 1..Kept : c = indent_stack[i]
       /\ \A i \in 1..Kept : indent_stack[i] \in OpenBlocks /\ indent_stack[i] <= Spaces
       /\ \A i \in 1..Kept : i # Kept => indent_stack[i] < indent_stack[Kept]
  <2>1. \A i \in 1..n : i <= Kept => i \in 1..Kept
    BY <1>3
  <2>2. \A i \in 1..Kept : i \in 1..n /\ i <= Kept /\ (i # Kept => i < Kept)
    BY <1>4, <1>5
  <2> HIDE DEF n
  <2>3. \A c \in OpenBlocks : c <= Spaces => \E i \in 1..Kept : c = indent_stack[i]
    BY <1>2, <1>3, <2>1 DEF OpenBlocks
  <2>4. \A i \in 1..Kept : indent_stack[i] \in OpenBlocks /\ indent_stack[i] <= Spaces
    BY <1>2, <1>3, <2>2 DEF OpenBlocks
  <2>5. \A i \in 1..Kept : i # Kept => indent_stack[i] < indent_stack[Kept]
    BY <1>1, <1>3, <2>2 DEF Nested, n
  <2> QED BY <2>3, <2>4, <2>5
<1>13. OffSide' /\ OnlyMisfitsRefused'
  <2>1. CASE level
    <3>1. Spaces \in OpenBlocks
      BY <1>2, <1>3, <2>1 DEF OpenBlocks
    <3>2. OpenBlocks' = {indent_stack[i] : i \in 1..Kept}
      BY <1>5 DEF OpenBlocks
    <3>3. {indent_stack[i] : i \in 1..Kept} = {c \in OpenBlocks : c <= Spaces}
      BY <1>12
    <3>4. \A c \in OpenBlocks : c \in Nat
      BY <1>2 DEF OpenBlocks
    <3>5. {c \in OpenBlocks : c <= Spaces} = {c \in OpenBlocks : c < Spaces} \cup {Spaces}
      <4>1. \A c \in OpenBlocks : c <= Spaces <=> c < Spaces \/ c = Spaces
        BY <1>1, <3>4
      <4> HIDE DEF level
      <4> QED BY <3>1, <4>1, Zenon
    <3>6. OpenBlocks' = {c \in OpenBlocks : c < Spaces} \cup {Spaces}
      BY <3>2, <3>3, <3>5
    <3> QED BY <1>1, <2>1, <3>1, <3>6, LineLaidOut
  <2>2. CASE ~level
    <3>1. OpenBlocks = OpenColumns(line - 1)
      BY <1>1 DEF IInv, OffSide, OpenBlocks
    <3>2. Spaces \notin OpenBlocks
      <4> SUFFICES ASSUME Spaces \in OpenBlocks PROVE FALSE
        OBVIOUS
      <4>1. PICK i \in 1..Kept : Spaces = indent_stack[i]
        BY <1>1, <1>12
      <4>2. i # Kept /\ indent_stack[i] < indent_stack[Kept]
        BY <1>12, <2>2, <4>1
      <4>3. indent_stack[Kept] <= Spaces /\ indent_stack[Kept] \in Nat
        BY <1>2, <1>3, <1>4, <1>12
      <4> QED BY <1>1, <4>1, <4>2, <4>3
    <3>3. Level \in OpenBlocks /\ ~(Spaces > Level)
      <4>1. n \in 1..n
        BY <1>2
      <4>2. Level \in OpenBlocks
        BY <1>2, <4>1 DEF OpenBlocks
      <4>3. ~(Spaces > Level)
        BY <1>1, <1>2
      <4> QED BY <4>2, <4>3
    <3>4. ~Fits(line)
      BY <3>1, <3>2, <3>3 DEF Fits, Spaces
    <3>5. OffSide'
      BY <1>1, <2>2 DEF OffSide
    <3>6. OnlyMisfitsRefused'
      <4>1. line' = line /\ ~Fits(line)'
        BY <1>1, <2>2, <3>4 DEF Fits, OpenColumns, OpenAfter, Laid
      <4>2. \A m \in 1..(line - 1) : Laid(m)' => Fits(m)'
        BY <1>1, SourceFixed DEF IInv, OnlyMisfitsRefused
      <4> QED BY <4>1, <4>2 DEF OnlyMisfitsRefused
    <3> QED BY <3>5, <3>6
  <2> QED BY <2>1, <2>2
<1> QED BY <1>9, <1>10, <1>11, <1>13 DEF IInv

LEMMA SkipStep ==
  ASSUME IInv, SkipLine
  PROVE  IInv'
<1>1. /\ TypeOK /\ status = "reading" /\ line <= Len(source) /\ Spaces = Skipped /\ line' = line + 1
      /\ source' = source /\ indent_stack' = indent_stack /\ result' = result /\ status' = status
  BY DEF IInv, SkipLine
<1>2. line \in 1..Len(source) /\ Len(source) \in Nat /\ line' - 1 = line /\ ~Laid(line)
  BY <1>1, SourcesWellFormed, LenProperties DEF TypeOK, Laid, Spaces
<1>3. TypeOK'
  BY <1>1, <1>2 DEF TypeOK
<1>4. Nested' /\ Bracketed'
  BY <1>1 DEF IInv, Nested, Bracketed, Depth, Count
<1>5. OffSide'
  <2>1. OpenColumns(line) = OpenColumns(line - 1)
    BY <1>1, OpenColumnsAfterSkip
  <2>2. OpenColumns(line - 1)' = OpenColumns(line)
    BY <1>1, <1>2 DEF OpenColumns, OpenAfter, Laid
  <2> QED BY <1>1, <2>1, <2>2 DEF IInv, OffSide
<1>6. OnlyMisfitsRefused'
  <2>1. \A n \in 1..(line' - 1) : Laid(n)' => Fits(n)'
    <3>1. \A n \in 1..line : n = line \/ n \in 1..(line - 1)
      BY <1>2
    <3> QED BY <1>1, <1>2, <3>1, SourceFixed DEF IInv, OnlyMisfitsRefused
  <2> QED BY <1>1, <2>1 DEF OnlyMisfitsRefused
<1> QED BY <1>3, <1>4, <1>5, <1>6 DEF IInv

LEMMA RejectStep ==
  ASSUME IInv, RejectOddLine
  PROVE  IInv'
<1>1. /\ Spaces % 2 # 0 /\ status' = "odd"
      /\ source' = source /\ line' = line /\ indent_stack' = indent_stack /\ result' = result
  BY DEF RejectOddLine
<1>2. TypeOK' /\ Nested' /\ Bracketed' /\ OffSide'
  BY <1>1 DEF IInv, TypeOK, Nested, Bracketed, Depth, Count, OffSide
<1>3. OnlyMisfitsRefused'
  <2>1. ~Fits(line)'
    BY <1>1 DEF Fits, Spaces
  <2>2. \A n \in 1..(line - 1) : Laid(n)' => Fits(n)'
    BY <1>1, SourceFixed DEF IInv, OnlyMisfitsRefused
  <2> QED BY <1>1, <2>1, <2>2 DEF OnlyMisfitsRefused
<1> QED BY <1>2, <1>3 DEF IInv

LEMMA CloseStep ==
  ASSUME IInv, CloseAll
  PROVE  IInv'
<1> DEFINE n == Len(indent_stack)
           L == Len(result)
<1>1. /\ TypeOK /\ Nested /\ status = "reading" /\ status' = "done" /\ indent_stack' = <<0>>
      /\ result' = result \o Dedents(n - 1) /\ source' = source /\ line' = line
  BY DEF IInv, CloseAll
<1>2. n \in Nat \ {0}
  BY <1>1, LevelIsDeepest
<1> HIDE DEF n
<1>3. PICK k \in Nat : k = n - 1
  BY <1>2
<1>4. /\ result' \in Seq(Tokens) /\ Len(result') = L + k /\ L \in Nat
      /\ \A i \in 1..L : result'[i] = result[i]
      /\ \A i \in (L + 1)..(L + k) : result'[i] = DEDENT
  BY <1>1, <1>3, DedentsAppended
<1>5. TypeOK'
  BY <1>1, <1>4 DEF TypeOK, Tokens
<1>6. Nested'
  BY <1>1 DEF Nested
<1>7. Bracketed'
  <2>1. DepthOf(result, L) = n - 1 /\ \A i \in 1..L : DepthOf(result, i) >= 0
    BY DepthIsDepthOf DEF IInv, Bracketed, n
  <2> HIDE DEF L
  <2>2. PICK m : m = L + k
    OBVIOUS
  <2>3. /\ m \in {L + k, L + k + 1} /\ m # L + k + 1 /\ k <= DepthOf(result, L)
    BY <1>3, <1>4, <2>1, <2>2
  <2>4. DepthOf(result', m) = DepthOf(result, L) - k /\ \A i \in 1..m : DepthOf(result', i) >= 0
    <3>1. PICK t : t = result'
      OBVIOUS
    <3>2. ClosedBy(result, t, L, k, m)
      BY <1>4, <2>1, <2>3, <3>1 DEF ClosedBy
    <3>3. DepthOf(t, m) = DepthOf(result, L) - k /\ \A i \in 1..m : DepthOf(t, i) >= 0
      BY <3>2, DedentsThenLine
    <3> QED BY <3>1, <3>3
  <2>5. Len(indent_stack') = 1 /\ Len(result') = m /\ DepthOf(result', m) = Len(indent_stack') - 1
    BY <1>1, <1>3, <1>4, <2>1, <2>2, <2>4
  <2> QED BY <2>4, <2>5, DepthPrimed
<1>8. OffSide' /\ OnlyMisfitsRefused'
  BY <1>1, SourceFixed DEF IInv, OffSide, OnlyMisfitsRefused
<1> QED BY <1>5, <1>6, <1>7, <1>8 DEF IInv

LEMMA StutterStep ==
  ASSUME IInv, UNCHANGED vars
  PROVE  IInv'
<1>1. /\ source' = source /\ line' = line /\ indent_stack' = indent_stack
      /\ result' = result /\ status' = status
  BY DEF vars
<1>2. TypeOK' /\ Nested' /\ Bracketed'
  BY <1>1 DEF IInv, TypeOK, Nested, Bracketed, Depth, Count
<1>3. OffSide' /\ OnlyMisfitsRefused'
  BY <1>1, SourceFixed DEF IInv, OffSide, OnlyMisfitsRefused
<1> QED BY <1>2, <1>3 DEF IInv

-----------------------------------------------------------------------------
LEMMA Initially == Init => IInv
<1> SUFFICES ASSUME Init PROVE IInv
  OBVIOUS
<1>1. source \in Sources /\ line = 1 /\ indent_stack = <<0>> /\ result = <<>> /\ status = "reading"
  BY DEF Init
<1>2. Len(source) \in Nat /\ Len(result) = 0 /\ Len(indent_stack) = 1
  BY <1>1, SourcesWellFormed, LenProperties
<1>3. TypeOK
  BY <1>1, <1>2 DEF TypeOK
<1>4. Nested
  BY <1>1 DEF Nested
<1>5. Bracketed
  <2>1. Held(result, INDENT, 0) = {} /\ Held(result, DEDENT, 0) = {}
    BY DEF Held
  <2>2. DepthOf(result, 0) = 0
    BY <2>1, FS_EmptySet DEF DepthOf
  <2> QED BY <1>1, <1>2, <2>2, DepthIsDepthOf DEF Bracketed
<1>6. OffSide
  <2>1. OpenColumns(0) = {0}
    BY DEF OpenColumns
  <2>2. {indent_stack[i] : i \in DOMAIN indent_stack} = {0}
    BY <1>1
  <2> QED BY <1>1, <2>1, <2>2 DEF OffSide
<1>7. OnlyMisfitsRefused
  BY <1>1 DEF OnlyMisfitsRefused
<1> QED BY <1>3, <1>4, <1>5, <1>6, <1>7 DEF IInv

LEMMA Inductive == IInv /\ [Next]_vars => IInv'
BY SkipStep, RejectStep, IndentStep, DedentStep, SameLevelStep, CloseStep, StutterStep DEF Next, Ended

LEMMA Invariant == Spec => []IInv
BY Initially, Inductive, PTL DEF Spec

\* The stack is never empty, every token is an INDENT, a DEDENT or a line of
\* the source (indent.rs:8-75).
THEOREM TypeCorrect == Spec => []TypeOK
BY Invariant, PTL DEF IInv

\* Each block on the stack is deeper than the one around it (indent.rs:38-61).
THEOREM BlocksNested == Spec => []Nested
BY Invariant, PTL DEF IInv

\* No DEDENT closes a block that is not open, the blocks open are those on the
\* stack, and none is open at the end (indent.rs:38-75).
THEOREM TokensBracketed == Spec => []Bracketed
BY Invariant, PTL DEF IInv

\* The blocks open are those of the lines that no later line has been as
\* shallow as, for sources of every length and depth (indent.rs:19-66).
THEOREM OffSideRule == Spec => []OffSide
BY Invariant, PTL DEF IInv

\* A source is refused exactly for its first line that fits nowhere
\* (indent.rs:26-33, 52-59).
THEOREM RefusalsJustified == Spec => []OnlyMisfitsRefused
BY Invariant, PTL DEF IInv
=============================================================================
