--------------------------------- MODULE Indent ---------------------------------
(***************************************************************************)
(* The indentation preprocessor, crates/nous-parser/src/indent.rs: one     *)
(* step per line of the source keeps the columns of the open blocks on     *)
(* indent_stack and puts INDENT and DEDENT tokens before the lines, so     *)
(* that the grammar need not look at white space.                          *)
(*                                                                         *)
(* A line is Skipped (empty, or only a comment) or the number of bytes of  *)
(* white space before its text, which is left out.                         *)
(***************************************************************************)
EXTENDS Integers, Sequences, FiniteSets

CONSTANT Sources     \* sequences of lines

Skipped == -1

ASSUME SourcesWellFormed == \A s \in Sources : s \in Seq(Nat \cup {Skipped})

VARIABLES source,
          line,          \* the line to read next
          indent_stack,
          result,        \* <<"INDENT", 0>>, <<"DEDENT", 0>> and <<"line", number>>
          status         \* "reading", "done", "odd" or "unopened"

vars == <<source, line, indent_stack, result, status>>

INDENT == <<"INDENT", 0>>
DEDENT == <<"DEDENT", 0>>
Text(i) == <<"line", i>>

Spaces == source[line]
Level == indent_stack[Len(indent_stack)]

\* The line read next, when it is one to lay out.
AtLine == status = "reading" /\ line <= Len(source) /\ Spaces # Skipped
AtEvenLine == AtLine /\ Spaces % 2 = 0

\* How many blocks are left on the stack once those deeper than the line are popped.
Kept == CHOOSE n \in DOMAIN indent_stack :
          /\ indent_stack[n] <= Spaces
          /\ \A i \in (n + 1)..Len(indent_stack) : indent_stack[i] > Spaces
Popped == Len(indent_stack) - Kept
Dedents(n) == [i \in 1..n |-> DEDENT]

-----------------------------------------------------------------------------
\* An empty line or a comment changes no level.
SkipLine ==
  /\ status = "reading" /\ line <= Len(source) /\ Spaces = Skipped
  /\ line' = line + 1
  /\ UNCHANGED <<source, indent_stack, result, status>>

RejectOddLine ==
  /\ AtLine /\ Spaces % 2 # 0
  /\ status' = "odd"
  /\ UNCHANGED <<source, line, indent_stack, result>>

\* Mutant: so does a line that is as deep.
IndentAtLevel ==
  /\ AtEvenLine /\ Spaces >= Level
  /\ indent_stack' = Append(indent_stack, Spaces)
  /\ result' = result \o <<INDENT, Text(line)>>
  /\ line' = line + 1
  /\ UNCHANGED <<source, status>>

\* A deeper line opens one block, however much deeper it is.
IndentLine ==
  /\ AtEvenLine /\ Spaces > Level
  /\ indent_stack' = Append(indent_stack, Spaces)
  /\ result' = result \o <<INDENT, Text(line)>>
  /\ line' = line + 1
  /\ UNCHANGED <<source, status>>

\* Mutant: one block is closed, however far the line goes back.
DedentOnce ==
  /\ AtEvenLine /\ Spaces < Level
  /\ indent_stack' = SubSeq(indent_stack, 1, Len(indent_stack) - 1)
  /\ result' = result \o <<DEDENT, Text(line)>>
  /\ line' = line + 1
  /\ UNCHANGED <<source, status>>

\* Mutant: the column of the line is not compared with that of the block left.
DedentAnywhere ==
  /\ AtEvenLine /\ Spaces < Level
  /\ indent_stack' = SubSeq(indent_stack, 1, Kept)
  /\ result' = result \o Dedents(Popped) \o <<Text(line)>>
  /\ line' = line + 1
  /\ UNCHANGED <<source, status>>

\* A shallower line closes every deeper block and must be at the column of one.
DedentLine ==
  /\ AtEvenLine /\ Spaces < Level
  /\ indent_stack' = SubSeq(indent_stack, 1, Kept)
  /\ IF indent_stack[Kept] = Spaces
     THEN /\ result' = result \o Dedents(Popped) \o <<Text(line)>>
          /\ line' = line + 1
          /\ status' = status
     ELSE /\ result' = result \o Dedents(Popped)
          /\ status' = "unopened"
          /\ line' = line
  /\ UNCHANGED source

SameLevelLine ==
  /\ AtEvenLine /\ Spaces = Level
  /\ result' = Append(result, Text(line))
  /\ line' = line + 1
  /\ UNCHANGED <<source, indent_stack, status>>

\* Mutant: the blocks open at the end of the file stay open.
LeaveOpen ==
  /\ status = "reading" /\ line > Len(source)
  /\ indent_stack' = <<0>>
  /\ status' = "done"
  /\ UNCHANGED <<source, line, result>>

\* The end of the file closes what is open.
CloseAll ==
  /\ status = "reading" /\ line > Len(source)
  /\ indent_stack' = <<0>>
  /\ result' = result \o Dedents(Len(indent_stack) - 1)
  /\ status' = "done"
  /\ UNCHANGED <<source, line>>

Ended == status # "reading" /\ UNCHANGED vars

Init ==
  /\ source \in Sources
  /\ line = 1
  /\ indent_stack = <<0>>
  /\ result = <<>>
  /\ status = "reading"

Next == SkipLine \/ RejectOddLine \/ IndentLine \/ DedentLine \/ SameLevelLine \/ CloseAll \/ Ended

Spec == Init /\ [][Next]_vars

-----------------------------------------------------------------------------
TypeOK ==
  /\ source \in Sources
  /\ line \in 1..(Len(source) + 1)
  /\ indent_stack \in Seq(Nat) /\ indent_stack # <<>>
  /\ result \in Seq({INDENT, DEDENT} \cup {Text(i) : i \in 1..Len(source)})
  /\ status \in {"reading", "done", "odd", "unopened"}

\* The blocks open are nested: the outermost is column 0, and each is deeper
\* than the one around it.
Nested ==
  /\ indent_stack[1] = 0
  /\ \A i, j \in 1..Len(indent_stack) : i < j => indent_stack[i] < indent_stack[j]

Count(token, n) == Cardinality({i \in 1..n : result[i] = token})
Depth(n) == Count(INDENT, n) - Count(DEDENT, n)

\* The tokens are balanced as brackets are: no DEDENT closes a block that is not
\* open, the blocks open are those on the stack, and none is open at the end
\* (indent.rs:70-73).
Bracketed ==
  /\ \A n \in 1..Len(result) : Depth(n) >= 0
  /\ Depth(Len(result)) = Len(indent_stack) - 1
  /\ status = "done" => Depth(Len(result)) = 0

\* Line i is open after line n: no line since has been as shallow.
Laid(i) == source[i] # Skipped
OpenAfter(i, n) == i \in 1..n /\ Laid(i) /\ \A k \in (i + 1)..n : Laid(k) => source[k] > source[i]
OpenColumns(n) == {0} \cup {source[i] : i \in {j \in 1..n : OpenAfter(j, n)}}

\* The off-side rule: the blocks open are, besides the margin, those of the
\* lines no later line has been as shallow as, whatever the steps by which the
\* indentation grew and fell and the comments between (indent.rs:19-66).
OffSide ==
  status = "reading" => {indent_stack[i] : i \in DOMAIN indent_stack} = OpenColumns(line - 1)

\* Line n can be laid out after those before it: deeper than the last of them,
\* or level with a block that is open.
Fits(n) ==
  /\ source[n] % 2 = 0
  /\ source[n] \in OpenColumns(n - 1) \/ \A c \in OpenColumns(n - 1) : source[n] > c

\* A source is refused exactly for its first line that fits nowhere
\* (indent.rs:26-33, 52-59).
OnlyMisfitsRefused ==
  /\ status \in {"odd", "unopened"} => ~Fits(line)
  /\ \A n \in 1..(line - 1) : Laid(n) => Fits(n)
=============================================================================
