------------------------------- MODULE CliProofs -------------------------------
(***************************************************************************)
(* Proofs about the two programs of crates/nous-cli that keep a session.   *)
(* Of the language server, module Lsp: every answer is the one its request *)
(* is due, for all documents, texts and positions and any number of        *)
(* messages.  Of the interactive session, module Repl: what the undo of a  *)
(* definition keeps, for every parser, checker and verifier.               *)
(***************************************************************************)
EXTENDS Lsp, SequenceTheorems, WellFoundedInduction, TLAPS

CONSTANTS Header, Definitions, Expressions, Parsed(_), Checks(_), Verifies(_), Evaluates(_, _), MaxLines
VARIABLES source, defCount, response

Session == INSTANCE Repl WITH Parses <- Parsed

-----------------------------------------------------------------------------
(* The word at a position.                                                 *)

LEMMA LeastOf ==
  ASSUME NEW S \in SUBSET Nat, S # {}
  PROVE  \E m \in S : \A n \in S : m <= n
<1>1. PICK m \in S : \A n \in S : ~(<<n, m>> \in OpToRel(<, Nat))
  BY WFMin, NatLessThanWellFounded
<1>2. \A n \in S : ~(n < m)
  BY <1>1 DEF OpToRel
<1> QED BY <1>2

LEMMA GreatestOf ==
  ASSUME NEW N \in Nat, NEW S \in SUBSET (0..N), S # {}
  PROVE  \E m \in S : \A n \in S : n <= m
<1> DEFINE T == {N - n : n \in S}
<1>1. T \in SUBSET Nat /\ T # {}
  <2>1. PICK n \in S : TRUE
    OBVIOUS
  <2>2. N - n \in T /\ \A k \in S : N - k \in Nat
    OBVIOUS
  <2> QED BY <2>2
<1> HIDE DEF T
<1>2. PICK t \in T : \A n \in T : t <= n
  BY <1>1, LeastOf
<1>3. PICK m \in S : t = N - m
  BY DEF T
<1>4. ASSUME NEW n \in S PROVE n <= m
  <2>1. t <= N - n
    BY <1>2 DEF T
  <2> QED BY <1>3, <2>1
<1> QED BY <1>4

\* The word begins after the last sign before the column and ends before the
\* first sign from the column on.
LEMMA WordEnds ==
  ASSUME NEW line, Len(line) \in Nat, NEW col \in 0..Len(line)
  PROVE  LET s == WordStart(line, col)
             e == WordEnd(line, col)
         IN  /\ s \in 0..col /\ e \in col..Len(line)
             /\ s # 0 => s - 1 \in Signs(line)
             /\ e # Len(line) => e \in Signs(line)
             /\ \A c \in Signs(line) : c < s \/ c >= e
<1> DEFINE before == {c \in Signs(line) : c < col}
           after == {c \in Signs(line) : c >= col}
           s == WordStart(line, col)
           e == WordEnd(line, col)
<1>1. Signs(line) \subseteq 0..(Len(line) - 1)
  BY DEF Signs
<1>2. s \in 0..col /\ (s # 0 => s - 1 \in Signs(line)) /\ \A c \in before : c < s
  <2>1. CASE before = {}
    BY <2>1 DEF WordStart
  <2>2. CASE before # {}
    <3>1. before \in SUBSET (0..Len(line))
      BY <1>1
    <3>2. \E c \in before : \A b \in before : b <= c
      BY <2>2, <3>1, GreatestOf
    <3>3. PICK c \in before : s = 1 + c /\ \A b \in before : b <= c
      BY <2>2, <3>2 DEF WordStart
    <3> QED BY <1>1, <3>3
  <2> QED BY <2>1, <2>2
<1>3. e \in col..Len(line) /\ (e # Len(line) => e \in Signs(line)) /\ \A c \in after : c >= e
  <2>1. CASE after = {}
    BY <2>1 DEF WordEnd
  <2>2. CASE after # {}
    <3>1. after \in SUBSET Nat
      BY <1>1
    <3>2. \E c \in after : \A a \in after : c <= a
      BY <2>2, <3>1, LeastOf
    <3>3. e \in after /\ \A a \in after : e <= a
      BY <2>2, <3>2 DEF WordEnd
    <3> QED BY <1>1, <3>3
  <2> QED BY <2>1, <2>2
<1> QED BY <1>1, <1>2, <1>3

\* On a line of letters and signs the word is the letters around the position.
LEMMA WholeWord ==
  ASSUME NEW Byte, NEW line \in Seq(Byte), Narrow(line), NEW col \in 0..Len(line)
  PROVE  WordAt(line, col) = Around(line, col)
<1> DEFINE s == WordStart(line, col)
           e == WordEnd(line, col)
<1>1. /\ Len(line) \in Nat /\ s \in 0..col /\ e \in col..Len(line)
      /\ s # 0 => s - 1 \in Signs(line)
      /\ e # Len(line) => e \in Signs(line)
      /\ \A c \in Signs(line) : c < s \/ c >= e
  BY WordEnds, LenProperties
<1>2. \A c \in 0..(Len(line) - 1) : c \in Signs(line) <=> line[c + 1] # "letter"
  <2>1. DOMAIN line = 1..Len(line)
    BY LenProperties
  <2> SUFFICES ASSUME NEW c \in 0..(Len(line) - 1)
               PROVE  line[c + 1] \in {"sign", "wide sign"} <=> line[c + 1] # "letter"
    BY DEF Signs
  <2>2. line[c + 1] \in {"letter", "sign"}
    BY <1>1, <2>1 DEF Narrow
  <2> QED BY <2>2
<1>3. \A c \in Signs(line) : c \in 0..(Len(line) - 1)
  BY DEF Signs
<1> HIDE DEF s, e
<1>4. ASSUME NEW c \in s..(e - 1) PROVE c \in Around(line, col)
  <2>1. c \in 0..(Len(line) - 1)
    BY <1>1
  <2>2. ASSUME NEW b \in (c..(col - 1)) \cup (col..c) PROVE line[b + 1] = "letter"
    <3>1. b \in 0..(Len(line) - 1) /\ b >= s /\ b < e
      BY <1>1, <2>1
    <3>2. b \notin Signs(line)
      BY <1>1, <3>1
    <3> QED BY <1>2, <3>1, <3>2
  <2> QED BY <2>1, <2>2 DEF Around
<1>5. ASSUME NEW c \in Around(line, col) PROVE c \in s..(e - 1)
  <2>1. c \in 0..(Len(line) - 1) /\ \A b \in (c..(col - 1)) \cup (col..c) : line[b + 1] = "letter"
    BY DEF Around
  <2>2. c >= s
    <3>1. SUFFICES ASSUME c < s PROVE FALSE
      BY <1>1, <2>1
    <3>2. s - 1 \in c..(col - 1) /\ s - 1 \in Signs(line)
      BY <1>1, <2>1, <3>1
    <3> QED BY <1>2, <1>3, <2>1, <3>2
  <2>3. c < e
    <3>1. SUFFICES ASSUME c >= e PROVE FALSE
      BY <1>1, <2>1
    <3>2. e \in col..c /\ e \in Signs(line)
      BY <1>1, <2>1, <3>1
    <3> QED BY <1>2, <1>3, <2>1, <3>2
  <2> QED BY <1>1, <2>1, <2>2, <2>3
<1> QED BY <1>4, <1>5 DEF WordAt, s, e

-----------------------------------------------------------------------------
(* Answers.                                                                *)

Messages ==
  [method : {"didOpen"}, doc : Docs, text : Texts]
    \cup [method : {"didChange"}, doc : Docs, changes : Seq(Texts)]
    \cup [method : {"didClose"}, doc : Docs]
    \cup [method : {"hover"}, doc : Docs, pos : Positions, id : Nat]
    \cup [method : {"diagnostic"}, doc : Docs, id : Nat]
    \cup [method : {"other", "shutdown"}, id : Nat]
    \cup [method : {"$/other", "exit"}]
IsRequest(m) == m.method \in {"hover", "diagnostic", "other", "shutdown"}

Results == {None, {}} \cup {Collected(t) : t \in Texts} \cup {HoverOf(t, p) : t \in Texts, p \in Positions}
News ==
  [method : {"publish"}, doc : Docs, items : {Collected(t) : t \in Texts}]
    \cup [method : {"response"}, id : Nat, result : Results]

Requests ==
  [method : {"notification", "other", "shutdown"}]
    \cup [method : {"diagnostic"}, text : Texts \cup {None}]
    \cup [method : {"hover"}, text : Texts \cup {None}, pos : Positions]

Typed ==
  /\ DOMAIN docs \subseteq Docs /\ \A d \in DOMAIN docs : docs[d] \in Texts
  /\ toServer \in Seq(Messages) /\ toClient \in Seq(News)
  /\ buffers \in [Docs -> Texts \cup {Closed}]
  /\ asked \in Seq(Requests) /\ Sent <= MaxMessages
  /\ answers \in [1..MaxMessages -> Seq(Results)]

\* What a message does to the text of a document.
Changes(m, d) ==
  /\ m.method \in {"didOpen", "didChange", "didClose"}
  /\ m.doc = d
  /\ m.method = "didChange" => m.changes # <<>>
Leaves(m) == CASE m.method = "didOpen" -> m.text
               [] m.method = "didChange" -> Last(m.changes)
               [] OTHER -> None
InTable(table, d) == IF d \in DOMAIN table THEN table[d] ELSE None

\* Once the first n messages are taken, the text of document d is x.
Stands(queue, table, n, d, x) ==
  \/ \E j \in 1..n :
       /\ Changes(queue[j], d) /\ x = Leaves(queue[j])
       /\ \A i \in (j + 1)..n : ~Changes(queue[i], d)
  \/ (\A i \in 1..n : ~Changes(queue[i], d)) /\ x = InTable(table, d)

\* When all is taken, the server has the texts of the editor.
TableFollows == \A d \in Docs : Stands(toServer, docs, Len(toServer), d, Text(d))

\* A request under way is the one that was asked, and when it comes to be taken
\* the table has the text its document had then.
Faithful(k) ==
  LET m == toServer[k]
  IN  /\ m.id \in 1..Sent /\ asked[m.id].method = m.method
      /\ m.method = "hover" => asked[m.id].pos = m.pos
      /\ m.method \in {"hover", "diagnostic"} => Stands(toServer, docs, k - 1, m.doc, asked[m.id].text)
RequestsFaithful == \A k \in 1..Len(toServer) : IsRequest(toServer[k]) => Faithful(k)

IsResponse(m) == m.method = "response"
ResponsesFit ==
  \A k \in 1..Len(toClient) :
    IsResponse(toClient[k]) => toClient[k].id \in 1..Sent /\ Answers(asked[toClient[k].id], toClient[k].result)

\* A request is in one place only: to be taken, answered but not read, or answered.
Pending == {k \in 1..Len(toServer) : IsRequest(toServer[k])}
Replied == {k \in 1..Len(toClient) : IsResponse(toClient[k]) /\ asked[toClient[k].id].method # "shutdown"}
InOnePlace ==
  /\ \A j, k \in Pending : toServer[j].id = toServer[k].id => j = k
  /\ \A j, k \in Replied : toClient[j].id = toClient[k].id => j = k
  /\ \A j \in Pending, k \in Replied : toServer[j].id # toClient[k].id
  /\ \A j \in Pending : asked[toServer[j].id].method # "shutdown" => answers[toServer[j].id] = <<>>
  /\ \A k \in Replied : answers[toClient[k].id] = <<>>
  /\ \A i \in 1..MaxMessages : i > Sent => answers[i] = <<>>

LspInv == Typed /\ TableFollows /\ RequestsFaithful /\ ResponsesFit /\ InOnePlace /\ AnswersFit

\* What the texts stand at when one message more is under way, or one less.
LEMMA StandsAppended ==
  ASSUME NEW queue \in Seq(Messages), NEW m \in Messages, NEW table, NEW n \in 0..Len(queue), NEW d, NEW x
  PROVE  LET more == Append(queue, m)
         IN  /\ Stands(queue, table, n, d, x) => Stands(more, table, n, d, x)
             /\ Stands(queue, table, Len(queue), d, x) =>
                  Stands(more, table, Len(queue) + 1, d, IF Changes(m, d) THEN Leaves(m) ELSE x)
<1> DEFINE more == Append(queue, m)
<1>1. /\ Len(queue) \in Nat /\ Len(more) = Len(queue) + 1
      /\ \A i \in 1..Len(queue) : more[i] = queue[i]
      /\ more[Len(queue) + 1] = m
  BY AppendProperties, LenProperties
<1> HIDE DEF more
<1>2. Stands(queue, table, n, d, x) => Stands(more, table, n, d, x)
  <2>1. \A i \in 1..n : more[i] = queue[i]
    BY <1>1
  <2> QED BY <2>1 DEF Stands
<1>3. ASSUME Stands(queue, table, Len(queue), d, x)
      PROVE  Stands(more, table, Len(queue) + 1, d, IF Changes(m, d) THEN Leaves(m) ELSE x)
  <2>1. CASE Changes(m, d)
    <3>1. Len(queue) + 1 \in 1..(Len(queue) + 1) /\ \A i \in (Len(queue) + 2)..(Len(queue) + 1) : FALSE
      BY <1>1
    <3> QED BY <1>1, <2>1, <3>1 DEF Stands
  <2>2. CASE ~Changes(m, d)
    <3>1. \A i \in 1..(Len(queue) + 1) : i \in 1..Len(queue) \/ i = Len(queue) + 1
      BY <1>1
    <3>2. CASE \E j \in 1..Len(queue) : Changes(queue[j], d) /\ x = Leaves(queue[j])
                                          /\ \A i \in (j + 1)..Len(queue) : ~Changes(queue[i], d)
      <4>1. PICK j \in 1..Len(queue) : Changes(queue[j], d) /\ x = Leaves(queue[j])
                                         /\ \A i \in (j + 1)..Len(queue) : ~Changes(queue[i], d)
        BY <3>2
      <4>2. j \in 1..(Len(queue) + 1) /\ more[j] = queue[j]
        BY <1>1
      <4>3. ASSUME NEW i \in (j + 1)..(Len(queue) + 1) PROVE ~Changes(more[i], d)
        BY <1>1, <2>2, <4>1
      <4> QED BY <2>2, <4>1, <4>2, <4>3 DEF Stands
    <3>3. CASE (\A i \in 1..Len(queue) : ~Changes(queue[i], d)) /\ x = InTable(table, d)
      BY <1>1, <2>2, <3>1, <3>3 DEF Stands
    <3> QED BY <1>3, <3>2, <3>3 DEF Stands
  <2> QED BY <2>1, <2>2
<1> QED BY <1>2, <1>3 DEF more

LEMMA StandsTaken ==
  ASSUME NEW queue \in Seq(Messages), queue # <<>>, NEW table, NEW left, NEW n \in 1..Len(queue), NEW d, NEW x,
         InTable(left, d) = IF Changes(Head(queue), d) THEN Leaves(Head(queue)) ELSE InTable(table, d),
         Stands(queue, table, n, d, x)
  PROVE  Stands(Tail(queue), left, n - 1, d, x)
<1>1. /\ Len(queue) \in Nat /\ queue[1] = Head(queue)
      /\ \A i \in 1..(Len(queue) - 1) : Tail(queue)[i] = queue[i + 1]
  BY HeadTailProperties, LenProperties
<1>2. CASE \E j \in 1..n : Changes(queue[j], d) /\ x = Leaves(queue[j]) /\ \A i \in (j + 1)..n : ~Changes(queue[i], d)
  <2>1. PICK j \in 1..n : Changes(queue[j], d) /\ x = Leaves(queue[j]) /\ \A i \in (j + 1)..n : ~Changes(queue[i], d)
    BY <1>2
  <2>2. \A i \in 1..(n - 1) : i + 1 \in 1..n /\ Tail(queue)[i] = queue[i + 1]
    BY <1>1
  <2>3. CASE j = 1
    <3>1. x = InTable(left, d)
      BY <1>1, <2>1, <2>3
    <3>2. \A i \in 1..(n - 1) : ~Changes(Tail(queue)[i], d)
      BY <2>1, <2>2, <2>3
    <3> QED BY <3>1, <3>2 DEF Stands
  <2>4. CASE j # 1
    <3>1. j - 1 \in 1..(n - 1) /\ Tail(queue)[j - 1] = queue[j]
      BY <1>1, <2>4
    <3>2. \A i \in ((j - 1) + 1)..(n - 1) : ~Changes(Tail(queue)[i], d)
      BY <2>1, <2>2
    <3> QED BY <2>1, <3>1, <3>2 DEF Stands
  <2> QED BY <2>3, <2>4
<1>3. CASE (\A i \in 1..n : ~Changes(queue[i], d)) /\ x = InTable(table, d)
  <2>1. x = InTable(left, d)
    BY <1>1, <1>3
  <2>2. \A i \in 1..(n - 1) : ~Changes(Tail(queue)[i], d)
    BY <1>1, <1>3
  <2> QED BY <2>1, <2>2 DEF Stands
<1> QED BY <1>2, <1>3 DEF Stands

\* What the actions of the editor that send have in common.
Sends(m) ==
  /\ m \in Messages /\ toServer' = Append(toServer, m)
  /\ asked' \in Seq(Requests) /\ Sent' \in Sent..MaxMessages /\ \A i \in 1..Sent : asked'[i] = asked[i]
  /\ IsRequest(m) =>
       /\ Sent' = Sent + 1 /\ m.id = Sent + 1 /\ asked'[Sent + 1].method = m.method
       /\ m.method = "hover" => asked'[Sent + 1].pos = m.pos
       /\ m.method \in {"hover", "diagnostic"} => asked'[Sent + 1].text = Text(m.doc)
  /\ buffers' \in [Docs -> Texts \cup {Closed}]
  /\ \A d \in Docs : Text(d)' = IF Changes(m, d) THEN Leaves(m) ELSE Text(d)
  /\ UNCHANGED <<docs, toClient, answers>>

Editing == Open \/ Edit \/ Close \/ Point \/ Pull \/ AskOther \/ AskShutdown \/ Leave

LEMMA RequestAppended ==
  ASSUME Typed, MayWork, NEW r \in Requests, Asks(r)
  PROVE  /\ asked' \in Seq(Requests) /\ Sent' = Sent + 1 /\ Sent' \in Sent..MaxMessages
         /\ asked'[Sent + 1] = r /\ \A i \in 1..Sent : asked'[i] = asked[i]
<1>1. asked \in Seq(Requests) /\ Sent \in Nat /\ MaxMessages \in Nat /\ Sent < MaxMessages
  BY LenProperties, NumbersNatural DEF Typed, MayWork, Sent
<1>2. /\ Append(asked, r) \in Seq(Requests) /\ Len(Append(asked, r)) = Len(asked) + 1
      /\ \A i \in 1..Len(asked) : Append(asked, r)[i] = asked[i]
      /\ Append(asked, r)[Len(asked) + 1] = r
  BY <1>1, AppendProperties
<1> QED BY <1>1, <1>2 DEF Asks, Sent

LEMMA NoticeRequest == Notice \in Requests
BY DEF Notice, Requests

LEMMA TextTyped ==
  ASSUME Typed, NEW d \in Docs
  PROVE  Text(d) \in Texts \cup {None}
BY DEF Typed, Text

LEMMA EditorSends ==
  ASSUME Typed, Editing
  PROVE  \E m : Sends(m)
<1>1. ASSUME Open PROVE \E m : Sends(m)
  <2>1. PICK d \in Docs, t \in Texts : /\ buffers[d] = Closed
                                       /\ buffers' = [buffers EXCEPT ![d] = t]
                                       /\ Send([method |-> "didOpen", doc |-> d, text |-> t])
    BY <1>1 DEF Open
  <2> DEFINE m == [method |-> "didOpen", doc |-> d, text |-> t]
  <2>2. m \in Messages /\ ~IsRequest(m)
    BY DEF Messages, IsRequest
  <2>3. t # Closed
    BY TextsNamed DEF Closed
  <2>4. \A e \in Docs : Text(e)' = IF Changes(m, e) THEN Leaves(m) ELSE Text(e)
    BY <2>1, <2>3 DEF Text, Changes, Leaves, Typed
  <2>5. Sends(m)
    BY <1>1, <2>1, <2>2, <2>4, NoticeRequest, RequestAppended DEF Sends, Open, Send, Typed, receiving
  <2> QED BY <2>5
<1>2. ASSUME Edit PROVE \E m : Sends(m)
  <2>1. PICK d \in Docs, changes \in {<<>>} \cup {<<t>> : t \in Texts} \cup {p \in Texts \X Texts : p[1] # p[2]} :
          /\ buffers[d] # Closed
          /\ buffers' = IF changes = <<>> THEN buffers ELSE [buffers EXCEPT ![d] = Last(changes)]
          /\ Send([method |-> "didChange", doc |-> d, changes |-> changes])
    BY <1>2 DEF Edit
  <2> DEFINE m == [method |-> "didChange", doc |-> d, changes |-> changes]
  <2>2. changes \in Seq(Texts) /\ (changes # <<>> => Last(changes) \in Texts)
    <3>1. CASE changes = <<>>
      BY <3>1, EmptySeq
    <3>2. CASE \E t \in Texts : changes = <<t>>
      BY <3>2 DEF Last
    <3>3. CASE changes \in Texts \X Texts
      <4>1. PICK a \in Texts, b \in Texts : changes = <<a, b>>
        BY <3>3
      <4> QED BY <4>1 DEF Last
    <3> QED BY <3>1, <3>2, <3>3
  <2>3. m \in Messages /\ ~IsRequest(m)
    BY <2>2 DEF Messages, IsRequest
  <2>4. \A t \in Texts : t # Closed
    BY TextsNamed DEF Closed
  <2>5. \A e \in Docs : Text(e)' = IF Changes(m, e) THEN Leaves(m) ELSE Text(e)
    BY <2>1, <2>2, <2>4 DEF Text, Changes, Leaves, Typed
  <2>6. buffers' \in [Docs -> Texts \cup {Closed}]
    BY <2>1, <2>2 DEF Typed
  <2>7. Sends(m)
    BY <1>2, <2>1, <2>3, <2>5, <2>6, NoticeRequest, RequestAppended DEF Sends, Edit, Send, receiving
  <2> QED BY <2>7
<1>3. ASSUME Close PROVE \E m : Sends(m)
  <2>1. PICK d \in Docs : /\ buffers[d] # Closed
                          /\ buffers' = [buffers EXCEPT ![d] = Closed]
                          /\ Send([method |-> "didClose", doc |-> d])
    BY <1>3 DEF Close
  <2> DEFINE m == [method |-> "didClose", doc |-> d]
  <2>2. m \in Messages /\ ~IsRequest(m)
    BY DEF Messages, IsRequest
  <2>3. \A e \in Docs : Text(e)' = IF Changes(m, e) THEN Leaves(m) ELSE Text(e)
    BY <2>1 DEF Text, Changes, Leaves, Typed
  <2>4. Sends(m)
    BY <1>3, <2>1, <2>2, <2>3, NoticeRequest, RequestAppended DEF Sends, Close, Send, Typed, receiving
  <2> QED BY <2>4
<1>4. ASSUME NEW m \in Messages, m.method \notin {"didOpen", "didChange", "didClose"}, UNCHANGED buffers, Typed
      PROVE  /\ buffers' \in [Docs -> Texts \cup {Closed}]
             /\ \A e \in Docs : Text(e)' = IF Changes(m, e) THEN Leaves(m) ELSE Text(e)
  BY <1>4 DEF Text, Changes, Typed
<1>5. ASSUME Point PROVE \E m : Sends(m)
  <2>1. PICK d \in Docs, pos \in Positions :
          /\ Send([method |-> "hover", doc |-> d, pos |-> pos, id |-> Sent + 1])
          /\ Asks([method |-> "hover", pos |-> pos, text |-> Text(d)])
    BY <1>5 DEF Point
  <2> DEFINE m == [method |-> "hover", doc |-> d, pos |-> pos, id |-> Sent + 1]
             r == [method |-> "hover", pos |-> pos, text |-> Text(d)]
  <2>2. m \in Messages /\ m.method \notin {"didOpen", "didChange", "didClose"}
    BY LenProperties DEF Messages, Typed, Sent
  <2>3. r \in Requests
    BY TextTyped DEF Requests
  <2> HIDE DEF r
  <2>4. /\ asked' \in Seq(Requests) /\ Sent' = Sent + 1 /\ Sent' \in Sent..MaxMessages
        /\ asked'[Sent + 1] = r /\ \A i \in 1..Sent : asked'[i] = asked[i]
    BY <1>5, <2>1, <2>3, RequestAppended DEF Point, r
  <2>5. Sends(m)
    BY <1>4, <1>5, <2>1, <2>2, <2>4 DEF Sends, Point, Send, receiving, r
  <2> QED BY <2>5
<1>6. ASSUME Pull PROVE \E m : Sends(m)
  <2>1. PICK d \in Docs : /\ Send([method |-> "diagnostic", doc |-> d, id |-> Sent + 1])
                          /\ Asks([method |-> "diagnostic", text |-> Text(d)])
    BY <1>6 DEF Pull
  <2> DEFINE m == [method |-> "diagnostic", doc |-> d, id |-> Sent + 1]
             r == [method |-> "diagnostic", text |-> Text(d)]
  <2>2. m \in Messages /\ m.method \notin {"didOpen", "didChange", "didClose"}
    BY LenProperties DEF Messages, Typed, Sent
  <2>3. r \in Requests
    BY TextTyped DEF Requests
  <2> HIDE DEF r
  <2>4. /\ asked' \in Seq(Requests) /\ Sent' = Sent + 1 /\ Sent' \in Sent..MaxMessages
        /\ asked'[Sent + 1] = r /\ \A i \in 1..Sent : asked'[i] = asked[i]
    BY <1>6, <2>1, <2>3, RequestAppended DEF Pull, r
  <2>5. Sends(m)
    BY <1>4, <1>6, <2>1, <2>2, <2>4 DEF Sends, Pull, Send, receiving, r
  <2> QED BY <2>5
<1>7. ASSUME NEW method \in {"other", "shutdown"}, MayWork,
             Send([method |-> method, id |-> Sent + 1]), Asks([method |-> method]),
             UNCHANGED <<docs, toClient, answers, buffers>>
      PROVE  \E m : Sends(m)
  <2> DEFINE m == [method |-> method, id |-> Sent + 1]
             r == [method |-> method]
  <2>1. m \in Messages /\ m.method \notin {"didOpen", "didChange", "didClose", "hover", "diagnostic"}
    BY LenProperties DEF Messages, Typed, Sent
  <2>2. r \in Requests
    BY DEF Requests
  <2> HIDE DEF r
  <2>3. /\ asked' \in Seq(Requests) /\ Sent' = Sent + 1 /\ Sent' \in Sent..MaxMessages
        /\ asked'[Sent + 1] = r /\ \A i \in 1..Sent : asked'[i] = asked[i]
    BY <1>7, <2>2, RequestAppended DEF r
  <2>4. Sends(m)
    BY <1>4, <1>7, <2>1, <2>3 DEF Sends, Send, r
  <2> QED BY <2>4
<1>8. ASSUME NEW method \in {"$/other", "exit"}, Send([method |-> method]),
             (Asks(Notice) /\ MayWork) \/ UNCHANGED asked,
             UNCHANGED <<docs, toClient, answers, buffers>>
      PROVE  \E m : Sends(m)
  <2> DEFINE m == [method |-> method]
  <2>1. m \in Messages /\ m.method \notin {"didOpen", "didChange", "didClose"} /\ ~IsRequest(m)
    BY DEF Messages, IsRequest
  <2>2. asked' \in Seq(Requests) /\ Sent' \in Sent..MaxMessages /\ \A i \in 1..Sent : asked'[i] = asked[i]
    <3>1. CASE Asks(Notice) /\ MayWork
      BY <3>1, NoticeRequest, RequestAppended
    <3>2. CASE UNCHANGED asked
      BY <3>2, LenProperties, NumbersNatural DEF Typed, Sent
    <3> QED BY <1>8, <3>1, <3>2
  <2>3. Sends(m)
    BY <1>4, <1>8, <2>1, <2>2 DEF Sends, Send
  <2> QED BY <2>3
<1>9. CASE AskOther
  BY <1>7, <1>8, <1>9 DEF AskOther, receiving
<1>10. CASE AskShutdown
  BY <1>7, <1>10 DEF AskShutdown, receiving
<1>11. CASE Leave
  BY <1>8, <1>11 DEF Leave, receiving
<1> QED BY <1>1, <1>2, <1>3, <1>5, <1>6, <1>9, <1>10, <1>11 DEF Editing

\* What the actions of the server that take a message have in common.
Handles ==
  /\ toServer # <<>> /\ toServer' = Tail(toServer)
  /\ DOMAIN docs' \subseteq Docs /\ \A d \in DOMAIN docs' : docs'[d] \in Texts
  /\ \A d \in Docs :
       InTable(docs', d) = IF Changes(Head(toServer), d) THEN Leaves(Head(toServer)) ELSE InTable(docs, d)
  /\ \/ toClient' = toClient
     \/ \E news \in News :
          /\ toClient' = Append(toClient, news)
          /\ IsResponse(news) => /\ IsRequest(Head(toServer)) /\ news.id = Head(toServer).id
                                 /\ Answers(asked[news.id], news.result)
  /\ UNCHANGED <<buffers, asked, answers>>

Taking ==
  \/ DidOpen \/ DidChange \/ DidClose \/ OnOther \/ OnHover \/ HoverCrash \/ OnDiagnostic \/ OnOtherRequest
  \/ OnShutdown \/ ExitInTime \/ LateExit

LEMMA OneReply ==
  ASSUME toClient \in Seq(News), NEW news \in News
  PROVE  toClient \o <<news>> = Append(toClient, news)
OBVIOUS

LEMMA StoredTyped ==
  ASSUME Typed, NEW doc \in Docs, NEW text \in Texts, docs' = Stored(doc, text)
  PROVE  /\ DOMAIN docs' \subseteq Docs /\ \A d \in DOMAIN docs' : docs'[d] \in Texts
         /\ \A d \in Docs : InTable(docs', d) = IF d = doc THEN text ELSE InTable(docs, d)
BY DEF Typed, Stored, InTable

\* A hover that does not panic gives the word around the position.
LEMMA HoverFits ==
  ASSUME NEW t \in Texts, NEW pos \in Positions, NEW request, request.method = "hover",
         request.text = t, request.pos = pos,
         HasLine(t, pos) => ~HoverPanics(LineAt(t, pos), pos.col)
  PROVE  Answers(request, HoverOf(t, pos))
<1> DEFINE line == LineAt(t, pos)
           Byte == {"letter", "wide letter", "sign", "wide sign", "tail"}
<1>1. CASE ~HasLine(t, pos)
  BY <1>1 DEF Answers, HoverOf
<1>2. CASE HasLine(t, pos)
  <2>1. Lines(t) \in Seq(Seq(Byte)) /\ pos.line \in Nat /\ pos.col \in Nat
    BY LinesOfBytes, NumbersNatural
  <2> HIDE DEF Byte
  <2>2. line \in Seq(Byte)
    <3>1. pos.line + 1 \in 1..Len(Lines(t))
      BY <1>2, <2>1, LenProperties DEF HasLine
    <3> QED BY <2>1, <3>1, ElementOfSeq DEF LineAt
  <2>3. pos.col \in 0..Len(line)
    BY <1>2, <2>1, <2>2, LenProperties DEF HoverPanics, Boundary
  <2>4. t # None
    BY TextsNamed DEF None
  <2> HIDE DEF line
  <2>5. HoverOf(t, pos) = WordAt(line, pos.col)
    BY <1>2 DEF HoverOf, line
  <2>6. Narrow(line) => HoverOf(t, pos) = Around(line, pos.col)
    BY <2>2, <2>3, <2>5, WholeWord
  <2> QED BY <1>2, <2>4, <2>6 DEF Answers, line
<1> QED BY <1>1, <1>2

LEMMA TableHasText ==
  ASSUME Typed, RequestsFaithful, toServer # <<>>, message.method \in {"hover", "diagnostic"}
  PROVE  /\ message.id \in 1..Sent /\ asked[message.id].method = message.method
         /\ message.method = "hover" => asked[message.id].pos = message.pos
         /\ asked[message.id].text = InTable(docs, message.doc)
<1>1. 1 \in 1..Len(toServer) /\ message = toServer[1]
  BY EmptySeq DEF Typed, message
<1>2. Faithful(1)
  BY <1>1 DEF RequestsFaithful, IsRequest
<1> QED BY <1>1, <1>2 DEF Faithful, Stands

LEMMA ServerTakes ==
  ASSUME Typed, RequestsFaithful, Taking
  PROVE  Handles
<1>1. toServer # <<>> /\ toServer' = Tail(toServer) /\ message \in Messages /\ message = Head(toServer)
  <2>1. toServer # <<>> /\ toServer' = Tail(toServer)
    BY DEF Taking, DidOpen, DidChange, DidClose, OnOther, OnHover, HoverCrash, OnDiagnostic, OnOtherRequest,
           OnShutdown, ExitInTime, LateExit, Takes
  <2> QED BY <2>1, HeadTailProperties DEF message, Typed
<1>2. UNCHANGED <<buffers, asked, answers>>
  BY DEF Taking, DidOpen, DidChange, DidClose, OnOther, OnHover, HoverCrash, OnDiagnostic, OnOtherRequest,
         OnShutdown, ExitInTime, LateExit, sending, receiving
<1>3. toClient \in Seq(News)
  BY DEF Typed
<1>4. ASSUME docs' = docs, \A d \in Docs : ~Changes(message, d)
      PROVE  /\ DOMAIN docs' \subseteq Docs /\ \A d \in DOMAIN docs' : docs'[d] \in Texts
             /\ \A d \in Docs : InTable(docs', d) = IF Changes(message, d) THEN Leaves(message) ELSE InTable(docs, d)
  BY <1>4 DEF Typed
<1>5. ASSUME NEW doc \in Docs, NEW text \in Texts, Reply(<<Publish(doc, text)>>)
      PROVE  \E news \in News : toClient' = Append(toClient, news) /\ ~IsResponse(news)
  <2>1. Publish(doc, text) \in News /\ ~IsResponse(Publish(doc, text))
    BY DEF Publish, News, IsResponse
  <2> QED BY <1>3, <1>5, <2>1, OneReply DEF Reply
<1>6. ASSUME NEW id \in 1..Sent, NEW result \in Results, Reply(<<Response(id, result)>>), IsRequest(message), id = message.id,
             Answers(asked[id], result)
      PROVE  \E news \in News :
               /\ toClient' = Append(toClient, news)
               /\ IsRequest(message) /\ news.id = message.id /\ Answers(asked[news.id], news.result)
  <2>1. Response(id, result) \in News
    BY DEF Response, News
  <2>2. Response(id, result).id = id /\ Response(id, result).result = result
    BY DEF Response
  <2> QED BY <1>3, <1>6, <2>1, <2>2, OneReply DEF Reply
<1>7. CASE DidOpen
  <2>1. message.doc \in Docs /\ message.text \in Texts /\ message.method = "didOpen"
    BY <1>1, <1>7 DEF DidOpen, Takes, Messages, message
  <2>2. \A d \in Docs : Changes(message, d) <=> d = message.doc
    BY <2>1 DEF Changes
  <2>3. Leaves(message) = message.text
    BY <2>1 DEF Leaves
  <2> QED BY <1>1, <1>2, <1>5, <1>7, <2>1, <2>2, <2>3, StoredTyped DEF DidOpen, Handles
<1>8. CASE DidChange
  <2>1. message.doc \in Docs /\ message.changes \in Seq(Texts) /\ message.method = "didChange"
    BY <1>1, <1>8 DEF DidChange, Takes, Messages, message
  <2>2. CASE message.changes = <<>>
    BY <1>1, <1>2, <1>4, <1>8, <2>1, <2>2 DEF DidChange, Handles, Changes
  <2>3. CASE message.changes # <<>>
    <3>1. Last(message.changes) \in Texts
      BY <2>1, <2>3, EmptySeq, ElementOfSeq DEF Last
    <3>2. \A d \in Docs : Changes(message, d) <=> d = message.doc
      BY <2>1, <2>3 DEF Changes
    <3>3. Leaves(message) = Last(message.changes)
      BY <2>1 DEF Leaves
    <3> QED BY <1>1, <1>2, <1>5, <1>8, <2>1, <2>3, <3>1, <3>2, <3>3, StoredTyped DEF DidChange, Handles
  <2> QED BY <2>2, <2>3
<1>9. CASE DidClose
  <2>1. message.doc \in Docs /\ message.method = "didClose"
    BY <1>1, <1>9 DEF DidClose, Takes, Messages, message
  <2>2. DOMAIN docs' \subseteq Docs /\ \A d \in DOMAIN docs' : docs'[d] \in Texts
    BY <1>9 DEF DidClose, Typed
  <2>3. \A d \in Docs : InTable(docs', d) = IF Changes(message, d) THEN Leaves(message) ELSE InTable(docs, d)
    BY <1>9, <2>1 DEF DidClose, InTable, Changes, Leaves
  <2> QED BY <1>1, <1>2, <1>9, <2>2, <2>3 DEF DidClose, Handles
<1>10. CASE OnOther \/ HoverCrash \/ ExitInTime \/ LateExit
  <2>1. message.method \notin {"didOpen", "didChange", "didClose"}
    BY <1>1, <1>10 DEF OnOther, HoverCrash, ExitInTime, LateExit, Takes
  <2>2. UNCHANGED <<docs, toClient>>
    BY <1>10 DEF OnOther, HoverCrash, ExitInTime, LateExit
  <2>8. /\ DOMAIN docs' \subseteq Docs /\ \A d \in DOMAIN docs' : docs'[d] \in Texts
        /\ \A d \in Docs : InTable(docs', d) = IF Changes(message, d) THEN Leaves(message) ELSE InTable(docs, d)
    BY <1>4, <2>1, <2>2 DEF Changes
  <2> QED BY <1>1, <1>2, <2>2, <2>8 DEF Handles
<1>11. CASE OnHover
  <2>1. message.method = "hover" /\ UNCHANGED docs
    BY <1>1, <1>11 DEF OnHover, Takes
  <2>2. message.pos \in Positions /\ message.doc \in Docs
    BY <1>1, <2>1 DEF Messages
  <2>3. /\ message.id \in 1..Sent /\ asked[message.id].method = "hover" /\ asked[message.id].pos = message.pos
        /\ asked[message.id].text = InTable(docs, message.doc)
    BY <1>1, <2>1, TableHasText
  <2>4. PICK result : /\ Reply(<<Response(message.id, result)>>)
                      /\ result = IF Known THEN HoverOf(docs[message.doc], message.pos) ELSE {}
    BY <1>11 DEF OnHover
  <2>5. result \in Results /\ Answers(asked[message.id], result)
    <3>1. CASE Known
      <4>1. docs[message.doc] \in Texts /\ asked[message.id].text = docs[message.doc]
        BY <2>3, <3>1 DEF Known, InTable, Typed
      <4>2. HasLine(docs[message.doc], message.pos) => ~HoverPanics(LineAt(docs[message.doc], message.pos), message.pos.col)
        BY <1>11, <3>1 DEF OnHover, Panics
      <4>3. Answers(asked[message.id], HoverOf(docs[message.doc], message.pos))
        BY <2>2, <2>3, <4>1, <4>2, HoverFits
      <4> QED BY <2>2, <2>4, <3>1, <4>1, <4>3 DEF Results
    <3>2. CASE ~Known
      BY <2>3, <2>4, <3>2 DEF Known, InTable, Answers, Results
    <3> QED BY <3>1, <3>2
  <2>8. /\ DOMAIN docs' \subseteq Docs /\ \A d \in DOMAIN docs' : docs'[d] \in Texts
        /\ \A d \in Docs : InTable(docs', d) = IF Changes(message, d) THEN Leaves(message) ELSE InTable(docs, d)
    BY <1>4, <2>1 DEF Changes
  <2>9. \E news \in News :
          /\ toClient' = Append(toClient, news)
          /\ IsRequest(message) /\ news.id = message.id /\ Answers(asked[news.id], news.result)
    BY <1>6, <2>1, <2>3, <2>4, <2>5 DEF IsRequest
  <2> QED BY <1>1, <1>2, <2>8, <2>9 DEF Handles
<1>12. CASE OnDiagnostic
  <2>1. message.method = "diagnostic" /\ UNCHANGED docs
    BY <1>1, <1>12 DEF OnDiagnostic, Takes
  <2>2. /\ message.id \in 1..Sent /\ asked[message.id].method = "diagnostic"
        /\ asked[message.id].text = InTable(docs, message.doc)
    BY <1>1, <2>1, TableHasText
  <2>3. PICK result : Reply(<<Response(message.id, result)>>) /\ result = CollectedOf(docs, message.doc)
    BY <1>12 DEF OnDiagnostic
  <2>4. \A t \in Texts : t # None
    BY TextsNamed DEF None
  <2>5. result \in Results /\ Answers(asked[message.id], result)
    BY <2>2, <2>3, <2>4 DEF CollectedOf, InTable, Answers, Results, Typed
  <2>8. /\ DOMAIN docs' \subseteq Docs /\ \A d \in DOMAIN docs' : docs'[d] \in Texts
        /\ \A d \in Docs : InTable(docs', d) = IF Changes(message, d) THEN Leaves(message) ELSE InTable(docs, d)
    BY <1>4, <2>1 DEF Changes
  <2>9. \E news \in News :
          /\ toClient' = Append(toClient, news)
          /\ IsRequest(message) /\ news.id = message.id /\ Answers(asked[news.id], news.result)
    BY <1>6, <2>1, <2>2, <2>3, <2>5 DEF IsRequest
  <2> QED BY <1>1, <1>2, <2>8, <2>9 DEF Handles
<1>13. CASE OnOtherRequest \/ OnShutdown
  <2>1. message.method \in {"other", "shutdown"} /\ UNCHANGED docs /\ Reply(<<Response(message.id, None)>>)
    BY <1>1, <1>13 DEF OnOtherRequest, OnShutdown, Takes
  <2>2. 1 \in 1..Len(toServer) /\ message = toServer[1]
    BY <1>1, EmptySeq DEF Typed, message
  <2>3. message.id \in 1..Sent /\ asked[message.id].method = message.method
    BY <2>1, <2>2 DEF RequestsFaithful, IsRequest, Faithful
  <2>4. None \in Results /\ Answers(asked[message.id], None)
    BY <2>1, <2>3 DEF Results, Answers
  <2>8. /\ DOMAIN docs' \subseteq Docs /\ \A d \in DOMAIN docs' : docs'[d] \in Texts
        /\ \A d \in Docs : InTable(docs', d) = IF Changes(message, d) THEN Leaves(message) ELSE InTable(docs, d)
    BY <1>4, <2>1 DEF Changes
  <2>9. \E news \in News :
          /\ toClient' = Append(toClient, news)
          /\ IsRequest(message) /\ news.id = message.id /\ Answers(asked[news.id], news.result)
    BY <1>6, <2>1, <2>3, <2>4 DEF IsRequest
  <2> QED BY <1>1, <1>2, <2>8, <2>9 DEF Handles
<1> QED BY <1>7, <1>8, <1>9, <1>10, <1>11, <1>12, <1>13 DEF Taking

LEMMA SendingKeeps ==
  ASSUME LspInv, NEW m, Sends(m)
  PROVE  LspInv'
<1> USE DEF Sends
<1>1. /\ toServer \in Seq(Messages) /\ Len(toServer) \in Nat /\ Sent \in Nat /\ Sent' \in Nat
      /\ toServer' \in Seq(Messages) /\ Len(toServer') = Len(toServer) + 1
      /\ \A k \in 1..Len(toServer) : toServer'[k] = toServer[k]
      /\ toServer'[Len(toServer) + 1] = m
  BY AppendProperties, LenProperties, NumbersNatural DEF LspInv, Typed, Sent
<1>2. Typed'
  BY <1>1 DEF LspInv, Typed
<1>3. TableFollows'
  <2> SUFFICES ASSUME NEW d \in Docs PROVE Stands(toServer', docs', Len(toServer'), d, Text(d)')
    BY DEF TableFollows
  <2>1. Stands(toServer, docs, Len(toServer), d, Text(d))
    BY DEF LspInv, TableFollows
  <2>2. Stands(Append(toServer, m), docs, Len(toServer) + 1, d, IF Changes(m, d) THEN Leaves(m) ELSE Text(d))
    BY <1>1, <2>1, StandsAppended
  <2> QED BY <1>1, <2>2
<1>4. RequestsFaithful'
  <2> SUFFICES ASSUME NEW k \in 1..Len(toServer'), IsRequest(toServer'[k]) PROVE Faithful(k)'
    BY DEF RequestsFaithful
  <2>1. CASE k \in 1..Len(toServer)
    <3>1. toServer'[k] = toServer[k] /\ Faithful(k)
      BY <1>1, <2>1 DEF LspInv, RequestsFaithful
    <3>2. toServer[k].id \in 1..Sent /\ asked'[toServer[k].id] = asked[toServer[k].id]
      BY <3>1 DEF Faithful
    <3>3. toServer[k].method \in {"hover", "diagnostic"} =>
            Stands(toServer', docs', k - 1, toServer[k].doc, asked[toServer[k].id].text)
      BY <1>1, <2>1, <3>1, StandsAppended DEF Faithful
    <3> QED BY <1>1, <3>1, <3>2, <3>3 DEF Faithful
  <2>2. CASE k = Len(toServer) + 1
    <3>1. toServer'[k] = m
      BY <1>1, <2>2
    <3>2. m.method \in {"hover", "diagnostic"} => Stands(toServer', docs', k - 1, m.doc, Text(m.doc))
      <4>1. ASSUME m.method \in {"hover", "diagnostic"} PROVE m.doc \in Docs
        BY <4>1 DEF Messages
      <4>2. ASSUME m.method \in {"hover", "diagnostic"} PROVE Stands(toServer, docs, Len(toServer), m.doc, Text(m.doc))
        BY <4>1, <4>2 DEF LspInv, TableFollows
      <4> QED BY <1>1, <2>2, <4>2, StandsAppended
    <3> QED BY <1>1, <3>1, <3>2 DEF Faithful
  <2> QED BY <1>1, <2>1, <2>2
<1>5. ResponsesFit'
  BY <1>1 DEF LspInv, ResponsesFit
<1>6. InOnePlace'
  <2>1. \A j \in Pending : toServer[j].id \in 1..Sent
    BY DEF LspInv, RequestsFaithful, Faithful, Pending
  <2>2. \A k \in 1..Len(toClient) : IsResponse(toClient[k]) => toClient[k].id \in 1..Sent
    BY DEF LspInv, ResponsesFit
  <2>3. Replied' = Replied
    BY <2>2 DEF Replied
  <2>4. Pending' = Pending \cup IF IsRequest(m) THEN {Len(toServer) + 1} ELSE {}
    BY <1>1 DEF Pending
  <2>5. \A j \in Pending : toServer'[j] = toServer[j] /\ j # Len(toServer) + 1
    BY <1>1 DEF Pending
  <2>6. \A k \in Replied : toClient[k].id \in 1..Sent
    BY <2>2 DEF Replied
  <2>7. IsRequest(m) => m.id = Sent + 1 /\ Sent' = Sent + 1 /\ Sent + 1 \in 1..MaxMessages
    BY <1>1, NumbersNatural
  <2>8. InOnePlace
    BY DEF LspInv
  <2> DEFINE id(j) == toServer'[j].id
  <2>13. \A j \in Pending' :
           \/ j \in Pending /\ id(j) = toServer[j].id /\ id(j) \in 1..Sent /\ asked'[id(j)] = asked[id(j)]
           \/ j = Len(toServer) + 1 /\ id(j) = Sent + 1 /\ Sent + 1 \in 1..MaxMessages
    <3> SUFFICES ASSUME NEW j \in Pending', j \notin Pending
                 PROVE  j = Len(toServer) + 1 /\ id(j) = Sent + 1 /\ Sent + 1 \in 1..MaxMessages
      BY <2>1, <2>5
    <3>1. IsRequest(m) /\ j = Len(toServer) + 1
      BY <2>4
    <3> QED BY <1>1, <2>7, <3>1
  <2> HIDE DEF id
  <2>9. \A j, k \in Pending' : id(j) = id(k) => j = k
    BY <1>1, <2>8, <2>13 DEF InOnePlace
  <2>10. \A j \in Pending', k \in Replied' : id(j) # toClient'[k].id
    BY <1>1, <2>3, <2>6, <2>8, <2>13 DEF InOnePlace
  <2>11. \A j \in Pending' : asked'[id(j)].method # "shutdown" => answers'[id(j)] = <<>>
    <3> SUFFICES ASSUME NEW j \in Pending', asked'[id(j)].method # "shutdown" PROVE answers[id(j)] = <<>>
      OBVIOUS
    <3>1. CASE j \in Pending /\ id(j) = toServer[j].id /\ asked'[id(j)] = asked[id(j)]
      BY <2>8, <3>1 DEF InOnePlace
    <3>2. CASE id(j) = Sent + 1 /\ Sent + 1 \in 1..MaxMessages
      BY <1>1, <2>8, <3>2 DEF InOnePlace
    <3> QED BY <2>13, <3>1, <3>2
  <2>12. \A i \in 1..MaxMessages : i > Sent' => answers'[i] = <<>>
    BY <1>1, <2>8, NumbersNatural DEF InOnePlace
  <2> QED BY <2>3, <2>8, <2>9, <2>10, <2>11, <2>12 DEF InOnePlace, id
<1>7. AnswersFit'
  <2> SUFFICES ASSUME NEW i \in 1..Sent'
               PROVE  /\ \A k \in DOMAIN answers[i] : Answers(asked'[i], answers[i][k])
                      /\ asked'[i].method # "shutdown" => Len(answers[i]) <= 1
    BY <1>2, LenProperties DEF AnswersFit, Typed, Sent
  <2>1. CASE i \in 1..Sent
    BY <2>1, LenProperties DEF LspInv, AnswersFit, Typed, Sent
  <2>2. CASE i \notin 1..Sent
    <3>1. answers[i] = <<>>
      BY <1>1, <2>2, NumbersNatural DEF LspInv, InOnePlace
    <3> QED BY <3>1, EmptySeq
  <2> QED BY <2>1, <2>2
<1> QED BY <1>2, <1>3, <1>4, <1>5, <1>6, <1>7 DEF LspInv

LEMMA HandlingKeeps ==
  ASSUME LspInv, Handles
  PROVE  LspInv'
<1> USE DEF Handles
<1>1. /\ toServer \in Seq(Messages) /\ Len(toServer) \in Nat \ {0}
      /\ toServer' \in Seq(Messages) /\ Len(toServer') = Len(toServer) - 1
      /\ \A k \in 1..Len(toServer') : toServer'[k] = toServer[k + 1]
      /\ toServer[1] = Head(toServer)
  BY HeadTailProperties, EmptySeq DEF LspInv, Typed
<1>2. toClient \in Seq(News) /\ Len(toClient) \in Nat
  BY LenProperties DEF LspInv, Typed
<1> DEFINE Due(news) == IsResponse(news) => /\ IsRequest(toServer[1]) /\ news.id = toServer[1].id
                                            /\ Answers(asked[news.id], news.result)
           Longer(more) == /\ toClient' \in Seq(News) /\ Len(toClient') = Len(toClient) + more
                           /\ \A k \in 1..Len(toClient) : toClient'[k] = toClient[k]
                           /\ more = 1 => Due(toClient'[Len(toClient) + 1])
<1>3. PICK more \in {0, 1} : Longer(more)
  <2>1. CASE toClient' = toClient
    <3>1. Longer(0)
      BY <1>2, <2>1
    <3> HIDE DEF Longer
    <3> QED BY <3>1
  <2>2. CASE toClient' # toClient
    <3>1. PICK news \in News : /\ toClient' = Append(toClient, news)
                               /\ IsResponse(news) => /\ IsRequest(Head(toServer)) /\ news.id = Head(toServer).id
                                                      /\ Answers(asked[news.id], news.result)
      BY <2>2
    <3>2. /\ toClient' \in Seq(News) /\ Len(toClient') = Len(toClient) + 1
          /\ \A k \in 1..Len(toClient) : toClient'[k] = toClient[k]
          /\ toClient'[Len(toClient) + 1] = news
      BY <1>2, <3>1, AppendProperties
    <3>3. Due(toClient'[Len(toClient) + 1])
      BY <1>1, <3>1, <3>2
    <3> QED BY <3>2, <3>3
  <2> QED BY <2>1, <2>2
<1>4. Typed'
  BY <1>1, <1>3 DEF LspInv, Typed, Sent
<1>5. ASSUME NEW n \in 1..Len(toServer), NEW d \in Docs, NEW x, Stands(toServer, docs, n, d, x)
      PROVE  Stands(toServer', docs', n - 1, d, x)
  <2>1. InTable(docs', d) = IF Changes(Head(toServer), d) THEN Leaves(Head(toServer)) ELSE InTable(docs, d)
    OBVIOUS
  <2> QED BY <1>1, <1>5, <2>1, StandsTaken
<1>6. TableFollows'
  <2> SUFFICES ASSUME NEW d \in Docs PROVE Stands(toServer', docs', Len(toServer'), d, Text(d)')
    BY DEF TableFollows
  <2>1. Stands(toServer, docs, Len(toServer), d, Text(d))
    BY DEF LspInv, TableFollows
  <2>2. Text(d)' = Text(d)
    BY DEF Text
  <2> QED BY <1>1, <1>5, <2>1, <2>2
<1>7. RequestsFaithful'
  <2> SUFFICES ASSUME NEW k \in 1..Len(toServer'), IsRequest(toServer'[k]) PROVE Faithful(k)'
    BY DEF RequestsFaithful
  <2>1. k + 1 \in 1..Len(toServer) /\ toServer'[k] = toServer[k + 1] /\ Faithful(k + 1) /\ (k + 1) - 1 = k
    BY <1>1 DEF LspInv, RequestsFaithful
  <2>2. toServer[k + 1].method \in {"hover", "diagnostic"} => toServer[k + 1].doc \in Docs
    <3>1. toServer[k + 1] \in Messages
      BY <1>1, <2>1, ElementOfSeq
    <3> QED BY <3>1 DEF Messages
  <2>3. toServer[k + 1].method \in {"hover", "diagnostic"} =>
          Stands(toServer', docs', k - 1, toServer[k + 1].doc, asked[toServer[k + 1].id].text)
    <3>1. k \in 1..Len(toServer)
      BY <1>1
    <3> QED BY <1>5, <2>1, <2>2, <3>1 DEF Faithful
  <2> QED BY <2>1, <2>3 DEF Faithful, Sent
<1>8. 1 \in 1..Len(toServer) /\ (IsRequest(toServer[1]) => toServer[1].id \in 1..Sent)
  BY <1>1 DEF LspInv, RequestsFaithful, Faithful
<1>9. ResponsesFit'
  <2> SUFFICES ASSUME NEW k \in 1..Len(toClient'), IsResponse(toClient'[k])
               PROVE  toClient'[k].id \in 1..Sent /\ Answers(asked[toClient'[k].id], toClient'[k].result)
    BY DEF ResponsesFit, Sent
  <2>1. CASE k \in 1..Len(toClient)
    BY <1>3, <2>1 DEF LspInv, ResponsesFit
  <2>2. CASE k = Len(toClient) + 1 /\ more = 1
    BY <1>3, <1>8, <2>2
  <2> QED BY <1>2, <1>3, <2>1, <2>2
<1>10. InOnePlace'
  <2> DEFINE idS(k) == toServer[k].id
             idC(k) == toClient[k].id
  <2>1. \A k \in Pending' : /\ k + 1 \in Pending /\ k + 1 # 1 /\ k \in Nat
                            /\ toServer'[k].id = idS(k + 1)
    BY <1>1 DEF Pending
  <2>2. \A k \in Replied' : \/ k \in Replied /\ toClient'[k].id = idC(k)
                            \/ /\ k = Len(toClient) + 1 /\ 1 \in Pending /\ toClient'[k].id = idS(1)
                               /\ asked[idS(1)].method # "shutdown"
    BY <1>1, <1>2, <1>3 DEF Pending, Replied
  <2>3. InOnePlace
    BY DEF LspInv
  <2>4. /\ \A j, k \in Pending : idS(j) = idS(k) => j = k
        /\ \A j, k \in Replied : idC(j) = idC(k) => j = k
        /\ \A j \in Pending, k \in Replied : idS(j) # idC(k)
        /\ \A j \in Pending : asked[idS(j)].method # "shutdown" => answers[idS(j)] = <<>>
        /\ \A k \in Replied : answers[idC(k)] = <<>>
    BY <2>3 DEF InOnePlace
  <2> HIDE DEF idS, idC
  <2>5. \A j, k \in Pending' : toServer'[j].id = toServer'[k].id => j = k
    <3> SUFFICES ASSUME NEW j \in Pending', NEW k \in Pending', toServer'[j].id = toServer'[k].id PROVE j = k
      OBVIOUS
    <3>1. idS(j + 1) = idS(k + 1)
      BY <2>1
    <3>2. j + 1 = k + 1 /\ j \in Nat /\ k \in Nat
      BY <2>1, <2>4, <3>1
    <3> QED BY <3>2
  <2>6. \A j, k \in Replied' : toClient'[j].id = toClient'[k].id => j = k
    BY <2>2, <2>4
  <2>7. \A j \in Pending', k \in Replied' : toServer'[j].id # toClient'[k].id
    <3> SUFFICES ASSUME NEW j \in Pending', NEW k \in Replied', idS(j + 1) = toClient'[k].id PROVE FALSE
      BY <2>1
    <3>1. j + 1 \in Pending /\ j + 1 # 1
      BY <2>1
    <3>2. CASE k \in Replied /\ toClient'[k].id = idC(k)
      BY <2>4, <3>1, <3>2
    <3>3. CASE 1 \in Pending /\ toClient'[k].id = idS(1)
      BY <2>4, <3>1, <3>3
    <3> QED BY <2>2, <3>2, <3>3
  <2>8. \A j \in Pending' : asked[toServer'[j].id].method # "shutdown" => answers[toServer'[j].id] = <<>>
    BY <2>1, <2>4
  <2>9. \A k \in Replied' : answers[toClient'[k].id] = <<>>
    BY <2>2, <2>4
  <2>10. \A i \in 1..MaxMessages : i > Sent => answers[i] = <<>>
    BY <2>3 DEF InOnePlace
  <2> QED BY <2>5, <2>6, <2>7, <2>8, <2>9, <2>10 DEF InOnePlace, Sent
<1>11. AnswersFit'
  BY DEF LspInv, AnswersFit
<1> QED BY <1>4, <1>6, <1>7, <1>9, <1>10, <1>11 DEF LspInv

\* Half a minute after shutdown, it is answered once more.
LEMMA TimeoutKeeps ==
  ASSUME LspInv, ExitTimeout
  PROVE  LspInv'
<1>1. PICK i \in DOMAIN asked : asked[i].method = "shutdown" /\ Reply(<<Response(i, None)>>)
  BY DEF ExitTimeout
<1>2. i \in 1..Sent /\ toClient \in Seq(News) /\ Len(toClient) \in Nat /\ Sent \in Nat
  BY LenProperties DEF LspInv, Typed, Sent
<1>3. Response(i, None) \in News /\ Response(i, None).id = i /\ Answers(asked[i], Response(i, None).result)
  BY <1>1, <1>2 DEF Response, News, Results, Answers
<1>4. /\ toClient' \in Seq(News) /\ Len(toClient') = Len(toClient) + 1
      /\ \A k \in 1..Len(toClient) : toClient'[k] = toClient[k]
      /\ toClient'[Len(toClient) + 1] = Response(i, None)
  BY <1>1, <1>2, <1>3, OneReply, AppendProperties DEF Reply
<1>5. UNCHANGED <<docs, toServer, buffers, asked, answers>>
  BY DEF ExitTimeout, sending, receiving
<1>6. Typed' /\ AnswersFit'
  BY <1>4, <1>5 DEF LspInv, Typed, Sent, AnswersFit
<1>7. TableFollows' /\ RequestsFaithful'
  BY <1>5 DEF LspInv, TableFollows, RequestsFaithful, Faithful, Text, Sent
<1>8. ResponsesFit'
  BY <1>2, <1>3, <1>4, <1>5 DEF LspInv, ResponsesFit, Sent
<1>9. Pending' = Pending /\ Replied' = Replied /\ \A k \in Replied : toClient'[k] = toClient[k]
  BY <1>1, <1>2, <1>3, <1>4, <1>5 DEF Pending, Replied
<1>10. InOnePlace'
  BY <1>5, <1>9 DEF LspInv, InOnePlace, Sent
<1> QED BY <1>6, <1>7, <1>8, <1>10 DEF LspInv

LEMMA ReceivingKeeps ==
  ASSUME LspInv, Receive
  PROVE  LspInv'
<1>1. /\ toClient \in Seq(News) /\ toClient # <<>> /\ Len(toClient) \in Nat \ {0}
      /\ toClient' \in Seq(News) /\ Len(toClient') = Len(toClient) - 1
      /\ \A k \in 1..Len(toClient') : toClient'[k] = toClient[k + 1]
      /\ toClient[1] = Head(toClient) /\ Head(toClient) \in News
  BY HeadTailProperties, EmptySeq DEF LspInv, Typed, Receive
<1>2. UNCHANGED <<docs, toServer, buffers, asked>>
  BY DEF Receive, sending
<1>3. asked \in Seq(Requests) /\ Sent \in Nat /\ MaxMessages \in Nat /\ Sent <= MaxMessages
  BY LenProperties, NumbersNatural DEF LspInv, Typed, Sent
<1>4. TableFollows' /\ RequestsFaithful'
  BY <1>2 DEF LspInv, TableFollows, RequestsFaithful, Faithful, Text, Sent
<1>5. ResponsesFit'
  BY <1>1, <1>2 DEF LspInv, ResponsesFit, Sent
<1>6. \A k \in Replied' : k \in Nat /\ k + 1 \in Replied /\ k + 1 # 1 /\ toClient'[k] = toClient[k + 1]
  BY <1>1, <1>2 DEF Replied
<1>7. Pending' = Pending
  BY <1>2 DEF Pending
<1>8. CASE UNCHANGED answers
  <2>1. Typed' /\ AnswersFit'
    BY <1>1, <1>2, <1>8 DEF LspInv, Typed, Sent, AnswersFit
  <2>2. InOnePlace'
    BY <1>2, <1>6, <1>7, <1>8 DEF LspInv, InOnePlace, Sent
  <2> QED BY <1>4, <1>5, <2>1, <2>2 DEF LspInv
<1>9. CASE IsResponse(toClient[1]) /\ answers' = [answers EXCEPT ![toClient[1].id] = Append(@, toClient[1].result)]
  <2> DEFINE id == toClient[1].id
             result == toClient[1].result
             once == asked[id].method # "shutdown"
  <2>1. id \in 1..Sent /\ id \in 1..MaxMessages /\ Answers(asked[id], result)
    BY <1>1, <1>3, <1>9 DEF LspInv, ResponsesFit
  <2>2. result \in Results
    BY <1>1, <1>9 DEF News, IsResponse
  <2>3. once => 1 \in Replied
    BY <1>1, <1>9 DEF Replied
  <2>4. once => answers[id] = <<>>
    BY <2>3 DEF LspInv, InOnePlace
  <2> HIDE DEF id, result
  <2>5. answers[id] \in Seq(Results) /\ Len(answers[id]) \in Nat
    BY <2>1, LenProperties DEF LspInv, Typed
  <2>6. answers' = [answers EXCEPT ![id] = Append(answers[id], result)]
    BY <1>9 DEF id, result
  <2>7. /\ Append(answers[id], result) \in Seq(Results)
        /\ Len(Append(answers[id], result)) = Len(answers[id]) + 1
        /\ \A k \in 1..Len(answers[id]) : Append(answers[id], result)[k] = answers[id][k]
        /\ Append(answers[id], result)[Len(answers[id]) + 1] = result
    BY <2>2, <2>5, AppendProperties
  <2>8. /\ answers' \in [1..MaxMessages -> Seq(Results)]
        /\ answers'[id] = Append(answers[id], result)
        /\ \A i \in 1..MaxMessages : i # id => answers'[i] = answers[i]
    BY <2>1, <2>6, <2>7 DEF LspInv, Typed
  <2>9. Typed'
    BY <1>1, <1>2, <2>8 DEF LspInv, Typed, Sent
  <2>10. AnswersFit'
    <3> SUFFICES ASSUME NEW i \in 1..Sent
                 PROVE  /\ \A k \in DOMAIN answers'[i] : Answers(asked[i], answers'[i][k])
                        /\ asked[i].method # "shutdown" => Len(answers'[i]) <= 1
      BY <1>2, <1>3, LenProperties DEF AnswersFit, Sent
    <3>1. /\ \A k \in DOMAIN answers[i] : Answers(asked[i], answers[i][k])
          /\ asked[i].method # "shutdown" => Len(answers[i]) <= 1
      BY <1>3, LenProperties DEF LspInv, AnswersFit, Sent
    <3>2. CASE i # id
      BY <1>3, <2>8, <3>1, <3>2
    <3>3. CASE i = id
      <4>1. \A k \in DOMAIN answers'[id] : k \in 1..Len(answers[id]) \/ k = Len(answers[id]) + 1
        BY <2>5, <2>7, <2>8, LenProperties
      <4>2. DOMAIN answers[id] = 1..Len(answers[id])
        BY <2>5, LenProperties
      <4>3. \A k \in DOMAIN answers'[id] : Answers(asked[id], answers'[id][k])
        BY <2>1, <2>7, <2>8, <3>1, <3>3, <4>1, <4>2
      <4>4. once => Len(answers'[id]) <= 1
        BY <2>4, <2>7, <2>8, EmptySeq
      <4> QED BY <3>3, <4>3, <4>4
    <3> QED BY <3>2, <3>3
  <2>11. InOnePlace'
    <3>1. InOnePlace
      BY DEF LspInv
    <3>2. \A k \in Replied' : toClient[k + 1].id # id
      <4> SUFFICES ASSUME NEW k \in Replied', toClient[k + 1].id = id PROVE FALSE
        OBVIOUS
      <4>1. k + 1 \in Replied /\ k + 1 # 1 /\ once
        BY <1>6 DEF Replied
      <4> QED BY <2>3, <3>1, <4>1 DEF InOnePlace, id
    <3>3. \A j \in Pending : asked[toServer[j].id].method # "shutdown" => toServer[j].id # id
      <4> SUFFICES ASSUME NEW j \in Pending, once, toServer[j].id = id PROVE FALSE
        OBVIOUS
      <4> QED BY <2>3, <3>1 DEF InOnePlace, id
    <3>4. \A j \in Pending : toServer[j].id \in 1..MaxMessages
      BY <1>3 DEF LspInv, RequestsFaithful, Faithful, Pending
    <3>5. \A k \in Replied' : toClient[k + 1].id \in 1..MaxMessages
      BY <1>3, <1>6 DEF LspInv, ResponsesFit, Replied
    <3>6. \A i \in 1..MaxMessages : i > Sent => answers'[i] = <<>>
      BY <1>3, <2>1, <2>8, <3>1 DEF InOnePlace
    <3>7. \A k \in Replied' : answers'[toClient'[k].id] = <<>>
      BY <1>6, <2>8, <3>1, <3>2, <3>5 DEF InOnePlace
    <3>8. \A j \in Pending : asked[toServer[j].id].method # "shutdown" => answers'[toServer[j].id] = <<>>
      BY <2>8, <3>1, <3>3, <3>4 DEF InOnePlace
    <3>9. \A j, k \in Replied' : toClient'[j].id = toClient'[k].id => j = k
      BY <1>6, <3>1 DEF InOnePlace
    <3>10. \A j \in Pending, k \in Replied' : toServer[j].id # toClient'[k].id
      BY <1>6, <3>1 DEF InOnePlace
    <3>11. \A j, k \in Pending : toServer[j].id = toServer[k].id => j = k
      BY <3>1 DEF InOnePlace
    <3> QED BY <1>2, <1>7, <3>6, <3>7, <3>8, <3>9, <3>10, <3>11 DEF InOnePlace, Sent
  <2> QED BY <1>4, <1>5, <2>9, <2>10, <2>11 DEF LspInv
<1> QED BY <1>1, <1>8, <1>9 DEF Receive, IsResponse

\* The inductive invariant: which text the table will have when each message
\* under way is taken, and that every request is in one place only.
LEMMA LspInvariant == Spec => []LspInv
<1>1. Init => LspInv
  <2> SUFFICES ASSUME Init PROVE LspInv
    OBVIOUS
  <2>1. Len(toServer) = 0 /\ Len(toClient) = 0 /\ Sent = 0
    BY DEF Init, Sent
  <2>2. Typed
    <3>1. answers \in [1..MaxMessages -> Seq(Results)] /\ toServer \in Seq(Messages) /\ toClient \in Seq(News) /\ asked \in Seq(Requests)
      BY EmptySeq DEF Init
    <3>2. DOMAIN docs = {} /\ buffers \in [Docs -> Texts \cup {Closed}]
      BY DEF Init
    <3> QED BY <2>1, <3>1, <3>2, NumbersNatural DEF Typed
  <2>3. TableFollows
    BY <2>1 DEF Init, TableFollows, Stands, InTable, Text
  <2>4. RequestsFaithful /\ ResponsesFit /\ InOnePlace
    BY <2>1 DEF RequestsFaithful, ResponsesFit, InOnePlace, Pending, Replied, Init
  <2>5. AnswersFit
    BY DEF Init, AnswersFit
  <2> QED BY <2>2, <2>3, <2>4, <2>5 DEF LspInv
<1>2. LspInv /\ [Next]_vars => LspInv'
  <2> SUFFICES ASSUME LspInv, [Next]_vars PROVE LspInv'
    OBVIOUS
  <2>1. CASE Editing
    BY <2>1, EditorSends, SendingKeeps DEF LspInv
  <2>2. CASE Taking
    BY <2>2, ServerTakes, HandlingKeeps DEF LspInv
  <2>3. CASE ExitTimeout
    BY <2>3, TimeoutKeeps
  <2>4. CASE Receive
    BY <2>4, ReceivingKeeps
  <2>5. CASE UNCHANGED vars
    BY <2>5 DEF vars, LspInv, Typed, Sent, TableFollows, Text, RequestsFaithful, Faithful, ResponsesFit,
                InOnePlace, Pending, Replied, AnswersFit
  <2> QED BY <2>1, <2>2, <2>3, <2>4, <2>5 DEF Next, Serve, Editing, Taking, Rest
<1> QED BY <1>1, <1>2, PTL DEF Spec

\* Every answer is the one its request is due, from the text as it was then, and
\* only a shutdown is answered twice, however many messages, replies and later
\* edits are under way (lsp.rs:60-118, 121-160, 263-276).
THEOREM EveryAnswerFits == Spec => []AnswersFit
<1>1. LspInv => AnswersFit
  BY DEF LspInv
<1> QED BY <1>1, LspInvariant, PTL

-----------------------------------------------------------------------------
(* The interactive session.                                                *)

\* Sessions are made of lines, and a definition has at least one.
OfLines(Line) == Header \in Seq(Line) /\ Definitions \subseteq Seq(Line) \ {<<>>}

LEMMA Appended ==
  ASSUME NEW Line, NEW s \in Seq(Line), NEW d \in Seq(Line) \ {<<>>}
  PROVE  LET t == SubSeq(s \o d, 1, Len(s \o d) - 1)
         IN  /\ s \o d \in Seq(Line) /\ t \in Seq(Line)
             /\ Session!IsPrefix(s, s \o d) /\ Session!IsPrefix(s, t)
             /\ Len(d) = 1 => t = s
<1> DEFINE n == Len(s \o d) - 1
           t == SubSeq(s \o d, 1, n)
<1>1. s \o d \in Seq(Line) /\ Len(s \o d) = Len(s) + Len(d) /\ Len(s) \in Nat /\ Len(d) \in Nat \ {0}
  BY ConcatProperties, LenProperties, EmptySeq
<1>2. \A i \in 1..Len(s) : (s \o d)[i] = s[i]
  BY ConcatProperties
<1>3. n \in Nat /\ n >= Len(s) /\ n <= Len(s \o d)
  BY <1>1
<1> HIDE DEF n
<1>4. t \in Seq(Line) /\ Len(t) = n /\ \A i \in 1..n : t[i] = (s \o d)[i]
  BY <1>1, <1>3
<1>5. Session!IsPrefix(s, s \o d) /\ Session!IsPrefix(s, t)
  BY <1>1, <1>2, <1>3, <1>4 DEF Session!IsPrefix
<1>6. ASSUME Len(d) = 1 PROVE t = s
  <2>1. n = Len(s)
    BY <1>1, <1>6 DEF n
  <2>2. Len(t) = Len(s) /\ \A i \in 1..Len(s) : t[i] = s[i]
    BY <1>2, <1>4, <2>1
  <2> HIDE DEF t
  <2> QED BY <1>4, <2>2, SeqEqual
<1> QED BY <1>1, <1>4, <1>5, <1>6 DEF n

LEMMA SourceKept ==
  ASSUME NEW Line, OfLines(Line), source \in Seq(Line), [Session!Next]_Session!vars
  PROVE  source' \in Seq(Line) /\ (~Session!Reset => Session!IsPrefix(source, source'))
<1>1. Session!IsPrefix(source, source)
  BY LenProperties DEF Session!IsPrefix
<1>2. ASSUME NEW d \in Definitions, Session!Define(d) \/ Session!Reject(d) PROVE source' \in Seq(Line) /\ Session!IsPrefix(source, source')
  <2>1. d \in Seq(Line) \ {<<>>}
    BY DEF OfLines
  <2>2. CASE source' = source \o d
    BY <2>1, <2>2, Appended
  <2>3. CASE source' = SubSeq(source \o d, 1, Len(source \o d) - 1)
    BY <2>1, <2>3, Appended
  <2> QED BY <1>2, <2>2, <2>3 DEF Session!Define, Session!Reject
<1>3. CASE Session!Reset
  BY <1>3 DEF Session!Reset, OfLines
<1>4. CASE source' = source
  BY <1>1, <1>4
<1> QED BY <1>2, <1>3, <1>4 DEF Session!Next, Session!Run, Session!Env, Session!Verify, Session!Quit, Session!Ended, Session!vars

\* Nothing that was accepted is lost, whatever is typed afterwards: taking back
\* a definition never reaches into the lines before it (repl.rs:172-176, 187-191).
THEOREM NothingIsLost ==
  ASSUME NEW Line, OfLines(Line)
  PROVE  Session!Spec => Session!NothingLost
<1>1. Session!Init => source \in Seq(Line)
  BY DEF Session!Init, OfLines
<1>2. source \in Seq(Line) /\ [Session!Next]_Session!vars => (source \in Seq(Line))' /\ [~Session!Reset => Session!IsPrefix(source, source')]_Session!vars
  BY SourceKept
<1> QED BY <1>1, <1>2, PTL DEF Session!Spec, Session!NothingLost

\* A definition of one line that is refused leaves the session as it was, which
\* definitions of several lines do not (run repl_undo; repl.rs:172-176).
THEOREM OneLineUndone ==
  ASSUME NEW Line, OfLines(Line)
  PROVE  Session!Spec => [][\A d \in Definitions : Len(d) = 1 /\ Session!Reject(d) => UNCHANGED <<source, defCount>>]_Session!vars
<1>1. Session!Init => source \in Seq(Line) /\ defCount \in Nat
  BY DEF Session!Init, OfLines
<1>2. source \in Seq(Line) /\ defCount \in Nat /\ [Session!Next]_Session!vars => (source \in Seq(Line) /\ defCount \in Nat)'
  <2> SUFFICES ASSUME source \in Seq(Line), defCount \in Nat, [Session!Next]_Session!vars PROVE source' \in Seq(Line) /\ defCount' \in Nat
    OBVIOUS
  <2>1. source' \in Seq(Line)
    BY SourceKept
  <2>2. defCount' = defCount + 1 \/ defCount' = (defCount + 1) - 1 \/ defCount' = 0 \/ defCount' = defCount
    <3>1. ASSUME NEW d \in Definitions, Session!Define(d) \/ Session!Reject(d)
          PROVE  defCount' = defCount + 1 \/ defCount' = (defCount + 1) - 1
      BY <3>1 DEF Session!Define, Session!Reject
    <3>2. CASE Session!Reset
      BY <3>2 DEF Session!Reset
    <3>3. CASE defCount' = defCount
      BY <3>3
    <3> QED BY <3>1, <3>2, <3>3 DEF Session!Next, Session!Run, Session!Env, Session!Verify, Session!Quit, Session!Ended, Session!vars
  <2>3. defCount' \in Nat
    BY <2>2
  <2> QED BY <2>1, <2>3
<1>3. source \in Seq(Line) /\ defCount \in Nat /\ [Session!Next]_Session!vars =>
        [\A d \in Definitions : Len(d) = 1 /\ Session!Reject(d) => UNCHANGED <<source, defCount>>]_Session!vars
  <2> SUFFICES ASSUME source \in Seq(Line), defCount \in Nat, NEW d \in Definitions, Len(d) = 1, Session!Reject(d)
               PROVE  source' = source /\ defCount' = defCount
    OBVIOUS
  <2>1. d \in Seq(Line) \ {<<>>}
    BY DEF OfLines
  <2>2. source' = source
    BY <2>1, Appended DEF Session!Reject
  <2> QED BY <2>2 DEF Session!Reject
<1> QED BY <1>1, <1>2, <1>3, PTL DEF Session!Spec

\* As long as all that is typed has one line, what the session holds parses and
\* checks, so that it can be built on: a refusal never spoils it
\* (repl.rs:139-144).
THEOREM OneLinersKeepItSound ==
  ASSUME NEW Line, OfLines(Line), \A d \in Definitions : Len(d) = 1, Session!Accepts(Header)
  PROVE  Session!Spec => []Session!SessionSound
<1> DEFINE Inv == source \in Seq(Line) /\ Session!SessionSound
<1>1. Session!Init => Inv
  BY DEF Session!Init, OfLines, Session!SessionSound
<1>2. Inv /\ [Session!Next]_Session!vars => Inv'
  <2> SUFFICES ASSUME Inv, [Session!Next]_Session!vars PROVE Inv'
    OBVIOUS
  <2>1. source' \in Seq(Line)
    BY SourceKept
  <2>2. source' = source \/ Session!Accepts(source')
    <3>1. ASSUME NEW d \in Definitions, Session!Reject(d) PROVE source' = source
      <4>1. d \in Seq(Line) \ {<<>>}
        BY DEF OfLines
      <4> QED BY <3>1, <4>1, Appended DEF Session!Reject
    <3>2. ASSUME NEW d \in Definitions, Session!Define(d) PROVE Session!Accepts(source')
      BY <3>2 DEF Session!Define
    <3>3. CASE Session!Reset
      BY <3>3 DEF Session!Reset
    <3> QED BY <3>1, <3>2, <3>3 DEF Session!Next, Session!Run, Session!Env, Session!Verify, Session!Quit, Session!Ended, Session!vars
  <2>3. Session!SessionSound'
    BY <2>2 DEF Session!SessionSound
  <2> QED BY <2>1, <2>3
<1>3. Inv => Session!SessionSound
  OBVIOUS
<1> QED BY <1>1, <1>2, <1>3, PTL DEF Session!Spec
=============================================================================
