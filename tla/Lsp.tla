----------------------------------- MODULE Lsp -----------------------------------
(***************************************************************************)
(* The language server, crates/nous-cli/src/lsp.rs: the loop of run_lsp    *)
(* over the messages of an editor, the table of open documents, and what   *)
(* is sent back.  The editor and the two pipes are there because the       *)
(* properties are about what the user sees: the text in the editor moves   *)
(* on while messages are under way.                                        *)
(*                                                                         *)
(* A document's text is a model value; what parser, checker and verifier   *)
(* find in it and its lines are parameters.  A line is the sequence of its *)
(* bytes, each a letter, a sign (of one byte), the first byte of a wide    *)
(* letter or of a wide sign, or a tail.  What a hover says of a word is    *)
(* left out: the answer is the columns of the word.  The editor keeps to   *)
(* the protocol: it opens what is closed, changes and closes what is open, *)
(* and after shutdown sends nothing but exit.  Messages that do not have   *)
(* the fields they should, on which the server panics, are left out.       *)
(***************************************************************************)
EXTENDS Naturals, Sequences, FiniteSets

CONSTANTS Docs, Texts,
          Parses(_),             \* nous_parser::parse
          TypeErrors(_),         \* TypeChecker::check
          VerifyErrors(_),       \* Verifier::verify, when it fails
          VerifyFindings(_),     \* ... its diagnostics and the warnings about synthesis otherwise
          Lines(_),              \* the lines of a text
          Positions,             \* where the user points: a line and a column, from 0
          MaxMessages            \* the editor sends at most this many

ASSUME TextsNamed == Texts \cap {"closed", "none"} = {}
ASSUME LinesOfBytes ==
  \A t \in Texts : Lines(t) \in Seq(Seq({"letter", "wide letter", "sign", "wide sign", "tail"}))
ASSUME NumbersNatural == MaxMessages \in Nat /\ \A p \in Positions : p.line \in Nat /\ p.col \in Nat

VARIABLES server,     \* "serving", "closing" (in handle_shutdown), "over" (the loop has ended), "dead" (a panic)
          docs,       \* the server's table: documents to texts
          toServer, toClient,
          buffers,    \* the editor: texts of its documents, or Closed
          editor,     \* "working", "closing" (shutdown sent), "gone" (exit sent)
          shown,      \* the diagnostics shown for a document
          asked,      \* history: each request with the text its document had when it was made
          answers     \* the answers to each request, in order

vars == <<server, docs, toServer, toClient, buffers, editor, shown, asked, answers>>
sending == <<buffers, editor, asked>>
receiving == <<shown, answers>>

Closed == "closed"
None == "none"
Last(s) == s[Len(s)]

-----------------------------------------------------------------------------
(* What is found in a text.                                                *)

\* collect_diagnostics: a text that does not parse has one error; otherwise
\* what the checker finds comes with what the verifier finds, whether the
\* program was accepted by the checker or not.
Collected(text) ==
  IF ~Parses(text) THEN {[source |-> "parser", what |-> None]}
  ELSE {[source |-> "types", what |-> e] : e \in TypeErrors(text)}
         \cup {[source |-> "verify", what |-> v] :
                 v \in IF VerifyErrors(text) # {} THEN VerifyErrors(text) ELSE VerifyFindings(text)}

CollectedOf(table, doc) == IF doc \in DOMAIN table THEN Collected(table[doc]) ELSE {}

\* get_hover_info.  A column is a number of bytes from 0: column c is before
\* the byte line[c + 1].  Slicing a line elsewhere than between characters panics.
Boundary(line, c) == c = Len(line) \/ (c < Len(line) /\ line[c + 1] # "tail")
Signs(line) == {c \in 0..(Len(line) - 1) : line[c + 1] \in {"sign", "wide sign"}}
WordStart(line, col) ==
  LET before == {c \in Signs(line) : c < col}
  IN  IF before = {} THEN 0 ELSE 1 + CHOOSE c \in before : \A b \in before : b <= c
WordEnd(line, col) ==
  LET after == {c \in Signs(line) : c >= col}
  IN  IF after = {} THEN Len(line) ELSE CHOOSE c \in after : \A a \in after : c <= a

\* Mutant: the sign before the word is taken for its first letter.
WordAtFromSign(line, col) == {c \in 0..Len(line) : c + 1 >= WordStart(line, col) /\ c < WordEnd(line, col)}

HoverPanics(line, col) == ~Boundary(line, col) \/ ~Boundary(line, WordStart(line, col))
WordAt(line, col) == WordStart(line, col)..(WordEnd(line, col) - 1)

LineAt(text, pos) == Lines(text)[pos.line + 1]
HasLine(text, pos) == pos.line < Len(Lines(text))
HoverOf(text, pos) == IF HasLine(text, pos) THEN WordAt(LineAt(text, pos), pos.col) ELSE {}

-----------------------------------------------------------------------------
(* The editor.                                                             *)

Send(message) == toServer' = Append(toServer, message)
Sent == Len(asked)
MayWork == editor = "working" /\ Sent < MaxMessages
Text(doc) == IF buffers[doc] = Closed THEN None ELSE buffers[doc]
Asks(what) == asked' = Append(asked, what)
Notice == [method |-> "notification"]

Open ==
  /\ MayWork
  /\ \E d \in Docs, t \in Texts :
       /\ buffers[d] = Closed
       /\ buffers' = [buffers EXCEPT ![d] = t]
       /\ Send([method |-> "didOpen", doc |-> d, text |-> t])
  /\ Asks(Notice)
  /\ UNCHANGED <<server, docs, toClient, editor, receiving>>

\* One message can carry several changes of the whole text, the last one
\* counting, or none.
Edit ==
  /\ MayWork
  /\ \E d \in Docs, changes \in {<<>>} \cup {<<t>> : t \in Texts} \cup {p \in Texts \X Texts : p[1] # p[2]} :
       /\ buffers[d] # Closed
       /\ buffers' = IF changes = <<>> THEN buffers ELSE [buffers EXCEPT ![d] = Last(changes)]
       /\ Send([method |-> "didChange", doc |-> d, changes |-> changes])
  /\ Asks(Notice)
  /\ UNCHANGED <<server, docs, toClient, editor, receiving>>

Close ==
  /\ MayWork
  /\ \E d \in Docs :
       /\ buffers[d] # Closed
       /\ buffers' = [buffers EXCEPT ![d] = Closed]
       /\ Send([method |-> "didClose", doc |-> d])
  /\ Asks(Notice)
  /\ UNCHANGED <<server, docs, toClient, editor, receiving>>

Point ==
  /\ MayWork
  /\ \E d \in Docs, pos \in Positions :
       /\ Send([method |-> "hover", doc |-> d, pos |-> pos, id |-> Sent + 1])
       /\ Asks([method |-> "hover", pos |-> pos, text |-> Text(d)])
  /\ UNCHANGED <<server, docs, toClient, buffers, editor, receiving>>

Pull ==
  /\ MayWork
  /\ \E d \in Docs :
       /\ Send([method |-> "diagnostic", doc |-> d, id |-> Sent + 1])
       /\ Asks([method |-> "diagnostic", text |-> Text(d)])
  /\ UNCHANGED <<server, docs, toClient, buffers, editor, receiving>>

\* Requests the server does not know, and notifications it does not know.
AskOther ==
  /\ MayWork
  /\ \/ Send([method |-> "other", id |-> Sent + 1]) /\ Asks([method |-> "other"])
     \/ Send([method |-> "$/other"]) /\ Asks(Notice)
  /\ UNCHANGED <<server, docs, toClient, buffers, editor, receiving>>

AskShutdown ==
  /\ MayWork
  /\ Send([method |-> "shutdown", id |-> Sent + 1])
  /\ Asks([method |-> "shutdown"])
  /\ editor' = "closing"
  /\ UNCHANGED <<server, docs, toClient, buffers, receiving>>

Leave ==
  /\ editor # "gone"
  /\ Send([method |-> "exit"])
  /\ editor' = "gone"
  /\ UNCHANGED <<server, docs, toClient, buffers, asked, receiving>>

Receive ==
  /\ toClient # <<>>
  /\ LET news == Head(toClient)
     IN  \/ /\ news.method = "publish"
            /\ shown' = [shown EXCEPT ![news.doc] = news.items]
            /\ UNCHANGED answers
         \/ /\ news.method = "response"
            /\ answers' = [answers EXCEPT ![news.id] = Append(@, news.result)]
            /\ UNCHANGED shown
  /\ toClient' = Tail(toClient)
  /\ UNCHANGED <<server, docs, toServer, sending>>

-----------------------------------------------------------------------------
(* The server: one turn of its loop for each message.                      *)

Takes(method) == server = "serving" /\ toServer # <<>> /\ Head(toServer).method = method /\ toServer' = Tail(toServer)
message == Head(toServer)
Reply(messages) == toClient' = toClient \o messages
Response(id, result) == [method |-> "response", id |-> id, result |-> result]
Publish(doc, text) == [method |-> "publish", doc |-> doc, items |-> Collected(text)]
Stored(doc, text) == [d \in DOMAIN docs \cup {doc} |-> IF d = doc THEN text ELSE docs[d]]

DidOpen ==
  /\ Takes("didOpen")
  /\ docs' = Stored(message.doc, message.text)
  /\ Reply(<<Publish(message.doc, message.text)>>)
  /\ UNCHANGED <<server, sending, receiving>>

\* Mutants: the first of the changes counts; nothing is published.
DidChangeFirst ==
  /\ Takes("didChange")
  /\ IF message.changes = <<>> THEN UNCHANGED <<docs, toClient>>
     ELSE /\ docs' = Stored(message.doc, Head(message.changes))
          /\ Reply(<<Publish(message.doc, Head(message.changes))>>)
  /\ UNCHANGED <<server, sending, receiving>>
DidChangeQuietly ==
  /\ Takes("didChange")
  /\ docs' = IF message.changes = <<>> THEN docs ELSE Stored(message.doc, Last(message.changes))
  /\ UNCHANGED <<server, toClient, sending, receiving>>

DidChange ==
  /\ Takes("didChange")
  /\ IF message.changes = <<>> THEN UNCHANGED <<docs, toClient>>
     ELSE /\ docs' = Stored(message.doc, Last(message.changes))
          /\ Reply(<<Publish(message.doc, Last(message.changes))>>)
  /\ UNCHANGED <<server, sending, receiving>>

\* The diagnostics published of the document are not taken back.
DidClose ==
  /\ Takes("didClose")
  /\ docs' = [d \in DOMAIN docs \ {message.doc} |-> docs[d]]
  /\ UNCHANGED <<server, toClient, sending, receiving>>

OnOther ==
  /\ Takes("$/other")
  /\ UNCHANGED <<server, docs, toClient, sending, receiving>>

Known == message.doc \in DOMAIN docs
Panics ==
  Known /\ HasLine(docs[message.doc], message.pos) /\ HoverPanics(LineAt(docs[message.doc], message.pos), message.pos.col)

OnHover ==
  /\ Takes("hover") /\ ~Panics
  /\ Reply(<<Response(message.id, IF Known THEN HoverOf(docs[message.doc], message.pos) ELSE {})>>)
  /\ UNCHANGED <<server, docs, sending, receiving>>

\* The column is used as a number of bytes, and the word is taken to begin one
\* byte after the sign before it.
HoverCrash ==
  /\ Takes("hover") /\ Panics
  /\ server' = "dead"
  /\ UNCHANGED <<docs, toClient, sending, receiving>>

OnDiagnostic ==
  /\ Takes("diagnostic")
  /\ Reply(<<Response(message.id, CollectedOf(docs, message.doc))>>)
  /\ UNCHANGED <<server, docs, sending, receiving>>

OnOtherRequest ==
  /\ Takes("other")
  /\ Reply(<<Response(message.id, None)>>)
  /\ UNCHANGED <<server, docs, sending, receiving>>

\* handle_shutdown answers and waits for exit.
OnShutdown ==
  /\ Takes("shutdown")
  /\ Reply(<<Response(message.id, None)>>)
  /\ server' = "closing"
  /\ UNCHANGED <<docs, sending, receiving>>

\* Mutant: the loop goes on after the exit.
ExitIgnored ==
  /\ server = "closing" /\ toServer # <<>> /\ message.method = "exit"
  /\ toServer' = Tail(toServer)
  /\ server' = "serving"
  /\ UNCHANGED <<docs, toClient, sending, receiving>>

ExitInTime ==
  /\ server = "closing" /\ toServer # <<>> /\ message.method = "exit"
  /\ toServer' = Tail(toServer)
  /\ server' = "over"
  /\ UNCHANGED <<docs, toClient, sending, receiving>>

\* Half a minute without a message is an error, which unwrap_or(false) makes
\* into `no shutdown`: the request is handled once more, by handle_request, and
\* the loop goes on.
ExitTimeout ==
  /\ server = "closing" /\ toServer = <<>>
  /\ \E i \in DOMAIN asked : asked[i].method = "shutdown" /\ Reply(<<Response(i, None)>>)
  /\ server' = "serving"
  /\ UNCHANGED <<docs, toServer, sending, receiving>>

\* An exit that comes to the loop is a notification like another, but nothing
\* is read after it.
LateExit ==
  /\ Takes("exit")
  /\ server' = "over"
  /\ UNCHANGED <<docs, toClient, sending, receiving>>

Serve ==
  \/ DidOpen \/ DidChange \/ DidClose \/ OnOther \/ OnHover \/ HoverCrash \/ OnDiagnostic \/ OnOtherRequest
  \/ OnShutdown \/ ExitInTime \/ ExitTimeout \/ LateExit

Init ==
  /\ server = "serving" /\ docs = [d \in {} |-> None]
  /\ toServer = <<>> /\ toClient = <<>>
  /\ buffers = [d \in Docs |-> Closed] /\ editor = "working"
  /\ shown = [d \in Docs |-> {}]
  /\ asked = <<>> /\ answers = [i \in 1..MaxMessages |-> <<>>]

\* Nothing is under way, or nobody is there to read it.
Rest == toClient = <<>> /\ (toServer = <<>> \/ server \in {"over", "dead"}) /\ UNCHANGED vars

Next ==
  \/ Open \/ Edit \/ Close \/ Point \/ Pull \/ AskOther \/ AskShutdown \/ Leave \/ Receive
  \/ Serve \/ Rest

Spec == Init /\ [][Next]_vars

\* The server takes the next message, the editor reads what comes.
FairSpec == Spec /\ WF_vars(Serve) /\ WF_vars(Receive)

-----------------------------------------------------------------------------
\* The columns around a position with nothing but letters between.
Around(line, col) ==
  {c \in 0..(Len(line) - 1) : \A b \in (c..(col - 1)) \cup (col..c) : line[b + 1] = "letter"}
Narrow(line) == \A i \in DOMAIN line : line[i] \in {"letter", "sign"}

\* What a request is to be answered from the text its document had when it was
\* made, and from nothing later or earlier.
Answers(request, result) ==
  CASE request.method = "diagnostic" -> result = IF request.text = None THEN {} ELSE Collected(request.text)
    [] request.method = "hover" ->
         IF request.text = None \/ ~HasLine(request.text, request.pos) THEN result = {}
         ELSE Narrow(LineAt(request.text, request.pos)) => result = Around(LineAt(request.text, request.pos), request.pos.col)
    [] OTHER -> result = None

\* Every answer the editor has is the one its request is due, though text and
\* table have moved on since, and none but shutdown is answered twice: pulled
\* diagnostics are those of the text at the request, a hover is about the whole
\* word at the position (lsp.rs:60-118, 263-276).
AnswersFit ==
  \A i \in DOMAIN asked :
    /\ \A k \in DOMAIN answers[i] : Answers(asked[i], answers[i][k])
    /\ asked[i].method # "shutdown" => Len(answers[i]) <= 1

Current == \A d \in Docs : buffers[d] # Closed => shown[d] = Collected(buffers[d])
AllAnswered == \A i \in DOMAIN asked : asked[i].method # "notification" => answers[i] # <<>>

\* Unless the server ends, what the user sees catches up with what the user
\* does: in the end every request is answered and every open document shows the
\* diagnostics of the text it has, also when it was closed and opened again
\* while older messages were under way (lsp.rs:121-160).
CatchesUp == <>[](server \in {"over", "dead"} \/ (Current /\ AllAnswered))

\* When the editor leaves, the loop ends, whether the exit comes at once, while
\* the server waits for it or after it has given up waiting (lsp.rs:43-56).
EndsOnExit == editor = "gone" ~> server \in {"over", "dead"}
=============================================================================
