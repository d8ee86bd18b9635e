--------------------------------- MODULE Agora ----------------------------------
(***************************************************************************)
(* The tables of proposals on the Agora server,                            *)
(* crates/nous-runtime/src/io.rs: one request at a time, POST              *)
(* /api/proposals stores the proposal, verifies its source and records the *)
(* outcome in several SQL statements, each committed by itself and each    *)
(* with its error dropped.  The process can end between two of them, and   *)
(* clients send what they like, again if they wish.  The verifier is a set *)
(* of sources; the hash, and the half of it that the chat shows, are taken *)
(* for injective, so that an id is the text that is hashed.                *)
(*                                                                         *)
(* The same tables are written without a verdict: by the script that seeds *)
(* them at every start (agora/serve.ns), by POST /api/chat, and by the     *)
(* generic endpoints, which insert a row into any table and change or      *)
(* delete the row with an integer id.  Table and column names are taken    *)
(* for names, and rows are counted from 1.                                 *)
(*                                                                         *)
(* `answers`, `spoiled` and `direct` are history variables: what clients   *)
(* were told, the ids whose handling a fault has touched, and what has     *)
(* been written in each table otherwise than by POST /api/proposals.       *)
(***************************************************************************)
EXTENDS Naturals, Sequences, FiniteSets

CONSTANTS Namespaces, Sources,   \* texts, as sequences; the sources are not empty
          Verified,              \* the sources the verifier passes
          ConstraintCount,       \* how many contract clauses each source has
          Seeded,                \* the proposals the server is seeded with: id -> row
          NumberIds,             \* texts that are integers, so that WHERE id = 7 finds them
          NoId,                  \* stands where a clause or a message is about no proposal
          ClientProposals, ClientBlobs, ClientClauses, ClientMessages,
                                 \* the rows clients may write into each table
          MaxTime, MaxRequests, MaxFaults   \* bounds

\* The proposal's id: the hash of namespace, source and time written one after the other.
Id(namespace, source, time) == namespace \o source \o <<time>>
Ids == {Id(n, s, t) : n \in Namespaces, s \in Sources, t \in 0..MaxTime}

Rows == [namespace : Namespaces, source : Sources, at : 0..MaxTime,
         status : {"pending", "merged", "rejected", "verified"}]
Clause(namespace, source, k, id) == [namespace |-> namespace, source |-> source, clause |-> k, added_by |-> id]
Message(says, id) == [says |-> says, id |-> id]
\* What the seed and clients write that is about no proposal.
OtherClause == [added_by |-> NoId]
OtherMessage == [id |-> NoId]

ClauseRows == [namespace : Namespaces, source : Sources, clause : Nat, added_by : Ids] \cup {OtherClause}
Messages == [says : {"merged", "rejected"}, id : Ids] \cup {OtherMessage}

ASSUME NoEmptySource == <<>> \notin Sources
ASSUME VerifiedSources == Verified \subseteq Sources
ASSUME CountsAreNatural == ConstraintCount \in [Sources -> Nat]
ASSUME BoundsAreNatural == MaxTime \in Nat /\ MaxRequests \in Nat /\ MaxFaults \in Nat
ASSUME SeededRows == Seeded \in [DOMAIN Seeded -> Rows] /\ DOMAIN Seeded \cap Ids = {}
ASSUME IdsApart == NumberIds \cap (Ids \cup DOMAIN Seeded) = {} /\ NoId \notin Ids
ASSUME ClientRows ==
  /\ ClientProposals \subseteq [id : Ids \cup NumberIds, row : Rows]
  /\ ClientBlobs \subseteq [hash : Sources, content : Sources]
  /\ ClientClauses \subseteq ClauseRows
  /\ ClientMessages \subseteq Messages

VARIABLES now,         \* the clock, in seconds
          proposals,   \* table proposals: id -> row
          blobs,       \* table blobs: hash, which is the text that is hashed -> content
          constraints, \* table constraints, and
          chat,        \* table chat: rows under integer ids, and the last id given
          request,     \* the request being handled, or NoRequest
          requests,    \* how many have come in
          faults,      \* how many statements have failed and processes have ended
          answers, spoiled, direct

tables == <<proposals, blobs, constraints, chat>>
vars == <<now, tables, request, requests, faults, answers, spoiled, direct>>

NoRequest == [pc |-> "none"]

Row(q, status) == [namespace |-> q.namespace, source |-> q.source, status |-> status, at |-> q.at]
Passed == request.source \in Verified
Verdict == IF Passed THEN "merged" ELSE "rejected"

At(pc) == request.pc = pc
GoTo(pc) == request' = [request EXCEPT !.pc = pc]

\* A table by its primary key: a row that is written under a key, that is inserted
\* unless the key is taken, and that is taken out.
With(table, key, row) == [k \in DOMAIN table \cup {key} |-> IF k = key THEN row ELSE table[k]]
WithNew(table, key, row) == IF key \in DOMAIN table THEN table ELSE With(table, key, row)
Without(table, key) == [k \in DOMAIN table \ {key} |-> table[k]]

\* A table with INTEGER PRIMARY KEY AUTOINCREMENT: a row that is written under an id,
\* new or there, one that is given the next id, and one that is taken out.
Write(table, k, row) ==
  [rows |-> With(table.rows, k, row), last |-> IF k > table.last THEN k ELSE table.last]
Insert(table, row) == Write(table, table.last + 1, row)
Remove(table, k) == [table EXCEPT !.rows = Without(@, k)]

-----------------------------------------------------------------------------
(* Requests that write a table directly, a single statement each.          *)

Direct ==
  /\ request = NoRequest /\ requests < MaxRequests
  /\ requests' = requests + 1
  /\ UNCHANGED <<now, request, faults, answers, spoiled>>

\* POST /api/Proposals and so on: a table's name is found in any case, the endpoint is not.
\* A key that is taken is refused.
InsertProposal(p) ==
  /\ Direct /\ p.id \notin DOMAIN proposals
  /\ proposals' = With(proposals, p.id, p.row)
  /\ direct' = [direct EXCEPT !.proposals = @ \cup {p.id}]
  /\ UNCHANGED <<blobs, constraints, chat>>

InsertBlob(b) ==
  /\ Direct /\ b.hash \notin DOMAIN blobs
  /\ blobs' = With(blobs, b.hash, b.content)
  /\ direct' = [direct EXCEPT !.blobs = @ \cup {b.hash}]
  /\ UNCHANGED <<proposals, constraints, chat>>

\* The proposal that the row k is about, if there is such a row.
AddedBy(k) == {constraints.rows[j].added_by : j \in {k} \cap DOMAIN constraints.rows}
About(k) == {chat.rows[j].id : j \in {k} \cap DOMAIN chat.rows}

\* A row is inserted, under an id the client may choose, or changed by PUT; one that
\* PUT moves to another id is deleted and inserted there, in two steps.
WriteConstraint(k, clause) ==
  /\ Direct
  /\ constraints' = Write(constraints, k, clause)
  /\ direct' = [direct EXCEPT !.constraints = @ \cup {clause.added_by} \cup AddedBy(k)]
  /\ UNCHANGED <<proposals, blobs, chat>>

DeleteConstraint(k) ==
  /\ Direct /\ k \in DOMAIN constraints.rows
  /\ constraints' = Remove(constraints, k)
  /\ direct' = [direct EXCEPT !.constraints = @ \cup AddedBy(k)]
  /\ UNCHANGED <<proposals, blobs, chat>>

WriteMessage(k, message) ==
  /\ Direct
  /\ chat' = Write(chat, k, message)
  /\ direct' = [direct EXCEPT !.chat = @ \cup {message.id} \cup About(k)]
  /\ UNCHANGED <<proposals, blobs, constraints>>

\* POST /api/chat, with the author and the text of the client's choice.
PostMessage(message) == WriteMessage(chat.last + 1, message)

DeleteMessage(k) ==
  /\ Direct /\ k \in DOMAIN chat.rows
  /\ chat' = Remove(chat, k)
  /\ direct' = [direct EXCEPT !.chat = @ \cup About(k)]
  /\ UNCHANGED <<proposals, blobs, constraints>>

\* PUT and DELETE on proposals find only the rows whose id is a number; on blobs, which
\* have no id, they are refused.
ChangeProposal(p) ==
  /\ Direct /\ p.id \in NumberIds \cap DOMAIN proposals
  /\ proposals' = [proposals EXCEPT ![p.id] = p.row]
  /\ UNCHANGED <<blobs, constraints, chat, direct>>

DeleteProposal(i) ==
  /\ Direct /\ i \in NumberIds \cap DOMAIN proposals
  /\ proposals' = Without(proposals, i)
  /\ UNCHANGED <<blobs, constraints, chat, direct>>

WriteDirectly ==
  \/ \E p \in ClientProposals : InsertProposal(p) \/ ChangeProposal(p)
  \/ \E i \in NumberIds : DeleteProposal(i)
  \/ \E b \in ClientBlobs : InsertBlob(b)
  \/ \E k \in 1..(constraints.last + 1), clause \in ClientClauses : WriteConstraint(k, clause)
  \/ \E k \in 1..constraints.last : DeleteConstraint(k)
  \/ \E message \in ClientMessages : PostMessage(message)
  \/ \E k \in 1..chat.last, message \in ClientMessages : WriteMessage(k, message)
  \/ \E k \in 1..chat.last : DeleteMessage(k)

-----------------------------------------------------------------------------
(* POST /api/proposals.                                                    *)

\* A request that is not JSON, has no source or no id, names no table or row that is
\* there, or for which the database cannot be opened, is answered and changes nothing.
Refuse ==
  /\ request = NoRequest /\ requests < MaxRequests
  /\ requests' = requests + 1
  /\ UNCHANGED <<now, tables, request, faults, answers, spoiled, direct>>

Receive(namespace, source) ==
  /\ request = NoRequest /\ requests < MaxRequests
  /\ requests' = requests + 1
  /\ request' = [pc |-> "insert", namespace |-> namespace, source |-> source, at |-> now,
                 id |-> Id(namespace, source, now), stored |-> 0]
  /\ UNCHANGED <<now, tables, faults, answers, spoiled, direct>>

\* Mutant: INSERT OR REPLACE, as in ContentStore::submit_proposal.
ReplacePending ==
  /\ At("insert")
  /\ proposals' = With(proposals, request.id, Row(request, "pending"))
  /\ GoTo("decide")
  /\ UNCHANGED <<now, blobs, constraints, chat, requests, faults, answers, spoiled, direct>>

\* The proposal is stored as pending; if its id is taken, the row there stays.
InsertPending ==
  /\ At("insert")
  /\ proposals' = WithNew(proposals, request.id, Row(request, "pending"))
  /\ GoTo("decide")
  /\ UNCHANGED <<now, blobs, constraints, chat, requests, faults, answers, spoiled, direct>>

SetStatus(status) ==
  proposals' = IF request.id \in DOMAIN proposals
               THEN [proposals EXCEPT ![request.id].status = status]
               ELSE proposals

\* Mutant: without the verdict.
MergeUnverified ==
  /\ At("decide")
  /\ SetStatus("merged")
  /\ GoTo(IF Passed THEN "blob" ELSE "chat")
  /\ UNCHANGED <<now, blobs, constraints, chat, requests, faults, answers, spoiled, direct>>

\* Mutant: nothing is recorded of a proposal that fails.
DecideMergesOnly ==
  /\ At("decide")
  /\ IF Passed THEN SetStatus("merged") ELSE UNCHANGED proposals
  /\ GoTo(IF Passed THEN "blob" ELSE "chat")
  /\ UNCHANGED <<now, blobs, constraints, chat, requests, faults, answers, spoiled, direct>>

\* Mutant: only a row still pending is updated.
DecidePendingOnly ==
  /\ At("decide")
  /\ IF request.id \in DOMAIN proposals /\ proposals[request.id].status = "pending"
     THEN SetStatus(Verdict)
     ELSE UNCHANGED proposals
  /\ GoTo(IF Passed THEN "blob" ELSE "chat")
  /\ UNCHANGED <<now, blobs, constraints, chat, requests, faults, answers, spoiled, direct>>

\* The source is verified, and the row with the proposal's id updated.
Decide ==
  /\ At("decide")
  /\ SetStatus(Verdict)
  /\ GoTo(IF Passed THEN "blob" ELSE "chat")
  /\ UNCHANGED <<now, blobs, constraints, chat, requests, faults, answers, spoiled, direct>>

\* Mutant: the blob is left for later.
SkipBlob ==
  /\ At("blob")
  /\ GoTo("constraints")
  /\ UNCHANGED <<now, tables, requests, faults, answers, spoiled, direct>>

StoreBlob ==
  /\ At("blob")
  /\ blobs' = WithNew(blobs, request.source, request.source)
  /\ GoTo("constraints")
  /\ UNCHANGED <<now, proposals, constraints, chat, requests, faults, answers, spoiled, direct>>

\* Mutant: one clause short.
MoreButOne == request.stored + 1 < ConstraintCount[request.source]

MoreConstraints == request.stored < ConstraintCount[request.source]

StoreConstraint ==
  /\ At("constraints") /\ MoreConstraints
  /\ constraints' = Insert(constraints, Clause(request.namespace, request.source, request.stored + 1, request.id))
  /\ request' = [request EXCEPT !.stored = @ + 1]
  /\ UNCHANGED <<now, proposals, blobs, chat, requests, faults, answers, spoiled, direct>>

ConstraintsStored ==
  /\ At("constraints") /\ ~MoreConstraints
  /\ GoTo("chat")
  /\ UNCHANGED <<now, tables, requests, faults, answers, spoiled, direct>>

PostChat ==
  /\ At("chat")
  /\ chat' = Insert(chat, Message(Verdict, request.id))
  /\ GoTo("answer")
  /\ UNCHANGED <<now, proposals, blobs, constraints, requests, faults, answers, spoiled, direct>>

Answer ==
  /\ At("answer")
  /\ answers' = answers \cup {[status |-> Verdict, namespace |-> request.namespace,
                               source |-> request.source, id |-> request.id]}
  /\ request' = NoRequest
  /\ UNCHANGED <<now, tables, requests, faults, spoiled, direct>>

\* A statement fails and its error is dropped: the handler goes on as if it had not.
StatementFails ==
  /\ faults < MaxFaults
  /\ \/ At("insert") /\ GoTo("decide")
     \/ At("decide") /\ GoTo(IF Passed THEN "blob" ELSE "chat")
     \/ At("blob") /\ GoTo("constraints")
     \/ At("constraints") /\ MoreConstraints /\ request' = [request EXCEPT !.stored = @ + 1]
     \/ At("chat") /\ GoTo("answer")
  /\ faults' = faults + 1
  /\ spoiled' = spoiled \cup {request.id}
  /\ UNCHANGED <<now, tables, requests, answers, direct>>

\* The server ends, in the middle of a request or between two, and is started again,
\* which seeds it again: the proposals are there already, clauses and messages come
\* once more.  The client gets no answer.
Crash ==
  /\ faults < MaxFaults
  /\ request' = NoRequest
  /\ faults' = faults + 1
  /\ spoiled' = IF request = NoRequest THEN spoiled ELSE spoiled \cup {request.id}
  /\ constraints' = Insert(constraints, OtherClause)
  /\ chat' = Insert(chat, OtherMessage)
  /\ UNCHANGED <<now, proposals, blobs, requests, answers, direct>>

Tick ==
  /\ now < MaxTime
  /\ now' = now + 1
  /\ UNCHANGED <<tables, request, requests, faults, answers, spoiled, direct>>

\* The server waits for the next request.
Wait == request = NoRequest /\ UNCHANGED vars

\* The database is new and seeded: some proposals, with neither blobs nor messages, and
\* clauses and messages that are about no proposal, of which one stands for all.
Seed(row) == Insert([rows |-> <<>>, last |-> 0], row)
Init ==
  /\ now = 0
  /\ proposals = Seeded /\ blobs = <<>>
  /\ constraints = Seed(OtherClause) /\ chat = Seed(OtherMessage)
  /\ request = NoRequest /\ requests = 0 /\ faults = 0
  /\ answers = {} /\ spoiled = {}
  /\ direct = [proposals |-> DOMAIN Seeded, blobs |-> {}, constraints |-> {}, chat |-> {}]

Handle ==
  InsertPending \/ Decide \/ StoreBlob \/ StoreConstraint \/ ConstraintsStored \/ PostChat \/ Answer

Next ==
  \/ Refuse \/ WriteDirectly
  \/ \E namespace \in Namespaces, source \in Sources : Receive(namespace, source)
  \/ Handle \/ StatementFails \/ Crash \/ Tick \/ Wait

Spec == Init /\ [][Next]_vars

-----------------------------------------------------------------------------
Ranged(table) == {table.rows[k] : k \in DOMAIN table.rows}
Stored == Ranged(constraints)
Said == Ranged(chat)

Requests == [pc : {"insert", "decide", "blob", "constraints", "chat", "answer"},
             namespace : Namespaces, source : Sources, at : 0..MaxTime, id : Ids, stored : Nat]
Answers == [status : {"merged", "rejected"}, namespace : Namespaces, source : Sources, id : Ids]
AllIds == Ids \cup NumberIds \cup DOMAIN Seeded

ProposalsOK ==
  \A i \in DOMAIN proposals :
    /\ i \in AllIds /\ proposals[i] \in Rows
    /\ i \in direct.proposals \/ i = Id(proposals[i].namespace, proposals[i].source, proposals[i].at)

RequestOK ==
  request # NoRequest =>
    /\ request \in Requests
    /\ request.stored <= ConstraintCount[request.source]
    /\ request.id = Id(request.namespace, request.source, request.at)
    /\ request.pc \in {"blob", "constraints"} => Passed

TableOK(table, rows) ==
  /\ table = [rows |-> table.rows, last |-> table.last]
  /\ table.last \in Nat /\ DOMAIN table.rows \subseteq 1..table.last
  /\ Ranged(table) \subseteq rows

TypeOK ==
  /\ now \in 0..MaxTime /\ requests \in 0..MaxRequests /\ faults \in 0..MaxFaults
  /\ ProposalsOK
  /\ DOMAIN blobs \subseteq Sources /\ \A h \in DOMAIN blobs : blobs[h] \in Sources
  /\ TableOK(constraints, ClauseRows) /\ TableOK(chat, Messages)
  /\ RequestOK
  /\ answers \subseteq Answers /\ spoiled \subseteq Ids
  /\ direct \in [proposals : SUBSET AllIds, blobs : SUBSET Sources,
                 constraints : SUBSET (Ids \cup {NoId}), chat : SUBSET (Ids \cup {NoId})]

\* The ids that only one proposal can have: not every one, since two proposals that
\* read the same when their parts are written one after the other have one id.
UnambiguousIds ==
  {i \in Ids :
     \A n, m \in Namespaces, s, r \in Sources, t, u \in 0..MaxTime :
       i = Id(n, s, t) /\ i = Id(m, r, u) => n = m /\ s = r /\ t = u}

\* A proposal is merged only if its own source was verified, and rejected only
\* if it was not, whatever fails, ends or is sent again, if no other can have
\* its id and its row was not written directly (io.rs:997-1048).
MergedWasVerified ==
  \A i \in DOMAIN proposals \cap UnambiguousIds :
    i \notin direct.proposals =>
      /\ proposals[i].status = "merged" => proposals[i].source \in Verified
      /\ proposals[i].status = "rejected" => proposals[i].source \notin Verified

\* A proposal that has been decided stays decided as it was: not even a repetition
\* of its request, which runs through the same statements with the same id, changes
\* that; and none is ever lost or changed into another, not even one of the same id,
\* nor by a client: PUT and DELETE find no row but those whose id is a number, which
\* only a client can have written (io.rs:986-1006, 1124-1183).
DecidedForGood ==
  [][\A i \in DOMAIN proposals \ NumberIds :
       /\ i \in DOMAIN proposals'
       /\ proposals'[i].namespace = proposals[i].namespace
       /\ proposals'[i].source = proposals[i].source
       /\ i \in UnambiguousIds \ direct.proposals /\ proposals[i].status # "pending" =>
            proposals'[i].status = proposals[i].status]_vars

UnderWay(i) == request # NoRequest /\ request.id = i

\* No proposal is left undecided but by a fault: it is pending while its request
\* is handled, or a statement failed or the server ended under it, or a client has
\* written its row as it is (io.rs:993-1048).
PendingOnlyUnderWay ==
  \A i \in DOMAIN proposals :
    proposals[i].status = "pending" => i \in spoiled \/ UnderWay(i) \/ i \in direct.proposals

\* The source is stored under its hash, and every clause of its contracts for the
\* namespace under this id, where nobody has written these directly.
Backed(n, s, i) ==
  /\ s \in DOMAIN blobs /\ (s \notin direct.blobs => blobs[s] = s)
  /\ i \notin direct.constraints => \A k \in 1..ConstraintCount[s] : Clause(n, s, k, i) \in Stored

\* What a client is told is and stays so, unless a fault has touched the proposal:
\* the row has that status, if no other proposal can have its id, and so even if the
\* row had been written directly before; the chat has said so; and if it is merged the
\* source is stored under its hash, and every clause of its contracts is recorded for
\* the namespace.  Clients can undo this for what the integer ids of their PUT and
\* DELETE find, clauses and messages, and there only for the proposal that these are
\* about (io.rs:949-962, 1001-1041, 1091-1183).
AnswersHold ==
  \A a \in answers :
    a.id \notin spoiled =>
      /\ a.id \in DOMAIN proposals
      /\ a.id \in UnambiguousIds => proposals[a.id].status = a.status
      /\ a.id \in UnambiguousIds \ direct.proposals =>
           proposals[a.id].namespace = a.namespace /\ proposals[a.id].source = a.source
      /\ a.id \notin direct.chat => Message(a.status, a.id) \in Said
      /\ a.status = "merged" => Backed(a.namespace, a.source, a.id)

Proposed(i, n, s) == \E t \in 0..MaxTime : i = Id(n, s, t)

\* What is merged, and was not seeded or written by a client, is some verified source
\* proposed under that id, and once its handling is over that source is stored, with
\* all its clauses under that id, unless a fault has touched it or a client has written
\* there; and what is rejected is some source proposed under that id that did not pass
\* (io.rs:1001-1047).
MergedIsBacked ==
  \A i \in DOMAIN proposals \ direct.proposals :
    /\ proposals[i].status = "merged" =>
         \E n \in Namespaces, s \in Verified :
           Proposed(i, n, s) /\ (i \notin spoiled /\ ~UnderWay(i) => Backed(n, s, i))
    /\ proposals[i].status = "rejected" =>
         \E n \in Namespaces, s \in Sources \ Verified : Proposed(i, n, s)

\* The last message about an id has this status.
LastSays(i, status) ==
  \E k \in DOMAIN chat.rows :
    /\ chat.rows[k] = Message(status, i)
    /\ \A j \in DOMAIN chat.rows : j > k => chat.rows[j].id # i

\* The last thing the chat says of a proposal is the status of its row, however many
\* requests have come under its id with whatever verdicts and whatever else was posted,
\* changed or deleted between, unless a fault has touched it, a client has written,
\* changed or deleted messages about this proposal, or the row was seeded or written
\* by a client (io.rs:949-962, 1022-1030, 1049-1057).
ChatAgrees ==
  \A i \in DOMAIN proposals \ (direct.proposals \cup direct.chat) :
    i \notin spoiled /\ ~UnderWay(i) => LastSays(i, proposals[i].status)
=============================================================================
