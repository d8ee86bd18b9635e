------------------------------ MODULE AgoraProofs ------------------------------
(***************************************************************************)
(* Proofs about module Agora, for every set of namespaces, sources, seeded *)
(* rows and rows that clients write, any number of requests, failing       *)
(* statements and crashes, and for ids that one proposal or several can    *)
(* have (UnambiguousIds).                                                  *)
(***************************************************************************)
EXTENDS Agora, TLAPS

\* The inductive invariant's part on the request being handled: what its
\* statements so far have done, unless a fault has touched it.
StatementsDone ==
  LET id == request.id
  IN  /\ request.pc # "insert" => id \in DOMAIN proposals
      /\ request.pc \notin {"insert", "decide"} => proposals[id].status = Verdict
      /\ request.pc \in {"constraints", "chat", "answer"} /\ Passed => request.source \in DOMAIN blobs
      /\ \A k \in 1..request.stored : Clause(request.namespace, request.source, k, id) \in Stored
      /\ request.pc \in {"chat", "answer"} /\ Passed => request.stored = ConstraintCount[request.source]
      /\ request.pc = "answer" => Message(Verdict, id) \in Said

Progress == request # NoRequest /\ request.id \notin spoiled => StatementsDone

\* What is stored under a hash is what has it, unless a client has written it.
BlobsTrue == \A h \in DOMAIN blobs : h \notin direct.blobs => blobs[h] = h

-----------------------------------------------------------------------------
(* The request being handled, as a record.                                 *)

LEMMA NoRequestHasNoId == NoRequest \notin Requests
BY DEF NoRequest, Requests

Stages == {"insert", "decide", "blob", "constraints", "chat", "answer"}

LEMMA AtIsRequest ==
  ASSUME NEW pc \in Stages, At(pc)
  PROVE  request # NoRequest
BY DEF At, NoRequest, Stages

\* A request that goes on is still the same.
SameRequest ==
  /\ request' \in Requests /\ request' # NoRequest
  /\ request'.namespace = request.namespace /\ request'.source = request.source
  /\ request'.at = request.at /\ request'.id = request.id

LEMMA GoToKeeps ==
  ASSUME RequestOK, request # NoRequest, NEW pc \in Stages, GoTo(pc)
  PROVE  SameRequest /\ request'.pc = pc /\ request'.stored = request.stored
<1>1. request \in Requests
  BY DEF RequestOK
<1>2. /\ request' \in Requests /\ request'.pc = pc /\ request'.stored = request.stored
      /\ request'.namespace = request.namespace /\ request'.source = request.source
      /\ request'.at = request.at /\ request'.id = request.id
  BY <1>1 DEF Requests, GoTo, Stages
<1> QED BY <1>2, NoRequestHasNoId DEF SameRequest

LEMMA StoringKeeps ==
  ASSUME RequestOK, request # NoRequest, request' = [request EXCEPT !.stored = @ + 1]
  PROVE  SameRequest /\ request'.pc = request.pc /\ request'.stored = request.stored + 1
<1>1. request \in Requests
  BY DEF RequestOK
<1>2. /\ request' \in Requests /\ request'.pc = request.pc /\ request'.stored = request.stored + 1
      /\ request'.namespace = request.namespace /\ request'.source = request.source
      /\ request'.at = request.at /\ request'.id = request.id
  BY <1>1 DEF Requests
<1> QED BY <1>2, NoRequestHasNoId DEF SameRequest

LEMMA StageReached ==
  ASSUME RequestOK, request # NoRequest, NEW pc \in Stages, GoTo(pc),
         pc \in {"blob", "constraints"} => Passed
  PROVE  SameRequest /\ RequestOK'
<1>1. SameRequest /\ request'.pc = pc /\ request'.stored = request.stored
  BY GoToKeeps
<1>2. Passed' = Passed
  BY <1>1 DEF SameRequest, Passed
<1> QED BY <1>1, <1>2 DEF RequestOK, SameRequest

LEMMA StoredIsNat ==
  ASSUME RequestOK, request # NoRequest
  PROVE  request.stored \in Nat /\ ConstraintCount[request.source] \in Nat
BY CountsAreNatural DEF RequestOK, Requests

LEMMA OneMoreStored ==
  ASSUME RequestOK, At("constraints"), MoreConstraints, request' = [request EXCEPT !.stored = @ + 1]
  PROVE  SameRequest /\ RequestOK'
<1>1. request # NoRequest /\ request.pc = "constraints"
  BY AtIsRequest DEF Stages, At
<1>2. SameRequest /\ request'.pc = request.pc /\ request'.stored = request.stored + 1
  BY <1>1, StoringKeeps
<1>3. request'.stored <= ConstraintCount[request'.source]
  BY <1>1, <1>2, StoredIsNat DEF MoreConstraints, SameRequest
<1>4. Passed' /\ request'.id = Id(request'.namespace, request'.source, request'.at)
  BY <1>1, <1>2 DEF RequestOK, Passed, SameRequest
<1> QED BY <1>2, <1>3, <1>4 DEF RequestOK, SameRequest

\* A request that comes in.
LEMMA Received ==
  ASSUME TypeOK, NEW n \in Namespaces, NEW s \in Sources, Receive(n, s)
  PROVE  /\ request' # NoRequest /\ RequestOK'
         /\ request'.pc = "insert" /\ request'.stored = 0
<1>1. s \in Sources /\ now \in 0..MaxTime /\ Id(n, s, now) \in Ids
  BY DEF Receive, TypeOK, Ids
<1>2. request' = [pc |-> "insert", namespace |-> n, source |-> s, at |-> now,
                  id |-> Id(n, s, now), stored |-> 0]
  BY DEF Receive
<1>3. request' \in Requests
  BY <1>1, <1>2 DEF Requests
<1>4. request' # NoRequest
  BY <1>3, NoRequestHasNoId
<1>5. 0 <= ConstraintCount[s]
  BY <1>1, CountsAreNatural
<1> QED BY <1>2, <1>3, <1>4, <1>5 DEF RequestOK

-----------------------------------------------------------------------------
(* Requests that write a table directly, and tables.                       *)

LEMMA DirectFrame ==
  ASSUME WriteDirectly
  PROVE  /\ request = NoRequest /\ request' = request
         /\ requests < MaxRequests /\ requests' = requests + 1
         /\ UNCHANGED <<now, faults, answers, spoiled>>
BY DEF WriteDirectly, Direct, InsertProposal, ChangeProposal, DeleteProposal, InsertBlob,
       WriteConstraint, DeleteConstraint, PostMessage, WriteMessage, DeleteMessage

\* What each of them does to the tables.
DirectProposal ==
  \/ \E p \in ClientProposals : InsertProposal(p) \/ ChangeProposal(p)
  \/ \E i \in NumberIds : DeleteProposal(i)
DirectBlob == \E b \in ClientBlobs : InsertBlob(b)
DirectConstraint ==
  \/ \E k \in 1..(constraints.last + 1), clause \in ClientClauses : WriteConstraint(k, clause)
  \/ \E k \in 1..constraints.last : DeleteConstraint(k)
DirectMessage ==
  \/ \E k \in 1..(chat.last + 1), message \in ClientMessages : WriteMessage(k, message)
  \/ \E k \in 1..chat.last : DeleteMessage(k)

LEMMA DirectIs ==
  ASSUME TypeOK, WriteDirectly
  PROVE  DirectProposal \/ DirectBlob \/ DirectConstraint \/ DirectMessage
<1>1. chat.last \in Nat
  BY DEF TypeOK, TableOK
<1>2. ASSUME NEW message \in ClientMessages, PostMessage(message)
      PROVE  DirectMessage
  <2>1. chat.last + 1 \in 1..(chat.last + 1)
    BY <1>1
  <2> QED BY <1>2, <2>1 DEF PostMessage, DirectMessage
<1>3. ASSUME NEW k \in 1..chat.last, NEW message \in ClientMessages, WriteMessage(k, message)
      PROVE  DirectMessage
  <2>1. k \in 1..(chat.last + 1)
    BY <1>1
  <2> QED BY <1>3, <2>1 DEF DirectMessage
<1> QED BY <1>2, <1>3 DEF WriteDirectly, DirectProposal, DirectBlob, DirectConstraint, DirectMessage

\* A row written into a table.
LEMMA Written ==
  ASSUME NEW S, NEW table, TableOK(table, S), NEW k \in Nat \ {0}, NEW row \in S,
         NEW t, t = Write(table, k, row)
  PROVE  /\ TableOK(t, S)
         /\ DOMAIN t.rows = DOMAIN table.rows \cup {k} /\ t.rows[k] = row
         /\ \A j \in DOMAIN table.rows \ {k} : t.rows[j] = table.rows[j]
<1>1. /\ t = [rows |-> t.rows, last |-> t.last]
      /\ t.rows = With(table.rows, k, row) /\ t.last = IF k > table.last THEN k ELSE table.last
  BY DEF Write
<1>2. /\ DOMAIN t.rows = DOMAIN table.rows \cup {k} /\ t.rows[k] = row
      /\ \A j \in DOMAIN table.rows \ {k} : t.rows[j] = table.rows[j]
  BY <1>1 DEF With
<1>3. table.last \in Nat /\ DOMAIN table.rows \subseteq 1..table.last /\ Ranged(table) \subseteq S
  BY DEF TableOK
<1>4. t.last \in Nat /\ DOMAIN t.rows \subseteq 1..t.last
  BY <1>1, <1>2, <1>3
<1>5. Ranged(t) \subseteq S
  BY <1>2, <1>3 DEF Ranged
<1> QED BY <1>1, <1>2, <1>4, <1>5 DEF TableOK

LEMMA Inserted ==
  ASSUME NEW S, NEW table, TableOK(table, S), NEW row \in S, NEW t, t = Insert(table, row)
  PROVE  /\ TableOK(t, S)
         /\ DOMAIN t.rows = DOMAIN table.rows \cup {table.last + 1} /\ t.rows[table.last + 1] = row
         /\ \A j \in DOMAIN table.rows : j < table.last + 1 /\ t.rows[j] = table.rows[j]
<1>1. table.last + 1 \in Nat \ {0} /\ \A j \in DOMAIN table.rows : j < table.last + 1
  BY DEF TableOK
<1>2. \A j \in DOMAIN table.rows : j \in DOMAIN table.rows \ {table.last + 1}
  BY <1>1 DEF TableOK
<1> QED BY <1>1, <1>2, Written DEF Insert

\* A row taken out.
LEMMA Removed ==
  ASSUME NEW S, NEW table, TableOK(table, S), NEW k, NEW t, t = Remove(table, k)
  PROVE  /\ TableOK(t, S)
         /\ DOMAIN t.rows = DOMAIN table.rows \ {k}
         /\ \A j \in DOMAIN t.rows : t.rows[j] = table.rows[j]
<1>1. /\ t = [rows |-> t.rows, last |-> t.last]
      /\ t.rows = Without(table.rows, k) /\ t.last = table.last
  BY DEF Remove, TableOK
<1>2. DOMAIN t.rows = DOMAIN table.rows \ {k} /\ \A j \in DOMAIN t.rows : t.rows[j] = table.rows[j]
  BY <1>1 DEF Without
<1>3. table.last \in Nat /\ DOMAIN table.rows \subseteq 1..table.last /\ Ranged(table) \subseteq S
  BY DEF TableOK
<1>4. Ranged(t) \subseteq S
  BY <1>2, <1>3 DEF Ranged
<1> QED BY <1>1, <1>2, <1>3, <1>4 DEF TableOK

\* What a handler step does to its request.
LEMMA HandlerKeepsRequest ==
  ASSUME TypeOK, InsertPending \/ Decide \/ StoreBlob \/ StoreConstraint \/ ConstraintsStored \/ PostChat
  PROVE  request # NoRequest /\ SameRequest /\ RequestOK'
<1>1. RequestOK
  BY DEF TypeOK
<1>2. CASE InsertPending
  BY <1>1, <1>2, AtIsRequest, StageReached DEF InsertPending, Stages
<1>3. CASE Decide
  <2>1. request # NoRequest
    BY <1>3, AtIsRequest DEF Decide, Stages
  <2>2. CASE Passed
    BY <1>1, <1>3, <2>1, <2>2, StageReached DEF Decide, Stages
  <2>3. CASE ~Passed
    BY <1>1, <1>3, <2>1, <2>3, StageReached DEF Decide, Stages
  <2> QED BY <2>2, <2>3
<1>4. CASE StoreBlob
  <2>1. request # NoRequest /\ Passed
    BY <1>1, <1>4, AtIsRequest DEF StoreBlob, Stages, At, RequestOK
  <2> QED BY <1>1, <1>4, <2>1, StageReached DEF StoreBlob, Stages
<1>5. CASE StoreConstraint
  BY <1>1, <1>5, AtIsRequest, OneMoreStored DEF StoreConstraint, Stages
<1>6. CASE ConstraintsStored
  BY <1>1, <1>6, AtIsRequest, StageReached DEF ConstraintsStored, Stages
<1>7. CASE PostChat
  BY <1>1, <1>7, AtIsRequest, StageReached DEF PostChat, Stages
<1> QED BY <1>2, <1>3, <1>4, <1>5, <1>6, <1>7

\* A statement that fails leaves the request with the handler.
LEMMA FailureKeepsRequest ==
  ASSUME TypeOK, StatementFails
  PROVE  request # NoRequest /\ SameRequest /\ RequestOK'
<1>1. RequestOK
  BY DEF TypeOK
<1>2. CASE At("insert") /\ GoTo("decide")
  BY <1>1, <1>2, AtIsRequest, StageReached DEF Stages
<1>3. CASE At("decide") /\ GoTo(IF Passed THEN "blob" ELSE "chat")
  <2>1. request # NoRequest
    BY <1>3, AtIsRequest DEF Stages
  <2>2. CASE Passed
    BY <1>1, <1>3, <2>1, <2>2, StageReached DEF Stages
  <2>3. CASE ~Passed
    BY <1>1, <1>3, <2>1, <2>3, StageReached DEF Stages
  <2> QED BY <2>2, <2>3
<1>4. CASE At("blob") /\ GoTo("constraints")
  <2>1. request # NoRequest /\ Passed
    BY <1>1, <1>4, AtIsRequest DEF Stages, At, RequestOK
  <2> QED BY <1>1, <1>4, <2>1, StageReached DEF Stages
<1>5. CASE At("constraints") /\ MoreConstraints /\ request' = [request EXCEPT !.stored = @ + 1]
  BY <1>1, <1>5, AtIsRequest, OneMoreStored DEF Stages
<1>6. CASE At("chat") /\ GoTo("answer")
  BY <1>1, <1>6, AtIsRequest, StageReached DEF Stages
<1> QED BY <1>2, <1>3, <1>4, <1>5, <1>6 DEF StatementFails

-----------------------------------------------------------------------------
(* What is written directly.                                               *)

WrittenSets == [proposals : SUBSET AllIds, blobs : SUBSET Sources,
             constraints : SUBSET (Ids \cup {NoId}), chat : SUBSET (Ids \cup {NoId})]

LEMMA DirectGrows ==
  ASSUME TypeOK, [Next]_vars
  PROVE  /\ direct' \in WrittenSets
         /\ direct.proposals \subseteq direct'.proposals /\ direct.blobs \subseteq direct'.blobs
         /\ direct.constraints \subseteq direct'.constraints /\ direct.chat \subseteq direct'.chat
<1>1. direct \in WrittenSets
  BY DEF TypeOK, WrittenSets
<1>2. CASE direct' = direct
  BY <1>1, <1>2
<1>3. CASE DirectProposal
  <2>1. direct' = direct \/ \E p \in ClientProposals : direct' = [direct EXCEPT !.proposals = @ \cup {p.id}]
    BY <1>3 DEF DirectProposal, InsertProposal, ChangeProposal, DeleteProposal
  <2>2. \A p \in ClientProposals : p.id \in AllIds
    BY ClientRows DEF AllIds
  <2> QED BY <1>1, <2>1, <2>2 DEF WrittenSets
<1>4. CASE DirectBlob
  <2>1. PICK b \in ClientBlobs : direct' = [direct EXCEPT !.blobs = @ \cup {b.hash}]
    BY <1>4 DEF DirectBlob, InsertBlob
  <2>2. b.hash \in Sources
    BY ClientRows
  <2> QED BY <1>1, <2>1, <2>2 DEF WrittenSets
<1>5. CASE DirectConstraint
  <2> DEFINE Named == {c.added_by : c \in ClientClauses \cup Stored}
  <2>1. \E new \in SUBSET Named : direct' = [direct EXCEPT !.constraints = @ \cup new]
    <3>1. ASSUME NEW k, NEW clause \in ClientClauses, WriteConstraint(k, clause)
          PROVE  \E new \in SUBSET Named : direct' = [direct EXCEPT !.constraints = @ \cup new]
      <4>1. direct' = [direct EXCEPT !.constraints = @ \cup ({clause.added_by} \cup AddedBy(k))]
        BY <1>1, <3>1 DEF WriteConstraint, WrittenSets
      <4>2. {clause.added_by} \cup AddedBy(k) \in SUBSET Named
        BY <3>1 DEF AddedBy, Stored, Ranged
      <4> QED BY <4>1, <4>2
    <3>2. ASSUME NEW k, DeleteConstraint(k)
          PROVE  \E new \in SUBSET Named : direct' = [direct EXCEPT !.constraints = @ \cup new]
      <4>1. direct' = [direct EXCEPT !.constraints = @ \cup AddedBy(k)]
        BY <3>2 DEF DeleteConstraint
      <4>2. AddedBy(k) \in SUBSET Named
        BY DEF AddedBy, Stored, Ranged
      <4> QED BY <4>1, <4>2
    <3> HIDE DEF Named
    <3> QED BY <1>5, <3>1, <3>2 DEF DirectConstraint
  <2>2. \A c \in ClientClauses \cup Stored : c.added_by \in Ids \cup {NoId}
    <3>1. \A c \in ClauseRows : c.added_by \in Ids \cup {NoId}
      BY DEF ClauseRows, OtherClause
    <3> QED BY <3>1, ClientRows DEF TypeOK, TableOK, Stored
  <2> QED BY <1>1, <2>1, <2>2 DEF WrittenSets
<1>6. CASE DirectMessage
  <2> DEFINE Named == {m.id : m \in ClientMessages \cup Said}
  <2>1. \E new \in SUBSET Named : direct' = [direct EXCEPT !.chat = @ \cup new]
    <3>1. ASSUME NEW k, NEW message \in ClientMessages, WriteMessage(k, message)
          PROVE  \E new \in SUBSET Named : direct' = [direct EXCEPT !.chat = @ \cup new]
      <4>1. direct' = [direct EXCEPT !.chat = @ \cup ({message.id} \cup About(k))]
        BY <1>1, <3>1 DEF WriteMessage, WrittenSets
      <4>2. {message.id} \cup About(k) \in SUBSET Named
        BY <3>1 DEF About, Said, Ranged
      <4> QED BY <4>1, <4>2
    <3>2. ASSUME NEW k, DeleteMessage(k)
          PROVE  \E new \in SUBSET Named : direct' = [direct EXCEPT !.chat = @ \cup new]
      <4>1. direct' = [direct EXCEPT !.chat = @ \cup About(k)]
        BY <3>2 DEF DeleteMessage
      <4>2. About(k) \in SUBSET Named
        BY DEF About, Said, Ranged
      <4> QED BY <4>1, <4>2
    <3> HIDE DEF Named
    <3> QED BY <1>6, <3>1, <3>2 DEF DirectMessage
  <2>2. \A m \in ClientMessages \cup Said : m.id \in Ids \cup {NoId}
    <3>1. \A m \in Messages : m.id \in Ids \cup {NoId}
      BY DEF Messages, OtherMessage
    <3> QED BY <3>1, ClientRows DEF TypeOK, TableOK, Said
  <2> QED BY <1>1, <2>1, <2>2 DEF WrittenSets
<1>7. direct' = direct \/ WriteDirectly
  BY DEF Next, Handle, vars, Refuse, Receive, InsertPending, Decide, StoreBlob, StoreConstraint,
         ConstraintsStored, PostChat, Answer, StatementFails, Crash, Tick, Wait
<1> QED BY <1>2, <1>3, <1>4, <1>5, <1>6, <1>7, DirectIs

-----------------------------------------------------------------------------
(* The table of proposals.                                                 *)

\* What a step does to it: nothing, store a proposal or decide it, or what a client
\* writes directly.
ProposalStored ==
  At("insert") /\ proposals' = WithNew(proposals, request.id, Row(request, "pending"))
ProposalDecided == At("decide") /\ SetStatus(Verdict)

LEMMA ProposalsStep ==
  ASSUME TypeOK, [Next]_vars
  PROVE  proposals' = proposals \/ ProposalStored \/ ProposalDecided \/ DirectProposal
<1>1. CASE WriteDirectly
  <2>1. DirectBlob \/ DirectConstraint \/ DirectMessage => proposals' = proposals
    BY DEF DirectBlob, DirectConstraint, DirectMessage, InsertBlob, WriteConstraint, DeleteConstraint,
           WriteMessage, DeleteMessage
  <2> QED BY <1>1, <2>1, DirectIs
<1>2. CASE ~WriteDirectly
  BY <1>2 DEF Next, Handle, vars, tables, Refuse, Receive, InsertPending, Decide, StoreBlob,
     StoreConstraint, ConstraintsStored, PostChat, Answer, StatementFails, Crash, Tick, Wait,
     ProposalStored, ProposalDecided
<1> QED BY <1>1, <1>2

\* Only a client has written the rows that PUT and DELETE find.
LEMMA NumbersAreDirect ==
  ASSUME TypeOK, NEW i \in DOMAIN proposals, i \in NumberIds
  PROVE  i \in direct.proposals
<1>1. \A row \in Rows : Id(row.namespace, row.source, row.at) \in Ids
  BY DEF Rows, Ids
<1>2. i \notin Ids
  BY IdsApart
<1> QED BY <1>1, <1>2 DEF TypeOK, ProposalsOK

\* Row by row.
LEMMA RowsStep ==
  ASSUME TypeOK, [Next]_vars, NEW i \in DOMAIN proposals
  PROVE  \/ i \in DOMAIN proposals' /\ proposals'[i] = proposals[i]
         \/ /\ At("decide") /\ i = request.id /\ SetStatus(Verdict)
            /\ i \in DOMAIN proposals' /\ proposals'[i] = [proposals[i] EXCEPT !.status = Verdict]
         \/ /\ i \in NumberIds /\ i \in direct.proposals
            /\ i \in DOMAIN proposals' => proposals'[i] \in Rows
<1>1. CASE proposals' = proposals
  BY <1>1
<1>2. CASE ProposalStored
  BY <1>2 DEF ProposalStored, WithNew, With
<1>3. CASE ProposalDecided
  BY <1>3 DEF ProposalDecided, SetStatus
<1>4. CASE DirectProposal
  <2>1. ASSUME NEW p \in ClientProposals, InsertProposal(p)
        PROVE  i \in DOMAIN proposals' /\ proposals'[i] = proposals[i]
    BY <2>1 DEF InsertProposal, With
  <2>2. ASSUME NEW p \in ClientProposals, ChangeProposal(p)
        PROVE  \/ i \in DOMAIN proposals' /\ proposals'[i] = proposals[i]
               \/ i \in NumberIds /\ proposals'[i] \in Rows
    BY <2>2, ClientRows DEF ChangeProposal
  <2>3. ASSUME NEW n \in NumberIds, DeleteProposal(n)
        PROVE  \/ i \in DOMAIN proposals' /\ proposals'[i] = proposals[i]
               \/ i \in NumberIds /\ i \notin DOMAIN proposals'
    BY <2>3 DEF DeleteProposal, Without
  <2> QED BY <1>4, <2>1, <2>2, <2>3, NumbersAreDirect DEF DirectProposal
<1> QED BY <1>1, <1>2, <1>3, <1>4, ProposalsStep

LEMMA NewRows ==
  ASSUME TypeOK, [Next]_vars, NEW i \in DOMAIN proposals', i \notin DOMAIN proposals
  PROVE  \/ At("insert") /\ i = request.id /\ proposals'[i] = Row(request, "pending")
         \/ i \in direct'.proposals /\ i \in AllIds /\ proposals'[i] \in Rows
<1>1. CASE proposals' = proposals
  BY <1>1
<1>2. CASE ProposalStored
  BY <1>2 DEF ProposalStored, WithNew, With
<1>3. CASE ProposalDecided
  BY <1>3 DEF ProposalDecided, SetStatus
<1>4. CASE DirectProposal
  <2>1. ASSUME NEW p \in ClientProposals, InsertProposal(p)
        PROVE  i \in direct'.proposals /\ i \in AllIds /\ proposals'[i] \in Rows
    <3>1. i = p.id /\ proposals'[i] = p.row
      BY <2>1 DEF InsertProposal, With
    <3>2. p.id \in AllIds /\ p.row \in Rows
      BY ClientRows DEF AllIds
    <3>3. p.id \in direct'.proposals
      BY <2>1 DEF InsertProposal, TypeOK
    <3> QED BY <3>1, <3>2, <3>3
  <2>2. ASSUME NEW p \in ClientProposals, ChangeProposal(p)
        PROVE  FALSE
    BY <2>2 DEF ChangeProposal
  <2>3. ASSUME NEW n \in NumberIds, DeleteProposal(n)
        PROVE  FALSE
    BY <2>3 DEF DeleteProposal, Without
  <2> QED BY <1>4, <2>1, <2>2, <2>3 DEF DirectProposal
<1> QED BY <1>1, <1>2, <1>3, <1>4, ProposalsStep

LEMMA VerdictIsStatus == Verdict \in {"merged", "rejected"}
BY DEF Verdict

LEMMA ProposalsTyped ==
  ASSUME TypeOK, [Next]_vars
  PROVE  ProposalsOK'
<1> SUFFICES ASSUME NEW i \in DOMAIN proposals'
             PROVE  /\ i \in AllIds /\ proposals'[i] \in Rows
                    /\ \/ i \in direct'.proposals
                       \/ i = Id(proposals'[i].namespace, proposals'[i].source, proposals'[i].at)
  BY DEF ProposalsOK
<1>1. CASE i \in DOMAIN proposals
  <2>1. /\ i \in AllIds /\ proposals[i] \in Rows
        /\ i \in direct.proposals \/ i = Id(proposals[i].namespace, proposals[i].source, proposals[i].at)
    BY <1>1 DEF TypeOK, ProposalsOK
  <2>2. CASE proposals'[i] = proposals[i]
    BY <2>1, <2>2, DirectGrows
  <2>3. CASE proposals'[i] = [proposals[i] EXCEPT !.status = Verdict]
    <3>1. /\ proposals'[i] \in Rows /\ proposals'[i].namespace = proposals[i].namespace
          /\ proposals'[i].source = proposals[i].source /\ proposals'[i].at = proposals[i].at
      BY <2>1, <2>3, VerdictIsStatus DEF Rows
    <3> QED BY <2>1, <3>1, DirectGrows
  <2>4. CASE i \in direct.proposals /\ proposals'[i] \in Rows
    BY <2>1, <2>4, DirectGrows
  <2> QED BY <1>1, <2>2, <2>3, <2>4, RowsStep
<1>2. CASE i \notin DOMAIN proposals
  <2>1. CASE At("insert") /\ i = request.id /\ proposals'[i] = Row(request, "pending")
    <3>1. request \in Requests /\ request.id = Id(request.namespace, request.source, request.at)
      BY <2>1, AtIsRequest DEF Stages, TypeOK, RequestOK
    <3> QED BY <2>1, <3>1 DEF Row, Rows, Requests, AllIds
  <2> QED BY <1>2, <2>1, NewRows
<1> QED BY <1>1, <1>2

-----------------------------------------------------------------------------
(* The other tables.                                                       *)

NextClause == Clause(request.namespace, request.source, request.stored + 1, request.id)

LEMMA BlobsStep ==
  ASSUME TypeOK, [Next]_vars
  PROVE  \/ blobs' = blobs
         \/ At("blob") /\ blobs' = WithNew(blobs, request.source, request.source)
         \/ DirectBlob
<1>1. CASE WriteDirectly
  <2>1. DirectProposal \/ DirectConstraint \/ DirectMessage => blobs' = blobs
    BY DEF DirectProposal, DirectConstraint, DirectMessage, InsertProposal, ChangeProposal,
           DeleteProposal, WriteConstraint, DeleteConstraint, WriteMessage, DeleteMessage
  <2> QED BY <1>1, <2>1, DirectIs
<1>2. CASE ~WriteDirectly
  BY <1>2 DEF Next, Handle, vars, tables, Refuse, Receive, InsertPending, Decide, StoreBlob,
     StoreConstraint, ConstraintsStored, PostChat, Answer, StatementFails, Crash, Tick, Wait
<1> QED BY <1>1, <1>2

\* What is stored under a hash stays, and what is stored there new is what has the
\* hash, unless a client has written it.
LEMMA BlobsGrow ==
  ASSUME TypeOK, [Next]_vars
  PROVE  /\ \A h \in DOMAIN blobs : h \in DOMAIN blobs' /\ blobs'[h] = blobs[h]
         /\ \A h \in DOMAIN blobs' \ DOMAIN blobs :
              h \in Sources /\ blobs'[h] \in Sources /\ (h \notin direct'.blobs => blobs'[h] = h)
<1>1. CASE blobs' = blobs
  BY <1>1
<1>2. CASE At("blob") /\ blobs' = WithNew(blobs, request.source, request.source)
  <2>1. request.source \in Sources
    BY <1>2, AtIsRequest DEF Stages, TypeOK, RequestOK, Requests
  <2> QED BY <1>2, <2>1 DEF WithNew, With
<1>3. CASE DirectBlob
  <2>1. PICK b \in ClientBlobs : InsertBlob(b)
    BY <1>3 DEF DirectBlob
  <2>2. b.hash \in Sources /\ b.content \in Sources
    BY ClientRows
  <2>3. b.hash \in direct'.blobs
    BY <2>1 DEF InsertBlob, TypeOK
  <2> QED BY <2>1, <2>2, <2>3 DEF InsertBlob, With
<1> QED BY <1>1, <1>2, <1>3, BlobsStep

LEMMA BlobsTyped ==
  ASSUME TypeOK, [Next]_vars
  PROVE  DOMAIN blobs' \subseteq Sources /\ \A h \in DOMAIN blobs' : blobs'[h] \in Sources
BY BlobsGrow DEF TypeOK

LEMMA BlobsTrueStep ==
  ASSUME TypeOK, BlobsTrue, [Next]_vars
  PROVE  BlobsTrue'
<1> SUFFICES ASSUME NEW h \in DOMAIN blobs', h \notin direct'.blobs
             PROVE  blobs'[h] = h
  BY DEF BlobsTrue
<1>1. CASE h \in DOMAIN blobs
  BY <1>1, BlobsGrow, DirectGrows DEF BlobsTrue
<1>2. CASE h \notin DOMAIN blobs
  BY <1>2, BlobsGrow
<1> QED BY <1>1, <1>2

\* What a table holds after an insertion.
LEMMA InsertedHolds ==
  ASSUME NEW S, NEW table, TableOK(table, S), NEW row \in S, NEW t, t = Insert(table, row)
  PROVE  TableOK(t, S) /\ Ranged(table) \subseteq Ranged(t) /\ row \in Ranged(t)
BY Inserted DEF Ranged

LEMMA ConstraintsStep ==
  ASSUME TypeOK, [Next]_vars
  PROVE  \/ constraints' = constraints
         \/ At("constraints") /\ MoreConstraints /\ constraints' = Insert(constraints, NextClause)
         \/ constraints' = Insert(constraints, OtherClause)
         \/ DirectConstraint
<1>1. CASE WriteDirectly
  <2>1. DirectProposal \/ DirectBlob \/ DirectMessage => constraints' = constraints
    BY DEF DirectProposal, DirectBlob, DirectMessage, InsertProposal, ChangeProposal,
           DeleteProposal, InsertBlob, WriteMessage, DeleteMessage
  <2> QED BY <1>1, <2>1, DirectIs
<1>2. CASE ~WriteDirectly
  BY <1>2 DEF Next, Handle, vars, tables, Refuse, Receive, InsertPending, Decide, StoreBlob,
     StoreConstraint, ConstraintsStored, PostChat, Answer, StatementFails, Crash, Tick, Wait, NextClause
<1> QED BY <1>1, <1>2

LEMMA ClauseIsRow ==
  ASSUME TypeOK, At("constraints")
  PROVE  NextClause \in ClauseRows
<1>1. request \in Requests
  BY AtIsRequest DEF Stages, TypeOK, RequestOK
<1> QED BY <1>1 DEF NextClause, Clause, ClauseRows, Requests

\* No clause is lost but to a client that has written or deleted it.
LEMMA ConstraintsGrow ==
  ASSUME TypeOK, [Next]_vars
  PROVE  /\ TableOK(constraints', ClauseRows)
         /\ \A c \in Stored : c.added_by \in direct'.constraints \/ c \in Stored'
<1>1. TableOK(constraints, ClauseRows)
  BY DEF TypeOK
<1>2. PICK t : t = constraints'
  OBVIOUS
<1>3. Stored' = Ranged(t)
  BY <1>2 DEF Stored, Ranged
<1> SUFFICES /\ TableOK(t, ClauseRows)
             /\ \A c \in Ranged(constraints) : c.added_by \in direct'.constraints \/ c \in Ranged(t)
  BY <1>2, <1>3 DEF Stored
<1>4. CASE t = constraints
  BY <1>1, <1>4
<1>5. CASE At("constraints") /\ t = Insert(constraints, NextClause)
  BY <1>1, <1>5, ClauseIsRow, InsertedHolds
<1>6. CASE t = Insert(constraints, OtherClause)
  BY <1>1, <1>6, InsertedHolds DEF ClauseRows
<1>7. ASSUME NEW k \in 1..(constraints.last + 1), NEW clause \in ClientClauses, WriteConstraint(k, clause)
      PROVE  /\ TableOK(t, ClauseRows)
             /\ \A c \in Ranged(constraints) : c.added_by \in direct'.constraints \/ c \in Ranged(t)
  <2>1. t = Write(constraints, k, clause) /\ clause \in ClauseRows /\ k \in Nat \ {0}
    BY <1>1, <1>2, <1>7, ClientRows DEF WriteConstraint, TableOK
  <2>2. AddedBy(k) \subseteq direct'.constraints
    BY <1>7 DEF WriteConstraint, TypeOK
  <2>3. \A j \in DOMAIN constraints.rows : j = k => constraints.rows[j].added_by \in AddedBy(k)
    BY DEF AddedBy
  <2>4. /\ TableOK(t, ClauseRows) /\ DOMAIN t.rows = DOMAIN constraints.rows \cup {k}
        /\ \A j \in DOMAIN constraints.rows \ {k} : t.rows[j] = constraints.rows[j]
    BY <1>1, <2>1, Written
  <2> QED BY <2>2, <2>3, <2>4 DEF Ranged
<1>8. ASSUME NEW k \in 1..constraints.last, DeleteConstraint(k)
      PROVE  /\ TableOK(t, ClauseRows)
             /\ \A c \in Ranged(constraints) : c.added_by \in direct'.constraints \/ c \in Ranged(t)
  <2>1. t = Remove(constraints, k)
    BY <1>2, <1>8 DEF DeleteConstraint
  <2>2. AddedBy(k) \subseteq direct'.constraints
    BY <1>8 DEF DeleteConstraint, TypeOK
  <2>3. \A j \in DOMAIN constraints.rows : j = k => constraints.rows[j].added_by \in AddedBy(k)
    BY DEF AddedBy
  <2>4. /\ TableOK(t, ClauseRows) /\ DOMAIN t.rows = DOMAIN constraints.rows \ {k}
        /\ \A j \in DOMAIN t.rows : t.rows[j] = constraints.rows[j]
    BY <1>1, <2>1, Removed
  <2> QED BY <2>2, <2>3, <2>4 DEF Ranged
<1> QED BY <1>2, <1>4, <1>5, <1>6, <1>7, <1>8, ConstraintsStep DEF DirectConstraint

LEMMA ChatStep ==
  ASSUME TypeOK, [Next]_vars
  PROVE  \/ chat' = chat
         \/ PostChat /\ chat' = Insert(chat, Message(Verdict, request.id))
         \/ chat' = Insert(chat, OtherMessage)
         \/ DirectMessage
<1>1. CASE WriteDirectly
  <2>1. DirectProposal \/ DirectBlob \/ DirectConstraint => chat' = chat
    BY DEF DirectProposal, DirectBlob, DirectConstraint, InsertProposal, ChangeProposal,
           DeleteProposal, InsertBlob, WriteConstraint, DeleteConstraint
  <2> QED BY <1>1, <2>1, DirectIs
<1>2. CASE ~WriteDirectly
  BY <1>2 DEF Next, Handle, vars, tables, Refuse, Receive, InsertPending, Decide, StoreBlob,
     StoreConstraint, ConstraintsStored, PostChat, Answer, StatementFails, Crash, Tick, Wait
<1> QED BY <1>1, <1>2

LEMMA VerdictIsMessage ==
  ASSUME TypeOK, At("chat")
  PROVE  Message(Verdict, request.id) \in Messages
<1>1. request \in Requests
  BY AtIsRequest DEF Stages, TypeOK, RequestOK
<1> QED BY <1>1, VerdictIsStatus DEF Message, Messages, Requests

\* What a step does to a message: it keeps it, or a client has written or deleted it;
\* and a message that is new is posted as the last, or a client has written it, or it
\* is about no proposal.
LEMMA MessagesStep ==
  ASSUME TypeOK, [Next]_vars
  PROVE  /\ TableOK(chat', Messages)
         /\ \A k \in DOMAIN chat.rows :
              \/ chat.rows[k].id \in direct'.chat
              \/ k \in DOMAIN chat'.rows /\ chat'.rows[k] = chat.rows[k]
         /\ \A k \in DOMAIN chat'.rows :
              \/ k \in DOMAIN chat.rows /\ chat'.rows[k] = chat.rows[k]
              \/ chat'.rows[k].id \in direct'.chat \cup {NoId}
              \/ PostChat /\ chat'.rows[k].id = request.id
<1>1. TableOK(chat, Messages)
  BY DEF TypeOK
<1>2. PICK t : t = chat'
  OBVIOUS
<1> DEFINE Kept == \A k \in DOMAIN chat.rows :
                     \/ chat.rows[k].id \in direct'.chat
                     \/ k \in DOMAIN t.rows /\ t.rows[k] = chat.rows[k]
           New == \A k \in DOMAIN t.rows :
                    \/ k \in DOMAIN chat.rows /\ t.rows[k] = chat.rows[k]
                    \/ t.rows[k].id \in direct'.chat \cup {NoId}
                    \/ PostChat /\ t.rows[k].id = request.id
<1> SUFFICES TableOK(t, Messages) /\ Kept /\ New
  BY <1>2
<1>3. CASE t = chat
  BY <1>1, <1>3
<1>4. CASE PostChat /\ t = Insert(chat, Message(Verdict, request.id))
  <2>1. PICK m \in Messages : m = Message(Verdict, request.id)
    BY <1>4, VerdictIsMessage DEF PostChat
  <2>2. m.id = request.id
    BY <2>1 DEF Message
  <2> QED BY <1>1, <1>4, <2>1, <2>2, Inserted
<1>5. CASE t = Insert(chat, OtherMessage)
  <2>1. OtherMessage \in Messages /\ OtherMessage.id = NoId
    BY DEF Messages, OtherMessage
  <2> QED BY <1>1, <1>5, <2>1, Inserted
<1>6. ASSUME NEW k \in 1..(chat.last + 1), NEW message \in ClientMessages, WriteMessage(k, message)
      PROVE  TableOK(t, Messages) /\ Kept /\ New
  <2>1. t = Write(chat, k, message) /\ message \in Messages /\ k \in Nat \ {0}
    BY <1>1, <1>2, <1>6, ClientRows DEF WriteMessage, TableOK
  <2>2. About(k) \subseteq direct'.chat /\ message.id \in direct'.chat
    BY <1>6 DEF WriteMessage, TypeOK
  <2>3. \A j \in DOMAIN chat.rows : j = k => chat.rows[j].id \in About(k)
    BY DEF About
  <2>4. /\ TableOK(t, Messages) /\ DOMAIN t.rows = DOMAIN chat.rows \cup {k} /\ t.rows[k] = message
        /\ \A j \in DOMAIN chat.rows \ {k} : t.rows[j] = chat.rows[j]
    BY <1>1, <2>1, Written
  <2> QED BY <2>2, <2>3, <2>4
<1>7. ASSUME NEW k \in 1..chat.last, DeleteMessage(k)
      PROVE  TableOK(t, Messages) /\ Kept /\ New
  <2>1. t = Remove(chat, k)
    BY <1>2, <1>7 DEF DeleteMessage
  <2>2. About(k) \subseteq direct'.chat
    BY <1>7 DEF DeleteMessage, TypeOK
  <2>3. \A j \in DOMAIN chat.rows : j = k => chat.rows[j].id \in About(k)
    BY DEF About
  <2>4. /\ TableOK(t, Messages) /\ DOMAIN t.rows = DOMAIN chat.rows \ {k}
        /\ \A j \in DOMAIN t.rows : t.rows[j] = chat.rows[j]
    BY <1>1, <2>1, Removed
  <2> QED BY <2>2, <2>3, <2>4
<1> HIDE DEF Kept, New
<1> QED BY <1>2, <1>3, <1>4, <1>5, <1>6, <1>7, ChatStep DEF DirectMessage

\* Nothing is taken out of a table or the history but by a client, directly.
LEMMA TablesGrow ==
  ASSUME TypeOK, [Next]_vars
  PROVE  /\ DOMAIN blobs \subseteq DOMAIN blobs'
         /\ \A c \in Stored : c.added_by \in direct'.constraints \/ c \in Stored'
         /\ \A m \in Said : m.id \in direct'.chat \/ m \in Said'
         /\ spoiled \subseteq spoiled'
<1>1. spoiled \subseteq spoiled'
  BY DirectFrame DEF Next, Handle, vars, tables, Refuse, Receive, InsertPending, Decide, StoreBlob,
     StoreConstraint, ConstraintsStored, PostChat, Answer, StatementFails, Crash, Tick, Wait
<1>2. \A m \in Said : m.id \in direct'.chat \/ m \in Said'
  BY MessagesStep DEF Said, Ranged
<1> QED BY <1>1, <1>2, BlobsGrow, ConstraintsGrow

-----------------------------------------------------------------------------
(* Types.                                                                  *)

LEMMA RequestTyped ==
  ASSUME TypeOK, [Next]_vars
  PROVE  RequestOK'
<1>1. CASE request' = request
  BY <1>1 DEF TypeOK, RequestOK, Passed
<1>2. CASE request' = NoRequest
  BY <1>2 DEF RequestOK
<1>3. CASE \E n \in Namespaces, s \in Sources : Receive(n, s)
  BY <1>3, Received
<1>4. CASE InsertPending \/ Decide \/ StoreBlob \/ StoreConstraint \/ ConstraintsStored \/ PostChat
  BY <1>4, HandlerKeepsRequest
<1>5. CASE StatementFails
  BY <1>5, FailureKeepsRequest
<1>6. \/ request' = request \/ request' = NoRequest
      \/ \E n \in Namespaces, s \in Sources : Receive(n, s)
      \/ InsertPending \/ Decide \/ StoreBlob \/ StoreConstraint \/ ConstraintsStored \/ PostChat
      \/ StatementFails
  BY DirectFrame DEF Next, Handle, vars, Refuse, Answer, Crash, Tick, Wait
<1> QED BY <1>1, <1>2, <1>3, <1>4, <1>5, <1>6

\* The bounded counters.
LEMMA CountersTyped ==
  ASSUME TypeOK, [Next]_vars
  PROVE  now' \in 0..MaxTime /\ requests' \in 0..MaxRequests /\ faults' \in 0..MaxFaults
<1>1. now' = now \/ (now < MaxTime /\ now' = now + 1)
  BY DirectFrame DEF Next, Handle, vars, Refuse, Receive, InsertPending, Decide, StoreBlob,
     StoreConstraint, ConstraintsStored, PostChat, Answer, StatementFails, Crash, Tick, Wait
<1>2. requests' = requests \/ (requests < MaxRequests /\ requests' = requests + 1)
  BY DirectFrame DEF Next, Handle, vars, Refuse, Receive, InsertPending, Decide, StoreBlob,
     StoreConstraint, ConstraintsStored, PostChat, Answer, StatementFails, Crash, Tick, Wait
<1>3. faults' = faults \/ (faults < MaxFaults /\ faults' = faults + 1)
  BY DirectFrame DEF Next, Handle, vars, Refuse, Receive, InsertPending, Decide, StoreBlob,
     StoreConstraint, ConstraintsStored, PostChat, Answer, StatementFails, Crash, Tick, Wait
<1>4. now \in 0..MaxTime /\ requests \in 0..MaxRequests /\ faults \in 0..MaxFaults
  BY DEF TypeOK
<1> QED BY <1>1, <1>2, <1>3, <1>4, BoundsAreNatural

\* What is new among the answers.
LEMMA NewAnswers ==
  ASSUME [Next]_vars, NEW a \in answers', a \notin answers
  PROVE  Answer /\ a = [status |-> Verdict, namespace |-> request.namespace,
                        source |-> request.source, id |-> request.id]
BY DirectFrame DEF Next, Handle, vars, Refuse, Receive, InsertPending, Decide, StoreBlob,
   StoreConstraint, ConstraintsStored, PostChat, Answer, StatementFails, Crash, Tick, Wait

\* The histories.
LEMMA HistoriesTyped ==
  ASSUME TypeOK, [Next]_vars
  PROVE  answers' \subseteq Answers /\ spoiled' \subseteq Ids
<1>1. answers \subseteq Answers /\ spoiled \subseteq Ids
  BY DEF TypeOK
<1>2. request # NoRequest => request \in Requests
  BY DEF TypeOK, RequestOK
<1>3. ASSUME NEW a \in answers', a \notin answers
      PROVE  a \in Answers
  <2>1. request \in Requests
    BY <1>2, <1>3, NewAnswers, AtIsRequest DEF Answer, Stages
  <2> QED BY <1>3, <2>1, NewAnswers, VerdictIsStatus DEF Answers, Requests
<1>4. spoiled' \subseteq Ids
  <2>1. spoiled' = spoiled \/ (request # NoRequest /\ spoiled' = spoiled \cup {request.id})
    BY FailureKeepsRequest, DirectFrame
       DEF Next, Handle, vars, Refuse, Receive, InsertPending, Decide, StoreBlob,
           StoreConstraint, ConstraintsStored, PostChat, Answer, StatementFails, Crash, Tick, Wait
  <2> QED BY <1>1, <1>2, <2>1 DEF Requests
<1> QED BY <1>1, <1>3, <1>4

LEMMA TypeStep ==
  ASSUME TypeOK, [Next]_vars
  PROVE  TypeOK'
<1>1. TableOK(constraints, ClauseRows)' /\ TableOK(chat, Messages)'
  BY ConstraintsGrow, MessagesStep DEF TableOK, Ranged
<1> QED BY <1>1, BlobsTyped, ProposalsTyped, RequestTyped, CountersTyped, HistoriesTyped, DirectGrows
        DEF TypeOK, WrittenSets

-----------------------------------------------------------------------------
(* The request being handled.                                              *)

\* A request that goes on says the same things.
LEMMA SameWords ==
  ASSUME SameRequest
  PROVE  /\ Passed' = Passed /\ Verdict' = Verdict
         /\ \A k : Clause(request'.namespace, request'.source, k, request'.id)
                     = Clause(request.namespace, request.source, k, request.id)
         /\ Message(Verdict', request'.id) = Message(Verdict, request.id)
BY DEF SameRequest, Passed, Verdict

LEMMA InsertDone ==
  ASSUME TypeOK, InsertPending, StatementsDone
  PROVE  StatementsDone'
<1>1. request # NoRequest /\ SameRequest /\ request'.pc = "decide" /\ request'.stored = request.stored
  BY AtIsRequest, GoToKeeps DEF InsertPending, Stages, TypeOK
<1>2. request.id \in DOMAIN proposals'
  BY DEF InsertPending, WithNew, With
<1>3. Stored' = Stored
  BY DEF InsertPending, Stored
<1> QED BY <1>1, <1>2, <1>3, SameWords DEF StatementsDone, SameRequest, Clause

LEMMA DecideDone ==
  ASSUME TypeOK, Decide, StatementsDone
  PROVE  StatementsDone'
<1>1. request # NoRequest /\ request.pc = "decide"
  BY AtIsRequest DEF Decide, Stages, At
<1>2. /\ SameRequest /\ request'.pc = (IF Passed THEN "blob" ELSE "chat")
      /\ request'.stored = request.stored
  <2>1. CASE Passed
    BY <1>1, <2>1, GoToKeeps DEF Decide, Stages, TypeOK
  <2>2. CASE ~Passed
    BY <1>1, <2>2, GoToKeeps DEF Decide, Stages, TypeOK
  <2> QED BY <2>1, <2>2
<1>3. request.id \in DOMAIN proposals /\ proposals[request.id] \in Rows
  BY <1>1 DEF StatementsDone, TypeOK, ProposalsOK
<1>4. proposals' = [proposals EXCEPT ![request.id].status = Verdict]
  BY <1>3 DEF Decide, SetStatus
<1>5. request.id \in DOMAIN proposals' /\ proposals'[request.id].status = Verdict
  BY <1>3, <1>4 DEF Rows
<1>6. Stored' = Stored
  BY DEF Decide, Stored
<1> QED BY <1>1, <1>2, <1>5, <1>6, SameWords DEF StatementsDone, SameRequest, Clause

LEMMA BlobDone ==
  ASSUME TypeOK, StoreBlob, StatementsDone
  PROVE  StatementsDone'
<1>1. /\ request # NoRequest /\ SameRequest /\ request.pc = "blob" /\ request'.pc = "constraints"
      /\ request'.stored = request.stored
  BY AtIsRequest, GoToKeeps DEF StoreBlob, Stages, TypeOK, At
<1>2. Stored' = Stored /\ proposals' = proposals /\ request.source \in DOMAIN blobs'
  BY DEF StoreBlob, Stored, WithNew, With
<1> QED BY <1>1, <1>2, SameWords DEF StatementsDone, SameRequest, Clause

LEMMA ConstraintDone ==
  ASSUME TypeOK, StoreConstraint, StatementsDone
  PROVE  StatementsDone'
<1>1. /\ request # NoRequest /\ SameRequest /\ request.pc = "constraints"
      /\ request'.pc = "constraints" /\ request'.stored = request.stored + 1
  BY AtIsRequest, StoringKeeps DEF StoreConstraint, Stages, TypeOK, At
<1>2. proposals' = proposals /\ blobs' = blobs
  BY DEF StoreConstraint
<1>3. request.stored \in Nat
  BY <1>1, StoredIsNat DEF TypeOK
<1>4. Stored \subseteq Stored' /\ NextClause \in Stored'
  <2>1. PICK t : t = constraints'
    OBVIOUS
  <2>2. t = Insert(constraints, NextClause)
    BY <2>1 DEF StoreConstraint, NextClause
  <2>3. NextClause \in ClauseRows
    BY ClauseIsRow DEF StoreConstraint
  <2>4. Ranged(constraints) \subseteq Ranged(t) /\ NextClause \in Ranged(t)
    BY <2>2, <2>3, InsertedHolds DEF TypeOK
  <2>5. Stored' = Ranged(t)
    BY <2>1 DEF Stored, Ranged
  <2> QED BY <2>4, <2>5 DEF Stored
<1>5. \A k \in 1..(request.stored + 1) :
        Clause(request.namespace, request.source, k, request.id) \in Stored'
  <2> SUFFICES ASSUME NEW k \in 1..(request.stored + 1)
               PROVE  Clause(request.namespace, request.source, k, request.id) \in Stored'
    OBVIOUS
  <2>1. k \in 1..request.stored \/ k = request.stored + 1
    BY <1>3
  <2> QED BY <1>4, <2>1 DEF StatementsDone, NextClause
<1> QED BY <1>1, <1>2, <1>5, SameWords DEF StatementsDone, SameRequest, Clause

LEMMA ConstraintsDone ==
  ASSUME TypeOK, ConstraintsStored, StatementsDone
  PROVE  StatementsDone'
<1>1. /\ request # NoRequest /\ SameRequest /\ request.pc = "constraints" /\ request'.pc = "chat"
      /\ request'.stored = request.stored
  BY AtIsRequest, GoToKeeps DEF ConstraintsStored, Stages, TypeOK, At
<1>2. Stored' = Stored /\ proposals' = proposals /\ blobs' = blobs
  BY DEF ConstraintsStored, Stored, tables
<1>3. request.stored = ConstraintCount[request.source]
  BY <1>1, StoredIsNat DEF ConstraintsStored, MoreConstraints, TypeOK, RequestOK
<1> QED BY <1>1, <1>2, <1>3, SameWords DEF StatementsDone, SameRequest, Clause

LEMMA ChatDone ==
  ASSUME TypeOK, PostChat, StatementsDone
  PROVE  StatementsDone'
<1>1. /\ request # NoRequest /\ SameRequest /\ request.pc = "chat" /\ request'.pc = "answer"
      /\ request'.stored = request.stored
  BY AtIsRequest, GoToKeeps DEF PostChat, Stages, TypeOK, At
<1>2. Stored' = Stored /\ proposals' = proposals /\ blobs' = blobs
  BY DEF PostChat, Stored
<1>3. Message(Verdict, request.id) \in Said'
  <2>1. PICK t : t = chat'
    OBVIOUS
  <2>2. t = Insert(chat, Message(Verdict, request.id)) /\ Message(Verdict, request.id) \in Messages
    BY <2>1, VerdictIsMessage DEF PostChat
  <2>3. Message(Verdict, request.id) \in Ranged(t)
    BY <2>2, InsertedHolds DEF TypeOK
  <2>4. Said' = Ranged(t)
    BY <2>1 DEF Said, Ranged
  <2> QED BY <2>3, <2>4
<1> QED BY <1>1, <1>2, <1>3, SameWords DEF StatementsDone, SameRequest, Clause, Message

LEMMA ProgressStep ==
  ASSUME TypeOK, Progress, [Next]_vars
  PROVE  Progress'
<1>1. CASE request' = NoRequest
  BY <1>1 DEF Progress
<1>2. CASE request' = request /\ tables' = tables
  <2>1. /\ Passed' = Passed /\ Verdict' = Verdict /\ Stored' = Stored /\ Said' = Said
        /\ proposals' = proposals /\ blobs' = blobs
    BY <1>2 DEF tables, Passed, Verdict, Stored, Said
  <2>2. StatementsDone => StatementsDone'
    BY <1>2, <2>1 DEF StatementsDone, Clause, Message
  <2> QED BY <1>2, <2>2, TablesGrow DEF Progress
<1>3. CASE \E n \in Namespaces, s \in Sources : Receive(n, s)
  <2>1. request'.pc = "insert" /\ request'.stored = 0
    BY <1>3, Received
  <2> QED BY <2>1 DEF Progress, StatementsDone
<1>4. CASE StatementFails
  BY <1>4, FailureKeepsRequest DEF StatementFails, SameRequest, Progress
<1>5. CASE InsertPending \/ Decide \/ StoreBlob \/ StoreConstraint \/ ConstraintsStored \/ PostChat
  <2>1. request # NoRequest /\ request'.id = request.id
    BY <1>5, HandlerKeepsRequest DEF SameRequest
  <2>2. CASE request.id \notin spoiled
    <3>1. StatementsDone
      BY <2>1, <2>2 DEF Progress
    <3>2. StatementsDone'
      BY <1>5, <3>1, InsertDone, DecideDone, BlobDone, ConstraintDone, ConstraintsDone, ChatDone
    <3> QED BY <3>2 DEF Progress
  <2>3. CASE request.id \in spoiled
    BY <2>1, <2>3, TablesGrow DEF Progress
  <2> QED BY <2>2, <2>3
<1>6. \/ request' = NoRequest \/ (request' = request /\ tables' = tables)
      \/ \E n \in Namespaces, s \in Sources : Receive(n, s)
      \/ InsertPending \/ Decide \/ StoreBlob \/ StoreConstraint \/ ConstraintsStored \/ PostChat
      \/ StatementFails
  BY DirectFrame DEF Next, Handle, vars, Refuse, Answer, Crash, Tick, Wait
<1> QED BY <1>1, <1>2, <1>3, <1>4, <1>5, <1>6

-----------------------------------------------------------------------------
(* Pending rows.                                                           *)

\* A request stays until it is answered, or a fault touches it.
LEMMA RequestStays ==
  ASSUME TypeOK, [Next]_vars, request # NoRequest
  PROVE  \/ request' # NoRequest /\ request'.id = request.id
         \/ Answer
         \/ request.id \in spoiled'
<1>1. CASE InsertPending \/ Decide \/ StoreBlob \/ StoreConstraint \/ ConstraintsStored \/ PostChat
  BY <1>1, HandlerKeepsRequest DEF SameRequest
<1>2. CASE StatementFails \/ Crash
  BY <1>2 DEF StatementFails, Crash
<1>3. \/ request' = request \/ Answer
      \/ InsertPending \/ Decide \/ StoreBlob \/ StoreConstraint \/ ConstraintsStored \/ PostChat
      \/ StatementFails \/ Crash
  BY DirectFrame DEF Next, Handle, vars, Refuse, Receive, Tick, Wait
<1> QED BY <1>1, <1>2, <1>3

LEMMA PendingStep ==
  ASSUME TypeOK, Progress, PendingOnlyUnderWay, [Next]_vars
  PROVE  PendingOnlyUnderWay'
<1> SUFFICES ASSUME NEW i \in DOMAIN proposals', proposals'[i].status = "pending",
                    i \notin direct'.proposals
             PROVE  i \in spoiled' \/ (request' # NoRequest /\ request'.id = i)
  BY DEF PendingOnlyUnderWay, UnderWay
<1>1. CASE i \in DOMAIN proposals
  <2>0. i \notin direct.proposals
    BY DirectGrows
  <2>1. proposals'[i] = proposals[i]
    <3>1. proposals[i] \in Rows
      BY <1>1 DEF TypeOK, ProposalsOK
    <3>2. ~(proposals'[i] = [proposals[i] EXCEPT !.status = Verdict])
      BY <3>1, VerdictIsStatus DEF Rows
    <3> QED BY <1>1, <2>0, <3>2, RowsStep
  <2>2. i \in spoiled \/ (request # NoRequest /\ request.id = i)
    BY <1>1, <2>0, <2>1 DEF PendingOnlyUnderWay, UnderWay
  <2>3. ~(Answer /\ request.id = i /\ i \notin spoiled)
    <3> SUFFICES ASSUME Answer, request.id = i, i \notin spoiled
                 PROVE  FALSE
      OBVIOUS
    <3>1. request # NoRequest /\ request.pc = "answer"
      BY AtIsRequest DEF Answer, Stages, At
    <3>2. proposals[i].status = Verdict
      BY <3>1 DEF Progress, StatementsDone
    <3> QED BY <2>1, <3>2, VerdictIsStatus
  <2> QED BY <2>2, <2>3, TablesGrow, RequestStays
<1>2. CASE i \notin DOMAIN proposals
  <2>1. At("insert") /\ i = request.id /\ request # NoRequest
    BY <1>2, NewRows, AtIsRequest DEF Stages
  <2> QED BY <2>1, RequestStays DEF Answer, At
<1> QED BY <1>1, <1>2

-----------------------------------------------------------------------------
(* Backing of merged proposals.                                            *)

\* What is backed stays so, as far as clients do not write there.
LEMMA BackedStays ==
  ASSUME TypeOK, [Next]_vars, NEW n, NEW s, NEW i, Backed(n, s, i)
  PROVE  Backed(n, s, i)'
<1>1. s \in DOMAIN blobs' /\ (s \notin direct'.blobs => blobs'[s] = s)
  BY BlobsGrow, DirectGrows DEF Backed
<1>2. ASSUME i \notin direct'.constraints, NEW k \in 1..ConstraintCount[s]
      PROVE  Clause(n, s, k, i) \in Stored'
  <2>1. PICK c : c = Clause(n, s, k, i)
    OBVIOUS
  <2>2. c \in Stored /\ c.added_by = i
    BY <1>2, <2>1, DirectGrows DEF Backed, Clause
  <2> QED BY <1>2, <2>1, <2>2, TablesGrow
<1> QED BY <1>1, <1>2 DEF Backed, Clause

\* Its parts are about to be stored.
Storing(i) == UnderWay(i) /\ request.pc \in {"blob", "constraints"}

\* MergedIsBacked, strengthened to be inductive: a row merged before is backed
\* also while a request of its id is decided again, and from the moment its
\* parts are stored.
BackedInv ==
  \A i \in DOMAIN proposals \ direct.proposals :
    /\ proposals[i].status = "merged" =>
         \E n \in Namespaces, s \in Verified :
           Proposed(i, n, s) /\ (i \notin spoiled /\ ~Storing(i) => Backed(n, s, i))
    /\ proposals[i].status = "rejected" =>
         \E n \in Namespaces, s \in Sources \ Verified : Proposed(i, n, s)

LEMMA BackedEnough ==
  ASSUME BackedInv
  PROVE  MergedIsBacked
BY DEF BackedInv, MergedIsBacked, Storing

\* Only Decide changes rows that are there and that no client has written.
LEMMA ChangedByDecide ==
  ASSUME TypeOK, [Next]_vars, NEW i \in DOMAIN proposals, i \notin direct.proposals,
         proposals'[i] # proposals[i]
  PROVE  /\ Decide /\ request # NoRequest /\ i = request.id
         /\ proposals'[i].status = Verdict
         /\ request' # NoRequest /\ request'.id = i
         /\ request'.pc = IF Passed THEN "blob" ELSE "chat"
<1>1. /\ At("decide") /\ i = request.id
      /\ proposals'[i] = [proposals[i] EXCEPT !.status = Verdict]
  BY RowsStep
<1>2. proposals' # proposals
  OBVIOUS
<1>3. request # NoRequest
  BY <1>1, AtIsRequest DEF Stages
<1>4. Decide
  BY <1>1, <1>2, <1>3, DirectFrame
     DEF Next, Handle, vars, tables, Refuse, Receive, InsertPending, StoreBlob, StoreConstraint,
         ConstraintsStored, PostChat, Answer, StatementFails, Crash, Tick, Wait, At
<1>5. proposals[i] \in Rows
  BY DEF TypeOK, ProposalsOK
<1>6. proposals'[i].status = Verdict
  BY <1>1, <1>5 DEF Rows
<1>7. request' # NoRequest /\ request'.id = i /\ request'.pc = (IF Passed THEN "blob" ELSE "chat")
  <2>1. CASE Passed
    BY <1>1, <1>3, <1>4, <2>1, GoToKeeps DEF Decide, Stages, TypeOK, SameRequest
  <2>2. CASE ~Passed
    BY <1>1, <1>3, <1>4, <2>2, GoToKeeps DEF Decide, Stages, TypeOK, SameRequest
  <2> QED BY <2>1, <2>2
<1> QED BY <1>1, <1>3, <1>4, <1>6, <1>7

\* The request proposes its source under its id.
LEMMA RequestProposes ==
  ASSUME TypeOK, request # NoRequest
  PROVE  /\ request.namespace \in Namespaces /\ request.source \in Sources
         /\ Proposed(request.id, request.namespace, request.source)
BY DEF TypeOK, RequestOK, Requests, Proposed

\* A request that no fault touches leaves the storing of its parts when all is stored.
LEMMA StoringEnds ==
  ASSUME TypeOK, BlobsTrue, Progress, [Next]_vars, NEW i, Storing(i), i \notin spoiled', ~Storing(i)'
  PROVE  \E n \in Namespaces, s \in Verified : Proposed(i, n, s) /\ Backed(n, s, i)'
<1>1. request # NoRequest /\ request.id = i /\ request.pc \in {"blob", "constraints"}
  BY DEF Storing, UnderWay
<1>2. RequestOK /\ Passed
  BY <1>1 DEF TypeOK, RequestOK
<1>3. StatementsDone
  BY <1>1, TablesGrow DEF Progress
<1>4. ConstraintsStored
  <2>1. \/ request' = request
        \/ StoreBlob \/ StoreConstraint \/ ConstraintsStored
        \/ request.id \in spoiled'
    BY <1>1, DirectFrame DEF Next, Handle, vars, Refuse, Receive, InsertPending, Decide, PostChat,
       Answer, StatementFails, Crash, Tick, Wait, At
  <2>2. request' # request
    BY DEF Storing, UnderWay
  <2>3. ~StoreBlob
    BY <1>1, <1>2, GoToKeeps DEF StoreBlob, Stages, SameRequest, Storing, UnderWay
  <2>4. ~StoreConstraint
    BY <1>1, <1>2, StoringKeeps DEF StoreConstraint, SameRequest, Storing, UnderWay
  <2> QED BY <1>1, <2>1, <2>2, <2>3, <2>4
<1>5. request.pc = "constraints"
  BY <1>4 DEF ConstraintsStored, At
<1>6. request.stored = ConstraintCount[request.source]
  BY <1>1, <1>2, <1>4, StoredIsNat DEF ConstraintsStored, MoreConstraints, RequestOK
<1>7. Backed(request.namespace, request.source, i)
  BY <1>1, <1>2, <1>3, <1>5, <1>6 DEF StatementsDone, Backed, BlobsTrue
<1>8. PICK n \in Namespaces, s \in Verified : n = request.namespace /\ s = request.source
  BY <1>1, <1>2, RequestProposes DEF Passed
<1>9. Proposed(i, n, s) /\ Backed(n, s, i)
  BY <1>1, <1>7, <1>8, RequestProposes
<1> QED BY <1>9, BackedStays

LEMMA BackedStep ==
  ASSUME TypeOK, BlobsTrue, Progress, BackedInv, [Next]_vars
  PROVE  BackedInv'
<1> SUFFICES ASSUME NEW i \in DOMAIN proposals', i \notin direct'.proposals
    PROVE  /\ proposals'[i].status = "merged" =>
                \E n \in Namespaces, s \in Verified :
                  Proposed(i, n, s) /\ (i \notin spoiled' /\ ~Storing(i)' => Backed(n, s, i)')
           /\ proposals'[i].status = "rejected" =>
                \E n \in Namespaces, s \in Sources \ Verified : Proposed(i, n, s)
  BY DEF BackedInv, Proposed
<1>0. i \notin direct.proposals
  BY DirectGrows
<1>1. CASE i \notin DOMAIN proposals
  BY <1>1, NewRows DEF Row
<1>2. CASE i \in DOMAIN proposals /\ proposals'[i] # proposals[i]
  <2>1. /\ request # NoRequest /\ i = request.id /\ proposals'[i].status = Verdict
        /\ request' # NoRequest /\ request'.id = i
        /\ request'.pc = IF Passed THEN "blob" ELSE "chat"
    BY <1>0, <1>2, ChangedByDecide
  <2>2. /\ request.namespace \in Namespaces /\ request.source \in Sources
        /\ Proposed(i, request.namespace, request.source)
    BY <2>1, RequestProposes
  <2>3. CASE Passed
    <3>1. Storing(i)' /\ proposals'[i].status = "merged" /\ request.source \in Verified
      BY <2>1, <2>3 DEF Storing, UnderWay, Verdict, Passed
    <3> QED BY <2>2, <3>1
  <2>4. CASE ~Passed
    <3>1. proposals'[i].status = "rejected" /\ request.source \in Sources \ Verified
      BY <2>1, <2>2, <2>4 DEF Verdict, Passed
    <3> QED BY <2>2, <3>1
  <2> QED BY <2>3, <2>4
<1>3. CASE i \in DOMAIN proposals /\ proposals'[i] = proposals[i]
  <2>1. proposals'[i].status = "rejected" =>
          \E n \in Namespaces, s \in Sources \ Verified : Proposed(i, n, s)
    BY <1>0, <1>3 DEF BackedInv
  <2>2. ASSUME proposals'[i].status = "merged"
        PROVE  \E n \in Namespaces, s \in Verified :
                 Proposed(i, n, s) /\ (i \notin spoiled' /\ ~Storing(i)' => Backed(n, s, i)')
    <3>1. PICK n \in Namespaces, s \in Verified :
            Proposed(i, n, s) /\ (i \notin spoiled /\ ~Storing(i) => Backed(n, s, i))
      BY <1>0, <1>3, <2>2 DEF BackedInv
    <3>2. CASE i \in spoiled' \/ Storing(i)'
      BY <3>1, <3>2
    <3>3. CASE i \notin spoiled' /\ ~Storing(i)' /\ ~Storing(i)
      <4>1. Backed(n, s, i)
        BY <3>1, <3>3, TablesGrow
      <4> QED BY <3>1, <4>1, BackedStays
    <3>4. CASE i \notin spoiled' /\ ~Storing(i)' /\ Storing(i)
      BY <3>4, StoringEnds
    <3> QED BY <3>2, <3>3, <3>4
  <2> QED BY <2>1, <2>2
<1> QED BY <1>1, <1>2, <1>3

-----------------------------------------------------------------------------
(* The chat.                                                               *)

\* ChatAgrees, strengthened to be inductive: it is so again as soon as the
\* message of a request is posted.
ChatInv ==
  \A i \in DOMAIN proposals \ (direct.proposals \cup direct.chat) :
    i \notin spoiled /\ (UnderWay(i) => request.pc = "answer") => LastSays(i, proposals[i].status)

LEMMA ChatEnough ==
  ASSUME ChatInv
  PROVE  ChatAgrees
BY DEF ChatInv, ChatAgrees

LEMMA PostedIsLast ==
  ASSUME TypeOK, PostChat
  PROVE  LastSays(request.id, Verdict)'
<1>1. PICK t : t = chat'
  OBVIOUS
<1>2. t = Insert(chat, Message(Verdict, request.id)) /\ Message(Verdict, request.id) \in Messages
  BY <1>1, VerdictIsMessage DEF PostChat
<1>3. TableOK(chat, Messages) /\ chat.last \in Nat
  BY DEF TypeOK, TableOK
<1> DEFINE k == chat.last + 1
<1>4. /\ DOMAIN t.rows = DOMAIN chat.rows \cup {k} /\ t.rows[k] = Message(Verdict, request.id)
      /\ \A j \in DOMAIN chat.rows : j < k
  BY <1>2, <1>3, Inserted
<1>5. k \in DOMAIN chat'.rows /\ \A j \in DOMAIN chat'.rows : ~(j > k)
  <2>1. \A j \in DOMAIN chat.rows : j \in Nat
    BY <1>3 DEF TableOK
  <2> QED BY <1>1, <1>3, <1>4, <2>1
<1>6. request'.id = request.id /\ Verdict' = Verdict
  <2>1. request # NoRequest
    BY AtIsRequest DEF PostChat, Stages
  <2> QED BY <2>1, HandlerKeepsRequest, SameWords DEF SameRequest
<1>7. chat'.rows[k] = Message(Verdict', request'.id)
  BY <1>1, <1>4, <1>6
<1> HIDE DEF k
<1> QED BY <1>5, <1>7 DEF LastSays, Message

\* A message about something else leaves the last word as it was.
LEMMA LastWordStays ==
  ASSUME TypeOK, [Next]_vars, NEW i \in Ids, i \notin direct'.chat, NEW status, LastSays(i, status),
         ~(PostChat /\ request.id = i)
  PROVE  LastSays(i, status)'
<1>1. PICK k \in DOMAIN chat.rows :
        chat.rows[k] = Message(status, i) /\ \A j \in DOMAIN chat.rows : j > k => chat.rows[j].id # i
  BY DEF LastSays
<1>2. k \in DOMAIN chat'.rows /\ chat'.rows[k] = Message(status, i)
  <2>1. chat.rows[k].id = i
    BY <1>1 DEF Message
  <2> QED BY <1>1, <2>1, MessagesStep
<1>3. ASSUME NEW j \in DOMAIN chat'.rows, j > k
      PROVE  chat'.rows[j].id # i
  BY <1>1, <1>3, MessagesStep, IdsApart
<1> QED BY <1>2, <1>3 DEF LastSays, Message

\* A request comes to its answer by posting.
LEMMA ComesToAnswer ==
  ASSUME TypeOK, [Next]_vars, NEW i, UnderWay(i), request.pc # "answer", i \notin spoiled',
         UnderWay(i)' => request'.pc = "answer"
  PROVE  PostChat
<1>1. request # NoRequest /\ request.id = i /\ RequestOK
  BY DEF UnderWay, TypeOK
<1>2. request' # NoRequest /\ request'.id = i /\ request'.pc = "answer"
  BY <1>1, RequestStays DEF Answer, At, UnderWay
<1>3. ~InsertPending
  BY <1>1, <1>2, GoToKeeps DEF InsertPending, Stages
<1>4. ~Decide
  <2>1. CASE Passed
    BY <1>1, <1>2, <2>1, GoToKeeps DEF Decide, Stages
  <2>2. CASE ~Passed
    BY <1>1, <1>2, <2>2, GoToKeeps DEF Decide, Stages
  <2> QED BY <2>1, <2>2
<1>5. ~StoreBlob /\ ~ConstraintsStored
  BY <1>1, <1>2, GoToKeeps DEF StoreBlob, ConstraintsStored, Stages
<1>6. ~StoreConstraint
  BY <1>1, <1>2, StoringKeeps DEF StoreConstraint
<1>7. request' # request
  BY <1>2
<1> QED BY <1>1, <1>2, <1>3, <1>4, <1>5, <1>6, <1>7, DirectFrame
        DEF Next, Handle, vars, Refuse, Receive, Answer, StatementFails, Crash, Tick, Wait, At

LEMMA ChatAgreesStep ==
  ASSUME TypeOK, Progress, Progress', ChatInv, [Next]_vars
  PROVE  ChatInv'
<1> SUFFICES ASSUME NEW i \in DOMAIN proposals', i \notin direct'.proposals \cup direct'.chat,
                    i \notin spoiled', UnderWay(i)' => request'.pc = "answer"
             PROVE  LastSays(i, proposals[i].status)'
  BY DEF ChatInv
<1>0. i \notin direct.proposals \cup direct.chat /\ i \in Ids
  <2>1. /\ proposals'[i] \in Rows
        /\ i = Id(proposals'[i].namespace, proposals'[i].source, proposals'[i].at)
    BY ProposalsTyped DEF ProposalsOK
  <2> QED BY <2>1, DirectGrows DEF Rows, Ids
<1>1. CASE PostChat /\ request.id = i
  <2>1. LastSays(i, Verdict)'
    BY <1>1, PostedIsLast, HandlerKeepsRequest DEF SameRequest
  <2>2. request' # NoRequest /\ request'.id = i /\ request'.pc = "answer"
    BY <1>1, AtIsRequest, GoToKeeps DEF PostChat, Stages, TypeOK, SameRequest
  <2>3. proposals'[i].status = Verdict'
    BY <2>2 DEF Progress, StatementsDone
  <2> QED BY <2>1, <2>3 DEF LastSays
<1>2. CASE ~(PostChat /\ request.id = i)
  <2>1. i \in DOMAIN proposals
    <3> SUFFICES ASSUME i \notin DOMAIN proposals
                 PROVE  FALSE
      OBVIOUS
    <3>1. At("insert") /\ i = request.id
      BY NewRows
    <3>2. UnderWay(i) /\ request.pc = "insert"
      BY <3>1, AtIsRequest DEF Stages, UnderWay, At
    <3> QED BY <1>2, <3>1, <3>2, ComesToAnswer
  <2>2. proposals'[i] = proposals[i]
    <3> SUFFICES ASSUME proposals'[i] # proposals[i]
                 PROVE  FALSE
      OBVIOUS
    <3>1. Decide /\ request'.id = i /\ request' # NoRequest /\ request'.pc \in {"blob", "chat"}
      BY <1>0, <2>1, ChangedByDecide
    <3> QED BY <3>1 DEF UnderWay
  <2>3. UnderWay(i) => request.pc = "answer"
    BY <1>2, ComesToAnswer DEF UnderWay
  <2>4. i \notin spoiled
    BY TablesGrow
  <2>5. LastSays(i, proposals[i].status)
    BY <1>0, <2>1, <2>3, <2>4 DEF ChatInv
  <2> DEFINE status == proposals[i].status
  <2>6. PICK said : said = status
    OBVIOUS
  <2>7. LastSays(i, said)'
    BY <1>0, <1>2, <2>5, <2>6, LastWordStays
  <2> QED BY <2>2, <2>6, <2>7 DEF LastSays
<1> QED BY <1>1, <1>2

-----------------------------------------------------------------------------
(* Proposals and their requests.                                           *)

\* The row with an unambiguous id that no client has written is that of the request
\* with this id.
LEMMA SameProposal ==
  ASSUME TypeOK, request # NoRequest, request.id \in DOMAIN proposals \cap UnambiguousIds,
         request.id \notin direct.proposals
  PROVE  /\ proposals[request.id].namespace = request.namespace
         /\ proposals[request.id].source = request.source
<1> DEFINE row == proposals[request.id]
<1>1. row \in Rows /\ request.id = Id(row.namespace, row.source, row.at)
  BY DEF TypeOK, ProposalsOK
<1>2. request \in Requests /\ request.id = Id(request.namespace, request.source, request.at)
  BY DEF TypeOK, RequestOK
<1>3. /\ row.namespace \in Namespaces /\ row.source \in Sources /\ row.at \in 0..MaxTime
      /\ request.namespace \in Namespaces /\ request.source \in Sources /\ request.at \in 0..MaxTime
  BY <1>1, <1>2 DEF Rows, Requests
<1> QED BY <1>1, <1>2, <1>3 DEF UnambiguousIds

\* How a row that no client has written changes: only its status, and to the verdict
\* on its source.
LEMMA OwnVerdict ==
  ASSUME TypeOK, [Next]_vars, NEW i \in DOMAIN proposals \cap UnambiguousIds, i \notin direct.proposals
  PROVE  /\ i \in DOMAIN proposals'
         /\ proposals'[i].namespace = proposals[i].namespace
         /\ proposals'[i].source = proposals[i].source
         /\ \/ proposals'[i] = proposals[i]
            \/ /\ At("decide") /\ i = request.id
               /\ proposals'[i].status = IF proposals[i].source \in Verified THEN "merged" ELSE "rejected"
<1>1. CASE proposals'[i] = proposals[i]
  BY <1>1, RowsStep
<1>2. CASE At("decide") /\ i = request.id /\ proposals'[i] = [proposals[i] EXCEPT !.status = Verdict]
  <2>1. proposals[i] \in Rows
    BY DEF TypeOK, ProposalsOK
  <2>2. /\ proposals'[i].status = Verdict /\ proposals'[i].namespace = proposals[i].namespace
        /\ proposals'[i].source = proposals[i].source
    BY <1>2, <2>1 DEF Rows
  <2>3. proposals[i].source = request.source
    BY <1>2, SameProposal, AtIsRequest DEF Stages
  <2> QED BY <1>2, <2>2, <2>3, RowsStep DEF Verdict, Passed
<1> QED BY <1>1, <1>2, RowsStep

LEMMA MergedStep ==
  ASSUME TypeOK, MergedWasVerified, [Next]_vars
  PROVE  MergedWasVerified'
<1> SUFFICES ASSUME NEW i \in DOMAIN proposals', i \in UnambiguousIds, i \notin direct'.proposals
             PROVE  /\ proposals'[i].status = "merged" => proposals'[i].source \in Verified
                    /\ proposals'[i].status = "rejected" => proposals'[i].source \notin Verified
  BY DEF MergedWasVerified, UnambiguousIds, Ids
<1>0. i \notin direct.proposals
  BY DirectGrows
<1>1. CASE i \in DOMAIN proposals
  BY <1>0, <1>1, OwnVerdict DEF MergedWasVerified
<1>2. CASE i \notin DOMAIN proposals
  BY <1>2, NewRows DEF Row
<1> QED BY <1>1, <1>2

\* No row of the handler's has a status of the seed's or a client's own.
StatusesOK ==
  \A i \in DOMAIN proposals \ direct.proposals :
    proposals[i].status \in {"pending", "merged", "rejected"}

LEMMA StatusesStep ==
  ASSUME TypeOK, StatusesOK, [Next]_vars
  PROVE  StatusesOK'
<1> SUFFICES ASSUME NEW i \in DOMAIN proposals', i \notin direct'.proposals
             PROVE  proposals'[i].status \in {"pending", "merged", "rejected"}
  BY DEF StatusesOK
<1>0. i \notin direct.proposals
  BY DirectGrows
<1>1. CASE i \in DOMAIN proposals
  <2>1. proposals[i] \in Rows /\ proposals[i].status \in {"pending", "merged", "rejected"}
    BY <1>0, <1>1 DEF TypeOK, ProposalsOK, StatusesOK
  <2>2. CASE proposals'[i] = [proposals[i] EXCEPT !.status = Verdict]
    BY <2>1, <2>2, VerdictIsStatus DEF Rows
  <2> QED BY <1>0, <1>1, <2>1, <2>2, RowsStep
<1>2. CASE i \notin DOMAIN proposals
  BY <1>2, NewRows DEF Row
<1> QED BY <1>1, <1>2

\* What DecidedForGood says of a step.
Stand ==
  \A i \in DOMAIN proposals \ NumberIds :
    /\ i \in DOMAIN proposals'
    /\ proposals'[i].namespace = proposals[i].namespace
    /\ proposals'[i].source = proposals[i].source
    /\ i \in UnambiguousIds \ direct.proposals /\ proposals[i].status # "pending" =>
         proposals'[i].status = proposals[i].status

LEMMA DecidedStep ==
  ASSUME TypeOK, StatusesOK, MergedWasVerified, [Next]_vars
  PROVE  Stand
<1> SUFFICES ASSUME NEW i \in DOMAIN proposals \ NumberIds
             PROVE  /\ i \in DOMAIN proposals'
                    /\ proposals'[i].namespace = proposals[i].namespace
                    /\ proposals'[i].source = proposals[i].source
                    /\ i \in UnambiguousIds \ direct.proposals /\ proposals[i].status # "pending" =>
                         proposals'[i].status = proposals[i].status
  BY DEF Stand
<1>1. /\ i \in DOMAIN proposals'
      /\ proposals'[i].namespace = proposals[i].namespace
      /\ proposals'[i].source = proposals[i].source
  <2>1. proposals[i] \in Rows
    BY DEF TypeOK, ProposalsOK
  <2>2. CASE proposals'[i] = proposals[i]
    BY <2>2, RowsStep
  <2>3. CASE proposals'[i] = [proposals[i] EXCEPT !.status = Verdict]
    BY <2>1, <2>3, RowsStep DEF Rows
  <2> QED BY <2>2, <2>3, RowsStep
<1>2. ASSUME i \in UnambiguousIds, i \notin direct.proposals, proposals[i].status # "pending"
      PROVE  proposals'[i].status = proposals[i].status
  <2>1. i = Id(proposals[i].namespace, proposals[i].source, proposals[i].at) /\ proposals[i] \in Rows
    BY <1>2 DEF TypeOK, ProposalsOK
  <2>2. CASE proposals'[i] = proposals[i]
    BY <2>2
  <2>3. CASE /\ At("decide") /\ i = request.id
             /\ proposals'[i].status = IF proposals[i].source \in Verified THEN "merged" ELSE "rejected"
    <3>1. proposals[i].status \in {"merged", "rejected"}
      BY <1>2 DEF StatusesOK
    <3> QED BY <1>2, <2>3, <3>1 DEF MergedWasVerified
  <2> QED BY <1>2, <2>2, <2>3, OwnVerdict
<1> QED BY <1>1, <1>2

-----------------------------------------------------------------------------
(* Answers.                                                                *)

\* Answers are about what was proposed under their id, and say the verdict on it.
AnswersTold ==
  \A a \in answers :
    /\ Proposed(a.id, a.namespace, a.source)
    /\ a.status = IF a.source \in Verified THEN "merged" ELSE "rejected"

LEMMA ToldStep ==
  ASSUME TypeOK, AnswersTold, [Next]_vars
  PROVE  AnswersTold'
<1> SUFFICES ASSUME NEW a \in answers'
             PROVE  /\ Proposed(a.id, a.namespace, a.source)
                    /\ a.status = IF a.source \in Verified THEN "merged" ELSE "rejected"
  BY DEF AnswersTold, Proposed
<1>1. CASE a \in answers
  BY <1>1 DEF AnswersTold
<1>2. CASE a \notin answers
  <2>1. Answer /\ a = [status |-> Verdict, namespace |-> request.namespace,
                       source |-> request.source, id |-> request.id]
    BY <1>2, NewAnswers
  <2>2. request # NoRequest
    BY <2>1, AtIsRequest DEF Answer, Stages
  <2> QED BY <2>1, <2>2, RequestProposes DEF Verdict, Passed
<1> QED BY <1>1, <1>2

\* What an answer says of the proposals, and of the other tables.
RowHolds(a) ==
  /\ a.id \in DOMAIN proposals
  /\ a.id \in UnambiguousIds => proposals[a.id].status = a.status
  /\ a.id \in UnambiguousIds \ direct.proposals =>
       proposals[a.id].namespace = a.namespace /\ proposals[a.id].source = a.source

Holds(a) ==
  /\ RowHolds(a)
  /\ a.id \notin direct.chat => Message(a.status, a.id) \in Said
  /\ a.status = "merged" => Backed(a.namespace, a.source, a.id)

LEMMA AnswersHoldIs == AnswersHold <=> \A a \in answers : a.id \notin spoiled => Holds(a)
BY DEF AnswersHold, Holds, RowHolds

LEMMA AnswersHoldIsNext == AnswersHold' <=> \A a \in answers' : a.id \notin spoiled' => Holds(a)'
BY DEF AnswersHold, Holds, RowHolds, Message, UnambiguousIds, Ids, Id

\* The verdict on another request of an unambiguous id is the same.
LEMMA SameVerdict ==
  ASSUME TypeOK, AnswersTold, NEW a \in answers, request # NoRequest, request.id = a.id,
         a.id \in UnambiguousIds
  PROVE  Verdict = a.status
<1>1. PICK t \in 0..MaxTime : a.id = Id(a.namespace, a.source, t)
  BY DEF AnswersTold, Proposed
<1>2. /\ request \in Requests /\ request.id = Id(request.namespace, request.source, request.at)
      /\ a \in Answers
  BY DEF TypeOK, RequestOK
<1>3. /\ a.namespace \in Namespaces /\ a.source \in Sources
      /\ request.namespace \in Namespaces /\ request.source \in Sources /\ request.at \in 0..MaxTime
  BY <1>2 DEF Requests, Answers
<1>4. request.source = a.source
  BY <1>1, <1>2, <1>3 DEF UnambiguousIds
<1> QED BY <1>4 DEF AnswersTold, Verdict, Passed

\* What holds of the tables goes on holding.
LEMMA StillHolds ==
  ASSUME TypeOK, AnswersTold, [Next]_vars, NEW a \in answers, Holds(a)
  PROVE  Holds(a)'
<1>1. a.id \in Ids /\ a.id \notin NumberIds
  BY IdsApart DEF TypeOK, Answers
<1>2. RowHolds(a)
  BY DEF Holds
<1>3. RowHolds(a)'
  <2>1. proposals[a.id] \in Rows
    BY <1>2 DEF RowHolds, TypeOK, ProposalsOK
  <2>2. /\ a.id \in DOMAIN proposals'
        /\ proposals'[a.id].namespace = proposals[a.id].namespace
        /\ proposals'[a.id].source = proposals[a.id].source
        /\ a.id \in UnambiguousIds => proposals'[a.id].status = a.status
    <3>1. CASE a.id \in DOMAIN proposals' /\ proposals'[a.id] = proposals[a.id]
      BY <1>2, <3>1 DEF RowHolds
    <3>2. CASE /\ At("decide") /\ a.id = request.id /\ a.id \in DOMAIN proposals'
               /\ proposals'[a.id] = [proposals[a.id] EXCEPT !.status = Verdict]
      BY <2>1, <3>2, SameVerdict, AtIsRequest DEF Rows, Stages
    <3> QED BY <1>1, <1>2, <3>1, <3>2, RowsStep DEF RowHolds
  <2>3. UnambiguousIds' = UnambiguousIds
    BY DEF UnambiguousIds, Ids, Id
  <2> QED BY <1>2, <2>2, <2>3, DirectGrows DEF RowHolds
<1>4. ASSUME a.id \notin direct'.chat
      PROVE  Message(a.status, a.id) \in Said'
  <2>1. PICK m : m = Message(a.status, a.id)
    OBVIOUS
  <2>2. m \in Said /\ m.id = a.id
    BY <1>4, <2>1, DirectGrows DEF Holds, Message
  <2> QED BY <1>4, <2>1, <2>2, TablesGrow
<1>5. a.status = "merged" => Backed(a.namespace, a.source, a.id)'
  BY BackedStays DEF Holds
<1> QED BY <1>3, <1>4, <1>5 DEF Holds, Message

\* The answer given holds.
LEMMA GivenHolds ==
  ASSUME TypeOK, BlobsTrue, Progress, Answer, request.id \notin spoiled,
         NEW a, a = [status |-> Verdict, namespace |-> request.namespace,
                     source |-> request.source, id |-> request.id]
  PROVE  Holds(a)'
<1>1. request # NoRequest /\ request.pc = "answer"
  BY AtIsRequest DEF Answer, Stages, At
<1>2. StatementsDone
  BY <1>1 DEF Progress
<1>3. a.status = "merged" => Passed
  BY DEF Verdict
<1>4. RowHolds(a)
  BY <1>1, <1>2, SameProposal DEF StatementsDone, RowHolds
<1>5. Passed => Backed(a.namespace, a.source, a.id)
  BY <1>1, <1>2 DEF StatementsDone, Backed, BlobsTrue
<1>6. Holds(a)
  BY <1>1, <1>2, <1>3, <1>4, <1>5 DEF StatementsDone, Holds
<1>7. /\ proposals' = proposals /\ blobs' = blobs /\ Stored' = Stored /\ Said' = Said
      /\ direct' = direct /\ UnambiguousIds' = UnambiguousIds
  BY DEF Answer, tables, Stored, Said, UnambiguousIds, Ids, Id
<1> QED BY <1>6, <1>7 DEF Holds, RowHolds, Backed, Message, Clause

LEMMA AnswersStep ==
  ASSUME TypeOK, BlobsTrue, AnswersTold, Progress, AnswersHold, [Next]_vars
  PROVE  AnswersHold'
<1> SUFFICES ASSUME NEW a \in answers', a.id \notin spoiled'
             PROVE  Holds(a)'
  BY AnswersHoldIsNext
<1>1. CASE a \in answers
  <2>1. Holds(a)
    BY <1>1, TablesGrow, AnswersHoldIs
  <2> QED BY <1>1, <2>1, StillHolds
<1>2. CASE a \notin answers
  <2>1. Answer /\ a = [status |-> Verdict, namespace |-> request.namespace,
                       source |-> request.source, id |-> request.id]
    BY <1>2, NewAnswers
  <2>2. request.id \notin spoiled
    BY <2>1, TablesGrow
  <2> QED BY <2>1, <2>2, GivenHolds
<1> QED BY <1>1, <1>2

-----------------------------------------------------------------------------
(* The theorems.                                                           *)

IInv ==
  /\ TypeOK /\ StatusesOK /\ MergedWasVerified /\ PendingOnlyUnderWay /\ BlobsTrue /\ Progress
  /\ AnswersTold /\ AnswersHold /\ BackedInv /\ ChatInv

LEMMA Initially ==
  ASSUME Init
  PROVE  IInv
<1>1. DOMAIN blobs = {} /\ request = NoRequest /\ answers = {} /\ spoiled = {}
  BY DEF Init
<1>2. /\ direct.proposals = DOMAIN Seeded /\ proposals = Seeded
      /\ direct \in [proposals : SUBSET AllIds, blobs : SUBSET Sources,
                     constraints : SUBSET (Ids \cup {NoId}), chat : SUBSET (Ids \cup {NoId})]
  BY DEF Init, AllIds
<1>3. ASSUME NEW S, NEW row \in S, NEW table, table = Seed(row)
      PROVE  TableOK(table, S)
  <2>1. PICK new : new = [rows |-> <<>>, last |-> 0]
    OBVIOUS
  <2>2. TableOK(new, S)
    BY <2>1 DEF TableOK, Ranged
  <2> QED BY <1>3, <2>1, <2>2, InsertedHolds DEF Seed
<1>4. TableOK(constraints, ClauseRows) /\ TableOK(chat, Messages)
  BY <1>3 DEF Init, ClauseRows, Messages
<1>5. ProposalsOK
  BY <1>2, SeededRows DEF ProposalsOK, AllIds
<1>6. TypeOK
  BY <1>1, <1>2, <1>4, <1>5, BoundsAreNatural DEF Init, TypeOK, RequestOK
<1> QED BY <1>1, <1>2, <1>6 DEF IInv, StatusesOK, MergedWasVerified, PendingOnlyUnderWay, BlobsTrue, Progress,
                                AnswersTold, AnswersHold, BackedInv, ChatInv

LEMMA Inductive == Spec => []IInv
<1>1. Init => IInv
  BY Initially
<1>2. IInv /\ [Next]_vars => IInv'
  <2> SUFFICES ASSUME IInv, [Next]_vars
               PROVE  IInv'
    OBVIOUS
  <2>1. TypeOK' /\ StatusesOK' /\ MergedWasVerified' /\ BlobsTrue' /\ Progress'
    BY TypeStep, StatusesStep, MergedStep, BlobsTrueStep, ProgressStep DEF IInv
  <2>2. PendingOnlyUnderWay' /\ AnswersTold' /\ AnswersHold' /\ BackedInv'
    BY PendingStep, ToldStep, AnswersStep, BackedStep DEF IInv
  <2>3. ChatInv'
    BY <2>1, ChatAgreesStep DEF IInv
  <2> QED BY <2>1, <2>2, <2>3 DEF IInv
<1> QED BY <1>1, <1>2, PTL DEF Spec

\* TypeOK is an invariant.
THEOREM TypeCorrect == Spec => []TypeOK
BY Inductive, PTL DEF IInv

\* Only a verified source's proposal is merged and only another's rejected,
\* however often requests are repeated and whatever fails, of the rows that were
\* not written directly (MergedWasVerified).
THEOREM OnlyVerifiedMerged == Spec => []MergedWasVerified
BY Inductive, PTL DEF IInv

\* A decided proposal stays as it was decided, and no proposal is lost or
\* changed into another (DecidedForGood).
THEOREM DecisionsStand == Spec => DecidedForGood
<1>1. IInv /\ [Next]_vars => Stand
  BY DecidedStep DEF IInv
<1> QED BY <1>1, Inductive, PTL DEF Spec, DecidedForGood, Stand

\* A proposal is pending only while its request is handled, or because a
\* statement failed or the server ended under it, or as a client has written it
\* (PendingOnlyUnderWay).
THEOREM OnlyFaultsLeavePending == Spec => []PendingOnlyUnderWay
BY Inductive, PTL DEF IInv

\* What clients are told of a proposal no fault has touched is and stays so, its
\* status, its blob, its clauses and its message, but for the clauses and messages
\* about this proposal that clients change or delete directly (AnswersHold).
THEOREM AnswersAreTrue == Spec => []AnswersHold
BY Inductive, PTL DEF IInv

\* A merged row that was not seeded or written by a client stands for a verified
\* source proposed under its id, all of whose parts are stored unless a fault touched
\* it or a client wrote there, and a rejected one for a source that did not pass
\* (MergedIsBacked).
THEOREM MergedAreBacked == Spec => []MergedIsBacked
<1>1. IInv => MergedIsBacked
  BY BackedEnough DEF IInv
<1> QED BY <1>1, Inductive, PTL

\* The chat's last word on a proposal is the status of its row, unless a fault
\* touched it or a client has written about it directly (ChatAgrees).
THEOREM ChatHasTheLastWord == Spec => []ChatAgrees
<1>1. IInv => ChatAgrees
  BY ChatEnough DEF IInv
<1> QED BY <1>1, Inductive, PTL
=============================================================================
