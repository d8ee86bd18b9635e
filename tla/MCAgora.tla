-------------------------------- MODULE MCAgora ---------------------------------
(***************************************************************************)
(* Model checking of the tables of proposals of the Agora server: two      *)
(* namespaces, a source with two contract clauses that the verifier passes *)
(* and one that it does not pass, sent in any order, again and again,      *)
(* within a second and after it, with statements that fail and a server    *)
(* that ends.                                                              *)
(*                                                                         *)
(* Two of the four proposals of a second read the same and have one id:    *)
(* n with "x good" and "n x" with "good".                                  *)
(*                                                                         *)
(* Clients write a merged row of their own under the id that a proposal    *)
(* which does not pass will have, and others under a number, another content *)
(* under the hash of a source, and clauses and messages about one proposal *)
(* or about none; they change and delete any clause and message.           *)
(***************************************************************************)
EXTENDS Agora

good == <<"good">>
bad == <<"x", "good">>
n == <<"n">>
nx == <<"n", "x">>

TwoNamespaces == {n, nx}
AllSources == {good, bad}
GoodSources == {good}
Clauses == [s \in AllSources |-> IF s = good THEN 2 ELSE 0]

nothing == <<>>
seven == <<"7">>
Numbers == {seven}
merged == [namespace |-> n, source |-> bad, at |-> 0, status |-> "merged"]
OneSeeded == [i \in {<<"seeded">>} |-> [merged EXCEPT !.source = good]]

WrittenProposals ==
  {[id |-> nx \o bad \o <<0>>, row |-> merged]} \cup
  {[id |-> seven, row |-> [merged EXCEPT !.status = status]] : status \in {"pending", "merged"}}
WrittenBlobs == {[hash |-> good, content |-> bad]}
WrittenClauses == {OtherClause, Clause(n, good, 1, n \o good \o <<0>>)}
WrittenMessages == {OtherMessage, Message("rejected", n \o good \o <<0>>)}
=============================================================================
