-------------------------- MODULE MCOperatedPipeline --------------------------
(***************************************************************************)
(* Instances of OperatedPipeline for TLC.                                  *)
(***************************************************************************)
EXTENDS OperatedPipeline, TLC

Ask(key, doc) ==
  [key |-> key, doc |-> doc, figure |-> "f1", estimate |-> 1,
   confirmed |-> FALSE]

\* The same bytes in two projects, one of which is deleted.
TwoDocuments == {"doc", "twin"}
SameSha == [d \in TwoDocuments |-> "sha"]
OneDeleted == {"doc"}
NoneDeleted == {}

\* The same work under two keys, so that ending one lets the other run, and
\* a retry of the first.
Retries == "c1" :> Ask("k1", "doc") @@ "c2" :> Ask("k2", "twin")
             @@ "c3" :> Ask("k1", "doc")
RetryCalls == DOMAIN Retries

About(d) == [ok |-> TRUE, metadata |-> TRUE, schema |-> TRUE, cites |-> d,
             domain |-> TRUE]

\* Results that pass the checks of _settle, and one that each check refuses.
EveryResult ==
  {About("doc"), About("twin"), [About("doc") EXCEPT !.ok = FALSE],
   [About("doc") EXCEPT !.metadata = FALSE], [About("doc") EXCEPT !.schema = FALSE],
   About("elsewhere"), [About("doc") EXCEPT !.domain = FALSE]}

=============================================================================
