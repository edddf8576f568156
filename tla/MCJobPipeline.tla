---------------------------- MODULE MCJobPipeline ----------------------------
(***************************************************************************)
(* Instances of JobPipeline for TLC.  Amounts are in cents.                *)
(***************************************************************************)
EXTENDS JobPipeline, TLC

Ask(key, doc, figure, usd) ==
  [key |-> key, doc |-> doc, figure |-> figure, estimate |-> usd,
   confirmed |-> FALSE]

Result(cites, metadata, domain) ==
  [ok |-> TRUE, metadata |-> metadata, schema |-> TRUE, cites |-> cites,
   domain |-> domain]

OneDocument == {"doc"}
OneSha == [d \in OneDocument |-> "sha"]

\* A request, its retry, and the same work under another key.
Repeats == "c1" :> Ask("k1", "doc", "f1", 1) @@ "c2" :> Ask("k1", "doc", "f1", 1)
             @@ "c3" :> Ask("k2", "doc", "f1", 1)
RepeatCalls == DOMAIN Repeats

\* One accepted result, and results each check refuses.
RepeatResults ==
  {Result("doc", TRUE, TRUE), Result("elsewhere", TRUE, TRUE),
   Result("doc", FALSE, TRUE)}


----------------------------------------------------------------------------
\* Four different pieces of work against one budget: two that fit together,
\* one that fits only once something settled under its estimate, and one no
\* policy admits.
Rivals ==
  "c1" :> Ask("k1", "doc", "f1", 2) @@ "c2" :> Ask("k2", "doc", "f2", 2)
    @@ "c3" :> [Ask("k3", "doc", "f3", 3) EXCEPT !.confirmed = TRUE]
    @@ "c4" :> [Ask("k4", "doc", "f4", 4) EXCEPT !.confirmed = TRUE]
RivalCalls == DOMAIN Rivals

GoodResult == {Result("doc", TRUE, TRUE)}

----------------------------------------------------------------------------
\* The same bytes uploaded to two projects, with the same figure in each.
TwoDocuments == {"doc", "twin"}
SameSha == [d \in TwoDocuments |-> "sha"]
Twins == "c1" :> Ask("k1", "doc", "f1", 1) @@ "c2" :> Ask("k2", "twin", "f1", 1)
TwinCalls == DOMAIN Twins
TwinResults == {Result("doc", TRUE, TRUE), Result("twin", TRUE, TRUE)}

=============================================================================
