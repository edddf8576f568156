----------------------------- MODULE MCModalBatch -----------------------------
(***************************************************************************)
(* One batch of two requests and one of a single request, as the           *)
(* controller sends them; a container of the deployed build, one still of  *)
(* the build before, and one that answers what it likes.  The two builds   *)
(* accept opposite requests of the first batch, and neither that of the    *)
(* second.  A third batch is longer than the limit, a fourth has a bad     *)
(* schema, and a fifth is empty.                                           *)
(***************************************************************************)
EXTENDS ModalBatch, TLC

CONSTANTS b1, b2, b3, b4, b5, k1, k2, k3

MCBatches == {b1, b2, b3, b4, b5}
MCItems == (b1 :> <<"stale", "good">>) @@ (b2 :> <<"bad">>)
           @@ (b3 :> <<"good", "good", "good">>)
           @@ (b4 :> <<"good", "schemaless">>) @@ (b5 :> <<>>)

Request(schema, shape, revision, versions) ==
  [schema |-> schema, shape |-> shape,
   revision |-> revision, versions |-> versions]
MCAsked == [good |-> Request(TRUE, TRUE, "r1", "v1"),
            stale |-> Request(TRUE, TRUE, "r0", "v1"),
            bad |-> Request(TRUE, FALSE, "r1", "v1"),
            schemaless |-> Request(FALSE, TRUE, "r1", "v1")]

MCBuild == [k \in {k1, k2, k3} |->
              [model |-> "m1", revision |-> IF k = k3 THEN "r0" ELSE "r1"]]

\* No answer, the right one, one of another model, one for other versions.
MCForeignReplies ==
  {<<>>, <<Success("bad", "m1", "r1", "v1")>>,
   <<Success("bad", "m2", "r1", "v1")>>, <<Success("bad", "m1", "r1", "v2")>>,
   <<Failed("OUT_OF_MEMORY")>>}
=============================================================================
