------------------------------ MODULE ModalBatch ------------------------------
(***************************************************************************)
(* One remote extraction: ModalInferenceProvider.extract_batch             *)
(* (georeport3d/inference/modal_provider.py) calling QwenWorker            *)
(* (deployment/modal_worker.py), whose containers each own one vLLM        *)
(* server process.  Modal boots, feeds, kills and retires the containers.  *)
(*                                                                         *)
(* What a request contains is reduced to whether each validation accepts   *)
(* it and to the identity it asks for; an envelope to what _to_result      *)
(* looks at, and to the request its output was made from.                  *)
(***************************************************************************)
EXTENDS Integers, Sequences, FiniteSets

CONSTANTS
  Batches,         \* calls of extract_batch
  Items,           \* [Batches -> Seq of requests]
  Asked,           \* [request -> [schema, shape, revision, versions]]
  Containers,      \* at most MAX_CONTAINERS of them
  Build,           \* [Containers -> [model, revision]]: the identity deployed
  Foreign,         \* containers that run other code than this worker
  ForeignReplies,  \* what those may answer
  ModelId,         \* the identity the provider was configured with
  MaxBatchSize,
  NoBatch

ASSUME BatchAssumption ==
  /\ NoBatch \notin Batches /\ Foreign \subseteq Containers
  /\ MaxBatchSize \in Nat \ {0}
  /\ Items \in [Batches -> Seq(DOMAIN Asked)]
  /\ \A replies \in ForeignReplies : DOMAIN replies = 1 .. Len(replies)

Failed(code) == [ok |-> FALSE, code |-> code]
Success(r, model, revision, versions) ==
  [ok |-> TRUE, of |-> r, model |-> model, revision |-> revision,
   versions |-> versions]
Codes == {"INVALID_REQUEST", "INVALID_MODEL_JSON", "INFERENCE_FAILED"}

Outcome(kind, results, by) == [kind |-> kind, results |-> results, by |-> by]
NoOutcome == Outcome("", <<>>, {})

VARIABLES
  call,      \* where each call is: new, waiting, running or ended
  outcome,   \* what extract_batch returned or raised
  phase,     \* cold, booting or ready, for each container
  server,    \* its vLLM process: none, alive or exited and not yet reaped
  at,        \* the batch it works on
  outputs,   \* its envelopes so far
  asked      \* whether a completion is under way at its server

vars == <<call, outcome, phase, server, at, outputs, asked>>
client == <<call, outcome>>
worker == <<phase, server, at, outputs, asked>>

End(b, o) ==
  /\ call' = [call EXCEPT ![b] = "ended"]
  /\ outcome' = [outcome EXCEPT ![b] = o]

Unavailable == Outcome("UNAVAILABLE", <<>>, {})

----------------------------------------------------------------------------
(* The provider                                                            *)

\* An empty batch needs no worker, and a bad schema is refused before one.
Send(b) ==
  /\ call[b] = "new"
  /\ IF Items[b] = <<>> THEN End(b, Outcome("RESULTS", <<>>, {}))
     ELSE IF \E i \in DOMAIN Items[b] : ~Asked[Items[b][i]].schema
     THEN End(b, Unavailable)
     ELSE call' = [call EXCEPT ![b] = "waiting"] /\ UNCHANGED outcome
  /\ UNCHANGED worker

\* The class cannot be resolved, or the call fails before a worker has it.
Unreachable(b) ==
  /\ call[b] = "waiting"
  /\ End(b, Unavailable)
  /\ UNCHANGED worker

\* _to_success and _to_failure accept the envelope as an answer to r.
Credible(r, e) ==
  IF e.ok THEN /\ e.model = ModelId
               /\ e.revision = Asked[r].revision
               /\ e.versions = Asked[r].versions
          ELSE e.code \in Codes

Received(b, replies, k) ==
  IF /\ Len(replies) = Len(Items[b])
     /\ \A i \in DOMAIN replies : Credible(Items[b][i], replies[i])
  THEN Outcome("RESULTS", replies, {k})
  ELSE Outcome("INVALID_RESPONSE", <<>>, {k})

----------------------------------------------------------------------------
(* The life of a container                                                 *)

\* start: Popen, then _wait_ready.
Boot(k) ==
  /\ phase[k] = "cold"
  /\ phase' = [phase EXCEPT ![k] = "booting"]
  /\ server' = [server EXCEPT ![k] = "alive"]
  /\ UNCHANGED <<client, at, outputs, asked>>

Ready(k) ==
  /\ phase[k] = "booting" /\ server[k] = "alive"
  /\ phase' = [phase EXCEPT ![k] = "ready"]
  /\ UNCHANGED <<client, server, at, outputs, asked>>

\* mutant: start raises and leaves the child to itself
AbandonBoot(k) ==
  /\ phase[k] = "booting"
  /\ phase' = [phase EXCEPT ![k] = "cold"]
  /\ UNCHANGED <<client, server, at, outputs, asked>>

\* The server exited during startup or the deadline passed: _stop_process
\* terminates and reaps it, and start raises.
BootFails(k) ==
  /\ phase[k] = "booting"
  /\ phase' = [phase EXCEPT ![k] = "cold"]
  /\ server' = [server EXCEPT ![k] = "none"]
  /\ UNCHANGED <<client, at, outputs, asked>>

ServerExits(k) ==
  /\ server[k] = "alive"
  /\ server' = [server EXCEPT ![k] = "exited"]
  /\ UNCHANGED <<client, phase, at, outputs, asked>>

\* stop, when Modal retires an idle container.
Retire(k) ==
  /\ phase[k] = "ready" /\ at[k] = NoBatch
  /\ phase' = [phase EXCEPT ![k] = "cold"]
  /\ server' = [server EXCEPT ![k] = "none"]
  /\ UNCHANGED <<client, at, outputs, asked>>

Wipe(k) ==
  /\ at' = [at EXCEPT ![k] = NoBatch]
  /\ outputs' = [outputs EXCEPT ![k] = <<>>]
  /\ asked' = [asked EXCEPT ![k] = FALSE]

Down(k) ==
  /\ phase[k] # "cold"
  /\ phase' = [phase EXCEPT ![k] = "cold"]
  /\ server' = [server EXCEPT ![k] = "none"]
  /\ Wipe(k)

\* The execution or the startup timeout: with retries = 0 the call that ran
\* into it has failed.
Kill(k) ==
  /\ Down(k)
  /\ IF at[k] = NoBatch THEN UNCHANGED client ELSE End(at[k], Unavailable)

\* A preempted container or a lost machine.  retries = 0 does not reach this
\* case: Modal hands the input to another container, which starts it from its
\* first item, or gives up.
Lose(k) ==
  /\ Down(k)
  /\ IF at[k] = NoBatch THEN UNCHANGED client
     ELSE \/ call' = [call EXCEPT ![at[k]] = "waiting"] /\ UNCHANGED outcome
          \/ End(at[k], Unavailable)

----------------------------------------------------------------------------
(* QwenWorker.extract_batch                                                *)

\* An idle container takes the call; _validate_batch refuses one too long.
Dispatch(b, k) ==
  /\ call[b] = "waiting" /\ phase[k] = "ready" /\ at[k] = NoBatch
  /\ IF Len(Items[b]) > MaxBatchSize /\ k \notin Foreign
     THEN End(b, Unavailable) /\ UNCHANGED at
     ELSE /\ call' = [call EXCEPT ![b] = "running"]
          /\ at' = [at EXCEPT ![k] = b]
          /\ UNCHANGED outcome
  /\ UNCHANGED <<phase, server, outputs, asked>>

Current(k) == Items[at[k]][Len(outputs[k]) + 1]
Working(k) == /\ at[k] # NoBatch /\ k \notin Foreign
              /\ Len(outputs[k]) < Len(Items[at[k]])

Append1(k, e) == outputs' = [outputs EXCEPT ![k] = Append(@, e)]

\* _validate_request, against the revision this worker serves.
Accepts(k, r) == Asked[r].shape /\ Asked[r].revision = Build[k].revision

\* mutant: the loop ends at a refused request
BreakAtInvalid(k) ==
  /\ Working(k) /\ ~asked[k] /\ ~Accepts(k, Current(k))
  /\ End(at[k], Received(at[k], outputs[k], k))
  /\ Wipe(k)
  /\ UNCHANGED <<phase, server>>

RefuseItem(k) ==
  /\ Working(k) /\ ~asked[k] /\ ~Accepts(k, Current(k))
  /\ Append1(k, Failed("INVALID_REQUEST"))
  /\ UNCHANGED <<client, phase, server, at, asked>>

\* mutant: a dead server is waited for
AwaitServer(k) ==
  /\ Working(k) /\ ~asked[k] /\ Accepts(k, Current(k))
  /\ server[k] = "alive"
  /\ asked' = [asked EXCEPT ![k] = TRUE]
  /\ UNCHANGED <<client, phase, server, at, outputs>>

\* _server_is_alive, looked at once for each item.
CheckServer(k) ==
  /\ Working(k) /\ ~asked[k] /\ Accepts(k, Current(k))
  /\ IF server[k] = "alive"
     THEN asked' = [asked EXCEPT ![k] = TRUE] /\ UNCHANGED outputs
     ELSE Append1(k, Failed("INFERENCE_FAILED")) /\ UNCHANGED asked
  /\ UNCHANGED <<client, phase, server, at>>

\* The completion fails, as it must when the server exited after the check,
\* or its content is no JSON object, or it is the output.  The client of the
\* vLLM server repeats a failed request before it reports the failure: the
\* step is the outcome of the last attempt, the others change nothing here.
Complete(k) ==
  /\ Working(k) /\ asked[k]
  /\ LET r == Current(k) IN
     \/ Append1(k, Failed("INFERENCE_FAILED"))
     \/ server[k] = "alive" /\ Append1(k, Failed("INVALID_MODEL_JSON"))
     \/ /\ server[k] = "alive"
        /\ Append1(k, Success(r, Build[k].model, Build[k].revision,
                              Asked[r].versions))
  /\ asked' = [asked EXCEPT ![k] = FALSE]
  /\ UNCHANGED <<client, phase, server, at>>

Return(k) ==
  /\ at[k] # NoBatch /\ k \notin Foreign /\ ~Working(k)
  /\ End(at[k], Received(at[k], outputs[k], k))
  /\ Wipe(k)
  /\ UNCHANGED <<phase, server>>

\* A container of another build answers as it likes.
ForeignReturn(k) ==
  /\ at[k] # NoBatch /\ k \in Foreign
  /\ \E replies \in ForeignReplies : End(at[k], Received(at[k], replies, k))
  /\ Wipe(k)
  /\ UNCHANGED <<phase, server>>

----------------------------------------------------------------------------
Init ==
  /\ call = [b \in Batches |-> "new"]
  /\ outcome = [b \in Batches |-> NoOutcome]
  /\ phase = [k \in Containers |-> "cold"]
  /\ server = [k \in Containers |-> "none"]
  /\ at = [k \in Containers |-> NoBatch]
  /\ outputs = [k \in Containers |-> <<>>]
  /\ asked = [k \in Containers |-> FALSE]

ClientStep(b) == Send(b) \/ Unreachable(b) \/ \E k \in Containers : Dispatch(b, k)
BatchStep(k) ==
  RefuseItem(k) \/ CheckServer(k) \/ Complete(k) \/ Return(k) \/ ForeignReturn(k)
LifeStep(k) ==
  \/ Boot(k) \/ Ready(k) \/ BootFails(k) \/ ServerExits(k)
  \/ Retire(k) \/ Kill(k) \/ Lose(k)

Next ==
  \/ \E b \in Batches : ClientStep(b)
  \/ \E k \in Containers : BatchStep(k) \/ LifeStep(k)

Spec == Init /\ [][Next]_vars

\* A container that has a batch works on; each completion ends, at the
\* latest when the client library gives up.
FairSpec == Spec /\ \A k \in Containers : WF_vars(BatchStep(k))

----------------------------------------------------------------------------
ByThisWorker(b) ==
  /\ outcome[b].by # {} /\ outcome[b].by \cap Foreign = {}
  /\ \A k \in outcome[b].by : Build[k].model = ModelId

(* The i-th result of a batch is that of the i-th request.  A request the  *)
(* worker refuses, or a server that dies under a batch, costs the other    *)
(* requests nothing: the batch is answered item by item, exactly the       *)
(* unacceptable items are called invalid, and every success was made from  *)
(* the item it stands for, however many before it failed and however often *)
(* a container that had begun was lost: the answer is that of one worker,  *)
(* by its own revision.                                                    *)
EachItemAnswered ==
  \A b \in Batches : ByThisWorker(b) =>
    /\ outcome[b].kind = "RESULTS"
    /\ \A i \in DOMAIN Items[b] :
         LET result == outcome[b].results[i]
         IN  /\ result.ok => result.of = Items[b][i]
             /\ \A k \in outcome[b].by :
                  result = Failed("INVALID_REQUEST") <=> ~Accepts(k, Items[b][i])

(* No container that is down, after a failed start or a retirement, has    *)
(* left a server process behind, and none is shared by two calls.          *)
NoServerLeftBehind ==
  /\ \A k \in Containers : phase[k] = "cold" => server[k] = "none"
  /\ \A j, k \in Containers : at[j] = at[k] => j = k \/ at[j] = NoBatch

(* A container gets rid of every batch it takes, also when its server dies *)
(* at any moment.                                                          *)
TakenBatchesEnd == \A k \in Containers : at[k] # NoBatch ~> at[k] = NoBatch

=============================================================================
