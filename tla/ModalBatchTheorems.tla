-------------------------- MODULE ModalBatchTheorems --------------------------
(***************************************************************************)
(* What ModalBatch promises, for any batches, containers, builds and       *)
(* replies of other builds: QwenWorker answers item by item, also a batch  *)
(* whose containers were lost before, and no container that is down leaves *)
(* a vLLM process behind.                                                  *)
(***************************************************************************)
EXTENDS ModalBatch, TLAPS

Calls == {"new", "waiting", "running", "ended"}
Phases == {"cold", "booting", "ready"}
Servers == {"none", "alive", "exited"}

\* What a container of build k makes of the request r.
Made(k, r) == Success(r, Build[k].model, Build[k].revision, Asked[r].versions)
Envelopes ==
  {Failed(c) : c \in Codes} \cup {Made(k, r) : k \in Containers, r \in DOMAIN Asked}

BatchTypes ==
  /\ call \in [Batches -> Calls] /\ DOMAIN outcome = Batches
  /\ phase \in [Containers -> Phases] /\ server \in [Containers -> Servers]
  /\ at \in [Containers -> Batches \cup {NoBatch}]
  /\ outputs \in [Containers -> Seq(Envelopes)]
  /\ asked \in [Containers -> BOOLEAN]

\* A batch is only at a container that is up, and nowhere else.
HeldAt(k) ==
  /\ at[k] # NoBatch =>
       /\ phase[k] = "ready" /\ call[at[k]] = "running"
       /\ Len(outputs[k]) <= Len(Items[at[k]])
  /\ phase[k] = "cold" => server[k] = "none"
  /\ at[k] = NoBatch => outputs[k] = <<>> /\ ~asked[k]
HeldOnce == \A j, k \in Containers : at[j] = at[k] => j = k \/ at[j] = NoBatch

\* The envelope e is what this worker, at k, may say of the request r.
Answers(k, r, e) ==
  IF Accepts(k, r)
  THEN e \in {Failed("INFERENCE_FAILED"), Failed("INVALID_MODEL_JSON"), Made(k, r)}
  ELSE e = Failed("INVALID_REQUEST")

\* The envelopes so far stand for the first requests of the batch, in order;
\* a completion is under way for an acceptable one.
OutputsAt(k) ==
  at[k] # NoBatch =>
    /\ \A i \in DOMAIN outputs[k] : Answers(k, Items[at[k]][i], outputs[k][i])
    /\ asked[k] => Working(k) /\ Accepts(k, Current(k))

\* What the provider passes on has an envelope for each item, that it vetted.
VettedAt(b) ==
  outcome[b].kind = "RESULTS" =>
    /\ DOMAIN outcome[b].results = DOMAIN Items[b]
    /\ \A i \in DOMAIN Items[b] : Credible(Items[b][i], outcome[b].results[i])

\* What this worker returned is passed on, and answers item by item.
AnsweredAt(b) ==
  ByThisWorker(b) =>
    /\ outcome[b].kind = "RESULTS"
    /\ \A k \in outcome[b].by : \A i \in DOMAIN Items[b] :
         Answers(k, Items[b][i], outcome[b].results[i])

BatchInv ==
  /\ BatchTypes
  /\ HeldOnce
  /\ \A k \in Containers : HeldAt(k) /\ OutputsAt(k)
  /\ \A b \in Batches : VettedAt(b) /\ AnsweredAt(b)

----------------------------------------------------------------------------
(* Lemmas about the operators                                              *)

\* A batch has as many items as its length says, each of them a request.
LEMMA ItemsOf ==
  ASSUME NEW b \in Batches
  PROVE  /\ Items[b] \in Seq(DOMAIN Asked)
         /\ DOMAIN Items[b] = 1 .. Len(Items[b]) /\ Len(Items[b]) \in Nat
         /\ \A i \in DOMAIN Items[b] : Items[b][i] \in DOMAIN Asked
<1>1. Items[b] \in Seq(DOMAIN Asked)
  BY BatchAssumption
<1> QED BY <1>1

\* What this worker answers is an envelope, and the provider takes it for an
\* answer to that request, if the worker serves the configured model.
LEMMA AnswersAreCredible ==
  ASSUME NEW k \in Containers, NEW r \in DOMAIN Asked, NEW e, Answers(k, r, e)
  PROVE  /\ e \in Envelopes
         /\ Build[k].model = ModelId => Credible(r, e)
<1>1. CASE e = Made(k, r) /\ Accepts(k, r)
  <2>1. e.ok /\ e.model = Build[k].model /\ e.revision = Build[k].revision
        /\ e.versions = Asked[r].versions
    BY <1>1 DEF Made, Success
  <2> QED BY <1>1, <2>1 DEF Envelopes, Credible, Accepts
<1>2. CASE \E c \in Codes : e = Failed(c)
  <2>1. PICK c \in Codes : e = Failed(c)
    BY <1>2
  <2>2. ~Failed(c).ok /\ Failed(c).code = c
    BY DEF Failed
  <2>3. e \in Envelopes
    BY <2>1 DEF Envelopes
  <2> QED BY <2>1, <2>2, <2>3 DEF Credible
<1> QED BY <1>1, <1>2 DEF Answers, Codes

\* Only a refusal reads INVALID_REQUEST, and a success names its request.
LEMMA AnswersTell ==
  ASSUME NEW k, NEW r, NEW e, Answers(k, r, e)
  PROVE  /\ e.ok => e.of = r
         /\ e = Failed("INVALID_REQUEST") <=> ~Accepts(k, r)
BY DEF Answers, Made, Success, Failed

IsList(replies) == DOMAIN replies = 1 .. Len(replies)

Fits(b, replies) ==
  /\ DOMAIN replies = DOMAIN Items[b]
  /\ \A i \in DOMAIN Items[b] : Credible(Items[b][i], replies[i])

\* A list of envelopes that fits the batch is passed on, any other is not.
LEMMA ReceivedKinds ==
  ASSUME NEW b \in Batches, NEW replies, NEW k, IsList(replies)
  PROVE  \/ /\ Fits(b, replies)
            /\ Received(b, replies, k) = Outcome("RESULTS", replies, {k})
         \/ /\ ~Fits(b, replies)
            /\ Received(b, replies, k) = Outcome("INVALID_RESPONSE", <<>>, {k})
<1>1. Len(replies) = Len(Items[b]) <=> DOMAIN replies = DOMAIN Items[b]
  <2>1. Len(Items[b]) \in Nat /\ DOMAIN Items[b] = 1 .. Len(Items[b])
    BY ItemsOf
  <2> QED BY <2>1 DEF IsList
<1>2. Fits(b, replies) <=>
        /\ Len(replies) = Len(Items[b])
        /\ \A i \in DOMAIN replies : Credible(Items[b][i], replies[i])
  BY <1>1 DEF Fits
<1> QED BY <1>2 DEF Received

\* The parts of what extract_batch ends with.
LEMMA OutcomeParts ==
  ASSUME NEW kind, NEW results, NEW by
  PROVE  /\ Outcome(kind, results, by).kind = kind
         /\ Outcome(kind, results, by).results = results
         /\ Outcome(kind, results, by).by = by
BY DEF Outcome

----------------------------------------------------------------------------
(* What a step does not touch keeps its part of the invariant              *)

LEMMA OthersKeep ==
  ASSUME NEW j \in Containers, HeldAt(j), OutputsAt(j),
         at'[j] = at[j], outputs'[j] = outputs[j], asked'[j] = asked[j],
         phase'[j] = phase[j], server'[j] = server[j],
         at[j] # NoBatch => call'[at[j]] = call[at[j]]
  PROVE  HeldAt(j)' /\ OutputsAt(j)'
BY DEF HeldAt, OutputsAt, Working, Current, Accepts, Answers, Made

LEMMA OutcomeKeeps ==
  ASSUME NEW b, VettedAt(b), AnsweredAt(b), outcome'[b] = outcome[b]
  PROVE  VettedAt(b)' /\ AnsweredAt(b)'
BY DEF VettedAt, AnsweredAt, ByThisWorker, Credible, Answers, Accepts, Made

\* A call that ends without a worker's list ends well if it has no items.
LEMMA EndsAlone ==
  ASSUME NEW b \in Batches, NEW o, outcome'[b] = o, o.by = {},
         o.kind = "RESULTS" => o.results = <<>> /\ Items[b] = <<>>
  PROVE  VettedAt(b)' /\ AnsweredAt(b)'
BY DEF VettedAt, AnsweredAt, ByThisWorker, Credible

\* One container, with the batch it has, goes from the invariant to it; the
\* batch may end.
LEMMA OneContainerMoves ==
  ASSUME BatchInv, BatchTypes', NEW k \in Containers,
         \A j \in Containers \ {k} :
           /\ at'[j] = at[j] /\ outputs'[j] = outputs[j] /\ asked'[j] = asked[j]
           /\ phase'[j] = phase[j] /\ server'[j] = server[j],
         at'[k] \in {at[k], NoBatch},
         \A b \in Batches : b # at[k] =>
           call'[b] = call[b] /\ outcome'[b] = outcome[b],
         \A b \in Batches : b = at[k] => VettedAt(b)' /\ AnsweredAt(b)',
         HeldAt(k)', OutputsAt(k)'
  PROVE  BatchInv'
<1>1. HeldOnce'
  BY DEF BatchInv, HeldOnce
<1>2. ASSUME NEW j \in Containers PROVE HeldAt(j)' /\ OutputsAt(j)'
  <2>1. CASE j # k
    <3>1. at[j] # NoBatch => at[j] # at[k] /\ at[j] \in Batches
      BY <2>1 DEF BatchInv, BatchTypes, HeldOnce
    <3>2. HeldAt(j) /\ OutputsAt(j)
      BY DEF BatchInv
    <3> QED BY <2>1, <3>1, <3>2, OthersKeep
  <2> QED BY <2>1
<1>3. ASSUME NEW b \in Batches PROVE VettedAt(b)' /\ AnsweredAt(b)'
  <2>1. CASE b # at[k]
    BY <2>1, OutcomeKeeps DEF BatchInv
  <2>2. CASE b = at[k]
    BY <2>2, BatchAssumption
  <2> QED BY <2>1, <2>2
<1> QED BY <1>1, <1>2, <1>3 DEF BatchInv

----------------------------------------------------------------------------
(* The provider's steps                                                    *)

\* A call that ends, or waits, while no worker has it.
LEMMA ClientMoves ==
  ASSUME BatchInv, BatchTypes', NEW b \in Batches, UNCHANGED worker,
         call[b] # "running",
         \A c \in Batches \ {b} :
           call'[c] = call[c] /\ outcome'[c] = outcome[c],
         VettedAt(b)' /\ AnsweredAt(b)'
  PROVE  BatchInv'
<1>1. HeldOnce'
  BY DEF BatchInv, HeldOnce, worker
<1>2. ASSUME NEW j \in Containers PROVE HeldAt(j)' /\ OutputsAt(j)'
  <2>1. HeldAt(j) /\ OutputsAt(j)
    BY DEF BatchInv
  <2>2. at[j] # NoBatch => at[j] \in Batches \ {b}
    BY <2>1 DEF HeldAt, BatchInv, BatchTypes
  <2> QED BY <2>1, <2>2, OthersKeep DEF worker
<1>3. ASSUME NEW c \in Batches PROVE VettedAt(c)' /\ AnsweredAt(c)'
  BY OutcomeKeeps DEF BatchInv
<1> QED BY <1>1, <1>2, <1>3 DEF BatchInv

LEMMA SendKeeps ==
  ASSUME BatchInv, NEW b \in Batches, Send(b)
  PROVE  BatchInv'
<1>1. BatchTypes' /\ call[b] # "running" /\ UNCHANGED worker
  BY DEF BatchInv, BatchTypes, Send, End, worker, Calls
<1>2. \A c \in Batches \ {b} : call'[c] = call[c] /\ outcome'[c] = outcome[c]
  BY DEF BatchInv, BatchTypes, Send, End
<1>3. VettedAt(b)' /\ AnsweredAt(b)'
  <2>1. CASE UNCHANGED outcome
    BY <2>1, OutcomeKeeps DEF BatchInv
  <2>2. CASE Items[b] = <<>> /\ End(b, Outcome("RESULTS", <<>>, {}))
    <3>1. outcome'[b] = Outcome("RESULTS", <<>>, {})
      BY <2>2 DEF End, BatchInv, BatchTypes
    <3>2. /\ Outcome("RESULTS", <<>>, {}).by = {}
          /\ Outcome("RESULTS", <<>>, {}).results = <<>>
      BY DEF Outcome
    <3> QED BY <2>2, <3>1, <3>2, EndsAlone
  <2>3. CASE End(b, Unavailable)
    <3>1. outcome'[b] = Unavailable
      BY <2>3 DEF End, BatchInv, BatchTypes
    <3>2. Unavailable.by = {} /\ Unavailable.kind # "RESULTS"
      BY DEF Unavailable, Outcome
    <3> QED BY <3>1, <3>2, EndsAlone
  <2> QED BY <2>1, <2>2, <2>3 DEF Send
<1> QED BY <1>1, <1>2, <1>3, ClientMoves

LEMMA UnreachableKeeps ==
  ASSUME BatchInv, NEW b \in Batches, Unreachable(b)
  PROVE  BatchInv'
<1>1. BatchTypes' /\ call[b] # "running" /\ UNCHANGED worker
  BY DEF BatchInv, BatchTypes, Unreachable, End, worker, Calls
<1>2. \A c \in Batches \ {b} : call'[c] = call[c] /\ outcome'[c] = outcome[c]
  BY DEF BatchInv, BatchTypes, Unreachable, End
<1>3. outcome'[b] = Unavailable
  BY DEF Unreachable, End, BatchInv, BatchTypes
<1>4. Unavailable.by = {} /\ Unavailable.kind # "RESULTS"
  BY DEF Unavailable, Outcome
<1>5. VettedAt(b)' /\ AnsweredAt(b)'
  BY <1>3, <1>4, EndsAlone
<1> QED BY <1>1, <1>2, <1>5, ClientMoves

----------------------------------------------------------------------------
(* The steps of a container's life                                         *)

\* A container without a batch boots, retires, fails or loses its server.
LEMMA LifeKeeps ==
  ASSUME BatchInv, NEW k \in Containers,
         Boot(k) \/ Ready(k) \/ BootFails(k) \/ ServerExits(k) \/ Retire(k)
  PROVE  BatchInv'
<1>1. UNCHANGED <<client, at, outputs, asked>> /\ BatchTypes'
  BY DEF BatchInv, BatchTypes, Boot, Ready, BootFails, ServerExits, Retire,
         client, Phases, Servers
<1>2. \A j \in Containers \ {k} : phase'[j] = phase[j] /\ server'[j] = server[j]
  BY DEF BatchInv, BatchTypes, Boot, Ready, BootFails, ServerExits, Retire
<1>3. HeldAt(k) /\ OutputsAt(k)
  BY DEF BatchInv
<1>4. HeldAt(k)'
  <2>1. at[k] # NoBatch => phase'[k] = "ready"
    BY <1>3 DEF HeldAt, BatchInv, BatchTypes, Boot, Ready, BootFails,
       ServerExits, Retire
  <2>2. phase'[k] = "cold" => server'[k] = "none"
    BY <1>3 DEF HeldAt, BatchInv, BatchTypes, Boot, Ready, BootFails,
       ServerExits, Retire
  <2> QED BY <1>1, <1>3, <2>1, <2>2 DEF HeldAt, client
<1>5. OutputsAt(k)'
  BY <1>1, <1>3 DEF OutputsAt, Answers, Accepts, Made, Working, Current
<1>6. ASSUME NEW b \in Batches
      PROVE  /\ call'[b] = call[b] /\ outcome'[b] = outcome[b]
             /\ VettedAt(b)' /\ AnsweredAt(b)'
  BY <1>1, OutcomeKeeps DEF client, BatchInv
<1> QED BY <1>1, <1>2, <1>4, <1>5, <1>6, OneContainerMoves

\* A batch that leaves its container leaves it empty.
LEMMA WipedAt ==
  ASSUME BatchTypes, NEW k \in Containers, Wipe(k),
         phase'[k] = "cold" => server'[k] = "none"
  PROVE  /\ HeldAt(k)' /\ OutputsAt(k)' /\ at'[k] = NoBatch
         /\ at' \in [Containers -> Batches \cup {NoBatch}]
         /\ outputs' \in [Containers -> Seq(Envelopes)]
         /\ asked' \in [Containers -> BOOLEAN]
         /\ \A j \in Containers \ {k} :
              at'[j] = at[j] /\ outputs'[j] = outputs[j] /\ asked'[j] = asked[j]
<1>1. at'[k] = NoBatch /\ outputs'[k] = <<>> /\ ~asked'[k]
  BY DEF BatchTypes, Wipe
<1>2. HeldAt(k)' /\ OutputsAt(k)'
  BY <1>1 DEF HeldAt, OutputsAt
<1>3. \A j \in Containers \ {k} :
        at'[j] = at[j] /\ outputs'[j] = outputs[j] /\ asked'[j] = asked[j]
  BY DEF BatchTypes, Wipe
<1>4. <<>> \in Seq(Envelopes)
  OBVIOUS
<1> QED BY <1>1, <1>2, <1>3, <1>4 DEF BatchTypes, Wipe

\* A container goes down, and its call, if it has one, ends unavailable or
\* waits for another container.
LEMMA DownMoves ==
  ASSUME BatchInv, NEW k \in Containers, Down(k),
         \/ at[k] = NoBatch /\ UNCHANGED client
         \/ /\ at[k] # NoBatch /\ UNCHANGED outcome
            /\ call' = [call EXCEPT ![at[k]] = "waiting"]
         \/ at[k] # NoBatch /\ End(at[k], Unavailable)
  PROVE  BatchInv'
<1>1. phase'[k] = "cold" => server'[k] = "none"
  BY DEF Down, BatchInv, BatchTypes
<1>2. /\ HeldAt(k)' /\ OutputsAt(k)' /\ at'[k] = NoBatch
      /\ at' \in [Containers -> Batches \cup {NoBatch}]
      /\ outputs' \in [Containers -> Seq(Envelopes)]
      /\ asked' \in [Containers -> BOOLEAN]
      /\ \A j \in Containers \ {k} :
           at'[j] = at[j] /\ outputs'[j] = outputs[j] /\ asked'[j] = asked[j]
  BY <1>1, WipedAt DEF Down, BatchInv
<1>3. \A j \in Containers \ {k} : phase'[j] = phase[j] /\ server'[j] = server[j]
  BY DEF BatchInv, BatchTypes, Down
<1>4. \A b \in Batches : b # at[k] =>
        call'[b] = call[b] /\ outcome'[b] = outcome[b]
  BY DEF BatchInv, BatchTypes, client, End
<1>5. BatchTypes'
  <2>1. phase' \in [Containers -> Phases] /\ server' \in [Containers -> Servers]
    BY DEF BatchInv, BatchTypes, Down, Phases, Servers
  <2>2. call' \in [Batches -> Calls] /\ DOMAIN outcome' = Batches
    BY DEF BatchInv, BatchTypes, client, End, Calls
  <2> QED BY <1>2, <2>1, <2>2 DEF BatchTypes
<1>6. ASSUME NEW b \in Batches, b = at[k]
      PROVE  VettedAt(b)' /\ AnsweredAt(b)'
  <2>1. CASE UNCHANGED outcome
    BY <2>1, OutcomeKeeps DEF BatchInv
  <2>2. CASE End(b, Unavailable)
    <3>1. outcome'[b] = Unavailable
      BY <2>2 DEF End, BatchInv, BatchTypes
    <3>2. Unavailable.by = {} /\ Unavailable.kind # "RESULTS"
      BY DEF Unavailable, Outcome
    <3> QED BY <3>1, <3>2, EndsAlone
  <2>3. b # NoBatch
    BY BatchAssumption
  <2> QED BY <1>6, <2>1, <2>2, <2>3
<1> QED BY <1>2, <1>3, <1>4, <1>5, <1>6, OneContainerMoves

LEMMA KillKeeps ==
  ASSUME BatchInv, NEW k \in Containers, Kill(k)
  PROVE  BatchInv'
BY DownMoves DEF Kill

LEMMA LoseKeeps ==
  ASSUME BatchInv, NEW k \in Containers, Lose(k)
  PROVE  BatchInv'
BY DownMoves DEF Lose

----------------------------------------------------------------------------
(* QwenWorker.extract_batch                                                *)

LEMMA DispatchKeeps ==
  ASSUME BatchInv, NEW b \in Batches, NEW k \in Containers, Dispatch(b, k)
  PROVE  BatchInv'
<1> USE DEF Dispatch
<1>1. CASE End(b, Unavailable) /\ UNCHANGED at
  <2>1. BatchTypes' /\ call[b] # "running" /\ UNCHANGED worker
    BY <1>1 DEF BatchInv, BatchTypes, End, worker, Calls
  <2>2. \A c \in Batches \ {b} : call'[c] = call[c] /\ outcome'[c] = outcome[c]
    BY <1>1 DEF BatchInv, BatchTypes, End
  <2>3. outcome'[b] = Unavailable
    BY <1>1 DEF End, BatchInv, BatchTypes
  <2>4. Unavailable.by = {} /\ Unavailable.kind # "RESULTS"
    BY DEF Unavailable, Outcome
  <2>5. VettedAt(b)' /\ AnsweredAt(b)'
    BY <2>3, <2>4, EndsAlone
  <2> QED BY <2>1, <2>2, <2>5, ClientMoves
<1>2. CASE /\ call' = [call EXCEPT ![b] = "running"]
           /\ at' = [at EXCEPT ![k] = b] /\ UNCHANGED outcome
  <2>1. BatchTypes'
    BY <1>2 DEF BatchInv, BatchTypes, Calls
  <2>2. at'[k] = b /\ call'[b] = "running" /\ b # NoBatch
    BY <1>2, BatchAssumption DEF BatchInv, BatchTypes
  <2>3. \A j \in Containers \ {k} : at'[j] = at[j]
    BY <1>2 DEF BatchInv, BatchTypes
  <2>4. \A c \in Batches \ {b} : call'[c] = call[c]
    BY <1>2 DEF BatchInv, BatchTypes
  <2>5. \A j \in Containers : at[j] # b
    BY BatchAssumption DEF BatchInv, HeldAt
  <2>6. HeldOnce'
    BY <2>2, <2>3, <2>5 DEF BatchInv, HeldOnce
  <2>7. outputs[k] = <<>> /\ ~asked[k] /\ phase[k] = "ready"
    BY DEF BatchInv, HeldAt
  <2>8. HeldAt(k)' /\ OutputsAt(k)'
    BY <2>2, <2>7, ItemsOf DEF HeldAt, OutputsAt
  <2>9. ASSUME NEW j \in Containers \ {k} PROVE HeldAt(j)' /\ OutputsAt(j)'
    <3>1. HeldAt(j) /\ OutputsAt(j)
      BY DEF BatchInv
    <3>2. at[j] # NoBatch => at[j] \in Batches \ {b}
      BY <2>5 DEF BatchInv, BatchTypes
    <3> QED BY <2>3, <2>4, <3>1, <3>2, OthersKeep
  <2>10. \A c \in Batches : VettedAt(c)' /\ AnsweredAt(c)'
    BY <1>2, OutcomeKeeps DEF BatchInv
  <2> QED BY <2>1, <2>6, <2>8, <2>9, <2>10 DEF BatchInv
<1> QED BY <1>1, <1>2

\* The worker at work on its next item, which is a request of the batch.
LEMMA WorkingOn ==
  ASSUME BatchInv, NEW k \in Containers, Working(k)
  PROVE  /\ at[k] \in Batches /\ outputs[k] \in Seq(Envelopes)
         /\ Len(outputs[k]) + 1 \in DOMAIN Items[at[k]]
         /\ Current(k) \in DOMAIN Asked
<1>1. at[k] \in Batches /\ outputs[k] \in Seq(Envelopes)
  BY DEF BatchInv, BatchTypes, Working
<1>2. Len(outputs[k]) \in Nat /\ Len(outputs[k]) < Len(Items[at[k]])
  BY <1>1 DEF Working
<1>3. Len(outputs[k]) + 1 \in DOMAIN Items[at[k]]
  BY <1>1, <1>2, ItemsOf
<1> QED BY <1>1, <1>3, ItemsOf DEF Current

\* An envelope that answers the next item is added for it.
LEMMA ItemDone ==
  ASSUME BatchInv, NEW k \in Containers, Working(k),
         NEW e, Answers(k, Current(k), e), Append1(k, e),
         UNCHANGED <<client, phase, server, at>>,
         asked' \in [Containers -> BOOLEAN], ~asked'[k],
         \A j \in Containers \ {k} : asked'[j] = asked[j]
  PROVE  BatchInv'
<1>1. /\ at[k] \in Batches /\ outputs[k] \in Seq(Envelopes)
      /\ Len(outputs[k]) + 1 \in DOMAIN Items[at[k]]
      /\ Current(k) \in DOMAIN Asked
  BY WorkingOn
<1>2. e \in Envelopes
  BY <1>1, AnswersAreCredible
<1>3. outputs' \in [Containers -> Seq(Envelopes)]
      /\ outputs'[k] = Append(outputs[k], e)
  BY <1>1, <1>2 DEF Append1, BatchInv, BatchTypes
<1>4. \A j \in Containers \ {k} : outputs'[j] = outputs[j]
  BY DEF Append1, BatchInv, BatchTypes
<1>5. BatchTypes'
  BY <1>3 DEF BatchInv, BatchTypes, client
<1>6. HeldAt(k)'
  <2>1. Len(outputs'[k]) = Len(outputs[k]) + 1
    BY <1>1, <1>2, <1>3
  <2>2. Len(outputs'[k]) <= Len(Items[at[k]])
    BY <1>1, <2>1, ItemsOf
  <2>3. HeldAt(k) /\ at[k] # NoBatch
    BY DEF BatchInv, Working
  <2> QED BY <2>2, <2>3 DEF HeldAt, client
<1>7. OutputsAt(k)'
  <2>1. ASSUME NEW i \in DOMAIN outputs'[k]
        PROVE  Answers(k, Items[at[k]][i], outputs'[k][i])
    <3>1. OutputsAt(k) /\ at[k] # NoBatch
      BY DEF BatchInv, Working
    <3>2. CASE i = Len(outputs[k]) + 1
      <4>1. outputs'[k][i] = e /\ Items[at[k]][i] = Current(k)
        BY <3>2, <1>1, <1>2, <1>3 DEF Current
      <4> QED BY <4>1
    <3>3. CASE i # Len(outputs[k]) + 1
      <4>1. i \in DOMAIN outputs[k] /\ outputs'[k][i] = outputs[k][i]
        BY <3>3, <1>1, <1>2, <1>3
      <4> QED BY <3>1, <4>1 DEF OutputsAt
    <3> QED BY <3>2, <3>3
  <2> QED BY <2>1 DEF OutputsAt, Answers, Accepts, Made
<1>8. ASSUME NEW b \in Batches
      PROVE  /\ call'[b] = call[b] /\ outcome'[b] = outcome[b]
             /\ VettedAt(b)' /\ AnsweredAt(b)'
  BY OutcomeKeeps DEF client, BatchInv
<1> QED BY <1>4, <1>5, <1>6, <1>7, <1>8, OneContainerMoves

LEMMA RefuseItemKeeps ==
  ASSUME BatchInv, NEW k \in Containers, RefuseItem(k)
  PROVE  BatchInv'
<1>1. Answers(k, Current(k), Failed("INVALID_REQUEST"))
  BY DEF RefuseItem, Answers
<1>2. asked \in [Containers -> BOOLEAN]
  BY DEF BatchInv, BatchTypes
<1> QED BY <1>1, <1>2, ItemDone DEF RefuseItem

LEMMA CheckServerKeeps ==
  ASSUME BatchInv, NEW k \in Containers, CheckServer(k)
  PROVE  BatchInv'
<1>1. asked \in [Containers -> BOOLEAN]
  BY DEF BatchInv, BatchTypes
<1>2. CASE asked' = [asked EXCEPT ![k] = TRUE] /\ UNCHANGED outputs
  <2>1. UNCHANGED <<client, phase, server, at>> /\ Working(k)
        /\ Accepts(k, Current(k))
    BY DEF CheckServer
  <2>2. BatchTypes' /\ \A j \in Containers \ {k} : asked'[j] = asked[j]
    BY <1>1, <1>2, <2>1 DEF BatchInv, BatchTypes, client
  <2>3. HeldAt(k) /\ OutputsAt(k) /\ at[k] # NoBatch
    BY <2>1 DEF BatchInv, Working
  <2>4. HeldAt(k)'
    BY <1>2, <2>1, <2>3 DEF HeldAt, client
  <2>5. OutputsAt(k)'
    BY <1>2, <2>1, <2>3 DEF OutputsAt, Answers, Accepts, Made, Working, Current
  <2>6. ASSUME NEW b \in Batches
        PROVE  /\ call'[b] = call[b] /\ outcome'[b] = outcome[b]
               /\ VettedAt(b)' /\ AnsweredAt(b)'
    BY <2>1, OutcomeKeeps DEF client, BatchInv
  <2> QED BY <1>2, <2>1, <2>2, <2>4, <2>5, <2>6, OneContainerMoves
<1>3. CASE Append1(k, Failed("INFERENCE_FAILED")) /\ UNCHANGED asked
  <2>1. Answers(k, Current(k), Failed("INFERENCE_FAILED"))
    BY DEF CheckServer, Answers
  <2> QED BY <1>1, <1>3, <2>1, ItemDone DEF CheckServer
<1> QED BY <1>2, <1>3 DEF CheckServer

LEMMA CompleteKeeps ==
  ASSUME BatchInv, NEW k \in Containers, Complete(k)
  PROVE  BatchInv'
<1>1. Accepts(k, Current(k)) /\ Working(k)
  BY DEF BatchInv, OutputsAt, Complete, Working
<1>2. PICK e : /\ Append1(k, e)
               /\ e \in {Failed("INFERENCE_FAILED"),
                         Failed("INVALID_MODEL_JSON"), Made(k, Current(k))}
  BY DEF Complete, Made
<1>3. Answers(k, Current(k), e)
  BY <1>1, <1>2 DEF Answers
<1>4. asked' \in [Containers -> BOOLEAN] /\ ~asked'[k]
      /\ \A j \in Containers \ {k} : asked'[j] = asked[j]
  BY DEF Complete, BatchInv, BatchTypes
<1> QED BY <1>1, <1>2, <1>3, <1>4, ItemDone DEF Complete

\* A container hands the replies over and is free again.
LEMMA ReturnMoves ==
  ASSUME BatchInv, NEW k \in Containers, NEW b \in Batches, at[k] = b,
         NEW o, End(b, o), Wipe(k), UNCHANGED <<phase, server>>,
         VettedAt(b)', AnsweredAt(b)'
  PROVE  BatchInv'
<1>1. phase'[k] = "cold" => server'[k] = "none"
  BY DEF BatchInv, HeldAt
<1>2. /\ HeldAt(k)' /\ OutputsAt(k)' /\ at'[k] = NoBatch
      /\ at' \in [Containers -> Batches \cup {NoBatch}]
      /\ outputs' \in [Containers -> Seq(Envelopes)]
      /\ asked' \in [Containers -> BOOLEAN]
      /\ \A j \in Containers \ {k} :
           at'[j] = at[j] /\ outputs'[j] = outputs[j] /\ asked'[j] = asked[j]
  BY <1>1, WipedAt DEF BatchInv
<1>3. \A c \in Batches : c # b => call'[c] = call[c] /\ outcome'[c] = outcome[c]
  BY DEF BatchInv, BatchTypes, End
<1>4. BatchTypes'
  BY <1>2 DEF BatchInv, BatchTypes, End, Calls
<1> QED BY <1>2, <1>3, <1>4, OneContainerMoves

\* The outcome of a call that a container answered is vetted.
LEMMA ReceivedIsVetted ==
  ASSUME NEW b \in Batches, NEW replies, NEW k, IsList(replies),
         outcome'[b] = Received(b, replies, k)
  PROVE  outcome'[b].by = {k} /\ VettedAt(b)'
<1>1. CASE Fits(b, replies)
           /\ outcome'[b] = Outcome("RESULTS", replies, {k})
  BY <1>1, OutcomeParts DEF Fits, VettedAt, Credible
<1>2. CASE outcome'[b] = Outcome("INVALID_RESPONSE", <<>>, {k})
  BY <1>2, OutcomeParts DEF VettedAt
<1> QED BY <1>1, <1>2, ReceivedKinds

LEMMA ReturnKeeps ==
  ASSUME BatchInv, NEW k \in Containers, Return(k)
  PROVE  BatchInv'
<1>1. PICK b \in Batches : b = at[k]
  BY DEF BatchInv, BatchTypes, Return
<1>2. PICK replies \in Seq(Envelopes) : replies = outputs[k]
  BY DEF BatchInv, BatchTypes
<1>3. /\ HeldAt(k) /\ OutputsAt(k) /\ at[k] # NoBatch /\ k \notin Foreign
      /\ End(b, Received(b, replies, k)) /\ outcome'[b] = Received(b, replies, k)
  BY <1>1, <1>2 DEF BatchInv, BatchTypes, Return, End
<1>4. IsList(replies) /\ DOMAIN replies = DOMAIN Items[b]
  <2>1. Len(replies) <= Len(Items[b]) /\ ~(Len(replies) < Len(Items[b]))
    BY <1>1, <1>2, <1>3 DEF HeldAt, Working, Return
  <2> QED BY <2>1, ItemsOf DEF IsList
<1>5. \A i \in DOMAIN Items[b] : Answers(k, Items[b][i], replies[i])
  BY <1>1, <1>2, <1>3, <1>4 DEF OutputsAt
<1>6. outcome'[b].by = {k} /\ VettedAt(b)'
  BY <1>3, <1>4, ReceivedIsVetted
<1>7. AnsweredAt(b)'
  <2> SUFFICES ASSUME ByThisWorker(b)' PROVE AnsweredAt(b)'
    BY DEF AnsweredAt
  <2>1. Build[k].model = ModelId
    BY <1>6 DEF ByThisWorker
  <2>2. Fits(b, replies)
    BY <1>4, <1>5, <2>1, ItemsOf, AnswersAreCredible DEF Fits
  <2>3. outcome'[b] = Outcome("RESULTS", replies, {k})
    BY <1>3, <1>4, <2>2, ReceivedKinds
  <2>4. outcome'[b].kind = "RESULTS" /\ outcome'[b].results = replies
    BY <2>3, OutcomeParts
  <2> QED BY <1>5, <1>6, <2>4 DEF AnsweredAt, Answers, Accepts, Made
<1> QED BY <1>1, <1>3, <1>6, <1>7, ReturnMoves DEF Return

LEMMA ForeignReturnKeeps ==
  ASSUME BatchInv, NEW k \in Containers, ForeignReturn(k)
  PROVE  BatchInv'
<1>1. PICK b \in Batches : b = at[k]
  BY DEF BatchInv, BatchTypes, ForeignReturn
<1>2. PICK replies \in ForeignReplies : End(b, Received(b, replies, k))
  BY <1>1 DEF ForeignReturn
<1>3. outcome'[b] = Received(b, replies, k)
  BY <1>2 DEF End, BatchInv, BatchTypes
<1>4. outcome'[b].by = {k} /\ VettedAt(b)'
  <2>1. IsList(replies)
    BY BatchAssumption DEF IsList
  <2> QED BY <1>3, <2>1, ReceivedIsVetted
<1>5. AnsweredAt(b)'
  BY <1>4 DEF AnsweredAt, ByThisWorker, ForeignReturn
<1> QED BY <1>1, <1>2, <1>4, <1>5, ReturnMoves DEF ForeignReturn

----------------------------------------------------------------------------
LEMMA BatchInit == Init => BatchInv
<1> SUFFICES ASSUME Init PROVE BatchInv
  OBVIOUS
<1>1. BatchTypes
  BY DEF Init, BatchTypes, Calls, Phases, Servers
<1>2. HeldOnce /\ \A k \in Containers : HeldAt(k) /\ OutputsAt(k)
  BY DEF Init, HeldOnce, HeldAt, OutputsAt
<1>3. NoOutcome.by = {} /\ NoOutcome.kind # "RESULTS"
  BY DEF NoOutcome, Outcome
<1>4. \A b \in Batches : VettedAt(b) /\ AnsweredAt(b)
  BY <1>3 DEF Init, VettedAt, AnsweredAt, ByThisWorker
<1> QED BY <1>1, <1>2, <1>4 DEF BatchInv

LEMMA BatchNext == BatchInv /\ [Next]_vars => BatchInv'
<1> SUFFICES ASSUME BatchInv, [Next]_vars PROVE BatchInv'
  OBVIOUS
<1>1. ASSUME NEW b \in Batches, ClientStep(b) PROVE BatchInv'
  BY <1>1, SendKeeps, UnreachableKeeps, DispatchKeeps DEF ClientStep
<1>2. ASSUME NEW k \in Containers, BatchStep(k) PROVE BatchInv'
  BY <1>2, RefuseItemKeeps, CheckServerKeeps, CompleteKeeps, ReturnKeeps,
     ForeignReturnKeeps DEF BatchStep
<1>3. ASSUME NEW k \in Containers, LifeStep(k) PROVE BatchInv'
  BY <1>3, LifeKeeps, KillKeeps, LoseKeeps DEF LifeStep
<1>4. CASE UNCHANGED vars
  <2>1. BatchTypes' /\ HeldOnce'
    BY <1>4 DEF BatchInv, BatchTypes, HeldOnce, vars
  <2>2. \A k \in Containers : HeldAt(k)' /\ OutputsAt(k)'
    BY <1>4, OthersKeep DEF BatchInv, vars
  <2>3. \A b \in Batches : VettedAt(b)' /\ AnsweredAt(b)'
    BY <1>4, OutcomeKeeps DEF BatchInv, vars
  <2> QED BY <2>1, <2>2, <2>3 DEF BatchInv
<1> QED BY <1>1, <1>2, <1>3, <1>4 DEF Next

LEMMA BatchAlways == Spec => []BatchInv
BY BatchInit, BatchNext, PTL DEF Spec

----------------------------------------------------------------------------
(* QwenWorker.extract_batch answers item by item: refusals are exactly the *)
(* unacceptable requests, every success was made from the request it       *)
(* stands for, and _to_success rejects none of it, whatever fails before   *)
(* and however many containers that had begun the batch were lost.         *)
THEOREM ItemsAreAnswered == Spec => []EachItemAnswered
<1>1. BatchInv => EachItemAnswered
  <2> SUFFICES ASSUME BatchInv, NEW b \in Batches, ByThisWorker(b)
               PROVE  /\ outcome[b].kind = "RESULTS"
                      /\ \A i \in DOMAIN Items[b] :
                           LET result == outcome[b].results[i]
                           IN  /\ result.ok => result.of = Items[b][i]
                               /\ \A k \in outcome[b].by :
                                    result = Failed("INVALID_REQUEST")
                                      <=> ~Accepts(k, Items[b][i])
    BY DEF EachItemAnswered
  <2>1. /\ outcome[b].kind = "RESULTS"
        /\ \A k \in outcome[b].by : \A i \in DOMAIN Items[b] :
             Answers(k, Items[b][i], outcome[b].results[i])
    BY DEF BatchInv, AnsweredAt
  <2>2. PICK k : k \in outcome[b].by
    BY DEF ByThisWorker
  <2>3. ASSUME NEW i \in DOMAIN Items[b]
        PROVE  outcome[b].results[i].ok =>
                 outcome[b].results[i].of = Items[b][i]
    BY <2>1, <2>2, AnswersTell
  <2>4. ASSUME NEW i \in DOMAIN Items[b], NEW j \in outcome[b].by
        PROVE  outcome[b].results[i] = Failed("INVALID_REQUEST")
                 <=> ~Accepts(j, Items[b][i])
    BY <2>1, AnswersTell
  <2> QED BY <2>1, <2>3, <2>4
<1> QED BY <1>1, BatchAlways, PTL

(* A container that is down has no vLLM process, whichever way it went     *)
(* down, and no two containers work on the same call.                      *)
THEOREM NoServerRemains == Spec => []NoServerLeftBehind
<1>1. BatchInv => NoServerLeftBehind
  BY DEF BatchInv, HeldAt, HeldOnce, NoServerLeftBehind
<1> QED BY <1>1, BatchAlways, PTL

=============================================================================
