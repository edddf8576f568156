-------------------------- MODULE ExtractionIdentity --------------------------
(***************************************************************************)
(* Which extraction answers which request while the system is upgraded.    *)
(* Calls of JobController.run under old and new releases of the API share  *)
(* one database and one Modal class whose workers are redeployed at their  *)
(* own time, and any order of that is possible, roll-backs included.       *)
(*                                                                         *)
(* A release is the settings of a process and the constants of its code.   *)
(* Its labels are trusted: two releases that prompt or preprocess          *)
(* differently carry different versions.  A document stands for its bytes: *)
(* what two documents of equal bytes do to each other is in JobPipeline.   *)
(*                                                                         *)
(* A call renders its region (RegionImage), derives its key, and opens its *)
(* job in one step: JobPipeline has the statements of that transaction,    *)
(* the budget and the crashes, which are left out here.                    *)
(***************************************************************************)
EXTENDS RegionImage

CONSTANTS
  Calls,      \* invocations
  Requests,   \* what they may ask for: [key, doc, page, box]
  Releases,   \* what the API processes that take calls may be running
  Builds      \* the [model, revision] of the workers that may be deployed

Nothing == [provider |-> "nobody"]  \* no result, request, release or picture

ASSUME RequestAssumption ==
  \A a \in Requests :
    /\ a.doc # "mock"     \* a document's id is a UUID
    /\ {a.page.width, a.page.height} \subseteq Nat \ {0}
    /\ a.box # WholePage =>
         {a.box.left, a.box.top, a.box.right, a.box.bottom} \subseteq Int

ASSUME ReleaseAssumption == \A r \in Releases : r.dpi \in Int /\ r.padding \in Nat

\* The doubles that a request needs are within the slack.
ASSUME FloatAssumption ==
  \A a \in Requests, r \in Releases :
    r.dpi > 0 =>
      /\ \A size \in {a.page.width, a.page.height} :
           NearScaled(size, r.dpi) /\ Scaled(size, r.dpi) > 0
      /\ a.box # WholePage =>
           /\ \A low \in {a.box.left, a.box.top} : NearScaled(low - r.padding, r.dpi)
           /\ \A high \in {a.box.right, a.box.bottom} :
                NearScaled(high + r.padding, r.dpi)

VARIABLES
  pc,        \* new, open, sent, answered or done
  ask,       \* what the call is for
  under,     \* the release whose process took it
  figure,    \* what it rendered
  row,       \* its row of inference_jobs: state and identity
  cache,     \* the rows of inference_cache
  reply,     \* what its provider gave back
  outcome    \* the state and the output that run returned

vars == <<pc, ask, under, figure, row, cache, reply, outcome>>

----------------------------------------------------------------------------
(* Identities.                                                             *)

Rendered(a, r) ==
  LET png == Png(a.box, a.page, r.dpi, r.padding)
  IN  [png |-> png, sha |-> Digest(r.render, r.dpi, a.box, png)]

\* mutant: the six fields of before the contract had a version
SixFieldKey(doc, r, f) ==
  <<doc, f.sha, r.model, r.revision, r.prompt, r.preprocess>>

\* make_cache_key: a hash of these seven; the provider is none of them.
CacheKey(doc, r, f) ==
  <<doc, f.sha, r.model, r.revision, r.prompt, r.preprocess, r.contract>>

KeyOf(c) == CacheKey(ask[c].doc, under[c], figure[c])

\* mutant: a replay is compared by the columns of before cache_key was one
RowIdentityWithoutKey(c) ==
  LET r == under[c]
  IN  <<ask[c].doc, r.provider, r.model, r.revision, r.prompt, r.preprocess>>

\* What _require_same_identity compares of a persisted row and a request.
RowIdentity(c) ==
  LET r == under[c]
  IN  <<ask[c].doc, r.provider, r.model, r.revision, r.prompt, r.preprocess,
        KeyOf(c)>>

Stored(key) == {e \in cache : e.key = key}
Cached(key) == IF Stored(key) = {} THEN Nothing
               ELSE (CHOOSE e \in Stored(key) : TRUE).result

NoRow == [state |-> "ABSENT", identity |-> <<>>, key |-> <<>>]
RowOf(c, state) == [state |-> state, identity |-> RowIdentity(c), key |-> KeyOf(c)]

\* What a result was really made from and by, whatever its labels say.
Made(provider, model, revision, c) ==
  [provider |-> provider, model |-> model, revision |-> revision,
   png |-> figure[c].png, prompt |-> under[c].prompt,
   preprocess |-> under[c].preprocess, contract |-> under[c].contract,
   doc |-> ask[c].doc]

\* What the release of call c stands for.
Wanted(c) == Made("modal", under[c].model, under[c].revision, c)

NoReply == [ok |-> FALSE, provider |-> "none", model |-> "none", revision |-> "none",
            names |-> "none", made |-> Nothing]

Leave(c, state, output) ==
  /\ pc' = [pc EXCEPT ![c] = "done"]
  /\ outcome' = [outcome EXCEPT ![c] = [state |-> state, output |-> output]]

----------------------------------------------------------------------------
(* A process of release r is asked for a and renders the region.  The      *)
(* document may not open and any page may fail to render; a page that was  *)
(* rendered may have nothing of the region.                                *)
Begin(c, a, r) ==
  /\ pc[c] = "new"
  /\ ask' = [ask EXCEPT ![c] = a]
  /\ under' = [under EXCEPT ![c] = r]
  /\ \/ Leave(c, "NOT_RENDERED", Nothing) /\ UNCHANGED figure
     \/ /\ Renders(a.page, r.dpi) /\ NothingLeft(a.box, a.page, r.dpi, r.padding)
        /\ Leave(c, "REGION_EMPTY", Nothing) /\ UNCHANGED figure
     \/ /\ Renders(a.page, r.dpi) /\ ~NothingLeft(a.box, a.page, r.dpi, r.padding)
        /\ figure' = [figure EXCEPT ![c] = Rendered(a, r)]
        /\ pc' = [pc EXCEPT ![c] = "open"]
        /\ UNCHANGED outcome
  /\ UNCHANGED <<row, cache, reply>>

\* The row with this idempotency key, or else the live one for this work.
Existing(c) ==
  LET byKey == {d \in Calls : row[d] # NoRow /\ ask[d].key = ask[c].key}
  IN  IF byKey # {} THEN byKey
      ELSE {d \in Calls : row[d].state = "LIVE" /\ row[d].key = KeyOf(c)}

\* _open: a replay, a conflict, a cache hit, or a job for the provider.
Open(c) ==
  /\ pc[c] = "open"
  /\ \/ \E d \in Existing(c) :
          /\ IF row[d].identity # RowIdentity(c)
             THEN Leave(c, "CONFLICT", Nothing)
             ELSE Leave(c, row[d].state,
                        IF row[d].state = "COMPLETED" THEN Cached(KeyOf(c))
                        ELSE Nothing)
          /\ UNCHANGED row
     \/ /\ Existing(c) = {} /\ Stored(KeyOf(c)) # {}
        /\ row' = [row EXCEPT ![c] = RowOf(c, "COMPLETED")]
        /\ Leave(c, "COMPLETED", Cached(KeyOf(c)))
     \/ /\ Existing(c) = {} /\ Stored(KeyOf(c)) = {}
        /\ row' = [row EXCEPT ![c] = RowOf(c, "LIVE")]
        /\ pc' = [pc EXCEPT ![c] = "sent"]
        /\ UNCHANGED outcome
  /\ UNCHANGED <<ask, under, figure, cache, reply>>

----------------------------------------------------------------------------
(* The provider.                                                           *)

Answer(c, reply_) ==
  /\ reply' = [reply EXCEPT ![c] = reply_]
  /\ pc' = [pc EXCEPT ![c] = "answered"]
  /\ UNCHANGED <<ask, under, figure, row, cache, outcome>>

\* build_provider gives the mock the configured model id and a fixture that
\* names the document "mock"; the mock echoes the rest of the request.
MockAnswers(c) ==
  /\ pc[c] = "sent" /\ under[c].provider = "mock"
  /\ Answer(c, [ok |-> TRUE, provider |-> "mock", model |-> under[c].model,
                revision |-> under[c].revision, names |-> "mock",
                made |-> Made("mock", "none", "none", c)])

\* A worker of build b answers.  It refuses another revision than its own,
\* and _to_success another model than the configured one.
WorkerAnswers(c, b) ==
  /\ pc[c] = "sent" /\ under[c].provider = "modal"
  /\ Answer(c, [ok |-> b.revision = under[c].revision /\ b.model = under[c].model,
                provider |-> "modal", model |-> b.model,
                revision |-> b.revision, names |-> ask[c].doc,
                made |-> Made("modal", b.model, b.revision, c)])

ProviderFails(c) == pc[c] = "sent" /\ Answer(c, NoReply)

----------------------------------------------------------------------------
(* _settle.                                                                *)

MetadataMatches(c) ==
  LET m == reply[c]
  IN  /\ m.provider = under[c].provider
      /\ m.model = under[c].model /\ m.revision = under[c].revision

\* _metadata_matches and _provenance_matches; the other checks of _settle
\* are those of JobPipeline.
Accepted(c) ==
  reply[c].ok /\ MetadataMatches(c) /\ reply[c].names = ask[c].doc

Refuse(c) ==
  /\ pc[c] = "answered" /\ ~Accepted(c)
  /\ row' = [row EXCEPT ![c].state = "FAILED"]
  /\ Leave(c, "FAILED", Nothing)
  /\ UNCHANGED <<ask, under, figure, cache, reply>>

\* CacheRepository.put keeps the first result of a key.
Persist(c) ==
  /\ pc[c] = "answered" /\ Accepted(c)
  /\ cache' = IF Stored(KeyOf(c)) # {} THEN cache
              ELSE cache \cup {[key |-> KeyOf(c), result |-> reply[c].made]}
  /\ row' = [row EXCEPT ![c].state = "COMPLETED"]
  /\ Leave(c, "COMPLETED", reply[c].made)
  /\ UNCHANGED <<ask, under, figure, reply>>

----------------------------------------------------------------------------
Init ==
  /\ pc = [c \in Calls |-> "new"]
  /\ ask = [c \in Calls |-> Nothing]
  /\ under = [c \in Calls |-> Nothing]
  /\ figure = [c \in Calls |-> Nothing]
  /\ row = [c \in Calls |-> NoRow]
  /\ cache = {}
  /\ reply = [c \in Calls |-> NoReply]
  /\ outcome = [c \in Calls |-> [state |-> "NONE", output |-> Nothing]]

Terminating == (\A c \in Calls : pc[c] = "done") /\ UNCHANGED vars

Next ==
  \/ \E c \in Calls, a \in Requests, r \in Releases : Begin(c, a, r)
  \/ \E c \in Calls : Open(c) \/ MockAnswers(c) \/ ProviderFails(c)
                        \/ Refuse(c) \/ Persist(c)
  \/ \E c \in Calls, b \in Builds : WorkerAnswers(c, b)
  \/ Terminating

Spec == Init /\ [][Next]_vars

----------------------------------------------------------------------------
(* cache.py, render.py, controller.py _metadata_matches: a result is never *)
(* served for work it never did.  Whatever a call returns was made from    *)
(* the very pixels its own release renders, for its document, by the model *)
(* that release was configured with, under its prompt, preprocessing and   *)
(* contract, whichever releases and workers filled the cache before.  The  *)
(* key does not name the provider: a development process with the mock may *)
(* share the database, and none of its fixtures is ever an extraction.     *)
ServedAsAsked ==
  \A c \in Calls :
    pc[c] = "done" /\ outcome[c].output # Nothing => outcome[c].output = Wanted(c)

(* COMPLETED is never reported without the extraction: a replay under      *)
(* another release, whose key the stored result does not have, is refused  *)
(* as a different request.                                                 *)
CompletedIsAnswered ==
  \A c \in Calls :
    outcome[c].state = "COMPLETED" => outcome[c].output # Nothing

(* render.py _crop: a label just outside a box would be cut off, and a box *)
(* past the trim is clamped, never refused.  Whatever part of a region the *)
(* page has is in the picture, wherever its sides fall between two pixels, *)
(* however the floats and the ties to even go, and a region that meets its *)
(* page is never taken for an empty one.  Half a pixel of padding is what  *)
(* it takes.                                                               *)
RegionShown ==
  \A c \in Calls :
    LET a == ask[c]
        r == under[c]
    IN  pc[c] # "new" /\ a.box # WholePage
          /\ PaddingHolds(r.dpi, r.padding) /\ OnPage(a.box, a.page)
        => /\ outcome[c].state # "REGION_EMPTY"
           /\ figure[c] # Nothing =>
                Shows(figure[c].png.pixels, a.box, a.page, r.dpi)

=============================================================================
