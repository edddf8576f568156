# Formal model of GeoReport3D

TLA+ models of the parts of this repository where something can really go wrong
in an order nobody wrote a test for: the inference job pipeline with its budget,
jobs abandoned and documents deleted under it, results cached across releases,
the upload of documents, the recovery of scanned pages, the remote GPU batch,
the persistence of observations, and the paid evaluations. TLC checks every
model on small instances; TLAPS proves every safety property of the passing runs
for any number of calls, amounts, policies, releases, files, pages and readings.

Paths below are relative to the repository (`georeport3d/...`, `apps/...`,
`document/...`, `deployment/...`); `PROJECT.json` maps every definition of a
module to the lines it models.

## 1. The system

GeoReport3D turns geotechnical reports (PDF, DOCX) into structured borehole and
section data. A report is uploaded into a project, parsed into pages and
figures, and selected figures are sent to a vision-language model on a rented
GPU. The GPU costs money, so each extraction is a *job* with an idempotency key,
a budget reservation, a state machine and a usage record.

```
 client --POST documents--> upload API ---> document store (one directory)
                               |                |
                               v                v  (bytes)
                           PostgreSQL       parse -> inventory of regions
                          projects                     |
                          documents                    v  (request, figure)
                          inference_jobs  <----   JobController.run
                          usage_records             |  admission, cache
                          inference_cache           v
                                              ModalInferenceProvider
                                                    |  one remote call
                                                    v
                                              QwenWorker container
                                                    |  one vLLM process
```

### 1.1 Components

| component | state it keeps | operations | correct when |
|---|---|---|---|
| Job controller (`services/controller.py`, `job_state.py`, `cache.py`) | nothing between calls: all state is in rows | `run` = `_open` (insert, cache lookup, confirmation, admission), `_advance`, provider call, `_settle`, `_reconcile_failure` | one spend per key and per work; every provider run charged once; what is reported is what is stored |
| Budget admission (`BudgetRepository`) | the sums over `inference_jobs.reserved_usd` and `usage_records.actual_usd` | `admit_and_reserve`, `position` | reservations plus the spend they cover stay under the ceiling; slots stay within the limit |
| Tables (`db/models.py`, `db/repositories.py`) | `inference_jobs`, `usage_records`, `inference_cache`, `projects`, `documents` | `create`, `compare_and_set_state`, `set_state`, `record`, `put`, `add` | unique indexes decide races; conflicts resolve to a row that exists |
| Upload API (`apps/api/app/main.py`) | none | `POST /projects/{id}/documents` | rows and files stay in step; equal bytes are one document |
| Document store (`storage/local.py`) | entries of one directory, temporary entries | `save_stream`, `path_for`, `delete` | one entry per id, published whole or not at all |
| Parsing and inventory (`document/docling_adapter.py`, `inventory.py`) | a `ParsedDocument` while `parse` runs | `parse`, `merge_ocr_text`, `add_page_fallbacks`, `build_inventory`, `evidence_for` | no region is lost or moved, a citation names a page the source has |
| Modal worker and provider (`deployment/modal_worker.py`, `inference/modal_provider.py`) | per container: a vLLM child process, the batch it works on | `start`, `stop`, `extract_batch`, `_to_result` | results belong to their requests, no child left behind |
| In-memory ledger (`services/budget.py`) | reservations and spend in one process, under a lock | `authorize`, `record`, `release` | the same promise as admission, within a process |
| Observation persistence (`ObservationRepository`) | `boreholes`, `borehole_intervals`, `evidence` and their links | `persist_extraction` | an extraction is stored whole or not at all; a row says what the evidence under it says |
| Region rendering (`document/render.py`) | none | `render_region`, `digest_for` | the picture holds the whole region; the digest tells apart what the model saw |
| Configuration and identity (`config.py`, `model_identity.py`, `extraction_identity.py`) | the settings and constants of one release of a process | read once at start | what is served was made under the identity it is asked for |
| Mock provider (`inference/mock.py`, `build_provider`) | one fixture | `extract_batch` | its fixture never becomes an extraction of a document |
| Evaluation (`georeport3d/evaluation/*`) | raw artifacts in a results Volume | `contains_phrase`, `score_diagnostic_tokens`, `verify_dataset_hash`, `write_raw_cloud_result` | recall counts what the sheet says; an artifact is never replaced |
| Probes and benchmarks (`deployment/qwen_vision_probe.py`, `ocr_comparison.py`, ...) | nothing between runs | `main`, `read_sheets`, `run_docling`, `run_baidu` | a printed count has its artifact; success means every page was read |
| Migrations (`migrations/versions/*`) | the schema | `upgrade`, `downgrade` | settled spend restricts what a deletion may take |
| Classification, noise, terms (`document/classify.py` ...) | none | scoring of captions and page text | pure |
| Estimate, extraction contract and validation | none | products, checks | pure |

Prompts complete the list; `PROJECT.json` gives the status of every component.

### 1.2 How they interact

* The controller and admission share rows. `_open` is **one** transaction at
  READ COMMITTED: every statement sees what others committed since the last.
  Two unique indexes (the idempotency key; the cache key over live rows) make
  the INSERT wait or do nothing; `pg_advisory_xact_lock` makes admissions wait.
* The provider call lies between two transactions and may take fifteen minutes;
  nothing is locked meanwhile.
* The upload handler opens two transactions with file-system calls in between,
  so a project can be deleted, and another process can use the same directory,
  at any point.
* `parse` runs the converter twice and merges by page number; the inventory
  trusts the page numbers and the `has_source_pagination` flag it finds.
* Modal starts, feeds, kills and retires containers; the worker watches its
  child only once per item.
* API processes of several releases (and a development process with the mock)
  may share the database and its cache, and workers are redeployed separately:
  what ties a stored result to a request is its cache key, the columns of its
  row, and the metadata an answer carries.
* An evaluation is a local entry point and one or two cloud functions. Each
  function sees the results Volume as it was when its container started.

### 1.3 What is hard

Interleaved transactions on the same rows (insert, lookup, admission,
settlement); a death between reservation and settlement; a late result for a row
that somebody else moved; identical work under different keys; numbers read at
different moments and compared together; exclusive file creation by independent
processes; a COMMIT whose acknowledgement is lost; page numbers that skip;
results that have to be matched to requests by position; a child process that
dies between a check and its use; a result that outlives the release that made
it; rounding at the edge of a picture; a file created exclusively in one of two
views of a volume. `PROJECT.json` lists each hazard at its line
with the properties that would catch it.

## 2. Modules

| module | models | lines of state |
|---|---|---|
| `JobState` | the state literal, terminal and slot states, `_TRANSITIONS` | none |
| `Money` | `sum(...)` as the cardinality of a set of coins, so that sums can be reasoned about by set algebra | none |
| `BudgetAuthority` | abstract promise: reserve, vacate, settle in single steps | `hold`, `charged`, `slots` |
| `JobPipeline` | `JobController.run` by any number of concurrent calls and processes; the repositories it uses | 9 variables |
| `OperatedPipeline` | the same beside somebody who abandons jobs with `compare_and_set_state` and deletes documents | the same and `deleted` |
| `RegionImage` | `render_region`, `_crop` and `digest_for`, with what floats may be off as a parameter | none |
| `ExtractionIdentity` | render, key, row, provider and cache of calls under many releases | 8 variables |
| `TokenMatching` | `evaluation/matching.py` on token sequences, beside a definition of what the score means | none |
| `EvaluationRun` | `modal run` of the vision probe and of the OCR comparison | 5 variables |
| `ProjectUpload` | `POST /projects/{id}/documents`, `LocalDocumentStore`, `DocumentRepository.add` | 9 variables |
| `DocumentRecovery` | `parse`, `to_parsed_document`, `merge_ocr_text`, `add_page_fallbacks`, `build_inventory` | 6 variables |
| `ObservationStore` | `persist_extraction` by concurrent sessions: look-up, insert, partial update, locks, checks, roll-back | 8 variables |
| `ModalBatch` | the provider's `extract_batch`, the worker's, and the life of containers | 7 variables |
| `MC...` | instances for TLC | constants only |
| `NumberTheorems` | lemmas on sums and on finite sets of numbers, for the proofs below | none |
| `JobPipelineTheorems` | proofs about `BudgetAuthority`, `JobPipeline` and `OperatedPipeline` | none |
| `ExtractionIdentityTheorems`, `ProjectUploadTheorems`, `DocumentRecoveryTheorems`, `ModalBatchTheorems`, `ObservationStoreTheorems`, `EvaluationRunTheorems` | proofs about the module they name | none |

### 2.1 JobPipeline

One call is one invocation of `run` and owns at most one job row, so a retry is
another call with the same key. `pc[c]` is the statement call `c` is at:

| label | code it stands before | actions |
|---|---|---|
| `insert` | `InferenceJobRepository.create`: `INSERT ... ON CONFLICT DO NOTHING` | `Insert`, `InsertDoesNothing` |
| `findByKey`, `findByWork` | `get_by_idempotency_key`, `live_by_cache_key`, then `_require_same_identity` | `FindByKey`, `FindByWork` |
| `lookup` | `CacheRepository.get`, `_complete_from_cache`, confirmation | `CacheHit`, `CacheMiss` |
| `admit` | the advisory lock, the job cap | `TakeAdmissionLock` |
| `readReserved`, `readSettled`, `countSlots` | the two SELECTs of `position`, the slot count, the compare-and-set | `ReadReserved`, `ReadSettled`, `CountSlots` |
| `commit` | COMMIT of `_open` | `Commit` |
| `start` | `_advance` to `GPU_RUNNING` | `Start` |
| `atProvider` | `extract_batch` | `ProviderFails`, `ProviderReturns` |
| `providerFailed` | `_reconcile_failure` | `ReconcileProviderFailure` |
| `returned`, `validate` | `_advance` to `VALIDATING`; `_settle` | `BeginValidation`, `RefuseResult`, `Persist` |

`job` holds committed rows, `draft[c]` the row an open transaction has written:
other transactions do not see it, but an INSERT that collides with it waits.
`usage` counts usage rows and their sum, `cache` is `inference_cache`, `lock`
the advisory lock, `seen[c]` the reserved total read before the settled one.
`Crash` is the death of the process (or an exception raised out of `run` by the
database): the transaction rolls back, the rows stay.

What is data is abstracted: a result is the verdict of each check of `_settle`
and the document it cites; an amount is a whole number of the smallest price
step (`Numeric(12, 6)` rounding is not modelled); the model, prompt and
preprocessing versions are those of one deployment and the same for all calls.

### 2.2 OperatedPipeline

No route of this commit cancels a job; docs/10 names one and the tests of the
controller play it by moving the row from outside. `Abandon` does what they do:
any move of the transition table to `CANCELLED`, `FAILED` or `TIMEOUT`, at any
time. `Delete` is the DELETE of a document or of its project as the foreign keys
have it since migration 0002: its jobs go with it in any state, a usage row
forbids it, an uncommitted job of it makes it wait, and the cache is no part of
it. The calls then meet a row that is gone: `InsertForNobody` and `LoseRow` are
the `IntegrityError` and `LookupError` that leave `run`.

### 2.3 ProjectUpload

One upload is one request. Each file-system call is a step, because other
workers share the root; each statement of the two transactions is a step. The
faults are a size or storage error, a refused statement or broken connection, a
COMMIT that takes effect and is not acknowledged, the death of the worker, an
entry that cannot be unlinked, and a project deleted by an operator. Uploads
refused on name or type touch nothing and are left out. Bytes are their hash.

### 2.4 DocumentRecovery

A report is what the converter may hand over: listed pages, pages with a size,
texts and regions with a page number or without. The module computes what the
code computes from it: pages in order, the synthetic page for what has no
provenance, sparse pages, one OCR span from the first sparse page to the last
(the reading of which may list any of its pages, or none), the merge by page
number, whole-page fallbacks and the candidates. Captions,
types, scores and boxes beyond "located, whole page, none" are left out.

### 2.5 ObservationStore

Every call is one unit of work. For each borehole it reports, it looks the row
up (`Select`), then inserts or updates it (`Insert`, `Update`) together with its
intervals and evidence. The object-relational mapper writes only the columns
whose new value differs from the one the session *loaded*, and always a computed
geometry (`Changed`); PostgreSQL makes a second writer of a row wait, applies its
columns to whatever is committed by then, and applies the table checks
(`Consistent`). Circles of waiting transactions are broken by failing one
statement (`Abort`). Facts - an interval or the evidence of a borehole - have
fresh ids and collide with nothing. `depth` stands for elevation, crs and
total_depth, which the code treats alike. The repository has no caller outside
the tests at this commit; it is modelled because extraction results are meant to
reach the database through it.

### 2.6 ModalBatch

Calls of the provider against containers that each own one vLLM process. A
container boots, becomes ready or fails to, takes one batch at a time, may lose
its server at any moment and may itself go down. A container that runs into the
execution or startup timeout (`Kill`) fails its call, since `retries = 0`. A
preempted or lost one (`Lose`) does not: `retries` is about failed inputs, and
Modal reschedules the input of a preempted container, so the batch waits again
and another container may start it from its first item; or the call fails. A
second kind of container runs *other code*: it answers what it likes, which is
what `_to_result` defends against. The client of the vLLM server repeats a failed
completion inside the library; `Complete` is the outcome of its last attempt.

### 2.7 RegionImage and ExtractionIdentity

Boxes, page sizes and padding are floats. Every double is an integer multiple of
2^-1074, so `RegionImage` keeps coordinates as integer `Unit`-ths of a point and
positions as `Unit`-ths of a pixel; the truncation of the near sides, the
half-even rounding of the far ones and the clamping of `_crop` are exact on them.
What the floats do get wrong, the sum with the padding and the product with
`dpi / 72`, is the constant operator `Scaled`, of which only `NearScaled` is
assumed: it is off by at most `Slack`, and that by at most half a pixel. The size
of a page's bitmap is the PDF library's. `render_region` may also fail at its two
boundaries, when the document does not open and when a page does not render
(`Begin`: `NOT_RENDERED`); that is told apart from a region refused as empty
(`NothingLeft`: `REGION_EMPTY`). `ExtractionIdentity`
is about *which* extraction answers *which* request. A call of `run` is taken by
a process of some release, a record of provider, model, revision, prompt,
preprocessing, contract and renderer; it renders its region, derives its key and
opens its job (`Open`: replay, conflict, hit or miss), is answered by the mock
or by a worker of some build (`MockAnswers`, `WorkerAnswers`), and settles
(`Accepted`, `Refuse`, `Persist`). Beside each result the model carries what it
was *really* made from, which no code sees. The transaction of `_open`, the
budget and crashes are those of `JobPipeline` and are one step or left out here.
No route composes the renderer with `run` at this commit; the design documents
do. A version label is believed: a release that changes its prompt and not its
`prompt_version` is outside the model.

### 2.8 TokenMatching and EvaluationRun

A text is the sequence of its tokens after normalization; a token is a word, a
number, or a word followed by digits. `Score` is the code's way (identifiers,
windows, keys); `Asked` and `Said` say what it should count, by the ways a thing
may be spelled. In `EvaluationRun` a call of an entry point looks its case up
(`Begin`) and calls one engine or two; each mounts the Volume and checks the
dataset (`Mount`), reads every page (`Read`; a page that raises is empty, and one
with punctuation alone is not, though it has no token),
creates its artifact (`Write`), commits it (`Commit`) and returns. It may fail
or time out anywhere (`Raise`), or be preempted, upon which Modal begins its
input again in a container with a new mount (`Restart`); either may happen after
its files reached the Volume. The caller prints the counts (`Report`) or fails
(`Abort`; the spawned engine is waited for only after the other returned).

## 3. What TLC checks

| run | question | size |
|---|---|---|
| `repeats` | a request, its retry under the same key, the same work under another key; failures, refused results and a crash | 3 calls, 2 keys, 1 crash-prone call, amounts 0..1 |
| `rivals` | four different jobs against ceiling 5, job cap 3, one slot; two fit together, one fits only after a settlement below its estimate, one fits no policy; measured runs up to 3, so also beyond their estimate | 4 calls, 1 crash-prone |
| `abandon` | somebody abandons jobs and deletes a document while calls run; a result that fails each check of `_settle` and one that passes; a crash of the call for the other document | 3 calls, 1 crash-prone, 536 thousand states |
| `identity` | an old release and four that each change one thing (contract, revision, resolution, provider), workers of two revisions; a box inside its page whose sides fall half-way between two pixels, one over the edge and one off it, a missing page, equal boxes on different drawings | 3 calls (symmetric), 5 releases, 7 requests, 1.40 million states |
| `evaluation` | two probes and a comparison under one run id; an altered dataset, a case that does not allow the pages, one without annotation; an identifier in two spellings, words inside words, a phrase at the end of its sheet | 3 calls, 4 cases, 3 readings, 1.94 million states |
| `uploads` | two copies of the same bytes under different suffixes and another report, three ids that collide, one with a legacy entry, one that cannot be unlinked, every fault | 3 uploads, 2 id attempts, 630 thousand states |
| `recovery` | every report of up to three items on up to three pages, PDF or DOCX, and every OCR reading of up to two texts that lists any pages of its span | 208 thousand states |
| `observations` | two extractions that report two boreholes in opposite orders, one that reports a borehole twice, first without coordinates, one with a foreign citation; one borehole stored already, with geometry; crashes anywhere | 4 calls, 3 408 states |
| `batch` | five batches: a good request beside one for the build before, a single malformed one, one over the limit, one with a missing schema, one without a request; one container of the deployed build, one of the build before, one of other code; timeouts and preemption anywhere | 305 thousand states |
| `vanish`, `twins`, `revival` | one statement each of a doc or comment that the code does not keep (section 6) | the instances above |

What the passing runs show:

* **`repeats`** - `OneSpendPerKey`, `SpendsOncePerWork`: however retries and
  twins of a request overlap, a key pays at most once and identical work is
  never at two providers and never runs again after its result is stored.
  `ChargedOnce`: each row is charged as its reservation or as its usage row,
  never as both or neither. `SpendIsRecorded`: no call leaves after the provider
  without its usage row. `ReportsWhatIsStored`, `CachedIsValidated`: a replay, a
  hit and the run itself tell one story, and what the cache serves passed every
  check and was paid for. `EveryCallLeaves`, `ReservationsSettle` (liveness):
  nobody waits for ever for an insert or the admission lock, and a reservation
  whose process lives is settled.
* **`rivals`** - `WithinCeiling`, `GpuSlotsBounded`: although `position` reads
  two sums at different moments while jobs settle, the order in which it reads
  them (reserved first) is the safe one; the mutant that swaps them breaks the
  ceiling. `ImplementsAuthority`: the statement-by-statement admission refines
  `BudgetAuthority`, which checks and reserves in one step.
* **`abandon`** - `AbandonedNeverStarts`: a job abandoned or deleted before its
  provider call never reaches a GPU. `CompletedHasResult`: COMPLETED always has
  a trustworthy result in the cache, also when the work ran twice because the
  first job was taken away. `SpendNeverForgotten`: nothing in any order lowers
  the spend that admission counts; with the cascade of the baseline schema a
  deletion does. `UnbilledOnlyIfTakenAway`: a run whose
  process lives leaves no usage row only if its job was abandoned or deleted.
* **`identity`** - `ServedAsAsked`: whichever releases and workers filled the
  cache before, a call gets what its own release would have made, from its own
  pixels, and no fixture of the mock. Without the contract version in the key it
  does not. `CompletedIsAnswered`: a replay under another release is refused
  rather than answered COMPLETED with nothing. `RegionShown`: wherever the sides of a region fall between two
  pixels, its picture has everything of it that the bitmap has, and a region that
  meets its page is never taken for an empty one, if the padding is half a pixel
  and what floats may be off. The mutant that truncates the far sides like the near
  ones cuts the region.
* **`evaluation`** - `PrintedIsKept`: a printed count has its committed artifact,
  which is the very reading under a run id of one's own. `RecallRecounts`: the
  counts are those of the definition of a match. `OldArtifactsStay`: an artifact
  is lost only to a container that started before it was committed; a later run
  with the same id fails.
* **`uploads`** - `OneEntryPerId`: `os.link` refuses only an equal *name*, so two
  suffixes could publish two entries of one id; the exclusive temporary file and
  the second look at the root prevent it. `RowHasItsFile`, `NoOrphanFiles`:
  rows and files stay in step through every fault, with the exceptions the
  properties name. `SameBytesSameDocument`,
  `EveryUploadAnswered`.
* **`recovery`** - `RegionsSurvive`, `TextStaysOnItsPage`,
  `EvidenceCitesTheSource`: also when the source skips page numbers, OCR skips
  pages or fails, or fills a drawing with text. The one exception is in the
  property: unplaced text of an OCR reading may become that of the page whose
  number the reading invented for it (`Invented`; section 6).
  `EmptySheetsOffered`: exactly the sheets on which the first conversion found
  nothing are offered whole.
* **`observations`** - `WholeOrNothing`: whatever conflict, deadlock or crash
  meets an extraction half-way, none of its rows stay, and no borehole changes
  without evidence. `UndisturbedRowAsReported`: unless somebody changed the row
  between look-up and write, it ends as reported in every column, geometry
  included. `GeometryIsLabelled`: racing partial updates never leave a geometry
  under another SRID (the table checks refuse them; without these the run
  fails). `EveryPersistEnds`.
* **`batch`** - `EachItemAnswered`: the i-th result answers the i-th request, and
  exactly the unacceptable items are refused, whatever else failed or died, and
  also when a container was lost with the batch half done and another started it
  over; `NoServerLeftBehind`, `TakenBatchesEnd`. That a result carries the
  requested identity is the acceptance test of `_to_result` itself; what it is
  good for is `ServedAsAsked` of `identity`.

Each of these properties is broken by a mutant of a modelled definition (a
dropped guard, a swapped order, a missing reset); the mutants stand beside the
definitions they mutate, marked `mutant:`.

### 3.1 Bounds

Three calls are what the collision rules need: two that share a key, and a third
that shares only the work. Four rivals contain two that fit, one that fits later
and one that never does. A crash of one call is enough, because a crashed call
does nothing any more and the others only see its row, its lock and its draft.
Three uploads contain a pair with equal content and an unrelated one, over fewer
free ids than uploads; two id attempts let the last one fail. Three items on
three pages give a region and a text on one page, a page between two sparse
ones, a skipped number, and an unplaced item beside placed ones. Three
calls under five releases contain one that fills the cache, one that is served
from it and one that replays a key. Three evaluations contain two that overlap
under one id and one that comes later.

In `identity` a coordinate is a quarter of a point and a position a quarter of a
pixel, and `Scaled` is off by up to one of them. At 72 dpi the padded far sides of
the inner box lie half-way above an odd pixel and half-way above an even one; at
200 dpi one of them is rounded down without a clamp; the other boxes are clamped
at both ends. Boxes, units and slack beyond that are the theorem's. Three containers of `batch` are one of the deployed
build, one of the build before, and one of other code; with preemption a batch
may visit all of them.

Whether these bounds are enough matters only for liveness: every invariant and
every action property of the passing runs is also a theorem (section 4), which
holds for any number of calls, uploads, pages, batches, boreholes and tokens.
For those the runs have another use: they show that the interesting cases are
reached, and that each property is broken by a plausible bug.

Every run checks for deadlock: modules whose processes end have an explicit step
that stutters once all of them have, and only then.

### 3.2 Fairness

* `JobPipeline`: weak fairness of each call's next statement. The process is
  scheduled; PostgreSQL queues lock waiters and wakes them; the provider call
  ends at the latest with `policy.modal.timeout_seconds`. The lock waits need no
  strong fairness in the instances checked because a holder never takes the lock
  again: each call admits once.
* `ProjectUpload`: weak fairness of each upload's ordinary step, none of faults.
* `ObservationStore`: weak fairness of each session's next statement, which
  includes PostgreSQL's failing one of a circle of waiters; none of crashes.
* `ModalBatch`: weak fairness of the work of a container that has a batch.
  Booting, killing and retiring containers is Modal's business: nothing is
  assumed about it, so nothing is claimed about a batch that no container takes.
* `OperatedPipeline`: as `JobPipeline`; `ExtractionIdentity` and `EvaluationRun`
  state safety only and assume no fairness.
* Nothing is assumed of crashes, operators, storage or database failures.

## 4. What TLAPS proves

Each theorem is stated for **every** value of the constants that satisfies the
named assumptions of its module; TLC evaluates these assumptions on every
instance.

| theorem | states |
|---|---|
| **`JobPipelineTheorems`**, of `JobPipeline` | |
| `TypeCorrect` | `TypeOK` |
| `NeverChargedTwice` | `ChargedOnce` |
| `WorkRunsOnce`, `KeyPaysOnce`, `SpendNeverLost` | `SpendsOncePerWork`, `OneSpendPerKey`, `SpendIsRecorded` |
| `ReportsAgree`, `CacheIsTrustworthy` | `ReportsWhatIsStored`, `CachedIsValidated` |
| `CeilingHolds`, `SlotsHold` | `WithinCeiling`, `GpuSlotsBounded` |
| `PipelineImplementsAuthority` | `ImplementsAuthority`, the refinement of `BudgetAuthority` |
| `AuthorityPromise` (of `BudgetAuthority`) | the abstract authority keeps `AuthorityKept` |
| **`JobPipelineTheorems`**, of `OperatedPipeline` | |
| `EndedJobsNeverStart`, `SpendIsKept` | `AbandonedNeverStarts`, `SpendNeverForgotten` |
| `CompletedIsBacked`, `UnbilledWasTakenAway` | `CompletedHasResult`, `UnbilledOnlyIfTakenAway` |
| **`ExtractionIdentityTheorems`** | |
| `AlwaysServedAsAsked`, `AlwaysAnswered`, `AlwaysShowsRegion` | `ServedAsAsked`, `CompletedIsAnswered`, `RegionShown` |
| **`ProjectUploadTheorems`** | |
| `IdsAreUnique`, `RowsHaveFiles` | `OneEntryPerId`, `RowHasItsFile` |
| `NoFileIsOrphaned`, `SameBytesAlike` | `NoOrphanFiles`, `SameBytesSameDocument` |
| **`DocumentRecoveryTheorems`** | |
| `NoRegionIsLost`, `TextsStay` | `RegionsSurvive`, `TextStaysOnItsPage` |
| `CitationsAreTrue`, `EmptySheetsAreOffered` | `EvidenceCitesTheSource`, `EmptySheetsOffered` |
| **`ObservationStoreTheorems`** | |
| `StoredWhole`, `GeometryKeepsItsLabel`, `WrittenAsReported` | `WholeOrNothing`, `GeometryIsLabelled`, `UndisturbedRowAsReported` |
| **`ModalBatchTheorems`** | |
| `ItemsAreAnswered`, `NoServerRemains` | `EachItemAnswered`, `NoServerLeftBehind` |
| **`EvaluationRunTheorems`** | |
| `PrintedCountsAreKept`, `ArtifactsStay`, `RecallIsTrue` | `PrintedIsKept`, `OldArtifactsStay`, `RecallRecounts` |

What is assumed, and why the code justifies it:

* `JobPipeline`, `OperatedPipeline`: `RequestAssumption` (finitely many calls;
  estimates are naturals), `ProviderAssumption`, `PolicyAssumption` and
  `DeletableAssumption`. Amounts are `Numeric` columns with checks, limits come
  from a validated policy.
* `ExtractionIdentity`: `RequestAssumption` (page sizes are positive, corners any
  number of units, and no document is called "mock": ids are UUIDs) and
  `ReleaseAssumption` (resolutions are integers, paddings are not negative).
  `UnitAssumption` and `FloatAssumption`: a sum of a coordinate and the padding,
  scaled to pixels, is off by at most `Slack`, and that by at most half a pixel.
  With a `Unit` of 2^1074 every double is a number of units; a page has some
  10^4 pixels, where the sum and the product of two doubles are off by less than
  10^-11 of one.
* `ProjectUpload`: `UploadAssumption`. A suffix is `.pdf` or `.docx`, since the
  route refuses others before it stores anything.
* `DocumentRecovery`: `RecoveryAssumption` says that a report is `Readable`: it
  lists finitely many pages and items and numbers them by integers.
  `ReadingAssumption` says the same of an OCR reading. Which pages of its span
  a reading lists is left open: `merge_ocr_text` is written for passes that skip
  some, and a test has one.
* `ObservationStore`: `ObservationAssumption` (an SRID is a positive integer, as
  `resolve_srid` returns it) and `EarlierAssumption` (the rows that are already
  there passed the table checks).
* `ModalBatch`: `BatchAssumption`. The replies of a container of another build
  are a list, of anything.
* `EvaluationRun`, `TokenMatching`: `EvaluationAssumption` (texts and phrases are
  sequences of tokens, a text without a character has no token, and no expected phrase is empty: `_match_key` raises on
  one) and `MatchingAssumption` (the sign for a missing part is no word).

### 4.1 The arguments

None of the properties is inductive. Each component has an inductive invariant
made of named parts, one per fact that a step relies on.

**The pipeline.** `PipelineInv` is built in layers, each proved on top of the
last:

1. `TypeOK`, `Placed`, `ChargedOnce` (`Accounted`). `Placed` ties the row of a
   call to the statement it is at. It is what makes the compare-and-sets of
   `_advance` succeed, and without it `ChargedOnce` is not inductive, since a
   provider failure settles only a row it finds in `GPU_RUNNING`.
2. `SingleFlight`, `Fresh` (`ClaimInv`). A call *claims* its work from its insert
   to its settlement, committed or not. Two claims never coexist, because the
   INSERT waits for an uncommitted claim and does nothing on a committed one;
   and a call that passed the cache lookup finds the cache still empty for its
   work, because only the claimant may fill it. Both are needed at once: the
   lookup follows the insert in the same transaction, and the order matters.
3. `BackedAt`, `ReportedAt`, `PaidFor` (`StoredInv`, on top of `ClaimInv`). A
   COMPLETED row has its result in the cache, a cached result has the COMPLETED,
   charged job that made it, and what a call is about to report or has reported
   is what such a row says. A reply read from a row stays true because a settled
   row belongs to a call that takes no step any more.
4. `LockHeld`, `Afforded`, `WithinCeiling`, `SlotsWithinLimit` (`BudgetInv`, on
   top of `ClaimInv`). Whoever is between the lock and its COMMIT holds the lock,
   so nobody else publishes a reservation; everybody else can only settle, and a
   settlement returns at least what it adds to the covered spend. Hence the
   reserved sum read first can only be too high, and what admission found
   affordable stays affordable until the COMMIT. The refinement follows: COMMIT
   is the abstract `Reserve`, a settlement `Settle`, and the rest stutters or
   vacates a slot.

Beside an operator most of this is false: a row need not be where its call left
it, and work may run twice. `OperatedInv` keeps what remains: a row is where the
statement of its call left it *or was taken away* (`ExpectedAt`), a COMPLETED row
is backed (`BackedAt`), and claims of the calls whose rows still live exclude each
other.

Sums are cardinalities of sets of coins (`Money`), so monotonicity and the
effect of one changed amount follow from the theorems on finite sets
(`NumberTheorems`) rather than from induction.

**Identity.** `ServedAsAsked` and `CompletedIsAnswered` rest on one observation:
*the key determines the result*. `KeyTells` gives, from the seven fields of a key
alone, the extraction a call with that key wants, so `IdentityInv` can say of the
cache that every row holds what its key tells (`CacheTrue`), of a row that it
carries the identity of its call and that its result is stored once it is
COMPLETED (`RowTrue`), of an answer that it is what was wanted unless it names
the mock's document (`ReplyTrue`), and of an outcome what the property says. None
of these parts is inductive alone: a replay is answered through the row, a hit
through the cache, a run through the answer. `RegionShown` needs no history. Its
work is along one axis, for any numbers: half a pixel of padding pays for the
rounding and the slack for the floats, so that the sides enclose the region as
far as there is a bitmap (`AxisShown`), and they do not cross if the region meets
the page (`SidesShown`).

**Uploads.** `UploadInv` follows an upload through its three owners. The
exclusive temporary entry owns the id until the file is published, and once the
upload has looked again nobody else has published that id (`ReservedAt`); hence
two entries of one id cannot both be linked (`OneEntry`). The file, of a known
origin (`KnownEntry`), then owns the id until the row is there or the clean-up is
done (`HeldAt`, `RowAt`, `LeftAt`). The unique constraint owns the content of a
project from the INSERT on (`OneRow`, `OnePending`, `PendingAt`), so what an
upload was told is a document with its content, and two uploads of the same
content were told the same (`ToldAt`, `ToldAlike`).

**Recovery.** `RecoveryInv` compares the document that `parse` works on with that
of the first conversion: it has the same pages in the same order, the same
regions until the fallbacks add whole pages, and texts on the pages they were
read from, or that the OCR reading invented for them. The properties then follow from what `to_parsed_document` makes of any
report. Its `sorted(...)`, `max` and `min` need facts about *every* finite set of
numbers; the induction they rest on is `LeastSubset` of `NumberTheorems`, taken
from the library's theorem that the strict subsets of a finite set are well
founded, so that no induction rule with an operator parameter is needed.

**Observations.** `StoreInv`: a session is at one of its reports and has staged
exactly the facts of the earlier ones (`PlacedAt`); what is committed of it is
all of its facts or none (`StoredAt`); an uncommitted version passed the table
checks and has its evidence staged beside it (`DraftAt`); a row a session loaded
or refers to does not vanish (`KnownAt`); a committed row is consistent and has
evidence, or is an earlier one (`RowAt`). `WrittenAsReported` adds a lemma on
partial updates: applied to the very version that was loaded, writing the columns
that differ yields the reported row, geometry included.

**Batches.** `BatchInv`: a batch is at one container at most, which is up, and a
container that is down has no process (`HeldAt`, `HeldOnce`); the outputs a
container has so far answer the first items of its batch in order (`OutputsAt`);
what the provider let through it vetted item by item (`VettedAt`); what this
worker returned is passed on and answers each item (`AnsweredAt`). A batch whose
container is lost starts again from nothing, so no part speaks of its history.

**Evaluations.** `RunInv`: a function that has written saw no artifact in its
mount, one that has returned has its artifact committed (`FunctionAt`, `KeptAt`),
and what is printed is the summary of readings that returned (`PrintedAt`). A
commit replaces only the artifact of the same id and engine, so under an id of
one's own it stays. `RecallIsTrue` adds pure matching: `contains_phrase` finds
exactly the phrases that occur in one of their spellings (`ContainsWhatOccurs`),
two phrases have one key exactly when they have the same spellings
(`KeysAreSpellings`), and the positions that are first of their key are as many
as the different spellings (`FirstsCount`).

TLC checked each inductive invariant on an instance before it was proved:
`PipelineInv` on those of `repeats` and `rivals`, `OperatedInv` on that of
`abandon`, `IdentityInv`, `UploadInv`, `RecoveryInv`, `StoreInv`, `BatchInv` and
`RunInv` on those of the run of their component.

### 4.2 What stays with TLC

Liveness, which the prover does not handle: `EveryCallLeaves`,
`ReservationsSettle`, `EveryUploadAnswered`, `EveryPersistEnds` and
`TakenBatchesEnd` are checked on their instances only. So are the three
disagreements of section 6, whose runs end in a counterexample.
The proofs treat `SumFunction` (the sum of the pages' counts) as an unknown
function: equal counts have equal sums, which is all `RecallIsTrue` needs.

## 5. Not modelled

* *In-memory ledger*: the controller stores it and never asks it, and the routes
  only read it; nothing outside tests reserves or records with it, so a model of
  it would say nothing of the system.
* *Classification, terms, noise, validation of intervals, workload estimate*:
  pure functions of one value. Their verdicts enter the models as free choices.
* *`POST /projects`, `POST /documents/upload`, the reading routes*: a single
  insert, a single store, reads.
* *Validators of settings, policy and dataset manifests*: they refuse a process
  or a case before anything starts.
* *`docling_bench`, `docling_ocr_probe`, the diagnostics of the vision probe*:
  they measure and print, and keep nothing.
* *The act of migrating*, and *prompts*, which are text.
* *Inside the models*: rounding of amounts to six decimals; the foreign key of a
  job on its document outside `OperatedPipeline`; rows written before the
  cache-key column existed; the deletion of a project or document
  under `persist_extraction`; box arithmetic and captions.

## 6. Where docs and code part

Each is a run whose counterexample is the behaviour of the code.

* **`vanish`** - `create` raises `LookupError` when the live job it collided with
  settles before `live_by_cache_key` looks. The comment says only concurrent
  deletion can do this. A request that arrives as identical work completes fails
  instead of being answered from the cache.
* **`twins`** - the cache key holds the content hash, so the same bytes in two
  projects share a result; the second call returns an extraction that names and
  cites the first document. docs/10 forbids returning a successful extraction
  whose provenance validation fails; on a hit it is not validated.
* **`revival`** - `_settle` opens with an unconditional write of `PERSISTING`; a
  job failed or timed out by somebody else during validation becomes COMPLETED.
  The plan of 2026-08-31 says a stale caller never revives a terminal state.

Observations made while modelling, not checked by a run:

* An OCR reading that skips the last page of its span gives its unplaced text the
  next free number (`docling_adapter.py:211`), which is that of a sparse page;
  `merge_ocr_text` goes by numbers, and the text becomes that of a page that may
  be cited. `document/base.py:90` says that a synthetic ordinal is never presented
  as a source page. `TextStaysOnItsPage` names it as its exception.
* Nothing sets `TIMEOUT` and nothing sweeps live rows, so a process that dies
  between admission and settlement (`controller.py:236`) strands its reservation,
  and in the first two states a GPU slot. `docs/07_COST_GOVERNANCE.md:58` says
  "Jobs must have a maximum wall-clock timeout." `ReservationsSettle` therefore
  speaks of calls that live.
* A job abandoned while its provider call runs loses its measured usage:
  `_advance` raises `StaleJobState` before any usage row is written
  (`controller.py:477`), and one whose document is deleted ends in `LookupError`
  or `IntegrityError`. The plan of 2026-08-31 has every path after the invocation
  record its seconds. `SpendIsRecorded` belongs to `JobPipeline`;
  `UnbilledOnlyIfTakenAway` is what is left of it beside an operator.
* One item without page provenance clears `has_source_pagination` of the whole
  document, and `parse` returns (`docling_adapter.py:440`) before OCR and
  fallbacks: a scanned report then offers none of its drawing sheets. The
  docstring at 282-288 excepts only the synthetic page itself.
* The failure of a job that somebody cancelled is billed, and `run` reports
  FAILED although the row says CANCELLED: the compare-and-set of
  `_reconcile_failure` finds nothing and its verdict is not looked at.
* Abandoning a `GPU_RUNNING` row frees its slot and reservation while the GPU
  still runs, so an operator can make the slot limit untrue of GPUs.
* Two requests for the same content in two projects at once end in
  `IdempotencyConflict` for the second, although neither reused a key
  (`repositories.py:66`).
* A COMMIT whose acknowledgement is lost makes the clean-up delete the file of a
  row that exists; an identical upload later is answered 200 for a document
  whose file is gone. `RowHasItsFile` names this exception.
* Two overlapping `persist_extraction` calls can leave a borehole row that no
  extraction reported: loaded with easting 1 and northing 1, one session writes
  easting 2, the other northing 2 and the geometry (1, 2); the row ends with
  (2, 2) and that geometry. Each writes only what differs from what it loaded,
  and no table check compares geometry with coordinates.
  `UndisturbedRowAsReported` names the overlap as its exception.
* Persisting an extraction twice doubles its intervals and evidence, and two
  first reports of a borehole at once fail one of them with `IntegrityError`,
  because the look-up and the INSERT are two statements.
* `persist_extraction` compares citations with `extraction.document_id`, not with
  its parameter `document_id`, under which it stores them.
* `RuntimeError("unable to allocate document id")` is not caught by the upload
  handler and becomes a 500.
* A container whose vLLM process died stays ready and answers each batch with
  failures until it is retired.
* `classify.py:61-64` says its `PREPROCESS_VERSION = "v3"` is part of the cache
  key; what enters the key is `Settings.preprocess_version`, `"v1"` by default.
  The constant may be bumped without retiring anything.
* The padding of a crop is not part of `digest_for`; two paddings are told apart
  by their pixels alone. That is enough for `ServedAsAsked`, since the pixels are
  all the model sees.
* A box that lies off its page by less than the padding is not refused: it
  yields a sliver of blank page, which the comment in `_crop` wants to avoid.
* The provider is no part of the cache key. What keeps the mock's answers out of
  a shared cache is only that its fixture names the document "mock".
* A page that the vision model answers with UNREADABLE counts as read, so the
  probe succeeds on sheets it could not read.
* The exclusive creation of an artifact is exclusive within one container's
  mount: two overlapping runs of one id both succeed and the later commit wins.
  The workflow gives every attempt an id of its own.
* `docs/19_PRE_DEPLOYMENT_READINESS.md:141` has the worker run without retries.
  `retries=0` covers failed inputs; the input of a preempted container is run
  again from its first item. What is billed is the time `run` waited, so both
  attempts are in the usage row, at the price of one.

## 7. Plan

Order: what moves money and state first, pure code last.

1. *(done)* `JobState`, `Money`, `BudgetAuthority`, `JobPipeline`,
   `OperatedPipeline`; runs and the theorems of section 4.
2. *(done)* `ProjectUpload`, `DocumentRecovery`, `ModalBatch`, checked.
3. *(done)* `ObservationStore`, checked.
4. *(done)* Deletion in `OperatedPipeline`; `RegionImage`, `ExtractionIdentity`
   and its theorems; `TokenMatching`, `EvaluationRun`.
5. Caption classification and interval checks as operators against reference
   definitions, should anything come to depend on them.
6. *(done)* Proofs: every invariant and action property of the passing runs.
7. Refinements worth stating and proving next: `ProjectUpload` against a store
   that publishes a row and its file in one step, `ModalBatch` against a provider
   that answers or fails a batch in one step, `ObservationStore` without overlap
   against a store that persists an extraction in one step.

## 8. Running it

```
tlasany JobPipeline.tla
tlc -workers 2 -config MCJobPipeline_repeats.cfg MCJobPipeline.tla
tlapm JobPipelineTheorems.tla
```

`evaluation` and `batch` are the longest runs (two minutes or so on two cores),
`JobPipelineTheorems` the longest proof (about two minutes).
`JobPipelineTheorems`, `DocumentRecoveryTheorems` and `EvaluationRunTheorems` use
`NumberTheorems`; the other proof modules stand alone.
