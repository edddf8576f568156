----------------------------- MODULE JobPipeline -----------------------------
(***************************************************************************)
(* JobController.run (georeport3d/services/controller.py) over the rows of *)
(* inference_jobs, usage_records and inference_cache, as any number of     *)
(* concurrent calls in any number of processes execute it.                 *)
(*                                                                         *)
(* Each call is one invocation of run and owns at most one job row, so a   *)
(* retry is another call with the same idempotency key.  The transaction   *)
(* opened by _open is modelled statement by statement, because PostgreSQL  *)
(* runs it at READ COMMITTED and other transactions commit between its     *)
(* statements: draft[c] is the row call c has written and not committed.   *)
(* The later transactions (_advance, _settle, _reconcile_failure) touch    *)
(* the one row of their call and read nothing else, so each is one step.   *)
(* The provider call lies between transactions and is a step of its own.   *)
(***************************************************************************)
EXTENDS JobState, Money

CONSTANTS
  Calls,            \* invocations of JobController.run
  Request,          \* what each call asks for, with its key and its estimate
  Documents,        \* document ids
  Sha,              \* the content hash of each document
  GlobalUsd, HardStopUsd, JobCapUsd, ConfirmAboveUsd,   \* policy.budget
  MaxSlots,         \* policy.limits.max_concurrent_gpu_jobs
  Failures,         \* how extract_batch may fail to return one result
  Results,          \* the results a provider may return
  MaxActual,        \* bound: the dearest measured run
  CrashProne,       \* the calls whose process may die
  NoCall, NoDocument

ASSUME RequestAssumption ==
  /\ IsFiniteSet(Calls)
  /\ NoCall \notin Calls
  /\ \A c \in Calls : /\ Request[c].doc \in Documents
                      /\ Request[c].estimate \in Nat
                      /\ Request[c].confirmed \in BOOLEAN

ASSUME ProviderAssumption == MaxActual \in Nat

ASSUME PolicyAssumption ==
  /\ GlobalUsd \in Nat /\ HardStopUsd \in Nat
  /\ JobCapUsd \in Nat /\ ConfirmAboveUsd \in Nat
  /\ MaxSlots \in Nat

Key(c) == Request[c].key
Doc(c) == Request[c].doc
Estimate(c) == Request[c].estimate

\* min(global_usd, hard_stop_usd): what admission measures against.
CeilingUsd == Lesser(GlobalUsd, HardStopUsd)

\* make_cache_key: identical content under one identity is identical work.
\* Model, prompt and preprocessing versions are the same for every call of a
\* deployment and are left out.
Work(c) == <<Sha[Doc(c)], Request[c].figure>>
Works == {Work(c) : c \in Calls}

Row(s, usd, e) == [state |-> s, reserved |-> usd, error |-> e]
NoRow == Row("ABSENT", 0, "")

\* A provider result as the checks of _settle see it; cites is the document
\* the extraction and every citation in it name.
NoResult == [ok |-> FALSE, metadata |-> FALSE, schema |-> FALSE,
             cites |-> NoDocument, domain |-> FALSE]

Reply(usd, code, result) == [usd |-> usd, code |-> code, result |-> result]
NoReply == Reply(0, "", NoResult)

Outcome(s, out, e) == [state |-> s, output |-> out, error |-> e]
NoOutcome == Outcome("", NoResult, "")

VARIABLES
  job,      \* the committed row of each call, NoRow while there is none
  draft,    \* the row its open transaction would commit
  usage,    \* usage_records: how many rows, and their sum
  cache,    \* inference_cache: the result stored for each work
  lock,     \* holder of the admission advisory lock
  pc,       \* the statement each call is at
  seen,     \* the reserved total a call read before the settled total
  reply,    \* what the provider call gave back
  outcome   \* what run returned or raised

tables == <<job, usage, cache>>
vars == <<job, draft, usage, cache, lock, pc, seen, reply, outcome>>

Live(c) == job[c].state \in LiveStates

----------------------------------------------------------------------------
(* The budget position, as the queries of BudgetRepository compute it.     *)

Held == [c \in Calls |-> IF Live(c) THEN job[c].reserved ELSE 0]
Spent == [c \in Calls |-> usage[c].usd]

ReservedUsd == Total(Held, Calls)
SettledUsd == Total(Spent, Calls)

SlotHolders == {c \in Calls : job[c].state \in GpuSlotStates}

----------------------------------------------------------------------------
(* Control of one call.                                                    *)

Go(c, label) == pc' = [pc EXCEPT ![c] = label]

\* run leaves with o, returned or raised; its local variables are gone.
Leave(c, o) ==
  /\ Go(c, "done")
  /\ outcome' = [outcome EXCEPT ![c] = o]
  /\ seen' = [seen EXCEPT ![c] = 0]
  /\ reply' = [reply EXCEPT ![c] = NoReply]

Raise(c, exception) == Leave(c, Outcome("RAISED", NoResult, exception))

\* A statement of the open transaction that writes nothing.
Proceed(c, label) ==
  /\ Go(c, label)
  /\ UNCHANGED <<tables, draft, lock, seen, reply, outcome>>

\* The transaction's row gets its final form and only the COMMIT is left.
Decide(c, row) ==
  /\ draft' = [draft EXCEPT ![c] = row]
  /\ Go(c, "commit")
  /\ UNCHANGED <<tables, lock, seen, reply, outcome>>

\* The error codes of _refuse and of the checks in _settle.
RefusalCodes == {"JOB_CAP_EXCEEDED", "BUDGET_EXHAUSTED",
                 "GPU_CONCURRENCY_LIMIT", "CONFIRMATION_REQUIRED"}
ResultCodes == {"INFERENCE_FAILED", "RESULT_METADATA_MISMATCH",
                "SCHEMA_VALIDATION_FAILED", "DOCUMENT_PROVENANCE_MISMATCH",
                "DOMAIN_VALIDATION_FAILED"}

\* _refuse: a settled row that never held a reservation.
RefusalStateUnlisted ==   \* mutant: a state the machine does not know
  [e \in RefusalCodes |-> "REFUSED"]
RefusalState ==
  [e \in RefusalCodes |->
     IF e \in {"JOB_CAP_EXCEEDED", "BUDGET_EXHAUSTED"}
     THEN "BUDGET_EXCEEDED" ELSE "REJECTED"]

Refuse(c, e) == Decide(c, Row(RefusalState[e], 0, e))

----------------------------------------------------------------------------
(* InferenceJobRepository.create                                           *)

\* The INSERT waits for another transaction whose uncommitted row would
\* collide with it on either unique index.
InsertMustWait(c) ==
  \E d \in Calls \ {c} : /\ draft[d] # NoRow
                         /\ Key(d) = Key(c) \/ Work(d) = Work(c)

\* mutant: no partial unique index over the live cache keys
CollidesOnKeyOnly(c) == \E d \in Calls : job[d] # NoRow /\ Key(d) = Key(c)
\* mutant: an idempotency key is free again once its job has settled
CollidesWhileLive(c) ==
  \E d \in Calls : Live(d) /\ (Key(d) = Key(c) \/ Work(d) = Work(c))

\* A committed row has the idempotency key, or is live and has the cache key.
InsertCollides(c) ==
  \E d \in Calls : \/ job[d] # NoRow /\ Key(d) = Key(c)
                   \/ Live(d) /\ Work(d) = Work(c)

Insert(c) ==
  /\ pc[c] = "insert" /\ ~InsertMustWait(c) /\ ~InsertCollides(c)
  /\ draft' = [draft EXCEPT ![c] = Row("CACHE_LOOKUP", 0, "")]
  /\ Go(c, "lookup")
  /\ UNCHANGED <<tables, lock, seen, reply, outcome>>

InsertDoesNothing(c) ==
  /\ pc[c] = "insert" /\ ~InsertMustWait(c) /\ InsertCollides(c)
  /\ Proceed(c, "findByKey")

\* _require_same_identity, and the replay of the persisted status.  A row
\* that is COMPLETED put its result into the cache in the same commit.
Resolve(c, d) ==
  /\ IF Doc(d) # Doc(c) \/ Work(d) # Work(c)
     THEN Raise(c, "IdempotencyConflict")
     ELSE Leave(c, Outcome(job[d].state,
                           IF job[d].state = "COMPLETED"
                           THEN cache[Work(c)] ELSE NoResult,
                           job[d].error))
  /\ UNCHANGED <<tables, draft, lock>>

\* get_by_idempotency_key, in a snapshot of its own.
FindByKey(c) ==
  /\ pc[c] = "findByKey"
  /\ LET found == {d \in Calls : job[d] # NoRow /\ Key(d) = Key(c)}
     IN  \/ \E d \in found : Resolve(c, d)
         \/ found = {} /\ Proceed(c, "findByWork")

\* live_by_cache_key, in another snapshot.
FindByWork(c) ==
  /\ pc[c] = "findByWork"
  /\ LET found == {d \in Calls : Live(d) /\ Work(d) = Work(c)}
     IN  \/ \E d \in found : Resolve(c, d)
         \/ /\ found = {}
            /\ Raise(c, "LookupError")
            /\ UNCHANGED <<tables, draft, lock>>

----------------------------------------------------------------------------
(* _open: the cache first, then confirmation, then admission.              *)

CacheHit(c) ==
  /\ pc[c] = "lookup" /\ cache[Work(c)] # NoResult
  /\ Decide(c, Row("COMPLETED", 0, ""))

NeedsConfirmation(c) ==
  ~Request[c].confirmed /\ Estimate(c) > ConfirmAboveUsd

CacheMiss(c) ==
  /\ pc[c] = "lookup" /\ cache[Work(c)] = NoResult
  /\ IF NeedsConfirmation(c) THEN Refuse(c, "CONFIRMATION_REQUIRED")
                             ELSE Proceed(c, "admit")

\* mutant: admission without the advisory lock
AdmitUnlocked(c) ==
  /\ pc[c] = "admit"
  /\ IF Estimate(c) > JobCapUsd THEN Refuse(c, "JOB_CAP_EXCEEDED")
                               ELSE Proceed(c, "readReserved")

\* pg_advisory_xact_lock, then the job cap.  The job read after the lock is
\* the transaction's own uncommitted row, which nobody else can have moved.
TakeAdmissionLock(c) ==
  /\ pc[c] = "admit" /\ lock = NoCall
  /\ lock' = c
  /\ IF Estimate(c) > JobCapUsd
     THEN /\ draft' = [draft EXCEPT ![c] = Row(RefusalState["JOB_CAP_EXCEEDED"],
                                               0, "JOB_CAP_EXCEEDED")]
          /\ Go(c, "commit")
     ELSE Go(c, "readReserved") /\ UNCHANGED draft
  /\ UNCHANGED <<tables, seen, reply, outcome>>

\* mutant: the settled sum is read before the reserved sum
PositionSettledFirst == <<SettledUsd, ReservedUsd>>

\* position() is two SELECTs in this order; jobs may settle between them.
Position == <<ReservedUsd, SettledUsd>>

ReadReserved(c) ==
  /\ pc[c] = "readReserved"
  /\ seen' = [seen EXCEPT ![c] = Position[1]]
  /\ Go(c, "readSettled")
  /\ UNCHANGED <<tables, draft, lock, reply, outcome>>

ReadSettled(c) ==
  /\ pc[c] = "readSettled"
  /\ IF seen[c] + Position[2] + Estimate(c) > CeilingUsd
     THEN Refuse(c, "BUDGET_EXHAUSTED")
     ELSE Proceed(c, "countSlots")

\* mutant: the limit may be passed by one
CountSlotsOneTooMany(c) ==
  /\ pc[c] = "countSlots"
  /\ IF Cardinality(SlotHolders) > MaxSlots
     THEN Refuse(c, "GPU_CONCURRENCY_LIMIT")
     ELSE Decide(c, Row("GPU_AUTHORIZED", Estimate(c), ""))

CountSlots(c) ==
  /\ pc[c] = "countSlots"
  /\ IF Cardinality(SlotHolders) >= MaxSlots
     THEN Refuse(c, "GPU_CONCURRENCY_LIMIT")
     ELSE Decide(c, Row("GPU_AUTHORIZED", Estimate(c), ""))

\* COMMIT publishes the row and releases the transaction's lock.
Commit(c) ==
  /\ pc[c] = "commit"
  /\ job' = [job EXCEPT ![c] = draft[c]]
  /\ draft' = [draft EXCEPT ![c] = NoRow]
  /\ lock' = IF lock = c THEN NoCall ELSE lock
  /\ IF draft[c].state = "GPU_AUTHORIZED"
     THEN Go(c, "start") /\ UNCHANGED <<seen, reply, outcome>>
     ELSE Leave(c, Outcome(draft[c].state,
                           IF draft[c].state = "COMPLETED"
                           THEN cache[Work(c)] ELSE NoResult,
                           draft[c].error))
  /\ UNCHANGED <<usage, cache>>

----------------------------------------------------------------------------
(* run after admission: _advance, the provider call, _settle.              *)

\* mutant: set_state, which asks nothing of the row it overwrites
AdvanceBlindly(c, current, target, label) ==
  /\ job' = [job EXCEPT ![c] = Row(target, @.reserved, "")]
  /\ Go(c, label)
  /\ UNCHANGED <<usage, cache, draft, lock, seen, reply, outcome>>

\* compare_and_set_state hit its row, or _advance raises StaleJobState.
Advance(c, current, target, label) ==
  \/ /\ job[c].state = current
     /\ job' = [job EXCEPT ![c] = Row(target, @.reserved, "")]
     /\ Go(c, label)
     /\ UNCHANGED <<usage, cache, draft, lock, seen, reply, outcome>>
  \/ /\ job[c].state # current
     /\ Raise(c, "StaleJobState")
     /\ UNCHANGED <<tables, draft, lock>>

Start(c) ==
  pc[c] = "start" /\ Advance(c, "GPU_AUTHORIZED", "GPU_RUNNING", "atProvider")

\* extract_batch raised, or returned other than one result; either way the
\* clock was read on both sides of the call.
ProviderFails(c) ==
  /\ pc[c] = "atProvider"
  /\ \E code \in Failures, usd \in 0..MaxActual :
       reply' = [reply EXCEPT ![c] = Reply(usd, code, NoResult)]
  /\ Go(c, "providerFailed")
  /\ UNCHANGED <<tables, draft, lock, seen, outcome>>

ProviderReturns(c) ==
  /\ pc[c] = "atProvider"
  /\ \E r \in Results, usd \in 0..MaxActual :
       reply' = [reply EXCEPT ![c] = Reply(usd, "", r)]
  /\ Go(c, "returned")
  /\ UNCHANGED <<tables, draft, lock, seen, outcome>>

BeginValidation(c) ==
  pc[c] = "returned" /\ Advance(c, "GPU_RUNNING", "VALIDATING", "validate")

\* mutant: the provenance check is dropped
RefusalUnlessCited(c, r) ==
  IF ~r.ok THEN "INFERENCE_FAILED"
  ELSE IF ~r.metadata THEN "RESULT_METADATA_MISMATCH"
  ELSE IF ~r.schema THEN "SCHEMA_VALIDATION_FAILED"
  ELSE IF ~r.domain THEN "DOMAIN_VALIDATION_FAILED"
  ELSE ""

\* The checks of _settle in their order; "" when all pass.
RefusalOf(c, r) ==
  IF ~r.ok THEN "INFERENCE_FAILED"
  ELSE IF ~r.metadata THEN "RESULT_METADATA_MISMATCH"
  ELSE IF ~r.schema THEN "SCHEMA_VALIDATION_FAILED"
  ELSE IF r.cites # Doc(c) THEN "DOCUMENT_PROVENANCE_MISMATCH"
  ELSE IF ~r.domain THEN "DOMAIN_VALIDATION_FAILED"
  ELSE ""

RecordUsage(c, usd) ==
  usage' = [usage EXCEPT ![c] = [rows |-> @.rows + 1, usd |-> @.usd + usd]]

\* mutant: the failed row keeps its reservation
ReconcileHoldingOn(c, current, code) ==
  /\ RecordUsage(c, reply[c].usd)
  /\ job' = IF job[c].state = current
            THEN [job EXCEPT ![c] = Row("FAILED", @.reserved, code)] ELSE job
  /\ Leave(c, Outcome("FAILED", NoResult, code))
  /\ UNCHANGED <<cache, draft, lock>>

\* _reconcile_failure: the spend and the release in one transaction.
ReconcileFailure(c, current, code) ==
  /\ RecordUsage(c, reply[c].usd)
  /\ job' = IF job[c].state = current
            THEN [job EXCEPT ![c] = Row("FAILED", 0, code)] ELSE job
  /\ Leave(c, Outcome("FAILED", NoResult, code))
  /\ UNCHANGED <<cache, draft, lock>>

\* mutant: only a call that returned is thought to have cost anything
FailFreeOfCharge(c) ==
  /\ pc[c] = "providerFailed"
  /\ job' = [job EXCEPT ![c] = Row("FAILED", 0, reply[c].code)]
  /\ Leave(c, Outcome("FAILED", NoResult, reply[c].code))
  /\ UNCHANGED <<usage, cache, draft, lock>>

ReconcileProviderFailure(c) ==
  /\ pc[c] = "providerFailed"
  /\ ReconcileFailure(c, "GPU_RUNNING", reply[c].code)

\* mutant: the row is expected where the provider failure would have left it
RefuseResultAsRunning(c) ==
  /\ pc[c] = "validate" /\ RefusalOf(c, reply[c].result) # ""
  /\ ReconcileFailure(c, "GPU_RUNNING", RefusalOf(c, reply[c].result))

RefuseResult(c) ==
  /\ pc[c] = "validate" /\ RefusalOf(c, reply[c].result) # ""
  /\ ReconcileFailure(c, "VALIDATING", RefusalOf(c, reply[c].result))

\* The settling transaction: a blind write to PERSISTING, the cache row if
\* there is none, the usage row, then COMPLETED.  The write makes the row
\* live whatever it was, so it collides with another live row of this work.
Persist(c) ==
  /\ pc[c] = "validate" /\ RefusalOf(c, reply[c].result) = ""
  /\ IF \E d \in Calls \ {c} : Live(d) /\ Work(d) = Work(c)
     THEN Raise(c, "IntegrityError") /\ UNCHANGED tables
     ELSE /\ cache' = [cache EXCEPT ![Work(c)] =
                         IF @ = NoResult THEN reply[c].result ELSE @]
          /\ RecordUsage(c, reply[c].usd)
          /\ job' = [job EXCEPT ![c] = Row("COMPLETED", 0, "")]
          /\ Leave(c, Outcome("COMPLETED", reply[c].result, ""))
  /\ UNCHANGED <<draft, lock>>

----------------------------------------------------------------------------
\* mutant: a session lock instead of a transaction lock outlives its holder
CrashKeepingLock(c) ==
  /\ c \in CrashProne /\ pc[c] \notin {"done", "crashed"}
  /\ draft' = [draft EXCEPT ![c] = NoRow]
  /\ Go(c, "crashed")
  /\ seen' = [seen EXCEPT ![c] = 0]
  /\ reply' = [reply EXCEPT ![c] = NoReply]
  /\ UNCHANGED <<tables, lock, outcome>>

(* The process of call c dies, or a statement raises out of run: the open  *)
(* transaction rolls back and its lock goes with it; rows stay.            *)
Crash(c) ==
  /\ c \in CrashProne /\ pc[c] \notin {"done", "crashed"}
  /\ draft' = [draft EXCEPT ![c] = NoRow]
  /\ lock' = IF lock = c THEN NoCall ELSE lock
  /\ Go(c, "crashed")
  /\ seen' = [seen EXCEPT ![c] = 0]
  /\ reply' = [reply EXCEPT ![c] = NoReply]
  /\ UNCHANGED <<tables, outcome>>

----------------------------------------------------------------------------
Init ==
  /\ job = [c \in Calls |-> NoRow]
  /\ draft = [c \in Calls |-> NoRow]
  /\ usage = [c \in Calls |-> [rows |-> 0, usd |-> 0]]
  /\ cache = [w \in Works |-> NoResult]
  /\ lock = NoCall
  /\ pc = [c \in Calls |-> "insert"]
  /\ seen = [c \in Calls |-> 0]
  /\ reply = [c \in Calls |-> NoReply]
  /\ outcome = [c \in Calls |-> NoOutcome]

OpenStep(c) ==
  \/ Insert(c) \/ InsertDoesNothing(c) \/ FindByKey(c) \/ FindByWork(c)
  \/ CacheHit(c) \/ CacheMiss(c)
  \/ TakeAdmissionLock(c) \/ ReadReserved(c) \/ ReadSettled(c) \/ CountSlots(c)
  \/ Commit(c)

RunStep(c) ==
  \/ Start(c) \/ ProviderFails(c) \/ ProviderReturns(c) \/ BeginValidation(c)
  \/ ReconcileProviderFailure(c) \/ RefuseResult(c) \/ Persist(c)

Step(c) == OpenStep(c) \/ RunStep(c)

AllLeft == \A c \in Calls : pc[c] \in {"done", "crashed"}
Terminating == AllLeft /\ UNCHANGED vars

Next == (\E c \in Calls : Step(c) \/ Crash(c)) \/ Terminating

Spec == Init /\ [][Next]_vars

\* A call that can take its next statement eventually does: the process is
\* scheduled, PostgreSQL queues lock waiters, and the provider call ends, at
\* the latest with policy.modal.timeout_seconds.
FairSpec == Spec /\ \A c \in Calls : WF_vars(Step(c))

----------------------------------------------------------------------------
(* Properties.                                                             *)

OpenLabels == {"insert", "findByKey", "findByWork", "lookup", "admit",
               "readReserved", "readSettled", "countSlots", "commit"}
RunLabels == {"start", "atProvider", "providerFailed", "returned", "validate"}

Errors == {""} \cup RefusalCodes \cup ResultCodes \cup Failures
Exceptions ==
  {"IdempotencyConflict", "LookupError", "StaleJobState", "IntegrityError"}
Labels == OpenLabels \cup RunLabels \cup {"done", "crashed"}

Rows == [state : States \cup {"ABSENT"}, reserved : Nat, error : Errors]
Replies == [usd : Nat, code : Errors, result : Results \cup {NoResult}]
Outcomes == [state : States \cup {"ABSENT", "RAISED", ""},
             output : Results \cup {NoResult}, error : Errors \cup Exceptions]

TypeOK ==
  /\ job \in [Calls -> Rows]
  /\ draft \in [Calls -> Rows]
  /\ usage \in [Calls -> [rows : Nat, usd : Nat]]
  /\ cache \in [Works -> Results \cup {NoResult}]
  /\ lock \in Calls \cup {NoCall}
  /\ pc \in [Calls -> Labels]
  /\ seen \in [Calls -> Nat]
  /\ reply \in [Calls -> Replies]
  /\ outcome \in [Calls -> Outcomes]

\* The part of each measured run that its admission had provided for.
Covered == [c \in Calls |-> Lesser(usage[c].usd, Estimate(c))]

(* No interleaving of admissions, provider runs and settlements takes the  *)
(* reservations and the spend they covered past the ceiling, although the  *)
(* two sums of position() are read at different moments.  Only measured    *)
(* time beyond a job's own estimate can exceed it.                         *)
WithinCeiling == ReservedUsd + Total(Covered, Calls) <= CeilingUsd

(* Never more provider calls in flight than max_concurrent_gpu_jobs.       *)
GpuSlotsBounded ==
  Cardinality({c \in Calls : pc[c] = "atProvider"}) <= MaxSlots

(* Identical work is never at two providers at once, and never runs again  *)
(* once its result is in the cache, whichever keys the requests carried:   *)
(* the index decides the insert, and the lookup follows it in the same     *)
(* transaction.                                                            *)
SpendsOncePerWork ==
  \A c \in Calls : pc[c] \in RunLabels =>
    /\ cache[Work(c)] = NoResult
    /\ \A d \in Calls \ {c} : Work(d) = Work(c) => pc[d] \notin RunLabels

(* An idempotency key pays for at most one run, however often, and however *)
(* early or late, the request is repeated.                                 *)
OneSpendPerKey ==
  \A c, d \in Calls : Key(c) = Key(d) /\ usage[c].rows > 0 =>
    (IF c = d THEN usage[c].rows = 1 ELSE usage[d].rows = 0)

\* How the row of call c counts against the budget.
ChargedAt(c) ==
  /\ Live(c) => job[c].reserved = Estimate(c) /\ usage[c].rows = 0
  /\ ~Live(c) => job[c].reserved = 0
  /\ job[c].state = "FAILED" => usage[c].rows = 1
  /\ job[c].state \in {"ABSENT", "REJECTED", "BUDGET_EXCEEDED"}
       => usage[c].rows = 0
  /\ usage[c].rows = 0 => usage[c].usd = 0

(* A row is charged as its reservation or as its measured spend and never  *)
(* as both or neither: it holds its estimate exactly while it is on the    *)
(* way through the provider, and has one usage row exactly once it has     *)
(* settled there.                                                          *)
ChargedOnce == \A c \in Calls : ChargedAt(c)

(* What run reports as COMPLETED or FAILED is what a committed row of that *)
(* key or that work says, with its error code, and a reported result is    *)
(* the one in the cache: a replay, a hit and the call that ran the work    *)
(* cannot tell three different stories.                                    *)
ReportsWhatIsStored ==
  \A c \in Calls : outcome[c].state \in {"COMPLETED", "FAILED"} =>
    \E d \in Calls : /\ Key(d) = Key(c) \/ Work(d) = Work(c)
                     /\ job[d].state = outcome[c].state
                     /\ job[d].error = outcome[c].error
                     /\ outcome[c].state = "COMPLETED" =>
                          outcome[c].output = cache[Work(c)]

(* Once the provider was invoked, no call leaves without a usage row of    *)
(* its own: a failure, a refused result and a crash-free success alike     *)
(* (the plan of 2026-08-31, line 19: every path after invocation).         *)
SpendIsRecorded ==
  [][\A c \in Calls :
       pc[c] \in {"returned", "providerFailed", "validate"} /\ pc'[c] = "done"
         => usage'[c].rows = usage[c].rows + 1]_vars

\* What _settle may store for call c.
Trustworthy(c, r) ==
  r.ok /\ r.metadata /\ r.schema /\ r.cites = Doc(c) /\ r.domain

(* What the cache serves is well-formed, comes from the authorized model,  *)
(* cites a document with that content, and was paid for by a job that is   *)
(* COMPLETED.                                                              *)
CachedIsValidated ==
  \A w \in Works : cache[w] # NoResult =>
    \E c \in Calls : /\ Work(c) = w /\ Trustworthy(c, cache[w])
                     /\ job[c].state = "COMPLETED" /\ usage[c].rows = 1

(* Every call returns or raises: no call waits forever for an insert, for  *)
(* the admission lock, or for a call that died holding either.             *)
EveryCallLeaves == \A c \in Calls : <>(pc[c] \in {"done", "crashed"})

(* A reservation whose process lives is settled in the end.                *)
ReservationsSettle ==
  \A c \in Calls : Live(c) ~> (~Live(c) \/ pc[c] = "crashed")

(* Admission across processes behaves like one that checks and reserves in *)
(* a single step.                                                          *)
Authority == INSTANCE BudgetAuthority WITH
  Owners <- Calls,
  Quote <- [c \in Calls |-> Estimate(c)],
  Ceiling <- CeilingUsd,
  SlotLimit <- MaxSlots,
  hold <- Held,
  charged <- Covered,
  slots <- SlotHolders

ImplementsAuthority == Authority!AuthoritySpec

----------------------------------------------------------------------------
(* The inductive invariant, in the parts the proofs need.                  *)

NoUsage == [rows |-> 0, usd |-> 0]
LockedLabels == {"readReserved", "readSettled", "countSlots"}

\* The COMMIT that call c is at will publish an authorization.
Authorizing(c) == pc[c] = "commit" /\ draft[c].state = "GPU_AUTHORIZED"

\* Where the row of call c stands, given the statement c is at.
PlacedAt(c) ==
  /\ pc[c] \in OpenLabels => job[c] = NoRow /\ usage[c] = NoUsage
  /\ pc[c] \in OpenLabels \ {"insert", "findByKey", "findByWork"}
       <=> draft[c] # NoRow
  /\ pc[c] = "commit" =>
       \/ draft[c].state = "GPU_AUTHORIZED" /\ draft[c].reserved = Estimate(c)
       \/ /\ draft[c].state \in {"COMPLETED", "REJECTED", "BUDGET_EXCEEDED"}
          /\ draft[c].reserved = 0
  /\ pc[c] = "start" => job[c].state = "GPU_AUTHORIZED"
  /\ pc[c] \in {"atProvider", "providerFailed", "returned"}
       => job[c].state = "GPU_RUNNING"
  /\ pc[c] = "validate" => job[c].state = "VALIDATING"
Placed == \A c \in Calls : PlacedAt(c)

\* A call claims its work from its insert until its row is settled.
Claims(c) == Live(c) \/ draft[c] # NoRow

\* One claim for each work, and none survives the lookup of a stored result.
SingleFlight ==
  \A c, d \in Calls : c # d /\ Work(c) = Work(d) => ~(Claims(c) /\ Claims(d))
Fresh ==
  \A c \in Calls :
    pc[c] \in {"admit"} \cup LockedLabels \cup RunLabels \/ Authorizing(c)
      => cache[Work(c)] = NoResult

\* Whoever is between the lock and its commit holds the lock.
LockHeld ==
  \A c \in Calls : pc[c] \in LockedLabels \/ Authorizing(c) => lock = c

CommittedUsd == ReservedUsd + Total(Covered, Calls)

\* What an admission has already established stays true until it commits,
\* because others can only settle: a settlement returns at least what it
\* adds to the covered spend.
Afforded ==
  \A c \in Calls :
    /\ pc[c] = "readSettled" => ReservedUsd <= seen[c]
    /\ pc[c] = "countSlots" \/ Authorizing(c)
         => CommittedUsd + Estimate(c) <= CeilingUsd
    /\ Authorizing(c) => Cardinality(SlotHolders) < MaxSlots

SlotsWithinLimit == Cardinality(SlotHolders) <= MaxSlots

PipelineInv ==
  /\ TypeOK /\ Placed /\ ChargedOnce
  /\ SingleFlight /\ Fresh
  /\ LockHeld /\ Afforded /\ WithinCeiling /\ SlotsWithinLimit

----------------------------------------------------------------------------
(* What comments and docs of the repository say and the code does not do.  *)

(* docs/10: never return a successful extraction if the required           *)
(* provenance validation fails.  The result of a call names its document.  *)
ReturnedForItsDocument ==
  \A c \in Calls : outcome[c].state = "COMPLETED" =>
    outcome[c].output.cites = Doc(c)

(* create: a job is gone between its insert and its lookup only when rows  *)
(* are being deleted.  Nothing deletes rows here.                          *)
JobsNeverVanish == \A c \in Calls : outcome[c].error # "LookupError"

=============================================================================
