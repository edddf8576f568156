------------------------- MODULE JobPipelineTheorems -------------------------
(***************************************************************************)
(* What holds of the pipeline for any number of calls, documents and keys, *)
(* any estimates, any policy and any measured cost, and the inductive      *)
(* invariant it follows from, in layers: the types and how each row is     *)
(* charged (Accounted); the two unique indexes of inference_jobs, one row  *)
(* for each idempotency key and one live row for each piece of work        *)
(* (ClaimInv); the stored results and what run reports of them             *)
(* (StoredInv); admission with its lock, its two sums and its slots, which *)
(* implements BudgetAuthority (BudgetInv).  The last part is about the     *)
(* pipeline beside an operator who moves rows from outside and deletes     *)
(* documents (OperatedInv).                                                *)
(***************************************************************************)
EXTENDS OperatedPipeline, BudgetAuthority, NumberTheorems

----------------------------------------------------------------------------
(* The abstract authority keeps its promise for every set of owners, every *)
(* estimate, every ceiling and every number of slots.                      *)

\* What the code's configuration guarantees of the parameters.
Parameters ==
  /\ IsFiniteSet(Owners) /\ Quote \in [Owners -> Nat]
  /\ Ceiling \in Nat /\ SlotLimit \in Nat

AuthorityInv == AuthorityTypeOK /\ AuthorityKept

(* Nothing is held at the start.                                           *)
LEMMA AuthorityStarts ==
  ASSUME Parameters, AuthorityInit
  PROVE  AuthorityInv
<1>1. AuthorityTypeOK
  BY DEF AuthorityInit, AuthorityTypeOK
<1>2. Total(hold, Owners) = 0 /\ Total(charged, Owners) = 0
  BY TotalZero DEF AuthorityInit
<1>3. Cardinality(slots) = 0
  BY FS_EmptySet DEF AuthorityInit
<1> QED BY <1>1, <1>2, <1>3 DEF AuthorityInv, AuthorityKept, Committed, Parameters

(* A reservation is checked against everything it adds to.                 *)
LEMMA ReserveKeeps ==
  ASSUME Parameters, AuthorityInv, NEW o \in Owners, Reserve(o)
  PROVE  AuthorityInv'
<1> USE DEF Parameters, AuthorityInv, AuthorityTypeOK
<1>1. AuthorityTypeOK'
  BY DEF Reserve
<1>2. Total(hold', Owners) = Total(hold, Owners) + Quote[o]
  <2>1. \A p \in Owners \ {o} : hold'[p] = hold[p]
    BY DEF Reserve
  <2>2. hold[o] = 0 /\ hold'[o] = Quote[o]
    BY DEF Reserve
  <2>3. Total(hold', Owners) = Total(hold, Owners) - hold[o] + hold'[o]
    BY <1>1, <2>1, TotalUpdate
  <2>4. Total(hold, Owners) \in Nat
    BY TotalNat
  <2> QED BY <2>2, <2>3, <2>4
<1>3. Total(hold, Owners) \in Nat /\ Total(charged, Owners) \in Nat
  BY TotalNat
<1>4. Committed' <= Ceiling
  BY <1>2, <1>3 DEF Reserve, Committed
<1>5. Cardinality(slots') <= SlotLimit
  <2>1. IsFiniteSet(slots)
    BY FS_Subset
  <2>2. Cardinality(slots) \in Nat
    BY <2>1, FS_CardinalityType
  <2>3. slots' = slots \cup {o} /\ Cardinality(slots) < SlotLimit /\ o \notin slots
    BY DEF Reserve
  <2>4. Cardinality(slots \cup {o}) = Cardinality(slots) + 1
    BY <2>1, <2>3, FS_AddElement
  <2> QED BY <2>2, <2>3, <2>4
<1> QED BY <1>1, <1>4, <1>5 DEF AuthorityKept

(* A slot that is given back is one fewer.                                 *)
LEMMA FewerSlots ==
  ASSUME Parameters, AuthorityInv, NEW o \in Owners, slots' = slots \ {o}
  PROVE  Cardinality(slots') <= SlotLimit
<1>1. IsFiniteSet(slots)
  BY FS_Subset DEF Parameters, AuthorityInv, AuthorityTypeOK
<1>2. Cardinality(slots') <= Cardinality(slots)
  BY <1>1, FS_Subset
<1>3. Cardinality(slots) \in Nat /\ Cardinality(slots') \in Nat
  BY <1>1, FS_CardinalityType, FS_RemoveElement
<1> QED BY <1>2, <1>3 DEF Parameters, AuthorityInv, AuthorityKept

(* The charge of a settlement comes out of its own hold.                   *)
LEMMA SettleKeeps ==
  ASSUME Parameters, AuthorityInv, NEW o \in Owners, Settle(o)
  PROVE  AuthorityInv'
<1> USE DEF Parameters, AuthorityInv, AuthorityTypeOK
<1>1. PICK u \in 0..hold[o] : charged' = [charged EXCEPT ![o] = @ + u]
  BY DEF Settle
<1>2. u \in Nat /\ u <= hold[o] /\ hold[o] \in Nat /\ charged[o] \in Nat
  OBVIOUS
<1>3. AuthorityTypeOK'
  BY <1>1, <1>2 DEF Settle
<1>4. Total(hold', Owners) = Total(hold, Owners) - hold[o] + hold'[o]
  <2>1. \A p \in Owners \ {o} : hold'[p] = hold[p]
    BY DEF Settle
  <2> QED BY <1>3, <2>1, TotalUpdate
<1>5. Total(charged', Owners)
        = Total(charged, Owners) - charged[o] + charged'[o]
  <2>1. \A p \in Owners \ {o} : charged'[p] = charged[p]
    BY <1>1
  <2> QED BY <1>3, <2>1, TotalUpdate
<1>6. hold'[o] = 0 /\ charged'[o] = charged[o] + u
  BY <1>1, <1>2 DEF Settle
<1>7. Total(hold, Owners) \in Nat /\ Total(charged, Owners) \in Nat
  BY TotalNat
<1>8. Committed' <= Ceiling
  BY <1>2, <1>4, <1>5, <1>6, <1>7 DEF Committed, AuthorityKept
<1>9. Cardinality(slots') <= SlotLimit
  BY FewerSlots DEF Settle
<1> QED BY <1>3, <1>8, <1>9 DEF AuthorityKept

(* Vacating a slot moves no money.                                         *)
LEMMA VacateKeeps ==
  ASSUME Parameters, AuthorityInv, NEW o \in Owners, Vacate(o)
  PROVE  AuthorityInv'
<1>1. AuthorityTypeOK'
  BY DEF AuthorityInv, AuthorityTypeOK, Vacate
<1>2. Committed' <= Ceiling
  BY DEF AuthorityInv, AuthorityKept, Committed, Vacate
<1>3. Cardinality(slots') <= SlotLimit
  BY FewerSlots DEF Vacate
<1> QED BY <1>1, <1>2, <1>3 DEF AuthorityInv, AuthorityKept

(* Holds and covered charges never pass the ceiling and the slots never    *)
(* pass their limit: what any implementation of admit_and_reserve inherits.*)
THEOREM AuthorityPromise ==
  ASSUME Parameters
  PROVE  AuthoritySpec => []AuthorityKept
<1>1. AuthorityInit => AuthorityInv
  BY AuthorityStarts
<1>2. AuthorityInv /\ [AuthorityNext]_authorityVars => AuthorityInv'
  <2> SUFFICES ASSUME AuthorityInv, [AuthorityNext]_authorityVars
               PROVE  AuthorityInv'
    OBVIOUS
  <2>1. ASSUME NEW o \in Owners, Reserve(o) PROVE AuthorityInv'
    BY <2>1, ReserveKeeps
  <2>2. ASSUME NEW o \in Owners, Vacate(o) PROVE AuthorityInv'
    BY <2>2, VacateKeeps
  <2>3. ASSUME NEW o \in Owners, Settle(o) PROVE AuthorityInv'
    BY <2>3, SettleKeeps
  <2>4. CASE UNCHANGED authorityVars
    BY <2>4 DEF authorityVars, AuthorityInv, AuthorityTypeOK, AuthorityKept,
                Committed
  <2> QED BY <2>1, <2>2, <2>3, <2>4 DEF AuthorityNext
<1>3. AuthorityInv => AuthorityKept
  BY DEF AuthorityInv
<1> QED BY <1>1, <1>2, <1>3, PTL DEF AuthoritySpec

----------------------------------------------------------------------------
(* The sums are sums of amounts.                                           *)
LEMMA SumTypes ==
  ASSUME TypeOK
  PROVE  /\ Held \in [Calls -> Nat] /\ Spent \in [Calls -> Nat]
         /\ Covered \in [Calls -> Nat]
         /\ ReservedUsd \in Nat /\ SettledUsd \in Nat
         /\ Total(Covered, Calls) \in Nat
         /\ CeilingUsd \in Nat
<1>1. \A c \in Calls : /\ job[c].reserved \in Nat /\ usage[c].usd \in Nat
                       /\ Estimate(c) \in Nat
  BY RequestAssumption DEF TypeOK, Rows, Estimate
<1>2. /\ Held \in [Calls -> Nat] /\ Spent \in [Calls -> Nat]
      /\ Covered \in [Calls -> Nat]
  BY <1>1 DEF Held, Spent, Covered, Lesser
<1>3. CeilingUsd \in Nat
  BY PolicyAssumption DEF CeilingUsd, Lesser
<1> QED BY <1>2, <1>3, RequestAssumption, TotalNat DEF ReservedUsd, SettledUsd

(* Rows, replies and outcomes are built from their parts.                  *)
LEMMA RowType ==
  \A s \in States \cup {"ABSENT"}, n \in Nat, e \in Errors : Row(s, n, e) \in Rows
BY DEF Row, Rows

LEMMA ReplyType ==
  \A n \in Nat, e \in Errors, r \in Results \cup {NoResult} :
    Reply(n, e, r) \in Replies
BY DEF Reply, Replies

LEMMA OutcomeType ==
  \A s \in States \cup {"ABSENT", "RAISED", ""}, r \in Results \cup {NoResult},
     e \in Errors \cup Exceptions : Outcome(s, r, e) \in Outcomes
BY DEF Outcome, Outcomes

(* The fields of a well-typed row.                                         *)
LEMMA RowFields ==
  \A r \in Rows : /\ r.state \in States \cup {"ABSENT"} /\ r.reserved \in Nat
                  /\ r.error \in Errors
BY DEF Rows

LEMMA WorkType ==
  \A c \in Calls : Work(c) \in Works /\ Estimate(c) \in Nat
BY RequestAssumption DEF Works, Estimate

(* What is there before anything happened.                                 *)
LEMMA EmptyTypes ==
  NoRow \in Rows /\ NoReply \in Replies /\ NoOutcome \in Outcomes
<1>1. NoRow \in Rows
  BY RowType DEF NoRow, Errors
<1>2. NoReply \in Replies
  BY ReplyType DEF NoReply, Errors
<1>3. NoOutcome \in Outcomes
  BY OutcomeType DEF NoOutcome, Errors
<1> QED BY <1>1, <1>2, <1>3

----------------------------------------------------------------------------
(* Type correctness.                                                       *)
LEMMA InitTypeOK == Init => TypeOK
<1> SUFFICES ASSUME Init PROVE TypeOK
  OBVIOUS
<1>1. "insert" \in Labels
  BY DEF Labels, OpenLabels
<1> QED BY <1>1, EmptyTypes DEF Init, TypeOK

(* Leaving with a well-typed outcome keeps the local variables typed.      *)
LEMMA LeaveTypes ==
  ASSUME TypeOK, NEW c \in Calls, NEW o \in Outcomes, Leave(c, o)
  PROVE  /\ pc' \in [Calls -> Labels] /\ seen' \in [Calls -> Nat]
         /\ reply' \in [Calls -> Replies] /\ outcome' \in [Calls -> Outcomes]
<1>1. "done" \in Labels
  BY DEF Labels
<1> QED BY <1>1, EmptyTypes DEF Leave, Go, TypeOK

(* So does deciding on a row of the state machine.                         *)
LEMMA DecideTypes ==
  ASSUME TypeOK, NEW c \in Calls, NEW r \in Rows, Decide(c, r)
  PROVE  TypeOK'
<1>1. "commit" \in Labels
  BY DEF Labels, OpenLabels
<1> QED BY <1>1 DEF TypeOK, Decide, Go, tables

LEMMA ProceedTypes ==
  ASSUME TypeOK, NEW c \in Calls, NEW l \in Labels, Proceed(c, l)
  PROVE  TypeOK'
BY DEF TypeOK, Proceed, Go, tables

(* Every refusal code settles in a state of the machine.                   *)
LEMMA RefusalRow ==
  \A e \in DOMAIN RefusalState :
    /\ RefusalState[e] \in {"BUDGET_EXCEEDED", "REJECTED"}
    /\ Row(RefusalState[e], 0, e) \in Rows
<1>1. \A e \in DOMAIN RefusalState :
        RefusalState[e] \in {"BUDGET_EXCEEDED", "REJECTED"} /\ e \in Errors
  BY DEF RefusalState, Errors
<1>2. {"BUDGET_EXCEEDED", "REJECTED"} \subseteq States
  BY DEF States
<1> QED BY <1>1, <1>2, RowType

(* Raising and replaying leave with well-typed outcomes.                   *)
LEMMA RaiseTypes ==
  ASSUME TypeOK, NEW c \in Calls, NEW e \in Exceptions, Raise(c, e),
         UNCHANGED <<tables, draft, lock>>
  PROVE  TypeOK'
<1>1. Outcome("RAISED", NoResult, e) \in Outcomes
  BY OutcomeType
<1>2. Leave(c, Outcome("RAISED", NoResult, e))
  BY DEF Raise
<1> QED BY <1>1, <1>2, LeaveTypes DEF TypeOK, tables

LEMMA ResolveTypes ==
  ASSUME TypeOK, NEW c \in Calls, NEW d \in Calls, Resolve(c, d)
  PROVE  TypeOK'
<1> DEFINE out == IF job[d].state = "COMPLETED" THEN cache[Work(c)] ELSE NoResult
<1>1. CASE Doc(d) # Doc(c) \/ Work(d) # Work(c)
  BY <1>1, RaiseTypes DEF Resolve, Exceptions
<1>2. CASE ~(Doc(d) # Doc(c) \/ Work(d) # Work(c))
  <2>1. job[d] \in Rows /\ cache[Work(c)] \in Results \cup {NoResult}
    BY WorkType DEF TypeOK
  <2>2. out \in Results \cup {NoResult}
    BY <2>1
  <2>3. Outcome(job[d].state, out, job[d].error) \in Outcomes
    BY <2>1, <2>2, RowFields, OutcomeType
  <2>4. /\ Leave(c, Outcome(job[d].state, out, job[d].error))
        /\ UNCHANGED <<tables, draft, lock>>
    BY <1>2 DEF Resolve
  <2> QED BY <2>3, <2>4, LeaveTypes DEF TypeOK, tables
<1> QED BY <1>1, <1>2

(* _open keeps the types.                                                  *)
LEMMA OpenStepTypeOK ==
  ASSUME TypeOK, NEW c \in Calls, OpenStep(c)
  PROVE  TypeOK'
<1>1. /\ {"lookup", "findByKey", "findByWork", "admit", "readReserved",
           "readSettled", "countSlots", "commit", "start"} \subseteq Labels
      /\ {"CACHE_LOOKUP", "COMPLETED", "GPU_AUTHORIZED"} \subseteq States
      /\ "" \in Errors
      /\ RefusalCodes = DOMAIN RefusalState
  BY DEF Labels, OpenLabels, RunLabels, States, Errors, RefusalState
<1>2. CASE Insert(c)
  <2>1. Row("CACHE_LOOKUP", 0, "") \in Rows
    BY <1>1, RowType
  <2> QED BY <1>1, <1>2, <2>1 DEF Insert, TypeOK, Go, tables
<1>3. CASE InsertDoesNothing(c)
  BY <1>1, <1>3, ProceedTypes DEF InsertDoesNothing
<1>4. CASE FindByKey(c)
  BY <1>1, <1>4, ProceedTypes, ResolveTypes DEF FindByKey
<1>5. CASE FindByWork(c)
  BY <1>1, <1>5, RaiseTypes, ResolveTypes DEF FindByWork, Exceptions
<1>6. CASE CacheHit(c)
  <2>1. Row("COMPLETED", 0, "") \in Rows
    BY <1>1, RowType
  <2> QED BY <1>6, <2>1, DecideTypes DEF CacheHit
<1>7. ASSUME NEW e \in RefusalCodes, Refuse(c, e)
      PROVE  TypeOK'
  BY <1>1, <1>7, RefusalRow, DecideTypes DEF Refuse
<1>8. CASE CacheMiss(c)
  BY <1>1, <1>7, <1>8, ProceedTypes DEF CacheMiss, RefusalCodes
<1>9. CASE TakeAdmissionLock(c)
  <2>1. Row(RefusalState["JOB_CAP_EXCEEDED"], 0, "JOB_CAP_EXCEEDED") \in Rows
    BY <1>1, RefusalRow DEF RefusalCodes
  <2> QED BY <1>1, <1>9, <2>1 DEF TakeAdmissionLock, TypeOK, Go, tables
<1>10. CASE ReadReserved(c)
  BY <1>1, <1>10, SumTypes DEF ReadReserved, TypeOK, Position, Go, tables
<1>11. CASE ReadSettled(c)
  BY <1>1, <1>7, <1>11, ProceedTypes DEF ReadSettled, RefusalCodes
<1>12. CASE CountSlots(c)
  <2>1. Row("GPU_AUTHORIZED", Estimate(c), "") \in Rows
    BY <1>1, RowType, WorkType
  <2> QED BY <1>7, <1>12, <2>1, DecideTypes DEF CountSlots, RefusalCodes
<1>13. CASE Commit(c)
  <2> DEFINE out == IF draft[c].state = "COMPLETED" THEN cache[Work(c)] ELSE NoResult
  <2>1. draft[c] \in Rows /\ cache[Work(c)] \in Results \cup {NoResult}
    BY WorkType DEF TypeOK
  <2>2. Outcome(draft[c].state, out, draft[c].error) \in Outcomes
    BY <2>1, RowFields, OutcomeType
  <2>3. /\ job' \in [Calls -> Rows] /\ draft' \in [Calls -> Rows]
        /\ lock' \in Calls \cup {NoCall}
        /\ usage' = usage /\ cache' = cache
    BY <1>13, <2>1, EmptyTypes DEF Commit, TypeOK
  <2>4. CASE draft[c].state = "GPU_AUTHORIZED"
    BY <1>1, <1>13, <2>3, <2>4 DEF Commit, TypeOK, Go
  <2>5. CASE draft[c].state # "GPU_AUTHORIZED"
    <3>1. Leave(c, Outcome(draft[c].state, out, draft[c].error))
      BY <1>13, <2>5 DEF Commit
    <3> HIDE DEF out
    <3> QED BY <2>2, <2>3, <3>1, LeaveTypes DEF TypeOK
  <2> QED BY <2>4, <2>5
<1> QED BY <1>2, <1>3, <1>4, <1>5, <1>6, <1>8, <1>9, <1>10, <1>11, <1>12, <1>13
        DEF OpenStep

(* So do the steps after admission.                                        *)
LEMMA AdvanceTypes ==
  ASSUME TypeOK, NEW c \in Calls, NEW s, NEW t \in States, NEW l \in Labels,
         Advance(c, s, t, l)
  PROVE  TypeOK'
<1>1. CASE job[c].state = s
  <2>1. job[c] \in Rows /\ "" \in Errors
    BY DEF TypeOK, Errors
  <2>2. Row(t, job[c].reserved, "") \in Rows
    BY <2>1, RowType, RowFields
  <2> QED BY <1>1, <2>2 DEF Advance, TypeOK, Go
<1>2. CASE job[c].state # s
  BY <1>2, RaiseTypes DEF Advance, Exceptions
<1> QED BY <1>1, <1>2

LEMMA ReconcileTypes ==
  ASSUME TypeOK, NEW c \in Calls, NEW s, NEW e \in Errors,
         ReconcileFailure(c, s, e)
  PROVE  TypeOK'
<1>1. Row("FAILED", 0, e) \in Rows /\ Outcome("FAILED", NoResult, e) \in Outcomes
  BY RowType, OutcomeType DEF States
<1>2. usage' \in [Calls -> [rows : Nat, usd : Nat]]
  <2>1. reply[c] \in Replies /\ usage[c] \in [rows : Nat, usd : Nat]
    BY DEF TypeOK
  <2>2. [rows |-> usage[c].rows + 1, usd |-> usage[c].usd + reply[c].usd]
          \in [rows : Nat, usd : Nat]
    BY <2>1 DEF Replies
  <2> QED BY <2>2 DEF ReconcileFailure, RecordUsage, TypeOK
<1>3. job' \in [Calls -> Rows]
  BY <1>1 DEF ReconcileFailure, TypeOK
<1>4. Leave(c, Outcome("FAILED", NoResult, e)) /\ UNCHANGED <<cache, draft, lock>>
  BY DEF ReconcileFailure
<1> QED BY <1>1, <1>2, <1>3, <1>4, LeaveTypes DEF TypeOK

LEMMA RunStepTypeOK ==
  ASSUME TypeOK, NEW c \in Calls, RunStep(c)
  PROVE  TypeOK'
<1>1. /\ {"start", "atProvider", "providerFailed", "returned", "validate"}
            \subseteq Labels
      /\ {"GPU_RUNNING", "VALIDATING", "COMPLETED"} \subseteq States
      /\ "" \in Errors /\ Failures \subseteq Errors /\ ResultCodes \subseteq Errors
  BY DEF Labels, RunLabels, States, Errors
<1>2. reply[c] \in Replies /\ usage[c] \in [rows : Nat, usd : Nat]
  BY DEF TypeOK
<1>3. reply[c].usd \in Nat /\ reply[c].code \in Errors
      /\ reply[c].result \in Results \cup {NoResult}
  BY <1>2 DEF Replies
<1>4. CASE Start(c)
  BY <1>1, <1>4, AdvanceTypes DEF Start
<1>5. CASE BeginValidation(c)
  BY <1>1, <1>5, AdvanceTypes DEF BeginValidation
<1>6. CASE ProviderFails(c)
  <2>1. PICK code \in Failures, usd \in 0..MaxActual :
          reply' = [reply EXCEPT ![c] = Reply(usd, code, NoResult)]
    BY <1>6 DEF ProviderFails
  <2>2. Reply(usd, code, NoResult) \in Replies
    <3>1. usd \in Nat
      BY ProviderAssumption
    <3>2. code \in Errors
      BY <1>1
    <3> QED BY <3>1, <3>2, ReplyType
  <2> QED BY <1>1, <1>6, <2>1, <2>2 DEF ProviderFails, TypeOK, Go, tables
<1>7. CASE ProviderReturns(c)
  <2>1. PICK r \in Results, usd \in 0..MaxActual :
          reply' = [reply EXCEPT ![c] = Reply(usd, "", r)]
    BY <1>7 DEF ProviderReturns
  <2>2. Reply(usd, "", r) \in Replies
    <3>1. usd \in Nat
      BY ProviderAssumption
    <3>2. "" \in Errors /\ r \in Results \cup {NoResult}
      BY <1>1
    <3> QED BY <3>1, <3>2, ReplyType
  <2> QED BY <1>1, <1>7, <2>1, <2>2 DEF ProviderReturns, TypeOK, Go, tables
<1>8. CASE ReconcileProviderFailure(c)
  BY <1>3, <1>8, ReconcileTypes DEF ReconcileProviderFailure
<1>9. CASE RefuseResult(c)
  <2>1. RefusalOf(c, reply[c].result) \in Errors
    BY <1>1 DEF RefusalOf, ResultCodes
  <2> QED BY <1>9, <2>1, ReconcileTypes DEF RefuseResult
<1>10. CASE Persist(c)
  <2>1. CASE \E d \in Calls \ {c} : Live(d) /\ Work(d) = Work(c)
    BY <1>10, <2>1, RaiseTypes DEF Persist, Exceptions
  <2>2. CASE ~\E d \in Calls \ {c} : Live(d) /\ Work(d) = Work(c)
    <3>1. Row("COMPLETED", 0, "") \in Rows
      BY <1>1, RowType
    <3>2. Outcome("COMPLETED", reply[c].result, "") \in Outcomes
      BY <1>1, <1>3, OutcomeType
    <3>3. [rows |-> usage[c].rows + 1, usd |-> usage[c].usd + reply[c].usd]
            \in [rows : Nat, usd : Nat]
      BY <1>2, <1>3
    <3>4. usage' \in [Calls -> [rows : Nat, usd : Nat]]
      BY <1>10, <2>2, <3>3 DEF Persist, RecordUsage, TypeOK
    <3>5. cache' \in [Works -> Results \cup {NoResult}]
      BY <1>3, <1>10, <2>2 DEF Persist, TypeOK
    <3>6. job' \in [Calls -> Rows]
      BY <1>10, <2>2, <3>1 DEF Persist, TypeOK
    <3>7. /\ Leave(c, Outcome("COMPLETED", reply[c].result, ""))
          /\ UNCHANGED <<draft, lock>>
      BY <1>10, <2>2 DEF Persist
    <3> QED BY <3>2, <3>4, <3>5, <3>6, <3>7, LeaveTypes DEF TypeOK
  <2> QED BY <2>1, <2>2
<1> QED BY <1>4, <1>5, <1>6, <1>7, <1>8, <1>9, <1>10 DEF RunStep

LEMMA CrashTypeOK ==
  ASSUME TypeOK, NEW c \in Calls, Crash(c)
  PROVE  TypeOK'
<1>1. "crashed" \in Labels
  BY DEF Labels
<1> QED BY <1>1, EmptyTypes DEF Crash, TypeOK, Go, tables

LEMMA NextTypeOK == TypeOK /\ [Next]_vars => TypeOK'
<1> SUFFICES ASSUME TypeOK, [Next]_vars PROVE TypeOK'
  OBVIOUS
<1>1. CASE UNCHANGED vars
  BY <1>1 DEF vars, TypeOK
<1>2. CASE Terminating
  BY <1>2 DEF Terminating, vars, TypeOK
<1>3. ASSUME NEW c \in Calls, Step(c) \/ Crash(c) PROVE TypeOK'
  BY <1>3, OpenStepTypeOK, RunStepTypeOK, CrashTypeOK DEF Step
<1> QED BY <1>1, <1>2, <1>3 DEF Next

(* Every reachable row, reply and outcome is one of the kinds the code     *)
(* knows, whatever the policy and however calls interleave or die.         *)
THEOREM TypeCorrect == Spec => []TypeOK
BY InitTypeOK, NextTypeOK, PTL DEF Spec

----------------------------------------------------------------------------
(* A step of one call writes nothing of another call.                      *)
Untouched(d) ==
  /\ job'[d] = job[d] /\ draft'[d] = draft[d] /\ usage'[d] = usage[d]
  /\ pc'[d] = pc[d] /\ seen'[d] = seen[d] /\ outcome'[d] = outcome[d]

LEMMA OthersUntouched ==
  ASSUME TypeOK, NEW c \in Calls, Step(c) \/ Crash(c), NEW d \in Calls \ {c}
  PROVE  Untouched(d)
<1> USE DEF TypeOK, Untouched, Go, Leave, Raise, tables
<1>1. CASE Crash(c)
  BY <1>1 DEF Crash
<1>2. CASE Insert(c)
  BY <1>2 DEF Insert
<1>3. CASE InsertDoesNothing(c)
  BY <1>3 DEF InsertDoesNothing, Proceed
<1>4. CASE FindByKey(c)
  BY <1>4 DEF FindByKey, Proceed, Resolve
<1>5. CASE FindByWork(c)
  BY <1>5 DEF FindByWork, Resolve
<1>6. CASE CacheHit(c)
  BY <1>6 DEF CacheHit, Decide
<1>7. CASE CacheMiss(c)
  BY <1>7 DEF CacheMiss, Refuse, Decide, Proceed
<1>8. CASE TakeAdmissionLock(c)
  BY <1>8 DEF TakeAdmissionLock
<1>9. CASE ReadReserved(c)
  BY <1>9 DEF ReadReserved
<1>10. CASE ReadSettled(c)
  BY <1>10 DEF ReadSettled, Refuse, Decide, Proceed
<1>11. CASE CountSlots(c)
  BY <1>11 DEF CountSlots, Refuse, Decide
<1>12. CASE Commit(c)
  BY <1>12 DEF Commit
<1>13. CASE Start(c)
  BY <1>13 DEF Start, Advance
<1>14. CASE ProviderFails(c)
  BY <1>14 DEF ProviderFails
<1>15. CASE ProviderReturns(c)
  BY <1>15 DEF ProviderReturns
<1>16. CASE BeginValidation(c)
  BY <1>16 DEF BeginValidation, Advance
<1>17. CASE ReconcileProviderFailure(c)
  BY <1>17 DEF ReconcileProviderFailure, ReconcileFailure, RecordUsage
<1>18. CASE RefuseResult(c)
  BY <1>18 DEF RefuseResult, ReconcileFailure, RecordUsage
<1>19. CASE Persist(c)
  <2>1. /\ pc'[d] = pc[d] /\ seen'[d] = seen[d] /\ outcome'[d] = outcome[d]
        /\ draft' = draft
    BY <1>19 DEF Persist
  <2> HIDE DEF TypeOK, Untouched, Go, Leave, Raise
  <2>2. \/ UNCHANGED <<job, usage>>
        \/ /\ job' = [job EXCEPT ![c] = Row("COMPLETED", 0, "")]
           /\ RecordUsage(c, reply[c].usd)
    BY <1>19 DEF Persist
  <2>3. job'[d] = job[d]
    BY <2>2 DEF TypeOK
  <2>4. usage'[d] = usage[d]
    BY <2>2 DEF TypeOK, RecordUsage
  <2> QED BY <2>1, <2>3, <2>4 DEF Untouched
<1> HIDE DEF TypeOK, Untouched, Go, Leave, Raise, tables
<1> QED BY <1>1, <1>2, <1>3, <1>4, <1>5, <1>6, <1>7, <1>8, <1>9, <1>10, <1>11,
           <1>12, <1>13, <1>14, <1>15, <1>16, <1>17, <1>18, <1>19
        DEF Step, OpenStep, RunStep

----------------------------------------------------------------------------
(* Where the row of a call stands, and how it is charged.                  *)
AccountAt(c) == PlacedAt(c) /\ ChargedAt(c)
Accounted == \A c \in Calls : AccountAt(c)

LEMMA AccountedIs == Accounted <=> Placed /\ ChargedOnce
BY DEF Accounted, AccountAt, Placed, ChargedOnce

\* Which of the states the pipeline writes are live.
LEMMA LiveFacts ==
  /\ "GPU_AUTHORIZED" \in LiveStates /\ "GPU_RUNNING" \in LiveStates
  /\ "VALIDATING" \in LiveStates
  /\ "ABSENT" \notin LiveStates /\ "COMPLETED" \notin LiveStates
  /\ "REJECTED" \notin LiveStates /\ "BUDGET_EXCEEDED" \notin LiveStates
  /\ "FAILED" \notin LiveStates
BY DEF LiveStates, TerminalStates, States

LEMMA RowFacts ==
  /\ \A s, n, e : Row(s, n, e).state = s /\ Row(s, n, e).reserved = n
  /\ NoRow.state = "ABSENT" /\ NoRow.reserved = 0
  /\ \A s, n, e : s # "ABSENT" => Row(s, n, e) # NoRow
BY DEF Row, NoRow

LEMMA InitAccounted == Init => Accounted
<1> SUFFICES ASSUME Init, NEW c \in Calls PROVE AccountAt(c)
  BY DEF Accounted
<1>1. /\ pc[c] = "insert" /\ job[c] = NoRow /\ draft[c] = NoRow
      /\ usage[c].rows = 0 /\ usage[c].usd = 0 /\ usage[c] = NoUsage
  BY DEF Init, NoUsage
<1>2. "insert" \in OpenLabels
  BY DEF OpenLabels
<1>3. PlacedAt(c)
  BY <1>1, <1>2 DEF PlacedAt
<1>4. ChargedAt(c)
  BY <1>1, RowFacts, LiveFacts DEF ChargedAt, Live
<1> QED BY <1>3, <1>4 DEF AccountAt

(* A row that is decided and not yet committed.                            *)
LEMMA CommitAccount ==
  ASSUME NEW c \in Calls, AccountAt(c), pc[c] \in OpenLabels,
         job'[c] = job[c], usage'[c] = usage[c], pc'[c] = "commit",
         NEW s \in {"GPU_AUTHORIZED", "COMPLETED", "REJECTED", "BUDGET_EXCEEDED"},
         NEW e,
         draft'[c] = Row(s, IF s = "GPU_AUTHORIZED" THEN Estimate(c) ELSE 0, e)
  PROVE  AccountAt(c)'
<1>1. /\ draft'[c] # NoRow /\ draft'[c].state = s
      /\ draft'[c].reserved = IF s = "GPU_AUTHORIZED" THEN Estimate(c) ELSE 0
  BY RowFacts
<1>2. PlacedAt(c)'
  BY <1>1 DEF AccountAt, PlacedAt, OpenLabels
<1>3. ChargedAt(c)'
  BY DEF AccountAt, ChargedAt, Live
<1> QED BY <1>2, <1>3 DEF AccountAt

(* A statement of _open that decides nothing, and one that decides.        *)
LEMMA ProceedAccount ==
  ASSUME TypeOK, NEW c \in Calls, AccountAt(c), NEW l, Proceed(c, l),
         l \in OpenLabels \ {"commit"}, pc[c] \in OpenLabels,
         l \in {"insert", "findByKey", "findByWork"}
           <=> pc[c] \in {"insert", "findByKey", "findByWork"}
  PROVE  AccountAt(c)'
BY DEF TypeOK, AccountAt, PlacedAt, ChargedAt, Live, Proceed, Go, tables, OpenLabels

LEMMA RefuseAccount ==
  ASSUME TypeOK, NEW c \in Calls, AccountAt(c), NEW e \in RefusalCodes, Refuse(c, e),
         pc[c] \in OpenLabels
  PROVE  AccountAt(c)'
<1>1. RefusalState[e] \in {"BUDGET_EXCEEDED", "REJECTED"}
  BY RefusalRow DEF RefusalState
<1>2. /\ job'[c] = job[c] /\ usage'[c] = usage[c] /\ pc'[c] = "commit"
      /\ draft'[c] = Row(RefusalState[e], 0, e)
  BY DEF Refuse, Decide, Go, tables, TypeOK
<1>3. draft'[c] = Row(RefusalState[e], IF RefusalState[e] = "GPU_AUTHORIZED"
                                      THEN Estimate(c) ELSE 0, e)
  BY <1>1, <1>2
<1> QED BY <1>1, <1>2, <1>3, CommitAccount

LEMMA OpenAccount ==
  ASSUME TypeOK, NEW c \in Calls, AccountAt(c), OpenStep(c)
  PROVE  AccountAt(c)'
<1> USE DEF AccountAt, PlacedAt, ChargedAt, Live, OpenLabels
<1>1. CASE Insert(c)
  BY <1>1 DEF Insert, TypeOK, Go, tables, Row, NoRow
<1>2. CASE InsertDoesNothing(c)
  BY <1>2, ProceedAccount DEF InsertDoesNothing
<1>3. ASSUME NEW d \in Calls, Resolve(c, d), pc[c] \in {"findByKey", "findByWork"}
      PROVE  AccountAt(c)'
  BY <1>3 DEF Resolve, Raise, Leave, Go, TypeOK, tables
<1>4. CASE FindByKey(c)
  BY <1>3, <1>4, ProceedAccount DEF FindByKey
<1>5. CASE FindByWork(c)
  BY <1>3, <1>5 DEF FindByWork, Raise, Leave, Go, TypeOK, tables
<1>6. CASE CacheHit(c)
  BY <1>6 DEF CacheHit, Decide, Go, TypeOK, tables, Row, NoRow
<1>7. CASE CacheMiss(c)
  BY <1>7, RefuseAccount, ProceedAccount DEF CacheMiss, RefusalCodes
<1>8. CASE TakeAdmissionLock(c)
  <2>1. CASE Estimate(c) > JobCapUsd
    <3>1. RefusalState["JOB_CAP_EXCEEDED"] = "BUDGET_EXCEEDED"
      BY DEF RefusalState, RefusalCodes
    <3>2. /\ job'[c] = job[c] /\ usage'[c] = usage[c] /\ pc'[c] = "commit"
          /\ draft'[c] = Row("BUDGET_EXCEEDED", 0, "JOB_CAP_EXCEEDED")
      BY <1>8, <2>1, <3>1 DEF TakeAdmissionLock, Go, TypeOK, tables
    <3> QED BY <1>8, <3>2, CommitAccount DEF TakeAdmissionLock
  <2>2. CASE ~(Estimate(c) > JobCapUsd)
    BY <1>8, <2>2 DEF TakeAdmissionLock, Go, TypeOK, tables
  <2> QED BY <2>1, <2>2
<1>9. CASE ReadReserved(c)
  BY <1>9 DEF ReadReserved, Go, TypeOK, tables
<1>10. CASE ReadSettled(c)
  BY <1>10, RefuseAccount, ProceedAccount DEF ReadSettled, RefusalCodes
<1>11. CASE CountSlots(c)
  <2>1. CASE Cardinality(SlotHolders) >= MaxSlots
    BY <1>11, <2>1, RefuseAccount DEF CountSlots, RefusalCodes
  <2>2. CASE ~(Cardinality(SlotHolders) >= MaxSlots)
    <3>1. /\ job'[c] = job[c] /\ usage'[c] = usage[c] /\ pc'[c] = "commit"
          /\ draft'[c] = Row("GPU_AUTHORIZED", Estimate(c), "")
      BY <1>11, <2>2 DEF CountSlots, Decide, Go, TypeOK, tables
    <3> QED BY <1>11, <3>1, CommitAccount DEF CountSlots
  <2> QED BY <2>1, <2>2
<1>12. CASE Commit(c)
  BY <1>12 DEF Commit, Leave, Go, TypeOK, LiveStates, TerminalStates, States,
               NoUsage
<1> QED BY <1>1, <1>2, <1>4, <1>5, <1>6, <1>7, <1>8, <1>9, <1>10, <1>11, <1>12
        DEF OpenStep

LEMMA AdvanceAccount ==
  ASSUME TypeOK, NEW c \in Calls, AccountAt(c), NEW l,
         NEW s \in LiveStates, NEW t \in LiveStates, t # "FAILED",
         job[c].state = s, draft[c] = NoRow, Advance(c, s, t, l),
         l \notin OpenLabels,
         l = "start" => t = "GPU_AUTHORIZED",
         l \in {"atProvider", "providerFailed", "returned"} => t = "GPU_RUNNING",
         l = "validate" => t = "VALIDATING"
  PROVE  AccountAt(c)'
<1>1. /\ job'[c] = Row(t, job[c].reserved, "") /\ usage'[c] = usage[c]
      /\ pc'[c] = l /\ draft'[c] = NoRow
  BY DEF Advance, Go, TypeOK
<1>2. /\ job'[c].state = t
      /\ job'[c].reserved = job[c].reserved
  <2>1. /\ Row(t, job[c].reserved, "").state = t
        /\ Row(t, job[c].reserved, "").reserved = job[c].reserved
    BY DEF Row
  <2>2. job'[c] = Row(t, job[c].reserved, "")
    BY <1>1
  <2> QED BY <2>1, <2>2
<1>3. PlacedAt(c)'
  <2>1. pc'[c] \notin OpenLabels /\ pc'[c] # "commit"
    BY <1>1 DEF OpenLabels
  <2>2. /\ pc'[c] = "start" => job'[c].state = "GPU_AUTHORIZED"
        /\ pc'[c] \in {"atProvider", "providerFailed", "returned"}
             => job'[c].state = "GPU_RUNNING"
        /\ pc'[c] = "validate" => job'[c].state = "VALIDATING"
    BY <1>1, <1>2
  <2> QED BY <1>1, <2>1, <2>2 DEF PlacedAt
<1>4. ChargedAt(c)'
  BY <1>1, <1>2, LiveFacts DEF AccountAt, ChargedAt, Live
<1> QED BY <1>3, <1>4 DEF AccountAt

(* A row that settles has been charged for the first and only time.        *)
LEMMA SettledAccount ==
  ASSUME TypeOK, NEW c \in Calls, AccountAt(c), Live(c), draft[c] = NoRow,
         RecordUsage(c, reply[c].usd), NEW s \in {"FAILED", "COMPLETED"}, NEW e,
         job'[c] = Row(s, 0, e), pc'[c] = "done", draft' = draft
  PROVE  AccountAt(c)'
<1>1. usage'[c].rows = 1
  BY DEF RecordUsage, TypeOK, AccountAt, ChargedAt
<1>2. job'[c].state = s /\ job'[c].reserved = 0
  BY RowFacts
<1>3. PlacedAt(c)'
  BY DEF PlacedAt, OpenLabels
<1>4. ChargedAt(c)'
  BY <1>1, <1>2, LiveFacts DEF ChargedAt, Live
<1> QED BY <1>3, <1>4 DEF AccountAt

LEMMA ReconcileAccount ==
  ASSUME TypeOK, NEW c \in Calls, AccountAt(c), Live(c), draft[c] = NoRow, NEW e,
         ReconcileFailure(c, job[c].state, e)
  PROVE  AccountAt(c)'
<1>1. /\ RecordUsage(c, reply[c].usd) /\ job'[c] = Row("FAILED", 0, e)
      /\ pc'[c] = "done" /\ draft' = draft
  BY DEF ReconcileFailure, Leave, Go, TypeOK
<1> QED BY <1>1, SettledAccount

(* The labels after admission tell the state of the row.                   *)
LEMMA RunPlaces ==
  ASSUME NEW c \in Calls, AccountAt(c)
  PROVE  /\ pc[c] = "start" => job[c].state = "GPU_AUTHORIZED"
         /\ pc[c] \in {"atProvider", "providerFailed", "returned"}
              => job[c].state = "GPU_RUNNING"
         /\ pc[c] = "validate" => job[c].state = "VALIDATING"
         /\ pc[c] \in RunLabels => Live(c) /\ draft[c] = NoRow
<1>1. /\ pc[c] = "start" => job[c].state = "GPU_AUTHORIZED"
      /\ pc[c] \in {"atProvider", "providerFailed", "returned"}
           => job[c].state = "GPU_RUNNING"
      /\ pc[c] = "validate" => job[c].state = "VALIDATING"
  BY DEF AccountAt, PlacedAt
<1>2. pc[c] \in RunLabels => draft[c] = NoRow
  BY DEF AccountAt, PlacedAt, RunLabels, OpenLabels
<1> QED BY <1>1, <1>2, LiveFacts DEF RunLabels, Live

LEMMA RunAccount ==
  ASSUME TypeOK, NEW c \in Calls, AccountAt(c), RunStep(c)
  PROVE  AccountAt(c)'
<1>0. pc[c] \in RunLabels
  BY DEF RunStep, Start, ProviderFails, ProviderReturns, BeginValidation,
         ReconcileProviderFailure, RefuseResult, Persist, RunLabels
<1>1. Live(c) /\ draft[c] = NoRow
  BY <1>0, RunPlaces
<1>2. CASE Start(c)
  BY <1>1, <1>2, RunPlaces, LiveFacts, AdvanceAccount DEF Start, OpenLabels
<1>3. CASE ProviderFails(c)
  BY <1>3 DEF ProviderFails, Go, TypeOK, tables, AccountAt, PlacedAt, ChargedAt,
              Live, OpenLabels
<1>4. CASE ProviderReturns(c)
  BY <1>4 DEF ProviderReturns, Go, TypeOK, tables, AccountAt, PlacedAt, ChargedAt,
              Live, OpenLabels
<1>5. CASE BeginValidation(c)
  BY <1>1, <1>5, RunPlaces, LiveFacts, AdvanceAccount DEF BeginValidation, OpenLabels
<1>6. CASE ReconcileProviderFailure(c)
  BY <1>1, <1>6, RunPlaces, ReconcileAccount DEF ReconcileProviderFailure
<1>7. CASE RefuseResult(c)
  BY <1>1, <1>7, RunPlaces, ReconcileAccount DEF RefuseResult
<1>8. CASE Persist(c)
  <2>1. CASE \E d \in Calls \ {c} : Live(d) /\ Work(d) = Work(c)
    <3>1. pc'[c] = "done" /\ job' = job /\ usage' = usage /\ draft' = draft
      BY <1>8, <2>1 DEF Persist, Raise, Leave, Go, TypeOK, tables
    <3> QED BY <1>1, <3>1 DEF AccountAt, PlacedAt, ChargedAt, Live, OpenLabels
  <2>2. CASE ~\E d \in Calls \ {c} : Live(d) /\ Work(d) = Work(c)
    <3>1. /\ RecordUsage(c, reply[c].usd) /\ job'[c] = Row("COMPLETED", 0, "")
          /\ pc'[c] = "done" /\ draft' = draft
      BY <1>8, <2>2 DEF Persist, Leave, Go, TypeOK
    <3> QED BY <1>1, <3>1, SettledAccount
  <2> QED BY <2>1, <2>2
<1> QED BY <1>2, <1>3, <1>4, <1>5, <1>6, <1>7, <1>8 DEF RunStep

LEMMA CrashAccount ==
  ASSUME TypeOK, NEW c \in Calls, AccountAt(c), Crash(c)
  PROVE  AccountAt(c)'
BY DEF Crash, Go, TypeOK, tables, AccountAt, PlacedAt, ChargedAt, Live, OpenLabels

LEMMA NextAccounted ==
  ASSUME TypeOK, Accounted, [Next]_vars
  PROVE  Accounted'
<1>1. ASSUME NEW c \in Calls, Step(c) \/ Crash(c) PROVE Accounted'
  <2>1. AccountAt(c)'
    BY <1>1, OpenAccount, RunAccount, CrashAccount DEF Accounted, Step
  <2>2. ASSUME NEW d \in Calls \ {c} PROVE AccountAt(d)'
    <3>1. AccountAt(d) /\ Untouched(d)
      BY <1>1, OthersUntouched DEF Accounted
    <3> QED BY <3>1 DEF AccountAt, PlacedAt, ChargedAt, Live, Untouched
  <2> QED BY <2>1, <2>2 DEF Accounted
<1>2. CASE UNCHANGED vars
  BY <1>2 DEF vars, Accounted, AccountAt, PlacedAt, ChargedAt, Live
<1> QED BY <1>1, <1>2 DEF Next, Terminating

LEMMA AccountedAlways == Spec => [](TypeOK /\ Accounted)
<1>1. Init => TypeOK /\ Accounted
  BY InitTypeOK, InitAccounted
<1>2. TypeOK /\ Accounted /\ [Next]_vars => (TypeOK /\ Accounted)'
  BY NextTypeOK, NextAccounted
<1> QED BY <1>1, <1>2, PTL DEF Spec

(* A row is charged as its reservation or as its measured spend, never as  *)
(* both or neither, for any number of calls and however they die: the row  *)
(* and its usage record change in one transaction of _settle or            *)
(* _reconcile_failure.                                                     *)
THEOREM NeverChargedTwice == Spec => []ChargedOnce
<1>1. TypeOK /\ Accounted => ChargedOnce
  BY AccountedIs
<1> QED BY <1>1, AccountedAlways, PTL

----------------------------------------------------------------------------
\* A call has a row, committed or on the way, from its insert on.
HasRow(c) == job[c] # NoRow \/ draft[c] # NoRow

\* The unique index over the idempotency keys.
KeysUnique == \A c, d \in Calls : c # d /\ Key(c) = Key(d) => ~(HasRow(c) /\ HasRow(d))

\* From the miss of its cache lookup until its row has settled.
Missed(c) == pc[c] \in {"admit"} \cup LockedLabels \cup RunLabels \/ Authorizing(c)

\* A run is recorded once.
RecordedAt(c) == usage[c].rows \in {0, 1}

ClaimInv ==
  /\ TypeOK /\ Accounted
  /\ KeysUnique /\ SingleFlight /\ Fresh
  /\ \A c \in Calls : RecordedAt(c)

----------------------------------------------------------------------------
(* What one step does to the claims of its own call.                       *)

\* The call acquires nothing it did not have.
NothingNew(c) == /\ HasRow(c)' => HasRow(c)
                 /\ Claims(c)' => Claims(c)

LEMMA MissedClaims ==
  ASSUME NEW c \in Calls, AccountAt(c), Missed(c)
  PROVE  Claims(c)
<1>1. CASE pc[c] \in RunLabels
  BY <1>1, RunPlaces DEF Claims
<1>2. CASE pc[c] \notin RunLabels
  BY <1>2 DEF Missed, Authorizing, AccountAt, PlacedAt, OpenLabels, LockedLabels, Claims
<1> QED BY <1>1, <1>2

(* The insert takes the key and the work only when nobody has them.        *)
LEMMA InsertIsFirst ==
  ASSUME NEW c \in Calls, Insert(c), NEW d \in Calls \ {c}
  PROVE  /\ Key(c) = Key(d) => ~HasRow(d)
         /\ Work(c) = Work(d) => ~Claims(d)
BY DEF Insert, InsertMustWait, InsertCollides, HasRow, Claims

LEMMA OpenClaims ==
  ASSUME TypeOK, NEW c \in Calls, AccountAt(c), OpenStep(c), ~Insert(c)
  PROVE  NothingNew(c)
<1> USE DEF NothingNew, HasRow, Claims, Live, TypeOK, tables, AccountAt, PlacedAt,
            OpenLabels, Go
<1>1. CASE InsertDoesNothing(c)
  BY <1>1 DEF InsertDoesNothing, Proceed
<1>2. CASE FindByKey(c)
  BY <1>2 DEF FindByKey, Proceed, Resolve, Raise, Leave
<1>3. CASE FindByWork(c)
  BY <1>3 DEF FindByWork, Resolve, Raise, Leave
<1>4. CASE CacheHit(c)
  BY <1>4 DEF CacheHit, Decide
<1>5. CASE CacheMiss(c)
  BY <1>5 DEF CacheMiss, Refuse, Decide, Proceed
<1>6. CASE TakeAdmissionLock(c)
  BY <1>6 DEF TakeAdmissionLock
<1>7. CASE ReadReserved(c)
  BY <1>7 DEF ReadReserved
<1>8. CASE ReadSettled(c)
  BY <1>8 DEF ReadSettled, Refuse, Decide, Proceed
<1>9. CASE CountSlots(c)
  BY <1>9 DEF CountSlots, Refuse, Decide
<1>10. CASE Commit(c)
  BY <1>10 DEF Commit
<1> HIDE DEF NothingNew, HasRow, Claims, Live, TypeOK, tables, AccountAt, PlacedAt,
             OpenLabels, Go
<1> QED BY <1>1, <1>2, <1>3, <1>4, <1>5, <1>6, <1>7, <1>8, <1>9, <1>10 DEF OpenStep

LEMMA LateClaims ==
  ASSUME NEW c \in Calls, AccountAt(c), draft' = draft,
         pc[c] \in RunLabels
  PROVE  NothingNew(c)
<1>1. Live(c)
  BY RunPlaces
<1>2. Claims(c)
  BY <1>1 DEF Claims
<1>3. job[c] # NoRow
  BY <1>1, LiveFacts, RowFacts DEF Live
<1> QED BY <1>2, <1>3 DEF NothingNew, HasRow

LEMMA StepClaims ==
  ASSUME TypeOK, NEW c \in Calls, AccountAt(c), Step(c) \/ Crash(c), ~Insert(c)
  PROVE  NothingNew(c)
<1>1. CASE OpenStep(c)
  BY <1>1, OpenClaims
<1>2. CASE RunStep(c)
  <2>1. pc[c] \in RunLabels
    BY <1>2 DEF RunStep, Start, ProviderFails, ProviderReturns, BeginValidation,
                ReconcileProviderFailure, RefuseResult, Persist, RunLabels
  <2>2. draft' = draft
    BY <1>2 DEF RunStep, Start, Advance, ProviderFails, ProviderReturns,
                BeginValidation, ReconcileProviderFailure, ReconcileFailure,
                RefuseResult, Persist
  <2> QED BY <2>1, <2>2, LateClaims
<1>3. CASE Crash(c)
  BY <1>3 DEF Crash, NothingNew, HasRow, Claims, Live, TypeOK, tables
<1> QED BY <1>1, <1>2, <1>3 DEF Step

(* The indexes hold: one row for each key, one claim for each work.        *)
LEMMA IndexesKept ==
  ASSUME ClaimInv, NEW c \in Calls, Step(c) \/ Crash(c)
  PROVE  KeysUnique' /\ SingleFlight'
<1> USE DEF ClaimInv
<1>1. \A d \in Calls \ {c} : /\ HasRow(d)' = HasRow(d)
                             /\ Claims(d)' = Claims(d)
  <2> TAKE d \in Calls \ {c}
  <2>1. Untouched(d)
    BY OthersUntouched
  <2> QED BY <2>1 DEF Untouched, HasRow, Claims, Live
<1>2. CASE Insert(c)
  <2>1. KeysUnique'
    BY <1>1, <1>2, InsertIsFirst DEF KeysUnique
  <2>2. SingleFlight'
    BY <1>1, <1>2, InsertIsFirst DEF SingleFlight
  <2> QED BY <2>1, <2>2
<1>3. CASE ~Insert(c)
  <2>1. NothingNew(c)
    BY <1>3, StepClaims DEF Accounted
  <2>2. KeysUnique'
    BY <1>1, <2>1 DEF KeysUnique, NothingNew
  <2>3. SingleFlight'
    BY <1>1, <2>1 DEF SingleFlight, NothingNew
  <2> QED BY <2>2, <2>3
<1> QED BY <1>2, <1>3

----------------------------------------------------------------------------
(* The cache between a miss and the settlement that fills it.              *)

FreshAt(c) == Missed(c) => cache[Work(c)] = NoResult

LEMMA FreshIs == Fresh <=> \A c \in Calls : FreshAt(c)
BY DEF Fresh, FreshAt, Missed

\* A settled run adds one cache row, if any, and leaves the others alone.
LEMMA CacheStep ==
  ASSUME TypeOK, NEW c \in Calls, Step(c) \/ Crash(c)
  PROVE  \/ cache' = cache
         \/ /\ pc[c] = "validate" /\ pc'[c] = "done"
            /\ \A w \in Works \ {Work(c)} : cache'[w] = cache[w]
<1>1. CASE Persist(c)
  BY <1>1 DEF Persist, Leave, Go, TypeOK, Raise, tables
<1>2. CASE RunStep(c) /\ ~Persist(c)
  BY <1>2 DEF RunStep, Start, Advance, ProviderFails, ProviderReturns, BeginValidation,
              ReconcileProviderFailure, ReconcileFailure, RefuseResult, tables
<1>3. CASE OpenStep(c)
  BY <1>3 DEF OpenStep, Insert, InsertDoesNothing, FindByKey, FindByWork, Resolve,
              CacheHit, CacheMiss, TakeAdmissionLock, ReadReserved, ReadSettled,
              CountSlots, Commit, Refuse, Decide, Proceed, tables
<1>4. CASE Crash(c)
  BY <1>4 DEF Crash, tables
<1> QED BY <1>1, <1>2, <1>3, <1>4 DEF Step

\* A call reaches the far side of the lookup only through a miss.
LEMMA MissedOwn ==
  ASSUME TypeOK, NEW c \in Calls, AccountAt(c), Step(c) \/ Crash(c), Missed(c)'
  PROVE  Missed(c) \/ cache[Work(c)] = NoResult
<1> USE DEF TypeOK, Missed, Authorizing, LockedLabels, RunLabels, Go, tables
<1>1. CASE Crash(c)
  BY <1>1 DEF Crash
<1>2. CASE Insert(c)
  BY <1>2 DEF Insert
<1>3. CASE InsertDoesNothing(c)
  BY <1>3 DEF InsertDoesNothing, Proceed
<1>4. CASE FindByKey(c)
  BY <1>4 DEF FindByKey, Proceed, Resolve, Raise, Leave
<1>5. CASE FindByWork(c)
  BY <1>5 DEF FindByWork, Resolve, Raise, Leave
<1>6. CASE CacheHit(c)
  BY <1>6 DEF CacheHit, Decide, Row
<1>7. CASE CacheMiss(c)
  BY <1>7 DEF CacheMiss
<1>8. CASE TakeAdmissionLock(c) \/ ReadReserved(c) \/ ReadSettled(c) \/ CountSlots(c)
  BY <1>8 DEF TakeAdmissionLock, ReadReserved, ReadSettled, CountSlots
<1>9. CASE Commit(c)
  BY <1>9 DEF Commit, Leave
<1>10. CASE RunStep(c)
  BY <1>10 DEF RunStep, Start, ProviderFails, ProviderReturns, BeginValidation,
               ReconcileProviderFailure, RefuseResult, Persist
<1> HIDE DEF TypeOK, Missed, Authorizing, LockedLabels, RunLabels, Go, tables
<1> QED BY <1>1, <1>2, <1>3, <1>4, <1>5, <1>6, <1>7, <1>8, <1>9, <1>10
        DEF Step, OpenStep

LEMMA FreshKept ==
  ASSUME ClaimInv, NEW c \in Calls, Step(c) \/ Crash(c)
  PROVE  Fresh'
<1> USE DEF ClaimInv
<1>1. CASE cache' = cache
  <2>1. FreshAt(c)'
    BY <1>1, MissedOwn, FreshIs DEF FreshAt, Accounted
  <2>2. ASSUME NEW d \in Calls \ {c} PROVE FreshAt(d)'
    BY <1>1, OthersUntouched, FreshIs DEF FreshAt, Untouched, Missed, Authorizing
  <2> QED BY <2>1, <2>2 DEF Fresh, FreshAt, Missed
<1>2. CASE /\ pc[c] = "validate" /\ pc'[c] = "done"
           /\ \A w \in Works \ {Work(c)} : cache'[w] = cache[w]
  <2>1. ~Missed(c)'
    BY <1>2 DEF Missed, Authorizing, LockedLabels, RunLabels
  <2>2. Claims(c)
    BY <1>2, RunPlaces DEF Accounted, Claims, RunLabels
  <2>3. ASSUME NEW d \in Calls \ {c}, Missed(d)' PROVE cache'[Work(d)] = NoResult
    <3>1. Missed(d)
      BY <2>3, OthersUntouched DEF Untouched, Missed, Authorizing
    <3>2. Claims(d)
      BY <3>1, MissedClaims DEF Accounted
    <3>3. Work(d) # Work(c)
      BY <2>2, <3>2 DEF SingleFlight
    <3> QED BY <1>2, <3>1, <3>3, WorkType, FreshIs DEF FreshAt
  <2> QED BY <2>1, <2>3 DEF Fresh, Missed
<1> QED BY <1>1, <1>2, CacheStep

(* A run is recorded when its row stops being live, and so only once.      *)
LEMMA RecordedKept ==
  ASSUME ClaimInv, NEW c \in Calls, Step(c) \/ Crash(c), NEW d \in Calls
  PROVE  RecordedAt(d)'
<1> USE DEF ClaimInv
<1>1. CASE d # c
  BY <1>1, OthersUntouched DEF Untouched, RecordedAt
<1>2. CASE d = c /\ usage' = usage
  BY <1>2 DEF RecordedAt
<1>3. CASE d = c /\ RecordUsage(c, reply[c].usd) /\ pc[c] \in RunLabels
  <2>1. usage[c].rows = 0
    BY <1>3, RunPlaces DEF Accounted, AccountAt, ChargedAt
  <2> QED BY <1>3, <2>1 DEF RecordUsage, TypeOK, RecordedAt
<1>4. usage' = usage \/ (RecordUsage(c, reply[c].usd) /\ pc[c] \in RunLabels)
  <2>1. CASE RunStep(c)
    BY <2>1 DEF RunStep, Start, Advance, ProviderFails, ProviderReturns,
                BeginValidation, ReconcileProviderFailure, ReconcileFailure,
                RefuseResult, Persist, tables, RunLabels
  <2>2. CASE OpenStep(c)
    BY <2>2 DEF OpenStep, Insert, InsertDoesNothing, FindByKey, FindByWork, Resolve,
                CacheHit, CacheMiss, TakeAdmissionLock, ReadReserved, ReadSettled,
                CountSlots, Commit, Refuse, Decide, Proceed, tables, Raise, Leave
  <2>3. CASE Crash(c)
    BY <2>3 DEF Crash, tables
  <2> QED BY <2>1, <2>2, <2>3 DEF Step
<1> QED BY <1>1, <1>2, <1>3, <1>4

LEMMA InitClaims == Init => ClaimInv
<1> SUFFICES ASSUME Init PROVE ClaimInv
  OBVIOUS
<1>1. \A c \in Calls : /\ ~HasRow(c) /\ ~Claims(c) /\ ~Missed(c) /\ RecordedAt(c)
  BY RowFacts, LiveFacts
     DEF Init, HasRow, Claims, Live, Missed, Authorizing, LockedLabels, RunLabels,
         RecordedAt
<1> QED BY <1>1, InitTypeOK, InitAccounted
        DEF ClaimInv, KeysUnique, SingleFlight, Fresh, Missed

LEMMA NextClaims == ClaimInv /\ [Next]_vars => ClaimInv'
<1> SUFFICES ASSUME ClaimInv, [Next]_vars PROVE ClaimInv'
  OBVIOUS
<1>1. TypeOK' /\ Accounted'
  BY NextTypeOK, NextAccounted DEF ClaimInv
<1>2. ASSUME NEW c \in Calls, Step(c) \/ Crash(c)
      PROVE  /\ KeysUnique' /\ SingleFlight' /\ Fresh'
             /\ \A d \in Calls : RecordedAt(d)'
  BY <1>2, IndexesKept, FreshKept, RecordedKept
<1>3. ASSUME UNCHANGED vars
      PROVE  /\ KeysUnique' /\ SingleFlight' /\ Fresh'
             /\ \A d \in Calls : RecordedAt(d)'
  BY <1>3 DEF vars, ClaimInv, KeysUnique, SingleFlight, Fresh, RecordedAt, HasRow,
              Claims, Live, Authorizing
<1> QED BY <1>1, <1>2, <1>3 DEF Next, Terminating, ClaimInv

LEMMA ClaimsAlways == Spec => []ClaimInv
BY InitClaims, NextClaims, PTL DEF Spec

----------------------------------------------------------------------------
(* Identical work is at one provider at a time, and not again once its     *)
(* result is cached, for any requests and any interleaving of _open and    *)
(* _settle.                                                                *)
THEOREM WorkRunsOnce == Spec => []SpendsOncePerWork
<1>1. ClaimInv => SpendsOncePerWork
  <2> SUFFICES ASSUME ClaimInv, NEW c \in Calls, pc[c] \in RunLabels
               PROVE  /\ cache[Work(c)] = NoResult
                      /\ \A d \in Calls \ {c} :
                           Work(d) = Work(c) => pc[d] \notin RunLabels
    BY DEF SpendsOncePerWork
  <2>1. cache[Work(c)] = NoResult
    BY FreshIs DEF ClaimInv, FreshAt, Missed
  <2>2. \A d \in Calls : pc[d] \in RunLabels => Claims(d)
    BY MissedClaims DEF ClaimInv, Accounted, Missed
  <2> QED BY <2>1, <2>2 DEF ClaimInv, SingleFlight
<1> QED BY <1>1, ClaimsAlways, PTL

(* One idempotency key pays for one run at most.                           *)
THEOREM KeyPaysOnce == Spec => []OneSpendPerKey
<1>1. ClaimInv => OneSpendPerKey
  <2> SUFFICES ASSUME ClaimInv, NEW c \in Calls, NEW d \in Calls,
                      Key(c) = Key(d), usage[c].rows > 0
               PROVE  IF c = d THEN usage[c].rows = 1 ELSE usage[d].rows = 0
    BY DEF OneSpendPerKey
  <2>1. \A e \in Calls : usage[e].rows > 0 => job[e] # NoRow
    BY RowFacts DEF ClaimInv, Accounted, AccountAt, ChargedAt
  <2>2. CASE c = d
    BY <2>2 DEF ClaimInv, RecordedAt
  <2>3. CASE c # d
    BY <2>1, <2>3 DEF ClaimInv, KeysUnique, HasRow, RecordedAt
  <2> QED BY <2>2, <2>3
<1> QED BY <1>1, ClaimsAlways, PTL

(* No call that came back from the provider leaves without its usage row:  *)
(* the compare-and-set before validation and the unique index at           *)
(* persisting cannot turn it away while nobody else writes its row.        *)
THEOREM SpendNeverLost == Spec => SpendIsRecorded
<1>1. ClaimInv /\ [Next]_vars
        => [\A c \in Calls :
              pc[c] \in {"returned", "providerFailed", "validate"}
                /\ pc'[c] = "done" => usage'[c].rows = usage[c].rows + 1]_vars
  <2> SUFFICES ASSUME ClaimInv, Next, NEW c \in Calls,
                      pc[c] \in {"returned", "providerFailed", "validate"},
                      pc'[c] = "done"
               PROVE  usage'[c].rows = usage[c].rows + 1
    BY DEF vars
  <2> USE DEF ClaimInv
  <2>1. PICK d \in Calls : Step(d) \/ Crash(d)
    BY DEF Next, Terminating, vars
  <2>2. d = c
    BY <2>1, OthersUntouched DEF Untouched
  <2>3. ReconcileProviderFailure(c) \/ RefuseResult(c) \/ Persist(c) \/ BeginValidation(c)
    BY <2>1, <2>2
       DEF Step, OpenStep, RunStep, Crash, Insert, InsertDoesNothing, FindByKey,
           FindByWork, CacheHit, CacheMiss, TakeAdmissionLock, ReadReserved,
           ReadSettled, CountSlots, Commit, Start, ProviderFails, ProviderReturns,
           Go, TypeOK
  <2>4. ASSUME RecordUsage(c, reply[c].usd)
        PROVE  usage'[c].rows = usage[c].rows + 1
    BY <2>4 DEF RecordUsage, TypeOK
  <2>5. CASE BeginValidation(c)
    BY <2>5, RunPlaces DEF BeginValidation, Advance, Go, TypeOK, Accounted
  <2>6. CASE Persist(c)
    <3>1. ~\E e \in Calls \ {c} : Live(e) /\ Work(e) = Work(c)
      BY <2>6, RunPlaces DEF Persist, Accounted, RunLabels, SingleFlight, Claims
    <3> QED BY <2>4, <2>6, <3>1 DEF Persist
  <2>7. CASE ReconcileProviderFailure(c) \/ RefuseResult(c)
    BY <2>4, <2>7 DEF ReconcileProviderFailure, RefuseResult, ReconcileFailure
  <2> QED BY <2>3, <2>5, <2>6, <2>7
<1> QED BY <1>1, ClaimsAlways, PTL DEF Spec, SpendIsRecorded

----------------------------------------------------------------------------
(* What the cache holds and what run reports.                              *)

\* The row says how the run of c ended.
Settled(c) == job[c].state \in {"COMPLETED", "FAILED"}

\* A call that is about to say or has said COMPLETED finds a stored result.
BackedAt(c) ==
  "COMPLETED" \in {job[c].state, draft[c].state} => cache[Work(c)] # NoResult

\* The job that stored the result of w, and what it stored.
PaidFor(w) ==
  \E c \in Calls : /\ Work(c) = w /\ Trustworthy(c, cache[w])
                   /\ job[c].state = "COMPLETED" /\ usage[c].rows = 1

\* The row a report of c repeats.
ReportOf(c, d) ==
  /\ Key(d) = Key(c) \/ Work(d) = Work(c)
  /\ job[d].state = outcome[c].state
  /\ job[d].error = outcome[c].error
  /\ outcome[c].state = "COMPLETED" =>
       outcome[c].output = cache[Work(c)] /\ cache[Work(c)] # NoResult
ReportedAt(c) ==
  outcome[c].state \in {"COMPLETED", "FAILED"} => \E d \in Calls : ReportOf(c, d)

StoredInv ==
  /\ ClaimInv
  /\ \A c \in Calls : BackedAt(c) /\ ReportedAt(c)
  /\ \A w \in Works : cache[w] # NoResult => PaidFor(w)

(* A call whose row has settled has left and takes no step any more.       *)
LEMMA SettledHasLeft ==
  ASSUME TypeOK, NEW c \in Calls, AccountAt(c), Settled(c)
  PROVE  ~(Step(c) \/ Crash(c))
<1>1. pc[c] \in {"done", "crashed"}
  <2>1. pc[c] \in Labels /\ job[c].state # "ABSENT"
    BY DEF TypeOK, Settled
  <2>2. pc[c] \notin OpenLabels
    BY <2>1, RowFacts DEF AccountAt, PlacedAt
  <2>3. pc[c] \notin RunLabels
    BY RunPlaces DEF Settled, RunLabels
  <2> QED BY <2>1, <2>2, <2>3 DEF Labels
<1> QED BY <1>1
        DEF Step, OpenStep, RunStep, Crash, Insert, InsertDoesNothing, FindByKey,
            FindByWork, CacheHit, CacheMiss, TakeAdmissionLock, ReadReserved,
            ReadSettled, CountSlots, Commit, Start, ProviderFails, ProviderReturns,
            BeginValidation, ReconcileProviderFailure, RefuseResult, Persist

(* Hence settled rows and their usage records never change again.          *)
LEMMA SettledStays ==
  ASSUME TypeOK, Accounted, NEW c \in Calls, Step(c) \/ Crash(c),
         NEW d \in Calls, Settled(d)
  PROVE  job'[d] = job[d] /\ usage'[d] = usage[d] /\ Settled(d)'
<1>1. d # c
  BY SettledHasLeft DEF Accounted
<1> QED BY <1>1, OthersUntouched DEF Untouched, Settled

(* The one step that writes the cache: into an empty place, the result of  *)
(* a run that passed every check, with the row and the usage record.       *)
LEMMA CacheWrite ==
  ASSUME ClaimInv, NEW c \in Calls, Step(c) \/ Crash(c), cache' # cache
  PROVE  /\ cache[Work(c)] = NoResult
         /\ cache' = [cache EXCEPT ![Work(c)] = reply[c].result]
         /\ reply[c].result # NoResult /\ Trustworthy(c, reply[c].result)
         /\ job'[c] = Row("COMPLETED", 0, "") /\ usage'[c].rows = 1
         /\ outcome'[c] = Outcome("COMPLETED", reply[c].result, "")
<1> USE DEF ClaimInv
<1>1. Persist(c)
  <2>1. CASE RunStep(c)
    BY <2>1 DEF RunStep, Start, Advance, ProviderFails, ProviderReturns,
                BeginValidation, ReconcileProviderFailure, ReconcileFailure,
                RefuseResult, tables
  <2>2. CASE OpenStep(c)
    BY <2>2 DEF OpenStep, Insert, InsertDoesNothing, FindByKey, FindByWork, Resolve,
                CacheHit, CacheMiss, TakeAdmissionLock, ReadReserved, ReadSettled,
                CountSlots, Commit, Refuse, Decide, Proceed, tables
  <2>3. CASE Crash(c)
    BY <2>3 DEF Crash, tables
  <2> QED BY <2>1, <2>2, <2>3 DEF Step
<1>2. pc[c] = "validate" /\ RefusalOf(c, reply[c].result) = ""
  BY <1>1 DEF Persist
<1>3. cache[Work(c)] = NoResult
  BY <1>2, FreshIs DEF FreshAt, Missed, RunLabels
<1>4. Trustworthy(c, reply[c].result)
  BY <1>2 DEF RefusalOf, Trustworthy
<1>5. reply[c].result # NoResult
  BY <1>4 DEF Trustworthy, NoResult
<1>6. ~\E d \in Calls \ {c} : Live(d) /\ Work(d) = Work(c)
  BY <1>1 DEF Persist, tables
<1>7. usage[c].rows = 0
  BY <1>2, RunPlaces DEF Accounted, AccountAt, ChargedAt, RunLabels
<1>8. usage'[c].rows = 1
  <2>1. RecordUsage(c, reply[c].usd)
    BY <1>1, <1>6 DEF Persist
  <2>2. usage'[c].rows = usage[c].rows + 1
    BY <2>1 DEF RecordUsage, TypeOK
  <2> QED BY <1>7, <2>2
<1>9. /\ cache' = [cache EXCEPT ![Work(c)] = reply[c].result]
      /\ job'[c] = Row("COMPLETED", 0, "")
      /\ outcome'[c] = Outcome("COMPLETED", reply[c].result, "")
  BY <1>1, <1>3, <1>6, WorkType DEF Persist, Leave, TypeOK
<1> QED BY <1>3, <1>4, <1>5, <1>8, <1>9

\* A stored result is never replaced.
LEMMA CacheStays ==
  ASSUME ClaimInv, NEW c \in Calls, Step(c) \/ Crash(c), NEW w \in Works,
         cache[w] # NoResult
  PROVE  cache'[w] = cache[w]
BY CacheWrite DEF ClaimInv, TypeOK

\* _open decides on COMPLETED only for a hit, and commits what it decided.
LEMMA OpenBacked ==
  ASSUME TypeOK, NEW c \in Calls, OpenStep(c),
         "COMPLETED" \in {job'[c].state, draft'[c].state}
  PROVE  "COMPLETED" \in {job[c].state, draft[c].state} \/ cache[Work(c)] # NoResult
<1> USE RowFacts DEF TypeOK, Go, tables
<1>1. CASE Insert(c)
  BY <1>1 DEF Insert, Row
<1>2. CASE InsertDoesNothing(c)
  BY <1>2 DEF InsertDoesNothing, Proceed
<1>3. CASE FindByKey(c)
  BY <1>3 DEF FindByKey, Proceed, Resolve, Raise, Leave
<1>4. CASE FindByWork(c)
  BY <1>4 DEF FindByWork, Resolve, Raise, Leave
<1>5. CASE CacheHit(c)
  BY <1>5 DEF CacheHit
<1>6. ASSUME NEW e \in RefusalCodes
      PROVE  RefusalState[e] # "COMPLETED"
  BY RefusalRow DEF RefusalState
<1>7. CASE CacheMiss(c)
  BY <1>6, <1>7 DEF CacheMiss, Refuse, Decide, Proceed, RefusalCodes
<1>8. CASE TakeAdmissionLock(c)
  BY <1>6, <1>8 DEF TakeAdmissionLock, RefusalCodes
<1>9. CASE ReadReserved(c)
  BY <1>9 DEF ReadReserved
<1>10. CASE ReadSettled(c)
  BY <1>6, <1>10 DEF ReadSettled, Refuse, Decide, Proceed, RefusalCodes
<1>11. CASE CountSlots(c)
  <2>1. \/ Refuse(c, "GPU_CONCURRENCY_LIMIT")
        \/ Decide(c, Row("GPU_AUTHORIZED", Estimate(c), ""))
    BY <1>11 DEF CountSlots
  <2>2. CASE Refuse(c, "GPU_CONCURRENCY_LIMIT")
    BY <1>6, <2>2 DEF Refuse, Decide, RefusalCodes
  <2>3. CASE Decide(c, Row("GPU_AUTHORIZED", Estimate(c), ""))
    BY <2>3 DEF Decide, Row
  <2> QED BY <2>1, <2>2, <2>3
<1>12. CASE Commit(c)
  BY <1>12 DEF Commit
<1> QED BY <1>1, <1>2, <1>3, <1>4, <1>5, <1>7, <1>8, <1>9, <1>10, <1>11, <1>12
        DEF OpenStep

(* The states a run writes on the way to a result that persists.           *)
LEMMA RunStates ==
  ASSUME TypeOK, NEW c \in Calls, RunStep(c), ~Persist(c)
  PROVE  job'[c].state \in {job[c].state, "GPU_RUNNING", "VALIDATING", "FAILED"}
<1>1. ASSUME NEW t \in {"GPU_RUNNING", "VALIDATING"}, NEW l, NEW r,
             Advance(c, r, t, l)
      PROVE  job'[c].state \in {job[c].state, t}
  <2>1. job'[c] = job[c] \/ job'[c] = Row(t, job[c].reserved, "")
    BY <1>1 DEF Advance, tables, TypeOK
  <2>2. Row(t, job[c].reserved, "").state = t
    BY DEF Row
  <2> QED BY <2>1, <2>2
<1>2. ASSUME NEW e, NEW r, ReconcileFailure(c, r, e)
      PROVE  job'[c].state \in {job[c].state, "FAILED"}
  BY <1>2, RowFacts DEF ReconcileFailure, TypeOK
<1>3. CASE Start(c) \/ BeginValidation(c)
  <2>1. \/ Advance(c, "GPU_AUTHORIZED", "GPU_RUNNING", "atProvider")
        \/ Advance(c, "GPU_RUNNING", "VALIDATING", "validate")
    BY <1>3 DEF Start, BeginValidation
  <2>2. \/ job'[c].state \in {job[c].state, "GPU_RUNNING"}
        \/ job'[c].state \in {job[c].state, "VALIDATING"}
    BY <1>1, <2>1
  <2> QED BY <2>2
<1>4. CASE ReconcileProviderFailure(c) \/ RefuseResult(c)
  BY <1>2, <1>4 DEF ReconcileProviderFailure, RefuseResult
<1>5. CASE ProviderFails(c) \/ ProviderReturns(c)
  BY <1>5 DEF ProviderFails, ProviderReturns, tables
<1> QED BY <1>3, <1>4, <1>5 DEF RunStep

(* Whoever is about to say COMPLETED has seen a stored result.             *)
LEMMA BackedKept ==
  ASSUME StoredInv, NEW c \in Calls, Step(c) \/ Crash(c), NEW d \in Calls
  PROVE  BackedAt(d)'
<1> USE DEF StoredInv, ClaimInv
<1>0. Work(d) \in Works /\ Work(c) \in Works
  BY WorkType
<1>1. CASE BackedAt(d) /\ job'[d] = job[d] /\ draft'[d].state \in {draft[d].state, "ABSENT"}
  BY <1>0, <1>1, CacheStays DEF BackedAt
<1>2. CASE cache' # cache /\ d = c
  BY <1>0, <1>2, CacheWrite DEF BackedAt, TypeOK
<1>3. CASE d # c
  BY <1>1, <1>3, OthersUntouched DEF Untouched
<1>4. CASE cache' = cache /\ d = c
  <2> SUFFICES ASSUME "COMPLETED" \in {job'[c].state, draft'[c].state}
               PROVE  cache[Work(c)] # NoResult
    BY <1>4 DEF BackedAt
  <2>1. CASE Crash(c)
    BY <1>1, <1>4, <2>1, RowFacts DEF Crash, tables, BackedAt, TypeOK
  <2>2. CASE RunStep(c)
    <3>1. draft'[c] = draft[c]
      BY <2>2 DEF RunStep, Start, Advance, ProviderFails, ProviderReturns,
                  BeginValidation, ReconcileProviderFailure, ReconcileFailure,
                  RefuseResult, Persist
    <3>2. CASE Persist(c)
      <4>1. CASE \E e \in Calls \ {c} : Live(e) /\ Work(e) = Work(c)
        BY <1>4, <2>2, <3>1, <3>2, <4>1 DEF Persist, tables, BackedAt
      <4>2. CASE ~\E e \in Calls \ {c} : Live(e) /\ Work(e) = Work(c)
        <5>1. cache[Work(c)] = IF cache[Work(c)] = NoResult
                               THEN reply[c].result ELSE cache[Work(c)]
          BY <1>0, <1>4, <3>2, <4>2 DEF Persist, TypeOK
        <5>2. RefusalOf(c, NoResult) # ""
          BY DEF RefusalOf, NoResult
        <5> QED BY <3>2, <5>1, <5>2 DEF Persist
      <4> QED BY <4>1, <4>2
    <3>3. CASE ~Persist(c)
      <4>1. job'[c].state \in {job[c].state, "GPU_RUNNING", "VALIDATING", "FAILED"}
        BY <2>2, <3>3, RunStates
      <4> QED BY <3>1, <4>1 DEF BackedAt
    <3> QED BY <3>2, <3>3
  <2>3. CASE OpenStep(c)
    BY <1>4, <2>3, OpenBacked DEF BackedAt
  <2> QED BY <2>1, <2>2, <2>3 DEF Step
<1> QED BY <1>2, <1>3, <1>4

----------------------------------------------------------------------------
\* The rows and the cache a report refers to do not change under it.
LEMMA ReportStays ==
  ASSUME StoredInv, NEW c \in Calls, Step(c) \/ Crash(c), NEW d \in Calls,
         NEW e \in Calls, outcome'[d] = outcome[d],
         outcome[d].state \in {"COMPLETED", "FAILED"}, ReportOf(d, e)
  PROVE  ReportOf(d, e)'
<1>1. Settled(e)
  BY DEF ReportOf, Settled
<1>2. job'[e] = job[e]
  BY <1>1, SettledStays DEF StoredInv, ClaimInv
<1>3. cache[Work(d)] # NoResult => cache'[Work(d)] = cache[Work(d)]
  BY CacheStays, WorkType DEF StoredInv
<1> QED BY <1>2, <1>3 DEF ReportOf

\* A raise reports neither.
LEMMA RaiseReports ==
  ASSUME TypeOK, NEW c \in Calls, NEW e, Raise(c, e)
  PROVE  outcome'[c].state = "RAISED"
BY DEF Raise, Leave, Outcome, TypeOK

(* What a call reports as it leaves is on the row it looked at.            *)
LEMMA ReplayReports ==
  ASSUME StoredInv, NEW c \in Calls, NEW d \in Calls, Resolve(c, d),
         outcome'[c].state \in {"COMPLETED", "FAILED"}
  PROVE  ReportOf(c, d)'
<1> USE DEF StoredInv, ClaimInv
<1> DEFINE out == IF job[d].state = "COMPLETED" THEN cache[Work(c)] ELSE NoResult
<1>1. Doc(d) = Doc(c) /\ Work(d) = Work(c)
  BY RaiseReports DEF Resolve
<1>2. outcome'[c] = Outcome(job[d].state, out, job[d].error)
  BY <1>1 DEF Resolve, Leave, TypeOK
<1>3. job' = job /\ cache' = cache
  BY DEF Resolve, tables
<1>4. /\ outcome'[c].state = job[d].state /\ outcome'[c].error = job[d].error
      /\ outcome'[c].output = out
  BY <1>2 DEF Outcome
<1>5. job[d].state = "COMPLETED" => cache[Work(d)] # NoResult
  BY DEF BackedAt
<1> QED BY <1>1, <1>3, <1>4, <1>5 DEF ReportOf

LEMMA CommitReports ==
  ASSUME StoredInv, NEW c \in Calls, Commit(c), outcome'[c] # outcome[c]
  PROVE  ReportOf(c, c)'
<1> USE DEF StoredInv, ClaimInv
<1> DEFINE out == IF draft[c].state = "COMPLETED" THEN cache[Work(c)] ELSE NoResult
<1>1. outcome'[c] = Outcome(draft[c].state, out, draft[c].error)
  BY DEF Commit, Leave, TypeOK
<1>2. job'[c] = draft[c] /\ cache' = cache
  BY DEF Commit, TypeOK
<1>3. /\ outcome'[c].state = draft[c].state /\ outcome'[c].error = draft[c].error
      /\ outcome'[c].output = out
  BY <1>1 DEF Outcome
<1>4. draft[c].state = "COMPLETED" => cache[Work(c)] # NoResult
  BY DEF BackedAt
<1> QED BY <1>2, <1>3, <1>4 DEF ReportOf

LEMMA FailureReports ==
  ASSUME TypeOK, NEW c \in Calls, NEW e, ReconcileFailure(c, job[c].state, e)
  PROVE  ReportOf(c, c)'
<1>1. job'[c] = Row("FAILED", 0, e)
      /\ outcome'[c] = Outcome("FAILED", NoResult, e)
  BY DEF ReconcileFailure, Leave, TypeOK
<1>2. /\ job'[c].state = "FAILED" /\ job'[c].error = e
      /\ outcome'[c].state = "FAILED" /\ outcome'[c].error = e
  BY <1>1 DEF Row, Outcome
<1> QED BY <1>2 DEF ReportOf

LEMMA ReportMade ==
  ASSUME StoredInv, NEW c \in Calls, Step(c) \/ Crash(c),
         outcome'[c] # outcome[c], outcome'[c].state \in {"COMPLETED", "FAILED"}
  PROVE  \E d \in Calls : ReportOf(c, d)'
<1> USE DEF StoredInv, ClaimInv
<1>1. ASSUME NEW e, Raise(c, e) PROVE FALSE
  BY <1>1, RaiseReports
<1>2. CASE Crash(c)
  BY <1>2 DEF Crash
<1>3. CASE OpenStep(c)
  <2>1. Commit(c) \/ \E d \in Calls : Resolve(c, d)
    BY <1>1, <1>3
       DEF OpenStep, Insert, InsertDoesNothing, FindByKey, FindByWork, CacheHit,
           CacheMiss, TakeAdmissionLock, ReadReserved, ReadSettled, CountSlots,
           Refuse, Decide, Proceed
  <2> QED BY <2>1, CommitReports, ReplayReports
<1>4. CASE RunStep(c)
  <2>1. ReconcileProviderFailure(c) \/ RefuseResult(c) \/ Persist(c)
    BY <1>1, <1>4
       DEF RunStep, Start, Advance, ProviderFails, ProviderReturns, BeginValidation
  <2>2. CASE ReconcileProviderFailure(c) \/ RefuseResult(c)
    <3>1. \E e : ReconcileFailure(c, job[c].state, e)
      BY <2>2, RunPlaces DEF ReconcileProviderFailure, RefuseResult, Accounted
    <3> QED BY <3>1, FailureReports
  <2>3. CASE Persist(c)
    <3>1. cache' # cache
      <4>1. cache[Work(c)] = NoResult
        BY <2>3, FreshIs DEF Persist, FreshAt, Missed, RunLabels
      <4>2. RefusalOf(c, NoResult) # ""
        BY DEF RefusalOf, NoResult
      <4> QED BY <1>1, <2>3, <4>1, <4>2, WorkType DEF Persist, TypeOK
    <3>2. /\ job'[c].state = "COMPLETED" /\ job'[c].error = ""
          /\ outcome'[c].state = "COMPLETED" /\ outcome'[c].error = ""
          /\ outcome'[c].output = reply[c].result
      <4>1. /\ job'[c] = Row("COMPLETED", 0, "")
            /\ outcome'[c] = Outcome("COMPLETED", reply[c].result, "")
        BY <3>1, CacheWrite
      <4>2. /\ Row("COMPLETED", 0, "").state = "COMPLETED"
            /\ Row("COMPLETED", 0, "").error = ""
        BY DEF Row
      <4>3. \A r : /\ Outcome("COMPLETED", r, "").state = "COMPLETED"
                   /\ Outcome("COMPLETED", r, "").error = ""
                   /\ Outcome("COMPLETED", r, "").output = r
        BY DEF Outcome
      <4> QED BY <4>1, <4>2, <4>3
    <3>3. cache'[Work(c)] = reply[c].result /\ reply[c].result # NoResult
      BY <3>1, CacheWrite, WorkType DEF TypeOK
    <3> QED BY <3>2, <3>3 DEF ReportOf
  <2> QED BY <2>1, <2>2, <2>3
<1> QED BY <1>2, <1>3, <1>4 DEF Step

LEMMA ReportedKept ==
  ASSUME StoredInv, NEW c \in Calls, Step(c) \/ Crash(c), NEW d \in Calls
  PROVE  ReportedAt(d)'
<1> SUFFICES ASSUME outcome'[d].state \in {"COMPLETED", "FAILED"}
             PROVE  \E e \in Calls : ReportOf(d, e)'
  BY DEF ReportedAt
<1>1. CASE outcome'[d] = outcome[d]
  <2>1. PICK e \in Calls : ReportOf(d, e)
    BY <1>1 DEF StoredInv, ReportedAt
  <2> QED BY <1>1, <2>1, ReportStays
<1>2. CASE outcome'[d] # outcome[d]
  <2>1. d = c
    BY <1>2, OthersUntouched DEF Untouched, StoredInv, ClaimInv
  <2> QED BY <1>2, <2>1, ReportMade
<1> QED BY <1>1, <1>2

(* Every stored result has the row and the usage record of its run.        *)
LEMMA PaidForKept ==
  ASSUME StoredInv, NEW c \in Calls, Step(c) \/ Crash(c), NEW w \in Works,
         cache'[w] # NoResult
  PROVE  PaidFor(w)'
<1> USE DEF StoredInv, ClaimInv
<1>1. CASE cache[w] # NoResult
  <2>1. PICK d \in Calls : /\ Work(d) = w /\ Trustworthy(d, cache[w])
                           /\ job[d].state = "COMPLETED" /\ usage[d].rows = 1
    BY <1>1 DEF PaidFor
  <2>2. job'[d] = job[d] /\ usage'[d] = usage[d]
    BY <2>1, SettledStays DEF Settled
  <2>3. cache'[w] = cache[w]
    BY <1>1, CacheStays
  <2> QED BY <2>1, <2>2, <2>3 DEF PaidFor, Trustworthy
<1>2. CASE cache[w] = NoResult
  <2>1. cache' # cache
    BY <1>2
  <2>2. w = Work(c) /\ cache'[w] = reply[c].result
    BY <1>2, <2>1, CacheWrite DEF TypeOK
  <2>3. /\ Trustworthy(c, reply[c].result) /\ job'[c] = Row("COMPLETED", 0, "")
        /\ usage'[c].rows = 1
    BY <2>1, CacheWrite
  <2>4. job'[c].state = "COMPLETED"
    <3>1. job'[c] = Row("COMPLETED", 0, "")
      BY <2>1, CacheWrite
    <3>2. Row("COMPLETED", 0, "").state = "COMPLETED"
      BY DEF Row
    <3> QED BY <3>1, <3>2
  <2>5. Trustworthy(c, cache'[w])
    BY <2>2, <2>3
  <2> QED BY <2>2, <2>3, <2>4, <2>5 DEF PaidFor, Trustworthy
<1> QED BY <1>1, <1>2

LEMMA InitStored == Init => StoredInv
<1> SUFFICES ASSUME Init PROVE StoredInv
  OBVIOUS
<1>1. \A c \in Calls : /\ job[c].state = "ABSENT" /\ draft[c].state = "ABSENT"
                       /\ outcome[c].state = ""
  BY DEF Init, NoRow, Row, NoOutcome, Outcome
<1>2. \A w \in Works : cache[w] = NoResult
  BY DEF Init
<1> QED BY <1>1, <1>2, InitClaims DEF StoredInv, BackedAt, ReportedAt

LEMMA NextStored == StoredInv /\ [Next]_vars => StoredInv'
<1> SUFFICES ASSUME StoredInv, [Next]_vars PROVE StoredInv'
  OBVIOUS
<1>1. ClaimInv'
  BY NextClaims DEF StoredInv
<1>2. ASSUME NEW c \in Calls, Step(c) \/ Crash(c)
      PROVE  StoredInv'
  <2>1. \A d \in Calls : BackedAt(d)' /\ ReportedAt(d)'
    BY <1>2, BackedKept, ReportedKept
  <2>2. \A w \in Works : cache'[w] # NoResult => PaidFor(w)'
    BY <1>2, PaidForKept
  <2> QED BY <1>1, <2>1, <2>2 DEF StoredInv
<1>3. CASE UNCHANGED vars
  BY <1>1, <1>3
     DEF StoredInv, vars, BackedAt, ReportedAt, ReportOf, PaidFor, Trustworthy
<1> QED BY <1>2, <1>3 DEF Next, Terminating

LEMMA StoredAlways == Spec => []StoredInv
BY InitStored, NextStored, PTL DEF Spec

(* Whatever a call reports as COMPLETED or FAILED, as a replay, a hit or   *)
(* the run itself, a committed row of its key or its work says the same,   *)
(* and the result it returns is the one that is stored: rows never change  *)
(* after _settle or _reconcile_failure, and neither does the cache.        *)
THEOREM ReportsAgree == Spec => []ReportsWhatIsStored
<1>1. StoredInv => ReportsWhatIsStored
  BY DEF StoredInv, ReportedAt, ReportOf, ReportsWhatIsStored
<1> QED BY <1>1, StoredAlways, PTL

(* Whatever results a provider returns, what the cache serves passed every *)
(* check of _settle and was paid for by a job that is COMPLETED.           *)
THEOREM CacheIsTrustworthy == Spec => []CachedIsValidated
<1>1. StoredInv => CachedIsValidated
  BY DEF StoredInv, PaidFor, CachedIsValidated
<1> QED BY <1>1, StoredAlways, PTL

----------------------------------------------------------------------------
(* Admission: the lock, the two sums, the slots.  The pipeline implements  *)
(* BudgetAuthority, and the ceiling and the slot limit follow.             *)

(* The authority counts and sums as the pipeline does.                     *)
LEMMA SameCount == \A S : Authority!Cardinality(S) = Cardinality(S)
BY DEF Authority!Cardinality, Cardinality

LEMMA SameTotal == \A purse, S : Authority!Total(purse, S) = Total(purse, S)
BY SameCount DEF Authority!Total, Authority!Coins, Total, Coins

----------------------------------------------------------------------------
(* How a write to one row moves the budget position.                       *)
LEMMA HeldChange ==
  ASSUME NEW c \in Calls, \A d \in Calls \ {c} : job'[d] = job[d]
  PROVE  /\ Held' = [Held EXCEPT ![c] = IF job'[c].state \in LiveStates
                                        THEN job'[c].reserved ELSE 0]
         /\ job'[c].state \in GpuSlotStates => SlotHolders' = SlotHolders \cup {c}
         /\ job'[c].state \notin GpuSlotStates => SlotHolders' = SlotHolders \ {c}
<1> DEFINE own == IF job'[c].state \in LiveStates THEN job'[c].reserved ELSE 0
<1>1. Held' = [d \in Calls |-> IF d = c THEN own ELSE Held[d]]
  BY DEF Held, Live
<1>2. Held' = [Held EXCEPT ![c] = own]
  <2> HIDE DEF own
  <2> QED BY <1>1 DEF Held
<1>3. job'[c].state \in GpuSlotStates => SlotHolders' = SlotHolders \cup {c}
  BY DEF SlotHolders
<1>4. job'[c].state \notin GpuSlotStates => SlotHolders' = SlotHolders \ {c}
  BY DEF SlotHolders
<1> QED BY <1>2, <1>3, <1>4

LEMMA CoveredChange ==
  ASSUME TypeOK, NEW c \in Calls, RecordUsage(c, reply[c].usd)
  PROVE  /\ Covered' = [Covered EXCEPT
                          ![c] = Lesser(usage[c].usd + reply[c].usd, Estimate(c))]
<1>1. /\ usage'[c].usd = usage[c].usd + reply[c].usd
      /\ \A d \in Calls \ {c} : usage'[d] = usage[d]
  BY DEF TypeOK, RecordUsage
<1> QED BY <1>1 DEF Covered

Quiet == UNCHANGED <<Held, Covered, SlotHolders>>

LEMMA NothingMoved ==
  ASSUME job' = job, usage' = usage
  PROVE  Quiet
BY DEF Quiet, Held, Covered, SlotHolders, Live

----------------------------------------------------------------------------
(* Every step of a call is a step of the authority, or quiet.              *)

LEMMA SettlesBudget ==
  ASSUME TypeOK, NEW c \in Calls, AccountAt(c), Live(c),
         RecordUsage(c, reply[c].usd), NEW s \in {"FAILED", "COMPLETED"}, NEW e,
         job' = [job EXCEPT ![c] = Row(s, 0, e)]
  PROVE  Authority!Settle(c)
<1>1. usage[c].usd = 0 /\ Held[c] = Estimate(c)
  BY DEF AccountAt, ChargedAt, Held
<1>2. reply[c].usd \in Nat /\ Estimate(c) \in Nat
  BY WorkType DEF TypeOK, Replies
<1> DEFINE u == Lesser(reply[c].usd, Estimate(c))
<1>3. u \in 0..Held[c]
  BY <1>1, <1>2 DEF Lesser
<1>4. Covered[c] = 0
  BY <1>1, <1>2 DEF Covered, Lesser
<1>5. Covered' = [Covered EXCEPT ![c] = Covered[c] + u]
  <2>1. usage[c].usd + reply[c].usd = reply[c].usd
    BY <1>1, <1>2
  <2>2. Covered[c] + u = u
    BY <1>2, <1>4 DEF Lesser
  <2> QED BY <2>1, <2>2, CoveredChange
<1>6. Held' = [Held EXCEPT ![c] = 0] /\ SlotHolders' = SlotHolders \ {c}
  <2>1. /\ job'[c].state = s
        /\ \A d \in Calls \ {c} : job'[d] = job[d]
    BY DEF Row, TypeOK
  <2>2. s \notin LiveStates /\ s \notin GpuSlotStates
    BY LiveFacts DEF GpuSlotStates
  <2> QED BY <2>1, <2>2, HeldChange
<1> QED BY <1>3, <1>5, <1>6 DEF Authority!Settle

LEMMA ReconcileBudget ==
  ASSUME TypeOK, NEW c \in Calls, AccountAt(c), Live(c), NEW e,
         ReconcileFailure(c, job[c].state, e)
  PROVE  Authority!Settle(c)
<1>1. RecordUsage(c, reply[c].usd) /\ job' = [job EXCEPT ![c] = Row("FAILED", 0, e)]
  BY DEF ReconcileFailure
<1> QED BY <1>1, SettlesBudget

LEMMA AdvanceBudget ==
  ASSUME TypeOK, NEW c \in Calls, NEW s \in LiveStates, NEW t \in LiveStates, NEW l,
         job[c].state = s, s \in GpuSlotStates, Advance(c, s, t, l)
  PROVE  /\ UNCHANGED <<Held, Covered>>
         /\ t \in GpuSlotStates => SlotHolders' = SlotHolders
         /\ t \notin GpuSlotStates => SlotHolders' = SlotHolders \ {c}
<1>1. job' = [job EXCEPT ![c] = Row(t, job[c].reserved, "")] /\ usage' = usage
  BY DEF Advance
<1>2. /\ job'[c].state = t
      /\ job'[c].reserved = job[c].reserved
      /\ \A d \in Calls \ {c} : job'[d] = job[d]
  BY <1>1 DEF Row, TypeOK
<1>3. Held[c] = job[c].reserved /\ c \in SlotHolders
  BY DEF Held, Live, SlotHolders
<1>4. Held' = [Held EXCEPT ![c] = Held[c]]
  BY <1>2, <1>3, HeldChange
<1>5. Held' = Held
  BY <1>4 DEF Held
<1>6. Covered' = Covered
  BY <1>1 DEF Covered
<1>7. t \in GpuSlotStates => SlotHolders' = SlotHolders \cup {c}
  BY <1>2, HeldChange
<1>8. t \notin GpuSlotStates => SlotHolders' = SlotHolders \ {c}
  BY <1>2, HeldChange
<1> QED BY <1>3, <1>5, <1>6, <1>7, <1>8

LEMMA RunBudget ==
  ASSUME TypeOK, NEW c \in Calls, AccountAt(c), RunStep(c)
  PROVE  Authority!Settle(c) \/ Authority!Vacate(c) \/ Quiet
<1>0. pc[c] \in RunLabels
  BY DEF RunStep, Start, ProviderFails, ProviderReturns, BeginValidation,
         ReconcileProviderFailure, RefuseResult, Persist, RunLabels
<1>1. Live(c)
  BY <1>0, RunPlaces
<1>2. CASE Start(c)
  <2>1. "GPU_AUTHORIZED" \in GpuSlotStates /\ "GPU_RUNNING" \in GpuSlotStates
    BY DEF GpuSlotStates
  <2> QED BY <1>2, <2>1, RunPlaces, LiveFacts, AdvanceBudget DEF Start, Quiet
<1>3. CASE ProviderFails(c)
  BY <1>3, NothingMoved DEF ProviderFails, tables
<1>4. CASE ProviderReturns(c)
  BY <1>4, NothingMoved DEF ProviderReturns, tables
<1>5. CASE BeginValidation(c)
  <2>1. "GPU_RUNNING" \in GpuSlotStates /\ "VALIDATING" \notin GpuSlotStates
    BY DEF GpuSlotStates
  <2>2. pc[c] = "returned" /\ job[c].state = "GPU_RUNNING"
    BY <1>5, RunPlaces DEF BeginValidation
  <2>3. UNCHANGED <<Held, Covered>> /\ SlotHolders' = SlotHolders \ {c}
    BY <1>5, <2>1, <2>2, LiveFacts, AdvanceBudget DEF BeginValidation
  <2>4. c \in SlotHolders
    BY <2>1, <2>2 DEF SlotHolders
  <2> QED BY <2>3, <2>4 DEF Authority!Vacate
<1>6. CASE ReconcileProviderFailure(c)
  BY <1>1, <1>6, RunPlaces, ReconcileBudget DEF ReconcileProviderFailure
<1>7. CASE RefuseResult(c)
  BY <1>1, <1>7, RunPlaces, ReconcileBudget DEF RefuseResult
<1>8. CASE Persist(c)
  <2>1. CASE \E d \in Calls \ {c} : Live(d) /\ Work(d) = Work(c)
    BY <1>8, <2>1, NothingMoved DEF Persist, tables
  <2>2. CASE ~\E d \in Calls \ {c} : Live(d) /\ Work(d) = Work(c)
    BY <1>1, <1>8, <2>2, SettlesBudget DEF Persist
  <2> QED BY <2>1, <2>2
<1> QED BY <1>2, <1>3, <1>4, <1>5, <1>6, <1>7, <1>8 DEF RunStep

----------------------------------------------------------------------------
(* The lock, and what was read under it.                                   *)

\* Between the lock and the COMMIT of an authorization.
Critical(c) == pc[c] \in LockedLabels \/ Authorizing(c)

\* What call c knows of the position while it is there.
AffordedAt(c) ==
  /\ pc[c] = "readSettled" => ReservedUsd <= seen[c]
  /\ pc[c] = "countSlots" \/ Authorizing(c)
       => CommittedUsd + Estimate(c) <= CeilingUsd
  /\ Authorizing(c) => Cardinality(SlotHolders) < MaxSlots

AdmissionInv == LockHeld /\ Afforded /\ WithinCeiling /\ SlotsWithinLimit
BudgetInv == TypeOK /\ Accounted /\ AdmissionInv

LEMMA CriticalIs ==
  /\ LockHeld <=> \A c \in Calls : Critical(c) => lock = c
  /\ Afforded <=> \A c \in Calls : AffordedAt(c)
  /\ \A c \in Calls : ~Critical(c) => AffordedAt(c)
BY DEF LockHeld, Critical, Afforded, AffordedAt, LockedLabels

(* Only the holder of the lock is critical, and a lock changes hands only  *)
(* through nobody.                                                         *)
LEMMA LockStep ==
  ASSUME TypeOK, NEW c \in Calls, AccountAt(c), Critical(c) => lock = c,
         Step(c) \/ Crash(c)
  PROVE  /\ Critical(c)' => lock' = c
         /\ \/ lock' = lock
            \/ lock = NoCall /\ lock' = c
            \/ lock = c /\ lock' = NoCall
<1> USE DEF TypeOK, Critical, Authorizing, LockedLabels, Go, tables
<1>1. CASE Crash(c)
  BY <1>1 DEF Crash
<1>2. CASE Insert(c)
  BY <1>2 DEF Insert
<1>3. CASE InsertDoesNothing(c)
  BY <1>3 DEF InsertDoesNothing, Proceed
<1>4. CASE FindByKey(c)
  BY <1>4 DEF FindByKey, Proceed, Resolve, Raise, Leave
<1>5. CASE FindByWork(c)
  BY <1>5 DEF FindByWork, Resolve, Raise, Leave
<1>6. CASE CacheHit(c)
  BY <1>6 DEF CacheHit, Decide, Row
<1>7. CASE CacheMiss(c)
  BY <1>7 DEF CacheMiss, Refuse, Decide, Proceed, Row, RefusalState, RefusalCodes
<1>8. CASE TakeAdmissionLock(c)
  BY <1>8 DEF TakeAdmissionLock
<1>9. CASE ReadReserved(c)
  BY <1>9 DEF ReadReserved
<1>10. CASE ReadSettled(c)
  BY <1>10 DEF ReadSettled, Refuse, Decide, Proceed
<1>11. CASE CountSlots(c)
  BY <1>11 DEF CountSlots, Refuse, Decide
<1>12. CASE Commit(c)
  BY <1>12 DEF Commit, Leave
<1>13. CASE RunStep(c)
  <2>1. CASE Start(c)
    BY <2>1 DEF Start, Advance, Raise, Leave
  <2>2. CASE ProviderFails(c) \/ ProviderReturns(c)
    BY <2>2 DEF ProviderFails, ProviderReturns
  <2>3. CASE BeginValidation(c)
    BY <2>3 DEF BeginValidation, Advance, Raise, Leave
  <2>4. CASE ReconcileProviderFailure(c)
    BY <2>4 DEF ReconcileProviderFailure, ReconcileFailure, Leave
  <2>5. CASE RefuseResult(c)
    BY <2>5 DEF RefuseResult, ReconcileFailure, Leave
  <2>6. CASE Persist(c)
    BY <2>6 DEF Persist, Raise, Leave
  <2> QED BY <1>13, <2>1, <2>2, <2>3, <2>4, <2>5, <2>6 DEF RunStep
<1> HIDE DEF TypeOK, Critical, Authorizing, LockedLabels, Go, tables
<1> QED BY <1>1, <1>2, <1>3, <1>4, <1>5, <1>6, <1>7, <1>8, <1>9, <1>10, <1>11,
           <1>12, <1>13 DEF Step, OpenStep

LEMMA LockKept ==
  ASSUME TypeOK, Accounted, LockHeld, NEW c \in Calls, Step(c) \/ Crash(c)
  PROVE  LockHeld'
<1>1. /\ Critical(c)' => lock' = c
      /\ \/ lock' = lock
         \/ lock = NoCall /\ lock' = c
         \/ lock = c /\ lock' = NoCall
  BY LockStep, CriticalIs DEF Accounted
<1>2. ASSUME NEW d \in Calls \ {c}, Critical(d)' PROVE lock' = d
  <2>1. Critical(d)
    BY <1>2, OthersUntouched DEF Untouched, Critical, Authorizing
  <2>2. lock = d
    BY <2>1, CriticalIs
  <2> QED BY <1>1, <2>2, RequestAssumption
<1> QED BY <1>1, <1>2 DEF LockHeld, Critical

----------------------------------------------------------------------------
(* Only the COMMIT of an authorization takes anything from the budget.     *)

LEMMA ReservesBudget ==
  ASSUME TypeOK, NEW c \in Calls, AccountAt(c), AffordedAt(c), Commit(c),
         Authorizing(c)
  PROVE  Authority!Reserve(c)
<1>1. job[c] = NoRow /\ usage[c] = NoUsage
  BY DEF AccountAt, PlacedAt, OpenLabels, Commit
<1>2. draft[c].state = "GPU_AUTHORIZED" /\ draft[c].reserved = Estimate(c)
  BY DEF AccountAt, PlacedAt, Authorizing
<1>3. /\ job'[c] = draft[c] /\ \A d \in Calls \ {c} : job'[d] = job[d]
      /\ usage' = usage
  BY DEF Commit, TypeOK
<1>4. /\ Held' = [Held EXCEPT ![c] = Estimate(c)]
      /\ SlotHolders' = SlotHolders \cup {c}
  <2>1. "GPU_AUTHORIZED" \in GpuSlotStates
    BY DEF GpuSlotStates
  <2> QED BY <1>2, <1>3, <2>1, LiveFacts, HeldChange
<1>5. Covered' = Covered
  BY <1>3 DEF Covered
<1>6. Held[c] = 0 /\ c \notin SlotHolders
  BY <1>1, RowFacts, LiveFacts DEF Held, Live, SlotHolders, GpuSlotStates
<1>7. Covered[c] = 0
  BY <1>1, WorkType DEF Covered, NoUsage, Lesser
<1>8. /\ CommittedUsd + Estimate(c) <= CeilingUsd
      /\ Cardinality(SlotHolders) < MaxSlots
  BY DEF AffordedAt
<1>9. [d \in Calls |-> Estimate(d)][c] = Estimate(c)
  OBVIOUS
<1>10. Authority!Committed + Estimate(c) <= CeilingUsd
  BY <1>8, SameTotal DEF Authority!Committed, CommittedUsd, ReservedUsd
<1> QED BY <1>4, <1>5, <1>6, <1>7, <1>8, <1>9, <1>10, SameCount
    DEF Authority!Reserve

LEMMA OpenBudget ==
  ASSUME TypeOK, NEW c \in Calls, AccountAt(c), AffordedAt(c), OpenStep(c)
  PROVE  (Critical(c) /\ Authority!Reserve(c)) \/ Quiet
<1>1. CASE Commit(c)
  <2>1. CASE Authorizing(c)
    BY <1>1, <2>1, ReservesBudget DEF Critical
  <2>2. CASE ~Authorizing(c)
    <3>1. /\ draft[c].state \in {"COMPLETED", "REJECTED", "BUDGET_EXCEEDED"}
          /\ job[c] = NoRow
      BY <1>1, <2>2 DEF AccountAt, PlacedAt, OpenLabels, Commit, Authorizing
    <3>2. /\ job'[c] = draft[c] /\ \A d \in Calls \ {c} : job'[d] = job[d]
          /\ usage' = usage
      BY <1>1 DEF Commit, TypeOK
    <3>3. /\ job'[c].state \notin LiveStates
          /\ job'[c].state \notin GpuSlotStates
      BY <3>1, <3>2, LiveFacts DEF GpuSlotStates
    <3>4. Held[c] = 0 /\ c \notin SlotHolders
      BY <3>1, RowFacts, LiveFacts DEF Held, Live, SlotHolders, GpuSlotStates
    <3>5. Held' = [Held EXCEPT ![c] = 0] /\ SlotHolders' = SlotHolders \ {c}
      BY <3>2, <3>3, HeldChange
    <3>6. Held' = Held
      <4>1. Held \in [Calls -> Nat]
        BY SumTypes
      <4>2. Held' = [Held EXCEPT ![c] = 0]
        BY <3>5
      <4> QED BY <3>4, <4>1, <4>2
    <3>7. SlotHolders' = SlotHolders
      BY <3>4, <3>5
    <3>8. Covered' = Covered
      BY <3>2 DEF Covered
    <3> QED BY <3>6, <3>7, <3>8 DEF Quiet
  <2> QED BY <2>1, <2>2
<1>2. CASE ~Commit(c)
  <2>1. UNCHANGED tables
    BY <1>2 DEF OpenStep, Insert, InsertDoesNothing, FindByKey, FindByWork, Resolve,
                Raise, Leave, CacheHit, CacheMiss, TakeAdmissionLock, ReadReserved,
                ReadSettled, CountSlots, Refuse, Decide, Proceed
  <2> QED BY <2>1, NothingMoved DEF tables
<1> QED BY <1>1, <1>2

LEMMA StepBudget ==
  ASSUME TypeOK, NEW c \in Calls, AccountAt(c), AffordedAt(c), Step(c) \/ Crash(c)
  PROVE  \/ Critical(c) /\ Authority!Reserve(c)
         \/ Authority!Settle(c) \/ Authority!Vacate(c) \/ Quiet
<1>1. CASE Crash(c)
  BY <1>1, NothingMoved DEF Crash, tables
<1>2. CASE OpenStep(c)
  BY <1>2, OpenBudget
<1>3. CASE RunStep(c)
  BY <1>3, RunBudget
<1> QED BY <1>1, <1>2, <1>3 DEF Step

(* Giving back: neither the reservations, nor the committed total, nor the *)
(* slots grow.                                                             *)
Returns ==
  /\ ReservedUsd' <= ReservedUsd /\ CommittedUsd' <= CommittedUsd
  /\ Cardinality(SlotHolders') <= Cardinality(SlotHolders)

LEMMA PositionTypes ==
  ASSUME TypeOK
  PROVE  /\ ReservedUsd \in Nat /\ CommittedUsd \in Nat
         /\ IsFiniteSet(SlotHolders) /\ Cardinality(SlotHolders) \in Nat
<1>1. IsFiniteSet(SlotHolders)
  BY RequestAssumption, FS_Subset DEF SlotHolders
<1> QED BY <1>1, SumTypes, FS_CardinalityType DEF CommittedUsd

LEMMA FewerHolders ==
  ASSUME TypeOK, NEW c, SlotHolders' = SlotHolders \ {c}
  PROVE  Cardinality(SlotHolders') <= Cardinality(SlotHolders)
BY PositionTypes, FS_Subset

LEMMA GivesBack ==
  ASSUME TypeOK, NEW c \in Calls,
         Authority!Settle(c) \/ Authority!Vacate(c) \/ Quiet
  PROVE  Returns
<1>1. CASE Authority!Settle(c)
  <2>1. PICK u \in 0..Held[c] : Covered' = [Covered EXCEPT ![c] = @ + u]
    BY <1>1 DEF Authority!Settle
  <2>2. Held' = [Held EXCEPT ![c] = 0] /\ SlotHolders' = SlotHolders \ {c}
    BY <1>1 DEF Authority!Settle
  <2>3. /\ Held \in [Calls -> Nat] /\ Held' \in [Calls -> Nat]
        /\ Covered \in [Calls -> Nat] /\ Covered' \in [Calls -> Nat]
    <3>1. Held \in [Calls -> Nat] /\ Covered \in [Calls -> Nat]
      BY SumTypes
    <3>2. Held[c] \in Nat /\ Covered[c] + u \in Nat
      BY <3>1
    <3> QED BY <2>1, <2>2, <3>1, <3>2
  <2>4. Total(Held', Calls) = Total(Held, Calls) - Held[c] + Held'[c]
    <3>1. \A d \in Calls \ {c} : Held'[d] = Held[d]
      BY <2>2, <2>3
    <3> QED BY <2>3, <3>1, RequestAssumption, TotalUpdate
  <2>5. Total(Covered', Calls) = Total(Covered, Calls) - Covered[c] + Covered'[c]
    <3>1. \A d \in Calls \ {c} : Covered'[d] = Covered[d]
      BY <2>1, <2>3
    <3> QED BY <2>3, <3>1, RequestAssumption, TotalUpdate
  <2>6. /\ Held'[c] = 0 /\ Covered'[c] = Covered[c] + u
        /\ u \in Nat /\ u <= Held[c] /\ Held[c] \in Nat /\ Covered[c] \in Nat
    BY <2>1, <2>2, <2>3
  <2>7. Total(Held, Calls) \in Nat /\ Total(Covered, Calls) \in Nat
    BY <2>3, RequestAssumption, TotalNat
  <2>8. ReservedUsd' <= ReservedUsd
    BY <2>4, <2>6, <2>7 DEF ReservedUsd
  <2>9. CommittedUsd' <= CommittedUsd
    BY <2>4, <2>5, <2>6, <2>7 DEF CommittedUsd, ReservedUsd
  <2> QED BY <2>2, <2>8, <2>9, FewerHolders DEF Returns
<1>2. CASE Authority!Vacate(c)
  <2>1. ReservedUsd' = ReservedUsd /\ CommittedUsd' = CommittedUsd
    BY <1>2 DEF Authority!Vacate, CommittedUsd, ReservedUsd
  <2>2. SlotHolders' = SlotHolders \ {c}
    BY <1>2 DEF Authority!Vacate
  <2> QED BY <2>1, <2>2, PositionTypes, FewerHolders DEF Returns
<1>3. CASE Quiet
  BY <1>3, PositionTypes DEF Quiet, Returns, CommittedUsd, ReservedUsd
<1> QED BY <1>1, <1>2, <1>3

----------------------------------------------------------------------------
(* What an admission has established survives until it commits.            *)

LEMMA AffordedOwn ==
  ASSUME TypeOK, NEW c \in Calls, AccountAt(c), AffordedAt(c), Step(c) \/ Crash(c)
  PROVE  AffordedAt(c)'
<1>1. CASE ReadReserved(c)
  <2>1. pc'[c] = "readSettled" /\ seen'[c] = ReservedUsd /\ ReservedUsd' = ReservedUsd
    BY <1>1 DEF ReadReserved, Go, TypeOK, Position, tables, ReservedUsd, Held, Live
  <2> QED BY <2>1, PositionTypes DEF AffordedAt, Authorizing
<1>2. CASE ReadSettled(c) /\ pc'[c] = "countSlots"
  <2>1. CommittedUsd' = CommittedUsd
    BY <1>2 DEF ReadSettled, Refuse, Decide, Proceed, tables, CommittedUsd,
                ReservedUsd, Held, Live, Covered
  <2>2. ReservedUsd <= seen[c]
    BY <1>2 DEF ReadSettled, AffordedAt
  <2>3. seen[c] + SettledUsd + Estimate(c) <= CeilingUsd
    <3>1. seen[c] \in Nat /\ SettledUsd \in Nat /\ Estimate(c) \in Nat
          /\ CeilingUsd \in Nat
      BY SumTypes, WorkType DEF TypeOK
    <3>2. ~(seen[c] + SettledUsd + Estimate(c) > CeilingUsd)
      BY <1>2 DEF ReadSettled, Refuse, Decide, Go, TypeOK, Position
    <3> QED BY <3>1, <3>2
  <2>4. Total(Covered, Calls) <= SettledUsd
    <3>1. Covered \in [Calls -> Nat] /\ Spent \in [Calls -> Nat]
      BY SumTypes
    <3>2. \A d \in Calls : Covered[d] <= Spent[d]
      BY WorkType DEF Covered, Spent, Lesser, TypeOK
    <3> QED BY <3>1, <3>2, RequestAssumption, TotalMonotone DEF SettledUsd
  <2>5. CommittedUsd + Estimate(c) <= CeilingUsd
    <3>1. /\ ReservedUsd \in Nat /\ seen[c] \in Nat /\ SettledUsd \in Nat
          /\ Total(Covered, Calls) \in Nat /\ Estimate(c) \in Nat
          /\ CeilingUsd \in Nat
      BY SumTypes, WorkType DEF TypeOK
    <3> QED BY <2>2, <2>3, <2>4, <3>1 DEF CommittedUsd
  <2> QED BY <1>2, <2>1, <2>5 DEF AffordedAt, Authorizing
<1>3. CASE CountSlots(c) /\ Authorizing(c)'
  <2>1. job' = job /\ usage' = usage
    BY <1>3 DEF CountSlots, Refuse, Decide, tables
  <2>2. /\ CommittedUsd' = CommittedUsd /\ SlotHolders' = SlotHolders
    BY <2>1 DEF CommittedUsd, ReservedUsd, Held, Live, Covered, SlotHolders
  <2>3. CommittedUsd + Estimate(c) <= CeilingUsd
    BY <1>3 DEF CountSlots, AffordedAt
  <2>4. ~(Cardinality(SlotHolders) >= MaxSlots)
    <3>1. SUFFICES ASSUME Cardinality(SlotHolders) >= MaxSlots PROVE FALSE
      OBVIOUS
    <3>2. Refuse(c, "GPU_CONCURRENCY_LIMIT")
      BY <1>3, <3>1 DEF CountSlots
    <3>3. draft'[c].state = "REJECTED"
      BY <3>2 DEF Refuse, Decide, TypeOK, Row, RefusalState, RefusalCodes
    <3> QED BY <1>3, <3>3 DEF Authorizing
  <2>5. Cardinality(SlotHolders) < MaxSlots
    BY <2>4, PositionTypes, PolicyAssumption
  <2>6. pc'[c] = "commit"
    BY <1>3 DEF Authorizing
  <2> QED BY <2>2, <2>3, <2>5, <2>6 DEF AffordedAt
<1>4. CASE ~ReadReserved(c) /\ ~(ReadSettled(c) /\ pc'[c] = "countSlots")
           /\ ~(CountSlots(c) /\ Authorizing(c)')
  <2>1. pc'[c] \notin {"readSettled", "countSlots"} /\ ~Authorizing(c)'
    <3> USE DEF TypeOK, Authorizing, Go, tables
    <3>1. CASE Crash(c)
      BY <3>1 DEF Crash
    <3>2. CASE Insert(c)
      BY <3>2 DEF Insert
    <3>3. CASE InsertDoesNothing(c)
      BY <3>3 DEF InsertDoesNothing, Proceed
    <3>4. CASE FindByKey(c)
      BY <3>4 DEF FindByKey, Proceed, Resolve, Raise, Leave
    <3>5. CASE FindByWork(c)
      BY <3>5 DEF FindByWork, Resolve, Raise, Leave
    <3>6. CASE CacheHit(c)
      BY <3>6 DEF CacheHit, Decide, Row
    <3>7. CASE CacheMiss(c)
      BY <3>7 DEF CacheMiss, Refuse, Decide, Proceed, Row, RefusalState, RefusalCodes
    <3>8. CASE TakeAdmissionLock(c)
      BY <3>8 DEF TakeAdmissionLock, Row, RefusalState, RefusalCodes
    <3>9. CASE ReadSettled(c)
      BY <1>4, <3>9 DEF ReadSettled, Refuse, Decide, Proceed, Row, RefusalState,
                        RefusalCodes
    <3>10. CASE CountSlots(c)
      BY <1>4, <3>10 DEF CountSlots, Refuse, Decide
    <3>11. CASE Commit(c)
      BY <3>11 DEF Commit, Leave
    <3>12. CASE RunStep(c)
      BY <3>12 DEF RunStep, Start, Advance, ProviderFails, ProviderReturns,
                   BeginValidation, ReconcileProviderFailure, ReconcileFailure,
                   RefuseResult, Persist, Raise, Leave
    <3> HIDE DEF TypeOK, Authorizing, Go, tables
    <3> QED BY <1>4, <3>1, <3>2, <3>3, <3>4, <3>5, <3>6, <3>7, <3>8, <3>9, <3>10,
               <3>11, <3>12 DEF Step, OpenStep
  <2> QED BY <2>1 DEF AffordedAt
<1> QED BY <1>1, <1>2, <1>3, <1>4

(* Another call's admission: it holds the lock, so c cannot be reserving,  *)
(* and everything else c may do gives back.                                *)
LEMMA AffordedOther ==
  ASSUME TypeOK, Accounted, LockHeld, Afforded, NEW c \in Calls,
         Step(c) \/ Crash(c), NEW d \in Calls \ {c}
  PROVE  AffordedAt(d)'
<1>1. Untouched(d)
  BY OthersUntouched
<1>2. CASE Critical(d)
  <2>1. ~Critical(c)
    BY <1>2, CriticalIs
  <2>2. Authority!Settle(c) \/ Authority!Vacate(c) \/ Quiet
    BY <2>1, StepBudget, CriticalIs DEF Accounted
  <2>3. Returns
    BY <2>2, GivesBack
  <2>4. /\ ReservedUsd \in Nat /\ CommittedUsd \in Nat
        /\ Cardinality(SlotHolders) \in Nat
        /\ seen[d] \in Nat /\ Estimate(d) \in Nat /\ CeilingUsd \in Nat
    BY PositionTypes, SumTypes, WorkType DEF TypeOK
  <2>5. /\ ReservedUsd' \in Int /\ CommittedUsd' \in Int
        /\ Cardinality(SlotHolders') \in Int
    <3>1. TypeOK'
      BY NextTypeOK DEF Next
    <3>2. (TypeOK => /\ ReservedUsd \in Nat /\ CommittedUsd \in Nat
                     /\ Cardinality(SlotHolders) \in Nat)'
      BY PositionTypes, PTL
    <3> QED BY <3>1, <3>2
  <2>6. AffordedAt(d)
    BY CriticalIs
  <2>7. /\ pc'[d] = "readSettled" => ReservedUsd' <= seen'[d]
    BY <1>1, <2>3, <2>4, <2>5, <2>6 DEF Returns, AffordedAt, Untouched
  <2>8. pc'[d] = "countSlots" \/ Authorizing(d)'
          => CommittedUsd' + Estimate(d) <= CeilingUsd
    <3>1. pc'[d] = "countSlots" \/ Authorizing(d)'
            => pc[d] = "countSlots" \/ Authorizing(d)
      BY <1>1 DEF Untouched, Authorizing
    <3> QED BY <2>3, <2>4, <2>5, <2>6, <3>1 DEF Returns, AffordedAt
  <2>9. Authorizing(d)' => Cardinality(SlotHolders') < MaxSlots
    <3>1. Authorizing(d)' => Authorizing(d)
      BY <1>1 DEF Untouched, Authorizing
    <3> QED BY <2>3, <2>4, <2>5, <2>6, <3>1, PolicyAssumption
            DEF Returns, AffordedAt
  <2> QED BY <2>7, <2>8, <2>9 DEF AffordedAt
<1>3. CASE ~Critical(d)
  <2>1. ~Critical(d)'
    BY <1>1, <1>3 DEF Untouched, Critical, Authorizing
  <2> QED BY <2>1 DEF AffordedAt, Critical, LockedLabels
<1> QED BY <1>2, <1>3

(* The ceiling and the limit themselves.                                   *)
LEMMA LimitsKept ==
  ASSUME BudgetInv, NEW c \in Calls, Step(c) \/ Crash(c)
  PROVE  WithinCeiling' /\ SlotsWithinLimit'
<1> USE DEF BudgetInv, AdmissionInv
<1>1. TypeOK /\ AccountAt(c) /\ AffordedAt(c)
  BY CriticalIs DEF Accounted
<1>2. /\ CommittedUsd \in Nat /\ Cardinality(SlotHolders) \in Nat
      /\ CeilingUsd \in Nat /\ MaxSlots \in Nat /\ Estimate(c) \in Nat
      /\ CommittedUsd <= CeilingUsd /\ Cardinality(SlotHolders) <= MaxSlots
  BY PositionTypes, SumTypes, WorkType, PolicyAssumption
     DEF WithinCeiling, SlotsWithinLimit, CommittedUsd
<1>3. CASE Authority!Reserve(c)
  <2>1. /\ Held' = [Held EXCEPT ![c] = Estimate(c)]
        /\ SlotHolders' = SlotHolders \cup {c} /\ c \notin SlotHolders
        /\ Covered' = Covered /\ Held[c] = 0
        /\ Authority!Committed + Estimate(c) <= CeilingUsd
        /\ Authority!Cardinality(SlotHolders) < MaxSlots
    BY <1>3 DEF Authority!Reserve
  <2>2. Total(Held', Calls) = Total(Held, Calls) - Held[c] + Held'[c]
    <3>1. Held \in [Calls -> Nat]
      BY <1>1, SumTypes
    <3>2. Held' \in [Calls -> Nat] /\ \A d \in Calls \ {c} : Held'[d] = Held[d]
      BY <1>2, <2>1, <3>1
    <3> QED BY <3>1, <3>2, RequestAssumption, TotalUpdate
  <2>3. Held'[c] = Estimate(c) /\ Total(Held, Calls) \in Nat
    BY <1>1, <2>1, SumTypes DEF ReservedUsd
  <2>4. Total(Held', Calls) + Total(Covered', Calls) <= CeilingUsd
    <3>1. Total(Covered, Calls) \in Nat
      BY <1>1, SumTypes
    <3> QED BY <1>2, <2>1, <2>2, <2>3, <3>1, SameTotal DEF Authority!Committed
  <2>5. Cardinality(SlotHolders \cup {c}) = Cardinality(SlotHolders) + 1
    BY <1>1, <2>1, PositionTypes, FS_AddElement
  <2>6. Cardinality(SlotHolders') <= MaxSlots
    BY <1>2, <2>1, <2>5, SameCount
  <2> QED BY <2>4, <2>6 DEF WithinCeiling, SlotsWithinLimit, ReservedUsd
<1>4. CASE Authority!Settle(c) \/ Authority!Vacate(c) \/ Quiet
  <2>1. Returns
    BY <1>1, <1>4, GivesBack
  <2>2. CommittedUsd' \in Nat /\ Cardinality(SlotHolders') \in Nat
    <3>1. TypeOK'
      BY <1>1, NextTypeOK DEF Next
    <3>2. (TypeOK => CommittedUsd \in Nat /\ Cardinality(SlotHolders) \in Nat)'
      BY PositionTypes, PTL
    <3> QED BY <3>1, <3>2
  <2>3. CommittedUsd' <= CeilingUsd /\ Cardinality(SlotHolders') <= MaxSlots
    BY <1>2, <2>1, <2>2 DEF Returns
  <2> QED BY <2>3 DEF WithinCeiling, SlotsWithinLimit, CommittedUsd
<1> QED BY <1>1, <1>3, <1>4, StepBudget

LEMMA InitBudget == Init => BudgetInv
<1> SUFFICES ASSUME Init PROVE BudgetInv
  OBVIOUS
<1>1. TypeOK /\ Accounted
  BY InitTypeOK, InitAccounted
<1>2. \A c \in Calls : ~Critical(c)
  BY DEF Init, Critical, Authorizing, LockedLabels
<1>3. LockHeld /\ Afforded
  BY <1>2, CriticalIs
<1>4. \A c \in Calls : job[c] = NoRow /\ usage[c].usd = 0
  BY DEF Init
<1>5. WithinCeiling
  <2>1. \A c \in Calls : Held[c] = 0 /\ Covered[c] = 0
    BY <1>4, RowFacts, LiveFacts, WorkType DEF Held, Live, Covered, Lesser
  <2>2. Total(Held, Calls) = 0 /\ Total(Covered, Calls) = 0
    BY <2>1, TotalZero
  <2> QED BY <1>1, <2>2, SumTypes DEF WithinCeiling, ReservedUsd
<1>6. SlotsWithinLimit
  <2>1. SlotHolders = {}
    BY <1>4, RowFacts DEF SlotHolders, GpuSlotStates
  <2> QED BY <2>1, FS_EmptySet, PolicyAssumption DEF SlotsWithinLimit
<1> QED BY <1>1, <1>3, <1>5, <1>6 DEF BudgetInv, AdmissionInv

LEMMA NextBudget == BudgetInv /\ [Next]_vars => BudgetInv'
<1> SUFFICES ASSUME BudgetInv, [Next]_vars PROVE BudgetInv'
  OBVIOUS
<1>1. TypeOK' /\ Accounted'
  BY NextTypeOK, NextAccounted DEF BudgetInv
<1>2. ASSUME NEW c \in Calls, Step(c) \/ Crash(c) PROVE AdmissionInv'
  <2>1. LockHeld'
    BY <1>2, LockKept DEF BudgetInv, AdmissionInv
  <2>2. AffordedAt(c)'
    BY <1>2, AffordedOwn, CriticalIs DEF BudgetInv, AdmissionInv, Accounted
  <2>3. \A d \in Calls \ {c} : AffordedAt(d)'
    BY <1>2, AffordedOther DEF BudgetInv, AdmissionInv
  <2>4. Afforded'
    BY <2>2, <2>3 DEF Afforded, AffordedAt
  <2> QED BY <1>2, <2>1, <2>4, LimitsKept DEF AdmissionInv
<1>3. ASSUME UNCHANGED vars PROVE AdmissionInv'
  <2>1. LockHeld' /\ \A c \in Calls : Authorizing(c)' = Authorizing(c)
    BY <1>3 DEF vars, BudgetInv, AdmissionInv, LockHeld, Authorizing
  <2>2. Quiet
    BY <1>3, NothingMoved DEF vars
  <2>3. /\ ReservedUsd' = ReservedUsd /\ CommittedUsd' = CommittedUsd
        /\ SlotHolders' = SlotHolders
    BY <2>2 DEF Quiet, ReservedUsd, CommittedUsd
  <2>4. Afforded'
    BY <1>3, <2>1, <2>3 DEF vars, BudgetInv, AdmissionInv, Afforded
  <2>5. WithinCeiling' /\ SlotsWithinLimit'
    BY <2>2, <2>3 DEF BudgetInv, AdmissionInv, WithinCeiling, SlotsWithinLimit, Quiet
  <2> QED BY <2>1, <2>4, <2>5 DEF AdmissionInv
<1> QED BY <1>1, <1>2, <1>3 DEF Next, Terminating, BudgetInv

LEMMA BudgetAlways == Spec => []BudgetInv
BY InitBudget, NextBudget, PTL DEF Spec

----------------------------------------------------------------------------
(* However admissions, provider runs, settlements and crashes interleave,  *)
(* reservations and the spend they covered stay under the ceiling of the   *)
(* policy (admit_and_reserve, position).                                   *)
THEOREM CeilingHolds == Spec => []WithinCeiling
<1>1. BudgetInv => WithinCeiling
  BY DEF BudgetInv, AdmissionInv
<1> QED BY <1>1, BudgetAlways, PTL

(* Never more provider calls in flight than max_concurrent_gpu_jobs,       *)
(* whatever the number of processes.                                       *)
THEOREM SlotsHold == Spec => []GpuSlotsBounded
<1>1. BudgetInv => GpuSlotsBounded
  <2> SUFFICES ASSUME BudgetInv PROVE GpuSlotsBounded
    OBVIOUS
  <2>1. {c \in Calls : pc[c] = "atProvider"} \subseteq SlotHolders
    BY RunPlaces DEF BudgetInv, Accounted, SlotHolders, GpuSlotStates
  <2>2. IsFiniteSet(SlotHolders) /\ Cardinality(SlotHolders) <= MaxSlots
    BY PositionTypes DEF BudgetInv, AdmissionInv, SlotsWithinLimit
  <2>3. /\ Cardinality({c \in Calls : pc[c] = "atProvider"})
             <= Cardinality(SlotHolders)
        /\ IsFiniteSet({c \in Calls : pc[c] = "atProvider"})
    BY <2>1, <2>2, FS_Subset
  <2>4. /\ Cardinality({c \in Calls : pc[c] = "atProvider"}) \in Nat
        /\ Cardinality(SlotHolders) \in Nat
    BY <2>2, <2>3, FS_CardinalityType
  <2> QED BY <2>2, <2>3, <2>4, PolicyAssumption DEF GpuSlotsBounded
<1> QED BY <1>1, BudgetAlways, PTL

(* The pipeline with its two reads, its lock and its many transactions is  *)
(* an admission that checks and reserves in one step.                      *)
THEOREM PipelineImplementsAuthority == Spec => ImplementsAuthority
<1>1. Init => Authority!AuthorityInit
  <2> SUFFICES ASSUME Init PROVE Authority!AuthorityInit
    OBVIOUS
  <2>1. \A c \in Calls : job[c] = NoRow /\ usage[c].usd = 0
    BY DEF Init
  <2>2. Held = [c \in Calls |-> 0] /\ Covered = [c \in Calls |-> 0]
    BY <2>1, RowFacts, LiveFacts, WorkType DEF Held, Live, Covered, Lesser
  <2>3. SlotHolders = {}
    BY <2>1, RowFacts DEF SlotHolders, GpuSlotStates
  <2> QED BY <2>2, <2>3 DEF Authority!AuthorityInit
<1>2. BudgetInv /\ [Next]_vars
        => [Authority!AuthorityNext]_(Authority!authorityVars)
  <2> SUFFICES ASSUME BudgetInv, [Next]_vars
               PROVE  [Authority!AuthorityNext]_(Authority!authorityVars)
    OBVIOUS
  <2>1. ASSUME NEW c \in Calls, Step(c) \/ Crash(c)
        PROVE  Authority!AuthorityNext \/ Quiet
    <3>1. TypeOK /\ AccountAt(c) /\ AffordedAt(c)
      BY CriticalIs DEF BudgetInv, AdmissionInv, Accounted
    <3> QED BY <2>1, <3>1, StepBudget DEF Authority!AuthorityNext
  <2>2. ASSUME UNCHANGED vars PROVE Quiet
    BY <2>2, NothingMoved DEF vars
  <2>3. Authority!AuthorityNext \/ Quiet
    BY <2>1, <2>2 DEF Next, Terminating
  <2> QED BY <2>3 DEF Quiet, Authority!authorityVars
<1> QED BY <1>1, <1>2, BudgetAlways, PTL
        DEF Spec, ImplementsAuthority, Authority!AuthoritySpec

----------------------------------------------------------------------------
(* Beside an operator.  Somebody else abandons jobs and deletes documents  *)
(* at any moment.  A row may now be gone or ended while its call runs, so  *)
(* what came so far holds only up to admission; after it, the row is where *)
(* the call left it or it has been taken away.                             *)

(* The invariant.                                                          *)

\* Up to its commit nobody but the call has a say about its row.
OpenAt(c) ==
  IF pc[c] \in OpenLabels THEN AccountAt(c) ELSE draft[c] = NoRow

\* After it, the row is where the call expects it, or somebody took it away.
ExpectedAt(c) ==
  /\ pc[c] = "start" => job[c].state = "GPU_AUTHORIZED" \/ TakenAway(c)
  /\ pc[c] \in {"atProvider", "providerFailed", "returned"}
       => job[c].state = "GPU_RUNNING" \/ TakenAway(c)
  /\ pc[c] = "validate" => job[c].state = "VALIDATING" \/ TakenAway(c)

\* What the cache holds passed every check of some call of that work.
Stored(w) == \E c \in Calls : Work(c) = w /\ Trustworthy(c, cache[w])

OperatedInv ==
  /\ TypeOK
  /\ \A c \in Calls : OpenAt(c) /\ ExpectedAt(c) /\ BackedAt(c)
  /\ SingleFlight
  /\ \A w \in Works : cache[w] # NoResult => Stored(w)

----------------------------------------------------------------------------
(* Types.                                                                  *)
LEMMA AbandonTypes ==
  ASSUME TypeOK, NEW c \in Calls, Abandon(c)
  PROVE  TypeOK'
<1>1. PICK t \in Abandonable : job' = [job EXCEPT ![c] = Row(t, @.reserved, "")]
  BY DEF Abandon
<1>2. t \in States /\ "" \in Errors /\ job[c].reserved \in Nat
  BY RowFields DEF Abandonable, States, Errors, TypeOK
<1>3. Row(t, job[c].reserved, "") \in Rows
  BY <1>2, RowType
<1> QED BY <1>1, <1>3 DEF Abandon, TypeOK

LEMMA DeleteTypes ==
  ASSUME TypeOK, NEW d \in Documents, Delete(d)
  PROVE  TypeOK'
<1>1. job' \in [Calls -> Rows]
  BY EmptyTypes DEF Delete, RowsWithout, TypeOK
<1> QED BY <1>1 DEF Delete, TypeOK

LEMMA OperatedStepTypes ==
  ASSUME TypeOK, NEW c \in Calls, OperatedStep(c) \/ Crash(c)
  PROVE  TypeOK'
<1>1. CASE Step(c) \/ Crash(c)
  BY <1>1, OpenStepTypeOK, RunStepTypeOK, CrashTypeOK DEF Step
<1>2. CASE InsertForNobody(c) \/ LoseRow(c)
  BY <1>2, RaiseTypes DEF InsertForNobody, LoseRow, Exceptions
<1> QED BY <1>1, <1>2 DEF OperatedStep

\* What the next-state relation offers, without what it does to deleted.
Operator == (\E c \in Calls : Abandon(c)) \/ \E d \in Documents : Delete(d)

LEMMA OperatedCases ==
  ASSUME [OperatedNext]_operatedVars
  PROVE  \/ \E c \in Calls : OperatedStep(c) \/ Crash(c)
         \/ Operator
         \/ UNCHANGED vars
BY DEF OperatedNext, operatedVars, Operator, Terminating, vars

LEMMA OperatedTypesKept == TypeOK /\ [OperatedNext]_operatedVars => TypeOK'
<1> SUFFICES ASSUME TypeOK, [OperatedNext]_operatedVars PROVE TypeOK'
  OBVIOUS
<1>1. CASE UNCHANGED vars
  BY <1>1 DEF vars, TypeOK
<1> QED BY <1>1, OperatedCases, AbandonTypes, DeleteTypes, OperatedStepTypes DEF Operator

LEMMA OperatedTypesAlways == OperatedSpec => []TypeOK
BY InitTypeOK, OperatedTypesKept, PTL DEF OperatedSpec, OperatedInit

----------------------------------------------------------------------------
(* What each participant writes.                                           *)

\* Somebody else ends a job or takes its row away; nothing else changes.
LEMMA OperatorWrites ==
  ASSUME TypeOK, Operator
  PROVE  /\ UNCHANGED <<draft, usage, cache, lock, pc, seen, reply, outcome>>
         /\ \A c \in Calls : \/ job'[c] = job[c]
                             \/ Live(c) /\ job'[c].state \in Abandonable
                             \/ job'[c] = NoRow
<1>1. ASSUME NEW c \in Calls, Abandon(c)
      PROVE  \A d \in Calls : \/ job'[d] = job[d]
                              \/ Live(d) /\ job'[d].state \in Abandonable
  <2>1. PICK t \in Abandonable : job' = [job EXCEPT ![c] = Row(t, @.reserved, "")]
    BY <1>1 DEF Abandon
  <2>2. job'[c] = Row(t, job[c].reserved, "")
    BY <2>1 DEF TypeOK
  <2>3. Row(t, job[c].reserved, "").state = t
    BY DEF Row
  <2>4. job'[c].state = t
    BY <2>2, <2>3
  <2> QED BY <1>1, <2>1, <2>4 DEF Abandon, TypeOK
<1>2. ASSUME NEW d \in Documents, Delete(d)
      PROVE  \A c \in Calls : job'[c] = job[c] \/ job'[c] = NoRow
  BY <1>2 DEF Delete, RowsWithout
<1>3. UNCHANGED <<draft, usage, cache, lock, pc, seen, reply, outcome>>
  BY DEF Operator, Abandon, Delete
<1> QED BY <1>1, <1>2, <1>3 DEF Operator

\* A call that finds its document or its row gone raises and writes nothing.
Gone(c) == InsertForNobody(c) \/ LoseRow(c)

LEMMA GoneWrites ==
  ASSUME TypeOK, NEW c \in Calls, Gone(c)
  PROVE  /\ UNCHANGED <<job, usage, cache, draft, lock>>
         /\ pc' = [pc EXCEPT ![c] = "done"]
         /\ pc[c] = "insert" \/ Deleted(c)
BY DEF Gone, InsertForNobody, LoseRow, InsertDangles, Raise, Leave, Go, tables

LEMMA OperatedStepCases ==
  ASSUME NEW c \in Calls, OperatedStep(c) \/ Crash(c)
  PROVE  Gone(c) \/ Crash(c) \/ (Step(c) /\ (Deleted(c) => pc[c] = "atProvider"))
BY DEF OperatedStep, Gone

----------------------------------------------------------------------------
(* A job abandoned or deleted before its provider call never reaches a     *)
(* GPU: only _advance leads there, and it compares the state.              *)
THEOREM EndedJobsNeverStart == OperatedSpec => AbandonedNeverStarts
<1>1. TypeOK /\ [OperatedNext]_operatedVars
        => [\A c \in Calls : TakenAway(c) /\ pc[c] # "atProvider"
                               => pc'[c] # "atProvider"]_operatedVars
  <2> SUFFICES ASSUME TypeOK, OperatedNext, NEW c \in Calls, TakenAway(c),
                      pc[c] # "atProvider", pc'[c] = "atProvider"
               PROVE  FALSE
    BY DEF operatedVars
  <2>1. PICK d \in Calls : OperatedStep(d) \/ Crash(d)
    BY OperatedCases, OperatorWrites DEF vars
  <2>2. (Step(d) /\ (Deleted(d) => pc[d] = "atProvider")) \/ Crash(d)
    BY <2>1, OperatedStepCases, GoneWrites DEF TypeOK
  <2>3. d = c
    BY <2>2, OthersUntouched DEF Untouched
  <2>4. Start(c)
    BY <2>2, <2>3
       DEF TypeOK, Step, OpenStep, RunStep, Crash, Insert, InsertDoesNothing, FindByKey,
           FindByWork, Resolve, CacheHit, CacheMiss, TakeAdmissionLock, ReadReserved,
           ReadSettled, CountSlots, Commit, ProviderFails, ProviderReturns,
           BeginValidation, Advance, ReconcileProviderFailure, ReconcileFailure,
           RefuseResult, Persist, Refuse, Decide, Proceed, Raise, Leave, Go
  <2>5. job[c].state = "GPU_AUTHORIZED"
    BY <2>4 DEF Start, Advance, Raise, Leave, Go, TypeOK
  <2>6. job[c] # NoRow
    BY <2>5, RowFacts
  <2> QED BY <2>5, <2>6 DEF TakenAway, Deleted, Abandonable
<1> QED BY <1>1, OperatedTypesAlways, PTL DEF OperatedSpec, AbandonedNeverStarts

----------------------------------------------------------------------------
\* Usage rows are only ever added to.
LEMMA SpendOnlyGrows ==
  ASSUME TypeOK, [OperatedNext]_operatedVars, NEW c \in Calls
  PROVE  usage[c].usd <= usage'[c].usd
<1>1. usage[c].usd \in Nat /\ reply[c].usd \in Nat
  BY DEF TypeOK, Replies
<1>2. usage'[c] = usage[c] \/ RecordUsage(c, reply[c].usd)
  <2>1. ASSUME NEW d \in Calls, Step(d)
        PROVE  usage'[c] = usage[c] \/ (d = c /\ RecordUsage(c, reply[c].usd))
    <3>1. CASE d # c
      BY <2>1, <3>1, OthersUntouched DEF Untouched
    <3>2. CASE d = c /\ OpenStep(c)
      BY <3>2
         DEF OpenStep, Insert, InsertDoesNothing, FindByKey, FindByWork, Resolve,
             CacheHit, CacheMiss, TakeAdmissionLock, ReadReserved, ReadSettled,
             CountSlots, Commit, Refuse, Decide, Proceed, tables
    <3>3. CASE d = c /\ RunStep(c)
      BY <3>3
         DEF RunStep, Start, Advance, ProviderFails, ProviderReturns,
             BeginValidation, ReconcileProviderFailure, ReconcileFailure,
             RefuseResult, Persist, tables
    <3> QED BY <2>1, <3>1, <3>2, <3>3 DEF Step
  <2>2. ASSUME NEW d \in Calls, OperatedStep(d) \/ Crash(d)
        PROVE  usage'[c] = usage[c] \/ RecordUsage(c, reply[c].usd)
    BY <2>1, <2>2, OperatedStepCases, GoneWrites DEF Crash, tables
  <2> QED BY <2>2, OperatedCases, OperatorWrites DEF vars
<1> QED BY <1>1, <1>2 DEF RecordUsage, TypeOK

(* No abandonment, deletion or settlement, in any order and whatever the   *)
(* measured cost, lowers the spend that admission counts.                  *)
THEOREM SpendIsKept == OperatedSpec => SpendNeverForgotten
<1>1. TypeOK /\ TypeOK' /\ [OperatedNext]_operatedVars
        => [SettledUsd' >= SettledUsd]_operatedVars
  <2> SUFFICES ASSUME TypeOK, TypeOK', [OperatedNext]_operatedVars
               PROVE  SettledUsd' >= SettledUsd
    OBVIOUS
  <2>1. Spent \in [Calls -> Nat] /\ SettledUsd \in Nat
    BY SumTypes
  <2>2. Spent' \in [Calls -> Nat] /\ SettledUsd' \in Nat
    <3>1. Spent' \in [Calls -> Nat]
      BY DEF TypeOK, Spent
    <3> QED BY <3>1, RequestAssumption, TotalNat DEF SettledUsd
  <2>3. \A c \in Calls : Spent[c] <= Spent'[c]
    BY SpendOnlyGrows DEF Spent
  <2>4. Total(Spent, Calls) <= Total(Spent', Calls)
    BY <2>1, <2>2, <2>3, RequestAssumption, TotalMonotone
  <2> QED BY <2>1, <2>2, <2>4 DEF SettledUsd
<1>2. TypeOK /\ [OperatedNext]_operatedVars => TypeOK'
  BY OperatedTypesKept
<1> QED BY <1>1, <1>2, OperatedTypesAlways, PTL DEF OperatedSpec, SpendNeverForgotten

----------------------------------------------------------------------------
(* Where the row of a call stands.                                         *)

LEMMA RunStepMoves ==
  ASSUME TypeOK, NEW c \in Calls, RunStep(c)
  PROVE  /\ pc[c] \in RunLabels /\ pc'[c] \notin OpenLabels
         /\ draft' = draft
         /\ Live(c)' => Live(c)
<1>1. pc[c] \in RunLabels
  BY DEF RunStep, Start, ProviderFails, ProviderReturns, BeginValidation,
         ReconcileProviderFailure, RefuseResult, Persist, RunLabels
<1>2. draft' = draft
  BY DEF RunStep, Start, BeginValidation, Advance, ProviderFails, ProviderReturns,
         ReconcileProviderFailure, ReconcileFailure, RefuseResult, Persist
<1>3. \E label \in {"atProvider", "validate", "providerFailed", "returned", "done"} :
        Go(c, label)
  <2>1. CASE Start(c) \/ BeginValidation(c)
    BY <2>1 DEF Start, BeginValidation, Advance, Raise, Leave
  <2>2. CASE ProviderFails(c) \/ ProviderReturns(c)
    BY <2>2 DEF ProviderFails, ProviderReturns
  <2>3. CASE ReconcileProviderFailure(c) \/ RefuseResult(c)
    BY <2>3 DEF ReconcileProviderFailure, ReconcileFailure, RefuseResult, Leave
  <2>4. CASE Persist(c)
    BY <2>4 DEF Persist, Raise, Leave
  <2> QED BY <2>1, <2>2, <2>3, <2>4 DEF RunStep
<1>4. pc'[c] \notin OpenLabels
  BY <1>3 DEF Go, TypeOK, OpenLabels
<1> SUFFICES ASSUME Live(c)' PROVE Live(c)
  BY <1>1, <1>2, <1>4
<1>5. CASE job' = job
  BY <1>5 DEF Live
<1>6. CASE Start(c) \/ BeginValidation(c)
  <2>1. job[c].state \in {"GPU_AUTHORIZED", "GPU_RUNNING"} \/ job' = job
    BY <1>6 DEF Start, BeginValidation, Advance, tables
  <2> QED BY <1>5, <2>1, LiveFacts DEF Live
<1>7. CASE ProviderFails(c) \/ ProviderReturns(c)
  BY <1>5, <1>7 DEF ProviderFails, ProviderReturns, tables
<1>8. CASE ReconcileProviderFailure(c) \/ RefuseResult(c)
  <2>1. PICK e : job' = job \/ job' = [job EXCEPT ![c] = Row("FAILED", 0, e)]
    BY <1>8 DEF ReconcileProviderFailure, RefuseResult, ReconcileFailure
  <2>2. job' = job \/ job'[c] = Row("FAILED", 0, e)
    BY <2>1 DEF TypeOK
  <2>3. Row("FAILED", 0, e).state = "FAILED"
    BY DEF Row
  <2>4. CASE job'[c] = Row("FAILED", 0, e)
    <3>1. job'[c].state = "FAILED"
      BY <2>3, <2>4
    <3> QED BY <3>1, LiveFacts DEF Live
  <2> QED BY <1>5, <2>2, <2>4
<1>9. CASE Persist(c)
  <2>1. job' = job \/ job'[c] = Row("COMPLETED", 0, "")
    BY <1>9 DEF Persist, tables, TypeOK
  <2>2. Row("COMPLETED", 0, "").state = "COMPLETED"
    BY DEF Row
  <2>3. CASE job'[c] = Row("COMPLETED", 0, "")
    <3>1. job'[c].state = "COMPLETED"
      BY <2>2, <2>3
    <3> QED BY <3>1, LiveFacts DEF Live
  <2> QED BY <1>5, <2>1, <2>3
<1> QED BY <1>6, <1>7, <1>8, <1>9 DEF RunStep

LEMMA PlacedIsExpected ==
  ASSUME NEW c \in Calls, AccountAt(c)
  PROVE  OpenAt(c) /\ ExpectedAt(c)
BY DEF AccountAt, PlacedAt, OpenAt, ExpectedAt

LEMMA OpenLabel ==
  ASSUME NEW c \in Calls, OpenStep(c)
  PROVE  pc[c] \in OpenLabels
BY DEF OpenStep, Insert, InsertDoesNothing, FindByKey, FindByWork, CacheHit, CacheMiss,
       TakeAdmissionLock, ReadReserved, ReadSettled, CountSlots, Commit, OpenLabels

LEMMA RunStepExpected ==
  ASSUME TypeOK, NEW c \in Calls, OpenAt(c), ExpectedAt(c), RunStep(c)
  PROVE  OpenAt(c)' /\ ExpectedAt(c)'
<1>1. OpenAt(c)'
  BY RunStepMoves DEF OpenAt, RunLabels, OpenLabels
<1> SUFFICES ExpectedAt(c)'
  BY <1>1
<1>2. CASE pc'[c] = "done"
  BY <1>2 DEF ExpectedAt
<1>3. ASSUME NEW s, NEW t, NEW l, Advance(c, s, t, l)
      PROVE  pc'[c] = "done" \/ (pc'[c] = l /\ job'[c].state = t)
  <2>1. Row(t, job[c].reserved, "").state = t
    BY DEF Row
  <2>2. pc'[c] = "done" \/ (pc'[c] = l /\ job'[c] = Row(t, job[c].reserved, ""))
    BY <1>3 DEF Advance, Raise, Leave, Go, TypeOK
  <2> QED BY <2>1, <2>2
<1>4. CASE Start(c)
  <2>1. Advance(c, "GPU_AUTHORIZED", "GPU_RUNNING", "atProvider")
    BY <1>4 DEF Start
  <2>2. pc'[c] = "done" \/ (pc'[c] = "atProvider" /\ job'[c].state = "GPU_RUNNING")
    BY <1>3, <2>1
  <2> QED BY <2>2 DEF ExpectedAt
<1>5. CASE BeginValidation(c)
  <2>1. Advance(c, "GPU_RUNNING", "VALIDATING", "validate")
    BY <1>5 DEF BeginValidation
  <2>2. pc'[c] = "done" \/ (pc'[c] = "validate" /\ job'[c].state = "VALIDATING")
    BY <1>3, <2>1
  <2> QED BY <2>2 DEF ExpectedAt
<1>6. CASE ProviderFails(c) \/ ProviderReturns(c)
  <2>1. /\ job' = job /\ pc[c] = "atProvider"
        /\ pc'[c] \in {"providerFailed", "returned"}
    BY <1>6 DEF ProviderFails, ProviderReturns, Go, tables, TypeOK
  <2> QED BY <2>1 DEF ExpectedAt, TakenAway, Deleted, RunLabels
<1>7. CASE ReconcileProviderFailure(c) \/ RefuseResult(c) \/ Persist(c)
  BY <1>2, <1>7 DEF ReconcileProviderFailure, RefuseResult, ReconcileFailure, Persist,
                    Raise, Leave, Go, TypeOK
<1> QED BY <1>4, <1>5, <1>6, <1>7 DEF RunStep

LEMMA PlacesKept ==
  ASSUME OperatedInv, [OperatedNext]_operatedVars, NEW d \in Calls
  PROVE  OpenAt(d)' /\ ExpectedAt(d)'
<1> USE DEF OperatedInv
<1>1. ASSUME Operator
      PROVE  OpenAt(d)' /\ ExpectedAt(d)'
  <2>1. /\ pc' = pc /\ draft' = draft /\ usage' = usage
        /\ \/ job'[d] = job[d]
           \/ Live(d) /\ job'[d].state \in Abandonable
           \/ job'[d] = NoRow
    BY <1>1, OperatorWrites
  <2>2. CASE pc[d] \in OpenLabels
    <3>1. job[d] = NoRow
      BY <2>2 DEF OpenAt, AccountAt, PlacedAt
    <3>2. job'[d] = job[d]
      BY <2>1, <3>1, RowFacts, LiveFacts DEF Live
    <3>3. AccountAt(d)'
      BY <2>1, <2>2, <3>2 DEF OpenAt, AccountAt, PlacedAt, ChargedAt, Live
    <3> QED BY <3>3, PlacedIsExpected DEF OpenAt, AccountAt, PlacedAt, ExpectedAt
  <2>3. CASE pc[d] \notin OpenLabels
    BY <2>1, <2>3 DEF OpenAt, ExpectedAt, TakenAway, Deleted, RunLabels
  <2> QED BY <2>2, <2>3
<1>2. ASSUME NEW c \in Calls, Gone(c)
      PROVE  OpenAt(d)' /\ ExpectedAt(d)'
  <2>1. /\ UNCHANGED <<job, usage, draft>> /\ pc' = [pc EXCEPT ![c] = "done"]
        /\ pc[c] = "insert" \/ Deleted(c)
    BY <1>2, GoneWrites
  <2>2. CASE d = c
    <3>1. draft[c] = NoRow
      BY <2>1 DEF OpenAt, AccountAt, PlacedAt, Deleted, RunLabels, OpenLabels
    <3> QED BY <2>1, <2>2, <3>1 DEF OpenAt, ExpectedAt, OpenLabels, TypeOK
  <2>3. CASE d # c
    BY <2>1, <2>3 DEF OpenAt, ExpectedAt, AccountAt, PlacedAt, ChargedAt, Live,
                      TakenAway, Deleted, TypeOK
  <2> QED BY <2>2, <2>3
<1>3. ASSUME NEW c \in Calls, Step(c) \/ Crash(c)
      PROVE  OpenAt(d)' /\ ExpectedAt(d)'
  <2>1. CASE d # c
    <3>1. Untouched(d)
      BY <1>3, <2>1, OthersUntouched
    <3> QED BY <3>1 DEF Untouched, OpenAt, ExpectedAt, AccountAt, PlacedAt, ChargedAt,
                        Live, TakenAway, Deleted
  <2>2. CASE d = c /\ OpenStep(c)
    <3>1. AccountAt(c)
      BY <2>2, OpenLabel DEF OpenAt
    <3>2. AccountAt(c)'
      BY <2>2, <3>1, OpenAccount
    <3> QED BY <2>2, <3>2 DEF AccountAt, PlacedAt, OpenAt, ExpectedAt
  <2>3. CASE d = c /\ RunStep(c)
    BY <2>3, RunStepExpected
  <2>4. CASE d = c /\ Crash(c)
    BY <2>4 DEF Crash, OpenAt, ExpectedAt, OpenLabels, Go, TypeOK
  <2> QED BY <1>3, <2>1, <2>2, <2>3, <2>4 DEF Step
<1>4. CASE UNCHANGED vars
  BY <1>4 DEF vars, OpenAt, ExpectedAt, AccountAt, PlacedAt, ChargedAt, Live,
              TakenAway, Deleted
<1> QED BY <1>1, <1>2, <1>3, <1>4, OperatedCases, OperatedStepCases

----------------------------------------------------------------------------
(* The partial unique index over the live cache keys.                      *)

\* Nobody but an insert claims anything new.
LEMMA NoNewClaim ==
  ASSUME OperatedInv, [OperatedNext]_operatedVars, ~\E c \in Calls : Insert(c),
         NEW d \in Calls, Claims(d)'
  PROVE  Claims(d)
<1> USE DEF OperatedInv
<1>1. CASE draft' = draft /\ (job' = job \/ UNCHANGED vars)
  BY <1>1 DEF Claims, Live, vars
<1>2. CASE Operator
  <2>1. /\ draft' = draft
        /\ job'[d] = job[d] \/ job'[d].state \in Abandonable \/ job'[d] = NoRow
    BY <1>2, OperatorWrites
  <2>2. Abandonable \cap LiveStates = {} /\ NoRow.state \notin LiveStates
    BY LiveFacts, RowFacts DEF Abandonable, LiveStates, TerminalStates, States
  <2> QED BY <2>1, <2>2 DEF Claims, Live
<1>3. ASSUME NEW c \in Calls, Gone(c)
      PROVE  Claims(d)
  BY <1>1, <1>3, GoneWrites
<1>4. ASSUME NEW c \in Calls, Step(c) \/ Crash(c)
      PROVE  Claims(d)
  <2>1. CASE d # c
    BY <1>4, <2>1, OthersUntouched DEF Untouched, Claims, Live
  <2>2. CASE d = c /\ OpenStep(c)
    <3>1. AccountAt(c)
      BY <2>2, OpenLabel DEF OpenAt
    <3> QED BY <2>2, <3>1, OpenClaims DEF NothingNew
  <2>3. CASE d = c /\ RunStep(c)
    BY <2>3, RunStepMoves DEF Claims
  <2>4. CASE d = c /\ Crash(c)
    BY <2>4 DEF Crash, Claims, Live, TypeOK, tables
  <2> QED BY <1>4, <2>1, <2>2, <2>3, <2>4 DEF Step
<1>5. CASE UNCHANGED vars
  BY <1>1, <1>5 DEF vars
<1> QED BY <1>2, <1>3, <1>4, <1>5, OperatedCases, OperatedStepCases

LEMMA OneFlightKept ==
  ASSUME OperatedInv, [OperatedNext]_operatedVars
  PROVE  SingleFlight'
<1> USE DEF OperatedInv
<1>1. CASE ~\E c \in Calls : Insert(c)
  BY <1>1, NoNewClaim DEF SingleFlight
<1>2. ASSUME NEW c \in Calls, Insert(c)
      PROVE  SingleFlight'
  <2>1. \A d \in Calls \ {c} : Claims(d)' = Claims(d)
    BY <1>2, OthersUntouched DEF Step, OpenStep, Untouched, Claims, Live
  <2> QED BY <1>2, <2>1, InsertIsFirst DEF SingleFlight
<1> QED BY <1>1, <1>2

----------------------------------------------------------------------------
(* What the cache holds.                                                   *)

\* The one step that writes the cache fills an empty place with the result
\* of a run that passed every check.
LEMMA PersistWrites ==
  ASSUME TypeOK, NEW c \in Calls, Step(c) \/ Crash(c), cache' # cache
  PROVE  /\ cache[Work(c)] = NoResult
         /\ cache' = [cache EXCEPT ![Work(c)] = reply[c].result]
         /\ Trustworthy(c, reply[c].result)
<1>1. Persist(c)
  <2>1. CASE RunStep(c)
    BY <2>1 DEF RunStep, Start, Advance, ProviderFails, ProviderReturns,
                BeginValidation, ReconcileProviderFailure, ReconcileFailure,
                RefuseResult, tables
  <2>2. CASE OpenStep(c)
    BY <2>2 DEF OpenStep, Insert, InsertDoesNothing, FindByKey, FindByWork, Resolve,
                CacheHit, CacheMiss, TakeAdmissionLock, ReadReserved, ReadSettled,
                CountSlots, Commit, Refuse, Decide, Proceed, tables
  <2>3. CASE Crash(c)
    BY <2>3 DEF Crash, tables
  <2> QED BY <2>1, <2>2, <2>3 DEF Step
<1>2. cache' = [cache EXCEPT ![Work(c)] = IF @ = NoResult THEN reply[c].result ELSE @]
  BY <1>1 DEF Persist, tables
<1>3. cache[Work(c)] = NoResult
  BY <1>2 DEF TypeOK
<1>4. Trustworthy(c, reply[c].result)
  BY <1>1 DEF Persist, RefusalOf, Trustworthy
<1> QED BY <1>2, <1>3, <1>4

\* The operator and a call that lost its row leave the cache alone.
LEMMA WhoWritesTheCache ==
  ASSUME TypeOK, [OperatedNext]_operatedVars, cache' # cache
  PROVE  \E c \in Calls : Step(c)
BY OperatedCases, OperatedStepCases, OperatorWrites, GoneWrites DEF vars, Crash, tables

LEMMA StoredKept ==
  ASSUME OperatedInv, [OperatedNext]_operatedVars, NEW w \in Works
  PROVE  /\ cache[w] # NoResult => cache'[w] = cache[w]
         /\ cache'[w] # NoResult => Stored(w)'
<1> USE DEF OperatedInv
<1>1. CASE cache' = cache
  BY <1>1 DEF Stored, Trustworthy
<1>2. CASE cache' # cache
  <2>1. PICK c \in Calls : Step(c)
    BY <1>2, WhoWritesTheCache
  <2>2. /\ cache[Work(c)] = NoResult
        /\ cache' = [cache EXCEPT ![Work(c)] = reply[c].result]
        /\ Trustworthy(c, reply[c].result)
    BY <1>2, <2>1, PersistWrites
  <2>3. CASE w = Work(c)
    BY <2>2, <2>3 DEF Stored, Trustworthy, TypeOK
  <2>4. CASE w # Work(c)
    BY <2>2, <2>4 DEF Stored, Trustworthy, TypeOK
  <2> QED BY <2>3, <2>4
<1> QED BY <1>1, <1>2

\* A row says COMPLETED after the result is there, and it stays there.
LEMMA OperatedBackedKept ==
  ASSUME OperatedInv, [OperatedNext]_operatedVars, NEW d \in Calls
  PROVE  BackedAt(d)'
<1> USE DEF OperatedInv
<1>0. Work(d) \in Works
  BY WorkType
<1>1. ASSUME "COMPLETED" \in {job'[d].state, draft'[d].state} =>
               \/ "COMPLETED" \in {job[d].state, draft[d].state}
               \/ cache[Work(d)] # NoResult \/ cache'[Work(d)] # NoResult
      PROVE  BackedAt(d)'
  BY <1>0, <1>1, StoredKept DEF BackedAt
<1>2. CASE job'[d] = job[d] /\ draft'[d].state \in {draft[d].state, "ABSENT"}
  BY <1>1, <1>2
<1>3. CASE Operator
  BY <1>1, <1>3, OperatorWrites, RowFacts DEF Abandonable
<1>4. ASSUME NEW c \in Calls, Gone(c)
      PROVE  BackedAt(d)'
  BY <1>2, <1>4, GoneWrites
<1>5. ASSUME NEW c \in Calls, Step(c) \/ Crash(c)
      PROVE  BackedAt(d)'
  <2>1. CASE d # c
    BY <1>2, <1>5, <2>1, OthersUntouched DEF Untouched
  <2>2. CASE d = c /\ OpenStep(c)
    BY <1>1, <2>2, OpenBacked
  <2>3. CASE d = c /\ Crash(c)
    BY <1>2, <2>3, RowFacts DEF Crash, tables, TypeOK
  <2>4. CASE d = c /\ RunStep(c) /\ ~Persist(c)
    <3>1. job'[c].state \in {job[c].state, "GPU_RUNNING", "VALIDATING", "FAILED"}
      BY <2>4, RunStates
    <3> QED BY <1>1, <2>4, <3>1, RunStepMoves
  <2>5. CASE d = c /\ Persist(c)
    <3>1. CASE \E e \in Calls \ {c} : Live(e) /\ Work(e) = Work(c)
      BY <1>2, <2>5, <3>1 DEF Persist, tables
    <3>2. CASE ~\E e \in Calls \ {c} : Live(e) /\ Work(e) = Work(c)
      <4>1. cache'[Work(c)] = IF cache[Work(c)] = NoResult THEN reply[c].result
                                                           ELSE cache[Work(c)]
        BY <1>0, <2>5, <3>2 DEF Persist, TypeOK
      <4>2. reply[c].result # NoResult
        <5>1. RefusalOf(c, NoResult) # ""
          BY DEF RefusalOf, NoResult
        <5> QED BY <2>5, <5>1 DEF Persist
      <4> QED BY <1>1, <2>5, <4>1, <4>2
    <3> QED BY <3>1, <3>2
  <2> QED BY <1>5, <2>1, <2>2, <2>3, <2>4, <2>5 DEF Step
<1>6. CASE UNCHANGED vars
  BY <1>2, <1>6 DEF vars
<1> QED BY <1>3, <1>4, <1>5, <1>6, OperatedCases, OperatedStepCases

----------------------------------------------------------------------------
(* The invariant holds, and what follows from it.                          *)
LEMMA InitOperated == OperatedInit => OperatedInv
<1> SUFFICES ASSUME Init PROVE OperatedInv
  BY DEF OperatedInit
<1>1. TypeOK /\ Accounted
  BY InitTypeOK, InitAccounted
<1>2. \A c \in Calls : /\ job[c].state = "ABSENT" /\ draft[c].state = "ABSENT"
                       /\ job[c] = NoRow /\ draft[c] = NoRow
  BY RowFacts DEF Init
<1>3. \A w \in Works : cache[w] = NoResult
  BY DEF Init
<1>4. \A c \in Calls : OpenAt(c) /\ ExpectedAt(c)
  BY <1>1, PlacedIsExpected DEF Accounted
<1>5. SingleFlight
  BY <1>2, LiveFacts DEF SingleFlight, Claims, Live
<1> QED BY <1>1, <1>2, <1>3, <1>4, <1>5 DEF OperatedInv, BackedAt

LEMMA NextOperated == OperatedInv /\ [OperatedNext]_operatedVars => OperatedInv'
<1> SUFFICES ASSUME OperatedInv, [OperatedNext]_operatedVars PROVE OperatedInv'
  OBVIOUS
<1>1. TypeOK'
  BY OperatedTypesKept DEF OperatedInv
<1>2. \A c \in Calls : OpenAt(c)' /\ ExpectedAt(c)' /\ BackedAt(c)'
  BY PlacesKept, OperatedBackedKept
<1>3. SingleFlight'
  BY OneFlightKept
<1>4. \A w \in Works : cache'[w] # NoResult => Stored(w)'
  BY StoredKept
<1> QED BY <1>1, <1>2, <1>3, <1>4 DEF OperatedInv

LEMMA OperatedAlways == OperatedSpec => []OperatedInv
BY InitOperated, NextOperated, PTL DEF OperatedSpec

(* A row that says COMPLETED has a result in the cache that passed every   *)
(* check of _settle and is about those bytes, also when somebody else      *)
(* abandoned or deleted a job of the same work: the cache keeps the first  *)
(* result, and it is there before any row says COMPLETED.                  *)
THEOREM CompletedIsBacked == OperatedSpec => []CompletedHasResult
<1>1. OperatedInv => CompletedHasResult
  <2> SUFFICES ASSUME OperatedInv, NEW c \in Calls, job[c].state = "COMPLETED"
               PROVE  LET r == cache[Work(c)]
                      IN  /\ r.ok /\ r.metadata /\ r.schema /\ r.domain
                          /\ r.cites \in {d \in Documents : Sha[d] = Sha[Doc(c)]}
    BY DEF CompletedHasResult
  <2>1. cache[Work(c)] # NoResult
    BY DEF OperatedInv, BackedAt
  <2>2. PICK e \in Calls : Work(e) = Work(c) /\ Trustworthy(e, cache[Work(c)])
    BY <2>1, WorkType DEF OperatedInv, Stored
  <2>3. Doc(e) \in Documents
    BY RequestAssumption DEF Doc
  <2>4. Sha[Doc(e)] = Sha[Doc(c)]
    BY <2>2 DEF Work
  <2> QED BY <2>2, <2>3, <2>4 DEF Trustworthy
<1> QED BY <1>1, OperatedAlways, PTL

(* A call that reached the provider and lives leaves without a usage row   *)
(* only if somebody else ended its job: nothing else can make the          *)
(* compare-and-set before validation miss or the live-work index refuse    *)
(* the persisting write.                                                   *)
THEOREM UnbilledWasTakenAway == OperatedSpec => UnbilledOnlyIfTakenAway
<1>1. OperatedInv /\ [OperatedNext]_operatedVars
        => [\A c \in Calls :
              (/\ pc[c] \in {"returned", "providerFailed", "validate"}
               /\ pc'[c] = "done" /\ usage'[c].rows = 0) => TakenAway(c)]_operatedVars
  <2> SUFFICES ASSUME OperatedInv, OperatedNext, NEW c \in Calls, ~TakenAway(c),
                      pc[c] \in {"returned", "providerFailed", "validate"},
                      pc'[c] = "done"
               PROVE  usage'[c].rows # 0
    BY DEF operatedVars
  <2> USE DEF OperatedInv
  <2>1. PICK d \in Calls : OperatedStep(d) \/ Crash(d)
    BY OperatedCases, OperatorWrites DEF vars
  <2>2. d = c
    BY <2>1, OperatedStepCases, OthersUntouched, GoneWrites DEF Untouched, TypeOK
  <2>3. Step(c)
    BY <2>1, <2>2, OperatedStepCases, GoneWrites DEF Crash, TakenAway, Go, TypeOK
  <2>4. ReconcileProviderFailure(c) \/ RefuseResult(c) \/ Persist(c) \/ BeginValidation(c)
    BY <2>3
       DEF Step, OpenStep, RunStep, Insert, InsertDoesNothing, FindByKey,
           FindByWork, CacheHit, CacheMiss, TakeAdmissionLock, ReadReserved,
           ReadSettled, CountSlots, Commit, Start, ProviderFails, ProviderReturns,
           Go, TypeOK
  <2>5. ASSUME RecordUsage(c, reply[c].usd)
        PROVE  usage'[c].rows # 0
    BY <2>5 DEF RecordUsage, TypeOK
  <2>6. CASE BeginValidation(c)
    BY <2>6 DEF BeginValidation, Advance, Go, TypeOK, ExpectedAt
  <2>7. CASE Persist(c)
    <3>1. Live(c)
      BY <2>7, LiveFacts DEF Persist, ExpectedAt, Live
    <3>2. ~\E e \in Calls \ {c} : Live(e) /\ Work(e) = Work(c)
      BY <3>1 DEF SingleFlight, Claims
    <3> QED BY <2>5, <2>7, <3>2 DEF Persist
  <2>8. CASE ReconcileProviderFailure(c) \/ RefuseResult(c)
    BY <2>5, <2>8 DEF ReconcileProviderFailure, RefuseResult, ReconcileFailure
  <2> QED BY <2>4, <2>6, <2>7, <2>8
<1> QED BY <1>1, OperatedAlways, PTL DEF OperatedSpec, UnbilledOnlyIfTakenAway

=============================================================================
