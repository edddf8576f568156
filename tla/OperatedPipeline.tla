--------------------------- MODULE OperatedPipeline ---------------------------
(***************************************************************************)
(* The pipeline beside somebody who abandons jobs and deletes documents.   *)
(* No route of this commit does either; docs/10 names POST                 *)
(* /jobs/{job_id}/cancel, the tests set a row to CANCELLED from outside    *)
(* the call that owns it, and the foreign keys of migration 0002 say what  *)
(* a deletion may take with it.  The operator respects the transition      *)
(* table and leaves the reservation column alone, as compare_and_set_state *)
(* does without it.                                                        *)
(***************************************************************************)
EXTENDS JobPipeline

CONSTANT Deletable   \* the documents somebody may delete

ASSUME DeletableAssumption == Deletable \subseteq Documents

VARIABLE deleted     \* the documents that are gone

operatedVars == <<job, draft, usage, cache, lock, pc, seen, reply, outcome,
                  deleted>>

----------------------------------------------------------------------------
(* The operator.                                                           *)

\* compare_and_set_state by another session, to any state the table allows.
Abandon(c) ==
  /\ Live(c)
  /\ \E t \in Abandonable :
       /\ ValidTransition(job[c].state, t)
       /\ job' = [job EXCEPT ![c] = Row(t, @.reserved, "")]
  /\ UNCHANGED <<draft, usage, cache, lock, pc, seen, reply, outcome, deleted>>

\* An open transaction that inserted a job of d holds the row of d.
DeletionMustWait(d) == \E c \in Calls : Doc(c) = d /\ draft[c] # NoRow

\* The jobs of d go with it, whatever state they are in.
RowsWithout(d) == [c \in Calls |-> IF Doc(c) = d THEN NoRow ELSE job[c]]

\* mutant: the usage foreign key cascades, as it did in the baseline schema
DeleteCascading(d) ==
  /\ d \in Deletable \ deleted /\ ~DeletionMustWait(d)
  /\ deleted' = deleted \cup {d}
  /\ job' = RowsWithout(d)
  /\ usage' = [c \in Calls |-> IF Doc(c) = d THEN NoUsage ELSE usage[c]]
  /\ UNCHANGED <<draft, cache, lock, pc, seen, reply, outcome>>

\* DELETE of a document or of its project.  A usage row restricts it; the
\* cache has no foreign key.
Delete(d) ==
  /\ d \in Deletable \ deleted /\ ~DeletionMustWait(d)
  /\ \A c \in Calls : Doc(c) = d => usage[c].rows = 0
  /\ deleted' = deleted \cup {d}
  /\ job' = RowsWithout(d)
  /\ UNCHANGED <<draft, usage, cache, lock, pc, seen, reply, outcome>>

----------------------------------------------------------------------------
(* The calls, when their row or their document may be gone.                *)

\* The row of c was committed and is no longer there.
Deleted(c) == pc[c] \in RunLabels /\ job[c] = NoRow

\* A job that collides with no row would be inserted for no document.
InsertDangles(c) ==
  /\ pc[c] = "insert" /\ Doc(c) \in deleted
  /\ ~InsertMustWait(c) /\ ~InsertCollides(c)

InsertForNobody(c) ==
  /\ InsertDangles(c)
  /\ Raise(c, "IntegrityError")
  /\ UNCHANGED <<tables, draft, lock>>

\* The usage row of a failed run has no job to refer to; every other step
\* looks for the job first.  Either way the transaction rolls back.
LoseRow(c) ==
  /\ Deleted(c) /\ pc[c] # "atProvider"
  /\ Raise(c, IF \/ pc[c] = "providerFailed"
                 \/ pc[c] = "validate" /\ RefusalOf(c, reply[c].result) # ""
              THEN "IntegrityError" ELSE "LookupError")
  /\ UNCHANGED <<tables, draft, lock>>

OperatedStep(c) ==
  /\ \/ InsertForNobody(c)
     \/ LoseRow(c)
     \/ /\ ~InsertDangles(c) /\ ~(Deleted(c) /\ pc[c] # "atProvider")
        /\ Step(c)
  /\ UNCHANGED deleted

OperatedInit == Init /\ deleted = {}

OperatedNext ==
  \/ \E c \in Calls : OperatedStep(c) \/ (Crash(c) /\ UNCHANGED deleted)
  \/ \E c \in Calls : Abandon(c)
  \/ \E d \in Documents : Delete(d)
  \/ (Terminating /\ UNCHANGED deleted)

OperatedSpec == OperatedInit /\ [][OperatedNext]_operatedVars

----------------------------------------------------------------------------
\* Somebody else ended the job of c, in whichever way.
TakenAway(c) == job[c].state \in Abandonable \/ Deleted(c)

(* A job abandoned or deleted before its provider call never reaches a     *)
(* GPU, however late its caller comes to start it.                         *)
AbandonedNeverStarts ==
  [][\A c \in Calls :
       TakenAway(c) /\ pc[c] # "atProvider" => pc'[c] # "atProvider"]_operatedVars

(* A row that says COMPLETED has a result in the cache that passed every   *)
(* check and is about those bytes, also when somebody else abandoned or    *)
(* deleted a job of the same work and a later call ran it again.           *)
CompletedHasResult ==
  \A c \in Calls : job[c].state = "COMPLETED" =>
    LET r == cache[Work(c)]
    IN  /\ r.ok /\ r.metadata /\ r.schema /\ r.domain
        /\ r.cites \in {d \in Documents : Sha[d] = Sha[Doc(c)]}

(* models.py: removing settled spend would free budget that is already     *)
(* gone.  No abandonment, deletion or settlement, in any order, lowers the *)
(* spend that admission counts.                                            *)
SpendNeverForgotten == [][SettledUsd' >= SettledUsd]_operatedVars

(* A call that reached the provider and does not die leaves without a      *)
(* usage row only if somebody else ended its job: _reconcile_failure       *)
(* records the spend of every failure and refusal, also of an abandoned    *)
(* job, and only a result that comes back to an abandoned or deleted job   *)
(* goes unbilled.                                                          *)
UnbilledOnlyIfTakenAway ==
  [][\A c \in Calls :
       (/\ pc[c] \in {"returned", "providerFailed", "validate"}
        /\ pc'[c] = "done" /\ usage'[c].rows = 0) => TakenAway(c)]_operatedVars

(* job_state.py: terminal states are final; _advance: a slow caller never  *)
(* resurrects a job an operator has since cancelled.                       *)
TerminalIsFinal ==
  [][\A c \in Calls : job[c].state \in TerminalStates
                        => job'[c].state \in {job[c].state, "ABSENT"}]_operatedVars

=============================================================================
