------------------------------ MODULE JobState ------------------------------
(***************************************************************************)
(* The inference job state machine of georeport3d/services/job_state.py:   *)
(* the states, which of them are terminal, which of them hold a GPU slot,  *)
(* and the table of permitted moves.  Rows of inference_jobs carry these   *)
(* states; the pipeline modules move them.                                 *)
(***************************************************************************)
EXTENDS FiniteSets

\* Every member of the JobState literal.
States == {"QUEUED", "PRECHECKING", "CACHE_LOOKUP", "GPU_AUTHORIZED",
           "GPU_RUNNING", "VALIDATING", "PERSISTING", "COMPLETED", "REJECTED",
           "CANCELLED", "FAILED", "BUDGET_EXCEEDED", "TIMEOUT"}

\* The states a row never leaves; its reservation no longer counts in them.
TerminalStates ==
  {"COMPLETED", "REJECTED", "CANCELLED", "FAILED", "BUDGET_EXCEEDED", "TIMEOUT"}

LiveStates == States \ TerminalStates

\* A slot is spoken for from the moment the reservation exists.
GpuSlotStates == {"GPU_AUTHORIZED", "GPU_RUNNING"}

\* Where an operator, a failure or a timeout may drop a job.
Abandonable == {"CANCELLED", "FAILED", "TIMEOUT"}

\* allowed_transitions(s), with _TRANSITIONS as its table.
AllowedFrom ==
  [s \in States |->
     CASE s = "QUEUED"         -> {"PRECHECKING", "REJECTED"} \cup Abandonable
       [] s = "PRECHECKING"    -> {"CACHE_LOOKUP", "REJECTED", "BUDGET_EXCEEDED"}
                                    \cup Abandonable
       [] s = "CACHE_LOOKUP"   -> {"GPU_AUTHORIZED", "COMPLETED", "REJECTED",
                                   "BUDGET_EXCEEDED"} \cup Abandonable
       [] s = "GPU_AUTHORIZED" -> {"GPU_RUNNING"} \cup Abandonable
       [] s = "GPU_RUNNING"    -> {"VALIDATING"} \cup Abandonable
       [] s = "VALIDATING"     -> {"PERSISTING", "FAILED", "TIMEOUT"}
       [] s = "PERSISTING"     -> {"COMPLETED", "FAILED"}
       [] OTHER                -> {}]

\* validate_transition(s, t) returns instead of raising.
ValidTransition(s, t) == s \notin TerminalStates /\ t \in AllowedFrom[s]

=============================================================================
