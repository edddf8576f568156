--------------------------- MODULE BudgetAuthority ---------------------------
(***************************************************************************)
(* What budget admission promises, whoever implements it: an owner takes a *)
(* hold of its estimate and a GPU slot in one atomic step, and only if the *)
(* holds, the charges and the new estimate fit under the ceiling together; *)
(* settling replaces the hold by a charge that is covered by it.           *)
(*                                                                         *)
(* hold    - what each owner has reserved and not settled                  *)
(* charged - what each owner's estimate has covered of its measured spend  *)
(* slots   - the owners that hold a GPU slot                               *)
(***************************************************************************)
EXTENDS Money

CONSTANTS Owners,     \* everyone who may ask for a GPU
          Quote,      \* Quote[o]: the estimate o was admitted on
          Ceiling,    \* min(global budget, hard stop)
          SlotLimit   \* max_concurrent_gpu_jobs

VARIABLES hold, charged, slots

authorityVars == <<hold, charged, slots>>

Committed == Total(hold, Owners) + Total(charged, Owners)

AuthorityTypeOK ==
  /\ hold \in [Owners -> Nat]
  /\ charged \in [Owners -> Nat]
  /\ slots \subseteq Owners

AuthorityInit ==
  /\ hold = [o \in Owners |-> 0]
  /\ charged = [o \in Owners |-> 0]
  /\ slots = {}

\* Check and reservation are one step: nobody can slip in between.
Reserve(o) ==
  /\ hold[o] = 0 /\ charged[o] = 0 /\ o \notin slots
  /\ Committed + Quote[o] <= Ceiling
  /\ Cardinality(slots) < SlotLimit
  /\ hold' = [hold EXCEPT ![o] = Quote[o]]
  /\ slots' = slots \cup {o}
  /\ UNCHANGED charged

\* The GPU is free again while the result is still being validated.
Vacate(o) ==
  /\ o \in slots
  /\ slots' = slots \ {o}
  /\ UNCHANGED <<hold, charged>>

\* The hold is gone in the same step as the charge appears.
Settle(o) ==
  /\ \E u \in 0..hold[o] : charged' = [charged EXCEPT ![o] = @ + u]
  /\ hold' = [hold EXCEPT ![o] = 0]
  /\ slots' = slots \ {o}

AuthorityNext == \E o \in Owners : Reserve(o) \/ Vacate(o) \/ Settle(o)

AuthoritySpec == AuthorityInit /\ [][AuthorityNext]_authorityVars

(* The promise: holds and covered charges never pass the ceiling, and no   *)
(* more owners than the policy allows hold a slot.  BudgetRepository.      *)
(* admit_and_reserve exists to keep it across processes.                   *)
AuthorityKept == Committed <= Ceiling /\ Cardinality(slots) <= SlotLimit

=============================================================================
