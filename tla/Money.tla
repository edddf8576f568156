-------------------------------- MODULE Money --------------------------------
(***************************************************************************)
(* The SUM(...) of the budget queries (BudgetRepository.position) and of   *)
(* the in-memory ledger.  Amounts are whole units of the smallest price    *)
(* step.  A purse is a function from names to amounts; its total is the    *)
(* number of single coins in it, which turns facts about sums into facts   *)
(* about the cardinality of finite sets.                                   *)
(***************************************************************************)
EXTENDS Integers, FiniteSets

\* One coin <<x, i>> for each unit that name x of S has in the purse.
Coins(purse, S) == UNION {{x} \X (1..purse[x]) : x \in S}

\* SELECT coalesce(sum(...), 0) over the names of S.
Total(purse, S) == Cardinality(Coins(purse, S))

Lesser(m, n) == IF m <= n THEN m ELSE n

=============================================================================
