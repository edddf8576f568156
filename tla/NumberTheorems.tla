--------------------------- MODULE NumberTheorems ---------------------------
(***************************************************************************)
(* Facts about finite sets that the proofs of several components cite:     *)
(* sums of amounts over a finite set of names, each the arithmetic the     *)
(* database does in a SUM(...), carried out on the cardinality of the set  *)
(* of coins; and the greatest and the least of a finite set of numbers,    *)
(* by an induction that takes no operator as a parameter.                  *)
(***************************************************************************)
EXTENDS Money, FiniteSetTheorems, WellFoundedInduction, TLAPS

----------------------------------------------------------------------------
(* Sums                                                                    *)

(* The coins of finitely many names are finitely many.                     *)
LEMMA CoinsFinite ==
  ASSUME NEW S, IsFiniteSet(S), NEW purse \in [S -> Nat]
  PROVE  IsFiniteSet(Coins(purse, S))
<1> DEFINE pile == [x \in S |-> {x} \X (1..purse[x])]
           piles == {{x} \X (1..purse[x]) : x \in S}
<1>1. pile \in Surjection(S, piles)
  BY DEF Surjection
<1>2. IsFiniteSet(piles)
  BY <1>1, FS_Surjection
<1>3. \A x \in S : IsFiniteSet({x} \X (1..purse[x]))
  <2> TAKE x \in S
  <2>1. IsFiniteSet(1..purse[x])
    BY FS_Interval
  <2>2. IsFiniteSet({x})
    BY FS_Singleton
  <2> QED BY <2>1, <2>2, FS_Product
<1>4. \A p \in piles : IsFiniteSet(p)
  BY <1>3
<1> QED BY <1>2, <1>4, FS_UNION DEF Coins

(* A sum of amounts is an amount.                                          *)
LEMMA TotalNat ==
  ASSUME NEW S, IsFiniteSet(S), NEW purse \in [S -> Nat]
  PROVE  Total(purse, S) \in Nat
BY CoinsFinite, FS_CardinalityType DEF Total

(* Two sets without a common member are counted one after the other.       *)
LEMMA DisjointUnion ==
  ASSUME NEW S, NEW T, IsFiniteSet(S), IsFiniteSet(T), S \cap T = {}
  PROVE  Cardinality(S \cup T) = Cardinality(S) + Cardinality(T)
<1>1. Cardinality(S \cup T)
        = Cardinality(S) + Cardinality(T) - Cardinality(S \cap T)
  BY FS_Union
<1>2. Cardinality(S \cap T) = 0
  BY FS_EmptySet
<1>3. Cardinality(S) \in Nat /\ Cardinality(T) \in Nat
  BY FS_CardinalityType
<1> QED BY <1>1, <1>2, <1>3

(* Taking one name out of the sum takes out its amount.                    *)
LEMMA TotalSplit ==
  ASSUME NEW S, IsFiniteSet(S), NEW purse \in [S -> Nat], NEW x \in S
  PROVE  Cardinality(Coins(purse, S))
           = Cardinality(Coins(purse, S \ {x})) + purse[x]
<1> DEFINE rest == Coins(purse, S \ {x})
           own == {x} \X (1..purse[x])
<1>1. Coins(purse, S) = rest \cup own
  BY DEF Coins
<1>2. rest \cap own = {}
  BY DEF Coins
<1>3. IsFiniteSet(Coins(purse, S))
  BY CoinsFinite
<1>4. IsFiniteSet(rest) /\ IsFiniteSet(own)
  BY <1>1, <1>3, FS_Subset
<1>5. Cardinality(own) = purse[x]
  <2>1. IsFiniteSet(1..purse[x]) /\ Cardinality(1..purse[x]) = purse[x]
    BY FS_Interval
  <2>2. IsFiniteSet({x}) /\ Cardinality({x}) = 1
    BY FS_Singleton
  <2>3. Cardinality(own) = Cardinality({x}) * Cardinality(1..purse[x])
    BY <2>1, <2>2, FS_Product
  <2>4. purse[x] \in Nat /\ 1 * purse[x] = purse[x]
    OBVIOUS
  <2> QED BY <2>1, <2>2, <2>3, <2>4
<1>6. Cardinality(rest \cup own) = Cardinality(rest) + Cardinality(own)
  BY <1>2, <1>4, DisjointUnion
<1> QED BY <1>1, <1>5, <1>6

(* Changing one name's amount changes the sum by the difference.           *)
LEMMA TotalUpdate ==
  ASSUME NEW S, IsFiniteSet(S), NEW x \in S,
         NEW old \in [S -> Nat], NEW new \in [S -> Nat],
         \A y \in S \ {x} : new[y] = old[y]
  PROVE  Total(new, S) = Total(old, S) - old[x] + new[x]
<1>1. Coins(new, S \ {x}) = Coins(old, S \ {x})
  BY DEF Coins
<1>2. Total(old, S) = Cardinality(Coins(old, S \ {x})) + old[x]
  BY TotalSplit DEF Total
<1>3. Total(new, S) = Cardinality(Coins(new, S \ {x})) + new[x]
  BY TotalSplit DEF Total
<1>4. IsFiniteSet(Coins(old, S \ {x}))
  <2>1. IsFiniteSet(S \ {x})
    BY FS_RemoveElement
  <2>2. Coins(old, S \ {x}) \subseteq Coins(old, S)
    BY DEF Coins
  <2> QED BY <2>2, CoinsFinite, FS_Subset
<1>5. Cardinality(Coins(old, S \ {x})) \in Nat
  BY <1>4, FS_CardinalityType
<1> QED BY <1>1, <1>2, <1>3, <1>5

(* Nobody holding anything, the sum is nothing.                            *)
LEMMA TotalZero ==
  ASSUME NEW S, NEW purse, \A x \in S : purse[x] = 0
  PROVE  Total(purse, S) = 0
<1>1. \A x \in S : 1..purse[x] = {}
  OBVIOUS
<1>2. Coins(purse, S) = {}
  BY <1>1 DEF Coins
<1> QED BY <1>2, FS_EmptySet DEF Total

(* A purse that holds no less of each name holds no less in all.           *)
LEMMA TotalMonotone ==
  ASSUME NEW S, IsFiniteSet(S),
         NEW small \in [S -> Nat], NEW large \in [S -> Nat],
         \A x \in S : small[x] <= large[x]
  PROVE  Total(small, S) <= Total(large, S)
<1>1. \A x \in S : 1..small[x] \subseteq 1..large[x]
  OBVIOUS
<1>2. Coins(small, S) \subseteq Coins(large, S)
  BY <1>1 DEF Coins
<1> QED BY <1>2, CoinsFinite, FS_Subset DEF Total

----------------------------------------------------------------------------
(* Finite sets of numbers                                                  *)

(* Among the subsets of a finite set that have a property, one has no      *)
(* smaller one: the induction over finite sets.                            *)
LEMMA LeastSubset ==
  ASSUME NEW S, IsFiniteSet(S), NEW W \in SUBSET SUBSET S, W # {}
  PROVE  \E T \in W : \A U \in SUBSET T : U # T => U \notin W
<1>1. IsWellFoundedOn(StrictSubsetOrdering(S), FiniteSubsetsOf(S))
  BY FS_StrictSubsetOrderingWellFounded
<1>2. FiniteSubsetsOf(S) = SUBSET S
  BY FS_FiniteSubsetsOfFinite
<1>3. \E T \in W : \A U \in W : <<U, T>> \notin StrictSubsetOrdering(S)
  BY <1>1, <1>2, WFMin
<1> QED BY <1>3 DEF StrictSubsetOrdering

(* A finite set of numbers that is not empty has a greatest one.           *)
LEMMA GreatestExists ==
  ASSUME NEW S \in SUBSET Int, IsFiniteSet(S), S # {}
  PROVE  \E x \in S : \A y \in S : x >= y
<1> DEFINE HasNone(T) == T # {} /\ ~\E x \in T : \A y \in T : x >= y
           W == {T \in SUBSET S : HasNone(T)}
<1>1. W = {}
  <2> SUFFICES ASSUME W # {} PROVE FALSE
    OBVIOUS
  <2>1. W \in SUBSET SUBSET S
    OBVIOUS
  <2> HIDE DEF W
  <2>2. PICK T \in W : \A U \in SUBSET T : U # T => U \notin W
    BY <2>1, LeastSubset
  <2> USE DEF W
  <2>3. PICK x \in T : TRUE
    OBVIOUS
  <2>4. T \subseteq Int
    OBVIOUS
  <2>5. T \ {x} # {}
    BY <2>3, <2>4
  <2>6. T \ {x} \in SUBSET S /\ T \ {x} \notin W
    BY <2>2, <2>3
  <2>7. PICK z \in T \ {x} : \A y \in T \ {x} : z >= y
    BY <2>5, <2>6
  <2>8. CASE x >= z
    BY <2>4, <2>7, <2>8
  <2>9. CASE z >= x
    BY <2>4, <2>7, <2>9
  <2> QED BY <2>4, <2>7, <2>8, <2>9
<1> QED BY <1>1

(* And a least one.                                                        *)
LEMMA LeastExists ==
  ASSUME NEW S \in SUBSET Int, IsFiniteSet(S), S # {}
  PROVE  \E x \in S : \A y \in S : x <= y
<1> DEFINE opposite == [x \in S |-> 0 - x]
           T == {0 - x : x \in S}
<1>1. opposite \in Surjection(S, T)
  BY DEF Surjection
<1>2. IsFiniteSet(T)
  BY <1>1, FS_Surjection
<1>3. T \in SUBSET Int /\ T # {} /\ \A y \in S : 0 - y \in T
  <2>1. \A y \in S : 0 - y \in T
    OBVIOUS
  <2>2. T \in SUBSET Int
    OBVIOUS
  <2>3. \E y \in S : TRUE
    OBVIOUS
  <2> HIDE DEF T
  <2> QED BY <2>1, <2>2, <2>3
<1>4. \A y \in T : \E x \in S : y = 0 - x
  OBVIOUS
<1> HIDE DEF T
<1>5. PICK t \in T : \A y \in T : t >= y
  BY <1>2, <1>3, GreatestExists
<1>6. PICK x \in S : t = 0 - x
  BY <1>4, <1>5
<1>7. \A y \in S : x <= y
  <2> TAKE y \in S
  <2>1. 0 - x >= 0 - y
    BY <1>3, <1>5, <1>6
  <2>2. x \in Int /\ y \in Int
    OBVIOUS
  <2> QED BY <2>1, <2>2
<1> QED BY <1>7

=============================================================================
