------------------------- MODULE LiveReferenceProofs -------------------------
(***************************************************************************)
(* What a request for a live reference simulation can rely on, for every   *)
(* set of boards, games, box scores and overrides: the feed it reads, the  *)
(* time and the bet it simulates, the consensus its answer is anchored on, *)
(* and that only a player listed twice makes the engine fail on the state  *)
(* that was built for it.                                                  *)
(***************************************************************************)
EXTENDS LiveReference, SetSums

-----------------------------------------------------------------------------
(***************************************************************************)
(* Why the allocation of a team's seconds always comes out even.  As long  *)
(* as it is sharing, what is left is never negative, the active players    *)
(* are exactly those below the cap, and a larger weight means a larger     *)
(* share unless the cap took it.  When the loop ends nothing is left, and  *)
(* then the largest remainders add up to the seconds that are missing.     *)
(***************************************************************************)

Cap == horizon * unit

\* What holds of the shares between two passes of the loop.
SharesTyped ==
    /\ horizon \in Nat \ {0}
    /\ unit \in Nat \ {0}
    /\ \E n \in Nat : n >= LineupSize /\ weight \in [1 .. n -> Weight]
    /\ values \in [Roster -> Nat]

CappedOrActive ==
    /\ \A i \in Roster : values[i] <= Cap
    /\ active = {i \in Roster : values[i] < Cap}

\* Before the first pass all shares are zero; after it a larger weight has
\* more, or all it can have.
LargerWeightHasMore ==
    \A i, j \in Roster :
        weight[i] > weight[j] =>
            \/ values[i] > values[j]
            \/ values[i] = Cap
            \/ Left > 0 /\ \A k \in Roster : values[k] = 0

SharesInv == SharesTyped /\ CappedOrActive /\ Left \in Nat /\ LargerWeightHasMore

\* The inductive invariant of an allocation.
AllocInv ==
    /\ stage \in {"idle", "sharing", "done", "refused"}
    /\ stage = "sharing" => SharesInv
    /\ AllocationSound

-----------------------------------------------------------------------------
(***************************************************************************)
(* Arithmetic.                                                             *)
(***************************************************************************)

LEMMA DivMod ==
    ASSUME NEW v \in Nat, NEW u \in Nat \ {0}
    PROVE  /\ v \div u \in Nat
           /\ v % u \in 0 .. u - 1
           /\ v = (v \div u) * u + (v % u)
OBVIOUS

\* A product of naturals is a natural, and grows with either factor.
LEMMA Products ==
    ASSUME NEW a \in Int, NEW b \in Int, NEW k \in Nat \ {0}
    PROVE  /\ a * k \in Int
           /\ a * k < b * k <=> a < b
           /\ a * k <= b * k <=> a <= b
           /\ a * k = b * k <=> a = b
           /\ k * a = a * k
<1>1. a * k \in Int /\ b * k \in Int /\ k * a = a * k
  OBVIOUS
<1>2. a < b => a * k < b * k
  OBVIOUS
<1>3. b < a => b * k < a * k
  OBVIOUS
<1>4. a = b => a * k = b * k
  OBVIOUS
<1> QED  BY <1>1, <1>2, <1>3, <1>4

-----------------------------------------------------------------------------
(***************************************************************************)
(* The first m of a finite set.                                            *)
(***************************************************************************)

\* What comes before x in the order R.
Before(S, R, x) == {y \in S : <<y, x>> \in R}

FirstOf(S, R, m) == {x \in S : Cardinality(Before(S, R, x)) < m}

\* There are n numbers below n.
LEMMA NumbersBelow ==
    ASSUME NEW n \in Nat
    PROVE  IsFiniteSet(0 .. n - 1) /\ Cardinality(0 .. n - 1) = n
<1>1. 0 \in Int /\ n - 1 \in Int
  OBVIOUS
<1>2. /\ IsFiniteSet(0 .. n - 1)
      /\ Cardinality(0 .. n - 1) = IF 0 > n - 1 THEN 0 ELSE (n - 1) - 0 + 1
  BY <1>1, FS_Interval
<1>3. (IF 0 > n - 1 THEN 0 ELSE (n - 1) - 0 + 1) = n
  OBVIOUS
<1> QED  BY <1>2, <1>3

\* In a total order of a finite set there are m elements that have fewer than
\* m elements before them.
LEMMA RankedFirst ==
    ASSUME NEW S, IsFiniteSet(S), NEW R, NEW m \in 0 .. Cardinality(S),
           \A x \in S : <<x, x>> \notin R,
           \A x, y, z \in S : <<x, y>> \in R /\ <<y, z>> \in R => <<x, z>> \in R,
           \A x, y \in S : x = y \/ <<x, y>> \in R \/ <<y, x>> \in R
    PROVE  Cardinality(FirstOf(S, R, m)) = m
<1> DEFINE n == Cardinality(S)
<1> DEFINE rank == [x \in S |-> Cardinality(Before(S, R, x))]
<1>0. n \in Nat
  BY FS_CardinalityType
<1>1. \A x \in S : IsFiniteSet(Before(S, R, x)) /\ rank[x] \in 0 .. n - 1
  <2> TAKE x \in S
  <2>1. Before(S, R, x) \in SUBSET S /\ x \notin Before(S, R, x)
    BY DEF Before
  <2>2. IsFiniteSet(Before(S, R, x)) /\ Cardinality(Before(S, R, x)) <= n
    BY <2>1, FS_Subset
  <2>3. Cardinality(Before(S, R, x)) # n
    BY <2>1, FS_Subset
  <2>4. Cardinality(Before(S, R, x)) \in Nat
    BY <2>2, FS_CardinalityType
  <2> QED  BY <1>0, <2>2, <2>3, <2>4
<1>2. ASSUME NEW x \in S, NEW y \in S, <<y, x>> \in R  PROVE rank[y] < rank[x]
  <2>1. /\ Before(S, R, y) \in SUBSET Before(S, R, x)
        /\ y \in Before(S, R, x) /\ y \notin Before(S, R, y)
    BY <1>2 DEF Before
  <2>2. Cardinality(Before(S, R, y)) <= Cardinality(Before(S, R, x))
    BY <1>1, <2>1, FS_Subset
  <2>3. Cardinality(Before(S, R, y)) # Cardinality(Before(S, R, x))
    BY <1>1, <2>1, FS_Subset
  <2> QED  BY <1>1, <2>2, <2>3
<1>3. \A x \in S : rank[x] = Cardinality(Before(S, R, x))
  OBVIOUS
<1>4. rank \in [S -> 0 .. n - 1]
  BY <1>1
<1> HIDE DEF rank
<1>5. \A x, y \in S : rank[x] = rank[y] => x = y
  <2> SUFFICES ASSUME NEW x \in S, NEW y \in S, x # y  PROVE rank[x] # rank[y]
    OBVIOUS
  <2>1. <<x, y>> \in R \/ <<y, x>> \in R
    OBVIOUS
  <2>2. rank[x] \in Int /\ rank[y] \in Int
    BY <1>1
  <2> QED  BY <1>2, <2>1, <2>2
<1>6. rank \in Surjection(S, 0 .. n - 1)
  <2>1. IsFiniteSet(0 .. n - 1) /\ Cardinality(0 .. n - 1) = n
    BY <1>0, NumbersBelow
  <2>2. rank \in Injection(S, 0 .. n - 1)
    BY <1>4, <1>5 DEF Injection, IsInjective
  <2> QED  BY <2>1, <2>2, FS_Injection
<1> DEFINE F == FirstOf(S, R, m)
<1> DEFINE g == [x \in F |-> rank[x]]
<1>7. m \in Nat /\ m <= n
  BY <1>0
<1>8. \A x \in S : x \in F <=> rank[x] \in 0 .. m - 1
  BY <1>0, <1>1, <1>3, <1>7 DEF FirstOf
<1>9. F \in SUBSET S
  BY DEF FirstOf
<1>10. g \in Bijection(F, 0 .. m - 1)
  <2> HIDE DEF F
  <2>1. g \in [F -> 0 .. m - 1]
    BY <1>8, <1>9
  <2>2. \A x, y \in F : g[x] = g[y] => x = y
    BY <1>5, <1>9
  <2>3. \A k \in 0 .. m - 1 : \E x \in F : g[x] = k
    <3> TAKE k \in 0 .. m - 1
    <3>1. k \in 0 .. n - 1
      BY <1>0, <1>7
    <3>2. PICK x \in S : rank[x] = k
      BY <1>6, <3>1 DEF Surjection
    <3>3. x \in F
      BY <1>8, <3>2
    <3> QED  BY <3>2, <3>3
  <2> HIDE DEF g
  <2>4. g \in Injection(F, 0 .. m - 1)
    BY <2>1, <2>2 DEF Injection, IsInjective
  <2>5. g \in Surjection(F, 0 .. m - 1)
    BY <2>1, <2>3 DEF Surjection
  <2> QED  BY <2>4, <2>5 DEF Bijection
<1>11. IsFiniteSet(F) /\ IsFiniteSet(0 .. m - 1) /\ Cardinality(0 .. m - 1) = m
  BY <1>7, <1>9, FS_Subset, NumbersBelow
<1>12. ExistsBijection(F, 0 .. m - 1)
  <2> HIDE DEF F, g
  <2> QED  BY <1>10 DEF ExistsBijection
<1>13. Cardinality(F) = m
  <2> HIDE DEF F
  <2> QED  BY <1>11, <1>12, FS_Bijection
<1> QED  BY <1>13

-----------------------------------------------------------------------------
(***************************************************************************)
(* The loop.                                                               *)
(***************************************************************************)

\* The roster is finite and fills a lineup, and all quantities are numbers.
LEMMA RosterFacts ==
    ASSUME SharesTyped
    PROVE  /\ IsFiniteSet(Roster) /\ Roster \subseteq Nat
           /\ Cardinality(Roster) \in Nat /\ Cardinality(Roster) >= LineupSize
           /\ \A i \in Roster : weight[i] \in Nat \ {0} /\ values[i] \in Nat
           /\ horizon \in Nat \ {0} /\ unit \in Nat \ {0}
           /\ Required \in Nat \ {0} /\ Cap \in Nat \ {0}
           /\ Total(values) = SumFunctionOnSet(values, Roster)
           /\ Total(values) \in Nat /\ Required * unit \in Nat /\ Left \in Int
<1>1. PICK n \in Nat : n >= LineupSize /\ weight \in [1 .. n -> Weight]
  BY DEF SharesTyped
<1>2. Roster = 1 .. n
  BY <1>1 DEF Roster
<1>3. IsFiniteSet(Roster) /\ Cardinality(Roster) = n
  <2>1. 1 \in Int /\ n \in Int
    OBVIOUS
  <2>2. IsFiniteSet(1 .. n) /\ Cardinality(1 .. n) = IF 1 > n THEN 0 ELSE n - 1 + 1
    BY <2>1, FS_Interval
  <2> QED  BY <1>2, <2>2
<1>4. \A i \in Roster : weight[i] \in Nat \ {0} /\ values[i] \in Nat
  BY <1>1, <1>2, PositiveWeights DEF SharesTyped
<1>5. horizon \in Nat \ {0} /\ unit \in Nat \ {0}
  BY DEF SharesTyped
<1>6. Required \in Nat \ {0} /\ Cap \in Nat \ {0}
  BY <1>5, SomeLineup DEF Required, Cap
<1>7. Total(values) = SumFunctionOnSet(values, Roster)
  BY DEF Total, SharesTyped
<1>8. Total(values) \in Nat
  BY <1>3, <1>4, <1>7, SumType
<1>9. Required * unit \in Nat
  BY <1>5, <1>6
<1> QED  BY <1>1, <1>2, <1>3, <1>4, <1>5, <1>6, <1>7, <1>8, <1>9 DEF Left

\* Somebody active has a weight.
LEMMA ActiveWeightIsPositive ==
    ASSUME SharesTyped, active \subseteq Roster, active # {}
    PROVE  ActiveWeight \in Nat \ {0}
<1>1. PICK i \in active : TRUE
  OBVIOUS
<1>2. IsFiniteSet(active) /\ IsFiniteSet(active \ {i})
  BY RosterFacts, FS_Subset
<1>3. \A k \in active : weight[k] \in Nat /\ weight[k] \in Int
  BY RosterFacts
<1>4. ActiveWeight = weight[i] + SumFunctionOnSet(weight, active \ {i})
  BY <1>2, <1>3, SumRemoves DEF ActiveWeight
<1>5. SumFunctionOnSet(weight, active \ {i}) \in Nat
  BY <1>2, <1>3, SumType
<1>6. weight[i] \in Nat \ {0}
  BY RosterFacts
<1> QED  BY <1>4, <1>5, <1>6

\* What a player takes in a pass: in proportion to his weight, but no more
\* than he can.
LEMMA Additions ==
    ASSUME SharesInv, Left > 0, active # {}
    PROVE  /\ \A i \in active :
                  /\ Addition(i) \in Nat \ {0}
                  /\ Addition(i) <= Left * weight[i]
                  /\ Addition(i) <= (Cap - values[i]) * ActiveWeight
                  /\ \/ Addition(i) = Left * weight[i]
                     \/ Addition(i) = (Cap - values[i]) * ActiveWeight
           /\ \A i \in Roster \ active : Addition(i) = 0
<1>1. active \subseteq Roster /\ \A i \in active : values[i] < Cap
  BY DEF SharesInv, CappedOrActive
<1>2. ActiveWeight \in Nat \ {0}
  BY <1>1, ActiveWeightIsPositive DEF SharesInv
<1>3. ASSUME NEW i \in active
      PROVE  Left * weight[i] \in Nat \ {0} /\ (Cap - values[i]) * ActiveWeight \in Nat \ {0}
  <2>1. \A a, b \in Nat \ {0} : a * b \in Nat \ {0}
    OBVIOUS
  <2>2. Left \in Nat \ {0} /\ weight[i] \in Nat \ {0} /\ Cap - values[i] \in Nat \ {0}
    BY <1>1, RosterFacts DEF SharesInv
  <2> QED  BY <1>2, <2>1, <2>2
<1>4. \A i \in active : Addition(i)
          = IF Left * weight[i] < (Cap - values[i]) * ActiveWeight
            THEN Left * weight[i] ELSE (Cap - values[i]) * ActiveWeight
  BY DEF Addition, Cap
<1>5. \A i \in Roster \ active : Addition(i) = 0
  BY DEF Addition
<1>6. ASSUME NEW i \in active
      PROVE  /\ Addition(i) \in Nat \ {0}
             /\ Addition(i) <= Left * weight[i]
             /\ Addition(i) <= (Cap - values[i]) * ActiveWeight
             /\ \/ Addition(i) = Left * weight[i]
                \/ Addition(i) = (Cap - values[i]) * ActiveWeight
  BY <1>3, <1>4
<1> QED  BY <1>5, <1>6

\* What the players take in a pass, and what they would without a cap.
Taken == [i \in Roster |-> Addition(i)]
Wanted == [i \in Roster |-> IF i \in active THEN Left * weight[i] ELSE 0]

\* Without a cap a pass would hand out all that was left; what it hands out is
\* no longer left.
LEMMA ShareTakes ==
    ASSUME SharesInv, Share
    PROVE  /\ SumFunctionOnSet(Wanted, Roster) = Left * ActiveWeight
           /\ Left * ActiveWeight \in Int
           /\ SumFunctionOnSet(Taken, Roster) \in Int
           /\ SumFunctionOnSet(Taken, Roster) <= SumFunctionOnSet(Wanted, Roster)
           /\ Left' = Left * ActiveWeight - SumFunctionOnSet(Taken, Roster)
<1> DEFINE W == ActiveWeight
<1> DEFINE added == Taken
<1> DEFINE scaled == [i \in Roster |-> values[i] * W]
<1> DEFINE asked == Wanted
<1> USE DEF Taken, Wanted
<1> DEFINE wanted == [i \in active |-> Left * weight[i]]
<1>1. /\ Left > 0 /\ Left \in Nat /\ active # {} /\ active \subseteq Roster
      /\ values' = [i \in Roster |-> values[i] * W + Addition(i)]
      /\ unit' = unit * W /\ weight' = weight /\ horizon' = horizon
  BY DEF Share, SharesInv, CappedOrActive
<1>2. W \in Nat \ {0}
  BY <1>1, ActiveWeightIsPositive DEF SharesInv
<1>3. /\ IsFiniteSet(Roster) /\ IsFiniteSet(active)
      /\ \A i \in Roster : weight[i] \in Nat \ {0} /\ values[i] \in Nat
      /\ Total(values) = SumFunctionOnSet(values, Roster) /\ Total(values) \in Nat
      /\ unit \in Nat \ {0} /\ Required \in Nat
  BY <1>1, RosterFacts, FS_Subset DEF SharesInv
<1>4. /\ \A i \in active : Addition(i) \in Nat /\ Addition(i) <= Left * weight[i]
      /\ \A i \in Roster \ active : Addition(i) = 0
  BY <1>1, Additions
<1> HIDE DEF W
<1>5. SumFunctionOnSet(scaled, Roster) = W * Total(values)
  <2>1. \A i \in Roster : values[i] \in Int /\ scaled[i] = W * values[i]
    BY <1>2, <1>3
  <2> QED  BY <1>2, <1>3, <2>1, SumScales
<1>6. SumFunctionOnSet(asked, Roster) = Left * W
  <2>1. SumFunctionOnSet(asked, Roster) = SumFunctionOnSet(wanted, active)
    <3>1. \A i \in active : wanted[i] \in Int /\ asked[i] = wanted[i]
      BY <1>1, <1>3
    <3>2. \A i \in Roster \ active : asked[i] = 0
      OBVIOUS
    <3> HIDE DEF asked, wanted
    <3> QED  BY <1>1, <1>3, <3>1, <3>2, SumSupport
  <2>2. SumFunctionOnSet(wanted, active) = Left * SumFunctionOnSet(weight, active)
    <3>1. \A i \in active : weight[i] \in Int /\ wanted[i] = Left * weight[i]
      BY <1>1, <1>3
    <3> HIDE DEF wanted
    <3>2. Left \in Int
      BY <1>1
    <3> QED  BY <1>3, <3>1, <3>2, SumScales
  <2> QED  BY <2>1, <2>2 DEF W, ActiveWeight
<1>7. SumFunctionOnSet(added, Roster) <= SumFunctionOnSet(asked, Roster)
  <2>1. \A i \in Roster : added[i] \in Int /\ asked[i] \in Int /\ added[i] <= asked[i]
    BY <1>1, <1>3, <1>4
  <2> HIDE DEF added, asked
  <2> QED  BY <1>3, <2>1, SumMonotonic
<1>8. SumFunctionOnSet(added, Roster) \in Int
  <2>1. \A i \in Roster : added[i] \in Int
    BY <1>4
  <2> HIDE DEF added
  <2> QED  BY <1>3, <2>1, SumType
<1>9. SumFunctionOnSet(values', Roster)
        = SumFunctionOnSet(scaled, Roster) + SumFunctionOnSet(added, Roster)
  <2>1. \A i \in Roster : /\ scaled[i] \in Int /\ added[i] \in Int
                          /\ values'[i] = scaled[i] + added[i]
    BY <1>1, <1>2, <1>3, <1>4
  <2> HIDE DEF added, scaled
  <2> QED  BY <1>3, <2>1, SumAdds
<1>10. Left' = Required * (unit * W) - SumFunctionOnSet(values', Roster)
  <2>1. DOMAIN values' = Roster
    BY <1>1
  <2> QED  BY <1>1, <2>1 DEF Left, Total, Required
<1>11. Required * (unit * W) - W * Total(values) = Left * W
  <2>1. \A a, b, c, d \in Int : a * (b * c) - c * d = (a * b - d) * c
    OBVIOUS
  <2> QED  BY <1>2, <1>3, <2>1 DEF Left
<1> HIDE DEF added, asked, scaled, wanted
<1>12. /\ Required * (unit * W) \in Int /\ W * Total(values) \in Int
       /\ Left * W \in Int
  BY <1>1, <1>2, <1>3
<1> QED  BY <1>5, <1>6, <1>7, <1>8, <1>9, <1>10, <1>11, <1>12 DEF W, added, asked

\* No pass hands out more than was left.
LEMMA ShareLeaves ==
    ASSUME SharesInv, Share
    PROVE  Left' \in Nat
BY ShareTakes

\* A pass that takes nobody to the cap hands out all that was left.
LEMMA ShareSaturates ==
    ASSUME SharesInv, Share, active' = active
    PROVE  Left' = 0
<1>1. /\ Left > 0 /\ active # {} /\ active \subseteq Roster
      /\ values' = [i \in Roster |-> values[i] * ActiveWeight + Addition(i)]
      /\ unit' = unit * ActiveWeight
      /\ active' = {i \in active : values'[i] < horizon * unit'}
      /\ Left \in Nat /\ horizon \in Nat /\ unit \in Nat
      /\ \A i \in Roster : values[i] \in Nat /\ weight[i] \in Nat
  BY RosterFacts DEF Share, SharesInv, CappedOrActive, SharesTyped
<1>2. ActiveWeight \in Nat
  BY <1>1, ActiveWeightIsPositive DEF SharesInv
<1>3. ASSUME NEW i \in active
      PROVE  Addition(i) = Left * weight[i]
  <2>1. values[i] * ActiveWeight + Addition(i) < horizon * (unit * ActiveWeight)
    BY <1>1
  <2>2. \A a, b, c, d \in Int : d * (b * a) - c * a = (d * b - c) * a
    OBVIOUS
  <2>3. (Cap - values[i]) * ActiveWeight
           = horizon * (unit * ActiveWeight) - values[i] * ActiveWeight
    BY <1>1, <1>2, <2>2 DEF Cap
  <2>4. /\ values[i] * ActiveWeight \in Int
        /\ horizon * (unit * ActiveWeight) \in Int
    BY <1>1, <1>2
  <2>5. Addition(i) \in Nat
    BY <1>1, Additions
  <2>6. Addition(i) # (Cap - values[i]) * ActiveWeight
    BY <2>1, <2>3, <2>4, <2>5
  <2> QED  BY <1>1, <2>6, Additions
<1>4. \A i \in Roster \ active : Addition(i) = 0
  BY DEF Addition
<1>5. Taken = Wanted
  BY <1>3, <1>4 DEF Taken, Wanted
<1> QED  BY <1>5, ShareTakes

\* A pass keeps everything the loop relies on.
LEMMA ShareKeepsShares ==
    ASSUME SharesInv, Share
    PROVE  SharesInv'
<1> DEFINE W == ActiveWeight
<1>1. /\ Left > 0 /\ Left \in Nat /\ active # {} /\ active \subseteq Roster
      /\ values' = [i \in Roster |-> values[i] * W + Addition(i)]
      /\ unit' = unit * W /\ weight' = weight /\ horizon' = horizon
      /\ active' = {i \in active : values'[i] < horizon * unit'}
      /\ active = {i \in Roster : values[i] < Cap}
      /\ \A i \in Roster : values[i] <= Cap
  BY DEF Share, SharesInv, CappedOrActive
<1>2. W \in Nat \ {0}
  BY <1>1, ActiveWeightIsPositive DEF SharesInv
<1>3. /\ \A i \in Roster : weight[i] \in Nat \ {0} /\ values[i] \in Nat
      /\ unit \in Nat \ {0} /\ horizon \in Nat \ {0} /\ Cap \in Nat \ {0}
  BY RosterFacts DEF SharesInv
<1>4. /\ \A i \in active :
             /\ Addition(i) \in Nat \ {0}
             /\ Addition(i) <= Left * weight[i]
             /\ Addition(i) <= (Cap - values[i]) * W
             /\ Addition(i) = Left * weight[i] \/ Addition(i) = (Cap - values[i]) * W
      /\ \A i \in Roster \ active : Addition(i) = 0
  BY <1>1, Additions
<1> HIDE DEF W
<1>5. Roster' = Roster /\ unit' \in Nat \ {0} /\ Cap' = Cap * W
  <2>1. \A a, b \in Nat \ {0} : a * b \in Nat \ {0}
    OBVIOUS
  <2>2. \A a, b, c \in Nat : a * (b * c) = (a * b) * c
    OBVIOUS
  <2>3. unit' \in Nat \ {0}
    BY <1>1, <1>2, <1>3, <2>1
  <2>4. horizon * (unit * W) = (horizon * unit) * W
    BY <1>2, <1>3, <2>2
  <2> QED  BY <1>1, <2>3, <2>4 DEF Roster, Cap
<1>6. \A a, b \in Int :
          /\ a * W \in Int
          /\ (a - b) * W = a * W - b * W
          /\ a < b => a * W < b * W
          /\ a = b => a * W = b * W
  <2> TAKE a, b \in Int
  <2> QED  BY <1>2, Products
<1>7. \A i \in Roster : values'[i] = values[i] * W + Addition(i)
  BY <1>1
<1>8. ASSUME NEW i \in Roster
      PROVE  /\ values'[i] \in Nat
             /\ i \in active =>
                    /\ values[i] * W < values'[i]
                    /\ values'[i] <= Cap'
                    /\ values'[i] <= values[i] * W + Left * weight[i]
                    /\ values'[i] = Cap' \/ values'[i] = values[i] * W + Left * weight[i]
             /\ i \notin active => values'[i] = Cap'
  <2>1. values[i] * W \in Nat
    BY <1>2, <1>3
  <2>2. CASE i \in active
    <3>1. (Cap - values[i]) * W = Cap * W - values[i] * W
      <4>1. Cap \in Int /\ values[i] \in Int
        BY <1>3
      <4> QED  BY <1>6, <4>1
    <3>2. Cap * W \in Int /\ Left * weight[i] \in Int
      BY <1>1, <1>2, <1>3
    <3> QED  BY <1>4, <1>5, <1>7, <2>1, <2>2, <3>1, <3>2
  <2>3. CASE i \notin active
    <3>1. values[i] = Cap
      BY <1>1, <1>3, <2>3
    <3> QED  BY <1>4, <1>5, <1>7, <2>1, <2>3, <3>1
  <2> QED  BY <2>2, <2>3
<1>9. SharesTyped'
  <2>1. values' \in [Roster -> Nat]
    BY <1>1, <1>8
  <2> QED  BY <1>1, <1>5, <2>1 DEF SharesInv, SharesTyped
<1>10. CappedOrActive'
  <2>1. Cap' \in Nat
    BY <1>2, <1>3, <1>5
  <2>2. \A i \in Roster : values'[i] <= Cap'
    BY <1>8, <2>1
  <2>3. active' = {i \in active : values'[i] < Cap'}
    BY <1>1 DEF Cap
  <2>4. active' = {i \in Roster : values'[i] < Cap'}
    <3>1. \A i \in Roster \ active : ~ (values'[i] < Cap')
      BY <1>8, <2>1
    <3>2. active \subseteq Roster
      BY <1>1
    <3> QED  BY <2>3, <3>1, <3>2
  <2> QED  BY <1>5, <2>2, <2>4 DEF CappedOrActive
<1>11. ASSUME NEW i \in Roster, NEW j \in Roster, weight[i] > weight[j],
              values'[i] # Cap'
       PROVE  values'[i] > values'[j]
  <2>1. /\ i \in active
        /\ values'[i] = values[i] * W + Left * weight[i]
        /\ values[i] # Cap
    BY <1>1, <1>3, <1>8, <1>11
  <2>2. values[i] > values[j] \/ \A k \in Roster : values[k] = 0
    BY <1>11, <2>1 DEF SharesInv, LargerWeightHasMore
  <2>3. values[i] * W >= values[j] * W
    <3>1. values[i] \in Int /\ values[j] \in Int /\ values[j] <= values[i]
      BY <1>3, <2>2
    <3>2. values[j] * W <= values[i] * W
      BY <1>2, <3>1, Products
    <3> QED  BY <1>2, <3>1, <3>2
  <2>4. j \in active
    BY <1>1, <1>3, <2>1, <2>2
  <2>5. values'[j] <= values[j] * W + Left * weight[j]
    BY <1>8, <2>4
  <2>6. Left * weight[i] > Left * weight[j]
    <3>1. Left \in Nat \ {0} /\ weight[i] \in Int /\ weight[j] \in Int
      BY <1>1, <1>3
    <3> QED  BY <1>11, <3>1, Products
  <2>7. /\ values[i] * W \in Int /\ values[j] * W \in Int
        /\ Left * weight[i] \in Int /\ Left * weight[j] \in Int
        /\ values'[j] \in Int
    BY <1>1, <1>2, <1>3, <1>8
  <2> QED  BY <2>1, <2>3, <2>5, <2>6, <2>7
<1>12. LargerWeightHasMore'
  BY <1>1, <1>5, <1>11 DEF LargerWeightHasMore
<1> QED  BY <1>9, <1>10, <1>12, ShareLeaves DEF SharesInv

\* The loop starts, there is nothing to allocate, or too few to take it.
LEMMA SampleStarts ==
    ASSUME NEW h \in Nat, NEW n \in Nat,
           NEW w \in [1 .. n -> Weight], Sample(h, w)
    PROVE  AllocInv' /\ (stage' = "refused" => n < LineupSize)
<1>1. /\ horizon' = h /\ weight' = w /\ unit' = 1 /\ active' = 1 .. n
      /\ values' = [i \in 1 .. n |-> 0] /\ seconds' = [i \in 1 .. n |-> 0]
      /\ Roster' = 1 .. n
  BY DEF Sample, Roster
<1>2. IsFiniteSet(1 .. n) /\ Cardinality(1 .. n) = n
  <2>1. 1 \in Int /\ n \in Int
    OBVIOUS
  <2>2. IsFiniteSet(1 .. n) /\ Cardinality(1 .. n) = IF 1 > n THEN 0 ELSE n - 1 + 1
    BY <2>1, FS_Interval
  <2> QED  BY <2>2
<1>3. stage' = IF h = 0 THEN "done" ELSE IF n < LineupSize THEN "refused" ELSE "sharing"
  BY <1>2, SomeLineup DEF Sample
<1>4. Total(values)' = 0 /\ Total(seconds)' = 0
  <2>1. \A f : (\A i \in 1 .. n : f[i] = 0) => SumFunctionOnSet(f, 1 .. n) = 0
    <3> SUFFICES ASSUME NEW f, \A i \in 1 .. n : f[i] = 0
                 PROVE  SumFunctionOnSet(f, 1 .. n) = 0
      OBVIOUS
    <3>1. 0 \in Int
      OBVIOUS
    <3>2. SumFunctionOnSet(f, 1 .. n) = 0 * Cardinality(1 .. n)
      BY <1>2, <3>1, SumConstant
    <3> QED  BY <1>2, <3>2
  <2>2. DOMAIN values' = 1 .. n /\ DOMAIN seconds' = 1 .. n
    BY <1>1
  <2>3. \A i \in 1 .. n : values'[i] = 0 /\ seconds'[i] = 0
    BY <1>1
  <2> QED  BY <2>1, <2>2, <2>3 DEF Total
<1>5. CASE h = 0
  <2>1. Total(seconds)' = Required'
    BY <1>1, <1>4, <1>5, SomeLineup DEF Required
  <2>2. \A i \in 1 .. n : values'[i] = 0 /\ seconds'[i] = 0
    BY <1>1
  <2>3. \A i \in 1 .. n : /\ seconds'[i] \in 0 .. horizon'
                          /\ seconds'[i] * unit' - values'[i] \in -unit' + 1 .. unit' - 1
    BY <1>1, <1>5, <2>2
  <2>4. \A i, j \in 1 .. n : seconds'[i] >= seconds'[j]
    BY <2>2
  <2> QED  BY <1>1, <1>3, <1>5, <2>1, <2>3, <2>4 DEF AllocInv, AllocationSound
<1>6. CASE h # 0 /\ n < LineupSize
  BY <1>3, <1>6 DEF AllocInv, AllocationSound
<1>7. CASE h # 0 /\ n >= LineupSize
  <2>1. SharesTyped'
    BY <1>1, <1>7 DEF SharesTyped
  <2>2. Cap' \in Nat \ {0} /\ \A i \in 1 .. n : values'[i] = 0
    BY <1>1, <1>7 DEF Cap
  <2>3. CappedOrActive'
    BY <1>1, <2>2 DEF CappedOrActive
  <2>4. Left' \in Nat /\ Left' > 0
    <3>1. Left' = Required'
      BY <1>1, <1>4, <1>7, SomeLineup DEF Left, Required
    <3>2. Required' \in Nat \ {0}
      BY <1>1, <1>7, SomeLineup DEF Required
    <3> QED  BY <3>1, <3>2
  <2>5. LargerWeightHasMore'
    BY <1>1, <2>2, <2>4 DEF LargerWeightHasMore
  <2> QED
    BY <1>3, <1>7, SomeLineup, <2>1, <2>3, <2>4, <2>5 DEF AllocInv, AllocationSound, SharesInv
<1>8. n < LineupSize \/ n >= LineupSize
  BY SomeLineup
<1> QED  BY <1>5, <1>6, <1>7, <1>8

-----------------------------------------------------------------------------
(***************************************************************************)
(* The rounding.                                                           *)
(***************************************************************************)

\* The loop ends only when nothing is left: with everybody at the cap, a
\* roster that fills a lineup has taken everything.
LEMMA NothingIsLeft ==
    ASSUME SharesInv, Left = 0 \/ active = {}
    PROVE  Left = 0
<1> SUFFICES ASSUME active = {}  PROVE Left = 0
  OBVIOUS
<1>1. /\ IsFiniteSet(Roster) /\ Cardinality(Roster) \in Nat
      /\ Cardinality(Roster) >= LineupSize
      /\ horizon \in Nat \ {0} /\ unit \in Nat \ {0} /\ Cap \in Nat \ {0}
      /\ \A i \in Roster : values[i] \in Nat
      /\ Total(values) = SumFunctionOnSet(values, Roster)
  BY RosterFacts DEF SharesInv
<1>2. \A i \in Roster : values[i] = Cap
  BY <1>1 DEF SharesInv, CappedOrActive
<1>3. Total(values) = Cap * Cardinality(Roster)
  <2>1. IsFiniteSet(Roster) /\ Cap \in Int
    BY <1>1
  <2>2. SumFunctionOnSet(values, Roster) = Cap * Cardinality(Roster)
    BY <2>1, <1>2, SumConstant
  <2> QED  BY <1>1, <2>2
<1>4. Cap * LineupSize <= Cap * Cardinality(Roster)
  BY <1>1, SomeLineup, Products
<1>5. Required * unit = Cap * LineupSize
  <2>1. \A a, b, c \in Int : (a * b) * c = (b * c) * a
    OBVIOUS
  <2> QED  BY <1>1, <2>1, SomeLineup DEF Required, Cap
<1>6. Cap * LineupSize \in Int /\ Cap * Cardinality(Roster) \in Int
  BY <1>1, SomeLineup
<1> QED  BY <1>3, <1>4, <1>5, <1>6 DEF SharesInv, Left

\* A share is its floor and its rest, also when the float lies just below the
\* whole number; a share with a rest lies below the cap.
LEMMA FloorAndRest ==
    ASSUME SharesInv,
           NEW low \in SUBSET {i \in Roster : values[i] > 0 /\ values[i] % unit = 0},
           NEW i \in Roster
    PROVE  /\ Floor(low)[i] \in 0 .. horizon
           /\ Rest(low)[i] \in 0 .. unit
           /\ Rest(low)[i] = unit <=> i \in low
           /\ values[i] = Floor(low)[i] * unit + Rest(low)[i]
           /\ Rest(low)[i] > 0 => Floor(low)[i] < horizon
<1> DEFINE q == values[i] \div unit
<1> DEFINE r == values[i] % unit
<1>1. /\ values[i] \in Nat /\ unit \in Nat \ {0} /\ horizon \in Nat \ {0}
      /\ values[i] <= horizon * unit
  BY RosterFacts DEF SharesInv, CappedOrActive, Cap
<1>2. q \in Nat /\ r \in 0 .. unit - 1 /\ values[i] = q * unit + r
  BY <1>1, DivMod
<1>3. /\ Floor(low)[i] = q - IF i \in low THEN 1 ELSE 0
      /\ Rest(low)[i] = IF i \in low THEN unit ELSE r
  BY DEF Floor, Rest
<1>4. i \in low => r = 0 /\ values[i] > 0
  OBVIOUS
<1> HIDE DEF q, r
<1>5. i \in low => q >= 1 /\ values[i] = (q - 1) * unit + unit
  <2>1. q = 0 => q * unit = 0
    BY <1>1
  <2>2. (q - 1) * unit = q * unit - unit /\ q * unit \in Int
    BY <1>1, <1>2
  <2> QED  BY <1>1, <1>2, <1>4, <2>1, <2>2
<1>6. /\ Floor(low)[i] \in Nat
      /\ Rest(low)[i] \in 0 .. unit
      /\ Rest(low)[i] = unit <=> i \in low
      /\ values[i] = Floor(low)[i] * unit + Rest(low)[i]
  BY <1>1, <1>2, <1>3, <1>5
<1> DEFINE fl == Floor(low)[i]
<1> DEFINE re == Rest(low)[i]
<1> HIDE DEF fl, re
<1>7. fl \in Nat /\ re \in 0 .. unit /\ values[i] = fl * unit + re
  BY <1>6 DEF fl, re
<1>8. fl * unit \in Int /\ horizon * unit \in Int
  BY <1>1, <1>7
<1>9. fl * unit <= horizon * unit /\ (re > 0 => fl * unit < horizon * unit)
  BY <1>1, <1>7, <1>8
<1>10. fl <= horizon /\ (re > 0 => fl < horizon)
  BY <1>1, <1>7, <1>9, Products
<1> QED  BY <1>1, <1>6, <1>7, <1>10 DEF fl, re

\* The rests add up to the seconds that are missing; so at least the players
\* in `low` are topped up, and at most those who have a rest.
LEMMA RestsAreMissing ==
    ASSUME SharesInv, Left = 0,
           NEW low \in SUBSET {i \in Roster : values[i] > 0 /\ values[i] % unit = 0},
           NEW missing, missing = Required - Total(Floor(low))
    PROVE  /\ missing \in Nat
           /\ Cardinality(low) <= missing
           /\ missing <= Cardinality({i \in Roster : Rest(low)[i] > 0})
<1> DEFINE fl == Floor(low)
<1> DEFINE re == Rest(low)
<1> DEFINE some == {i \in Roster : re[i] > 0}
<1> DEFINE whole == [i \in Roster |-> fl[i] * unit]
<1> DEFINE least == [i \in Roster |-> IF i \in low THEN unit ELSE 0]
<1> DEFINE most == [i \in Roster |-> IF i \in some THEN unit ELSE 0]
<1>1. /\ IsFiniteSet(Roster) /\ unit \in Nat \ {0} /\ Required \in Nat
      /\ \A i \in Roster : values[i] \in Nat
      /\ Total(values) = SumFunctionOnSet(values, Roster)
      /\ Total(values) \in Nat /\ Required * unit \in Nat
  BY RosterFacts DEF SharesInv
<1>2. \A i \in Roster :
          /\ fl[i] \in Nat /\ re[i] \in 0 .. unit /\ (re[i] = unit <=> i \in low)
          /\ values[i] = fl[i] * unit + re[i]
  BY <1>1, FloorAndRest
<1>3. DOMAIN fl = Roster
  BY DEF Floor
<1>4. low \in SUBSET Roster /\ some \in SUBSET Roster
  OBVIOUS
<1>5. /\ \A i \in Roster : least[i] = IF i \in low THEN unit ELSE 0
      /\ \A i \in Roster : most[i] = IF i \in some THEN unit ELSE 0
      /\ \A i \in Roster : whole[i] = fl[i] * unit
      /\ \A i \in Roster : i \in some <=> re[i] > 0
  OBVIOUS
<1> HIDE DEF fl, re, some, whole, least, most
<1>6. SumFunctionOnSet(fl, Roster) \in Int /\ SumFunctionOnSet(re, Roster) \in Int
  <2>1. \A i \in Roster : fl[i] \in Int /\ re[i] \in Int
    BY <1>1, <1>2
  <2> QED  BY <1>1, <2>1, SumType
<1>7. SumFunctionOnSet(whole, Roster) = unit * SumFunctionOnSet(fl, Roster)
  <2>1. \A i \in Roster : fl[i] \in Int /\ whole[i] = unit * fl[i]
    BY <1>1, <1>2, <1>5
  <2> QED  BY <1>1, <2>1, SumScales
<1>8. Total(values)
        = SumFunctionOnSet(whole, Roster) + SumFunctionOnSet(re, Roster)
  <2>1. \A i \in Roster : whole[i] \in Int /\ re[i] \in Int
                          /\ values[i] = whole[i] + re[i]
    BY <1>1, <1>2, <1>5
  <2> QED  BY <1>1, <2>1, SumAdds
<1>9. missing = Required - SumFunctionOnSet(fl, Roster) /\ missing \in Int
  BY <1>1, <1>3, <1>6 DEF Total, fl
<1>10. SumFunctionOnSet(re, Roster) = missing * unit
  <2> DEFINE s == SumFunctionOnSet(fl, Roster)
  <2> HIDE DEF s
  <2>1. (Required - s) * unit = Required * unit - unit * s /\ unit * s \in Int
    BY <1>1, <1>6 DEF s
  <2>2. Total(values) = Required * unit
    BY <1>1 DEF Left
  <2> QED  BY <1>1, <1>6, <1>7, <1>8, <1>9, <2>1, <2>2 DEF s
<1>11. /\ Cardinality(low) \in Nat /\ Cardinality(some) \in Nat
       /\ unit \in Int
  BY <1>1, <1>4, FS_Subset, FS_CardinalityType
<1>12. unit * Cardinality(low) <= SumFunctionOnSet(re, Roster)
  <2>1. SumFunctionOnSet(least, Roster) = unit * Cardinality(low)
    BY <1>1, <1>4, <1>5, <1>11, SumCounts
  <2>2. \A i \in Roster : least[i] \in Int /\ re[i] \in Int /\ least[i] <= re[i]
    BY <1>1, <1>2, <1>5
  <2> QED  BY <1>1, <2>1, <2>2, SumMonotonic
<1>13. SumFunctionOnSet(re, Roster) <= unit * Cardinality(some)
  <2>1. SumFunctionOnSet(most, Roster) = unit * Cardinality(some)
    BY <1>1, <1>4, <1>5, <1>11, SumCounts
  <2>2. \A i \in Roster : most[i] \in Int /\ re[i] \in Int /\ re[i] <= most[i]
    BY <1>1, <1>2, <1>5
  <2> QED  BY <1>1, <2>1, <2>2, SumMonotonic
<1>14. /\ Cardinality(low) * unit <= missing * unit
       /\ missing * unit <= Cardinality(some) * unit
  <2>1. /\ unit * Cardinality(low) = Cardinality(low) * unit
        /\ unit * Cardinality(some) = Cardinality(some) * unit
    BY <1>1, <1>11, Products
  <2> QED  BY <1>10, <1>12, <1>13, <2>1
<1>15. Cardinality(low) <= missing /\ missing <= Cardinality(some)
  BY <1>1, <1>9, <1>11, <1>14, Products
<1> QED  BY <1>9, <1>11, <1>15 DEF some, re

\* The order in which the players are topped up.
Order(rest) == {e \in Roster \X Roster : Precedes(rest, e[1], e[2])}

\* The players one more second can go to.
Unfilled(floor) == {i \in Roster : floor[i] < horizon}

\* Exactly the missing seconds are handed out: to all players in `low`, to none
\* without a rest, and to a player with more rest before one with less.
LEMMA ToppedUpEvenly ==
    ASSUME SharesInv, Left = 0,
           NEW low \in SUBSET {i \in Roster : values[i] > 0 /\ values[i] % unit = 0},
           NEW missing, missing = Required - Total(Floor(low)),
           NEW up, up = ToppedUp(Floor(low), Rest(low), missing)
    PROVE  /\ up \subseteq Unfilled(Floor(low))
           /\ Cardinality(up) = missing
           /\ low \subseteq up
           /\ \A i \in up : Rest(low)[i] > 0
           /\ \A j \in up, i \in Unfilled(Floor(low)) :
                  Rest(low)[i] > Rest(low)[j] => i \in up
<1> DEFINE fl == Floor(low)
<1> DEFINE re == Rest(low)
<1> DEFINE some == {i \in Roster : re[i] > 0}
<1> DEFINE R == Order(re)
<1> DEFINE S == Unfilled(fl)
<1>1. /\ IsFiniteSet(Roster) /\ unit \in Nat \ {0} /\ Roster \subseteq Nat
  BY RosterFacts DEF SharesInv
<1>2. \A i \in Roster :
          /\ re[i] \in 0 .. unit /\ (re[i] = unit <=> i \in low)
          /\ re[i] > 0 => fl[i] < horizon
  BY FloorAndRest
<1>3. /\ missing \in Nat /\ Cardinality(low) <= missing
      /\ missing <= Cardinality(some)
  BY RestsAreMissing
<1>4. up = {i \in S : Cardinality({j \in S : Precedes(re, j, i)}) < missing}
  BY DEF ToppedUp, Unfilled
<1>5. S \in SUBSET Roster /\ some \in SUBSET S /\ low \in SUBSET S
  <2> HIDE DEF fl, re
  <2>1. \A i \in low : i \in Roster /\ re[i] > 0
    BY <1>1, <1>2
  <2>2. \A i \in Roster : re[i] > 0 => i \in S
    BY <1>2 DEF Unfilled
  <2>3. S \in SUBSET Roster
    BY DEF Unfilled
  <2> HIDE DEF S
  <2> QED  BY <2>1, <2>2, <2>3
<1> HIDE DEF fl, re, S
<1>6. /\ IsFiniteSet(S) /\ IsFiniteSet(some) /\ IsFiniteSet(low)
      /\ Cardinality(some) <= Cardinality(S)
      /\ Cardinality(S) \in Nat /\ Cardinality(low) \in Nat
      /\ Cardinality(some) \in Nat
  BY <1>1, <1>5, FS_Subset, FS_CardinalityType
<1>7. \A i, j \in S : <<j, i>> \in R <=> re[j] > re[i] \/ (re[j] = re[i] /\ j < i)
  BY <1>5 DEF Order, Precedes
<1>8. \A i \in S : {j \in S : Precedes(re, j, i)} = Before(S, R, i)
  BY <1>7 DEF Before, Precedes
<1>9. up = FirstOf(S, R, missing)
  BY <1>4, <1>8 DEF FirstOf
<1>10. \A i \in S : i \in Nat /\ re[i] \in Nat
  BY <1>1, <1>2, <1>5
<1> HIDE DEF R
<1>11. Cardinality(up) = missing
  <2>1. missing \in 0 .. Cardinality(S)
    BY <1>3, <1>6
  <2>2. \A x \in S : <<x, x>> \notin R
    BY <1>7, <1>10
  <2>3. \A x, y, z \in S : <<x, y>> \in R /\ <<y, z>> \in R => <<x, z>> \in R
    BY <1>7, <1>10
  <2>4. ASSUME NEW x \in S, NEW y \in S
        PROVE  x = y \/ <<x, y>> \in R \/ <<y, x>> \in R
    <3>1. re[x] \in Nat /\ re[y] \in Nat /\ x \in Nat /\ y \in Nat
      BY <1>10
    <3>2. \/ re[x] > re[y] \/ (re[x] = re[y] /\ x < y)
          \/ re[y] > re[x] \/ (re[y] = re[x] /\ y < x)
          \/ x = y
      BY <3>1
    <3> QED  BY <1>7, <3>2
  <2> QED  BY <1>6, <1>9, <2>1, <2>2, <2>3, <2>4, RankedFirst
<1>12. \A i \in S : Before(S, R, i) \in SUBSET S /\ IsFiniteSet(Before(S, R, i))
                    /\ Cardinality(Before(S, R, i)) \in Nat
  <2> TAKE i \in S
  <2>1. Before(S, R, i) \in SUBSET S
    BY DEF Before
  <2> QED  BY <1>6, <2>1, FS_Subset, FS_CardinalityType
<1>13. ASSUME NEW i \in low  PROVE i \in up
  <2>1. i \in S /\ re[i] = unit
    BY <1>2, <1>5
  <2>2. Before(S, R, i) \in SUBSET (low \ {i})
    <3> SUFFICES ASSUME NEW k \in S, <<k, i>> \in R  PROVE k \in low /\ k # i
      BY DEF Before
    <3>1. re[k] > unit \/ (re[k] = unit /\ k < i)
      BY <1>7, <2>1
    <3>2. re[k] \in 0 .. unit /\ (re[k] = unit => k \in low)
      BY <1>2, <1>5
    <3>3. i \in Nat
      BY <1>10, <2>1
    <3> QED  BY <1>1, <3>1, <3>2, <3>3
  <2>3. IsFiniteSet(low \ {i}) /\ Cardinality(low \ {i}) = Cardinality(low) - 1
    BY <1>6, FS_RemoveElement
  <2>4. Cardinality(Before(S, R, i)) <= Cardinality(low \ {i})
    BY <2>2, <2>3, FS_Subset
  <2> QED  BY <1>3, <1>6, <1>9, <1>12, <2>1, <2>3, <2>4 DEF FirstOf
<1>14. ASSUME NEW i \in up  PROVE re[i] > 0
  <2> SUFFICES ASSUME ~ (re[i] > 0)  PROVE FALSE
    OBVIOUS
  <2>1. i \in S /\ Cardinality(Before(S, R, i)) < missing
    BY <1>9 DEF FirstOf
  <2>2. re[i] = 0
    BY <1>10, <2>1
  <2>3. some \in SUBSET Before(S, R, i)
    BY <1>5, <1>7, <2>1, <2>2 DEF Before
  <2>4. Cardinality(some) <= Cardinality(Before(S, R, i))
    BY <1>12, <2>1, <2>3, FS_Subset
  <2> QED  BY <1>3, <1>6, <1>12, <2>1, <2>4
<1>15. ASSUME NEW j \in up, NEW i \in S, re[i] > re[j]  PROVE i \in up
  <2>1. j \in S /\ Cardinality(Before(S, R, j)) < missing
    BY <1>9 DEF FirstOf
  <2>2. Before(S, R, i) \in SUBSET Before(S, R, j)
    <3> SUFFICES ASSUME NEW k \in S, <<k, i>> \in R  PROVE <<k, j>> \in R
      BY DEF Before
    <3>1. re[k] >= re[i]
      BY <1>7, <1>10
    <3>2. re[k] > re[j]
      BY <1>10, <1>15, <2>1, <3>1
    <3> QED  BY <1>7, <2>1, <3>2
  <2>3. Cardinality(Before(S, R, i)) <= Cardinality(Before(S, R, j))
    BY <1>12, <2>1, <2>2, FS_Subset
  <2> QED  BY <1>3, <1>9, <1>12, <2>1, <2>3 DEF FirstOf
<1>16. up \subseteq S
  BY <1>9 DEF FirstOf
<1> QED  BY <1>11, <1>13, <1>14, <1>15, <1>16 DEF S, fl, re

\* The rounding is what a finished allocation owes the simulator, and none of
\* the errors after it is raised.
LEMMA RoundIsSound ==
    ASSUME SharesInv, Round
    PROVE  AllocInv'
<1>1. Left = 0
  BY NothingIsLeft DEF Round
<1>2. PICK low \in SUBSET {i \in Roster : values[i] > 0 /\ values[i] % unit = 0} :
          LET floor == Floor(low)
              missing == Required - Total(floor)
              up == ToppedUp(floor, Rest(low), missing)
          IN  /\ seconds' = [i \in Roster |-> floor[i] + IF i \in up THEN 1 ELSE 0]
              /\ stage' = IF Left = 0 /\ Cardinality(up) = missing
                          THEN "done" ELSE "stuck"
  BY DEF Round
<1> DEFINE fl == Floor(low)
<1> DEFINE re == Rest(low)
<1> DEFINE missing == Required - Total(fl)
<1> DEFINE up == ToppedUp(fl, re, missing)
<1>3. /\ seconds' = [i \in Roster |-> fl[i] + IF i \in up THEN 1 ELSE 0]
      /\ stage' = IF Left = 0 /\ Cardinality(up) = missing THEN "done" ELSE "stuck"
  BY <1>2
<1>4. /\ up \subseteq Unfilled(fl) /\ Cardinality(up) = missing /\ low \subseteq up
      /\ \A i \in up : re[i] > 0
      /\ \A j \in up, i \in Unfilled(fl) : re[i] > re[j] => i \in up
  BY <1>1, ToppedUpEvenly
<1>5. /\ IsFiniteSet(Roster) /\ unit \in Nat \ {0} /\ horizon \in Nat \ {0}
      /\ Required \in Nat /\ \A i \in Roster : weight[i] \in Nat
  BY RosterFacts DEF SharesInv
<1>6. \A i \in Roster :
          /\ fl[i] \in 0 .. horizon
          /\ re[i] \in 0 .. unit
          /\ re[i] = unit <=> i \in low
          /\ values[i] = fl[i] * unit + re[i]
          /\ re[i] > 0 => fl[i] < horizon
  BY FloorAndRest
<1>7. DOMAIN fl = Roster /\ up \in SUBSET Roster
  BY <1>4 DEF Floor, Unfilled
<1>8. missing = Required - Total(fl)
  OBVIOUS
<1>9. UNCHANGED <<horizon, weight, values, unit, active>>
  BY DEF Round
<1> HIDE DEF fl, re, up, missing
<1>10. \A i \in Roster : seconds'[i] = IF i \in up THEN fl[i] + 1 ELSE fl[i]
  BY <1>3, <1>6
<1>11. \A i \in Roster : seconds'[i] \in 0 .. horizon
  <2>1. \A i \in up : fl[i] < horizon
    BY <1>4 DEF Unfilled
  <2> QED  BY <1>5, <1>6, <1>10, <2>1
<1>12. Total(seconds') = Required
  <2>1. DOMAIN seconds' = Roster
    BY <1>3
  <2>2. \A i \in Roster : /\ fl[i] \in Int
                          /\ seconds'[i] = IF i \in up THEN fl[i] + 1 ELSE fl[i]
    BY <1>6, <1>10
  <2>3. SumFunctionOnSet(seconds', Roster)
          = SumFunctionOnSet(fl, Roster) + 1 * Cardinality(up)
    BY <1>5, <1>7, <2>2, SumRaised
  <2>4. SumFunctionOnSet(fl, Roster) \in Int
    BY <1>5, <2>2, SumType
  <2>5. Total(seconds') = SumFunctionOnSet(seconds', Roster)
    BY <2>1 DEF Total
  <2>6. Total(fl) = SumFunctionOnSet(fl, Roster)
    BY <1>7 DEF Total
  <2> QED  BY <1>4, <1>5, <1>8, <2>3, <2>4, <2>5, <2>6
<1>13. ASSUME NEW i \in Roster
       PROVE  seconds'[i] * unit - values[i] \in -unit + 1 .. unit - 1
  <2>1. i \notin up => re[i] # unit
    BY <1>4, <1>6
  <2>2. /\ fl[i] * unit \in Int /\ fl[i] \in Int
        /\ (fl[i] + 1) * unit = fl[i] * unit + unit
    BY <1>5, <1>6
  <2>3. re[i] \in 0 .. unit /\ values[i] = fl[i] * unit + re[i]
    BY <1>6
  <2>4. CASE i \in up
    <3>1. seconds'[i] * unit - values[i] = unit - re[i]
      BY <1>5, <1>10, <2>2, <2>3, <2>4
    <3>2. re[i] > 0
      BY <1>4, <2>4
    <3> QED  BY <1>5, <2>3, <3>1, <3>2
  <2>5. CASE i \notin up
    <3>1. seconds'[i] * unit - values[i] = -re[i]
      BY <1>5, <1>10, <2>2, <2>3, <2>5
    <3> QED  BY <1>5, <2>1, <2>3, <2>5, <3>1
  <2> QED  BY <2>4, <2>5
<1>14. ASSUME NEW i \in Roster, NEW j \in Roster, weight[i] > weight[j]
       PROVE  seconds'[i] >= seconds'[j]
  <2>1. values[i] > values[j] \/ values[i] = Cap
    BY <1>1, <1>14 DEF SharesInv, LargerWeightHasMore
  <2>2. /\ fl[i] \in Nat /\ fl[j] \in Nat /\ re[i] \in Nat /\ re[j] \in Nat
        /\ fl[i] * unit \in Int /\ fl[j] * unit \in Int /\ re[i] <= unit /\ re[j] <= unit
    BY <1>5, <1>6
  <2>3. CASE values[i] > values[j]
    <3>1. fl[j] <= fl[i]
      <4> SUFFICES ASSUME fl[i] < fl[j]  PROVE FALSE
        BY <2>2
      <4>1. (fl[i] + 1) * unit <= fl[j] * unit
        BY <1>5, <2>2, Products
      <4>2. (fl[i] + 1) * unit = fl[i] * unit + unit
        BY <1>5, <2>2
      <4>3. re[i] = unit /\ re[j] = 0
        BY <1>5, <1>6, <2>2, <2>3, <4>1, <4>2
      <4> QED  BY <1>5, <1>6, <2>2, <2>3, <4>1, <4>2, <4>3
    <3>2. CASE fl[j] = fl[i]
      <4>1. re[i] > re[j]
        BY <1>6, <2>2, <2>3, <3>2
      <4>2. j \in up => i \in up
        BY <1>4, <3>2, <4>1 DEF Unfilled
      <4> QED  BY <1>10, <2>2, <3>2, <4>2
    <3>3. CASE fl[j] < fl[i]
      BY <1>10, <2>2, <3>3
    <3> QED  BY <2>2, <3>1, <3>2, <3>3
  <2>4. CASE values[i] = Cap
    <3>1. seconds'[i] = horizon
      <4>1. fl[i] * unit + re[i] = horizon * unit
        BY <1>6, <2>4 DEF Cap
      <4>2. CASE fl[i] = horizon
        BY <1>10, <1>11, <2>2, <4>2
      <4>3. CASE fl[i] < horizon
        <5>1. (fl[i] + 1) * unit <= horizon * unit
          BY <1>5, <2>2, <4>3, Products
        <5>2. (fl[i] + 1) * unit = fl[i] * unit + unit /\ horizon * unit \in Int
          BY <1>5, <2>2
        <5>3. re[i] = unit /\ (fl[i] + 1) * unit = horizon * unit
          BY <1>5, <2>2, <4>1, <5>1, <5>2
        <5>4. fl[i] + 1 = horizon
          <6>1. fl[i] + 1 \in Int /\ horizon \in Int
            BY <1>5, <2>2
          <6> QED  BY <1>5, <5>3, <6>1, Products
        <5>5. i \in up
          BY <1>4, <1>6, <5>3
        <5> QED  BY <1>10, <5>4, <5>5
      <4>4. fl[i] = horizon \/ fl[i] < horizon
        <5>1. fl[i] \in 0 .. horizon
          BY <1>6
        <5> QED  BY <1>5, <5>1
      <4> QED  BY <4>2, <4>3, <4>4
    <3> QED  BY <1>5, <1>11, <3>1
  <2> QED  BY <2>1, <2>3, <2>4
<1>15. stage' = "done" /\ Roster' = Roster
  BY <1>1, <1>3, <1>4, <1>9 DEF Roster
<1>16. AllocationSound'
  <2>1. Total(seconds)' = Required'
    BY <1>9, <1>12 DEF Total, Required
  <2> QED  BY <1>9, <1>11, <1>13, <1>14, <1>15, <2>1 DEF AllocationSound
<1> QED  BY <1>15, <1>16 DEF AllocInv

-----------------------------------------------------------------------------
(***************************************************************************)
(* The request.                                                            *)
(***************************************************************************)

Steps == {"browsing", "reading", "refused", "built", "simulating", "answered", "failed"}

ArchiveTyped ==
    /\ now \in Nat
    /\ archive \subseteq [at : Nat, board : Board]
    /\ step \in Steps

\* What the handler has read when it comes to the gates.
ReadTyped ==
    step \in {"reading", "built"} =>
        /\ feed.board \in Board \cup {{}}
        /\ \E o \in Offer : ask \in Asks(o)
        /\ game \in Game \cup {None}

\* The state that is simulated and the bet are those of the request and of the
\* game that were read, and stay so until the simulation starts.
BuiltIsRequested ==
    step = "built" =>
        /\ ask.offer \in feed.board /\ game # None
        /\ plan = IF ask.remaining = None
                  THEN [period |-> game.period, clock |-> game.clock]
                  ELSE RemainingToPeriodClock(ask.remaining)
        /\ spec = MarketSpec(ask.offer, ask)
        /\ LET books == Consensus(feed.board, ask.offer)
           IN  anchor = IF SameBet(ask.offer, ask) /\ Cardinality(books) >= 2
                        THEN books ELSE {}

\* The simulator is given a time, and teams that fill a lineup unless the box
\* score repeats a player.
Simulated ==
    step \in {"built", "simulating"} =>
        /\ GameSecondsRemaining(plan) \in Nat
        /\ todo \in Seq(Nat)
        /\ ~ box.repeats => box.full /\ \A k \in DOMAIN todo : todo[k] >= LineupSize

\* A team is refused, and then the request fails, only for such a box score.
FailsOnRepeats ==
    /\ stage = "refused" => step \in {"simulating", "failed"} /\ box.repeats
    /\ step = "failed" => box.repeats

ReferenceInv ==
    /\ ArchiveTyped /\ ReadTyped /\ BuiltIsRequested /\ Simulated
    /\ AllocInv /\ FailsOnRepeats

-----------------------------------------------------------------------------
(***************************************************************************)
(* The inputs.                                                             *)
(***************************************************************************)

\* What is known of a request and its game once they have been read.
LEMMA ReadFacts ==
    ASSUME ReadTyped, step \in {"reading", "built"}
    PROVE  /\ ask.offer \in Offer
           /\ ask.remaining \in Nat \cup {None}
           /\ game # None => /\ game.period \in Nat \ {0}
                             /\ game.clock \in 0 .. PeriodLength
<1>1. ask.offer \in Offer /\ ask.remaining \in Remaining
  BY DEF ReadTyped, Asks
<1>2. game # None => game \in [period : Nat \ {0}, clock : 0 .. PeriodLength, age : Nat]
  BY GameRows DEF ReadTyped
<1> QED  BY <1>1, <1>2, RemainingAsked

\* Boards are finite, and so are the sets of books on them.
LEMMA BooksAreFinite ==
    ASSUME NEW board, IsFiniteSet(board)
    PROVE  IsFiniteSet({c.book : c \in board})
<1> DEFINE book == [c \in board |-> c.book]
<1>1. book \in Surjection(board, {c.book : c \in board})
  BY DEF Surjection
<1> HIDE DEF book
<1> QED  BY <1>1, FS_Surjection

-----------------------------------------------------------------------------
(***************************************************************************)
(* The simulated time.                                                     *)
(***************************************************************************)

\* The remaining time of a game that is read, as the engine and the dashboard
\* count it, and the time of the state built for an override.
LEMMA Horizons ==
    /\ \A p \in Nat \ {0}, c \in 0 .. PeriodLength :
           LET g == [period |-> p, clock |-> c]
           IN  /\ GameSecondsRemaining(g) \in Nat
               /\ GameSecondsRemaining(g) = MinutesRemaining(g)
               /\ GameSecondsRemaining(g) <= Periods * PeriodLength
    /\ \A s \in Nat :
           GameSecondsRemaining(RemainingToPeriodClock(s))
             = IF s < Periods * PeriodLength THEN s ELSE Periods * PeriodLength
<1>1. ASSUME NEW p \in Nat \ {0}, NEW c \in 0 .. PeriodLength, NEW g,
             g = [period |-> p, clock |-> c]
      PROVE  /\ GameSecondsRemaining(g) \in Nat
             /\ GameSecondsRemaining(g) = MinutesRemaining(g)
             /\ GameSecondsRemaining(g) <= Periods * PeriodLength
  <2>1. g.period = p /\ g.clock = c /\ PeriodLength \in Nat \ {0}
    BY <1>1, SomePeriod
  <2>2. CASE p > 4
    BY <2>1, <2>2 DEF GameSecondsRemaining, MinutesRemaining, Periods
  <2>3. CASE p \in {1, 2, 3, 4}
    BY <2>1, <2>3 DEF GameSecondsRemaining, MinutesRemaining, Periods
  <2> QED  BY <2>2, <2>3
<1>2. ASSUME NEW s \in Nat
      PROVE  GameSecondsRemaining(RemainingToPeriodClock(s))
               = IF s < Periods * PeriodLength THEN s ELSE Periods * PeriodLength
  BY SomePeriod DEF GameSecondsRemaining, RemainingToPeriodClock, Periods
<1> QED  BY <1>1, <1>2

\* Either way the state has a time to simulate.
LEMMA PlannedTime ==
    ASSUME NEW asked \in Nat \cup {None},
           NEW p \in Nat \ {0}, NEW c \in 0 .. PeriodLength
    PROVE  GameSecondsRemaining(IF asked = None THEN [period |-> p, clock |-> c]
                                ELSE RemainingToPeriodClock(asked)) \in Nat
<1>1. CASE asked = None
  BY <1>1, Horizons
<1>2. CASE asked # None
  <2>1. asked \in Nat
    BY <1>2
  <2>2. Periods * PeriodLength \in Nat
    BY SomePeriod DEF Periods
  <2> QED  BY <1>2, <2>1, <2>2, Horizons
<1> QED  BY <1>1, <1>2

LEMMA BuiltHorizon ==
    ASSUME ReferenceInv
    PROVE  HorizonIsRequested
<1> SUFFICES ASSUME step = "built"  PROVE HorizonIsRequested
  BY DEF HorizonIsRequested
<1> DEFINE whole == Periods * PeriodLength
<1>1. /\ ask.remaining \in Nat \cup {None}
      /\ game.period \in Nat \ {0} /\ game.clock \in 0 .. PeriodLength
  BY ReadFacts DEF ReferenceInv, BuiltIsRequested
<1>2. /\ plan = IF ask.remaining = None
                THEN [period |-> game.period, clock |-> game.clock]
                ELSE RemainingToPeriodClock(ask.remaining)
  BY DEF ReferenceInv, BuiltIsRequested
<1>3. /\ GameSecondsRemaining(game) = MinutesRemaining(game)
      /\ GameSecondsRemaining(game) \in Nat /\ GameSecondsRemaining(game) <= whole
      /\ GameSecondsRemaining([period |-> game.period, clock |-> game.clock])
           = GameSecondsRemaining(game)
  <2> DEFINE g == [period |-> game.period, clock |-> game.clock]
  <2>1. /\ GameSecondsRemaining(g) = MinutesRemaining(g)
        /\ GameSecondsRemaining(g) \in Nat /\ GameSecondsRemaining(g) <= whole
    BY <1>1, Horizons
  <2>2. /\ GameSecondsRemaining(g) = GameSecondsRemaining(game)
        /\ MinutesRemaining(g) = MinutesRemaining(game)
    BY DEF GameSecondsRemaining, MinutesRemaining
  <2> QED  BY <2>1, <2>2
<1>4. ask.remaining = None => GameSecondsRemaining(plan) = GameSecondsRemaining(game)
  BY <1>2, <1>3
<1>5. ask.remaining # None =>
          GameSecondsRemaining(plan)
            = IF ask.remaining < whole THEN ask.remaining ELSE whole
  BY <1>1, <1>2, Horizons
<1>6. ask.remaining = MinutesRemaining(game) =>
          GameSecondsRemaining(plan) = GameSecondsRemaining(game)
  <2> SUFFICES ASSUME ask.remaining = MinutesRemaining(game)
               PROVE  GameSecondsRemaining(plan) = GameSecondsRemaining(game)
    OBVIOUS
  <2>1. ask.remaining # None
    BY <1>3, NoneIsNothing
  <2>2. whole \in Nat
    BY SomePeriod DEF Periods
  <2> QED  BY <1>3, <1>5, <2>1, <2>2
<1> QED  BY <1>4, <1>5, <1>6 DEF HorizonIsRequested

-----------------------------------------------------------------------------
(***************************************************************************)
(* The bet.                                                                *)
(***************************************************************************)

\* The handicap of the home team with a line of the request.
KeepsSign(o, a) == a.line # None /\ o.market = "spreads" /\ o.side = "home"

\* The simulator settles the MarketSpec of an offer as the sportsbook settles
\* the offer, or the opposite handicap.
LEMMA SpecSettlesOffer ==
    ASSUME NEW o \in Offer, NEW a, SameBet(o, a),
           NEW margin \in Int \ {0}, NEW total \in Int, NEW points \in Int,
           NEW score, score = [margin |-> margin, total |-> total, points |-> points]
    PROVE  Priced(MarketSpec(o, a), score)
             = Bet(IF KeepsSign(o, a) THEN Mirrored(o) ELSE o, score)
<1> USE DEF Sign, Tellable
<1>1. a.line \in {None, o.line} /\ a.side \in {None, o.side}
  BY DEF SameBet
<1>2. CASE o.market = "totals" /\ o.side \in Tellable /\ o.line \in Int
  <2>1. MarketSpec(o, a) = [type |-> "game_total", side |-> o.side, line |-> o.line]
    BY <1>1, <1>2, NoneIsNothing DEF MarketSpec, Prop, Line
  <2> QED  BY <1>2, <2>1 DEF Priced, Bet, Prop, KeepsSign
<1>3. CASE o.market = "player_points" /\ o.side \in Tellable /\ o.line \in Int
  <2>1. MarketSpec(o, a) = [type |-> "player_prop", side |-> o.side, line |-> o.line]
    BY <1>1, <1>3, NoneIsNothing DEF MarketSpec, Prop, Line
  <2> QED  BY <1>3, <2>1 DEF Priced, Bet, Prop, KeepsSign
<1>4. CASE o.market = "spreads" /\ o.side \in {"home", "away"} /\ o.line \in Int
  <2>1. MarketSpec(o, a) =
          [type |-> "home_spread", line |-> HomeLine(o, a),
           side |-> IF o.side = "home" THEN "over" ELSE "under"]
    BY <1>1, <1>4, NoneIsNothing DEF MarketSpec, Prop
  <2>2. CASE KeepsSign(o, a)
    <3>1. HomeLine(o, a) = o.line /\ o.side = "home"
      BY <1>1, <2>2 DEF KeepsSign, HomeLine, Line
    <3>2. /\ Mirrored(o).market = "spreads" /\ Mirrored(o).side = "home"
          /\ Mirrored(o).line = -o.line
      BY <1>4, <3>1 DEF Mirrored
    <3>3. Priced(MarketSpec(o, a), score) = Sign(margin - o.line)
      BY <1>4, <2>1, <3>1 DEF Priced
    <3>4. Bet(Mirrored(o), score) = Sign(margin + (-o.line))
      BY <1>4, <3>2 DEF Bet
    <3> QED  BY <1>4, <2>2, <3>3, <3>4
  <2>3. CASE ~ KeepsSign(o, a) /\ o.side = "home"
    <3>1. HomeLine(o, a) = -o.line
      BY <1>1, <1>4, <2>3 DEF KeepsSign, HomeLine
    <3> QED  BY <1>4, <2>1, <2>3, <3>1 DEF Priced, Bet, Prop
  <2>4. CASE o.side = "away"
    <3>1. HomeLine(o, a) = o.line /\ ~ KeepsSign(o, a)
      BY <1>1, <1>4, <2>4, NoneIsNothing DEF KeepsSign, HomeLine, Line
    <3> QED  BY <1>4, <2>1, <2>4, <3>1 DEF Priced, Bet, Prop
  <2> QED  BY <1>4, <2>2, <2>3, <2>4
<1>5. CASE o.market = "h2h" /\ o.side \in {"home", "away"} /\ o.line = None
  <2>1. MarketSpec(o, a) =
          [type |-> "moneyline_home", line |-> 1,
           side |-> IF o.side = "home" THEN "over" ELSE "under"]
    BY <1>5 DEF MarketSpec, Prop
  <2>2. CASE o.side = "home"
    BY <1>5, <2>1, <2>2 DEF Priced, Bet, Prop, KeepsSign
  <2>3. CASE o.side = "away"
    BY <1>5, <2>1, <2>3 DEF Priced, Bet, Prop, KeepsSign
  <2> QED  BY <1>5, <2>2, <2>3
<1> QED  BY <1>2, <1>3, <1>4, <1>5, OfferShape

LEMMA BuiltBet ==
    ASSUME ReferenceInv
    PROVE  OfferedOrMirroredIsPriced
<1> SUFFICES ASSUME step = "built", SameBet(ask.offer, ask), NEW score \in Scores
             PROVE  Priced(spec, score)
                      = Bet(IF KeepsSign(ask.offer, ask) THEN Mirrored(ask.offer)
                            ELSE ask.offer, score)
  BY DEF OfferedOrMirroredIsPriced, KeepsSign
<1>1. ask.offer \in Offer /\ spec = MarketSpec(ask.offer, ask)
  BY ReadFacts DEF ReferenceInv, BuiltIsRequested
<1>2. PICK margin \in {-4, -2, 2, 4}, total \in {2, 4}, points \in {0, 2} :
          score = [margin |-> margin, total |-> total, points |-> points]
  BY DEF Scores
<1>3. margin \in Int \ {0} /\ total \in Int /\ points \in Int
  OBVIOUS
<1> QED  BY <1>1, <1>2, <1>3, SpecSettlesOffer

-----------------------------------------------------------------------------
(***************************************************************************)
(* The consensus.                                                          *)
(***************************************************************************)

\* A book that quotes a bet has it on both sides.
LEMMA QuotesBothSides ==
    ASSUME NEW board, IsFiniteSet(board), NEW o, NEW b, Quotes(b, board, o)
    PROVE  \E c, d \in board :
               /\ c.book = b /\ d.book = b /\ c.side # d.side
               /\ SameMarket(c, o) /\ SameMarket(d, o)
<1> DEFINE items == {c \in board : c.book = b /\ SameMarket(c, o)}
<1> DEFINE same == {c \in items : c.side = o.side}
<1>1. Cardinality(same) = 1 /\ Cardinality(items) >= 2
  BY DEF Quotes
<1>2. IsFiniteSet(items) /\ IsFiniteSet(same) /\ same \in SUBSET items
  <2>1. items \in SUBSET board /\ same \in SUBSET board
    OBVIOUS
  <2> QED  BY <2>1, FS_Subset
<1>3. same # {} /\ same # items
  <2> HIDE DEF items, same
  <2> QED  BY <1>1, <1>2, FS_EmptySet
<1>4. PICK c \in same, d \in items : d \notin same
  BY <1>2, <1>3
<1> QED  BY <1>4

\* A consensus of two books or more has the offer's own book only when it has
\* no more than two.
LEMMA ConsensusIsOfOthers ==
    ASSUME NEW board, IsFiniteSet(board), NEW o,
           NEW books, books = Consensus(board, o), Cardinality(books) >= 2
    PROVE  /\ o.book \in books => Cardinality(books) <= 2
           /\ \A b \in books : Quotes(b, board, o)
<1> DEFINE all == {b \in {c.book : c \in board} : Quotes(b, board, o)}
<1> DEFINE others == all \ {o.book}
<1>1. books = IF Cardinality(others) >= 2 THEN others ELSE all
  BY DEF Consensus
<1>2. \A b \in all : Quotes(b, board, o)
  OBVIOUS
<1>3. IsFiniteSet(all)
  <2>1. all \in SUBSET {c.book : c \in board}
    OBVIOUS
  <2> QED  BY <2>1, BooksAreFinite, FS_Subset
<1> HIDE DEF all
<1>4. IsFiniteSet(others) /\ Cardinality(others) \in Nat /\ Cardinality(all) \in Nat
  BY <1>3, FS_RemoveElement, FS_CardinalityType
<1>5. Cardinality(all) <= Cardinality(others) + 1
  BY <1>3, <1>4, FS_RemoveElement
<1>6. CASE Cardinality(others) >= 2
  BY <1>1, <1>2, <1>6
<1>7. CASE ~ (Cardinality(others) >= 2)
  <2>1. books = all
    BY <1>1, <1>7
  <2>2. Cardinality(all) <= 2
    <3> HIDE DEF others
    <3> QED  BY <1>4, <1>5, <1>7
  <2> QED  BY <1>2, <2>1, <2>2
<1> QED  BY <1>6, <1>7

LEMMA BuiltAnchor ==
    ASSUME ReferenceInv
    PROVE  AnchorIsOfOthers
<1> SUFFICES ASSUME step = "built", anchor # {}  PROVE AnchorIsOfOthers
  BY DEF AnchorIsOfOthers
<1>1. anchor = Consensus(feed.board, ask.offer) /\ Cardinality(anchor) >= 2
  BY DEF ReferenceInv, BuiltIsRequested
<1>2. IsFiniteSet(feed.board)
  BY FiniteBoards, FS_EmptySet DEF ReferenceInv, ReadTyped
<1>3. /\ ask.offer.book \in anchor => Cardinality(anchor) <= 2
      /\ \A b \in anchor : Quotes(b, feed.board, ask.offer)
  BY <1>1, <1>2, ConsensusIsOfOthers
<1>4. ASSUME NEW b \in anchor
      PROVE  \E c, d \in feed.board :
                 /\ c.book = b /\ d.book = b /\ c.side # d.side
                 /\ SameMarket(c, ask.offer) /\ SameMarket(d, ask.offer)
  BY <1>2, <1>3, QuotesBothSides
<1> QED  BY <1>1, <1>3, <1>4 DEF AnchorIsOfOthers

-----------------------------------------------------------------------------
(***************************************************************************)
(* The feed.                                                               *)
(***************************************************************************)

\* What an answer that g does not beat may pass over.
LEMMA Unbeaten ==
    ASSUME NEW f \in [at : Nat, board : Board], NEW g \in [at : Nat, board : Board],
           ~ Better(g, f)
    PROVE  /\ Rich(g) > Rich(f) => HalfMinute(g) < HalfMinute(f)
           /\ g.at > f.at => HalfMinute(g) = HalfMinute(f) /\ Rich(g) < Rich(f)
<1> DEFINE hf == f.at \div Bucket
<1> DEFINE hg == g.at \div Bucket
<1>1. /\ f.at \in Nat /\ g.at \in Nat
      /\ Cardinality(f.board) \in Nat /\ Cardinality(g.board) \in Nat
  BY FiniteBoards, FS_CardinalityType
<1>2. /\ hf \in Nat /\ hg \in Nat
      /\ 3 * hf <= f.at /\ f.at <= 3 * hf + 2 /\ 3 * hg <= g.at /\ g.at <= 3 * hg + 2
  BY <1>1 DEF Bucket
<1>3. /\ ~ (hg > hf)
      /\ ~ (hg = hf /\ Cardinality(g.board) > Cardinality(f.board))
      /\ ~ (hg = hf /\ Cardinality(g.board) = Cardinality(f.board) /\ g.at > f.at)
  BY DEF Better, HalfMinute, Rich
<1> HIDE DEF hf, hg
<1>4. g.at > f.at => hg >= hf
  BY <1>1, <1>2
<1>5. /\ Cardinality(g.board) > Cardinality(f.board) => hg < hf
      /\ g.at > f.at => hg = hf /\ Cardinality(g.board) < Cardinality(f.board)
  BY <1>1, <1>2, <1>3, <1>4
<1> QED  BY <1>5 DEF hf, hg, HalfMinute, Rich

-----------------------------------------------------------------------------
(***************************************************************************)
(* The invariant.                                                          *)
(***************************************************************************)
LEMMA InitReference == Init => ReferenceInv
<1> SUFFICES ASSUME Init  PROVE ReferenceInv
  OBVIOUS
<1>1. ArchiveTyped
  BY DEF Init, ArchiveTyped, Steps
<1>2. ReadTyped /\ BuiltIsRequested /\ Simulated
  BY DEF Init, ReadTyped, BuiltIsRequested, Simulated
<1>3. AllocInv /\ FailsOnRepeats
  BY DEF Init, AllocInv, AllocationSound, FailsOnRepeats
<1> QED  BY <1>1, <1>2, <1>3 DEF ReferenceInv, Init

\* What the allocation knows does not change when its variables do not.
LEMMA AllocationStays == AllocInv /\ UNCHANGED allocation => AllocInv'
BY DEF AllocInv, allocation, AllocationSound, SharesInv, SharesTyped,
       CappedOrActive, LargerWeightHasMore, Left, Cap, Required, Roster, Total

LEMMA NextReference == ReferenceInv /\ [Next]_vars => ReferenceInv'
<1> SUFFICES ASSUME ReferenceInv, [Next]_vars  PROVE ReferenceInv'
  OBVIOUS
<1> USE DEF ReferenceInv
<1>1. ASSUME NEW board \in Board, Archive(board)  PROVE ReferenceInv'
  <2>1. ArchiveTyped'
    BY <1>1 DEF Archive, ArchiveTyped
  <2>2. (ReadTyped /\ BuiltIsRequested /\ Simulated /\ FailsOnRepeats)'
    BY <1>1 DEF Archive, ReadTyped, BuiltIsRequested, Simulated, FailsOnRepeats, allocation
  <2> QED  BY <1>1, <2>1, <2>2, AllocationStays DEF Archive
<1>2. CASE Tick
  <2>1. ArchiveTyped'
    BY <1>2 DEF Tick, ArchiveTyped
  <2>2. (ReadTyped /\ BuiltIsRequested /\ Simulated /\ FailsOnRepeats)'
    BY <1>2 DEF Tick, ReadTyped, BuiltIsRequested, Simulated, FailsOnRepeats, allocation
  <2> QED  BY <1>2, <2>1, <2>2, AllocationStays DEF Tick
<1>3. CASE Read
  <2>1. ArchiveTyped'
    BY <1>3 DEF Read, ArchiveTyped, Steps
  <2>2. feed'.board \in Board \cup {{}}
    <3>1. CASE archive = {}
      BY <1>3, <3>1 DEF Read
    <3>2. CASE archive # {}
      BY <1>3, <3>2 DEF Read, Candidates, ArchiveTyped
    <3> QED  BY <3>1, <3>2
  <2>3. ReadTyped'
    BY <1>3, <2>2 DEF Read, ReadTyped
  <2>4. (BuiltIsRequested /\ Simulated /\ FailsOnRepeats)'
    BY <1>3 DEF Read, BuiltIsRequested, Simulated, FailsOnRepeats, allocation
  <2> QED  BY <1>3, <2>1, <2>3, <2>4, AllocationStays DEF Read
<1>4. ASSUME Refuse, step = "reading"  PROVE ReferenceInv'
  <2>1. ArchiveTyped'
    BY <1>4 DEF Refuse, ArchiveTyped, Steps
  <2>2. (ReadTyped /\ BuiltIsRequested /\ Simulated /\ FailsOnRepeats)'
    BY <1>4 DEF Refuse, ReadTyped, BuiltIsRequested, Simulated, FailsOnRepeats, allocation
  <2> QED  BY <1>4, <2>1, <2>2, AllocationStays DEF Refuse
<1>5. CASE RefuseStale \/ RefuseRows
  BY <1>4, <1>5 DEF RefuseStale, RefuseRows
<1>6. CASE Build
  <2>1. ArchiveTyped'
    BY <1>6 DEF Build, ArchiveTyped, Steps
  <2>2. step = "reading" /\ step' = "built" /\ UNCHANGED <<feed, ask, game>>
    BY <1>6 DEF Build
  <2>3. ReadTyped'
    BY <2>2 DEF ReadTyped
  <2>4. BuiltIsRequested'
    BY <1>6 DEF Build, BuiltIsRequested, Open
  <2>5. GameSecondsRemaining(plan)' \in Nat
    <3>1. plan' = IF ask.remaining = None
                  THEN [period |-> game.period, clock |-> game.clock]
                  ELSE RemainingToPeriodClock(ask.remaining)
      BY <1>6 DEF Build
    <3>2. /\ ask.remaining \in Nat \cup {None}
          /\ game.period \in Nat \ {0} /\ game.clock \in 0 .. PeriodLength
      BY <1>6, <2>2, ReadFacts DEF Build, Open
    <3>3. GameSecondsRemaining(plan') \in Nat
      BY <3>1, <3>2, PlannedTime
    <3> QED  BY <3>3 DEF GameSecondsRemaining
  <2>6. /\ todo' \in Seq(Nat)
        /\ ~ box'.repeats => box'.full /\ \A k \in DOMAIN todo' : todo'[k] >= LineupSize
    <3>1. PICK rows \in Rows :
              /\ Priceable(rows) /\ todo' = <<rows.home.players, rows.away.players>>
              /\ box' = [repeats |-> rows.home.repeats + rows.away.repeats > 0,
                         full |-> \A k \in 1 .. 2 : todo'[k] >= LineupSize]
      BY <1>6 DEF Build
    <3>2. /\ rows.home.players \in Nat /\ rows.away.players \in Nat
          /\ rows.home.repeats \in Nat /\ rows.away.repeats \in Nat
      BY BoxScores
    <3>3. /\ rows.home.players + rows.home.repeats >= LineupSize
          /\ rows.away.players + rows.away.repeats >= LineupSize
      BY <3>1 DEF Priceable, EnoughPlayers
    <3>4. ~ box'.repeats => rows.home.repeats = 0 /\ rows.away.repeats = 0
      <4>1. box'.repeats = (rows.home.repeats + rows.away.repeats > 0)
        BY <3>1, Zenon
      <4>2. ~ (rows.home.repeats + rows.away.repeats > 0)
              => rows.home.repeats = 0 /\ rows.away.repeats = 0
        BY <3>2
      <4> QED  BY <4>1, <4>2
    <3>5. ~ box'.repeats => rows.home.players >= LineupSize /\ rows.away.players >= LineupSize
      BY <3>2, <3>3, <3>4
    <3>6. DOMAIN todo' = 1 .. 2 /\ todo' \in Seq(Nat)
      BY <3>1, <3>2
    <3>7. ~ box'.repeats => \A k \in 1 .. 2 : todo'[k] >= LineupSize
      BY <3>1, <3>5
    <3>8. box'.full = (\A k \in 1 .. 2 : todo'[k] >= LineupSize)
      BY <3>1
    <3> QED  BY <3>6, <3>7, <3>8
  <2>7. Simulated'
    BY <2>5, <2>6 DEF Simulated
  <2>8. AllocInv' /\ FailsOnRepeats'
    BY <1>6, <2>2, AllocationStays DEF Build, FailsOnRepeats, allocation
  <2> QED  BY <2>1, <2>3, <2>4, <2>7, <2>8
<1>7. CASE Simulate
  <2>1. ArchiveTyped'
    BY <1>7 DEF Simulate, ArchiveTyped, Steps
  <2>2. (ReadTyped /\ BuiltIsRequested /\ FailsOnRepeats)'
    BY <1>7 DEF Simulate, ReadTyped, BuiltIsRequested, FailsOnRepeats, allocation
  <2>3. Simulated'
    BY <1>7 DEF Simulate, Simulated, GameSecondsRemaining
  <2> QED  BY <1>7, <2>1, <2>2, <2>3, AllocationStays DEF Simulate
<1>8. CASE SampleTeam
  <2>1. ArchiveTyped'
    BY <1>8 DEF SampleTeam, ArchiveTyped
  <2>2. (ReadTyped /\ BuiltIsRequested)' /\ step = "simulating" /\ step' = step /\ box' = box
    BY <1>8 DEF SampleTeam, ReadTyped, BuiltIsRequested
  <2>3. todo \in Seq(Nat) /\ todo # <<>> /\ todo' = Tail(todo) /\ plan' = plan
    BY <1>8, <2>2 DEF SampleTeam, Simulated
  <2>4. Head(todo) \in Nat /\ (~ box.repeats => Head(todo) >= LineupSize)
    BY <2>2, <2>3 DEF Simulated
  <2>5. /\ todo' \in Seq(Nat)
        /\ ~ box.repeats => \A k \in DOMAIN todo' : todo'[k] >= LineupSize
    <3>1. Tail(todo) \in Seq(Nat)
      BY <2>3
    <3>2. \A k \in DOMAIN Tail(todo) : k + 1 \in DOMAIN todo /\ Tail(todo)[k] = todo[k + 1]
      BY <2>3
    <3> QED  BY <2>2, <2>3, <3>1, <3>2 DEF Simulated
  <2>6. Simulated'
    BY <2>2, <2>3, <2>5 DEF Simulated, GameSecondsRemaining
  <2>7. AllocInv' /\ (stage' = "refused" => Head(todo) < LineupSize)
    <3>1. PICK w \in [1 .. Head(todo) -> Weight] : Sample(GameSecondsRemaining(plan), w)
      BY <1>8 DEF SampleTeam
    <3>2. GameSecondsRemaining(plan) \in Nat
      BY <2>2 DEF Simulated
    <3> QED  BY <2>4, <3>1, <3>2, SampleStarts
  <2>8. FailsOnRepeats'
    <3>1. ~ (Head(todo) < LineupSize /\ Head(todo) >= LineupSize)
      BY <2>4, SomeLineup
    <3> QED  BY <2>2, <2>4, <2>7, <3>1 DEF FailsOnRepeats
  <2> QED  BY <2>1, <2>2, <2>6, <2>7, <2>8
<1>9. CASE Allocate
  <2>1. ArchiveTyped'
    BY <1>9 DEF Allocate, ArchiveTyped
  <2>2. (ReadTyped /\ BuiltIsRequested /\ Simulated)' /\ step' = "simulating"
    BY <1>9 DEF Allocate, ReadTyped, BuiltIsRequested, Simulated, GameSecondsRemaining
  <2>3. AllocInv'
    <3>1. CASE Share
      <4>1. SharesInv /\ stage' = "sharing"
        BY <3>1 DEF Share, AllocInv
      <4> QED  BY <3>1, <4>1, ShareKeepsShares DEF AllocInv, AllocationSound
    <3>2. CASE Round
      <4>1. SharesInv
        BY <3>2 DEF Round, AllocInv
      <4> QED  BY <3>2, <4>1, RoundIsSound
    <3> QED  BY <1>9, <3>1, <3>2 DEF Allocate
  <2>4. FailsOnRepeats'
    <3>1. stage' # "refused"
      BY <1>9 DEF Allocate, Share, Round
    <3> QED  BY <2>2, <3>1 DEF FailsOnRepeats
  <2> QED  BY <2>1, <2>2, <2>3, <2>4
<1>10. CASE Answer
  <2>1. step' \in {"answered", "failed"} /\ UNCHANGED <<box, stage, archive, now>>
    BY <1>10 DEF Answer, allocation
  <2>2. ArchiveTyped'
    BY <2>1 DEF ArchiveTyped, Steps
  <2>3. (ReadTyped /\ BuiltIsRequested /\ Simulated)'
    BY <2>1 DEF ReadTyped, BuiltIsRequested, Simulated
  <2>4. FailsOnRepeats'
    <3>1. CASE stage = "done"
      <4>1. step' = "failed" => ~ box.full
        BY <1>10, <3>1 DEF Answer
      <4>2. step = "simulating" /\ (~ box.full => box.repeats)
        BY <1>10 DEF Answer, Simulated
      <4> QED  BY <2>1, <3>1, <4>1, <4>2 DEF FailsOnRepeats
    <3>2. CASE stage = "refused"
      <4>1. step' = "failed" /\ box.repeats
        BY <1>10, <3>2 DEF Answer, FailsOnRepeats
      <4> QED  BY <2>1, <4>1 DEF FailsOnRepeats
    <3> QED  BY <1>10, <3>1, <3>2 DEF Answer, AllocInv
  <2> QED  BY <1>10, <2>2, <2>3, <2>4, AllocationStays DEF Answer
<1>11. CASE UNCHANGED vars
  <2>1. UNCHANGED allocation
    BY <1>11 DEF vars
  <2>2. (ArchiveTyped /\ ReadTyped /\ BuiltIsRequested /\ Simulated /\ FailsOnRepeats)'
    BY <1>11 DEF vars, allocation, ArchiveTyped, ReadTyped, BuiltIsRequested, Simulated,
                 GameSecondsRemaining, FailsOnRepeats
  <2> QED  BY <2>1, <2>2, AllocationStays
<1> QED
  BY <1>1, <1>2, <1>3, <1>5, <1>6, <1>7, <1>8, <1>9, <1>10, <1>11 DEF Next

\* Whatever is archived, asked or refused, what the request has read and built
\* fits together, and the allocation it runs stays sound.
THEOREM ReferenceIsInductive == Spec => []ReferenceInv
<1>1. Init => ReferenceInv
  BY InitReference
<1>2. ReferenceInv /\ [Next]_vars => ReferenceInv'
  BY NextReference
<1> QED  BY <1>1, <1>2, PTL DEF Spec

-----------------------------------------------------------------------------
(***************************************************************************)
(* What a request can rely on.                                             *)
(***************************************************************************)

\* Whatever the weights, the remaining time and the rounding of the floats, a
\* finished allocation gives every second of a full lineup away, keeps every
\* player below the cap and within a second of his share, and gives a larger
\* weight no less (rotation.py:264-344).
THEOREM AllocationIsSound == Spec => []AllocationSound
<1>1. ReferenceInv => AllocationSound
  BY DEF ReferenceInv, AllocInv
<1> QED  BY <1>1, ReferenceIsInductive, PTL

\* For every roster, weight and remaining time the engine fails on the state
\* that was built for it only when a box score repeats a player; its allocation
\* never gets stuck.
THEOREM TheEngineFailsOnRepeats == Spec => []EngineFailsOnRepeats
<1>1. ReferenceInv => EngineFailsOnRepeats
  BY DEF ReferenceInv, FailsOnRepeats, EngineFailsOnRepeats
<1> QED  BY <1>1, ReferenceIsInductive, PTL

\* The simulated game has the time that was asked for, for every length of a
\* period.
THEOREM TheHorizonIsRequested == Spec => []HorizonIsRequested
<1>1. ReferenceInv => HorizonIsRequested
  BY BuiltHorizon
<1> QED  BY <1>1, ReferenceIsInductive, PTL

\* In every market, on every side and for every line the bet that is priced is
\* the one that was offered, but for the home handicap with a line of the
\* request, for which it is the opposite handicap.
THEOREM ThePricedBet == Spec => []OfferedOrMirroredIsPriced
<1>1. ReferenceInv => OfferedOrMirroredIsPriced
  BY BuiltBet
<1> QED  BY <1>1, ReferenceIsInductive, PTL

\* The answer is anchored on other books, each of which quotes both sides, on
\* every finite board.
THEOREM TheAnchorIsOfOthers == Spec => []AnchorIsOfOthers
<1>1. ReferenceInv => AnchorIsOfOthers
  BY BuiltAnchor
<1> QED  BY <1>1, ReferenceIsInductive, PTL

\* In every archive, what quotes more than the chosen answer is of an earlier
\* half minute, and what is newer quotes less and is of the same half minute.
THEOREM TheFeedIsRecent == Spec => FeedIsRecent
<1> DEFINE Recent ==
      step = "browsing" /\ step' = "reading" =>
          \A f \in archive :
              /\ Rich(f) > Rich(feed') => HalfMinute(f) < HalfMinute(feed')
              /\ f.at > feed'.at => HalfMinute(f) = HalfMinute(feed') /\ Rich(f) < Rich(feed')
<1>1. ReferenceInv /\ [Next]_vars => [Recent]_vars
  <2> SUFFICES ASSUME ReferenceInv, [Next]_vars,
                      step = "browsing", step' = "reading", NEW f \in archive
               PROVE  /\ Rich(f) > Rich(feed') => HalfMinute(f) < HalfMinute(feed')
                      /\ f.at > feed'.at =>
                             HalfMinute(f) = HalfMinute(feed') /\ Rich(f) < Rich(feed')
    OBVIOUS
  <2>1. Read
    BY DEF Next, vars, Archive, Tick, Refuse, RefuseStale, RefuseRows, Build,
           Simulate, SampleTeam, Allocate, Answer
  <2>2. feed' \in archive /\ ~ Better(f, feed')
    BY <2>1 DEF Read, Candidates
  <2>3. archive \subseteq [at : Nat, board : Board]
    BY DEF ReferenceInv, ArchiveTyped
  <2> QED  BY <2>2, <2>3, Unbeaten
<1> QED  BY <1>1, ReferenceIsInductive, PTL DEF Spec, FeedIsRecent

\* The loop of the allocation ends: every pass hands out the rest or takes a
\* player to the cap, who leaves the loop (rotation.py:294-321).
SharingAdvances ==
    [][Share => Left' = 0 \/ (active' \subseteq active /\ active' # active)]_vars

\* So the loop makes at most one pass for each player and one more, for any
\* weights and any number of players.
THEOREM TheSharingAdvances == Spec => SharingAdvances
<1>1. ReferenceInv /\ [Next]_vars
        => [Share => Left' = 0 \/ (active' \subseteq active /\ active' # active)]_vars
  <2> SUFFICES ASSUME ReferenceInv, Share, active' # active
               PROVE  active' \subseteq active
    BY ShareSaturates DEF ReferenceInv, AllocInv, Share
  <2> QED  BY DEF Share
<1> QED  BY <1>1, ReferenceIsInductive, PTL DEF Spec, SharingAdvances
=============================================================================
