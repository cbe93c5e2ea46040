------------------------- MODULE CostModel_proofs --------------------------
(***************************************************************************)
(* What the comparisons of CostModel compute: minima exist and bound every *)
(* member, costs are natural numbers, and a smaller deviation admits less. *)
(***************************************************************************)
EXTENDS CostModel, WellFoundedInduction, TLAPS

(* Every nonempty set of natural numbers has a least member.               *)
NatLess == {ss \in Nat \X Nat : ss[1] < ss[2]}

(* The order of the naturals is well founded.                              *)
LEMMA NatLessWellFounded == IsWellFoundedOn(NatLess, Nat)
  BY NatLessThanWellFounded DEF OpToRel, NatLess

(* A set of naturals that is not empty has a least member.                 *)
LEMMA SmallestExists ==
  ASSUME NEW T, T \subseteq Nat, T # {}
  PROVE  \E x \in T : \A y \in T : x <= y
<1>1. PICK x \in T : \A y \in T : ~ (<<y, x>> \in NatLess)
  BY NatLessWellFounded, WFMin
<1>2. ASSUME NEW y \in T
      PROVE  x <= y
  <2>1. x \in Nat /\ y \in Nat
    OBVIOUS
  <2>2. ~ (y < x)
    BY <1>1, <2>1 DEF NatLess
  <2> QED BY <2>1, <2>2
<1> QED BY <1>2

(* min_values_t: each minimum is a figure of some member and none is below.*)
LEMMA LeastFiguresBound ==
  ASSUME NEW F, F \subseteq [Metrics -> Nat], F # {}
  PROVE  /\ LeastFigures(F) \in [Metrics -> Nat]
         /\ \A f \in F : \A m \in Metrics : LeastFigures(F)[m] <= f[m]
         /\ \A m \in Metrics : \E f \in F : LeastFigures(F)[m] = f[m]
<1>1. ASSUME NEW m \in Metrics
      PROVE  /\ LeastFigures(F)[m] \in Nat
             /\ \A f \in F : LeastFigures(F)[m] <= f[m]
             /\ \E f \in F : LeastFigures(F)[m] = f[m]
  <2> DEFINE S == {f[m] : f \in F}
  <2>1. S \subseteq Nat /\ S # {}
    OBVIOUS
  <2>2. \E x \in S : \A y \in S : x =< y
    BY <2>1, SmallestExists
  <2>3. LeastFigures(F)[m] = CHOOSE x \in S : \A y \in S : x =< y
    BY DEF LeastFigures, LeastOf
  <2> HIDE DEF S
  <2>4. LeastFigures(F)[m] \in S /\ \A y \in S : LeastFigures(F)[m] =< y
    BY <2>2, <2>3
  <2> QED BY <2>1, <2>4 DEF S
<1>2. LeastFigures(F) = [m \in Metrics |-> LeastFigures(F)[m]]
  BY DEF LeastFigures
<1> QED BY <1>1, <1>2

(* find_optimal_uca(): the costs are natural numbers.                      *)
LEMMA WeightedCostType ==
  ASSUME NEW f \in [Metrics -> Nat], NEW least \in [Metrics -> Nat],
         NEW wt \in [Metrics -> Nat]
  PROVE  WeightedCost(f, least, wt) \in Nat
<1> DEFINE Term(m, a, b, c, d) ==
             wt[m] * f[m] * (least[a] * least[b] * least[c] * least[d])
<1>1. ASSUME NEW x \in Nat, NEW y \in Nat PROVE x * y \in Nat
  OBVIOUS
<1>2. \A m, a, b, c, d \in Metrics : Term(m, a, b, c, d) \in Nat
  BY <1>1
<1>3. \A m \in {"delay", "dyn", "leak", "area", "cyc"} : m \in Metrics
  BY DEF Metrics
<1>4. \A x, y, z, v, w \in Nat : x + y + z + v + w \in Nat
  OBVIOUS
<1> QED BY <1>2, <1>3, <1>4 DEF WeightedCost

(* The energy-delay cost of figures is a number.                           *)
LEMMA EnergyDelayType ==
  ASSUME NEW f \in [Metrics -> Nat], NEW ed \in Nat
  PROVE  EnergyDelay(f, ed) \in Nat
<1>1. f.delay \in Nat /\ f.dyn \in Nat
  BY DEF Metrics
<1>2. ASSUME NEW x \in Nat, NEW y \in Nat PROVE x * y \in Nat
  OBVIOUS
<1> QED BY <1>1, <1>2 DEF EnergyDelay

(* check_uca_org(): what meets a deviation meets every larger one.         *)
LEMMA WithinDevMonotone ==
  ASSUME NEW f \in [Metrics -> Nat], NEW least \in [Metrics -> Nat],
         NEW d \in [Metrics -> Nat], NEW e \in [Metrics -> Nat],
         \A m \in Metrics : d[m] <= e[m],
         WithinDev(f, least, d)
  PROVE  WithinDev(f, least, e)
<1> SUFFICES ASSUME NEW m \in Metrics
             PROVE  (f[m] - least[m]) * 100 <= e[m] * least[m]
  BY DEF WithinDev
<1>1. ASSUME NEW x \in Nat, NEW y \in Nat, NEW z \in Nat, x <= y
      PROVE  x * z <= y * z
  BY <1>1
<1>2. d[m] * least[m] <= e[m] * least[m]
  BY <1>1
<1>3. (f[m] - least[m]) * 100 <= d[m] * least[m]
  BY DEF WithinDev
<1>4. ASSUME NEW x \in Int, NEW y \in Nat, NEW z \in Nat, x <= y, y <= z
      PROVE  x <= z
  BY <1>4
<1>5. d[m] * least[m] \in Nat /\ e[m] * least[m] \in Nat
  OBVIOUS
<1> QED BY <1>2, <1>3, <1>4, <1>5

=============================================================================
