---------------------------- MODULE Multi_proofs ----------------------------
(***************************************************************************)
(* The programs around a Processor proved for any number of units, any     *)
(* XML files, any figures of a unit and any dynamic file.                  *)
(***************************************************************************)
EXTENDS Multi, FiniteSetTheorems, SequenceTheorems, WellFoundedInduction, TLAPS

Before == {ss \in Nat \X Nat : ss[1] < ss[2]}

(* The order of the naturals is well founded.                              *)
LEMMA BeforeWellFounded == IsWellFoundedOn(Before, Nat)
  BY NatLessThanWellFounded DEF OpToRel, Before

(* A set of naturals that is not empty has a least member.                 *)
LEMMA SmallestNumber ==
  ASSUME NEW T, T \subseteq Nat, T # {}
  PROVE  \E x \in T : \A y \in T : x <= y
<1>1. PICK x \in T : \A y \in T : ~ (<<y, x>> \in Before)
  BY BeforeWellFounded, WFMin
<1>2. ASSUME NEW y \in T PROVE x <= y
  <2>1. x \in Nat /\ y \in Nat
    OBVIOUS
  <2>2. ~ (y < x)
    BY <1>1, <2>1 DEF Before
  <2> QED BY <2>1, <2>2
<1> QED BY <1>2

(* Induction along a sequence, over the set of the positions where the     *)
(* hypothesis holds.                                                       *)
LEMMA UpTo ==
  ASSUME NEW n \in Nat, NEW T, 0 \in T,
         \A j \in 0 .. n : j \in T /\ j < n => j + 1 \in T
  PROVE  0 .. n \subseteq T
<1> DEFINE Out == (0 .. n) \ T
<1>1. ASSUME Out # {} PROVE FALSE
  <2>1. Out \subseteq Nat
    OBVIOUS
  <2>2. PICK m \in Out : \A k \in Out : m <= k
    BY <1>1, <2>1, SmallestNumber
  <2>3. m \in 0 .. n /\ m \notin T /\ m # 0
    OBVIOUS
  <2>4. m - 1 \in 0 .. n /\ m - 1 < n /\ m - 1 \notin Out
    BY <2>2, <2>3
  <2>5. (m - 1) + 1 \in T
    BY <2>3, <2>4
  <2> QED BY <2>3, <2>5
<1> QED BY <1>1

-----------------------------------------------------------------------------
(* Sums of figures.                                                        *)
LEMMA PlusIs ==
  ASSUME NEW x \in Energies, NEW y \in Energies
  PROVE  /\ Plus(x, y) = [area |-> x.area + y.area, power |-> x.power + y.power,
                          rt |-> x.rt + y.rt]
         /\ Plus(x, y) \in Energies
<1>1. DOMAIN x = {"area", "power", "rt"} /\ DOMAIN y = {"area", "power", "rt"}
  BY DEF Energies
<1>2. Plus(x, y) = [f \in {"area", "power", "rt"} |-> x[f] + y[f]]
  BY <1>1 DEF Plus
<1>3. Plus(x, y) = [area |-> x.area + y.area, power |-> x.power + y.power,
                    rt |-> x.rt + y.rt]
  BY <1>2
<1>4. x.area \in Nat /\ x.power \in Nat /\ x.rt \in Nat
      /\ y.area \in Nat /\ y.power \in Nat /\ y.rt \in Nat
  BY DEF Energies
<1> QED BY <1>3, <1>4 DEF Energies

(* No energy at all.                                                       *)
LEMMA ZeroIs == Zero \in Energies /\ Zero.area = 0 /\ Zero.power = 0 /\ Zero.rt = 0
  BY DEF Zero, Energies

(* To add to nothing.                                                      *)
LEMMA PlusZero ==
  ASSUME NEW x \in Energies PROVE Plus(Zero, x) = x
<1>1. Plus(Zero, x) = [area |-> 0 + x.area, power |-> 0 + x.power, rt |-> 0 + x.rt]
  BY PlusIs, ZeroIs
<1>2. x = [area |-> x.area, power |-> x.power, rt |-> x.rt]
      /\ x.area \in Nat /\ x.power \in Nat /\ x.rt \in Nat
  BY DEF Energies
<1> QED BY <1>1, <1>2

(* The partial sums of a sequence of figures.                              *)
Partial(s, n, c) ==
  s = [j \in 0 .. n |-> IF j = 0 THEN Zero ELSE Plus(s[j - 1], c[j])]

(* They exist up to every position, so that the recursive definitions of   *)
(* Total and RawSum define them.                                           *)
LEMMA PartialExists ==
  ASSUME NEW n \in Nat, NEW c \in [1 .. n -> Energies]
  PROVE  \E s : Partial(s, n, c)
<1> DEFINE T == {m \in 0 .. n : \E s : Partial(s, m, c)}
<1>1. 0 \in T
  <2>1. Partial([j \in 0 .. 0 |-> Zero], 0, c)
    BY DEF Partial
  <2> QED BY <2>1
<1>2. ASSUME NEW m \in 0 .. n, m \in T, m < n PROVE m + 1 \in T
  <2>1. PICK s : Partial(s, m, c)
    BY <1>2
  <2> DEFINE w == [j \in 0 .. m + 1 |-> IF j <= m THEN s[j] ELSE Plus(s[m], c[m + 1])]
  <2>2. ASSUME NEW j \in 0 .. m + 1
        PROVE  w[j] = IF j = 0 THEN Zero ELSE Plus(w[j - 1], c[j])
    <3>1. CASE j <= m
      <4>1. w[j] = s[j] /\ s[j] = IF j = 0 THEN Zero ELSE Plus(s[j - 1], c[j])
        BY <2>1, <3>1 DEF Partial
      <4>2. j # 0 => w[j - 1] = s[j - 1]
        BY <3>1
      <4> QED BY <4>1, <4>2
    <3>2. CASE j = m + 1
      <4>1. w[j] = Plus(s[m], c[m + 1]) /\ w[m] = s[m] /\ j - 1 = m /\ j # 0
        BY <3>2
      <4> QED BY <3>2, <4>1
    <3> QED BY <3>1, <3>2
  <2>3. Partial(w, m + 1, c)
    BY <2>2 DEF Partial
  <2> HIDE DEF w
  <2> QED BY <2>3, <1>2
<1> HIDE DEF T
<1>3. 0 .. n \subseteq T
  BY <1>1, <1>2, UpTo
<1>4. n \in T
  BY <1>3
<1> QED BY <1>4 DEF T

(* Partial sums of energies are energies.                                  *)
LEMMA PartialTyped ==
  ASSUME NEW n \in Nat, NEW c \in [1 .. n -> Energies], NEW s, Partial(s, n, c)
  PROVE  s \in [0 .. n -> Energies]
<1> DEFINE T == {m \in 0 .. n : s[m] \in Energies}
<1>1. 0 \in T
  BY ZeroIs DEF Partial
<1>2. ASSUME NEW m \in 0 .. n, m \in T, m < n PROVE m + 1 \in T
  <2>1. s[m + 1] = Plus(s[m], c[m + 1])
    BY <1>2 DEF Partial
  <2>2. s[m] \in Energies /\ c[m + 1] \in Energies /\ m + 1 \in 0 .. n
    BY <1>2
  <2>3. s[m + 1] \in Energies
    BY <2>1, <2>2, PlusIs
  <2> QED BY <2>2, <2>3
<1> HIDE DEF T
<1>3. 0 .. n \subseteq T
  BY <1>1, <1>2, UpTo
<1>4. \A m \in 0 .. n : s[m] \in Energies
  BY <1>3 DEF T
<1> QED BY <1>4 DEF Partial

(* What two sums share of their terms they share of their result.          *)
LEMMA PartialAgree ==
  ASSUME NEW n \in Nat, NEW c \in [1 .. n -> Energies], NEW d \in [1 .. n -> Energies],
         NEW f \in {"area", "power", "rt"}, \A j \in 1 .. n : c[j][f] = d[j][f]
  PROVE  \A s, t : Partial(s, n, c) /\ Partial(t, n, d) => s[n][f] = t[n][f]
<1> SUFFICES ASSUME NEW s, NEW t, Partial(s, n, c), Partial(t, n, d)
             PROVE  s[n][f] = t[n][f]
  OBVIOUS
<1> DEFINE T == {m \in 0 .. n : s[m][f] = t[m][f]}
<1>1. 0 \in T
  BY DEF Partial
<1>2. ASSUME NEW m \in 0 .. n, m \in T, m < n PROVE m + 1 \in T
  <2>1. s[m + 1] = Plus(s[m], c[m + 1]) /\ t[m + 1] = Plus(t[m], d[m + 1])
    BY <1>2 DEF Partial
  <2>2. s[m] \in Energies /\ c[m + 1] \in Energies /\ t[m] \in Energies
        /\ d[m + 1] \in Energies
    BY <1>2, PartialTyped
  <2>3. s[m][f] = t[m][f] /\ c[m + 1][f] = d[m + 1][f]
    BY <1>2
  <2>4. ASSUME NEW x \in Energies, NEW y \in Energies
        PROVE  Plus(x, y)[f] = x[f] + y[f]
    <3>1. Plus(x, y) = [area |-> x.area + y.area, power |-> x.power + y.power,
                        rt |-> x.rt + y.rt]
      BY PlusIs
    <3>2. CASE f = "area"
      BY <3>1, <3>2
    <3>3. CASE f = "power"
      BY <3>1, <3>3
    <3>4. CASE f = "rt"
      BY <3>1, <3>4
    <3> QED BY <3>2, <3>3, <3>4
  <2>5. s[m + 1][f] = t[m + 1][f]
    BY <2>1, <2>2, <2>3, <2>4
  <2> QED BY <1>2, <2>5
<1> HIDE DEF T
<1>3. 0 .. n \subseteq T
  BY <1>1, <1>2, UpTo
<1>4. n \in T
  BY <1>3
<1> QED BY <1>4 DEF T

(* Total() and the raw sum are the last of their partial sums.             *)
Contributions(cfg, g, us) == [j \in 1 .. Len(us) |-> Contribution(cfg, g, us[j])]

(* A total is the last of a sequence of partial sums.                      *)
LEMMA TotalPartial ==
  ASSUME NEW cfg, NEW g, NEW us \in Seq(Unit),
         Contributions(cfg, g, us) \in [1 .. Len(us) -> Energies]
  PROVE  \E s : /\ Partial(s, Len(us), Contributions(cfg, g, us))
                /\ Total(cfg, g, us) = s[Len(us)]
<1> DEFINE c == Contributions(cfg, g, us)
           n == Len(us)
           Body(s) == [j \in 0 .. n |->
                         IF j = 0 THEN Zero ELSE Plus(s[j - 1], Contribution(cfg, g, us[j]))]
           sum == CHOOSE s : s = Body(s)
<1>1. Total(cfg, g, us) = sum[n]
  BY DEF Total
<1>2. n \in Nat
  OBVIOUS
<1>3. PICK s : Partial(s, n, c)
  BY <1>2, PartialExists
<1>4. ASSUME NEW t PROVE Partial(t, n, c) <=> t = Body(t)
  <2>1. \A j \in 1 .. n : c[j] = Contribution(cfg, g, us[j])
    BY DEF Contributions
  <2>2. ASSUME NEW j \in 0 .. n, j # 0 PROVE c[j] = Contribution(cfg, g, us[j])
    BY <1>2, <2>1, <2>2
  <2> HIDE DEF c, n
  <2>3. [j \in 0 .. n |-> IF j = 0 THEN Zero ELSE Plus(t[j - 1], c[j])] = Body(t)
    BY <2>2
  <2> QED BY <2>3 DEF Partial
<1>5. s = Body(s)
  BY <1>3, <1>4
<1>6. sum = Body(sum)
  <2> HIDE DEF Body
  <2> QED BY <1>5
<1>7. Partial(sum, n, c)
  BY <1>4, <1>6
<1> HIDE DEF sum
<1> QED BY <1>1, <1>7

(* A total of energies is one.                                             *)
LEMMA TotalTyped ==
  ASSUME NEW cfg, NEW g, NEW us \in Seq(Unit),
         Contributions(cfg, g, us) \in [1 .. Len(us) -> Energies]
  PROVE  Total(cfg, g, us) \in Energies
<1>1. PICK s : /\ Partial(s, Len(us), Contributions(cfg, g, us))
               /\ Total(cfg, g, us) = s[Len(us)]
  BY TotalPartial
<1>2. Len(us) \in Nat
  OBVIOUS
<1>3. s \in [0 .. Len(us) -> Energies]
  BY <1>1, <1>2, PartialTyped
<1> QED BY <1>1, <1>2, <1>3

(* The total of no units is nothing.                                       *)
LEMMA TotalOfNone ==
  ASSUME NEW cfg, NEW g PROVE Total(cfg, g, <<>>) = Zero
<1>1. <<>> \in Seq(Unit) /\ Len(<<>>) = 0
  OBVIOUS
<1>2. Contributions(cfg, g, <<>>) \in [1 .. Len(<<>>) -> Energies]
  BY <1>1 DEF Contributions
<1>3. PICK s : /\ Partial(s, Len(<<>>), Contributions(cfg, g, <<>>))
               /\ Total(cfg, g, <<>>) = s[Len(<<>>)]
  BY <1>1, <1>2, TotalPartial
<1> QED BY <1>1, <1>3 DEF Partial

(* A figure of a group is the same for units that contribute the same.     *)
LEMMA TotalAgrees ==
  ASSUME NEW cfg, NEW g, NEW us \in Seq(Unit), NEW vs \in Seq(Unit),
         Contributions(cfg, g, us) \in [1 .. Len(us) -> Energies],
         Contributions(cfg, g, vs) \in [1 .. Len(vs) -> Energies],
         Len(us) = Len(vs), NEW f \in {"area", "power", "rt"},
         \A j \in 1 .. Len(us) :
           Contribution(cfg, g, us[j])[f] = Contribution(cfg, g, vs[j])[f]
  PROVE  Total(cfg, g, us)[f] = Total(cfg, g, vs)[f]
<1> DEFINE c == Contributions(cfg, g, us)
           d == Contributions(cfg, g, vs)
           n == Len(us)
<1>1. PICK s : Partial(s, n, c) /\ Total(cfg, g, us) = s[n]
  BY TotalPartial
<1>2. PICK t : Partial(t, n, d) /\ Total(cfg, g, vs) = t[n]
  BY TotalPartial
<1>3. n \in Nat /\ \A j \in 1 .. n : c[j][f] = d[j][f]
  BY DEF Contributions
<1>4. c \in [1 .. n -> Energies] /\ d \in [1 .. n -> Energies]
  OBVIOUS
<1> HIDE DEF c, d, n
<1>5. \A p, q : Partial(p, n, c) /\ Partial(q, n, d) => p[n][f] = q[n][f]
  BY <1>3, <1>4, PartialAgree
<1> QED BY <1>1, <1>2, <1>5

(* All figures at once.                                                    *)
LEMMA SameTotal ==
  ASSUME NEW cfg, NEW g, NEW us \in Seq(Unit), NEW vs \in Seq(Unit),
         Contributions(cfg, g, us) \in [1 .. Len(us) -> Energies],
         Contributions(cfg, g, vs) \in [1 .. Len(vs) -> Energies],
         Len(us) = Len(vs),
         \A j \in 1 .. Len(us) : Contribution(cfg, g, us[j]) = Contribution(cfg, g, vs[j])
  PROVE  Total(cfg, g, us) = Total(cfg, g, vs)
<1> DEFINE x == Total(cfg, g, us)
           y == Total(cfg, g, vs)
<1>1. x["area"] = y["area"] /\ x["power"] = y["power"] /\ x["rt"] = y["rt"]
  BY TotalAgrees
<1>2. x \in Energies /\ y \in Energies
  BY TotalTyped
<1> HIDE DEF x, y
<1>3. x = [area |-> x["area"], power |-> x["power"], rt |-> x["rt"]]
  BY <1>2 DEF Energies
<1>4. y = [area |-> y["area"], power |-> y["power"], rt |-> y["rt"]]
  BY <1>2 DEF Energies
<1>5. x = y
  BY <1>1, <1>3, <1>4
<1> QED BY <1>5 DEF x, y

(* The area that reaches the processor from a group that is not alike is   *)
(* that of its total: each unit stands for itself.                         *)
RawFigures(us) ==
  [j \in 1 .. Len(us) |-> [area |-> us[j].area, power |-> us[j].power, rt |-> us[j].rt]]

(* The area of a network is the last of the sums taken unit by unit.       *)
LEMMA RawPartial ==
  ASSUME NEW us \in Seq(Unit), RawFigures(us) \in [1 .. Len(us) -> Energies]
  PROVE  \E s : Partial(s, Len(us), RawFigures(us)) /\ RawSum(us) = s[Len(us)]
<1> DEFINE c == RawFigures(us)
           n == Len(us)
           Body(s) == [j \in 0 .. n |->
                         IF j = 0 THEN Zero
                         ELSE Plus(s[j - 1], [area |-> us[j].area, power |-> us[j].power,
                                              rt |-> us[j].rt])]
           sum == CHOOSE s : s = Body(s)
<1>1. RawSum(us) = sum[n]
  BY DEF RawSum
<1>2. n \in Nat
  OBVIOUS
<1>3. PICK s : Partial(s, n, c)
  BY <1>2, PartialExists
<1>4. ASSUME NEW t PROVE Partial(t, n, c) <=> t = Body(t)
  <2>1. \A j \in 1 .. n : c[j] = [area |-> us[j].area, power |-> us[j].power,
                                  rt |-> us[j].rt]
    BY DEF RawFigures
  <2>2. ASSUME NEW j \in 0 .. n, j # 0
        PROVE  c[j] = [area |-> us[j].area, power |-> us[j].power, rt |-> us[j].rt]
    BY <1>2, <2>1, <2>2
  <2> HIDE DEF c, n
  <2>3. [j \in 0 .. n |-> IF j = 0 THEN Zero ELSE Plus(t[j - 1], c[j])] = Body(t)
    BY <2>2
  <2> QED BY <2>3 DEF Partial
<1>5. s = Body(s)
  BY <1>3, <1>4
<1>6. sum = Body(sum)
  <2> HIDE DEF Body
  <2> QED BY <1>5
<1>7. Partial(sum, n, c)
  BY <1>4, <1>6
<1> HIDE DEF sum
<1> QED BY <1>1, <1>7

-----------------------------------------------------------------------------
(* The constants and what a unit is made from.                             *)
LEMMA OrderIs ==
  /\ Len(Order) = 10 /\ DOMAIN Order = 1 .. 10
  /\ Order[1] = "core" /\ Order[2] = "l2" /\ Order[3] = "l3" /\ Order[4] = "l1dir"
  /\ Order[5] = "l2dir" /\ Order[6] = "mc" /\ Order[7] = "flash" /\ Order[8] = "niu"
  /\ Order[9] = "pcie" /\ Order[10] = "noc"
  BY DEF Order

(* The ten groups.                                                         *)
LEMMA GroupsAre ==
  Groups = {"core", "l2", "l3", "l1dir", "l2dir", "mc", "flash", "niu", "pcie", "noc"}
<1>1. \A j \in 1 .. 10 : j \in {1, 2, 3, 4, 5, 6, 7, 8, 9, 10}
  OBVIOUS
<1>2. \A j \in 1 .. 10 : Order[j] \in {"core", "l2", "l3", "l1dir", "l2dir", "mc",
                                       "flash", "niu", "pcie", "noc"}
  BY <1>1, OrderIs
<1>3. \A g \in Groups : g \in {"core", "l2", "l3", "l1dir", "l2dir", "mc", "flash",
                               "niu", "pcie", "noc"}
  BY <1>2, OrderIs DEF Groups
<1>4. \A j \in 1 .. 10 : Order[j] \in Groups
  BY OrderIs DEF Groups
<1>5. /\ Order[1] \in Groups /\ Order[2] \in Groups /\ Order[3] \in Groups
      /\ Order[4] \in Groups /\ Order[5] \in Groups /\ Order[6] \in Groups
      /\ Order[7] \in Groups /\ Order[8] \in Groups /\ Order[9] \in Groups
      /\ Order[10] \in Groups
  BY <1>4
<1> QED BY <1>3, <1>5, OrderIs

(* Groups that clear their figures, controllers and networks.              *)
LEMMA KindsOfGroup ==
  /\ Clearing \subseteq Groups /\ Controllers \subseteq Groups
  /\ Groups = Clearing \cup Controllers \cup {"noc"}
  /\ Clearing \cap Controllers = {} /\ "noc" \notin Clearing \cup Controllers
  BY GroupsAre DEF Clearing, Controllers

(* A product of naturals is one.                                           *)
LEMMA Product ==
  ASSUME NEW a \in Nat, NEW b \in Nat PROVE a * b \in Nat
  OBVIOUS

(* A quotient of naturals is one.                                          *)
LEMMA Quotient ==
  ASSUME NEW a \in Nat, NEW b \in Nat \ {0} PROVE a \div b \in Nat
  OBVIOUS

(* A configuration and its statistics.                                     *)
LEMMA ConfigTyped ==
  ASSUME NEW cfg \in Config, NEW g \in Groups
  PROVE  /\ Number(cfg, g) \in 0 .. MaxUnits /\ Built(cfg, g) \in 0 .. MaxUnits
         /\ Copies(cfg, g) \in Nat /\ With(cfg, g, Area) \in Nat
<1>1. cfg.num[g] \in 0 .. MaxUnits /\ MaxUnits \in Nat \ {0}
  BY ProcessorAssumption DEF Config
<1>2. Area[g] \in Nat /\ Area["l2"] \in Nat
  BY ProcessorAssumption, GroupsAre
<1>3. Number(cfg, g) \in 0 .. MaxUnits
  BY <1>1 DEF Number
<1> QED BY <1>1, <1>2, <1>3 DEF Built, Copies, With

(* What a file says of one unit.                                           *)
LEMMA StatisticsTyped ==
  ASSUME NEW x \in Xml, NEW i \in Index, NEW g \in Groups
  PROVE  /\ x.cfg \in Config /\ x.stats \in Statistics
         /\ x.stats.cycles \in Nat \ {0} /\ x.stats.own[i] \in Nat
         /\ x.stats.duty[i] \in Nat /\ x.stats.acc[g][i] \in Nat
         /\ Params(x, i) \in [cycles : Nat \ {0}, own : Nat, duty : Nat]
<1>1. x.cfg \in Config /\ x.stats \in Statistics
  BY DEF Xml
<1>2. /\ x.stats.cycles \in Nat \ {0} /\ x.stats.own \in [Index -> Nat]
      /\ x.stats.duty \in [Index -> Nat] /\ x.stats.acc \in [Groups -> [Index -> Nat]]
  BY <1>1 DEF Statistics
<1>3. /\ x.stats.own[i] \in Nat /\ x.stats.duty[i] \in Nat /\ x.stats.acc[g][i] \in Nat
  BY <1>2
<1> QED BY <1>1, <1>2, <1>3 DEF Params

(* A unit is well typed when it is constructed.                            *)
LEMMA NewUnitTyped ==
  ASSUME NEW x \in Xml, NEW g \in Groups, NEW i \in Index
  PROVE  NewUnit(x, g, i) \in Unit
<1>1. With(x.cfg, g, Area) \in Nat
  BY ConfigTyped, StatisticsTyped
<1> QED BY <1>1, StatisticsTyped DEF NewUnit, Unit

(* A unit that is built has an entry in the file.                          *)
LEMMA IndexOf ==
  ASSUME NEW cfg \in Config, NEW g \in Groups, NEW j \in 1 .. Built(cfg, g)
  PROVE  j \in Index
  BY ConfigTyped, ProcessorAssumption DEF Index

(* The energies added to a unit's are numbers.                             *)
LEMMA EnergyTyped ==
  ASSUME NEW x \in Xml, NEW g \in Groups, NEW i \in Index, NEW u \in Unit,
         NEW held \in Nat, NEW p \in [cycles : Nat \ {0}, own : Nat, duty : Nat]
  PROVE  /\ PeakEnergy(x.cfg, g, u, held, p.duty) \in Nat
         /\ RunEnergy(x, g, i, u, p) \in Nat /\ PartsEnergy(held) \in Nat
<1>1. /\ \A h \in Groups : Peak[h] \in Nat /\ PerAccess[h] \in Nat
      /\ PipeEnergy \in Nat /\ LinkEnergy \in Nat
  BY ProcessorAssumption
<1>2. "core" \in Groups /\ "l2" \in Groups
  BY GroupsAre
<1>3. PartsEnergy(held) \in Nat
  BY <1>1, <1>2, Product DEF PartsEnergy
<1>4. p.duty \in Nat /\ p.own \in Nat
  OBVIOUS
<1>5. PeakEnergy(x.cfg, g, u, held, p.duty) \in Nat
  <2>1. PipeEnergy * p.duty \in Nat
    BY <1>1, <1>4, Product
  <2> QED BY <1>1, <1>2, <1>3, <2>1 DEF PeakEnergy
<1>6. PipeCycles(x, p) \in Nat
  <2>1. x.cfg.num["core"] \in Nat /\ x.stats.cycles \in Nat
    BY <1>2, StatisticsTyped, ProcessorAssumption DEF Config
  <2>2. x.stats.cycles * x.cfg.num["core"] \in Nat
    BY <2>1, Product
  <2> DEFINE c == IF x.cfg.homo["core"] THEN x.stats.cycles * x.cfg.num["core"]
                  ELSE p.own
  <2>3. c \in Nat
    BY <1>4, <2>2
  <2> HIDE DEF c
  <2>4. p.duty * c \in Nat
    BY <1>4, <2>3, Product
  <2> QED BY <2>4 DEF PipeCycles, c
<1>7. RunEnergy(x, g, i, u, p) \in Nat
  <2> DEFINE acc(h) == PerAccess[h] * x.stats.acc[h][i]
  <2>1. \A h \in Groups : acc(h) \in Nat /\ x.stats.acc[h][i] \in Nat
    BY <1>1, StatisticsTyped, Product
  <2>2. PipeEnergy * PipeCycles(x, p) \in Nat
    BY <1>1, <1>6, Product
  <2>3. LinkEnergy * x.stats.acc[g][i] \in Nat
    BY <1>1, <2>1, Product
  <2>4. RunEnergy(x, g, i, u, p) =
          CASE g = "core" -> acc(g) + PipeEnergy * PipeCycles(x, p)
                             + (IF x.cfg.privateL2 THEN acc("l2") ELSE 0)
            [] g = "noc" -> acc(g) + (IF u.len > 0 THEN LinkEnergy * x.stats.acc[g][i]
                                      ELSE 0)
            [] OTHER -> acc(g)
    BY DEF RunEnergy
  <2> HIDE DEF acc
  <2> QED BY <1>2, <2>1, <2>2, <2>3, <2>4
<1> QED BY <1>3, <1>5, <1>7

-----------------------------------------------------------------------------
(* What computeEnergy() makes of a unit.                                   *)
LEMMA UnitFields ==
  ASSUME NEW u \in Unit
  PROVE  /\ u.area \in Nat /\ u.power \in Nat /\ u.rt \in Nat /\ u.parts \in Nat
         /\ u.len \in Nat /\ u.held \in Nat
         /\ u.params \in [cycles : Nat \ {0}, own : Nat, duty : Nat]
  BY DEF Unit

(* set_..._param() replaces the parameters of a unit and nothing else.     *)
LEMMA RefreshOf ==
  ASSUME NEW x \in Xml, NEW i \in Index, NEW u \in Unit
  PROVE  /\ Refresh(u, x, i) \in Unit
         /\ Refresh(u, x, i) = [u EXCEPT !.params = Params(x, i)]
         /\ Refresh(u, x, i).params = Params(x, i)
<1>1. Params(x, i) \in [cycles : Nat \ {0}, own : Nat, duty : Nat]
  BY StatisticsTyped, GroupsAre
<1> QED BY <1>1 DEF Refresh, Unit

(* What computeEnergy(true) leaves of the figures of each kind of unit.    *)
LEMMA PeakOf ==
  ASSUME NEW x \in Xml, NEW g \in Groups, NEW i \in Index, NEW u \in Unit
  PROVE  LET v == ComputePeak(u, x, g, i)
             e == PeakEnergy(x.cfg, g, u, u.held, Params(x, i).duty)
         IN /\ v \in Unit /\ v.area = u.area /\ v.len = u.len
            /\ g \in {"noc", "mc"} => v.power = u.power + e /\ v.rt = u.rt
            /\ g \notin Clearing \cup {"noc", "mc"} => v.power = e /\ v.rt = u.rt
<1> DEFINE v == ComputePeak(u, x, g, i)
           r == Refresh(u, x, i)
           e == PeakEnergy(x.cfg, g, u, u.held, Params(x, i).duty)
           q == PartsEnergy(u.held)
<1>1. Params(x, i) \in [cycles : Nat \ {0}, own : Nat, duty : Nat]
  BY StatisticsTyped
<1>2. e \in Nat /\ q \in Nat /\ u.power + e \in Nat
  BY <1>1, EnergyTyped, UnitFields
<1>3. r \in Unit /\ r.area = u.area /\ r.len = u.len /\ r.power = u.power /\ r.rt = u.rt
      /\ r.params = Params(x, i)
  BY RefreshOf DEF Unit
<1>4. v = CASE g \in Clearing -> [r EXCEPT !.power = e, !.rt = 0, !.parts = q]
            [] g \in {"noc", "mc"} -> [r EXCEPT !.power = @ + e]
            [] OTHER -> [u EXCEPT !.power = e]
  BY <1>3 DEF ComputePeak
<1> HIDE DEF v, r, e, q
<1>5. CASE g \in Clearing
  <2>1. v = [r EXCEPT !.power = e, !.rt = 0, !.parts = q]
    BY <1>4, <1>5 DEF Clearing
  <2>2. v \in Unit /\ v.area = u.area /\ v.len = u.len
    BY <2>1, <1>2, <1>3 DEF Unit
  <2> QED BY <1>5, <2>2 DEF v, e, Clearing
<1>6. CASE g \in {"noc", "mc"}
  <2>1. v = [r EXCEPT !.power = r.power + e]
    BY <1>4, <1>6 DEF Clearing
  <2>2. v \in Unit /\ v.area = u.area /\ v.len = u.len /\ v.power = u.power + e
        /\ v.rt = u.rt
    BY <2>1, <1>2, <1>3 DEF Unit
  <2> QED BY <1>6, <2>2 DEF v, e
<1>7. CASE g \notin Clearing \cup {"noc", "mc"}
  <2>1. v = [u EXCEPT !.power = e]
    BY <1>4, <1>7
  <2>2. v \in Unit /\ v.area = u.area /\ v.len = u.len /\ v.power = e /\ v.rt = u.rt
    BY <2>1, <1>2 DEF Unit
  <2> QED BY <1>7, <2>2 DEF v, e
<1> QED BY <1>5, <1>6, <1>7

(* What computeEnergy(false) leaves of them.                               *)
LEMMA RunOf ==
  ASSUME NEW x \in Xml, NEW g \in Groups, NEW i \in Index, NEW u \in Unit
  PROVE  LET v == ComputeRun(u, x, g, i)
             e == RunEnergy(x, g, i, u, Params(x, i))
         IN /\ v \in Unit /\ v.area = u.area /\ v.len = u.len
            /\ g \in Clearing => v.power = 0 /\ v.rt = e
            /\ g \in {"noc", "mc"} => v.power = u.power /\ v.rt = u.rt + e
            /\ g \notin Clearing \cup {"noc", "mc"} => v.power = u.power /\ v.rt = e
            /\ g \in Clearing \cup {"noc", "mc"} => v.params = Params(x, i)
<1> DEFINE v == ComputeRun(u, x, g, i)
           r == Refresh(u, x, i)
           e == RunEnergy(x, g, i, u, Params(x, i))
<1>1. Params(x, i) \in [cycles : Nat \ {0}, own : Nat, duty : Nat]
  BY StatisticsTyped
<1>2. e \in Nat /\ u.rt + e \in Nat
  <2>1. u.held \in Nat /\ u.rt \in Nat
    BY UnitFields
  <2>2. e \in Nat
    BY <1>1, <2>1, EnergyTyped
  <2> QED BY <2>1, <2>2
<1>3. r \in Unit /\ r.area = u.area /\ r.len = u.len /\ r.power = u.power /\ r.rt = u.rt
      /\ r.params = Params(x, i)
  BY RefreshOf DEF Unit
<1>4. v = CASE g \in Clearing -> [r EXCEPT !.power = 0, !.rt = e]
            [] g \in {"noc", "mc"} -> [r EXCEPT !.rt = @ + e]
            [] OTHER -> [u EXCEPT !.rt = e]
  BY <1>3 DEF ComputeRun
<1> HIDE DEF v, r, e
<1>5. CASE g \in Clearing
  <2>1. v = [r EXCEPT !.power = 0, !.rt = e]
    BY <1>4, <1>5 DEF Clearing
  <2>2. v \in Unit /\ v.area = u.area /\ v.len = u.len /\ v.power = 0 /\ v.rt = e
        /\ v.params = Params(x, i)
    BY <2>1, <1>2, <1>3 DEF Unit
  <2> QED BY <1>5, <2>2 DEF v, e, Clearing
<1>6. CASE g \in {"noc", "mc"}
  <2>1. v = [r EXCEPT !.rt = r.rt + e]
    BY <1>4, <1>6 DEF Clearing
  <2>2. v \in Unit /\ v.area = u.area /\ v.len = u.len /\ v.power = u.power
        /\ v.rt = u.rt + e /\ v.params = Params(x, i)
    BY <2>1, <1>2, <1>3 DEF Unit
  <2> QED BY <1>6, <2>2 DEF v, e, Clearing
<1>7. CASE g \notin Clearing \cup {"noc", "mc"}
  <2>1. v = [u EXCEPT !.rt = e]
    BY <1>4, <1>7
  <2>2. v \in Unit /\ v.area = u.area /\ v.len = u.len /\ v.power = u.power /\ v.rt = e
    BY <2>1, <1>2 DEF Unit
  <2> QED BY <1>7, <2>2 DEF v, e
<1> QED BY <1>5, <1>6, <1>7

(* The energies of a unit do not depend on what it was, but for the length *)
(* of its links; only a core's depend on its duty cycles.                  *)
LEMMA EnergyAgrees ==
  ASSUME NEW x \in Xml, NEW g \in Groups, NEW i \in Index,
         NEW u \in Unit, NEW v \in Unit, u.len = v.len
  PROVE  /\ \A p : RunEnergy(x, g, i, u, p) = RunEnergy(x, g, i, v, p)
         /\ g # "core" => \A h, k, d : PeakEnergy(x.cfg, g, u, h, d)
                                         = PeakEnergy(x.cfg, g, v, k, d)
  BY DEF RunEnergy, PeakEnergy

(* A unit starts from nothing where computeEnergy() does not clear.        *)
LEMMA ComputedAgrees ==
  ASSUME NEW x \in Xml, NEW g \in Groups, NEW i \in Index,
         NEW u \in Unit, NEW v \in Unit, u.len = v.len,
         g \notin Clearing => u.power = v.power /\ u.rt = v.rt
  PROVE  LET c == Computed(u, x, g, i)
             d == Computed(v, x, g, i)
         IN /\ c \in Unit /\ c.area = u.area /\ c.len = u.len
            /\ d \in Unit /\ d.area = v.area /\ d.len = v.len
            /\ c.power = d.power /\ c.rt = d.rt
            /\ g \in Clearing \cup {"noc", "mc"} => c.params = d.params
<1> DEFINE p == ComputePeak(u, x, g, i)
           q == ComputePeak(v, x, g, i)
           c == ComputeRun(p, x, g, i)
           d == ComputeRun(q, x, g, i)
<1>0. Computed(u, x, g, i) = c /\ Computed(v, x, g, i) = d
  BY DEF Computed
<1>1. /\ p \in Unit /\ p.area = u.area /\ p.len = u.len
      /\ q \in Unit /\ q.area = v.area /\ q.len = v.len
  BY PeakOf
<1>2. g \notin Clearing => p.power = q.power /\ p.rt = q.rt
  <2>1. g # "core" => PeakEnergy(x.cfg, g, u, u.held, Params(x, i).duty)
                        = PeakEnergy(x.cfg, g, v, v.held, Params(x, i).duty)
    BY EnergyAgrees
  <2>2. g \in {"noc", "mc"} => p.power = q.power /\ p.rt = q.rt
    BY <2>1, PeakOf DEF Clearing
  <2>3. g \notin Clearing \cup {"noc", "mc"} => p.power = q.power /\ p.rt = q.rt
    BY <2>1, PeakOf DEF Clearing
  <2> QED BY <2>2, <2>3
<1>3. RunEnergy(x, g, i, p, Params(x, i)) = RunEnergy(x, g, i, q, Params(x, i))
  BY <1>1, EnergyAgrees
<1> HIDE DEF p, q
<1>4. /\ c \in Unit /\ c.area = u.area /\ c.len = u.len
      /\ d \in Unit /\ d.area = v.area /\ d.len = v.len
      /\ g \in Clearing \cup {"noc", "mc"} => c.params = d.params
  BY <1>1, RunOf
<1>5. c.power = d.power /\ c.rt = d.rt
  <2>1. CASE g \in Clearing
    BY <2>1, <1>1, <1>3, RunOf
  <2>2. CASE g \in {"noc", "mc"}
    BY <2>2, <1>1, <1>2, <1>3, RunOf DEF Clearing
  <2>3. CASE g \notin Clearing \cup {"noc", "mc"}
    BY <2>3, <1>1, <1>2, <1>3, RunOf
  <2> QED BY <2>1, <2>2, <2>3
<1> HIDE DEF c, d
<1> QED BY <1>0, <1>4, <1>5

(* A unit that was computed is well typed; its area and length stay.       *)
LEMMA ComputedTyped ==
  ASSUME NEW x \in Xml, NEW g \in Groups, NEW i \in Index, NEW u \in Unit
  PROVE  /\ Computed(u, x, g, i) \in Unit /\ Computed(u, x, g, i).area = u.area
         /\ Computed(u, x, g, i).len = u.len
  BY ComputedAgrees

-----------------------------------------------------------------------------
(* What a unit contributes.                                                *)
LEMMA ContributionTyped ==
  ASSUME NEW cfg \in Config, NEW g \in Groups, NEW u \in Unit
  PROVE  /\ Contribution(cfg, g, u) \in Energies
         /\ Contribution(cfg, g, u).area = u.area * Copies(cfg, g)
<1>1. u.area \in Nat /\ u.power \in Nat /\ u.rt \in Nat /\ u.params.cycles \in Nat \ {0}
  BY UnitFields
<1>2. Copies(cfg, g) \in Nat /\ Clock[g] \in Nat /\ TargetClock \in Nat
  BY ConfigTyped, ProcessorAssumption
<1>3. u.area * Copies(cfg, g) \in Nat
  BY <1>1, <1>2, Product
<1>4. PowerOf(cfg, g, u.power) \in Nat
  <2>1. u.power * Copies(cfg, g) \in Nat
    BY <1>1, <1>2, Product
  <2>2. u.power * Copies(cfg, g) * Clock[g] \in Nat
    BY <2>1, <1>2, Product
  <2> QED BY <2>1, <2>2 DEF PowerOf
<1>5. RuntimeOf(cfg, g, u.rt, u.params.cycles) \in Nat
  <2>1. u.rt * Copies(cfg, g) \in Nat /\ u.rt * Clock[g] \in Nat
        /\ u.rt * TargetClock \in Nat
    BY <1>1, <1>2, Product
  <2>2. u.rt * Copies(cfg, g) * Clock[g] \in Nat
    BY <2>1, <1>2, Product
  <2>3. (u.rt * Clock[g]) \div u.params.cycles \in Nat
        /\ (u.rt * TargetClock) \div u.params.cycles \in Nat
    BY <1>1, <2>1, Quotient
  <2> QED BY <2>1, <2>2, <2>3 DEF RuntimeOf
<1> QED BY <1>3, <1>4, <1>5 DEF Contribution, Energies

(* What the units of a group contribute are energies.                      *)
LEMMA ContributionsTyped ==
  ASSUME NEW cfg \in Config, NEW g \in Groups, NEW us \in Seq(Unit)
  PROVE  Contributions(cfg, g, us) \in [1 .. Len(us) -> Energies]
<1>1. \A j \in 1 .. Len(us) : us[j] \in Unit
  OBVIOUS
<1> QED BY <1>1, ContributionTyped DEF Contributions

(* The execution time counts where the unit keeps its parameters.          *)
LEMMA ContributionAgrees ==
  ASSUME NEW cfg \in Config, NEW g \in Groups, NEW u, NEW v,
         u.power = v.power, u.rt = v.rt,
         g \in Clearing \cup {"noc", "mc"} => u.params = v.params
  PROVE  /\ Contribution(cfg, g, u)["power"] = Contribution(cfg, g, v)["power"]
         /\ Contribution(cfg, g, u)["rt"] = Contribution(cfg, g, v)["rt"]
         /\ u.area = v.area => Contribution(cfg, g, u) = Contribution(cfg, g, v)
<1>1. RuntimeOf(cfg, g, u.rt, u.params.cycles) = RuntimeOf(cfg, g, v.rt, v.params.cycles)
  BY GroupsAre DEF RuntimeOf, Clearing
<1> QED BY <1>1 DEF Contribution

-----------------------------------------------------------------------------
(* What the statistics ask of the units us of a group, each computed anew  *)
(* with its links as they are: Asked() as an operator of values.           *)
AnewOf(us, x, g) ==
  [j \in 1 .. Built(x.cfg, g) |->
     Computed([NewUnit(x, g, j) EXCEPT !.len = us[j].len], x, g, j)]

AskedOf(us, x, g) ==
  LET t == Total(x.cfg, g, AnewOf(us, x, g))
  IN IF g = "noc" THEN [t EXCEPT !.area = @ + LinksUpTo(x.cfg, Built(x.cfg, g))] ELSE t

(* The units of a group as constructed, and as far as compute() relies on  *)
(* it: a dynamic file changes the statistics they copied.                  *)
News(x, g) == [j \in 1 .. Built(x.cfg, g) |-> NewUnit(x, g, j)]

Raw(us, cfg, g) ==
  /\ us \in Seq(Unit) /\ Len(us) = Built(cfg, g)
  /\ \A j \in 1 .. Len(us) :
       us[j].area = With(cfg, g, Area) /\ us[j].power = 0 /\ us[j].rt = 0

(* Networks with their links, before their energies.                       *)
Linked(us, cfg) ==
  /\ us \in Seq(Unit) /\ Len(us) = Built(cfg, "noc")
  /\ \A j \in 1 .. Len(us) : us[j].power = 0 /\ us[j].rt = 0

OnlyArea(t, a) == t = [area |-> a, power |-> 0, rt |-> 0]

(* The processor's own figures are the sums of the groups'.                *)
SumOf(t, f) ==
  t["core"][f] + t["l2"][f] + t["l3"][f] + t["l1dir"][f] + t["l2dir"][f]
    + t["mc"][f] + t["flash"][f] + t["niu"][f] + t["pcie"][f] + t["noc"][f]

Sums ==
  /\ proc.area = SumOf(tot, "area")
  /\ xml.cfg.homo["l1dir"] \/ Built(xml.cfg, "l1dir") = 0 =>
       proc.power = SumOf(tot, "power") /\ proc.rt = SumOf(tot, "rt")

(* The constructor: groups before the position are built.                  *)
Building ==
  pc = "construct" =>
    /\ proc = Zero /\ tot = NoTotals /\ at \in 1 .. 10
    /\ \A j \in 1 .. 10 : j < at => units[Order[j]] = News(xml, Order[j])

(* Constructed, saved or about to be: the units are those of this XML.     *)
AsBuilt ==
  pc \in {"constructed", "open", "write", "written"} =>
    proc = Zero /\ tot = NoTotals /\ units = [g \in Groups |-> News(xml, g)]

(* Within a block it is known whose.                                       *)
InBlock == pc = "block" => block \in Named \X Index

(* Loaded: nothing is computed, whatever the dynamic file changes.         *)
AsLoaded ==
  pc \in {"read", "block"} =>
    proc = Zero /\ tot = NoTotals /\ \A g \in Groups : Raw(units[g], xml.cfg, g)

(* compute(): the groups before the position have what is asked, the       *)
(* others nothing yet.  The networks take three phases.                    *)
Progress ==
  pc = "compute" =>
    \A j \in 1 .. 9 :
      IF j < at THEN tot[Order[j]] = AskedOf(units[Order[j]], xml, Order[j])
      ELSE tot[Order[j]] = Zero /\ Raw(units[Order[j]], xml.cfg, Order[j])

LongLinks(us, cfg, t) ==
  \A j \in 1 .. Len(us) :
    HasLinks(cfg, j) =>
      us[j].len >= SumOf(t, "area") - LinksUpTo(cfg, Built(cfg, "noc"))

NetworkProgress ==
  pc = "compute" =>
    /\ at <= 10 => tot["noc"] = Zero
    /\ at <= 11 => Raw(units["noc"], xml.cfg, "noc")
    /\ at = 11 => OnlyArea(tot["noc"], Total(xml.cfg, "noc", units["noc"]).area)
    /\ at = 12 => /\ Linked(units["noc"], xml.cfg)
                  /\ OnlyArea(tot["noc"], AskedOf(units["noc"], xml, "noc").area)
                  /\ LongLinks(units["noc"], xml.cfg, tot)

(* compute() is done.                                                      *)
Finished ==
  pc \in {"computed", "display", "printed"} =>
    /\ \A g \in Groups : tot[g] = AskedOf(units[g], xml, g)
    /\ LongLinks(units["noc"], xml.cfg, tot)

IInv ==
  /\ TypeOK /\ InBlock /\ FileIsInitial /\ Sums
  /\ Building /\ AsBuilt /\ AsLoaded /\ Progress /\ NetworkProgress /\ Finished

-----------------------------------------------------------------------------
(* What is asked of a group depends on its units only.                     *)
LEMMA AskedIs ==
  ASSUME NEW x, NEW g
  PROVE  Asked(x, g) = AskedOf(units[g], x, g)
  BY DEF Asked, AskedOf, Anew, AnewOf

(* A function on 1 .. n is a sequence.                                     *)
LEMMA SequenceFacts ==
  ASSUME NEW n \in Nat, NEW us \in [1 .. n -> Unit]
  PROVE  us \in Seq(Unit) /\ Len(us) = n /\ DOMAIN us = 1 .. n
  OBVIOUS

(* A sequence of units is a function of its positions.                     *)
LEMMA SequenceOfUnits ==
  ASSUME NEW us \in Seq(Unit)
  PROVE  /\ Len(us) \in Nat /\ DOMAIN us = 1 .. Len(us)
         /\ us \in [1 .. Len(us) -> Unit] /\ \A j \in 1 .. Len(us) : us[j] \in Unit
  OBVIOUS

(* The units of a group as they are constructed have not been computed.    *)
LEMMA NewsTyped ==
  ASSUME NEW x \in Xml, NEW g \in Groups
  PROVE  /\ Raw(News(x, g), x.cfg, g)
         /\ \A j \in 1 .. Built(x.cfg, g) : News(x, g)[j].len = 0
<1> DEFINE n == Built(x.cfg, g)
<1>1. n \in Nat /\ x.cfg \in Config
  BY StatisticsTyped, ConfigTyped, ProcessorAssumption, GroupsAre DEF Xml
<1>2. \A j \in 1 .. n : j \in Index /\ NewUnit(x, g, j) \in Unit
  BY <1>1, IndexOf, NewUnitTyped
<1>3. News(x, g) = [j \in 1 .. n |-> NewUnit(x, g, j)]
  BY DEF News
<1> HIDE DEF n
<1>4. News(x, g) \in [1 .. n -> Unit]
  BY <1>2, <1>3
<1>5. News(x, g) \in Seq(Unit) /\ Len(News(x, g)) = n
  BY <1>1, <1>4, SequenceFacts
<1>6. \A j \in 1 .. n : /\ News(x, g)[j].area = With(x.cfg, g, Area)
                        /\ News(x, g)[j].power = 0 /\ News(x, g)[j].rt = 0
                        /\ News(x, g)[j].len = 0
  BY <1>3 DEF NewUnit
<1> QED BY <1>5, <1>6 DEF Raw, n

(* The units of a group constructed and computed anew.                     *)
LEMMA AnewTyped ==
  ASSUME NEW x \in Xml, NEW g \in Groups, NEW us \in Seq(Unit), Len(us) = Built(x.cfg, g)
  PROVE  LET vs == AnewOf(us, x, g)
         IN /\ vs \in Seq(Unit) /\ Len(vs) = Len(us) /\ Len(us) \in Nat
            /\ \A j \in 1 .. Len(us) :
                 /\ j \in Index /\ [NewUnit(x, g, j) EXCEPT !.len = us[j].len] \in Unit
                 /\ vs[j] = Computed([NewUnit(x, g, j) EXCEPT !.len = us[j].len], x, g, j)
                 /\ vs[j].area = With(x.cfg, g, Area) /\ vs[j].len = us[j].len
<1> DEFINE n == Len(us)
           vs == AnewOf(us, x, g)
           V(j) == [NewUnit(x, g, j) EXCEPT !.len = us[j].len]
<1>1. n \in Nat /\ x.cfg \in Config /\ n = Built(x.cfg, g)
  BY SequenceOfUnits DEF Xml
<1>2. ASSUME NEW j \in 1 .. n
      PROVE  /\ j \in Index /\ V(j) \in Unit /\ V(j).len = us[j].len
             /\ V(j).area = With(x.cfg, g, Area)
  <2>1. j \in Index /\ NewUnit(x, g, j) \in Unit /\ us[j] \in Unit
    BY <1>1, IndexOf, NewUnitTyped, SequenceOfUnits
  <2>2. NewUnit(x, g, j).area = With(x.cfg, g, Area)
    BY DEF NewUnit
  <2> QED BY <2>1, <2>2 DEF Unit
<1>3. vs = [j \in 1 .. n |-> Computed(V(j), x, g, j)]
  BY <1>1 DEF AnewOf
<1> HIDE DEF vs, V
<1>4. \A j \in 1 .. n : /\ Computed(V(j), x, g, j) \in Unit
                        /\ Computed(V(j), x, g, j).area = With(x.cfg, g, Area)
                        /\ Computed(V(j), x, g, j).len = us[j].len
  BY <1>2, ComputedTyped
<1>5. vs \in [1 .. n -> Unit]
  BY <1>3, <1>4
<1>6. vs \in Seq(Unit) /\ Len(vs) = n
  BY <1>1, <1>5, SequenceFacts
<1> QED BY <1>1, <1>2, <1>3, <1>4, <1>6 DEF vs, V

(* What is asked of a group depends on the lengths of its units only.      *)
LEMMA AskedSame ==
  ASSUME NEW x, NEW g, NEW us, NEW vs,
         \A j \in 1 .. Built(x.cfg, g) : us[j].len = vs[j].len
  PROVE  AskedOf(us, x, g) = AskedOf(vs, x, g)
<1>1. AnewOf(us, x, g) = AnewOf(vs, x, g)
  BY DEF AnewOf
<1> QED BY <1>1 DEF AskedOf

(* A group of computed units has what is asked of them.                    *)
ComputedAll(us, x, g) == [j \in DOMAIN us |-> Computed(us[j], x, g, j)]

(* A group computed once over raw figures has the figures of units         *)
(* constructed anew.                                                       *)
LEMMA AllComputed ==
  ASSUME NEW x \in Xml, NEW g \in Groups, NEW us \in Seq(Unit), Len(us) = Built(x.cfg, g),
         g \notin Clearing =>
           \A j \in 1 .. Len(us) : us[j].power = 0 /\ us[j].rt = 0
  PROVE  LET ws == ComputedAll(us, x, g)
             vs == AnewOf(us, x, g)
         IN /\ ws \in Seq(Unit) /\ Len(ws) = Len(us)
            /\ \A j \in 1 .. Len(us) :
                 /\ ws[j].area = us[j].area /\ ws[j].len = us[j].len
                 /\ Contribution(x.cfg, g, ws[j])["power"]
                      = Contribution(x.cfg, g, vs[j])["power"]
                 /\ Contribution(x.cfg, g, ws[j])["rt"] = Contribution(x.cfg, g, vs[j])["rt"]
                 /\ us[j].area = With(x.cfg, g, Area) =>
                      Contribution(x.cfg, g, ws[j]) = Contribution(x.cfg, g, vs[j])
<1> DEFINE n == Len(us)
           ws == ComputedAll(us, x, g)
           vs == AnewOf(us, x, g)
           V(j) == [NewUnit(x, g, j) EXCEPT !.len = us[j].len]
<1>1. n \in Nat /\ DOMAIN us = 1 .. n /\ x.cfg \in Config
      /\ \A j \in 1 .. n : us[j] \in Unit
  BY SequenceOfUnits DEF Xml
<1>2. \A j \in 1 .. n : /\ j \in Index /\ V(j) \in Unit /\ vs[j] = Computed(V(j), x, g, j)
                        /\ vs[j].area = With(x.cfg, g, Area)
  BY AnewTyped
<1>3. ws = [j \in 1 .. n |-> Computed(us[j], x, g, j)]
  BY <1>1 DEF ComputedAll
<1>4. ASSUME NEW j \in 1 .. n
      PROVE  /\ V(j).len = us[j].len
             /\ g \notin Clearing => us[j].power = V(j).power /\ us[j].rt = V(j).rt
  BY <1>1 DEF NewUnit, Unit
<1> HIDE DEF ws, vs, V
<1>5. ASSUME NEW j \in 1 .. n
      PROVE  /\ ws[j] \in Unit /\ ws[j].area = us[j].area /\ ws[j].len = us[j].len
             /\ ws[j].power = vs[j].power /\ ws[j].rt = vs[j].rt
             /\ g \in Clearing \cup {"noc", "mc"} => ws[j].params = vs[j].params
  <2>1. us[j] \in Unit /\ V(j) \in Unit /\ j \in Index /\ ws[j] = Computed(us[j], x, g, j)
        /\ vs[j] = Computed(V(j), x, g, j)
    BY <1>1, <1>2, <1>3
  <2> QED BY <2>1, <1>4, ComputedAgrees
<1>6. ws \in [1 .. n -> Unit]
  BY <1>3, <1>5
<1>7. ws \in Seq(Unit) /\ Len(ws) = n
  BY <1>1, <1>6, SequenceFacts
<1>8. ASSUME NEW j \in 1 .. n
      PROVE  /\ Contribution(x.cfg, g, ws[j])["power"]
                  = Contribution(x.cfg, g, vs[j])["power"]
             /\ Contribution(x.cfg, g, ws[j])["rt"] = Contribution(x.cfg, g, vs[j])["rt"]
             /\ us[j].area = With(x.cfg, g, Area) =>
                  Contribution(x.cfg, g, ws[j]) = Contribution(x.cfg, g, vs[j])
  BY <1>1, <1>2, <1>5, ContributionAgrees
<1> QED BY <1>5, <1>7, <1>8 DEF ws, vs

(* The total of a group that was computed is the one asked for.            *)
LEMMA GroupComputed ==
  ASSUME NEW x \in Xml, NEW g \in Groups, g # "noc", NEW us, Raw(us, x.cfg, g)
  PROVE  LET ws == ComputedAll(us, x, g)
         IN /\ ws \in Seq(Unit) /\ Len(ws) = Len(us) /\ Len(ws) = Built(x.cfg, g)
            /\ Total(x.cfg, g, ws) = AskedOf(ws, x, g)
            /\ Total(x.cfg, g, ws) \in Energies
<1> DEFINE ws == ComputedAll(us, x, g)
           vs == AnewOf(us, x, g)
<1>1. us \in Seq(Unit) /\ Len(us) = Built(x.cfg, g) /\ x.cfg \in Config
  BY DEF Raw, Xml
<1>2. /\ ws \in Seq(Unit) /\ Len(ws) = Len(us)
      /\ \A j \in 1 .. Len(us) :
           /\ Contribution(x.cfg, g, ws[j]) = Contribution(x.cfg, g, vs[j])
           /\ ws[j].len = us[j].len
  BY <1>1, AllComputed DEF Raw
<1>3. vs \in Seq(Unit) /\ Len(vs) = Len(us)
  BY <1>1, AnewTyped
<1> HIDE DEF ws, vs
<1>4. /\ Contributions(x.cfg, g, ws) \in [1 .. Len(ws) -> Energies]
      /\ Contributions(x.cfg, g, vs) \in [1 .. Len(vs) -> Energies]
  BY <1>1, <1>2, <1>3, ContributionsTyped
<1>5. Total(x.cfg, g, ws) = Total(x.cfg, g, vs)
  BY <1>2, <1>3, <1>4, SameTotal
<1>6. Total(x.cfg, g, ws) \in Energies
  BY <1>2, <1>4, TotalTyped
<1>7. AskedOf(ws, x, g) = AskedOf(us, x, g)
  BY <1>1, <1>2, AskedSame
<1>8. AskedOf(us, x, g) = Total(x.cfg, g, vs)
  BY DEF AskedOf, vs
<1> QED BY <1>1, <1>2, <1>5, <1>6, <1>7, <1>8 DEF ws

(* The area of the networks is that of their routers and of the links.     *)
LEMMA LinksTyped ==
  ASSUME NEW cfg \in Config, NEW n \in Int PROVE LinksUpTo(cfg, n) \in Nat
<1> DEFINE S == {k \in 1 .. n : HasLinks(cfg, k)}
<1>1. IsFiniteSet(1 .. n) /\ S \subseteq 1 .. n
  BY FS_Interval
<1>2. Cardinality(S) \in Nat
  BY <1>1, FS_Subset, FS_CardinalityType
<1> HIDE DEF S
<1>3. LinkArea \in Nat /\ Copies(cfg, "noc") \in Nat
  BY ProcessorAssumption, ConfigTyped, GroupsAre
<1>4. LinkArea * Copies(cfg, "noc") \in Nat
  BY <1>3, Product
<1>5. LinkArea * Copies(cfg, "noc") * Cardinality(S) \in Nat
  BY <1>2, <1>4, Product
<1> QED BY <1>5 DEF LinksUpTo, S

(* What is asked of a group is an energy; that of networks includes their  *)
(* links.                                                                  *)
LEMMA AskedTyped ==
  ASSUME NEW x \in Xml, NEW g \in Groups, NEW us \in Seq(Unit), Len(us) = Built(x.cfg, g)
  PROVE  /\ AskedOf(us, x, g) \in Energies
         /\ LET t == Total(x.cfg, g, AnewOf(us, x, g))
            IN /\ t \in Energies
               /\ g = "noc" =>
                    AskedOf(us, x, g) = [t EXCEPT !.area =
                                           t.area + LinksUpTo(x.cfg, Built(x.cfg, g))]
<1> DEFINE vs == AnewOf(us, x, g)
           t == Total(x.cfg, g, vs)
           l == LinksUpTo(x.cfg, Built(x.cfg, g))
<1>1. vs \in Seq(Unit) /\ x.cfg \in Config
  BY AnewTyped DEF Xml
<1>2. t \in Energies
  BY <1>1, ContributionsTyped, TotalTyped
<1>3. l \in Nat
  <2>1. Built(x.cfg, g) \in Int
    BY <1>1, ConfigTyped
  <2> QED BY <1>1, <2>1, LinksTyped
<1>4. AskedOf(us, x, g) = IF g = "noc" THEN [t EXCEPT !.area = t.area + l] ELSE t
  BY DEF AskedOf
<1> HIDE DEF t, l
<1>5. [t EXCEPT !.area = t.area + l] \in Energies
  BY <1>2, <1>3 DEF Energies
<1> QED BY <1>2, <1>4, <1>5 DEF t, l

(* The area asked of networks is that of their routers and links.          *)
LEMMA RouterArea ==
  ASSUME NEW x \in Xml, NEW us, Raw(us, x.cfg, "noc"),
         NEW vs \in Seq(Unit), Len(vs) = Built(x.cfg, "noc")
  PROVE  /\ Total(x.cfg, "noc", us) \in Energies
         /\ AskedOf(vs, x, "noc").area
              = Total(x.cfg, "noc", us).area + LinksUpTo(x.cfg, Built(x.cfg, "noc"))
<1> DEFINE ws == AnewOf(vs, x, "noc")
           t == Total(x.cfg, "noc", ws)
           r == Total(x.cfg, "noc", us)
<1>0. "noc" \in Groups /\ x.cfg \in Config
  BY GroupsAre DEF Xml
<1>1. us \in Seq(Unit) /\ Len(us) = Built(x.cfg, "noc")
      /\ \A j \in 1 .. Len(us) : us[j] \in Unit /\ us[j].area = With(x.cfg, "noc", Area)
  BY SequenceOfUnits DEF Raw
<1>2. ws \in Seq(Unit) /\ Len(ws) = Len(us)
      /\ \A j \in 1 .. Len(us) : ws[j] \in Unit /\ ws[j].area = With(x.cfg, "noc", Area)
  <2>1. ws \in Seq(Unit) /\ Len(ws) = Len(vs) /\ Len(vs) = Len(us)
        /\ \A j \in 1 .. Len(vs) : ws[j].area = With(x.cfg, "noc", Area)
    BY <1>0, <1>1, AnewTyped
  <2> HIDE DEF ws
  <2>2. \A j \in 1 .. Len(ws) : ws[j] \in Unit
    BY <2>1, SequenceOfUnits
  <2> QED BY <2>1, <2>2
<1> HIDE DEF ws
<1>3. \A j \in 1 .. Len(us) :
        Contribution(x.cfg, "noc", us[j])["area"] = Contribution(x.cfg, "noc", ws[j])["area"]
  BY <1>0, <1>1, <1>2, ContributionTyped
<1>4. /\ Contributions(x.cfg, "noc", us) \in [1 .. Len(us) -> Energies]
      /\ Contributions(x.cfg, "noc", ws) \in [1 .. Len(ws) -> Energies]
  BY <1>0, <1>1, <1>2, ContributionsTyped
<1>5. r["area"] = t["area"] /\ r \in Energies
  <2>1. r \in Energies
    BY <1>1, <1>4, TotalTyped
  <2>2. us \in Seq(Unit) /\ ws \in Seq(Unit) /\ Len(us) = Len(ws)
    BY <1>1, <1>2
  <2> DEFINE f == "area"
             cfg == x.cfg
             g == "noc"
  <2>3. /\ f \in {"area", "power", "rt"} /\ cfg \in Config /\ g \in Groups
        /\ \A j \in 1 .. Len(us) :
             Contribution(cfg, g, us[j])[f] = Contribution(cfg, g, ws[j])[f]
        /\ Contributions(cfg, g, us) \in [1 .. Len(us) -> Energies]
        /\ Contributions(cfg, g, ws) \in [1 .. Len(ws) -> Energies]
    BY <1>0, <1>3, <1>4
  <2> HIDE DEF f, cfg, g
  <2>4. Total(cfg, g, us)[f] = Total(cfg, g, ws)[f]
    BY <2>2, <2>3, TotalAgrees
  <2> QED BY <2>1, <2>4 DEF f, cfg, g
<1>6. AskedOf(vs, x, "noc") = [t EXCEPT !.area =
                                 t.area + LinksUpTo(x.cfg, Built(x.cfg, "noc"))]
      /\ t \in Energies
  BY <1>0, AskedTyped DEF ws
<1> HIDE DEF t, r
<1>7. AskedOf(vs, x, "noc").area = t.area + LinksUpTo(x.cfg, Built(x.cfg, "noc"))
  BY <1>6 DEF Energies
<1> QED BY <1>5, <1>7 DEF r

(* The energies of the networks, added to their areas.                     *)
LEMMA NetworksComputed ==
  ASSUME NEW x \in Xml, NEW us, Linked(us, x.cfg), NEW a \in Energies,
         OnlyArea(a, AskedOf(us, x, "noc").area)
  PROVE  LET ws == ComputedAll(us, x, "noc")
             e == [Total(x.cfg, "noc", ws) EXCEPT !.area = 0]
         IN /\ ws \in Seq(Unit) /\ Len(ws) = Len(us)
            /\ \A j \in 1 .. Len(us) : ws[j].len = us[j].len
            /\ e \in Energies /\ e.area = 0
            /\ Plus(a, e) = AskedOf(ws, x, "noc") /\ Plus(a, e) \in Energies
<1> DEFINE ws == ComputedAll(us, x, "noc")
           vs == AnewOf(us, x, "noc")
           r == Total(x.cfg, "noc", ws)
           t == Total(x.cfg, "noc", vs)
           e == [r EXCEPT !.area = 0]
           b == AskedOf(us, x, "noc")
<1>0. "noc" \in Groups /\ x.cfg \in Config /\ us \in Seq(Unit)
      /\ Len(us) = Built(x.cfg, "noc")
  BY GroupsAre DEF Xml, Linked
<1>1. /\ ws \in Seq(Unit) /\ Len(ws) = Len(us)
      /\ \A j \in 1 .. Len(us) :
           /\ ws[j].len = us[j].len
           /\ Contribution(x.cfg, "noc", ws[j])["power"]
                = Contribution(x.cfg, "noc", vs[j])["power"]
           /\ Contribution(x.cfg, "noc", ws[j])["rt"] = Contribution(x.cfg, "noc", vs[j])["rt"]
  BY <1>0, AllComputed DEF Linked
<1>2. vs \in Seq(Unit) /\ Len(vs) = Len(us)
  BY <1>0, AnewTyped
<1>3. AskedOf(ws, x, "noc") = b
  BY <1>0, <1>1, AskedSame
<1>4. b = [t EXCEPT !.area = t.area + LinksUpTo(x.cfg, Built(x.cfg, "noc"))]
      /\ t \in Energies /\ b \in Energies
  BY <1>0, AskedTyped
<1> HIDE DEF ws, vs
<1>5. /\ Contributions(x.cfg, "noc", ws) \in [1 .. Len(ws) -> Energies]
      /\ Contributions(x.cfg, "noc", vs) \in [1 .. Len(vs) -> Energies]
  BY <1>0, <1>1, <1>2, ContributionsTyped
<1>6. r["power"] = t["power"] /\ r["rt"] = t["rt"] /\ r \in Energies
  BY <1>1, <1>2, <1>5, TotalAgrees, TotalTyped
<1> HIDE DEF r, t, b
<1>7. b.power = t.power /\ b.rt = t.rt
  BY <1>4 DEF Energies
<1>8. /\ e \in Energies /\ e.area = 0 /\ e.power = b.power /\ e.rt = b.rt
      /\ b.area \in Nat /\ b.power \in Nat /\ b.rt \in Nat
      /\ b = [area |-> b.area, power |-> b.power, rt |-> b.rt]
  BY <1>4, <1>6, <1>7 DEF Energies
<1> HIDE DEF e
<1>9. a.area = b.area /\ a.power = 0 /\ a.rt = 0
  BY DEF OnlyArea, b
<1>10. Plus(a, e) = [area |-> a.area + e.area, power |-> a.power + e.power,
                     rt |-> a.rt + e.rt] /\ Plus(a, e) \in Energies
  BY <1>8, PlusIs
<1>11. Plus(a, e) = b
  BY <1>8, <1>9, <1>10
<1> QED BY <1>1, <1>3, <1>8, <1>10, <1>11 DEF ws, e, r

(* What compute() adds to the processor for a group of cores or caches.    *)
LEMMA RawTyped ==
  ASSUME NEW us \in Seq(Unit)
  PROVE  RawFigures(us) \in [1 .. Len(us) -> Energies]
<1>1. \A j \in 1 .. Len(us) :
        [area |-> us[j].area, power |-> us[j].power, rt |-> us[j].rt] \in Energies
  BY SequenceOfUnits DEF Unit, Energies
<1> QED BY <1>1 DEF RawFigures

(* A group adds its total to the chip, but for heterogeneous directories.  *)
LEMMA ToProcessorAdds ==
  ASSUME NEW cfg \in Config, NEW g \in Groups, NEW us \in Seq(Unit)
  PROVE  LET r == ToProcessor(cfg, g, us)
             t == Total(cfg, g, us)
         IN /\ r \in Energies /\ r.area = t.area
            /\ (g = "l1dir" => cfg.homo[g] \/ Len(us) = 0) => r = t
<1> DEFINE t == Total(cfg, g, us)
           n == Len(us)
           c == Contributions(cfg, g, us)
           d == RawFigures(us)
<1>1. c \in [1 .. n -> Energies] /\ d \in [1 .. n -> Energies] /\ n \in Nat
  BY ContributionsTyped, RawTyped, SequenceOfUnits
<1>2. t \in Energies
  BY <1>1, TotalTyped
<1>3. CASE ~ (g = "l1dir" /\ ~ cfg.homo[g])
  BY <1>2, <1>3 DEF ToProcessor
<1>4. CASE g = "l1dir" /\ ~ cfg.homo[g]
  <2>1. ToProcessor(cfg, g, us) = RawSum(us)
    BY <1>4 DEF ToProcessor
  <2>2. PICK s : Partial(s, n, d) /\ RawSum(us) = s[n]
    BY <1>1, RawPartial
  <2>3. PICK p : Partial(p, n, c) /\ t = p[n]
    BY <1>1, TotalPartial
  <2>4. RawSum(us) \in Energies
    BY <1>1, <2>2, PartialTyped
  <2>5. Copies(cfg, g) = 1
    BY <1>4 DEF Copies, Alike, Controllers
  <2>6. \A j \in 1 .. n : d[j]["area"] = c[j]["area"]
    <3>1. \A j \in 1 .. n : /\ Contribution(cfg, g, us[j]).area = us[j].area * 1
                            /\ us[j].area \in Nat
      BY <2>5, ContributionTyped, SequenceOfUnits, UnitFields
    <3> QED BY <3>1 DEF Contributions, RawFigures
  <2>7. Len(us) = 0 => RawSum(us) = t
    BY <2>2, <2>3 DEF Partial
  <2> HIDE DEF c, d, n, t
  <2>8. \A q, r : Partial(q, n, d) /\ Partial(r, n, c) => q[n]["area"] = r[n]["area"]
    BY <1>1, <2>6, PartialAgree
  <2>9. RawSum(us).area = t.area
    BY <2>2, <2>3, <2>8
  <2> QED BY <1>4, <2>1, <2>4, <2>7, <2>9 DEF t
<1> QED BY <1>3, <1>4

(* The sum over the groups changes as one of them does.                    *)
LEMMA SumAdds ==
  ASSUME NEW t \in [Groups -> Energies], NEW g \in Groups, NEW e \in Energies,
         NEW f \in {"area", "power", "rt"}
  PROVE  /\ SumOf([t EXCEPT ![g] = e], f) = SumOf(t, f) - t[g][f] + e[f]
         /\ SumOf(t, f) \in Nat
<1>1. \A h \in Groups : t[h] \in Energies
  OBVIOUS
<1>2. ASSUME NEW x \in Energies PROVE x[f] \in Nat
  BY DEF Energies
<1>3. \A h \in Groups : t[h][f] \in Nat /\ e[f] \in Nat
  BY <1>1, <1>2
<1> DEFINE u == [t EXCEPT ![g] = e]
<1>4. \A h \in Groups : u[h][f] = IF h = g THEN e[f] ELSE t[h][f]
  OBVIOUS
<1> HIDE DEF u
<1>5. SumOf(u, f) = SumOf(t, f) - t[g][f] + e[f]
  BY <1>3, <1>4, GroupsAre DEF SumOf
<1>6. SumOf(t, f) \in Nat
  BY <1>3, GroupsAre DEF SumOf
<1> QED BY <1>5, <1>6 DEF u

-----------------------------------------------------------------------------
(* The phases of compute() and the types of the statistics.                *)
LEMMA PhasesAre ==
  /\ Len(Phases) = 12 /\ DOMAIN Phases = 1 .. 12
  /\ \A j \in 1 .. 9 : Phases[j] = Order[j]
  /\ Phases[10] = "routers" /\ Phases[11] = "links" /\ Phases[12] = "networks"
<1> DEFINE P == Groups \cup {"routers", "links", "networks"}
           s == SubSeq(Order, 1, 9)
           r == <<"routers", "links", "networks">>
<1>1. \A j \in 1 .. 9 : Order[j] \in P
  BY OrderIs DEF Groups
<1>2. s \in Seq(P) /\ Len(s) = 9 /\ \A j \in 1 .. 9 : s[j] = Order[j]
  <2> HIDE DEF P
  <2>1. /\ SubSeq(Order, 1, 9) \in Seq(P) /\ Len(SubSeq(Order, 1, 9)) = 9 - 1 + 1
        /\ \A j \in 1 .. 9 - 1 + 1 : SubSeq(Order, 1, 9)[j] = Order[1 + j - 1]
    BY <1>1, SubSeqProperties
  <2>2. \A j \in 1 .. 9 : j \in 1 .. 9 - 1 + 1 /\ 1 + j - 1 = j
    OBVIOUS
  <2> QED BY <2>1, <2>2
<1>3. r \in Seq(P) /\ Len(r) = 3 /\ r[1] = "routers" /\ r[2] = "links"
      /\ r[3] = "networks"
  OBVIOUS
<1> HIDE DEF s, r, P
<1>5. /\ s \o r \in Seq(P) /\ Len(s \o r) = Len(s) + Len(r)
      /\ \A j \in 1 .. Len(s) + Len(r) :
           (s \o r)[j] = IF j <= Len(s) THEN s[j] ELSE r[j - Len(s)]
  BY <1>2, <1>3, ConcatProperties, ZenonT(60)
<1> DEFINE t == s \o r
<1>6. Phases = t
  BY DEF Phases, s, r
<1>7. /\ t \in Seq(P) /\ Len(t) = 12
      /\ \A j \in 1 .. 12 : t[j] = IF j <= 9 THEN s[j] ELSE r[j - 9]
  <2>1. Len(s) = 9 /\ Len(r) = 3
    BY <1>2, <1>3
  <2>2. /\ t \in Seq(P) /\ Len(t) = Len(s) + Len(r)
        /\ \A j \in 1 .. Len(s) + Len(r) :
             t[j] = IF j <= Len(s) THEN s[j] ELSE r[j - Len(s)]
    BY <1>5
  <2> DEFINE m == Len(s)
             n == Len(r)
  <2> HIDE DEF t, m, n
  <2>3. /\ t \in Seq(P) /\ Len(t) = m + n /\ m = 9 /\ n = 3
        /\ \A j \in 1 .. m + n : t[j] = IF j <= m THEN s[j] ELSE r[j - m]
    BY <2>1, <2>2 DEF m, n
  <2> QED BY <2>3
<1> HIDE DEF t
<1>8. \A j \in 1 .. 9 : Phases[j] = Order[j]
  BY <1>2, <1>6, <1>7
<1>9. Phases[10] = "routers" /\ Phases[11] = "links" /\ Phases[12] = "networks"
  <2>1. t[10] = r[10 - 9] /\ t[11] = r[11 - 9] /\ t[12] = r[12 - 9]
    BY <1>7
  <2> QED BY <1>3, <1>6, <2>1
<1> QED BY <1>6, <1>7, <1>8, <1>9

(* Which phase of compute() each position is.                              *)
LEMMA PhaseOf ==
  ASSUME at \in 1 .. Len(Phases)
  PROVE  /\ Phases[at] \in Clearing => at \in 1 .. 5 /\ Phases[at] = Order[at]
         /\ Phases[at] \in Controllers => at \in 6 .. 9 /\ Phases[at] = Order[at]
         /\ Phases[at] = "routers" => at = 10
         /\ Phases[at] = "links" => at = 11
         /\ Phases[at] = "networks" => at = 12
<1>1. at \in 1 .. 12
  BY PhasesAre
<1>2. at \in {1, 2, 3, 4, 5, 6, 7, 8, 9, 10, 11, 12}
  BY <1>1
<1>3. \A j \in 1 .. 9 : Phases[j] = Order[j]
  BY PhasesAre
<1>4. /\ Phases[1] = "core" /\ Phases[2] = "l2" /\ Phases[3] = "l3"
      /\ Phases[4] = "l1dir" /\ Phases[5] = "l2dir" /\ Phases[6] = "mc"
      /\ Phases[7] = "flash" /\ Phases[8] = "niu" /\ Phases[9] = "pcie"
      /\ Phases[10] = "routers" /\ Phases[11] = "links" /\ Phases[12] = "networks"
  BY <1>3, PhasesAre, OrderIs
<1> DEFINE Right(j) == /\ Phases[j] \in Clearing => j \in 1 .. 5
                       /\ Phases[j] \in Controllers => j \in 6 .. 9
                       /\ Phases[j] = "routers" => j = 10
                       /\ Phases[j] = "links" => j = 11
                       /\ Phases[j] = "networks" => j = 12
<1>5. Right(at)
  <2>1. Right(1) /\ Right(2) /\ Right(3) /\ Right(4) /\ Right(5) /\ Right(6)
    BY <1>4 DEF Clearing, Controllers
  <2>2. Right(7) /\ Right(8) /\ Right(9) /\ Right(10) /\ Right(11) /\ Right(12)
    BY <1>4 DEF Clearing, Controllers
  <2> HIDE DEF Right
  <2> QED BY <1>2, <2>1, <2>2
<1> QED BY <1>3, <1>5

(* Two positions of the order hold two groups.                             *)
LEMMA OrderOnce ==
  ASSUME NEW j \in 1 .. 10, NEW k \in 1 .. 10, Order[j] = Order[k]
  PROVE  j = k /\ Order[j] \in Groups /\ (j <= 9 <=> Order[j] # "noc")
<1>1. j \in {1, 2, 3, 4, 5, 6, 7, 8, 9, 10} /\ k \in {1, 2, 3, 4, 5, 6, 7, 8, 9, 10}
  OBVIOUS
<1>2. j = k /\ (j <= 9 <=> Order[j] # "noc")
  BY <1>1, OrderIs
<1>3. Order[j] \in Groups
  BY OrderIs DEF Groups
<1> QED BY <1>2, <1>3

(* The constructor passes every group.                                     *)
LEMMA AllInOrder ==
  ASSUME NEW g \in Groups
  PROVE  \E j \in 1 .. 10 : Order[j] = g
  BY OrderIs DEF Groups

(* A field of a dynamic file replaces a statistic by another.              *)
LEMMA SettingTyped ==
  ASSUME NEW s \in Statistics, NEW g \in Named, NEW i \in Index, NEW t \in Set(s, g, i)
  PROVE  t \in Statistics
<1>1. g \in Groups
  BY GroupsAre DEF Named
<1>2. Cycles \subseteq Nat /\ Duties \subseteq Nat /\ Accesses \subseteq Nat
  BY MultiAssumption
<1>3. /\ s.acc \in [Groups -> [Index -> Nat]] /\ s.own \in [Index -> Nat]
      /\ s.duty \in [Index -> Nat]
  BY DEF Statistics
<1>4. ASSUME NEW n \in Nat PROVE [s EXCEPT !.acc[g][i] = n] \in Statistics
  <2>1. [s.acc[g] EXCEPT ![i] = n] \in [Index -> Nat]
    BY <1>1, <1>3
  <2>2. [s.acc EXCEPT ![g] = [s.acc[g] EXCEPT ![i] = n]] \in [Groups -> [Index -> Nat]]
    BY <1>1, <1>3, <2>1
  <2>3. [s EXCEPT !.acc[g][i] = n]
          = [s EXCEPT !.acc = [s.acc EXCEPT ![g] = [s.acc[g] EXCEPT ![i] = n]]]
    OBVIOUS
  <2> QED BY <2>2, <2>3 DEF Statistics
<1>5. ASSUME NEW n \in Nat PROVE [s EXCEPT !.own[i] = n] \in Statistics
  <2>1. [s.own EXCEPT ![i] = n] \in [Index -> Nat]
    BY <1>3
  <2>2. [s EXCEPT !.own[i] = n] = [s EXCEPT !.own = [s.own EXCEPT ![i] = n]]
    OBVIOUS
  <2> QED BY <2>1, <2>2 DEF Statistics
<1>6. ASSUME NEW n \in Nat PROVE [s EXCEPT !.duty[i] = n] \in Statistics
  <2>1. [s.duty EXCEPT ![i] = n] \in [Index -> Nat]
    BY <1>3
  <2>2. [s EXCEPT !.duty[i] = n] = [s EXCEPT !.duty = [s.duty EXCEPT ![i] = n]]
    OBVIOUS
  <2> QED BY <2>1, <2>2 DEF Statistics
<1> QED BY <1>2, <1>4, <1>5, <1>6 DEF Set

-----------------------------------------------------------------------------
(* Nothing is computed, and the units are those of a constructor.          *)
LEMMA NothingYet ==
  ASSUME IInv, pc \in {"constructed", "open", "write", "written", "read", "block"}
  PROVE  /\ proc = Zero /\ tot = NoTotals
         /\ \A g \in Groups : Raw(units[g], xml.cfg, g) /\ tot[g] = Zero
<1>1. xml \in Xml
  BY DEF IInv, TypeOK
<1>2. CASE pc \in {"read", "block"}
  BY <1>2 DEF IInv, AsLoaded, NoTotals
<1>3. CASE pc \notin {"read", "block"}
  <2>1. proc = Zero /\ tot = NoTotals /\ \A g \in Groups : units[g] = News(xml, g)
    BY <1>3 DEF IInv, AsBuilt
  <2> QED BY <1>1, <2>1, NewsTyped DEF NoTotals
<1> QED BY <1>2, <1>3

(* compute() starts on them.                                               *)
LEMMA ComputeStarts ==
  ASSUME IInv, pc \in {"constructed", "written", "read"}, pc' = "compute",
         UNCHANGED <<at, xml, units, tot, proc, file>>
  PROVE  Progress' /\ NetworkProgress' /\ Building' /\ AsBuilt' /\ AsLoaded' /\ Finished'
<1>1. /\ at = 1 /\ \A g \in Groups : Raw(units[g], xml.cfg, g) /\ tot[g] = Zero
  BY NothingYet DEF IInv, TypeOK
<1>2. \A j \in 1 .. 9 : Order[j] \in Groups
  BY OrderOnce
<1>3. Progress'
  BY <1>1, <1>2 DEF Progress
<1>4. NetworkProgress'
  BY <1>1, GroupsAre DEF NetworkProgress
<1> QED BY <1>3, <1>4 DEF Building, AsBuilt, AsLoaded, Finished

(* Steps that touch neither the processor nor the file.                    *)
LEMMA QuietSteps ==
  ASSUME IInv, UNCHANGED <<at, xml, units, tot, proc, file>>, TypeOK', InBlock',
         \/ pc' \in {"ended", "aborted", "crashed", "stuck"}
         \/ pc \in {"constructed", "written", "read"} /\ pc' = "compute"
         \/ pc = "constructed" /\ pc' = "open"
         \/ pc = "read" /\ pc' = "block"
         \/ pc = "block" /\ pc' = "read"
         \/ pc = "computed" /\ pc' = "display"
         \/ pc = "display" /\ pc' = "printed"
         \/ pc' = pc
  PROVE  IInv'
<1>1. FileIsInitial' /\ Sums'
  BY DEF IInv, FileIsInitial, Sums
<1>2. CASE pc' \in {"ended", "aborted", "crashed", "stuck"}
  <2>1. Building' /\ AsBuilt' /\ AsLoaded' /\ Progress' /\ NetworkProgress' /\ Finished'
    BY <1>2 DEF Building, AsBuilt, AsLoaded, Progress, NetworkProgress, Finished
  <2> QED BY <1>1, <2>1 DEF IInv
<1>3. CASE pc \in {"constructed", "written", "read"} /\ pc' = "compute"
  BY <1>1, <1>3, ComputeStarts DEF IInv
<1>4. CASE \/ pc = "constructed" /\ pc' = "open"
           \/ pc = "read" /\ pc' = "block"
           \/ pc = "block" /\ pc' = "read"
  <2>1. Building' /\ Progress' /\ NetworkProgress' /\ Finished'
    BY <1>4 DEF Building, Progress, NetworkProgress, Finished
  <2>2. AsBuilt' /\ AsLoaded'
    BY <1>4 DEF IInv, AsBuilt, AsLoaded
  <2> QED BY <1>1, <2>1, <2>2 DEF IInv
<1>5. CASE \/ pc = "computed" /\ pc' = "display"
           \/ pc = "display" /\ pc' = "printed"
  <2>1. Building' /\ AsBuilt' /\ AsLoaded' /\ Progress' /\ NetworkProgress'
    BY <1>5 DEF Building, AsBuilt, AsLoaded, Progress, NetworkProgress
  <2>2. Finished'
    BY <1>5 DEF IInv, Finished
  <2> QED BY <1>1, <2>1, <2>2 DEF IInv
<1>6. CASE pc' = pc
  BY <1>1, <1>6 DEF IInv, Building, AsBuilt, AsLoaded, Progress, NetworkProgress, Finished
<1> QED BY <1>2, <1>3, <1>4, <1>5, <1>6

(* Actions that touch neither units nor totals.                            *)
LEMMA QuietActions ==
  ASSUME IInv,
         \/ Go \/ LoadFails \/ OpenBlock \/ CloseBlock \/ EndInBlock \/ EndCommands
         \/ Display
         \/ (Exit \/ Abort) /\ UNCHANGED <<mode, file, block, commands>>
  PROVE  IInv'
<1>0. TypeOK /\ InBlock /\ MaxCommands \in Nat
  BY MultiAssumption DEF IInv
<1>1. CASE Go
  <2>1. \/ pc \in {"constructed", "written"} /\ pc' = "compute"
        \/ pc = "constructed" /\ pc' = "open"
        \/ pc = "computed" /\ pc' = "display"
    BY <1>1 DEF Go, After
  <2>2. UNCHANGED <<at, xml, units, tot, proc, file, mode, block, commands>>
    BY <1>1 DEF Go, chip
  <2>3. TypeOK' /\ InBlock'
    BY <1>0, <2>1, <2>2 DEF TypeOK, InBlock
  <2> QED BY <2>1, <2>2, <2>3, QuietSteps
<1>2. CASE LoadFails
  <2>1. /\ pc = "load" /\ pc' = "crashed"
        /\ UNCHANGED <<at, xml, units, tot, proc, file, mode, block, commands>>
    BY <1>2 DEF LoadFails, chip
  <2>2. TypeOK' /\ InBlock'
    BY <1>0, <2>1 DEF TypeOK, InBlock, Over
  <2> QED BY <2>1, <2>2, QuietSteps
<1>3. CASE OpenBlock
  <2>1. /\ pc = "read" /\ pc' = "block" /\ commands < MaxCommands /\ commands' = commands + 1
        /\ block' \in Named \X Index
        /\ UNCHANGED <<at, xml, units, tot, proc, file, mode>>
    BY <1>3 DEF OpenBlock, Command
  <2>2. TypeOK' /\ InBlock'
    BY <1>0, <2>1 DEF TypeOK, InBlock
  <2> QED BY <2>1, <2>2, QuietSteps
<1>4. CASE CloseBlock
  <2>1. /\ pc = "block" /\ pc' = "read" /\ block' = <<>>
        /\ UNCHANGED <<at, xml, units, tot, proc, file, mode, commands>>
    BY <1>4 DEF CloseBlock, chip
  <2>2. TypeOK' /\ InBlock'
    BY <1>0, <2>1 DEF TypeOK, InBlock
  <2> QED BY <2>1, <2>2, QuietSteps
<1>5. CASE EndInBlock
  <2>1. /\ pc = "block" /\ pc' = "stuck"
        /\ UNCHANGED <<at, xml, units, tot, proc, file, mode, block, commands>>
    BY <1>5 DEF EndInBlock, chip
  <2>2. TypeOK' /\ InBlock'
    BY <1>0, <2>1 DEF TypeOK, InBlock
  <2> QED BY <2>1, <2>2, QuietSteps
<1>6. CASE EndCommands
  <2>1. /\ pc = "read" /\ pc' = "compute"
        /\ UNCHANGED <<at, xml, units, tot, proc, file, mode, block, commands>>
    BY <1>6 DEF EndCommands, chip
  <2>2. TypeOK' /\ InBlock'
    BY <1>0, <2>1 DEF TypeOK, InBlock
  <2> QED BY <2>1, <2>2, QuietSteps
<1>7. CASE Display
  <2>1. /\ pc = "display" /\ pc' = "printed"
        /\ UNCHANGED <<at, xml, units, tot, proc, file, mode, block, commands>>
    BY <1>7 DEF Display, chip
  <2>2. TypeOK' /\ InBlock'
    BY <1>0, <2>1 DEF TypeOK, InBlock, Over
  <2> QED BY <2>1, <2>2, QuietSteps
<1>8. CASE (Exit \/ Abort) /\ UNCHANGED <<mode, file, block, commands>>
  <2>1. /\ pc = "construct"
        /\ pc' = "aborted" \/ (pc' = "ended" /\ at = 1)
        /\ UNCHANGED <<at, xml, units, tot, proc, file, mode, block, commands>>
    BY <1>8 DEF Exit, Abort, chip
  <2>2. TypeOK' /\ InBlock'
    BY <1>0, <2>1 DEF TypeOK, InBlock, Over
  <2> QED BY <2>1, <2>2, QuietSteps
<1> QED BY <1>1, <1>2, <1>3, <1>4, <1>5, <1>6, <1>7, <1>8

-----------------------------------------------------------------------------
(* Before a processor is constructed there are no sums.                    *)
LEMMA NoProcessor ==
  /\ NoTotals \in [Groups -> Energies] /\ NoUnits \in [Groups -> Seq(Unit)]
  /\ Zero \in Energies /\ SumOf(NoTotals, "area") = 0
  /\ SumOf(NoTotals, "power") = 0 /\ SumOf(NoTotals, "rt") = 0
<1>1. \A g \in Groups : NoTotals[g] = Zero
  BY DEF NoTotals
<1>2. \A f \in {"area", "power", "rt"} : Zero[f] = 0
  BY DEF Zero
<1>3. \A f \in {"area", "power", "rt"} : SumOf(NoTotals, f) = 0
  BY <1>1, <1>2, GroupsAre DEF SumOf
<1>4. NoTotals \in [Groups -> Energies]
  BY ZeroIs DEF NoTotals
<1>5. NoUnits \in [Groups -> Seq(Unit)]
  BY DEF NoUnits
<1> QED BY <1>3, <1>4, <1>5, ZeroIs

(* With nothing computed the sums of the groups and the processor agree.   *)
LEMMA NoSums ==
  ASSUME tot = NoTotals, proc = Zero
  PROVE  Sums
  BY NoProcessor, ZeroIs DEF Sums

(* A description of which nothing was read is well typed.                  *)
LEMMA BlankTyped == Blank \in Xml
  BY MultiAssumption DEF Blank

(* The invariant holds before the first run.                               *)
LEMMA InitIInv == Init => IInv
<1> SUFFICES ASSUME Init PROVE IInv
  OBVIOUS
<1>1. TypeOK
  BY NoProcessor, BlankTyped, PhasesAre, MultiAssumption DEF Init, TypeOK, Modes, Absent
<1>2. FileIsInitial
  BY DEF Init, FileIsInitial, Absent
<1>3. Sums
  BY NoSums DEF Init
<1> QED BY <1>1, <1>2, <1>3
        DEF Init, IInv, InBlock, Building, AsBuilt, AsLoaded, Progress, NetworkProgress, Finished

(* A process starts or is gone.                                            *)
LEMMA FreshProcess ==
  ASSUME IInv, Fresh, pc' \in {"idle", "construct", "load"}, mode' \in Modes, xml' \in Xml,
         file' = file
  PROVE  IInv'
<1>1. /\ at' = 1 /\ units' = NoUnits /\ tot' = NoTotals /\ proc' = Zero
      /\ block' = <<>> /\ commands' = 0
  BY DEF Fresh
<1>2. TypeOK'
  BY <1>1, NoProcessor, PhasesAre, MultiAssumption DEF IInv, TypeOK
<1>7. InBlock'
  BY DEF InBlock
<1>3. FileIsInitial'
  BY DEF IInv, FileIsInitial
<1>4. Sums'
  <2>1. Sums' <=> /\ Zero.area = SumOf(NoTotals, "area")
                  /\ xml'.cfg.homo["l1dir"] \/ Built(xml'.cfg, "l1dir") = 0 =>
                       Zero.power = SumOf(NoTotals, "power")
                         /\ Zero.rt = SumOf(NoTotals, "rt")
    BY <1>1 DEF Sums
  <2> QED BY <2>1, NoProcessor, ZeroIs
<1>5. Building'
  <2>1. \A j \in 1 .. 10 : ~ (j < 1)
    OBVIOUS
  <2> QED BY <1>1, <2>1 DEF Building
<1>6. AsBuilt' /\ AsLoaded' /\ Progress' /\ NetworkProgress' /\ Finished'
  BY DEF AsBuilt, AsLoaded, Progress, NetworkProgress, Finished
<1> QED BY <1>2, <1>3, <1>4, <1>5, <1>6, <1>7 DEF IInv

(* Runs that start and end: parsing, loading, quitting and being killed.   *)
LEMMA ProcessActions ==
  ASSUME IInv, Parse \/ StartLoad \/ Quit \/ Kill
  PROVE  IInv'
<1>1. CASE Parse
  <2>1. /\ Fresh /\ pc' = "construct" /\ mode' \in Modes /\ xml' \in Xml /\ file' = file
    BY <1>1, MultiAssumption DEF Parse, Modes
  <2> QED BY <2>1, FreshProcess
<1>2. CASE StartLoad
  <2>1. /\ Fresh /\ pc' = "load" /\ mode' \in Modes /\ xml' \in Xml /\ file' = file
    BY <1>2 DEF StartLoad, Modes, IInv, TypeOK
  <2> QED BY <2>1, FreshProcess
<1>3. CASE Quit \/ Kill
  <2>1. /\ Fresh /\ pc' = "idle" /\ mode' \in Modes /\ xml' \in Xml /\ file' = file
    BY <1>3, BlankTyped DEF Quit, Kill, Leave, Modes
  <2> QED BY <2>1, FreshProcess
<1> QED BY <1>1, <1>2, <1>3

-----------------------------------------------------------------------------
(* The file.                                                               *)
LEMMA FileActions ==
  ASSUME IInv, Open \/ Write \/ Load
  PROVE  IInv'
<1>0. TypeOK /\ FileIsInitial /\ Sums
  BY DEF IInv
<1>1. CASE Open
  <2>1. /\ pc = "open" /\ pc' = "write" /\ file' = Torn
        /\ UNCHANGED <<at, xml, units, tot, proc, mode, block, commands>>
    BY <1>1 DEF Open, chip
  <2>2. TypeOK'
    BY <1>0, <2>1 DEF TypeOK
  <2>3. FileIsInitial'
    BY <2>1 DEF FileIsInitial, Torn
  <2>4. /\ Sums' /\ Building' /\ AsLoaded' /\ Progress' /\ NetworkProgress' /\ Finished'
        /\ InBlock'
    BY <1>0, <2>1 DEF InBlock, Sums, Building, AsLoaded, Progress, NetworkProgress, Finished
  <2>5. AsBuilt'
    BY <2>1 DEF IInv, AsBuilt
  <2> QED BY <2>2, <2>3, <2>4, <2>5 DEF IInv
<1>2. CASE Write
  <2>1. /\ pc = "write" /\ pc' = "written" /\ file' = Saved
        /\ UNCHANGED <<at, xml, units, tot, proc, mode, block, commands>>
    BY <1>2 DEF Write, chip
  <2>2. /\ proc = Zero /\ tot = NoTotals /\ units = [g \in Groups |-> News(xml, g)]
    BY <2>1 DEF IInv, AsBuilt
  <2>3. Saved \in Image
    BY <1>0 DEF Saved, Image, TypeOK
  <2>4. TypeOK'
    BY <1>0, <2>1, <2>3 DEF TypeOK
  <2>5. FileIsInitial'
    <3>1. file'.tot = tot /\ file'.proc = proc /\ file'.units = units /\ file'.xml = xml
      BY <2>1 DEF Saved
    <3>2. units = [g \in Groups |-> [j \in 1 .. Built(xml.cfg, g) |-> NewUnit(xml, g, j)]]
      BY <2>2 DEF News
    <3> QED BY <2>2, <3>1, <3>2 DEF FileIsInitial
  <2>6. /\ Sums' /\ Building' /\ AsLoaded' /\ Progress' /\ NetworkProgress' /\ Finished'
        /\ InBlock'
    BY <1>0, <2>1 DEF InBlock, Sums, Building, AsLoaded, Progress, NetworkProgress, Finished
  <2>7. AsBuilt'
    BY <2>1 DEF IInv, AsBuilt
  <2> QED BY <2>4, <2>5, <2>6, <2>7 DEF IInv
<1>3. CASE Load
  <2>1. /\ pc = "load" /\ file.state = "whole" /\ pc' \in {"compute", "read"}
        /\ xml' = file.xml /\ units' = file.units /\ tot' = file.tot /\ proc' = file.proc
        /\ UNCHANGED <<at, mode, file, block, commands>>
    BY <1>3 DEF Load
  <2>2. file \in Image
    BY <1>0, <2>1 DEF TypeOK, Absent, Torn
  <2>3. TypeOK' /\ at = 1 /\ xml' \in Xml
    BY <1>0, <2>1, <2>2 DEF TypeOK, Image
  <2>4. FileIsInitial'
    BY <1>0, <2>1 DEF FileIsInitial
  <2>5. /\ tot' = NoTotals /\ proc' = Zero
        /\ units' = [g \in Groups |-> News(xml', g)]
    BY <1>0, <2>1 DEF FileIsInitial, News
  <2>6. \A g \in Groups : Raw(units'[g], xml'.cfg, g) /\ tot'[g] = Zero
    BY <2>3, <2>5, NewsTyped DEF NoTotals
  <2>7. Sums'
    <3>1. Sums' <=> /\ Zero.area = SumOf(NoTotals, "area")
                    /\ xml'.cfg.homo["l1dir"] \/ Built(xml'.cfg, "l1dir") = 0 =>
                         Zero.power = SumOf(NoTotals, "power")
                           /\ Zero.rt = SumOf(NoTotals, "rt")
      BY <2>5 DEF Sums
    <3> QED BY <3>1, NoProcessor, ZeroIs
  <2>8. AsLoaded'
    BY <2>5, <2>6 DEF AsLoaded
  <2>9. Progress' /\ NetworkProgress'
    <3>1. \A j \in 1 .. 9 : Order[j] \in Groups /\ ~ (j < 1)
      BY OrderOnce
    <3>2. Progress'
      BY <2>1, <2>3, <2>6, <3>1 DEF Progress
    <3>3. NetworkProgress'
      BY <2>1, <2>3, <2>6, GroupsAre DEF NetworkProgress
    <3> QED BY <3>2, <3>3
  <2>10. Building' /\ AsBuilt' /\ Finished' /\ InBlock'
    BY <2>1 DEF InBlock, Building, AsBuilt, Finished
  <2> QED BY <2>3, <2>4, <2>7, <2>8, <2>9, <2>10 DEF IInv
<1> QED BY <1>1, <1>2, <1>3

-----------------------------------------------------------------------------
(* A dynamic file changes statistics and nothing else.                     *)
LEMMA Manipulation ==
  ASSUME IInv, NEW s \in Statistics, xml' = [xml EXCEPT !.stats = s], Command,
         UNCHANGED <<pc, block>>, pc \in {"read", "block"}
  PROVE  IInv'
<1>1. /\ commands' \in 0 .. MaxCommands /\ UNCHANGED <<at, units, tot, proc, mode, file>>
  BY MultiAssumption DEF Command, IInv, TypeOK
<1>2. xml' \in Xml /\ xml'.cfg = xml.cfg
  BY DEF IInv, TypeOK, Xml
<1>3. TypeOK' /\ InBlock'
  BY <1>1, <1>2 DEF IInv, TypeOK, InBlock
<1>4. FileIsInitial' /\ Sums'
  BY <1>1, <1>2 DEF IInv, FileIsInitial, Sums
<1>5. AsLoaded'
  BY <1>1, <1>2 DEF IInv, AsLoaded
<1>6. Building' /\ AsBuilt' /\ Progress' /\ NetworkProgress' /\ Finished'
  BY DEF Building, AsBuilt, Progress, NetworkProgress, Finished
<1> QED BY <1>3, <1>4, <1>5, <1>6 DEF IInv

(* The fields of a dynamic file.                                           *)
LEMMA DynamicActions ==
  ASSUME IInv, TotalCycles \/ Field
  PROVE  IInv'
<1>0. xml \in Xml /\ xml.stats \in Statistics
  BY DEF IInv, TypeOK, Xml
<1>1. CASE TotalCycles
  <2>1. PICK c \in Cycles : xml' = [xml EXCEPT !.stats.cycles = c]
    BY <1>1 DEF TotalCycles
  <2>2. [xml.stats EXCEPT !.cycles = c] \in Statistics
    BY <1>0, MultiAssumption DEF Statistics
  <2>3. xml' = [xml EXCEPT !.stats = [xml.stats EXCEPT !.cycles = c]]
    BY <2>1
  <2> QED BY <1>1, <2>2, <2>3, Manipulation DEF TotalCycles
<1>2. CASE Field
  <2>1. PICK s \in Set(xml.stats, block[1], block[2]) : xml' = [xml EXCEPT !.stats = s]
    BY <1>2 DEF Field
  <2>2. block[1] \in Named /\ block[2] \in Index
    BY <1>2 DEF Field, IInv, InBlock
  <2>3. s \in Statistics
    BY <1>0, <2>1, <2>2, SettingTyped
  <2> QED BY <1>2, <2>1, <2>3, Manipulation DEF Field
<1> QED BY <1>1, <1>2

-----------------------------------------------------------------------------
(* The constructor builds one group.                                       *)
LEMMA ConstructStep ==
  ASSUME IInv, Construct, UNCHANGED <<mode, file, block, commands>>
  PROVE  IInv'
<1> DEFINE g == Order[at]
<1>0. /\ TypeOK /\ xml \in Xml /\ units \in [Groups -> Seq(Unit)]
      /\ proc = Zero /\ tot = NoTotals /\ at \in 1 .. 10
      /\ \A j \in 1 .. 10 : j < at => units[Order[j]] = News(xml, Order[j])
  BY DEF IInv, Building, TypeOK, Construct
<1>1. /\ pc = "construct" /\ units' = [units EXCEPT ![g] = News(xml, g)]
      /\ at' = (IF at < 10 THEN at + 1 ELSE 1)
      /\ pc' = (IF at < 10 THEN "construct" ELSE "constructed")
      /\ UNCHANGED <<xml, tot, proc, mode, file, block, commands>>
  BY OrderIs DEF Construct, NextAt, News
<1>2. g \in Groups /\ \A j \in 1 .. 10 : Order[j] \in Groups /\ (Order[j] = g => j = at)
  BY <1>0, OrderOnce
<1>b. /\ at \in 1 .. 10 /\ pc' = (IF at < 10 THEN "construct" ELSE "constructed")
  BY <1>0, <1>1
<1> HIDE DEF g
<1>3. News(xml, g) \in Seq(Unit)
  BY <1>0, <1>2, NewsTyped DEF Raw
<1>4. \A j \in 1 .. 10 : j <= at => units'[Order[j]] = News(xml, Order[j])
  <2>1. ASSUME NEW j \in 1 .. 10, j <= at PROVE units'[Order[j]] = News(xml, Order[j])
    <3>1. CASE j = at
      BY <1>0, <1>1, <1>2, <3>1 DEF g
    <3>2. CASE j # at
      <4>1. Order[j] # g /\ Order[j] \in Groups /\ j < at
        <5>1. Order[j] \in Groups /\ (Order[j] = g => j = at)
          BY <1>2
        <5>2. j < at
          BY <1>b, <2>1, <3>2
        <5> QED BY <3>2, <5>1, <5>2
      <4> QED BY <1>0, <1>1, <4>1
    <3> QED BY <3>1, <3>2
  <2> QED BY <2>1
<1>5. units' \in [Groups -> Seq(Unit)]
  BY <1>0, <1>1, <1>3
<1>6. TypeOK' /\ InBlock'
  <2>1. at' \in 1 .. 12 /\ (at' # 1 => pc' = "construct")
    BY <1>0, <1>1
  <2> QED BY <1>0, <1>1, <1>5, <2>1, PhasesAre DEF TypeOK, InBlock
<1>7. FileIsInitial' /\ Sums'
  BY <1>1 DEF IInv, FileIsInitial, Sums
<1>8. Building'
  <2>1. ASSUME at < 10
        PROVE  at' \in 1 .. 10 /\ \A j \in 1 .. 10 : j < at' => j <= at
    BY <1>0, <1>1, <2>1
  <2>2. pc' = "construct" => at < 10
    BY <1>1
  <2> QED BY <1>0, <1>1, <1>4, <2>1, <2>2 DEF Building
<1>9. AsBuilt'
  <2>1. ASSUME at = 10 PROVE units' = [h \in Groups |-> News(xml, h)]
    <3>1. ASSUME NEW h \in Groups PROVE units'[h] = News(xml, h)
      <4>1. PICK j \in 1 .. 10 : Order[j] = h
        BY AllInOrder
      <4>2. j <= at
        BY <2>1
      <4> QED BY <1>4, <4>1, <4>2
    <3> QED BY <1>5, <3>1
  <2>2. pc' # "construct" => at = 10
    BY <1>b
  <2> QED BY <1>0, <1>1, <2>1, <2>2 DEF AsBuilt
<1>10. AsLoaded' /\ Progress' /\ NetworkProgress' /\ Finished'
  BY <1>1 DEF AsLoaded, Progress, NetworkProgress, Finished
<1> QED BY <1>6, <1>7, <1>8, <1>9, <1>10 DEF IInv

-----------------------------------------------------------------------------
(* compute() goes on by one group: its units, its figures T, and R added   *)
(* to the processor's.                                                     *)
LEMMA GroupStep ==
  ASSUME IInv, pc = "compute", at \in 1 .. 9,
         NEW g, g = Order[at],
         NEW ws \in Seq(Unit), NEW T \in Energies, NEW R \in Energies,
         T = AskedOf(ws, xml, g), R.area = T.area,
         xml.cfg.homo["l1dir"] \/ Built(xml.cfg, "l1dir") = 0 => R = T,
         units' = [units EXCEPT ![g] = ws], tot' = [tot EXCEPT ![g] = T],
         proc' = Plus(proc, R), at' = at + 1,
         UNCHANGED <<pc, xml, mode, file, block, commands>>
  PROVE  IInv'
<1>0. /\ TypeOK /\ xml \in Xml /\ units \in [Groups -> Seq(Unit)]
      /\ tot \in [Groups -> Energies] /\ proc \in Energies
  BY DEF IInv, TypeOK
<1>1. /\ g \in Groups /\ g # "noc"
      /\ \A j \in 1 .. 9 : Order[j] \in Groups /\ (Order[j] = g => j = at)
  BY OrderOnce
<1>2. tot[g] = Zero
  BY DEF IInv, Progress
<1>3. proc' = [area |-> proc.area + R.area, power |-> proc.power + R.power,
               rt |-> proc.rt + R.rt] /\ proc' \in Energies
  BY <1>0, PlusIs
<1>4. tot' \in [Groups -> Energies] /\ units' \in [Groups -> Seq(Unit)]
  BY <1>0
<1>5. TypeOK' /\ InBlock'
  <2>1. at' \in 1 .. 12
    OBVIOUS
  <2> QED BY <1>0, <1>3, <1>4, <2>1, PhasesAre DEF TypeOK, InBlock
<1>6. FileIsInitial'
  BY DEF IInv, FileIsInitial
<1>7. Sums'
  <2>1. ASSUME NEW f \in {"area", "power", "rt"}
        PROVE  SumOf(tot', f) = SumOf(tot, f) + T[f] /\ SumOf(tot, f) \in Nat /\ T[f] \in Nat
    <3>1. SumOf(tot', f) = SumOf(tot, f) - tot[g][f] + T[f] /\ SumOf(tot, f) \in Nat
      BY <1>0, <1>1, SumAdds
    <3>2. tot[g][f] = 0
      BY <1>2 DEF Zero
    <3>3. T[f] \in Nat
      BY DEF Energies
    <3> QED BY <3>1, <3>2, <3>3
  <2>2. proc.area = SumOf(tot, "area")
    BY DEF IInv, Sums
  <2>3. proc'.area = SumOf(tot', "area")
    BY <1>3, <2>1, <2>2
  <2>4. ASSUME xml.cfg.homo["l1dir"] \/ Built(xml.cfg, "l1dir") = 0
        PROVE  proc'.power = SumOf(tot', "power") /\ proc'.rt = SumOf(tot', "rt")
    <3>1. proc.power = SumOf(tot, "power") /\ proc.rt = SumOf(tot, "rt") /\ R = T
      BY <2>4 DEF IInv, Sums
    <3> QED BY <1>3, <2>1, <3>1
  <2> QED BY <2>3, <2>4 DEF Sums
<1>8. Progress'
  <2>1. ASSUME NEW j \in 1 .. 9
        PROVE  IF j < at + 1
               THEN tot'[Order[j]] = AskedOf(units'[Order[j]], xml, Order[j])
               ELSE tot'[Order[j]] = Zero /\ Raw(units'[Order[j]], xml.cfg, Order[j])
    <3>1. CASE j = at
      <4>1. tot'[g] = T /\ units'[g] = ws
        BY <1>0, <1>1
      <4> QED BY <3>1, <4>1
    <3>2. CASE j # at
      <4>1. Order[j] # g /\ Order[j] \in Groups
        BY <1>1, <3>2
      <4>2. tot'[Order[j]] = tot[Order[j]] /\ units'[Order[j]] = units[Order[j]]
        BY <1>0, <4>1
      <4>3. j < at + 1 <=> j < at
        BY <3>2
      <4> QED BY <4>2, <4>3 DEF IInv, Progress
    <3> QED BY <3>1, <3>2
  <2> QED BY <2>1 DEF Progress
<1>9. NetworkProgress'
  <2>1. "noc" \in Groups /\ tot'["noc"] = tot["noc"] /\ units'["noc"] = units["noc"]
    BY <1>0, <1>1, GroupsAre
  <2>2. at <= 10 /\ at + 1 <= 10
    OBVIOUS
  <2>3. tot["noc"] = Zero /\ Raw(units["noc"], xml.cfg, "noc")
    BY <2>2 DEF IInv, NetworkProgress
  <2> QED BY <2>1, <2>2, <2>3 DEF NetworkProgress
<1>10. Building' /\ AsBuilt' /\ AsLoaded' /\ Finished'
  BY DEF Building, AsBuilt, AsLoaded, Finished
<1> QED BY <1>5, <1>6, <1>7, <1>8, <1>9, <1>10 DEF IInv

(* A phase of compute() is followed by the next, the last by the display.  *)
LEMMA ComputingIs ==
  ASSUME NEW S, Computing(S), at \in 1 .. 12
  PROVE  /\ pc = "compute" /\ Phases[at] \in S /\ xml' = xml
         /\ at' = (IF at < 12 THEN at + 1 ELSE 1)
         /\ pc' = (IF at < 12 THEN "compute" ELSE "computed")
  BY PhasesAre DEF Computing, NextAt

(* The phases of cores, caches and directories.                            *)
LEMMA UnitsStep ==
  ASSUME IInv, ComputeUnits, UNCHANGED <<mode, file, block, commands>>
  PROVE  IInv'
<1> DEFINE g == Phases[at]
           us == units[g]
           ws == ComputedAll(us, xml, g)
           T == Total(xml.cfg, g, ws)
           R == ToProcessor(xml.cfg, g, ws)
<1>0. /\ xml \in Xml /\ xml.cfg \in Config /\ tot \in [Groups -> Energies] /\ at \in 1 .. 12
      /\ at \in 1 .. Len(Phases)
  BY PhasesAre DEF IInv, TypeOK, Xml
<1>1. /\ pc = "compute" /\ g \in Clearing /\ xml' = xml
      /\ at' = (IF at < 12 THEN at + 1 ELSE 1)
      /\ pc' = (IF at < 12 THEN "compute" ELSE "computed")
  BY <1>0, ComputingIs DEF ComputeUnits
<1>2. at \in 1 .. 5 /\ g = Order[at]
  BY <1>0, <1>1, PhaseOf
<1>3. at \in 1 .. 9 /\ at' = at + 1 /\ pc' = pc
  BY <1>1, <1>2
<1>4. /\ units' = [units EXCEPT ![g] = ws] /\ tot' = [tot EXCEPT ![g] = Plus(tot[g], T)]
      /\ proc' = Plus(proc, R)
  BY DEF ComputeUnits, ComputedAll
<1>5. g \in Groups /\ g # "noc" /\ tot[g] = Zero /\ Raw(us, xml.cfg, g)
  <2>1. g \in Groups /\ g # "noc"
    BY <1>2, OrderOnce
  <2>2. tot[Order[at]] = Zero /\ Raw(units[Order[at]], xml.cfg, Order[at])
    BY <1>1, <1>3 DEF IInv, Progress
  <2> QED BY <1>2, <2>1, <2>2
<1> HIDE DEF g
<1>6. /\ ws \in Seq(Unit) /\ Len(ws) = Built(xml.cfg, g) /\ T = AskedOf(ws, xml, g)
      /\ T \in Energies
  BY <1>0, <1>5, GroupComputed
<1> HIDE DEF us, ws
<1>7. /\ R \in Energies /\ R.area = T.area
      /\ (g = "l1dir" => xml.cfg.homo[g] \/ Len(ws) = 0) => R = T
  BY <1>0, <1>5, <1>6, ToProcessorAdds
<1> HIDE DEF T, R
<1>8. tot' = [tot EXCEPT ![g] = T]
  BY <1>4, <1>5, <1>6, PlusZero
<1>9. xml.cfg.homo["l1dir"] \/ Built(xml.cfg, "l1dir") = 0 => R = T
  BY <1>6, <1>7
<1>10. g = Order[at] /\ UNCHANGED <<pc, xml, mode, file, block, commands>>
  BY <1>1, <1>2, <1>3
<1>11. R \in Energies /\ R.area = T.area /\ T \in Energies /\ ws \in Seq(Unit)
       /\ T = AskedOf(ws, xml, g) /\ pc = "compute" /\ at \in 1 .. 9 /\ at' = at + 1
       /\ units' = [units EXCEPT ![g] = ws] /\ proc' = Plus(proc, R)
  BY <1>1, <1>3, <1>4, <1>6, <1>7
<1> HIDE DEF R, T, ws
<1> QED BY ONLY IInv, <1>8, <1>9, <1>10, <1>11, GroupStep

(* The phases of the controllers, which are constructed again.             *)
LEMMA ControllersStep ==
  ASSUME IInv, ComputeControllers, UNCHANGED <<mode, file, block, commands>>
  PROVE  IInv'
<1> DEFINE g == Phases[at]
           us == News(xml, g)
           ws == ComputedAll(us, xml, g)
           T == Total(xml.cfg, g, ws)
<1>0. /\ xml \in Xml /\ xml.cfg \in Config /\ tot \in [Groups -> Energies] /\ at \in 1 .. 12
      /\ at \in 1 .. Len(Phases)
  BY PhasesAre DEF IInv, TypeOK, Xml
<1>1. /\ pc = "compute" /\ g \in Controllers /\ xml' = xml
      /\ at' = (IF at < 12 THEN at + 1 ELSE 1)
      /\ pc' = (IF at < 12 THEN "compute" ELSE "computed")
  BY <1>0, ComputingIs DEF ComputeControllers
<1>2. at \in 6 .. 9 /\ g = Order[at]
  BY <1>0, <1>1, PhaseOf
<1>3. at \in 1 .. 9 /\ at' = at + 1 /\ pc' = pc
  BY <1>1, <1>2
<1>4. g \in Groups /\ g # "noc" /\ tot[g] = Zero /\ Raw(units[g], xml.cfg, g)
  <2>1. g \in Groups /\ g # "noc"
    BY <1>2, OrderOnce
  <2>2. tot[Order[at]] = Zero /\ Raw(units[Order[at]], xml.cfg, Order[at])
    BY <1>1, <1>3 DEF IInv, Progress
  <2> QED BY <1>2, <2>1, <2>2
<1>5. Raw(us, xml.cfg, g)
  BY <1>0, <1>4, NewsTyped
<1>6. ws = [j \in DOMAIN units[g] |-> Computed(NewUnit(xml, g, j), xml, g, j)]
  <2>1. DOMAIN units[g] = 1 .. Built(xml.cfg, g)
    BY <1>4, SequenceOfUnits DEF Raw
  <2>2. us = [j \in 1 .. Built(xml.cfg, g) |-> NewUnit(xml, g, j)]
    BY DEF News
  <2>3. ws = [j \in DOMAIN us |-> Computed(us[j], xml, g, j)]
    BY DEF ComputedAll
  <2> HIDE DEF g, us, ws
  <2>4. DOMAIN us = 1 .. Built(xml.cfg, g)
        /\ \A j \in 1 .. Built(xml.cfg, g) : us[j] = NewUnit(xml, g, j)
    BY <2>2
  <2> QED BY <2>1, <2>3, <2>4
<1>7. /\ units' = [units EXCEPT ![g] = ws]
      /\ tot' = [tot EXCEPT ![g] = [T EXCEPT !.area = tot[g].area + T.area]]
      /\ proc' = Plus(proc, T)
  BY <1>6 DEF ComputeControllers
<1> HIDE DEF g
<1>8. /\ ws \in Seq(Unit) /\ T = AskedOf(ws, xml, g) /\ T \in Energies
  BY <1>0, <1>4, <1>5, GroupComputed
<1> HIDE DEF us, ws, T
<1>9. [T EXCEPT !.area = tot[g].area + T.area] = T
  BY <1>4, <1>8, ZeroIs DEF Energies
<1>10. tot' = [tot EXCEPT ![g] = T]
  BY <1>7, <1>9
<1>11. g = Order[at] /\ UNCHANGED <<pc, xml, mode, file, block, commands>>
  BY <1>1, <1>2, <1>3
<1> QED BY <1>1, <1>3, <1>7, <1>8, <1>10, <1>11, GroupStep, ZenonT(60)

-----------------------------------------------------------------------------
(* The networks.                                                           *)
LEMMA MoreArea ==
  ASSUME NEW t \in Energies, NEW a \in Nat
  PROVE  LET d == [area |-> a, power |-> 0, rt |-> 0]
         IN d \in Energies /\ [t EXCEPT !.area = t.area + a] = Plus(t, d)
<1> DEFINE d == [area |-> a, power |-> 0, rt |-> 0]
<1>1. d \in Energies
  BY DEF Energies
<1>2. Plus(t, d) = [area |-> t.area + a, power |-> t.power + 0, rt |-> t.rt + 0]
  BY <1>1, PlusIs
<1>3. t = [area |-> t.area, power |-> t.power, rt |-> t.rt]
      /\ t.power \in Nat /\ t.rt \in Nat
  BY DEF Energies
<1>4. [t EXCEPT !.area = t.area + a] = [area |-> t.area + a, power |-> t.power, rt |-> t.rt]
  BY <1>3
<1> QED BY <1>1, <1>2, <1>3, <1>4

(* What is added to the networks is added to the chip.                     *)
LEMMA NetworkSums ==
  ASSUME IInv, NEW d \in Energies, tot' = [tot EXCEPT !["noc"] = Plus(tot["noc"], d)],
         proc' = Plus(proc, d), xml' = xml
  PROVE  /\ Sums' /\ tot' \in [Groups -> Energies] /\ proc' \in Energies
         /\ SumOf(tot', "area") = proc.area + d.area
         /\ tot'["noc"] = Plus(tot["noc"], d)
         /\ \A j \in 1 .. 9 : tot'[Order[j]] = tot[Order[j]]
<1> DEFINE e == Plus(tot["noc"], d)
<1>0. tot \in [Groups -> Energies] /\ proc \in Energies /\ "noc" \in Groups
      /\ tot["noc"] \in Energies
  BY GroupsAre DEF IInv, TypeOK
<1>1. /\ e = [area |-> tot["noc"].area + d.area, power |-> tot["noc"].power + d.power,
              rt |-> tot["noc"].rt + d.rt]
      /\ e \in Energies
  BY <1>0, PlusIs
<1>2. /\ proc' = [area |-> proc.area + d.area, power |-> proc.power + d.power,
                  rt |-> proc.rt + d.rt]
      /\ proc' \in Energies
  BY <1>0, PlusIs
<1>3. tot' \in [Groups -> Energies] /\ tot'["noc"] = e
  BY <1>0, <1>1
<1>4. \A j \in 1 .. 9 : tot'[Order[j]] = tot[Order[j]]
  <2>1. \A j \in 1 .. 9 : Order[j] \in Groups /\ Order[j] # "noc"
    BY OrderOnce
  <2> QED BY <1>0, <2>1
<1>5. tot' = [tot EXCEPT !["noc"] = e]
  OBVIOUS
<1> HIDE DEF e
<1>6. ASSUME NEW f \in {"area", "power", "rt"}
      PROVE  SumOf(tot', f) = SumOf(tot, f) - tot["noc"][f] + e[f] /\ SumOf(tot, f) \in Nat
  <2>1. /\ SumOf([tot EXCEPT !["noc"] = e], f) = SumOf(tot, f) - tot["noc"][f] + e[f]
        /\ SumOf(tot, f) \in Nat
    BY <1>0, <1>1, SumAdds
  <2> QED BY <1>5, <2>1
<1>7. /\ tot["noc"].area \in Nat /\ tot["noc"].power \in Nat /\ tot["noc"].rt \in Nat
      /\ d.area \in Nat /\ d.power \in Nat /\ d.rt \in Nat
  BY <1>0 DEF Energies
<1>8. proc.area = SumOf(tot, "area")
  BY DEF IInv, Sums
<1>9. /\ SumOf(tot', "area") = SumOf(tot, "area") + d.area
      /\ SumOf(tot', "power") = SumOf(tot, "power") + d.power
      /\ SumOf(tot', "rt") = SumOf(tot, "rt") + d.rt
  BY <1>1, <1>6, <1>7
<1>10. Sums'
  <2>1. proc'.area = SumOf(tot', "area")
    BY <1>2, <1>8, <1>9
  <2>2. ASSUME xml.cfg.homo["l1dir"] \/ Built(xml.cfg, "l1dir") = 0
        PROVE  proc'.power = SumOf(tot', "power") /\ proc'.rt = SumOf(tot', "rt")
    <3>1. proc.power = SumOf(tot, "power") /\ proc.rt = SumOf(tot, "rt")
      BY <2>2 DEF IInv, Sums
    <3> QED BY <1>2, <1>9, <3>1
  <2> QED BY <2>1, <2>2 DEF Sums
<1> QED BY <1>2, <1>3, <1>4, <1>8, <1>9, <1>10 DEF e

(* What the phases of the networks find.                                   *)
LEMMA NetworkContext ==
  ASSUME IInv, pc = "compute"
  PROVE  /\ xml \in Xml /\ xml.cfg \in Config /\ "noc" \in Groups
         /\ units \in [Groups -> Seq(Unit)] /\ tot["noc"] \in Energies /\ proc \in Energies
         /\ proc.area \in Nat /\ units["noc"] \in Seq(Unit)
         /\ \A j \in 1 .. 9 : Order[j] \in Groups /\ Order[j] # "noc"
         /\ Built(xml.cfg, "noc") \in Int
         /\ \A n \in Int : LinksUpTo(xml.cfg, n) \in Nat
<1>1. /\ xml \in Xml /\ xml.cfg \in Config /\ "noc" \in Groups
      /\ units \in [Groups -> Seq(Unit)] /\ tot["noc"] \in Energies /\ proc \in Energies
  BY GroupsAre DEF IInv, TypeOK, Xml
<1>2. proc.area \in Nat
  BY <1>1 DEF Energies
<1>3. Built(xml.cfg, "noc") \in Int
  BY <1>1, ConfigTyped
<1>4. \A j \in 1 .. 9 : Order[j] \in Groups /\ Order[j] # "noc"
  BY OrderOnce
<1>5. \A n \in Int : LinksUpTo(xml.cfg, n) \in Nat
  <2> DEFINE cfg == xml.cfg
  <2>1. cfg \in Config
    BY <1>1
  <2> HIDE DEF cfg
  <2>2. \A n \in Int : LinksUpTo(cfg, n) \in Nat
    BY <2>1, LinksTyped
  <2> QED BY <2>2 DEF cfg
<1> QED BY <1>1, <1>2, <1>3, <1>4, <1>5

(* The routers are computed before the links.                              *)
LEMMA RoutersStep ==
  ASSUME IInv, ComputeRouters, UNCHANGED <<mode, file, block, commands>>
  PROVE  IInv'
<1> DEFINE a == Total(xml.cfg, "noc", units["noc"]).area
           d == [area |-> a, power |-> 0, rt |-> 0]
<1>1. /\ pc = "compute" /\ at = 10 /\ xml' = xml /\ at' = 11 /\ pc' = pc
  <2>1. at \in 1 .. Len(Phases) /\ at \in 1 .. 12
    BY PhasesAre DEF IInv, TypeOK
  <2>2. /\ pc = "compute" /\ Phases[at] = "routers" /\ xml' = xml
        /\ at' = (IF at < 12 THEN at + 1 ELSE 1)
        /\ pc' = (IF at < 12 THEN "compute" ELSE "computed")
    BY <2>1, ComputingIs DEF ComputeRouters
  <2> QED BY <2>1, <2>2, PhaseOf
<1>0. /\ xml \in Xml /\ xml.cfg \in Config /\ "noc" \in Groups
      /\ units \in [Groups -> Seq(Unit)] /\ tot["noc"] \in Energies /\ proc \in Energies
      /\ \A j \in 1 .. 9 : Order[j] \in Groups
  BY <1>1, NetworkContext
<1>2. tot["noc"] = Zero /\ Raw(units["noc"], xml.cfg, "noc")
  BY <1>1 DEF IInv, NetworkProgress
<1>3. a \in Nat
  <2>1. Total(xml.cfg, "noc", units["noc"]) \in Energies
    BY <1>0, <1>2, RouterArea DEF Raw
  <2> QED BY <2>1 DEF Energies
<1>4. /\ tot' = [tot EXCEPT !["noc"] = [tot["noc"] EXCEPT !.area = tot["noc"].area + a]]
      /\ proc' = [proc EXCEPT !.area = proc.area + a] /\ units' = units
  BY DEF ComputeRouters, AddRouters
<1> HIDE DEF a
<1>5. /\ d \in Energies /\ d.area = a
      /\ tot' = [tot EXCEPT !["noc"] = Plus(tot["noc"], d)] /\ proc' = Plus(proc, d)
  BY <1>0, <1>3, <1>4, MoreArea
<1> HIDE DEF d
<1>6. /\ Sums' /\ tot' \in [Groups -> Energies] /\ proc' \in Energies
      /\ tot'["noc"] = Plus(tot["noc"], d)
      /\ \A j \in 1 .. 9 : tot'[Order[j]] = tot[Order[j]]
  BY <1>1, <1>5, NetworkSums
<1>7. OnlyArea(tot'["noc"], a)
  BY <1>2, <1>5, <1>6, PlusZero DEF OnlyArea, d
<1>8. TypeOK' /\ InBlock'
  BY <1>1, <1>4, <1>6, PhasesAre DEF IInv, TypeOK, InBlock
<1>9. FileIsInitial'
  BY DEF IInv, FileIsInitial
<1>10. Progress'
  <2>1. \A j \in 1 .. 9 : j < 10 /\ j < 11
    OBVIOUS
  <2>2. \A j \in 1 .. 9 : tot[Order[j]] = AskedOf(units[Order[j]], xml, Order[j])
    BY <1>1, <2>1 DEF IInv, Progress
  <2> QED BY <1>1, <1>4, <1>6, <2>1, <2>2 DEF Progress
<1>11. NetworkProgress'
  BY <1>1, <1>2, <1>4, <1>7 DEF NetworkProgress, a
<1>12. Building' /\ AsBuilt' /\ AsLoaded' /\ Finished'
  BY <1>1 DEF Building, AsBuilt, AsLoaded, Finished
<1> QED BY <1>6, <1>8, <1>9, <1>10, <1>11, <1>12 DEF IInv

(* The links are as long as the chip without them.                         *)
LEMMA LinksStep ==
  ASSUME IInv, ComputeLinks, UNCHANGED <<mode, file, block, commands>>
  PROVE  IInv'
<1> DEFINE us == units["noc"]
           n == Len(us)
           a == LinksUpTo(xml.cfg, n)
           d == [area |-> a, power |-> 0, rt |-> 0]
           L(j) == [us[j] EXCEPT !.area = @ + LinkArea,
                                 !.len = proc.area + LinksUpTo(xml.cfg, j - 1)]
           vs == [j \in 1 .. n |-> IF HasLinks(xml.cfg, j) THEN L(j) ELSE us[j]]
<1>1. /\ pc = "compute" /\ at = 11 /\ xml' = xml /\ at' = 12 /\ pc' = pc
  <2>1. at \in 1 .. Len(Phases) /\ at \in 1 .. 12
    BY PhasesAre DEF IInv, TypeOK
  <2>2. /\ pc = "compute" /\ Phases[at] = "links" /\ xml' = xml
        /\ at' = (IF at < 12 THEN at + 1 ELSE 1)
        /\ pc' = (IF at < 12 THEN "compute" ELSE "computed")
    <3>1. Computing({"links"})
      BY DEF ComputeLinks
    <3> QED BY <2>1, <3>1, ComputingIs
  <2> QED BY <2>1, <2>2, PhaseOf
<1>0. /\ xml \in Xml /\ xml.cfg \in Config /\ "noc" \in Groups
      /\ units \in [Groups -> Seq(Unit)] /\ tot["noc"] \in Energies /\ proc \in Energies
      /\ proc.area \in Nat /\ \A j \in 1 .. 9 : Order[j] \in Groups /\ Order[j] # "noc"
      /\ \A k \in Int : LinksUpTo(xml.cfg, k) \in Nat
  BY <1>1, NetworkContext
<1>2. Raw(us, xml.cfg, "noc")
      /\ OnlyArea(tot["noc"], Total(xml.cfg, "noc", us).area)
  BY <1>1 DEF IInv, NetworkProgress
<1>3. /\ us \in Seq(Unit) /\ n = Built(xml.cfg, "noc") /\ n \in Nat
      /\ \A j \in 1 .. n : us[j] \in Unit /\ us[j].power = 0 /\ us[j].rt = 0
  BY <1>2, SequenceOfUnits DEF Raw
<1>4. a \in Nat
  <2> HIDE DEF n
  <2> QED BY <1>0, <1>3
<1>5. /\ units' = [units EXCEPT !["noc"] = vs]
      /\ tot' = [tot EXCEPT !["noc"] = [tot["noc"] EXCEPT !.area = tot["noc"].area + a]]
      /\ proc' = [proc EXCEPT !.area = proc.area + a]
  <2>1. units' = [units EXCEPT !["noc"] = vs]
    BY DEF ComputeLinks
  <2>2. /\ tot' = [tot EXCEPT !["noc"].area = @ + a]
        /\ proc' = [proc EXCEPT !.area = @ + a]
    BY DEF ComputeLinks
  <2> HIDE DEF a, vs
  <2> QED BY <2>1, <2>2
<1> HIDE DEF a
<1>6. /\ d \in Energies /\ d.area = a /\ d.power = 0 /\ d.rt = 0
      /\ tot' = [tot EXCEPT !["noc"] = Plus(tot["noc"], d)] /\ proc' = Plus(proc, d)
  BY <1>0, <1>4, <1>5, MoreArea
<1> HIDE DEF d, us, n
<1>7. /\ Sums' /\ tot' \in [Groups -> Energies] /\ proc' \in Energies
      /\ SumOf(tot', "area") = proc.area + a
      /\ tot'["noc"] = Plus(tot["noc"], d)
      /\ \A j \in 1 .. 9 : tot'[Order[j]] = tot[Order[j]]
  BY <1>1, <1>6, NetworkSums
<1>8. ASSUME NEW j \in 1 .. n
      PROVE  /\ L(j) \in Unit /\ L(j).power = 0 /\ L(j).rt = 0
             /\ L(j).len = proc.area + LinksUpTo(xml.cfg, j - 1)
             /\ LinksUpTo(xml.cfg, j - 1) \in Nat
  <2>0. j - 1 \in Int
    BY <1>3
  <2>1. LinksUpTo(xml.cfg, j - 1) \in Nat /\ LinkArea \in Nat
    BY <1>0, <2>0, ProcessorAssumption
  <2>a. us[j] \in Unit /\ us[j].power = 0 /\ us[j].rt = 0
    BY <1>3
  <2>b. us[j].area \in Nat
    BY <2>a, UnitFields
  <2>2. us[j] \in Unit /\ us[j].area + LinkArea \in Nat /\ us[j].power = 0 /\ us[j].rt = 0
        /\ proc.area + LinksUpTo(xml.cfg, j - 1) \in Nat
    <3>1. us[j].area + LinkArea \in Nat
      BY ONLY <2>1, <2>b
    <3>2. proc.area \in Nat
      BY <1>0
    <3>3. proc.area + LinksUpTo(xml.cfg, j - 1) \in Nat
      BY ONLY <2>1, <3>2
    <3> QED BY <2>a, <3>1, <3>3
  <2> QED BY <2>1, <2>2 DEF Unit
<1>9. vs = [j \in 1 .. n |-> IF HasLinks(xml.cfg, j) THEN L(j) ELSE us[j]]
  BY DEF n, us
<1> HIDE DEF L, vs
<1>10. vs \in [1 .. n -> Unit]
  BY <1>3, <1>8, <1>9
<1>11. vs \in Seq(Unit) /\ Len(vs) = n
  BY <1>3, <1>10, SequenceFacts
<1>12. Linked(vs, xml.cfg)
  <2>1. \A j \in 1 .. n : vs[j].power = 0 /\ vs[j].rt = 0
    BY <1>3, <1>8, <1>9
  <2> QED BY <1>3, <1>11, <2>1 DEF Linked
<1>13. OnlyArea(tot'["noc"], AskedOf(vs, xml, "noc").area)
  <2> DEFINE r == Total(xml.cfg, "noc", us).area
  <2>1. r \in Nat
    <3>1. Total(xml.cfg, "noc", us) \in Energies
      BY <1>0, <1>2, <1>3, RouterArea DEF Raw
    <3> QED BY <3>1 DEF Energies
  <2>2. AskedOf(vs, xml, "noc").area = r + a
    BY <1>0, <1>2, <1>3, <1>11, RouterArea DEF a
  <2> HIDE DEF r
  <2>3. tot["noc"].area = r /\ tot["noc"].power = 0 /\ tot["noc"].rt = 0
    BY <1>2 DEF OnlyArea, r
  <2>4. Plus(tot["noc"], d) = [area |-> r + a, power |-> 0 + 0, rt |-> 0 + 0]
    BY <1>0, <1>6, <2>3, PlusIs, ZenonT(60)
  <2> QED BY <1>7, <2>2, <2>4 DEF OnlyArea
<1>14. LongLinks(vs, xml.cfg, tot')
  <2>1. ASSUME NEW j \in 1 .. n, HasLinks(xml.cfg, j)
        PROVE  vs[j].len >= SumOf(tot', "area") - LinksUpTo(xml.cfg, Built(xml.cfg, "noc"))
    <3>1. vs[j].len = proc.area + LinksUpTo(xml.cfg, j - 1) /\ LinksUpTo(xml.cfg, j - 1) \in Nat
      BY <1>8, <1>9, <2>1
    <3>2. SumOf(tot', "area") - LinksUpTo(xml.cfg, Built(xml.cfg, "noc")) = proc.area
      <4>1. LinksUpTo(xml.cfg, Built(xml.cfg, "noc")) = a
        BY <1>3 DEF a
      <4>2. proc.area \in Nat /\ a \in Nat /\ SumOf(tot', "area") = proc.area + a
        BY <1>0, <1>4, <1>7
      <4> QED BY ONLY <4>1, <4>2
    <3>3. proc.area \in Nat
      BY <1>0
    <3> QED BY <3>1, <3>2, <3>3
  <2> QED BY <1>11, <2>1 DEF LongLinks
<1>15. units' \in [Groups -> Seq(Unit)] /\ units'["noc"] = vs
       /\ \A j \in 1 .. 9 : units'[Order[j]] = units[Order[j]]
  BY <1>0, <1>5, <1>11
<1>16. TypeOK' /\ InBlock'
  <2>1. at' \in 1 .. Len(Phases) /\ xml' \in Xml
    BY <1>0, <1>1, PhasesAre
  <2> QED BY <1>1, <1>7, <1>15, <2>1 DEF IInv, TypeOK, InBlock
<1>17. FileIsInitial'
  BY DEF IInv, FileIsInitial
<1>18. Progress'
  <2>1. \A j \in 1 .. 9 : j < 11 /\ j < 12
    OBVIOUS
  <2>2. \A j \in 1 .. 9 : tot[Order[j]] = AskedOf(units[Order[j]], xml, Order[j])
    BY <1>1, <2>1 DEF IInv, Progress
  <2> QED BY <1>1, <1>7, <1>15, <2>1, <2>2 DEF Progress
<1>19. NetworkProgress'
  BY <1>1, <1>12, <1>13, <1>14, <1>15 DEF NetworkProgress
<1>20. Building' /\ AsBuilt' /\ AsLoaded' /\ Finished'
  BY <1>1 DEF Building, AsBuilt, AsLoaded, Finished
<1> QED BY <1>7, <1>16, <1>17, <1>18, <1>19, <1>20 DEF IInv

(* The networks are summed up with their links.                            *)
LEMMA NetworksStep ==
  ASSUME IInv, ComputeNetworks, UNCHANGED <<mode, file, block, commands>>
  PROVE  IInv'
<1> DEFINE us == units["noc"]
           ws == ComputedAll(us, xml, "noc")
           e == [Total(xml.cfg, "noc", ws) EXCEPT !.area = 0]
<1>1. /\ pc = "compute" /\ at = 12 /\ xml' = xml /\ at' = 1 /\ pc' = "computed"
  <2>1. at \in 1 .. Len(Phases) /\ at \in 1 .. 12
    BY PhasesAre DEF IInv, TypeOK
  <2>2. /\ pc = "compute" /\ Phases[at] = "networks" /\ xml' = xml
        /\ at' = (IF at < 12 THEN at + 1 ELSE 1)
        /\ pc' = (IF at < 12 THEN "compute" ELSE "computed")
    BY <2>1, ComputingIs DEF ComputeNetworks
  <2> QED BY <2>1, <2>2, PhaseOf
<1>0. /\ xml \in Xml /\ xml.cfg \in Config /\ "noc" \in Groups
      /\ units \in [Groups -> Seq(Unit)] /\ tot["noc"] \in Energies /\ proc \in Energies
      /\ proc.area \in Nat /\ \A j \in 1 .. 9 : Order[j] \in Groups /\ Order[j] # "noc"
  BY <1>1, NetworkContext
<1>2. /\ Linked(us, xml.cfg) /\ OnlyArea(tot["noc"], AskedOf(us, xml, "noc").area)
      /\ LongLinks(us, xml.cfg, tot)
  BY <1>1 DEF IInv, NetworkProgress
<1>3. /\ ws \in Seq(Unit) /\ Len(ws) = Len(us)
      /\ \A j \in 1 .. Len(us) : ws[j].len = us[j].len
      /\ e \in Energies /\ e.area = 0
      /\ Plus(tot["noc"], e) = AskedOf(ws, xml, "noc")
  BY <1>0, <1>2, NetworksComputed
<1>4. /\ units' = [units EXCEPT !["noc"] = ws]
      /\ tot' = [tot EXCEPT !["noc"] = Plus(tot["noc"], e)] /\ proc' = Plus(proc, e)
  BY DEF ComputeNetworks, ComputedAll
<1> HIDE DEF us, ws, e
<1>5. /\ Sums' /\ tot' \in [Groups -> Energies] /\ proc' \in Energies
      /\ SumOf(tot', "area") = proc.area + e.area
      /\ tot'["noc"] = Plus(tot["noc"], e)
      /\ \A j \in 1 .. 9 : tot'[Order[j]] = tot[Order[j]]
  BY <1>1, <1>3, <1>4, NetworkSums
<1>6. units' \in [Groups -> Seq(Unit)] /\ units'["noc"] = ws
      /\ \A j \in 1 .. 9 : units'[Order[j]] = units[Order[j]]
  BY <1>0, <1>3, <1>4
<1>7. TypeOK' /\ InBlock'
  <2>1. at' \in 1 .. Len(Phases) /\ xml' \in Xml
    BY <1>0, <1>1, PhasesAre
  <2> QED BY <1>1, <1>5, <1>6, <2>1 DEF IInv, TypeOK, InBlock
<1>8. FileIsInitial'
  BY DEF IInv, FileIsInitial
<1>9. Finished'
  <2>1. \A g \in Groups : tot'[g] = AskedOf(units'[g], xml, g)
    <3>1. \A j \in 1 .. 9 : j < 12
      OBVIOUS
    <3>2. \A j \in 1 .. 9 : tot[Order[j]] = AskedOf(units[Order[j]], xml, Order[j])
      BY <1>1, <3>1 DEF IInv, Progress
    <3>3. \A j \in 1 .. 9 : tot'[Order[j]] = AskedOf(units'[Order[j]], xml, Order[j])
      BY <1>5, <1>6, <3>2
    <3>4. ASSUME NEW g \in Groups PROVE g = "noc" \/ \E j \in 1 .. 9 : g = Order[j]
      <4>1. PICK j \in 1 .. 10 : Order[j] = g
        BY AllInOrder
      <4>2. j = 10 \/ j \in 1 .. 9
        OBVIOUS
      <4> QED BY <4>1, <4>2, OrderIs
    <3>5. tot'["noc"] = AskedOf(units'["noc"], xml, "noc")
      BY <1>3, <1>5, <1>6
    <3> QED BY <3>3, <3>4, <3>5
  <2>2. LongLinks(ws, xml.cfg, tot')
    <3>1. SumOf(tot', "area") = SumOf(tot, "area")
      <4>1. proc.area = SumOf(tot, "area")
        BY DEF IInv, Sums
      <4> QED BY <1>0, <1>3, <1>5, <4>1
    <3> QED BY <1>2, <1>3, <3>1 DEF LongLinks
  <2> QED BY <1>1, <1>6, <2>1, <2>2 DEF Finished
<1>10. Building' /\ AsBuilt' /\ AsLoaded' /\ Progress' /\ NetworkProgress'
  BY <1>1 DEF Building, AsBuilt, AsLoaded, Progress, NetworkProgress
<1> QED BY <1>5, <1>7, <1>8, <1>9, <1>10 DEF IInv

-----------------------------------------------------------------------------
(* Every step keeps the invariant.                                         *)
LEMMA StepIInv ==
  ASSUME IInv, [Next]_vars
  PROVE  IInv'
<1>1. CASE UNCHANGED vars
  BY <1>1 DEF vars, IInv, TypeOK, InBlock, FileIsInitial, Sums, Building, AsBuilt, AsLoaded,
              Progress, NetworkProgress, Finished
<1>2. CASE Parse \/ StartLoad \/ Quit \/ Kill
  BY <1>2, ProcessActions
<1>3. CASE (Exit \/ Abort) /\ UNCHANGED <<mode, file, block, commands>>
  BY <1>3, QuietActions
<1>4. CASE Construct /\ UNCHANGED <<mode, file, block, commands>>
  BY <1>4, ConstructStep
<1>5. CASE Compute /\ UNCHANGED <<mode, file, block, commands>>
  BY <1>5, UnitsStep, ControllersStep, RoutersStep, LinksStep, NetworksStep DEF Compute
<1>6. CASE Go \/ LoadFails \/ Display
  BY <1>6, QuietActions
<1>7. CASE Open \/ Write \/ Load
  BY <1>7, FileActions
<1>8. CASE Read
  BY <1>8, QuietActions, DynamicActions DEF Read
<1> QED BY <1>1, <1>2, <1>3, <1>4, <1>5, <1>6, <1>7, <1>8 DEF Next, Step

(* In every mode, from the construction of a processor over its file and   *)
(* its dynamic commands to the last phase of compute(): what each group    *)
(* has, and that the processor's figures are the sums of the groups'.      *)
THEOREM Invariance == Spec => []IInv
<1>1. Init => IInv
  BY InitIInv
<1>2. IInv /\ [Next]_vars => IInv'
  BY StepIInv
<1> QED BY <1>1, <1>2, PTL DEF Spec

(* Types, for any number of units and any figures.                         *)
THEOREM TypeCorrect == Spec => []TypeOK
<1>1. IInv => TypeOK
  BY DEF IInv
<1> QED BY <1>1, Invariance, PTL

(* A saved file holds a Processor nothing was computed in.                 *)
THEOREM FileIsInitialCorrect == Spec => []FileIsInitial
<1>1. IInv => FileIsInitial
  BY DEF IInv
<1> QED BY <1>1, Invariance, PTL

(* What is printed of each group is what is asked for.                     *)
LEMMA PrintedAsAsked ==
  ASSUME IInv, pc = "printed"
  PROVE  \A g \in Groups : tot[g] = Asked(xml, g)
<1>1. \A g \in Groups : tot[g] = AskedOf(units[g], xml, g)
  BY DEF IInv, Finished
<1> QED BY <1>1, AskedIs

(* What is printed are the figures of the configuration and of the last    *)
(* statistics, in every mode and after any dynamic file.                   *)
THEOREM AsAskedCorrect == Spec => []AsAsked
<1>1. IInv => AsAsked
  BY PrintedAsAsked DEF AsAsked
<1> QED BY <1>1, Invariance, PTL

-----------------------------------------------------------------------------
(* A sum over the groups in their order.                                   *)
Running(s, n, v) ==
  s = [j \in 0 .. n |-> IF j = 0 THEN 0 ELSE s[j - 1] + v[Order[j]]]

(* Every group has its running sum.                                        *)
LEMMA RunningExists ==
  ASSUME NEW v PROVE \E s : Running(s, Len(Order), v)
<1> DEFINE T == {m \in 0 .. 10 : \E s : Running(s, m, v)}
<1>1. 0 \in T
  <2>1. Running([j \in 0 .. 0 |-> 0], 0, v)
    BY DEF Running
  <2> QED BY <2>1
<1>2. ASSUME NEW m \in 0 .. 10, m \in T, m < 10 PROVE m + 1 \in T
  <2>1. PICK s : Running(s, m, v)
    BY <1>2
  <2> DEFINE w == [j \in 0 .. m + 1 |-> IF j <= m THEN s[j] ELSE s[m] + v[Order[m + 1]]]
  <2>2. ASSUME NEW j \in 0 .. m + 1
        PROVE  w[j] = IF j = 0 THEN 0 ELSE w[j - 1] + v[Order[j]]
    <3>1. CASE j <= m
      <4>1. w[j] = s[j] /\ s[j] = IF j = 0 THEN 0 ELSE s[j - 1] + v[Order[j]]
        BY <2>1, <3>1 DEF Running
      <4>2. j # 0 => w[j - 1] = s[j - 1]
        BY <3>1
      <4> QED BY <4>1, <4>2
    <3>2. CASE j = m + 1
      <4>1. w[j] = s[m] + v[Order[m + 1]] /\ w[m] = s[m] /\ j - 1 = m /\ j # 0
        BY <3>2
      <4> QED BY <3>2, <4>1
    <3> QED BY <3>1, <3>2
  <2>3. Running(w, m + 1, v)
    BY <2>2 DEF Running
  <2> HIDE DEF w
  <2> QED BY <2>3, <1>2
<1> HIDE DEF T
<1>3. 0 .. 10 \subseteq T
  BY <1>1, <1>2, UpTo
<1>4. 10 \in T
  BY <1>3
<1> QED BY <1>4, OrderIs DEF T

(* The running sum over the groups is the sum of the ten.                  *)
LEMMA RunningSum ==
  ASSUME NEW v \in [Groups -> Int], NEW s, Running(s, Len(Order), v)
  PROVE  s[Len(Order)] = v["core"] + v["l2"] + v["l3"] + v["l1dir"] + v["l2dir"] + v["mc"]
                           + v["flash"] + v["niu"] + v["pcie"] + v["noc"]
<1>1. s = [j \in 0 .. 10 |-> IF j = 0 THEN 0 ELSE s[j - 1] + v[Order[j]]]
  BY OrderIs DEF Running
<1>2. /\ s[0] = 0 /\ s[1] = s[0] + v[Order[1]] /\ s[2] = s[1] + v[Order[2]]
      /\ s[3] = s[2] + v[Order[3]] /\ s[4] = s[3] + v[Order[4]]
      /\ s[5] = s[4] + v[Order[5]] /\ s[6] = s[5] + v[Order[6]]
      /\ s[7] = s[6] + v[Order[7]] /\ s[8] = s[7] + v[Order[8]]
      /\ s[9] = s[8] + v[Order[9]] /\ s[10] = s[9] + v[Order[10]]
  <2>1. ASSUME NEW j \in 1 .. 10 PROVE s[j] = s[j - 1] + v[Order[j]]
    <3>1. j \in 0 .. 10 /\ j # 0
      OBVIOUS
    <3> QED BY <1>1, <3>1
  <2>2. s[0] = 0
    BY <1>1
  <2>3. /\ s[1] = s[1 - 1] + v[Order[1]] /\ s[2] = s[2 - 1] + v[Order[2]]
        /\ s[3] = s[3 - 1] + v[Order[3]] /\ s[4] = s[4 - 1] + v[Order[4]]
        /\ s[5] = s[5 - 1] + v[Order[5]] /\ s[6] = s[6 - 1] + v[Order[6]]
        /\ s[7] = s[7 - 1] + v[Order[7]] /\ s[8] = s[8 - 1] + v[Order[8]]
        /\ s[9] = s[9 - 1] + v[Order[9]] /\ s[10] = s[10 - 1] + v[Order[10]]
    BY ONLY <2>1
  <2> QED BY <2>2, <2>3
<1>3. /\ v["core"] \in Int /\ v["l2"] \in Int /\ v["l3"] \in Int /\ v["l1dir"] \in Int
      /\ v["l2dir"] \in Int /\ v["mc"] \in Int /\ v["flash"] \in Int /\ v["niu"] \in Int
      /\ v["pcie"] \in Int /\ v["noc"] \in Int
  BY GroupsAre
<1>4. s[10] = v["core"] + v["l2"] + v["l3"] + v["l1dir"] + v["l2dir"] + v["mc"]
                + v["flash"] + v["niu"] + v["pcie"] + v["noc"]
  BY <1>2, <1>3, OrderIs
<1> QED BY <1>4, OrderIs

(* The sums of the specification.                                          *)
LEMMA ChipAreas ==
  ASSUME \A g \in Groups : tot[g] \in Energies /\ tot[g] = Asked(xml, g)
  PROVE  /\ Chip(LAMBDA g : tot[g].area) = SumOf(tot, "area")
         /\ Chip(LAMBDA g : Asked(xml, g).area) = SumOf(tot, "area")
<1> DEFINE v == [g \in Groups |-> tot[g].area]
           N == Len(Order)
           Body(s) == [j \in 0 .. N |-> IF j = 0 THEN 0 ELSE s[j - 1] + tot[Order[j]].area]
           Ask(s)  == [j \in 0 .. N |-> IF j = 0 THEN 0
                                        ELSE s[j - 1] + Asked(xml, Order[j]).area]
           sum == CHOOSE s : s = Body(s)
           ask == CHOOSE s : s = Ask(s)
<1>1. /\ Chip(LAMBDA g : tot[g].area) = sum[N]
      /\ Chip(LAMBDA g : Asked(xml, g).area) = ask[N]
  BY DEF Chip
<1>2. v \in [Groups -> Int]
  BY DEF Energies
<1>3. ASSUME NEW s PROVE /\ Running(s, N, v) <=> s = Body(s)
                         /\ Running(s, N, v) <=> s = Ask(s)
  <2>1. ASSUME NEW j \in 0 .. N, j # 0
        PROVE v[Order[j]] = tot[Order[j]].area /\ v[Order[j]] = Asked(xml, Order[j]).area
    <3>1. Order[j] \in Groups
      BY <2>1, OrderIs DEF Groups
    <3> QED BY <3>1
  <2> HIDE DEF v, N
  <2>2. [j \in 0 .. N |-> IF j = 0 THEN 0 ELSE s[j - 1] + v[Order[j]]] = Body(s)
    BY <2>1
  <2>3. [j \in 0 .. N |-> IF j = 0 THEN 0 ELSE s[j - 1] + v[Order[j]]] = Ask(s)
    BY <2>1
  <2> QED BY <2>2, <2>3 DEF Running
<1>4. PICK s : Running(s, N, v)
  BY RunningExists
<1>5. s = Body(s) /\ s = Ask(s)
  BY <1>3, <1>4
<1>6. sum = Body(sum) /\ ask = Ask(ask)
  <2> HIDE DEF Body, Ask
  <2> QED BY <1>5
<1>7. Running(sum, N, v) /\ Running(ask, N, v)
  BY <1>3, <1>6
<1> HIDE DEF sum, ask, v
<1>8. /\ sum[N] = v["core"] + v["l2"] + v["l3"] + v["l1dir"] + v["l2dir"] + v["mc"]
                    + v["flash"] + v["niu"] + v["pcie"] + v["noc"]
      /\ ask[N] = v["core"] + v["l2"] + v["l3"] + v["l1dir"] + v["l2dir"] + v["mc"]
                    + v["flash"] + v["niu"] + v["pcie"] + v["noc"]
  BY <1>2, <1>7, RunningSum
<1>9. SumOf(tot, "area") = v["core"] + v["l2"] + v["l3"] + v["l1dir"] + v["l2dir"] + v["mc"]
                             + v["flash"] + v["niu"] + v["pcie"] + v["noc"]
  BY GroupsAre DEF SumOf, v
<1> QED BY <1>1, <1>8, <1>9

(* The chip is the sum of its groups.                                      *)
LEMMA ChipEnergies ==
  ASSUME \A g \in Groups : tot[g] \in Energies
  PROVE  /\ Chip(LAMBDA g : tot[g].power) = SumOf(tot, "power")
         /\ Chip(LAMBDA g : tot[g].rt) = SumOf(tot, "rt")
<1> DEFINE v == [g \in Groups |-> tot[g].power]
           w == [g \in Groups |-> tot[g].rt]
           N == Len(Order)
           Power(s) == [j \in 0 .. N |-> IF j = 0 THEN 0 ELSE s[j - 1] + tot[Order[j]].power]
           Rt(s)    == [j \in 0 .. N |-> IF j = 0 THEN 0 ELSE s[j - 1] + tot[Order[j]].rt]
           power == CHOOSE s : s = Power(s)
           rt    == CHOOSE s : s = Rt(s)
<1>1. /\ Chip(LAMBDA g : tot[g].power) = power[N]
      /\ Chip(LAMBDA g : tot[g].rt) = rt[N]
  BY DEF Chip
<1>2. v \in [Groups -> Int] /\ w \in [Groups -> Int]
  BY DEF Energies
<1>3. ASSUME NEW s PROVE /\ Running(s, N, v) <=> s = Power(s)
                         /\ Running(s, N, w) <=> s = Rt(s)
  <2>1. ASSUME NEW j \in 0 .. N, j # 0
        PROVE v[Order[j]] = tot[Order[j]].power /\ w[Order[j]] = tot[Order[j]].rt
    <3>1. Order[j] \in Groups
      BY <2>1, OrderIs DEF Groups
    <3> QED BY <3>1
  <2> HIDE DEF v, w, N
  <2>2. [j \in 0 .. N |-> IF j = 0 THEN 0 ELSE s[j - 1] + v[Order[j]]] = Power(s)
    BY <2>1
  <2>3. [j \in 0 .. N |-> IF j = 0 THEN 0 ELSE s[j - 1] + w[Order[j]]] = Rt(s)
    BY <2>1
  <2> QED BY <2>2, <2>3 DEF Running
<1>4. PICK s : Running(s, N, v)
  BY RunningExists
<1>5. PICK t : Running(t, N, w)
  BY RunningExists
<1>6. s = Power(s) /\ t = Rt(t)
  BY <1>3, <1>4, <1>5
<1>7. power = Power(power) /\ rt = Rt(rt)
  <2> HIDE DEF Power, Rt
  <2> QED BY <1>6
<1>8. Running(power, N, v) /\ Running(rt, N, w)
  BY <1>3, <1>7
<1> HIDE DEF power, rt, v, w
<1>9. /\ power[N] = v["core"] + v["l2"] + v["l3"] + v["l1dir"] + v["l2dir"] + v["mc"]
                      + v["flash"] + v["niu"] + v["pcie"] + v["noc"]
      /\ rt[N] = w["core"] + w["l2"] + w["l3"] + w["l1dir"] + w["l2dir"] + w["mc"]
                   + w["flash"] + w["niu"] + w["pcie"] + w["noc"]
  BY <1>2, <1>8, RunningSum
<1>10. /\ SumOf(tot, "power")
            = v["core"] + v["l2"] + v["l3"] + v["l1dir"] + v["l2dir"] + v["mc"]
                + v["flash"] + v["niu"] + v["pcie"] + v["noc"]
       /\ SumOf(tot, "rt")
            = w["core"] + w["l2"] + w["l3"] + w["l1dir"] + w["l2dir"] + w["mc"]
                + w["flash"] + w["niu"] + w["pcie"] + w["noc"]
  BY GroupsAre DEF SumOf, v, w
<1> QED BY <1>1, <1>9, <1>10

(* The links are as long as the whole chip asks for, and the processor's   *)
(* figures are the sums of its groups'.                                    *)
THEOREM WholeChipCorrect == Spec => []WholeChip
<1>1. ASSUME IInv PROVE WholeChip
  <2>1. CASE pc # "printed"
    BY <2>1 DEF WholeChip, LinksSeeWholeChip, ChipSumsUp
  <2>2. CASE pc = "printed"
    <3>1. \A g \in Groups : tot[g] \in Energies /\ tot[g] = Asked(xml, g)
      BY <1>1, <2>2, PrintedAsAsked DEF IInv, TypeOK
    <3>2. /\ Chip(LAMBDA g : tot[g].area) = SumOf(tot, "area")
          /\ Chip(LAMBDA g : Asked(xml, g).area) = SumOf(tot, "area")
      BY <3>1, ChipAreas
    <3>3. /\ Chip(LAMBDA g : tot[g].power) = SumOf(tot, "power")
          /\ Chip(LAMBDA g : tot[g].rt) = SumOf(tot, "rt")
      BY <3>1, ChipEnergies
    <3>4. LinksSeeWholeChip
      <4>1. LongLinks(units["noc"], xml.cfg, tot)
        BY <1>1, <2>2 DEF IInv, Finished
      <4>2. DOMAIN units["noc"] = 1 .. Len(units["noc"])
        BY <1>1, GroupsAre, SequenceOfUnits DEF IInv, TypeOK
      <4>3. \A j \in DOMAIN units["noc"] :
              HasLinks(xml.cfg, j) =>
                units["noc"][j].len >= Chip(LAMBDA g : Asked(xml, g).area)
                                         - LinksUpTo(xml.cfg, Built(xml.cfg, "noc"))
        BY <3>2, <4>1, <4>2 DEF LongLinks
      <4> QED BY <4>3 DEF LinksSeeWholeChip
    <3>5. ChipSumsUp
      <4>1. proc.area = Chip(LAMBDA g : tot[g].area)
        BY <1>1, <3>2 DEF IInv, Sums
      <4>2. xml.cfg.homo["l1dir"] \/ Built(xml.cfg, "l1dir") = 0 =>
              /\ proc.power = Chip(LAMBDA g : tot[g].power)
              /\ proc.rt = Chip(LAMBDA g : tot[g].rt)
        BY <1>1, <3>3 DEF IInv, Sums
      <4> QED BY <4>1, <4>2 DEF ChipSumsUp
    <3> QED BY <3>4, <3>5 DEF WholeChip
  <2> QED BY <2>1, <2>2
<1> QED BY <1>1, Invariance, PTL
=============================================================================
