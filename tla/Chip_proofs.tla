---------------------------- MODULE Chip_proofs ----------------------------
(***************************************************************************)
(* From the file to the figures, proved for every file and every unit.     *)
(*                                                                         *)
(* First ParseXML::parse(): as many units of each kind as the arrays of    *)
(* sys can hold, any components in any order.  Walk relates the counters of*)
(* parse() and the entries filled so far to the layout the numbers of the  *)
(* file ask for; there is one lemma for each action, and the verdicts and  *)
(* the order of the entries follow at the end.                             *)
(*                                                                         *)
(* Then the life of a unit: one lemma for each class says what its tables  *)
(* have in common under every combination of its flags (Sound, Pairs,      *)
(* Counts, Suited); Life carries that through the calls.                   *)
(*                                                                         *)
(* Last the inputs: the fields each class reads are among those stored     *)
(* from their names, and what initialize() leaves is safe to start from.   *)
(***************************************************************************)
EXTENDS Chip, FiniteSetTheorems, FunctionTheorems, SequenceTheorems, TLAPS

(* How many components each step of the walk takes, and how many stand     *)
(* ahead of them.                                                          *)
Steps == 1 .. 10
Size(s) == IF s = 1 THEN LastCore + 1 ELSE IF s <= 6 THEN Count(Groups[s]) ELSE 1
Taken(s, t) == IF t < s THEN Size(t) ELSE 0
Ahead(s) ==
  Taken(s, 1) + Taken(s, 2) + Taken(s, 3) + Taken(s, 4) + Taken(s, 5)
  + Taken(s, 6) + Taken(s, 7) + Taken(s, 8) + Taken(s, 9) + Taken(s, 10)

(* How many components of the layout parse() has gone through.             *)
Accepted == Ahead(step) + i

(* parse() stays at a component that is not a network.                     *)
Stuck ==
  /\ step = 6 /\ Ahead(6) <= w /\ w < Ahead(6) + i
  /\ w < Len(file.comps) /\ file.comps[w + 1] # "NoC"

Counters ==
  /\ step \in 1 .. 11 /\ order \in Nat /\ w \in Nat /\ i \in Nat
  /\ file.comps = <<>> => step = 1 /\ i = 0
  /\ step = 1 => order = 0 /\ w = 0 /\ i <= Size(1) /\ i <= Len(file.comps)
  /\ step > 1 => order + 1 = Ahead(step) /\ LastCore < Entries
  /\ step \in 2 .. 6 => i <= Size(step) /\ (w = Ahead(step) + i \/ Stuck)
  /\ step > 6 => w = Ahead(7) /\ i = 0
  /\ step > 7 => Ahead(7) > 1

(* What parse() has gone through fits,                                     *)
Found(p) == p <= Len(file.comps) /\ Matches(Layout[p], file.comps[p])
Checked == \A p \in 1 .. Accepted : Layout[p] = "NoC" \/ Found(p)

(* and has filled the entries, but for networks passed over.               *)
Passed == \E p \in DOMAIN Layout :
  Layout[p] = "NoC" /\ p <= Len(file.comps) /\ file.comps[p] # "NoC"

Placed == \A s \in Steps, k \in 0 .. Entries - 1, p \in Nat :
  p = Ahead(s) + k + 1 =>
    \/ filled[Groups[s]][k] = p /\ p <= Ahead(s + 1) /\ Found(p)
    \/ /\ filled[Groups[s]][k] = 0
       /\ p > Ahead(s + 1) \/ p > Accepted \/ (s = 6 /\ Passed)

EntriesTyped == filled \in [GroupNames -> [0 .. Entries - 1 -> Nat]]

Reading == verdict \in {"parsing", "done"}

Walk ==
  /\ Reading => file \in Files /\ Counters /\ EntriesTyped /\ Checked /\ Placed
  /\ verdict = "done" => file.comps = <<>> \/ step = 11
  /\ verdict = "misfit" => file.comps # <<>> /\ (~ Fits \/ Lonely)

IInv == TypeOK /\ Walk

-----------------------------------------------------------------------------
(* The groups and their names.                                             *)
Names == {"core", "L1Directory", "L2Directory", "L2", "L3", "NoC",
          "mc", "niu", "pcie", "flashc"}

NumShared == 5
NumSingles == 4

(* The counted groups between cores and controllers, as a sequence of five *)
(* names.                                                                  *)
LEMMA SharedSeq == Shared \in Seq(Names) /\ Len(Shared) = NumShared
  BY DEF Shared, Names, NumShared

(* The controllers, as a sequence of four names.                           *)
LEMMA SinglesSeq == Singles \in Seq(Names) /\ Len(Singles) = NumSingles
  BY DEF Singles, Names, NumSingles

(* The groups of Shared, one by one.                                       *)
LEMMA SharedAre ==
  /\ DOMAIN Shared = 1 .. 5 /\ Shared[1] = "L1Directory" /\ Shared[2] = "L2Directory"
  /\ Shared[3] = "L2" /\ Shared[4] = "L3" /\ Shared[5] = "NoC"
  BY DEF Shared

(* The controllers, one by one.                                            *)
LEMMA SinglesAre ==
  /\ DOMAIN Singles = 1 .. 4 /\ Singles[1] = "mc" /\ Singles[2] = "niu"
  /\ Singles[3] = "pcie" /\ Singles[4] = "flashc"
  BY DEF Singles

(* Two sequences, one behind the other.                                    *)
LEMMA Joined ==
  ASSUME NEW S, NEW a \in Seq(S), NEW b \in Seq(S), NEW m, NEW n, Len(a) = m, Len(b) = n
  PROVE  /\ m \in Nat /\ n \in Nat
         /\ a \o b \in Seq(S) /\ Len(a \o b) = m + n
         /\ \A p \in 1 .. m : (a \o b)[p] = a[p]
         /\ \A p \in 1 .. n : (a \o b)[m + p] = b[p]
<1>1. m \in Nat /\ n \in Nat
  OBVIOUS
<1>2. a \o b \in Seq(S) /\ Len(a \o b) = m + n
  OBVIOUS
<1>3. \A p \in 1 .. m : (a \o b)[p] = a[p]
  OBVIOUS
<1>4. \A p \in 1 .. n : (a \o b)[m + p] = b[p]
  OBVIOUS
<1> QED BY <1>1, <1>2, <1>3, <1>4

(* The ten groups in the order of the walk.                                *)
LEMMA GroupsAre ==
  /\ DOMAIN Groups = 1 .. 10 /\ Len(Groups) = 10
  /\ Groups[1] = "core"
  /\ Groups[2] = "L1Directory" /\ Groups[3] = "L2Directory" /\ Groups[4] = "L2"
  /\ Groups[5] = "L3" /\ Groups[6] = "NoC"
  /\ Groups[7] = "mc" /\ Groups[8] = "niu" /\ Groups[9] = "pcie" /\ Groups[10] = "flashc"
<1> DEFINE c == <<"core">>
           one == 1
           r == Shared \o Singles
           g == c \o r
<1>1. c \in Seq(Names) /\ Len(c) = one /\ c[1] = "core"
  BY DEF Names
<1>2. NumShared = 5 /\ NumSingles = 4 /\ one = 1
  BY DEF NumShared, NumSingles
<1>3. NumShared \in Nat /\ NumSingles \in Nat /\ one \in Nat
  BY <1>2
<1> HIDE DEF c, one
<1>4. Groups = g
  BY <1>1, SharedSeq, SinglesSeq DEF Groups, c
<1>5. /\ r \in Seq(Names) /\ Len(r) = NumShared + NumSingles
      /\ \A k \in 1 .. NumShared : r[k] = Shared[k]
      /\ \A k \in 1 .. NumSingles : r[NumShared + k] = Singles[k]
  BY SharedSeq, SinglesSeq, Joined
<1> HIDE DEF r
<1>6. /\ g \in Seq(Names) /\ Len(g) = one + (NumShared + NumSingles)
      /\ \A k \in 1 .. one : g[k] = c[k]
      /\ \A k \in 1 .. NumShared + NumSingles : g[one + k] = r[k]
  BY <1>1, <1>5, Joined
<1> HIDE DEF g
<1>7. DOMAIN g = 1 .. one + (NumShared + NumSingles)
  BY <1>6
<1>8. g[1] = "core"
  BY <1>1, <1>2, <1>6
<1>9. \A k \in 1 .. 5 : g[1 + k] = Shared[k]
  BY <1>2, <1>5, <1>6
<1>10. \A k \in 1 .. 4 : g[1 + (5 + k)] = Singles[k]
  BY <1>2, <1>5, <1>6
<1>11. /\ g[1 + 1] = Shared[1] /\ g[1 + 2] = Shared[2] /\ g[1 + 3] = Shared[3]
       /\ g[1 + 4] = Shared[4] /\ g[1 + 5] = Shared[5]
       /\ g[1 + (5 + 1)] = Singles[1] /\ g[1 + (5 + 2)] = Singles[2]
       /\ g[1 + (5 + 3)] = Singles[3] /\ g[1 + (5 + 4)] = Singles[4]
  BY <1>9, <1>10
<1>12. DOMAIN g = 1 .. 10 /\ Len(g) = 10
  BY <1>2, <1>6, <1>7
<1> QED BY <1>4, <1>8, <1>11, <1>12, SharedAre, SinglesAre

-----------------------------------------------------------------------------
(* How many components of each group there should be, and where.           *)
LEMMA SizesTyped ==
  ASSUME file \in Files
  PROVE  /\ LastCore \in Nat /\ Size(1) = LastCore + 1
         /\ \A s \in 1 .. 10 : Size(s) \in Nat
         /\ \A s \in 2 .. 10 : Size(s) <= Entries
         /\ \A s \in 7 .. 10 : Size(s) = 1
<1>1. Entries \in Nat \ {0} /\ UIntMax \in Nat
  BY InputAssumption
<1>2. file.num \in [Counted -> 0 .. Entries] /\ file.homo \in [Counted -> BOOLEAN]
  BY FilesAssumption
<1>3. "core" \in Counted /\ \A k \in 1 .. 5 : Shared[k] \in Counted
  BY SharedAre DEF Counted
<1>4. LastCore \in Nat
  BY <1>1, <1>2, <1>3 DEF LastCore
<1>5. \A s \in 2 .. 6 : Groups[s] \in Counted
  <2>1. \A s \in 2 .. 6 : s \in {2, 3, 4, 5, 6}
    OBVIOUS
  <2> QED BY <1>3, <2>1, GroupsAre, SharedAre
<1>6. \A s \in 2 .. 6 : Size(s) \in 0 .. Entries
  <2> SUFFICES ASSUME NEW s \in 2 .. 6 PROVE Size(s) \in 0 .. Entries
    OBVIOUS
  <2>1. file.num[Groups[s]] \in 0 .. Entries
    BY <1>2, <1>5
  <2>2. Count(Groups[s]) \in 0 .. Entries
    BY <1>1, <2>1 DEF Count
  <2>3. s # 1 /\ s <= 6
    OBVIOUS
  <2> QED BY <2>2, <2>3 DEF Size
<1>7. \A s \in 7 .. 10 : Size(s) = 1
  BY DEF Size
<1>8. Size(1) = LastCore + 1
  BY DEF Size
<1>9. \A s \in 1 .. 10 : s = 1 \/ s \in 2 .. 6 \/ s \in 7 .. 10
  OBVIOUS
<1>10. \A s \in 2 .. 10 : s \in 2 .. 6 \/ s \in 7 .. 10
  OBVIOUS
<1>11. \A s \in 2 .. 6 : Size(s) \in Nat /\ Size(s) <= Entries
  BY <1>1, <1>6
<1>12. \A s \in 7 .. 10 : Size(s) \in Nat /\ Size(s) <= Entries
  BY <1>1, <1>7
<1> QED BY <1>4, <1>7, <1>8, <1>9, <1>10, <1>11, <1>12

(* The components ahead of a step are those of all steps before it.        *)
LEMMA AheadIs ==
  ASSUME file \in Files
  PROVE  /\ \A s \in 1 .. 11 : Ahead(s) \in Nat
         /\ Ahead(1) = 0
         /\ \A s \in 1 .. 10 : Ahead(s + 1) = Ahead(s) + Size(s)
         /\ \A s, t \in 1 .. 11 : s < t => Ahead(s) + Size(s) <= Ahead(t)
<1>1. /\ Size(1) \in Nat /\ Size(2) \in Nat /\ Size(3) \in Nat /\ Size(4) \in Nat
      /\ Size(5) \in Nat /\ Size(6) \in Nat /\ Size(7) \in Nat /\ Size(8) \in Nat
      /\ Size(9) \in Nat /\ Size(10) \in Nat
  BY SizesTyped
<1>2. \A s \in 1 .. 11 : Ahead(s) \in Nat
  BY <1>1 DEF Ahead, Taken
<1>3. Ahead(1) = 0
  BY <1>1 DEF Ahead, Taken
<1>4. \A s \in 1 .. 10 : Ahead(s + 1) = Ahead(s) + Size(s)
  <2> SUFFICES ASSUME NEW s \in 1 .. 10 PROVE Ahead(s + 1) = Ahead(s) + Size(s)
    OBVIOUS
  <2>1. \A t \in 1 .. 10 : t < s + 1 <=> (t < s \/ t = s)
    OBVIOUS
  <2>2. \A t \in 1 .. 10 : Taken(s + 1, t) = Taken(s, t) + (IF t = s THEN Size(s) ELSE 0)
    BY <2>1, SizesTyped DEF Taken
  <2>3. s \in {1, 2, 3, 4, 5, 6, 7, 8, 9, 10}
    OBVIOUS
  <2>4. \A t \in 1 .. 10 : Taken(s, t) \in Nat
    BY SizesTyped DEF Taken
  <2>5. /\ Taken(s, 1) \in Nat /\ Taken(s, 2) \in Nat /\ Taken(s, 3) \in Nat
        /\ Taken(s, 4) \in Nat /\ Taken(s, 5) \in Nat /\ Taken(s, 6) \in Nat
        /\ Taken(s, 7) \in Nat /\ Taken(s, 8) \in Nat /\ Taken(s, 9) \in Nat
        /\ Taken(s, 10) \in Nat
    BY <2>4
  <2>6. /\ Taken(s + 1, 1) = Taken(s, 1) + (IF 1 = s THEN Size(s) ELSE 0)
        /\ Taken(s + 1, 2) = Taken(s, 2) + (IF 2 = s THEN Size(s) ELSE 0)
        /\ Taken(s + 1, 3) = Taken(s, 3) + (IF 3 = s THEN Size(s) ELSE 0)
        /\ Taken(s + 1, 4) = Taken(s, 4) + (IF 4 = s THEN Size(s) ELSE 0)
        /\ Taken(s + 1, 5) = Taken(s, 5) + (IF 5 = s THEN Size(s) ELSE 0)
        /\ Taken(s + 1, 6) = Taken(s, 6) + (IF 6 = s THEN Size(s) ELSE 0)
        /\ Taken(s + 1, 7) = Taken(s, 7) + (IF 7 = s THEN Size(s) ELSE 0)
        /\ Taken(s + 1, 8) = Taken(s, 8) + (IF 8 = s THEN Size(s) ELSE 0)
        /\ Taken(s + 1, 9) = Taken(s, 9) + (IF 9 = s THEN Size(s) ELSE 0)
        /\ Taken(s + 1, 10) = Taken(s, 10) + (IF 10 = s THEN Size(s) ELSE 0)
    BY <2>2
  <2>7. Size(s) \in Nat
    BY SizesTyped
  <2> QED BY <2>3, <2>5, <2>6, <2>7 DEF Ahead
<1>5. \A s, t \in 1 .. 11 : s < t => Ahead(s) + Size(s) <= Ahead(t)
  <2> SUFFICES ASSUME NEW s \in 1 .. 11, NEW t \in 1 .. 11, s < t
               PROVE  Ahead(s + 1) <= Ahead(t) /\ Ahead(s) + Size(s) = Ahead(s + 1)
    BY <1>2, SizesTyped
  <2>1. s \in 1 .. 10 /\ s + 1 <= t
    OBVIOUS
  <2>2. \A k \in 1 .. 10 : Taken(s + 1, k) \in Nat /\ Taken(t, k) \in Nat
                          /\ Taken(s + 1, k) <= Taken(t, k)
    BY <2>1, SizesTyped DEF Taken
  <2>3. Ahead(s + 1) <= Ahead(t)
    BY <2>2 DEF Ahead
  <2> QED BY <1>4, <2>1, <2>3
<1> QED BY <1>2, <1>3, <1>4, <1>5

(* The first k groups of the layout.                                       *)
Laid(l, k) ==
  /\ l \in Seq(Names) /\ Len(l) = Ahead(k + 1)
  /\ \A s \in 1 .. k : \A p \in Nat :
       Ahead(s) < p /\ p <= Ahead(s + 1) => l[p] = Groups[s]

(* A group in the layout is its name so many times.                        *)
LEMMA RepeatIs ==
  ASSUME NEW g \in Names, NEW n \in Nat
  PROVE  /\ Repeat(g, n) \in Seq(Names) /\ Len(Repeat(g, n)) = n
         /\ \A k \in 1 .. n : Repeat(g, n)[k] = g
  BY DEF Repeat

(* Each group has a name.                                                  *)
LEMMA GroupsNamed == \A s \in 1 .. 10 : Groups[s] \in Names
<1>1. \A s \in 1 .. 10 : s \in {1, 2, 3, 4, 5, 6, 7, 8, 9, 10}
  OBVIOUS
<1> QED BY <1>1, GroupsAre DEF Names

(* A layout of k - 1 groups and the components of the next is one of k     *)
(* groups.                                                                 *)
LEMMA Lengthened ==
  ASSUME file \in Files, NEW k \in 2 .. 6, NEW l, Laid(l, k - 1)
  PROVE  Laid(l \o Repeat(Groups[k], Size(k)), k)
<1> DEFINE r == Repeat(Groups[k], Size(k))
           m == Ahead(k)
           n == Size(k)
           j == l \o r
<1>1. /\ m \in Nat /\ n \in Nat /\ Ahead(k + 1) = m + n
      /\ \A s \in 1 .. k - 1 : Ahead(s) \in Nat /\ Ahead(s + 1) \in Nat
      /\ \A s \in 1 .. k - 1 : Ahead(s + 1) <= m
  <2>1. k \in 1 .. 10 /\ k \in 1 .. 11
    OBVIOUS
  <2>2. m \in Nat /\ n \in Nat /\ Ahead(k + 1) = m + n
    BY <2>1, AheadIs, SizesTyped
  <2>3. ASSUME NEW s \in 1 .. k - 1
        PROVE  Ahead(s) \in Nat /\ Ahead(s + 1) \in Nat /\ Ahead(s + 1) <= m
    <3>1. s \in 1 .. 10 /\ s \in 1 .. 11 /\ s + 1 \in 1 .. 11 /\ s < k
      OBVIOUS
    <3>2. Ahead(s + 1) = Ahead(s) + Size(s) /\ Ahead(s) + Size(s) <= Ahead(k)
      BY <2>1, <3>1, AheadIs
    <3> QED BY <3>1, <3>2, AheadIs
  <2> QED BY <2>2, <2>3
<1>2. (k - 1) + 1 = k
  OBVIOUS
<1>3. /\ l \in Seq(Names) /\ Len(l) = m
      /\ \A s \in 1 .. k - 1 : \A p \in Nat :
           Ahead(s) < p /\ p <= Ahead(s + 1) => l[p] = Groups[s]
  BY <1>2 DEF Laid
<1>4. /\ r \in Seq(Names) /\ Len(r) = n /\ \A p \in 1 .. n : r[p] = Groups[k]
  <2>1. Groups[k] \in Names /\ Size(k) \in Nat
    BY <1>1, GroupsNamed
  <2> QED BY <2>1, RepeatIs
<1> HIDE DEF m, n, r
<1>5. /\ j \in Seq(Names) /\ Len(j) = m + n
      /\ \A p \in 1 .. m : j[p] = l[p]
      /\ \A p \in 1 .. n : j[m + p] = r[p]
  BY ONLY <1>3, <1>4, Joined DEF j
<1> HIDE DEF j
<1>6. ASSUME NEW s \in 1 .. k, NEW p \in Nat, Ahead(s) < p, p <= Ahead(s + 1)
      PROVE  j[p] = Groups[s]
  <2>1. CASE s = k
    <3>1. p - m \in 1 .. n /\ m + (p - m) = p
      BY <1>1, <1>6, <2>1 DEF m
    <3> QED BY <1>4, <1>5, <2>1, <3>1
  <2>2. CASE s # k
    <3>1. s \in 1 .. k - 1
      BY <2>2
    <3>2. p \in 1 .. m
      BY <1>1, <1>6, <3>1
    <3> QED BY <1>3, <1>5, <1>6, <3>1, <3>2
  <2> QED BY <2>1, <2>2
<1>7. Laid(j, k)
  BY <1>1, <1>5, <1>6 DEF Laid
<1> QED BY <1>7 DEF j, r

(* The layout is the components of the ten groups, each behind those ahead *)
(* of it.                                                                  *)
LEMMA LayoutIs ==
  ASSUME file \in Files
  PROVE  Laid(Layout, 10)
<1> DEFINE r(k) == Repeat(Groups[k], Size(k))
           l1 == Repeat(Groups[1], Size(1))
           l2 == l1 \o r(2)
           l3 == l2 \o r(3)
           l4 == l3 \o r(4)
           l5 == l4 \o r(5)
           l6 == l5 \o r(6)
           l7 == l6 \o Singles
<1>1. Laid(l1, 1)
  <2>1. Groups[1] \in Names /\ Size(1) \in Nat
    BY GroupsNamed, SizesTyped
  <2>2. /\ l1 \in Seq(Names) /\ Len(l1) = Size(1)
        /\ \A k \in 1 .. Size(1) : l1[k] = Groups[1]
    BY <2>1, RepeatIs
  <2>3. Ahead(1) = 0 /\ Ahead(1 + 1) = 0 + Size(1)
    BY AheadIs
  <2> HIDE DEF l1
  <2>4. Ahead(1 + 1) = Size(1)
    BY <2>1, <2>3
  <2>5. \A p \in Nat : Ahead(1) < p /\ p <= Ahead(1 + 1) => l1[p] = Groups[1]
    BY <2>1, <2>2, <2>3, <2>4
  <2>6. \A s \in 1 .. 1 : s = 1
    OBVIOUS
  <2> QED BY <2>2, <2>4, <2>5, <2>6 DEF Laid
<1>2. Laid(l2, 2)
  <2> HIDE DEF l1
  <2>1. 2 \in 2 .. 6 /\ 2 - 1 = 1
    OBVIOUS
  <2> QED BY <1>1, <2>1, Lengthened
<1>3. Laid(l3, 3)
  <2> HIDE DEF l2
  <2>1. 3 \in 2 .. 6 /\ 3 - 1 = 2
    OBVIOUS
  <2> QED BY <1>2, <2>1, Lengthened
<1>4. Laid(l4, 4)
  <2> HIDE DEF l3
  <2>1. 4 \in 2 .. 6 /\ 4 - 1 = 3
    OBVIOUS
  <2> QED BY <1>3, <2>1, Lengthened
<1>5. Laid(l5, 5)
  <2> HIDE DEF l4
  <2>1. 5 \in 2 .. 6 /\ 5 - 1 = 4
    OBVIOUS
  <2> QED BY <1>4, <2>1, Lengthened
<1>6. Laid(l6, 6)
  <2> HIDE DEF l5
  <2>1. 6 \in 2 .. 6 /\ 6 - 1 = 5
    OBVIOUS
  <2> QED BY <1>5, <2>1, Lengthened
<1>7. Layout = l7
  <2>1. /\ r(2) = Repeat("L1Directory", Count("L1Directory"))
        /\ r(3) = Repeat("L2Directory", Count("L2Directory"))
        /\ r(4) = Repeat("L2", Count("L2")) /\ r(5) = Repeat("L3", Count("L3"))
        /\ r(6) = Repeat("NoC", Count("NoC"))
        /\ l1 = Repeat("core", LastCore + 1)
    BY GroupsAre DEF Size
  <2> QED BY <2>1 DEF Layout
<1> DEFINE m == Ahead(7)
           n == NumSingles
<1>8. Ahead(6 + 1) = m
  OBVIOUS
<1>9. /\ l6 \in Seq(Names) /\ Len(l6) = m
      /\ \A s \in 1 .. 6 : \A p \in Nat :
           Ahead(s) < p /\ p <= Ahead(s + 1) => l6[p] = Groups[s]
  BY <1>6, <1>8 DEF Laid
<1>10. m \in Nat /\ n \in Nat
  BY AheadIs DEF NumSingles
<1>11. /\ Ahead(8) = m + 1 /\ Ahead(9) = m + 2 /\ Ahead(10) = m + 3 /\ Ahead(11) = m + 4
  <2>1. /\ Ahead(7 + 1) = Ahead(7) + Size(7) /\ Ahead(8 + 1) = Ahead(8) + Size(8)
        /\ Ahead(9 + 1) = Ahead(9) + Size(9) /\ Ahead(10 + 1) = Ahead(10) + Size(10)
    BY AheadIs
  <2>2. Size(7) = 1 /\ Size(8) = 1 /\ Size(9) = 1 /\ Size(10) = 1
    BY SizesTyped
  <2> QED BY <1>10, <2>1, <2>2
<1>12. m + n = Ahead(10 + 1) /\ n = 4
  BY <1>11 DEF NumSingles
<1> HIDE DEF m, n, l6
<1>13. /\ l7 \in Seq(Names) /\ Len(l7) = m + n
       /\ \A p \in 1 .. m : l7[p] = l6[p]
       /\ \A p \in 1 .. n : l7[m + p] = Singles[p]
  BY <1>9, SinglesSeq, Joined DEF n
<1> HIDE DEF l7
<1>14. ASSUME NEW s \in 1 .. 10, NEW p \in Nat, Ahead(s) < p, p <= Ahead(s + 1)
       PROVE  l7[p] = Groups[s]
  <2>1. Ahead(s) \in Nat /\ Ahead(s + 1) \in Nat
    BY AheadIs
  <2>2. CASE s \in 1 .. 6
    <3>1. Ahead(s + 1) <= m
      <4>1. s \in 1 .. 11 /\ 7 \in 1 .. 11 /\ s < 7
        BY <2>2
      <4> QED BY <4>1, AheadIs DEF m
    <3>2. p \in 1 .. m
      BY <1>10, <1>14, <2>1, <3>1
    <3> QED BY <1>9, <1>13, <1>14, <2>2, <3>2
  <2>3. CASE s \in 7 .. 10
    <3>1. /\ s = 7 => Ahead(s) = m /\ Ahead(s + 1) = m + 1
          /\ s = 8 => Ahead(s) = m + 1 /\ Ahead(s + 1) = m + 2
          /\ s = 9 => Ahead(s) = m + 2 /\ Ahead(s + 1) = m + 3
          /\ s = 10 => Ahead(s) = m + 3 /\ Ahead(s + 1) = m + 4
      BY <1>11 DEF m
    <3>2. s \in {7, 8, 9, 10}
      BY <2>3
    <3>3. /\ s = 7 => p = m + 1
          /\ s = 8 => p = m + 2
          /\ s = 9 => p = m + 3
          /\ s = 10 => p = m + 4
      BY <1>10, <1>14, <3>1
    <3>4. /\ l7[m + 1] = Singles[1] /\ l7[m + 2] = Singles[2]
          /\ l7[m + 3] = Singles[3] /\ l7[m + 4] = Singles[4]
      BY <1>12, <1>13
    <3> QED BY <3>2, <3>3, <3>4, GroupsAre, SinglesAre
  <2>4. s \in 1 .. 6 \/ s \in 7 .. 10
    OBVIOUS
  <2> QED BY <2>2, <2>3, <2>4
<1>15. Laid(l7, 10)
  BY <1>12, <1>13, <1>14 DEF Laid
<1> QED BY <1>7, <1>15

(* A group has one place in Groups, and only its components that of the    *)
(* group in the layout.                                                    *)
LEMMA GroupsDiffer ==
  ASSUME NEW s \in 1 .. 10, NEW t \in 1 .. 10, Groups[s] = Groups[t]
  PROVE  s = t
<1>1. s \in {1, 2, 3, 4, 5, 6, 7, 8, 9, 10} /\ t \in {1, 2, 3, 4, 5, 6, 7, 8, 9, 10}
  OBVIOUS
<1> QED BY <1>1, GroupsAre

(* The names of the groups are those of Groups.                            *)
LEMMA GroupNamesAre == GroupNames = Names /\ \A s \in 1 .. 10 : Groups[s] \in GroupNames
<1>1. GroupNames = {Groups[k] : k \in 1 .. 10}
  BY GroupsAre DEF GroupNames
<1>2. \A g \in Names : \E k \in 1 .. 10 : g = Groups[k]
  <2>1. /\ 1 \in 1 .. 10 /\ 2 \in 1 .. 10 /\ 3 \in 1 .. 10 /\ 4 \in 1 .. 10 /\ 5 \in 1 .. 10
        /\ 6 \in 1 .. 10 /\ 7 \in 1 .. 10 /\ 8 \in 1 .. 10 /\ 9 \in 1 .. 10 /\ 10 \in 1 .. 10
    OBVIOUS
  <2> QED BY <2>1, GroupsAre DEF Names
<1> QED BY <1>1, <1>2, GroupsNamed

(* Every place of the layout is in one of the groups.                      *)
LEMMA Covered ==
  ASSUME file \in Files, NEW p \in 1 .. Ahead(11)
  PROVE  \E s \in 1 .. 10 : Ahead(s) < p /\ p <= Ahead(s + 1)
<1>1. \A s \in 1 .. 11 : Ahead(s) \in Nat
  BY AheadIs
<1>2. Ahead(1) = 0
  BY AheadIs
<1>3. \/ Ahead(1) < p /\ p <= Ahead(2)
      \/ Ahead(2) < p /\ p <= Ahead(3)
      \/ Ahead(3) < p /\ p <= Ahead(4)
      \/ Ahead(4) < p /\ p <= Ahead(5)
      \/ Ahead(5) < p /\ p <= Ahead(6)
      \/ Ahead(6) < p /\ p <= Ahead(7)
      \/ Ahead(7) < p /\ p <= Ahead(8)
      \/ Ahead(8) < p /\ p <= Ahead(9)
      \/ Ahead(9) < p /\ p <= Ahead(10)
      \/ Ahead(10) < p /\ p <= Ahead(11)
  <2>1. /\ Ahead(1) \in Nat /\ Ahead(2) \in Nat /\ Ahead(3) \in Nat /\ Ahead(4) \in Nat
        /\ Ahead(5) \in Nat /\ Ahead(6) \in Nat /\ Ahead(7) \in Nat /\ Ahead(8) \in Nat
        /\ Ahead(9) \in Nat /\ Ahead(10) \in Nat /\ Ahead(11) \in Nat /\ p \in Nat
        /\ 0 < p /\ p <= Ahead(11)
    BY <1>1
  <2> QED BY <2>1, <1>2
<1>4. /\ 1 + 1 = 2 /\ 2 + 1 = 3 /\ 3 + 1 = 4 /\ 4 + 1 = 5 /\ 5 + 1 = 6 /\ 6 + 1 = 7
      /\ 7 + 1 = 8 /\ 8 + 1 = 9 /\ 9 + 1 = 10 /\ 10 + 1 = 11
  OBVIOUS
<1>5. /\ 1 \in 1 .. 10 /\ 2 \in 1 .. 10 /\ 3 \in 1 .. 10 /\ 4 \in 1 .. 10 /\ 5 \in 1 .. 10
      /\ 6 \in 1 .. 10 /\ 7 \in 1 .. 10 /\ 8 \in 1 .. 10 /\ 9 \in 1 .. 10 /\ 10 \in 1 .. 10
  OBVIOUS
<1> QED BY <1>3, <1>4, <1>5

(* A place of the layout holds a group exactly if it is behind those ahead *)
(* of the group and not behind the group; a lonely core is the one         *)
(* component ahead of the controllers.                                     *)
LEMMA LayoutFacts ==
  ASSUME file \in Files
  PROVE  /\ DOMAIN Layout = 1 .. Ahead(11) /\ Len(Layout) = Ahead(11)
         /\ Ahead(11) = Ahead(7) + 4
         /\ Lonely <=> Ahead(7) = 1
         /\ \A s \in 1 .. 10, p \in Nat :
              Ahead(s) < p /\ p <= Ahead(s + 1) => p \in DOMAIN Layout /\ Layout[p] = Groups[s]
         /\ \A s \in 1 .. 10, p \in DOMAIN Layout :
              Layout[p] = Groups[s] => Ahead(s) < p /\ p <= Ahead(s + 1)
<1>1. /\ Layout \in Seq(Names) /\ Len(Layout) = Ahead(10 + 1)
      /\ \A s \in 1 .. 10 : \A p \in Nat :
           Ahead(s) < p /\ p <= Ahead(s + 1) => Layout[p] = Groups[s]
  BY LayoutIs DEF Laid
<1>2. 10 + 1 = 11
  OBVIOUS
<1>3. DOMAIN Layout = 1 .. Ahead(11) /\ Len(Layout) = Ahead(11)
  BY <1>1, <1>2
<1>4. \A s \in 1 .. 11 : Ahead(s) \in Nat
  BY AheadIs
<1>5. Ahead(11) = Ahead(7) + 4
  <2>1. /\ Ahead(7 + 1) = Ahead(7) + Size(7) /\ Ahead(8 + 1) = Ahead(8) + Size(8)
        /\ Ahead(9 + 1) = Ahead(9) + Size(9) /\ Ahead(10 + 1) = Ahead(10) + Size(10)
    BY AheadIs
  <2>2. Size(7) = 1 /\ Size(8) = 1 /\ Size(9) = 1 /\ Size(10) = 1
    BY SizesTyped
  <2>3. Ahead(7) \in Nat
    BY <1>4
  <2> QED BY <2>1, <2>2, <2>3
<1>6. Lonely <=> Ahead(7) = 1
  <2>1. Len(Singles) = 4
    BY SinglesSeq DEF NumSingles
  <2> HIDE DEF Layout
  <2>2. Lonely <=> Ahead(11) = 1 + 4
    BY <1>3, <2>1 DEF Lonely
  <2>3. Ahead(7) \in Nat
    BY <1>4
  <2> QED BY <1>5, <2>2, <2>3
<1>7. ASSUME NEW s \in 1 .. 10, NEW p \in Nat, Ahead(s) < p, p <= Ahead(s + 1)
      PROVE  p \in DOMAIN Layout /\ Layout[p] = Groups[s]
  <2>1. Ahead(s + 1) <= Ahead(11)
    <3>1. s \in 1 .. 11 /\ s < 11 /\ 11 \in 1 .. 11
      OBVIOUS
    <3>2. Ahead(s) + Size(s) <= Ahead(11) /\ Ahead(s + 1) = Ahead(s) + Size(s)
      BY <3>1, AheadIs
    <3> QED BY <3>2
  <2>2. Ahead(s) \in Nat /\ Ahead(s + 1) \in Nat /\ Ahead(11) \in Nat
    <3>1. s \in 1 .. 11 /\ s + 1 \in 1 .. 11 /\ 11 \in 1 .. 11
      OBVIOUS
    <3> QED BY <1>4, <3>1
  <2>3. p \in 1 .. Ahead(11)
    BY <1>7, <2>1, <2>2
  <2> QED BY <1>1, <1>3, <1>7, <2>3
<1>8. ASSUME NEW s \in 1 .. 10, NEW p \in DOMAIN Layout, Layout[p] = Groups[s]
      PROVE  Ahead(s) < p /\ p <= Ahead(s + 1)
  <2>1. p \in 1 .. Ahead(11)
    BY <1>3
  <2>2. PICK t \in 1 .. 10 : Ahead(t) < p /\ p <= Ahead(t + 1)
    BY <2>1, Covered
  <2>3. p \in Nat
    BY <2>1
  <2>4. Layout[p] = Groups[t]
    BY <1>1, <2>2, <2>3
  <2>5. s = t
    BY <1>8, <2>4, GroupsDiffer
  <2> QED BY <2>2, <2>5
<1> QED BY <1>3, <1>5, <1>6, <1>7, <1>8

(* The group being read.                                                   *)
LEMMA GroupIs ==
  ASSUME step \in 1 .. 11
  PROVE  /\ step \in 1 .. 10 => Group = Groups[step]
         /\ Group = "core" <=> step = 1
         /\ Group \in {Shared[k] : k \in DOMAIN Shared} <=> step \in 2 .. 6
         /\ Group \in {Singles[k] : k \in DOMAIN Singles} <=> step \in 7 .. 10
         /\ Group = "NoC" <=> step = 6
<1>1. {Shared[k] : k \in DOMAIN Shared} = {"L1Directory", "L2Directory", "L2", "L3", "NoC"}
  <2>1. \A k \in 1 .. 5 : k \in {1, 2, 3, 4, 5}
    OBVIOUS
  <2>2. 1 \in 1 .. 5 /\ 2 \in 1 .. 5 /\ 3 \in 1 .. 5 /\ 4 \in 1 .. 5 /\ 5 \in 1 .. 5
    OBVIOUS
  <2> QED BY <2>1, <2>2, SharedAre
<1>2. {Singles[k] : k \in DOMAIN Singles} = {"mc", "niu", "pcie", "flashc"}
  <2>1. \A k \in 1 .. 4 : k \in {1, 2, 3, 4}
    OBVIOUS
  <2>2. 1 \in 1 .. 4 /\ 2 \in 1 .. 4 /\ 3 \in 1 .. 4 /\ 4 \in 1 .. 4
    OBVIOUS
  <2> QED BY <2>1, <2>2, SinglesAre
<1>3. step \in {1, 2, 3, 4, 5, 6, 7, 8, 9, 10, 11}
  OBVIOUS
<1>4. Group = IF step \in 1 .. 10 THEN Groups[step] ELSE "none"
  BY GroupsAre DEF Group
<1> QED BY <1>1, <1>2, <1>3, <1>4, GroupsAre

(* A node that is there has a name, an empty node none.                    *)
LEMMA ChildIs ==
  ASSUME file \in Files, NEW k \in Nat
  PROVE  /\ Len(file.comps) \in Nat /\ Len(file.comps) <= UIntMax
         /\ file.comps = <<>> <=> Len(file.comps) = 0
         /\ k < Len(file.comps) => Child(k) = file.comps[k + 1] /\ Child(k) # ""
         /\ ~ (k < Len(file.comps)) => Child(k) = ""
<1> DEFINE S == STRING \ {""}
           c == file.comps
<1>1. c \in Seq(S) /\ Len(c) <= UIntMax
  BY FilesAssumption
<1>2. \A n \in S : n # ""
  OBVIOUS
<1> HIDE DEF S, c
<1>3. Len(c) \in Nat /\ (c = <<>> <=> Len(c) = 0)
  BY <1>1
<1>4. k < Len(c) => k + 1 \in 1 .. Len(c)
  BY <1>3
<1>5. \A j \in 1 .. Len(c) : c[j] \in S
  BY <1>1
<1>6. k < Len(c) => c[k + 1] # ""
  BY <1>5, <1>2, <1>4
<1>7. /\ k < Len(file.comps) => Child(k) = file.comps[k + 1]
      /\ ~ (k < Len(file.comps)) => Child(k) = ""
  BY DEF Child
<1> QED BY <1>1, <1>3, <1>6, <1>7 DEF c

(* What parse() compares at a place of the file tells whether the          *)
(* component there is the one the layout has.                              *)
LEMMA FoundIs ==
  ASSUME file \in Files, NEW s \in 1 .. 10, NEW p \in Nat,
         Ahead(s) < p, p <= Ahead(s + 1)
  PROVE  /\ p \in DOMAIN Layout /\ Layout[p] = Groups[s]
         /\ p - 1 \in Nat
         /\ Found(p) <=> Matches(Groups[s], Child(p - 1))
<1>1. p \in DOMAIN Layout /\ Layout[p] = Groups[s]
  BY LayoutFacts
<1>2. p - 1 \in Nat /\ (p - 1) + 1 = p /\ (p - 1 < Len(file.comps) <=> p <= Len(file.comps))
  <2>1. Ahead(s) \in Nat
    BY AheadIs
  <2>2. Len(file.comps) \in Nat
    BY ChildIs
  <2> QED BY <2>1, <2>2
<1>3. p <= Len(file.comps) => Child(p - 1) = file.comps[p]
  BY <1>2, ChildIs
<1>4. ~ (p <= Len(file.comps)) => Child(p - 1) = ""
  BY <1>2, ChildIs
<1>5. ~ Matches(Groups[s], "")
  <2>1. Groups[s] # ""
    BY GroupsNamed DEF Names
  <2> QED BY <2>1 DEF Matches
<1> QED BY <1>1, <1>2, <1>3, <1>4, <1>5 DEF Found

-----------------------------------------------------------------------------
(* The layout is that of the file.                                         *)
LEMMA SameFile ==
  ASSUME file' = file
  PROVE  /\ LastCore' = LastCore /\ Layout' = Layout
         /\ \A s \in 1 .. 10 : Size(s)' = Size(s)
         /\ \A s \in 1 .. 11 : Ahead(s)' = Ahead(s)
         /\ \A p \in Nat : Found(p)' = Found(p)
         /\ Passed' = Passed /\ Fits' = Fits /\ Lonely' = Lonely
<1>1. LastCore' = LastCore
  BY DEF LastCore
<1>2. \A g : Count(g)' = Count(g)
  BY DEF Count
<1>3. \A s \in 1 .. 10 : Size(s)' = Size(s)
  BY <1>1, <1>2 DEF Size
<1>4. \A s \in 1 .. 11 : \A t \in 1 .. 10 : Taken(s, t)' = Taken(s, t)
  BY <1>3 DEF Taken
<1>5. \A s \in 1 .. 11 : Ahead(s)' = Ahead(s)
  BY <1>4 DEF Ahead
<1>6. Layout' = Layout
  <2>1. LastCore' + 1 = LastCore + 1
    BY <1>1
  <2>2. \A g : \A n : Repeat(g, n)' = Repeat(g, n)
    BY DEF Repeat
  <2> QED BY <1>2, <2>1, <2>2 DEF Layout
<1>7. \A p \in Nat : Found(p)' = Found(p)
  BY <1>6 DEF Found, Matches
<1>8. Passed' = Passed /\ Fits' = Fits /\ Lonely' = Lonely
  BY <1>6 DEF Passed, Fits, Lonely, Matches
<1> QED BY <1>1, <1>3, <1>5, <1>6, <1>7, <1>8

(* What has been checked and filled stays so when nothing is read.         *)
LEMMA Kept ==
  ASSUME file \in Files, file' = file, filled' = filled, Accepted' = Accepted,
         EntriesTyped, Checked, Placed
  PROVE  EntriesTyped' /\ Checked' /\ Placed'
<1>1. EntriesTyped'
  BY DEF EntriesTyped
<1>2. Checked'
  <2>1. \A p \in 1 .. Accepted : p \in Nat
    OBVIOUS
  <2> QED BY <2>1, SameFile DEF Checked
<1>3. Placed'
  <2> SUFFICES ASSUME NEW s \in 1 .. 10, NEW k \in 0 .. Entries - 1, NEW p \in Nat,
                      p = Ahead(s)' + k + 1
               PROVE  \/ /\ filled'[Groups[s]][k] = p /\ p <= Ahead(s + 1)'
                         /\ Found(p)'
                      \/ /\ filled'[Groups[s]][k] = 0
                         /\ \/ p > Ahead(s + 1)' \/ p > Accepted'
                            \/ s = 6 /\ Passed'
    BY DEF Placed, Steps
  <2>1. s \in 1 .. 11 /\ s + 1 \in 1 .. 11
    OBVIOUS
  <2>2. Ahead(s)' = Ahead(s) /\ Ahead(s + 1)' = Ahead(s + 1)
    BY <2>1, SameFile
  <2>3. Found(p)' = Found(p) /\ Passed' = Passed
    BY SameFile
  <2>4. \/ filled[Groups[s]][k] = p /\ p <= Ahead(s + 1) /\ Found(p)
        \/ /\ filled[Groups[s]][k] = 0
           /\ p > Ahead(s + 1) \/ p > Accepted \/ (s = 6 /\ Passed)
    BY <2>2 DEF Placed, Steps
  <2> QED BY <2>2, <2>3, <2>4
<1> QED BY <1>1, <1>2, <1>3

(* One more component is gone through: the next one of the layout.         *)
LEMMA NextInLayout ==
  ASSUME file \in Files, step \in 1 .. 10, i \in Nat, i < Size(step)
  PROVE  /\ Accepted \in Nat /\ Accepted + 1 = Ahead(step) + i + 1
         /\ Ahead(step) < Accepted + 1 /\ Accepted + 1 <= Ahead(step + 1)
         /\ \A s \in 1 .. 10, k \in Nat :
              Ahead(s) + k + 1 = Accepted + 1 /\ Accepted + 1 <= Ahead(s + 1)
                => s = step /\ k = i
<1>1. /\ Ahead(step) \in Nat /\ Size(step) \in Nat
      /\ Ahead(step + 1) = Ahead(step) + Size(step)
  BY AheadIs, SizesTyped
<1>2. /\ Accepted \in Nat /\ Accepted + 1 = Ahead(step) + i + 1
      /\ Ahead(step) < Accepted + 1 /\ Accepted + 1 <= Ahead(step + 1)
  BY <1>1 DEF Accepted
<1>3. ASSUME NEW s \in 1 .. 10, NEW k \in Nat,
             Ahead(s) + k + 1 = Accepted + 1, Accepted + 1 <= Ahead(s + 1)
      PROVE  s = step /\ k = i
  <2>1. /\ Ahead(s) \in Nat /\ Size(s) \in Nat /\ Ahead(s + 1) = Ahead(s) + Size(s)
    BY AheadIs, SizesTyped
  <2>2. s < step => Ahead(s) + Size(s) <= Ahead(step)
    BY AheadIs
  <2>3. step < s => Ahead(step) + Size(step) <= Ahead(s)
    BY AheadIs
  <2>4. s = step
    BY <1>1, <1>2, <1>3, <2>1, <2>2, <2>3
  <2> QED BY <1>1, <1>2, <1>3, <2>4
<1> QED BY <1>2, <1>3

LEMMA Advanced ==
  ASSUME file \in Files, file' = file, step \in 1 .. 10, i \in Nat, i < Size(step),
         Accepted' = Accepted + 1, EntriesTyped, Checked, Placed,
         \/ /\ Found(Accepted + 1)
            /\ filled' = [filled EXCEPT ![Groups[step]][i] = Accepted + 1]
         \/ filled' = filled /\ step = 6 /\ Passed
  PROVE  EntriesTyped' /\ Checked' /\ Placed'
<1> DEFINE n == Accepted + 1
<1>1. /\ Accepted \in Nat /\ n \in Nat /\ Ahead(step) < n /\ n <= Ahead(step + 1)
      /\ n = Ahead(step) + i + 1
  BY NextInLayout
<1>2. Groups[step] \in GroupNames
  BY GroupNamesAre
<1>3. EntriesTyped'
  <2> DEFINE E == [0 .. Entries - 1 -> Nat]
             e == [filled[Groups[step]] EXCEPT ![i] = n]
  <2>1. filled[Groups[step]] \in E
    BY <1>2 DEF EntriesTyped
  <2>2. e \in E
    BY <1>1, <2>1
  <2>3. filled \in [GroupNames -> E]
    BY DEF EntriesTyped
  <2>4. filled' = [filled EXCEPT ![Groups[step]] = e] \/ filled' = filled
    OBVIOUS
  <2> HIDE DEF E, e
  <2>5. filled' \in [GroupNames -> E]
    BY <1>2, <2>2, <2>3, <2>4
  <2> QED BY <2>5 DEF EntriesTyped, E
<1>4. Layout[n] = "NoC" \/ Found(n)
  <2>1. Layout[n] = Groups[step]
    BY <1>1, LayoutFacts
  <2> QED BY <2>1, GroupsAre
<1>5. Checked'
  <2> SUFFICES ASSUME NEW p \in 1 .. Accepted'
               PROVE  Layout'[p] = "NoC" \/ Found(p)'
    BY DEF Checked
  <2>1. p \in 1 .. n /\ p \in Nat
    OBVIOUS
  <2>2. Layout[p] = "NoC" \/ Found(p)
    BY <1>1, <1>4, <2>1 DEF Checked
  <2> QED BY <2>1, <2>2, SameFile
<1>6. Placed'
  <2> SUFFICES ASSUME NEW s \in 1 .. 10, NEW k \in 0 .. Entries - 1, NEW p \in Nat,
                      p = Ahead(s)' + k + 1
               PROVE  \/ /\ filled'[Groups[s]][k] = p /\ p <= Ahead(s + 1)'
                         /\ Found(p)'
                      \/ /\ filled'[Groups[s]][k] = 0
                         /\ \/ p > Ahead(s + 1)' \/ p > Accepted'
                            \/ s = 6 /\ Passed'
    BY DEF Placed, Steps
  <2>1. s \in 1 .. 11 /\ s + 1 \in 1 .. 11 /\ k \in Nat
    OBVIOUS
  <2>2. Ahead(s)' = Ahead(s) /\ Ahead(s + 1)' = Ahead(s + 1)
    BY <2>1, SameFile
  <2>3. Found(p)' = Found(p) /\ Passed' = Passed
    BY SameFile
  <2>4. \/ filled[Groups[s]][k] = p /\ p <= Ahead(s + 1) /\ Found(p)
        \/ /\ filled[Groups[s]][k] = 0
           /\ p > Ahead(s + 1) \/ p > Accepted \/ (s = 6 /\ Passed)
    BY <2>2 DEF Placed, Steps
  <2>5. Groups[s] = Groups[step] => s = step
    BY GroupsDiffer
  <2>6. Groups[s] \in GroupNames
    BY GroupNamesAre
  <2>7. CASE s = step /\ k = i
    <3>1. p = n
      BY <1>1, <2>2, <2>7
    <3>2. CASE Found(n) /\ filled' = [filled EXCEPT ![Groups[step]][i] = n]
      <4>1. filled'[Groups[s]][k] = n
        BY <2>6, <2>7, <3>2 DEF EntriesTyped
      <4> QED BY <1>1, <2>2, <2>3, <2>7, <3>1, <3>2, <4>1
    <3>3. CASE filled' = filled /\ step = 6 /\ Passed
      BY <2>2, <2>3, <2>4, <2>7, <3>3
    <3> QED BY <3>2, <3>3
  <2>8. CASE ~ (s = step /\ k = i)
    <3>1. filled'[Groups[s]][k] = filled[Groups[s]][k]
      <4>1. CASE filled' = [filled EXCEPT ![Groups[step]][i] = n]
        BY <1>1, <1>2, <2>5, <2>6, <2>8, <4>1 DEF EntriesTyped
      <4> QED BY <4>1
    <3>2. p = n => ~ (p <= Ahead(s + 1))
      BY <2>1, <2>2, <2>8, NextInLayout
    <3>3. /\ Ahead(s + 1) \in Nat
          /\ p > Accepted => p > Accepted + 1 \/ p = n
      BY <1>1, <2>1, AheadIs
    <3>4. p = n => p > Ahead(s + 1)
      BY <3>2, <3>3
    <3> QED BY <2>2, <2>3, <2>4, <3>1, <3>3, <3>4
  <2> QED BY <2>7, <2>8
<1> QED BY <1>3, <1>5, <1>6

(* The counters after a step, for the file it has not changed.             *)
LEMMA CountersAre ==
  ASSUME file' = file,
         step' \in 1 .. 11 /\ order' \in Nat /\ w' \in Nat /\ i' \in Nat,
         file.comps = <<>> => step' = 1 /\ i' = 0,
         step' = 1 => order' = 0 /\ w' = 0 /\ i' <= Size(1) /\ i' <= Len(file.comps),
         step' > 1 => order' + 1 = Ahead(step') /\ LastCore < Entries,
         step' \in 2 .. 6 => i' <= Size(step'),
         step' \in 2 .. 6 =>
           \/ w' = Ahead(step') + i'
           \/ /\ step' = 6 /\ Ahead(6) <= w' /\ w' < Ahead(6) + i'
              /\ w' < Len(file.comps) /\ file.comps[w' + 1] # "NoC",
         step' > 6 => w' = Ahead(7) /\ i' = 0,
         step' > 7 => Ahead(7) > 1
  PROVE  Counters'
<1>1. /\ Size(step)' = Size(step') \/ step' = 11
      /\ Ahead(step)' = Ahead(step')
      /\ Size(1)' = Size(1) /\ Ahead(6)' = Ahead(6) /\ Ahead(7)' = Ahead(7)
      /\ LastCore' = LastCore
  <2>1. \A s \in 1 .. 10 : Size(s)' = Size(s)
    BY SameFile
  <2>2. \A s \in 1 .. 11 : Ahead(s)' = Ahead(s)
    BY SameFile
  <2>3. step' = 11 \/ step' \in 1 .. 10
    OBVIOUS
  <2> QED BY <2>1, <2>2, <2>3, SameFile
<1>2. step' \in 2 .. 6 =>
        i' <= Size(step)' /\ (w' = Ahead(step)' + i' \/ Stuck')
  BY <1>1 DEF Stuck
<1> QED BY <1>1, <1>2 DEF Counters

-----------------------------------------------------------------------------
(* One lemma for each action.                                              *)
LEMMA MisfitStep ==
  ASSUME file' = file, verdict' = "misfit", file.comps # <<>>, ~ Fits \/ Lonely
  PROVE  Walk'
<1>1. Fits' = Fits /\ Lonely' = Lonely
  BY SameFile
<1> QED BY <1>1 DEF Walk, Reading

(* A component of another name where no network should be: the file does   *)
(* not fit.                                                                *)
LEMMA Unfit ==
  ASSUME file \in Files, step \in 1 .. 10, step # 6, i \in Nat, i < Size(step),
         ~ Matches(Groups[step], Child(Ahead(step) + i))
  PROVE  ~ Fits
<1> DEFINE p == Accepted + 1
<1>1. /\ p \in Nat /\ p = Ahead(step) + i + 1 /\ Ahead(step) < p /\ p <= Ahead(step + 1)
  BY NextInLayout
<1>2. Ahead(step) \in Nat
  BY AheadIs
<1>3. p - 1 = Ahead(step) + i
  BY <1>1, <1>2
<1> HIDE DEF p
<1>4. p \in DOMAIN Layout /\ Layout[p] = Groups[step] /\ ~ Found(p)
  BY <1>1, <1>3, FoundIs
<1>5. Groups[step] # "NoC"
  <2>1. 6 \in 1 .. 10 /\ Groups[6] = "NoC"
    BY GroupsAre
  <2> QED BY <2>1, GroupsDiffer
<1> QED BY <1>4, <1>5 DEF Fits, Found

LEMMA NoComponentsStep == IInv /\ NoComponents => Walk'
<1> SUFFICES ASSUME IInv, NoComponents PROVE Walk'
  OBVIOUS
<1>1. /\ file \in Files /\ Counters /\ EntriesTyped /\ Checked /\ Placed
      /\ file.comps = <<>> /\ verdict' = "done"
      /\ UNCHANGED <<file, step, order, w, i, filled>>
  BY DEF IInv, Walk, Reading, NoComponents
<1>2. Accepted' = Accepted
  BY <1>1, SameFile DEF Accepted, Counters
<1>3. EntriesTyped' /\ Checked' /\ Placed'
  BY <1>1, <1>2, Kept
<1>4. Counters'
  BY <1>1, CountersAre DEF Counters, Stuck
<1> QED BY <1>1, <1>3, <1>4 DEF Walk, Reading

LEMMA EndParseStep == IInv /\ EndParse => Walk'
<1> SUFFICES ASSUME IInv, EndParse PROVE Walk'
  OBVIOUS
<1>1. /\ file \in Files /\ Counters /\ EntriesTyped /\ Checked /\ Placed
      /\ step > Len(Groups) /\ verdict' = "done"
      /\ UNCHANGED <<file, step, order, w, i, filled>>
  BY DEF IInv, Walk, Reading, EndParse
<1>2. Accepted' = Accepted
  BY <1>1, SameFile DEF Accepted, Counters
<1>3. EntriesTyped' /\ Checked' /\ Placed'
  BY <1>1, <1>2, Kept
<1>4. Counters'
  BY <1>1, CountersAre DEF Counters, Stuck
<1>5. step' = 11
  BY <1>1, GroupsAre DEF Counters
<1> QED BY <1>1, <1>3, <1>4, <1>5 DEF Walk, Reading

LEMMA ReadCoreStep == IInv /\ ReadCore => Walk'
<1> SUFFICES ASSUME IInv, ReadCore PROVE Walk'
  OBVIOUS
<1>1. /\ file \in Files /\ Counters /\ EntriesTyped /\ Checked /\ Placed
      /\ verdict = "parsing" /\ Group = "core" /\ file.comps # <<>> /\ i <= LastCore
  BY DEF IInv, Walk, Reading, ReadCore
<1>2. step = 1 /\ i \in Nat /\ order = 0 /\ w = 0
  BY <1>1, GroupIs DEF Counters
<1>3. /\ i < Size(1) /\ Groups[step] = "core" /\ Ahead(step) + i = i
      /\ step \in 1 .. 10 /\ i < Size(step) /\ Size(1) \in Nat
  <2>1. LastCore \in Nat /\ Size(1) = LastCore + 1 /\ Ahead(1) = 0
    BY <1>1, SizesTyped, AheadIs
  <2> QED BY <1>1, <1>2, <2>1, GroupsAre
<1>4. CASE ~ Matches("core", Child(i)) /\ Exit("misfit")
  <2>1. ~ Fits
    BY <1>1, <1>2, <1>3, <1>4, Unfit
  <2> QED BY <1>1, <1>4, <2>1, MisfitStep DEF Exit
<1>5. CASE /\ Matches("core", Child(i)) /\ Fill("core", i, i) /\ i' = i + 1
           /\ UNCHANGED <<file, step, order, w, verdict>>
  <2>1. Accepted = i /\ Accepted' = Accepted + 1
    BY <1>2, <1>3, <1>5, AheadIs, SameFile, <1>1 DEF Accepted
  <2>2. Found(Accepted + 1)
    <3>1. /\ i + 1 \in Nat /\ Ahead(step) < i + 1 /\ i + 1 <= Ahead(step + 1)
          /\ (i + 1) - 1 = i
      BY <1>1, <1>2, <1>3, <2>1, NextInLayout
    <3> QED BY <1>1, <1>3, <1>5, <2>1, <3>1, FoundIs
  <2>3. EntriesTyped' /\ Checked' /\ Placed'
    BY <1>1, <1>2, <1>3, <1>5, <2>1, <2>2, Advanced DEF Fill
  <2>4. i + 1 <= Len(file.comps)
    BY <2>1, <2>2 DEF Found
  <2>5. i + 1 <= Size(1)
    BY <1>2, <1>3
  <2>6. Counters'
    BY <1>1, <1>2, <1>5, <2>4, <2>5, CountersAre
  <2> QED BY <1>1, <1>5, <2>3, <2>6 DEF Walk, Reading
<1> QED BY <1>4, <1>5 DEF ReadCore

(* A group read to its end is behind the walk, and the next one begins.    *)
LEMMA EndGroupStep ==
  ASSUME IInv, verdict = "parsing", step \in 1 .. 6, i = Size(step), file.comps # <<>>,
         step > 1 \/ i <= Len(file.comps), NEW last, EndGroup(last),
         last + 1 = Ahead(step) + Size(step), last \in Nat
  PROVE  Walk'
<1>1. /\ file \in Files /\ Counters /\ EntriesTyped /\ Checked /\ Placed
  BY DEF IInv, Walk, Reading
<1>2. /\ file' = file /\ filled' = filled /\ verdict' = verdict /\ step' = step + 1
      /\ order' = last /\ w' = last + 1 /\ i' = 0
  BY DEF EndGroup
<1>3. /\ Ahead(step + 1) = Ahead(step) + Size(step) /\ Ahead(step) \in Nat
      /\ Size(step) \in Nat
  <2>1. step \in 1 .. 10 /\ step \in 1 .. 11
    OBVIOUS
  <2> QED BY <1>1, <2>1, AheadIs, SizesTyped
<1>4. /\ Accepted = Ahead(step) + Size(step) /\ Accepted' = Accepted
  <2>1. Accepted' = Ahead(step)' + 0
    BY <1>2 DEF Accepted
  <2>2. Ahead(step)' = Ahead(step')
    <3>1. step' \in 1 .. 11
      BY <1>2
    <3> QED BY <1>2, <3>1, SameFile
  <2> QED BY <1>2, <1>3, <2>1, <2>2 DEF Accepted
<1>5. EntriesTyped' /\ Checked' /\ Placed'
  BY <1>1, <1>2, <1>4, Kept
<1>6. LastCore < Entries
  <2>1. CASE step > 1
    BY <1>1, <2>1 DEF Counters
  <2>2. CASE step = 1
    <3>1. LastCore \in Nat /\ Size(1) = LastCore + 1
      BY <1>1, SizesTyped
    <3>2. LastCore + 1 <= UIntMax
      <4>1. Len(file.comps) \in Nat /\ Len(file.comps) <= UIntMax
        BY <1>1, ChildIs
      <4> QED BY <2>2, <3>1, <4>1, InputAssumption
    <3>3. LastCore = 0 \/ LastCore = file.num["core"] - 1
      BY <3>1, <3>2, InputAssumption DEF LastCore
    <3>4. file.num["core"] \in 0 .. Entries
      BY <1>1, FilesAssumption DEF Counted
    <3> QED BY <3>1, <3>3, <3>4, InputAssumption
  <2> QED BY <2>1, <2>2
<1>7. Counters'
  <2>1. step' \in 2 .. 7 /\ order' \in Nat /\ w' \in Nat /\ i' \in Nat
    BY <1>2
  <2>2. order' + 1 = Ahead(step') /\ w' = Ahead(step') + i' /\ w' = Ahead(step')
    BY <1>2, <1>3
  <2>3. step' \in 1 .. 10 => Size(step') \in Nat
    BY <1>1, SizesTyped
  <2>4. step' \in 2 .. 6 => i' <= Size(step')
    BY <1>2, <2>1, <2>3
  <2>5. step' > 6 => step' = 7
    BY <2>1
  <2>6. step' \in 1 .. 11 /\ step' > 1 /\ ~ (step' > 7)
    BY <2>1
  <2> QED BY <1>2, <1>6, <2>1, <2>2, <2>4, <2>5, <2>6, CountersAre
<1> QED BY <1>1, <1>2, <1>5, <1>7 DEF Walk, Reading

LEMMA EndCoresStep == IInv /\ EndCores => Walk'
<1> SUFFICES ASSUME IInv, EndCores PROVE Walk'
  OBVIOUS
<1>1. /\ file \in Files /\ Counters /\ verdict = "parsing" /\ Group = "core"
      /\ file.comps # <<>> /\ i > LastCore /\ EndGroup(LastCore)
  BY DEF IInv, Walk, Reading, EndCores
<1>2. /\ step = 1 /\ i \in Nat /\ i <= Size(1) /\ i <= Len(file.comps)
  BY <1>1, GroupIs DEF Counters
<1>3. LastCore \in Nat /\ Size(1) = LastCore + 1 /\ Ahead(1) = 0
  BY <1>1, SizesTyped, AheadIs
<1>4. step \in 1 .. 6 /\ i = Size(step) /\ LastCore + 1 = Ahead(step) + Size(step)
  BY <1>1, <1>2, <1>3
<1> QED BY <1>1, <1>2, <1>3, <1>4, EndGroupStep

LEMMA EndSharedStep == IInv /\ EndShared => Walk'
<1> SUFFICES ASSUME IInv, EndShared PROVE Walk'
  OBVIOUS
<1>1. /\ file \in Files /\ Counters /\ verdict = "parsing"
      /\ Group \in {Shared[k] : k \in DOMAIN Shared} /\ i >= Count(Group)
      /\ EndGroup(order + Count(Group))
  BY DEF IInv, Walk, Reading, EndShared
<1>2. step \in 2 .. 6 /\ step \in 1 .. 10 /\ Group = Groups[step]
  <2>1. step \in 1 .. 11
    BY <1>1 DEF Counters
  <2>2. step \in 2 .. 6
    BY <1>1, <2>1, GroupIs
  <2> QED BY <2>1, <2>2, GroupIs
<1>3. Count(Group) = Size(step) /\ Size(step) \in Nat /\ Ahead(step) \in Nat
  BY <1>1, <1>2, SizesTyped, AheadIs DEF Size
<1>4. /\ i \in Nat /\ i <= Size(step) /\ order \in Nat /\ order + 1 = Ahead(step)
      /\ file.comps # <<>>
  BY <1>1, <1>2 DEF Counters
<1>5. /\ i = Size(step) /\ (order + Count(Group)) + 1 = Ahead(step) + Size(step)
      /\ order + Count(Group) \in Nat /\ step \in 1 .. 6 /\ step > 1
  BY <1>1, <1>2, <1>3, <1>4
<1> QED BY <1>1, <1>4, <1>5, EndGroupStep

LEMMA ReadSharedStep == IInv /\ ReadShared => Walk'
<1> SUFFICES ASSUME IInv, ReadShared PROVE Walk'
  OBVIOUS
<1>1. /\ file \in Files /\ Counters /\ EntriesTyped /\ Checked /\ Placed
      /\ verdict = "parsing" /\ Group \in {Shared[k] : k \in DOMAIN Shared}
      /\ i < Count(Group)
  BY DEF IInv, Walk, Reading, ReadShared
<1>2. step \in 2 .. 6 /\ step \in 1 .. 10 /\ Group = Groups[step]
  <2>1. step \in 1 .. 11
    BY <1>1 DEF Counters
  <2>2. step \in 2 .. 6
    BY <1>1, <2>1, GroupIs
  <2> QED BY <2>1, <2>2, GroupIs
<1>3. /\ Count(Group) = Size(step) /\ Size(step) \in Nat /\ Ahead(step) \in Nat
      /\ i < Size(step)
  BY <1>1, <1>2, SizesTyped, AheadIs DEF Size
<1>4. /\ i \in Nat /\ w \in Nat /\ order \in Nat /\ order + 1 = Ahead(step)
      /\ LastCore < Entries /\ file.comps # <<>> /\ (w = Ahead(step) + i \/ Stuck)
  BY <1>1, <1>2 DEF Counters
<1>5. Group = "NoC" <=> step = 6
  BY <1>2, GroupIs
<1>6. Stuck => step = 6 /\ ~ Matches(Group, Child(w)) /\ Child(w) # ""
  <2>1. Stuck => w < Len(file.comps) /\ file.comps[w + 1] # "NoC" /\ step = 6
    BY DEF Stuck
  <2>2. Stuck => Child(w) = file.comps[w + 1] /\ Child(w) # ""
    BY <1>1, <1>4, <2>1, ChildIs
  <2> QED BY <1>5, <2>1, <2>2 DEF Matches
<1> DEFINE n == Accepted + 1
<1>7. /\ n \in Nat /\ n = Ahead(step) + i + 1 /\ Ahead(step) < n /\ n <= Ahead(step + 1)
  <2>1. file \in Files /\ step \in 1 .. 10 /\ i \in Nat /\ i < Size(step)
    BY <1>1, <1>2, <1>3, <1>4
  <2>2. /\ Accepted \in Nat /\ Accepted + 1 = Ahead(step) + i + 1
        /\ Ahead(step) < Accepted + 1 /\ Accepted + 1 <= Ahead(step + 1)
    BY <2>1, NextInLayout
  <2> QED BY <2>2
<1>8. ASSUME file' = file, step' = step, i' = i + 1
      PROVE  Accepted' = Accepted + 1
  <2>1. Ahead(step)' = Ahead(step')
    BY <1>2, <1>8, SameFile
  <2> QED BY <1>3, <1>4, <1>8, <2>1 DEF Accepted
<1>9. CASE /\ Matches(Group, Child(w)) /\ Fill(Group, i, w) /\ i' = i + 1 /\ w' = w + 1
           /\ UNCHANGED <<file, step, order, verdict>>
  <2>1. w = Ahead(step) + i /\ n - 1 = w /\ w + 1 = n
    BY <1>3, <1>4, <1>6, <1>7, <1>9
  <2>2. Found(n)
    BY <1>1, <1>2, <1>7, <1>9, <2>1, FoundIs
  <2>3. filled' = [filled EXCEPT ![Groups[step]][i] = n]
    BY <1>2, <1>9, <2>1 DEF Fill
  <2>4. EntriesTyped' /\ Checked' /\ Placed'
    BY <1>1, <1>2, <1>3, <1>4, <1>8, <1>9, <2>2, <2>3, Advanced
  <2>5. i + 1 <= Size(step) /\ w' = Ahead(step) + (i + 1)
    BY <1>3, <1>4, <1>9, <2>1
  <2>6. Counters'
    <3>1. step' \in 2 .. 6 /\ step' \in 1 .. 11 /\ step' > 1 /\ ~ (step' > 6) /\ ~ (step' > 7)
          /\ order' \in Nat /\ w' \in Nat /\ i' \in Nat
      BY <1>2, <1>4, <1>9
    <3> QED BY <1>4, <1>9, <2>5, <3>1, CountersAre
  <2> QED BY <1>1, <1>9, <2>4, <2>6 DEF Walk, Reading
<1>10. CASE /\ ~ Matches(Group, Child(w)) /\ Child(w) # "" /\ Group = "NoC"
            /\ i' = i + 1 /\ UNCHANGED <<file, step, order, w, filled, verdict>>
  <2>1. /\ file' = file /\ step' = step /\ order' = order /\ w' = w /\ filled' = filled
        /\ verdict' = verdict /\ i' = i + 1
    BY <1>10
  <2>2. step = 6 /\ Ahead(6) <= w /\ w < Ahead(6) + (i + 1)
    <3>1. step = 6
      BY <1>5, <1>10
    <3>2. Ahead(6) \in Nat
      BY <1>3, <3>1
    <3>3. w = Ahead(6) + i \/ (Ahead(6) <= w /\ w < Ahead(6) + i)
      BY <1>4, <3>1 DEF Stuck
    <3> QED BY <1>4, <3>1, <3>2, <3>3
  <2>3. w < Len(file.comps) /\ file.comps[w + 1] # "NoC"
    <3>1. w < Len(file.comps) /\ Child(w) = file.comps[w + 1]
      BY <1>1, <1>4, <1>10, ChildIs
    <3> QED BY <1>10, <3>1 DEF Matches
  <2>4. Passed
    <3>1. Ahead(6 + 1) = Ahead(6) + Size(6)
      BY <1>1, AheadIs
    <3>2. w + 1 \in Nat /\ Ahead(6) < w + 1 /\ w + 1 <= Ahead(6 + 1)
      BY <1>3, <1>4, <2>2, <3>1
    <3>3. w + 1 \in DOMAIN Layout /\ Layout[w + 1] = Groups[6]
      BY <1>1, <3>2, LayoutFacts
    <3>4. w + 1 <= Len(file.comps)
      <4>1. Len(file.comps) \in Nat
        BY <1>1, <1>4, ChildIs
      <4> QED BY <1>4, <2>3, <4>1
    <3> QED BY <2>3, <3>3, <3>4, GroupsAre DEF Passed
  <2>5. EntriesTyped' /\ Checked' /\ Placed'
    BY <1>1, <1>2, <1>3, <1>4, <1>8, <1>10, <2>2, <2>4, Advanced
  <2>6. Counters'
    <3>1. step' \in 2 .. 6 /\ step' \in 1 .. 11 /\ step' > 1 /\ ~ (step' > 6) /\ ~ (step' > 7)
          /\ order' \in Nat /\ w' \in Nat
      BY <1>2, <1>4, <2>1
    <3>2. i + 1 \in Nat /\ i + 1 <= Size(step)
      BY <1>3, <1>4
    <3>3. i' \in Nat /\ i' <= Size(step')
      BY <2>1, <3>2
    <3> QED BY <1>4, <2>1, <2>2, <2>3, <3>1, <3>3, CountersAre
  <2> QED BY <1>1, <1>10, <2>5, <2>6 DEF Walk, Reading
<1>11. CASE /\ ~ Matches(Group, Child(w)) /\ (Child(w) = "" \/ Group # "NoC")
            /\ Exit("misfit")
  <2>1. w = Ahead(step) + i
    BY <1>4, <1>5, <1>6, <1>11
  <2>2. ~ Fits
    <3>1. CASE step # 6
      BY <1>1, <1>2, <1>3, <1>4, <1>11, <2>1, <3>1, Unfit
    <3>2. CASE step = 6
      <4>1. ~ (w < Len(file.comps)) /\ Len(file.comps) \in Nat
        BY <1>1, <1>4, <1>5, <1>11, <3>2, ChildIs
      <4>2. n \in DOMAIN Layout
        BY <1>1, <1>2, <1>7, LayoutFacts
      <4>3. ~ (n <= Len(file.comps))
        BY <1>3, <1>4, <1>7, <2>1, <4>1
      <4> QED BY <4>2, <4>3 DEF Fits
    <3> QED BY <3>1, <3>2
  <2> QED BY <1>4, <1>11, <2>2, MisfitStep DEF Exit
<1> QED BY <1>9, <1>10, <1>11 DEF ReadShared

LEMMA ReadSingleStep == IInv /\ ReadSingle => Walk'
<1> SUFFICES ASSUME IInv, ReadSingle PROVE Walk'
  OBVIOUS
<1> DEFINE at == IF order > 0 THEN order + 1 ELSE order
           n  == Accepted + 1
<1>1. /\ file \in Files /\ Counters /\ EntriesTyped /\ Checked /\ Placed
      /\ verdict = "parsing" /\ Group \in {Singles[k] : k \in DOMAIN Singles}
  BY DEF IInv, Walk, Reading, ReadSingle
<1>2. step \in 7 .. 10 /\ step \in 1 .. 10 /\ Group = Groups[step]
  <2>1. step \in 1 .. 11
    BY <1>1 DEF Counters
  <2>2. step \in 7 .. 10
    BY <1>1, <2>1, GroupIs
  <2> QED BY <2>1, <2>2, GroupIs
<1>3. Size(step) = 1 /\ Ahead(step) \in Nat /\ Ahead(step + 1) = Ahead(step) + 1
  BY <1>1, <1>2, SizesTyped, AheadIs
<1>4. /\ i = 0 /\ w \in Nat /\ w = Ahead(7) /\ order \in Nat /\ order + 1 = Ahead(step)
      /\ LastCore < Entries /\ file.comps # <<>> /\ (step > 7 => Ahead(7) > 1)
  BY <1>1, <1>2 DEF Counters
<1>5. /\ n \in Nat /\ n = Ahead(step) + 1 /\ Ahead(step) < n /\ n <= Ahead(step + 1)
  <2>1. file \in Files /\ step \in 1 .. 10 /\ i \in Nat /\ i < Size(step)
    BY <1>1, <1>2, <1>3, <1>4
  <2>2. /\ Accepted \in Nat /\ Accepted + 1 = Ahead(step) + i + 1
        /\ Ahead(step) < Accepted + 1 /\ Accepted + 1 <= Ahead(step + 1)
    BY <2>1, NextInLayout
  <2> QED BY <1>3, <1>4, <2>2
<1>6. \/ /\ Matches(Group, Child(at)) /\ Fill(Group, 0, at) /\ order' = at
         /\ step' = step + 1 /\ UNCHANGED <<file, w, i, verdict>>
      \/ ~ Matches(Group, Child(at)) /\ Exit("misfit")
  BY DEF ReadSingle
<1>7. CASE order = 0
  <2>1. Ahead(step) = 1 /\ at = 0
    BY <1>4, <1>7
  <2>2. step = 7
    <3>1. step > 7 => Ahead(7) + Size(7) <= Ahead(step)
      BY <1>1, <1>2, AheadIs
    <3>2. Size(7) = 1 /\ Ahead(7) \in Nat
      BY <1>1, SizesTyped, AheadIs
    <3> QED BY <1>2, <1>4, <2>1, <3>1, <3>2
  <2>3. Lonely
    BY <1>1, <2>1, <2>2, LayoutFacts
  <2>4. Child(0) = "core"
    <3>1. Accepted = 1
      BY <1>4, <2>1 DEF Accepted
    <3>2. Layout[1] = "NoC" \/ Found(1)
      BY <1>1, <3>1 DEF Checked
    <3>3. /\ Ahead(1) < 1 /\ 1 <= Ahead(1 + 1)
      <4>1. Ahead(1) = 0 /\ Ahead(1 + 1) = Ahead(1) + Size(1)
        BY <1>1, AheadIs
      <4>2. LastCore \in Nat /\ Size(1) = LastCore + 1
        BY <1>1, SizesTyped
      <4> QED BY <4>1, <4>2
    <3>4. /\ Layout[1] = Groups[1]
          /\ Found(1) <=> Matches(Groups[1], Child(1 - 1))
      BY <1>1, <3>3, FoundIs
    <3>5. Matches("core", Child(0))
      BY <3>2, <3>4, GroupsAre
    <3> QED BY <3>5 DEF Matches
  <2>5. ~ Matches(Group, Child(at))
    BY <1>2, <2>1, <2>2, <2>4, GroupsAre DEF Matches
  <2> QED BY <1>4, <1>6, <2>3, <2>5, MisfitStep DEF Exit
<1>8. CASE order > 0
  <2>1. at = Ahead(step) /\ Ahead(step) + i = at /\ at + 1 = n /\ n - 1 = at /\ i < Size(step)
    BY <1>3, <1>4, <1>5, <1>8
  <2>2. Ahead(7) > 1
    BY <1>2, <1>3, <1>4, <1>8
  <2> HIDE DEF at
  <2>3. CASE ~ Matches(Group, Child(at)) /\ Exit("misfit")
    <3>1. step # 6
      BY <1>2
    <3>2. ~ Fits
      BY <1>1, <1>2, <1>4, <2>1, <2>3, <3>1, Unfit
    <3> QED BY <1>4, <2>3, <3>2, MisfitStep DEF Exit
  <2>4. CASE /\ Matches(Group, Child(at)) /\ Fill(Group, 0, at) /\ order' = at
             /\ step' = step + 1 /\ UNCHANGED <<file, w, i, verdict>>
    <3>1. Found(n)
      BY <1>1, <1>2, <1>5, <2>1, <2>4, FoundIs
    <3>2. filled' = [filled EXCEPT ![Groups[step]][i] = n]
      BY <1>2, <1>4, <2>1, <2>4 DEF Fill
    <3>3. step' \in 1 .. 11
      BY <1>2, <2>4
    <3>4. Accepted' = Accepted + 1
      <4>1. Ahead(step)' = Ahead(step')
        BY <2>4, <3>3, SameFile
      <4> QED BY <1>3, <1>4, <2>4, <4>1 DEF Accepted
    <3>5. EntriesTyped' /\ Checked' /\ Placed'
      BY <1>1, <1>2, <1>4, <2>1, <2>4, <3>1, <3>2, <3>4, Advanced
    <3>6. Counters'
      <4>1. /\ step' \in 1 .. 11 /\ order' \in Nat /\ w' \in Nat /\ i' \in Nat
            /\ step' > 1 /\ step' > 6 /\ ~ (step' \in 2 .. 6)
            /\ order' + 1 = Ahead(step') /\ w' = Ahead(7) /\ i' = 0
        BY <1>2, <1>3, <1>4, <2>1, <2>4, <3>3
      <4> QED BY <1>4, <2>2, <2>4, <4>1, CountersAre
    <3> QED BY <1>1, <2>4, <3>5, <3>6 DEF Walk, Reading
  <2> QED BY <1>6, <2>3, <2>4
<1> QED BY <1>4, <1>7, <1>8

-----------------------------------------------------------------------------
(* Every entry is nought or the place of a component of the file, and each *)
(* counter is bounded by the number of units the arrays of sys can hold.   *)
InputTyped ==
  /\ step \in 0 .. 11
  /\ order \in 0 .. UIntMax /\ w \in 0 .. UIntMax + 1 /\ i \in 0 .. UIntMax
  /\ \A g \in DOMAIN filled, k \in 0 .. Entries - 1 : filled[g][k] \in 0 .. Len(file.comps)

RestTyped ==
  /\ verdict \in {"parsing", "done", "built", "misfit", "private", "flash"}
  /\ next \in 1 .. 6
  /\ unit \in Classes \union {"none"} /\ home \in GroupNames \union {"none"}
  /\ <<gives, user_vcc>> \in BOOLEAN \X BOOLEAN

(* The calls of a unit are five.                                           *)
LEMMA CallsAre == DOMAIN Calls = 1 .. 5 /\ Len(Calls) = 5
  BY DEF Calls

(* The type invariant in two parts: what parse() changes, and the rest.    *)
LEMMA TypeParts == TypeOK <=> InputTyped /\ RestTyped
  BY CallsAre, GroupsAre DEF TypeOK, InputTyped, RestTyped

(* No more components are asked for than an unsigned int can count.        *)
LEMMA AheadBounded ==
  ASSUME file \in Files, LastCore < Entries
  PROVE  \A s \in 1 .. 11 : Ahead(s) <= UIntMax
<1>1. /\ Size(1) \in Nat /\ Size(2) \in Nat /\ Size(3) \in Nat /\ Size(4) \in Nat
      /\ Size(5) \in Nat /\ Size(6) \in Nat
      /\ Size(1) <= Entries /\ Size(2) <= Entries /\ Size(3) <= Entries
      /\ Size(4) <= Entries /\ Size(5) <= Entries /\ Size(6) <= Entries
  <2>1. LastCore \in Nat /\ Size(1) = LastCore + 1 /\ Entries \in Nat
    BY SizesTyped, InputAssumption
  <2>2. Size(1) \in Nat /\ Size(1) <= Entries
    BY <2>1
  <2> QED BY <2>2, SizesTyped
<1>2. 6 * Entries + 4 <= UIntMax /\ Entries \in Nat /\ UIntMax \in Nat
  <2>1. Len(Shared) = 5 /\ Len(Singles) = 4
    BY SharedSeq, SinglesSeq DEF NumShared, NumSingles
  <2>2. (1 + Len(Shared)) * Entries + Len(Singles) <= UIntMax
    BY FilesAssumption
  <2> QED BY <2>1, <2>2, InputAssumption
<1>3. Ahead(7) <= 6 * Entries
  <2>1. /\ Ahead(1 + 1) = Ahead(1) + Size(1) /\ Ahead(2 + 1) = Ahead(2) + Size(2)
        /\ Ahead(3 + 1) = Ahead(3) + Size(3) /\ Ahead(4 + 1) = Ahead(4) + Size(4)
        /\ Ahead(5 + 1) = Ahead(5) + Size(5) /\ Ahead(6 + 1) = Ahead(6) + Size(6)
    BY AheadIs
  <2>2. Ahead(1) = 0
    BY AheadIs
  <2>3. Ahead(2) = Size(1) /\ Ahead(3) = Size(1) + Size(2)
    BY <1>1, <2>1, <2>2
  <2>4. Ahead(4) = Size(1) + Size(2) + Size(3)
    BY <1>1, <2>1, <2>3
  <2>5. Ahead(5) = Size(1) + Size(2) + Size(3) + Size(4)
    BY <1>1, <2>1, <2>4
  <2>6. Ahead(6) = Size(1) + Size(2) + Size(3) + Size(4) + Size(5)
    BY <1>1, <2>1, <2>5
  <2>7. Ahead(7) = Size(1) + Size(2) + Size(3) + Size(4) + Size(5) + Size(6)
    BY <1>1, <2>1, <2>6
  <2> QED BY <1>1, <1>2, <2>7
<1>4. Ahead(11) = Ahead(7) + 4 /\ \A s \in 1 .. 11 : Ahead(s) \in Nat
  BY LayoutFacts, AheadIs
<1>5. Ahead(11) <= UIntMax
  BY <1>2, <1>3, <1>4
<1>6. ASSUME NEW s \in 1 .. 10 PROVE Ahead(s) <= Ahead(11)
  <2>1. s \in 1 .. 11 /\ 11 \in 1 .. 11 /\ s < 11
    OBVIOUS
  <2>2. Ahead(s) + Size(s) <= Ahead(11) /\ Size(s) \in Nat /\ Ahead(s) \in Nat
    BY <2>1, AheadIs, SizesTyped
  <2> QED BY <1>4, <2>2
<1>7. \A s \in 1 .. 11 : s \in 1 .. 10 \/ s = 11
  OBVIOUS
<1> QED BY <1>2, <1>4, <1>5, <1>6, <1>7

(* The walk keeps every counter within its bounds and every entry within   *)
(* the file.                                                               *)
LEMMA WithinBounds == Walk /\ Reading => InputTyped
<1> SUFFICES ASSUME Walk, Reading PROVE InputTyped
  OBVIOUS
<1>1. file \in Files /\ Counters /\ EntriesTyped /\ Checked /\ Placed
  BY DEF Walk
<1>2. Entries \in Nat /\ UIntMax \in Nat /\ Entries <= UIntMax
  <2>1. Len(Shared) = 5 /\ Len(Singles) = 4
    BY SharedSeq, SinglesSeq DEF NumShared, NumSingles
  <2>2. (1 + Len(Shared)) * Entries + Len(Singles) <= UIntMax
    BY FilesAssumption
  <2> QED BY <2>1, <2>2, InputAssumption
<1>3. Len(file.comps) \in Nat /\ Len(file.comps) <= UIntMax
  <2>1. 0 \in Nat
    OBVIOUS
  <2> QED BY <1>1, <2>1, ChildIs
<1>4. step \in 1 .. 11 /\ order \in Nat /\ w \in Nat /\ i \in Nat
  BY <1>1 DEF Counters
<1>5. \A g \in DOMAIN filled, k \in 0 .. Entries - 1 : filled[g][k] \in 0 .. Len(file.comps)
  <2> SUFFICES ASSUME NEW s \in 1 .. 10, NEW k \in 0 .. Entries - 1
               PROVE  filled[Groups[s]][k] \in 0 .. Len(file.comps)
    <3>1. DOMAIN filled = GroupNames /\ DOMAIN Groups = 1 .. 10
      BY <1>1, GroupsAre DEF EntriesTyped
    <3> QED BY <3>1 DEF GroupNames
  <2> DEFINE p == Ahead(s) + k + 1
  <2>1. Ahead(s) \in Nat /\ k \in Nat /\ p \in Nat
    BY <1>1, AheadIs
  <2>2. filled[Groups[s]][k] = 0 \/ (filled[Groups[s]][k] = p /\ Found(p))
    BY <1>1, <2>1 DEF Placed, Steps
  <2>3. Found(p) => p <= Len(file.comps)
    BY DEF Found
  <2> HIDE DEF p
  <2> QED BY <1>3, <2>1, <2>2, <2>3
<1>6. order \in 0 .. UIntMax /\ w \in 0 .. UIntMax + 1 /\ i \in 0 .. UIntMax
  <2>1. CASE step = 1
    <3>1. order = 0 /\ w = 0 /\ i <= Len(file.comps)
      BY <1>1, <2>1 DEF Counters
    <3> QED BY <1>2, <1>3, <1>4, <3>1
  <2>2. CASE step > 1
    <3>1. order + 1 = Ahead(step) /\ LastCore < Entries
      BY <1>1, <2>2 DEF Counters
    <3>2. \A s \in 1 .. 11 : Ahead(s) <= UIntMax /\ Ahead(s) \in Nat
      BY <1>1, <3>1, AheadBounded, AheadIs
    <3>3. order <= UIntMax
      BY <1>2, <1>4, <3>1, <3>2
    <3>4. CASE step > 6
      <4>1. w = Ahead(7) /\ i = 0
        BY <1>1, <3>4 DEF Counters
      <4> QED BY <1>2, <1>4, <3>2, <3>3, <4>1
    <3>5. CASE step \in 2 .. 6
      <4>1. i <= Size(step) /\ (w = Ahead(step) + i \/ Stuck)
        BY <1>1, <3>5 DEF Counters
      <4>2. /\ Size(step) \in Nat /\ Size(step) <= Entries
            /\ Ahead(step) + Size(step) = Ahead(step + 1)
        BY <1>1, <3>5, SizesTyped, AheadIs
      <4>3. Ahead(step + 1) <= UIntMax /\ Ahead(step) \in Nat
        BY <3>2, <3>5
      <4>4. Stuck => w < Ahead(step) + i
        BY DEF Stuck
      <4>5. w <= Ahead(step) + i
        BY <1>4, <4>1, <4>3, <4>4
      <4>6. i <= UIntMax /\ w <= UIntMax
        BY <1>2, <1>4, <4>1, <4>2, <4>3, <4>5
      <4> QED BY <1>2, <1>4, <3>3, <4>6
    <3>6. step > 6 \/ step \in 2 .. 6
      BY <1>4, <2>2
    <3> QED BY <3>4, <3>5, <3>6
  <2>3. step = 1 \/ step > 1
    BY <1>4
  <2> QED BY <2>1, <2>2, <2>3
<1> QED BY <1>4, <1>5, <1>6 DEF InputTyped

(* Nothing is read at the start.                                           *)
LEMMA InitialWalk == Init => IInv
<1> SUFFICES ASSUME Init PROVE IInv
  OBVIOUS
<1>1. /\ file \in Files /\ step = 1 /\ order = 0 /\ w = 0 /\ i = 0 /\ verdict = "parsing"
      /\ filled = [g \in GroupNames |-> [k \in 0 .. Entries - 1 |-> 0]]
      /\ unit = "none" /\ next = 1 /\ home = "none" /\ gives = FALSE /\ user_vcc = FALSE
  BY DEF Init, InitInput, InitUnit
<1>2. Ahead(1) = 0 /\ Size(1) \in Nat /\ \A s \in 1 .. 10 : Ahead(s) \in Nat
  BY <1>1, AheadIs, SizesTyped
<1>3. Counters
  <2>1. Len(file.comps) \in Nat
    <3>1. 0 \in Nat
      OBVIOUS
    <3> QED BY <1>1, <3>1, ChildIs
  <2> QED BY <1>1, <1>2, <2>1 DEF Counters
<1>4. Accepted = 0
  BY <1>1, <1>2 DEF Accepted
<1>5. EntriesTyped
  BY <1>1 DEF EntriesTyped
<1>6. Checked
  BY <1>4 DEF Checked
<1>7. Placed
  <2> SUFFICES ASSUME NEW s \in 1 .. 10, NEW k \in 0 .. Entries - 1, NEW p \in Nat,
                      p = Ahead(s) + k + 1
               PROVE  filled[Groups[s]][k] = 0 /\ p > Accepted
    BY DEF Placed, Steps
  <2>1. Groups[s] \in GroupNames
    BY GroupNamesAre
  <2>2. Ahead(s) \in Nat /\ k \in Nat
    BY <1>2
  <2> QED BY <1>1, <1>4, <2>1, <2>2
<1>8. Walk
  BY <1>1, <1>3, <1>5, <1>6, <1>7 DEF Walk, Reading
<1>9. InputTyped
  BY <1>1, <1>8, WithinBounds DEF Reading
<1>10. RestTyped
  <2>1. <<gives, user_vcc>> \in BOOLEAN \X BOOLEAN
    BY <1>1
  <2> QED BY <1>1, <2>1 DEF RestTyped
<1> QED BY <1>8, <1>9, <1>10, TypeParts DEF IInv

(* The steps of parse().                                                   *)
LEMMA ParseStep ==
  ASSUME IInv, Parse, UNCHANGED <<lifeVars, chipVars>>
  PROVE  IInv'
<1>1. Walk'
  BY NoComponentsStep, ReadCoreStep, EndCoresStep, ReadSharedStep, EndSharedStep,
     ReadSingleStep, EndParseStep DEF Parse
<1>2. verdict = "parsing"
  BY DEF Parse, NoComponents, ReadCore, EndCores, ReadShared, EndShared, ReadSingle, EndParse
<1>3. verdict' \in {"parsing", "done"} \/ Exit("misfit")
  BY <1>2 DEF Parse, NoComponents, ReadCore, EndCores, ReadShared, EndShared, ReadSingle,
              EndParse, EndGroup
<1>4. InputTyped /\ RestTyped
  BY TypeParts DEF IInv
<1>5. InputTyped'
  <2>1. CASE verdict' \in {"parsing", "done"}
    <3>1. Reading'
      BY <2>1 DEF Reading
    <3>2. (Walk /\ Reading => InputTyped)'
      BY WithinBounds, PTL
    <3> QED BY <1>1, <3>1, <3>2
  <2>2. CASE Exit("misfit")
    BY <1>4, <2>2 DEF InputTyped, Exit
  <2> QED BY <1>3, <2>1, <2>2
<1>6. RestTyped'
  <2>1. verdict' \in {"parsing", "done", "misfit"}
    BY <1>3 DEF Exit
  <2>2. next' = next /\ unit' = unit /\ home' = home /\ gives' = gives /\ user_vcc' = user_vcc
    BY DEF lifeVars, chipVars
  <2> QED BY <1>4, <2>1, <2>2 DEF RestTyped
<1>7. (TypeOK <=> InputTyped /\ RestTyped)'
  BY TypeParts, PTL
<1> QED BY <1>1, <1>5, <1>6, <1>7 DEF IInv

(* Those that leave the file alone.                                        *)
LEMMA StaysInput ==
  ASSUME IInv, UNCHANGED inputVars
  PROVE  Walk' /\ InputTyped'
<1>1. /\ file' = file /\ step' = step /\ order' = order /\ w' = w /\ i' = i
      /\ filled' = filled /\ verdict' = verdict
  BY DEF inputVars
<1>2. InputTyped'
  BY <1>1, TypeParts DEF IInv, InputTyped
<1>3. CASE Reading
  <2>1. /\ file \in Files /\ Counters /\ EntriesTyped /\ Checked /\ Placed
        /\ verdict # "misfit"
        /\ verdict = "done" => (file.comps = <<>> \/ step = 11)
    BY <1>3 DEF IInv, Walk, Reading
  <2>2. Accepted' = Accepted
    BY <1>1, <2>1, SameFile DEF Accepted, Counters
  <2>3. EntriesTyped' /\ Checked' /\ Placed'
    BY <1>1, <2>1, <2>2, Kept
  <2>4. Counters'
    BY <1>1, <2>1, CountersAre DEF Counters, Stuck
  <2> QED BY <1>1, <1>2, <2>1, <2>3, <2>4 DEF Walk, Reading
<1>4. CASE ~ Reading
  <2>1. Fits' = Fits /\ Lonely' = Lonely
    BY <1>1, SameFile
  <2> QED BY <1>1, <1>2, <1>4, <2>1 DEF IInv, Walk, Reading
<1> QED BY <1>3, <1>4

(* The refusals of the constructors leave the entries alone.               *)
LEMMA ExitStep ==
  ASSUME IInv, NEW reason \in {"private", "flash"}, Exit(reason),
         UNCHANGED <<lifeVars, chipVars>>
  PROVE  IInv'
<1>1. InputTyped /\ RestTyped
  BY TypeParts DEF IInv
<1>2. Walk'
  BY DEF Walk, Reading, Exit
<1>3. InputTyped'
  BY <1>1 DEF InputTyped, Exit
<1>4. RestTyped'
  <2>1. verdict' \in {"private", "flash"}
    BY DEF Exit
  <2>2. next' = next /\ unit' = unit /\ home' = home /\ gives' = gives /\ user_vcc' = user_vcc
    BY DEF lifeVars, chipVars
  <2> QED BY <1>1, <2>1, <2>2 DEF RestTyped
<1>5. (TypeOK <=> InputTyped /\ RestTyped)'
  BY TypeParts, PTL
<1> QED BY <1>2, <1>3, <1>4, <1>5 DEF IInv

(* A unit is built of the classes of its group, and the file forgotten.    *)
LEMMA ClassesKnown ==
  ASSUME NEW g \in GroupNames, NEW uc \in AllUnits[g]
  PROVE  uc[1] \in Classes
<1> DEFINE all == UNION {{u} \X Configurations(u) : u \in ClassesOf(g)}
<1>1. uc \in all
  BY DEF AllUnits
<1>2. PICK u \in ClassesOf(g) : uc \in {u} \X Configurations(u)
  BY <1>1
<1>3. uc[1] = u
  BY <1>2
<1>4. ClassesOf(g) \subseteq Classes
  BY DEF ClassesOf, Classes, Core_classes, Io_classes, Mc_classes
<1> QED BY <1>2, <1>3, <1>4

(* The call after one of the five is one of them or the end.               *)
LEMMA NextCall ==
  ASSUME next \in 1 .. 6, Call # "over"
  PROVE  next + 1 \in 1 .. 6 /\ Len(Calls) + 1 \in 1 .. 6
<1>1. next \in 1 .. 5
  BY CallsAre DEF Call
<1> QED BY <1>1, CallsAre

(* Building a unit keeps the types of its variables.                       *)
LEMMA BuildStep == IInv /\ BuildUnit => IInv'
<1> SUFFICES ASSUME IInv, BuildUnit PROVE IInv'
  OBVIOUS
<1>1. PICK g \in GroupNames :
        \E k \in 0 .. NumBuilt(g) - 1, uc \in AllUnits[g] : Build(g, k, uc[1], uc[2])
  BY DEF BuildUnit
<1>2. PICK k \in 0 .. NumBuilt(g) - 1, uc \in AllUnits[g] : Build(g, k, uc[1], uc[2])
  BY <1>1
<1>3. RestTyped
  BY TypeParts DEF IInv
<1>4. /\ verdict' = "built" /\ step' = 0 /\ order' = 0 /\ w' = 0 /\ i' = 0
      /\ filled' = <<>>
  BY <1>2 DEF Build, Forget
<1>5. /\ Call = "construct" /\ unit' = uc[1] /\ home' = g
      /\ next' = Len(Calls) + 1 \/ next' = next + 1
  BY <1>2 DEF Build, Construct
<1>6. <<gives, user_vcc>>' \in BOOLEAN \X BOOLEAN
  <2>1. gives' \in BOOLEAN
    BY <1>2 DEF Build
  <2>2. user_vcc' = (gives' \/ InitialValue(VccEntry(g), "power_gating_vcc") > -1)
    BY <1>2 DEF Build
  <2>3. user_vcc' \in BOOLEAN
    BY <2>2, Zenon
  <2> QED BY <2>1, <2>3
<1>7. Walk'
  BY <1>4 DEF Walk, Reading
<1>8. InputTyped'
  <2>1. DOMAIN filled' = {}
    BY <1>4
  <2> QED BY <1>4, <2>1, InputAssumption DEF InputTyped
<1>9. RestTyped'
  <2>1. next' \in 1 .. 6
    BY <1>3, <1>5, NextCall DEF RestTyped
  <2>2. unit' \in Classes
    BY <1>5, ClassesKnown
  <2> QED BY <1>4, <1>5, <1>6, <2>1, <2>2 DEF RestTyped
<1>10. (TypeOK <=> InputTyped /\ RestTyped)'
  BY TypeParts, PTL
<1> QED BY <1>7, <1>8, <1>9, <1>10 DEF IInv

(* A call on a unit does not make it another.                              *)
LEMMA LiveKeeps == Live => unit' = unit /\ next' = next + 1 /\ Call # "over"
  BY DEF Live, ComputePeak, ComputeRun, ComputeEnergy, DisplayEnergy, Destroy

(* Nor does it touch the file.                                             *)
LEMMA LiveStep ==
  ASSUME IInv, Live, UNCHANGED <<inputVars, chipVars>>
  PROVE  IInv'
<1>1. RestTyped
  BY TypeParts DEF IInv
<1>2. Walk' /\ InputTyped'
  BY StaysInput
<1>3. RestTyped'
  <2>1. next' \in 1 .. 6 /\ unit' = unit
    BY <1>1, LiveKeeps, NextCall DEF RestTyped
  <2>2. verdict' = verdict /\ home' = home /\ gives' = gives /\ user_vcc' = user_vcc
    BY DEF inputVars, chipVars
  <2> QED BY <1>1, <2>1, <2>2 DEF RestTyped
<1>4. (TypeOK <=> InputTyped /\ RestTyped)'
  BY TypeParts, PTL
<1> QED BY <1>2, <1>3, <1>4 DEF IInv

(* A step that changes nothing.                                            *)
LEMMA StutterStep == IInv /\ UNCHANGED vars => IInv'
<1> SUFFICES ASSUME IInv, UNCHANGED vars PROVE IInv'
  OBVIOUS
<1>1. UNCHANGED <<inputVars, lifeVars, chipVars>>
  BY DEF vars
<1>2. RestTyped
  BY TypeParts DEF IInv
<1>3. Walk' /\ InputTyped'
  BY <1>1, StaysInput
<1>4. RestTyped'
  BY <1>1, <1>2 DEF RestTyped, inputVars, lifeVars, chipVars
<1>5. (TypeOK <=> InputTyped /\ RestTyped)'
  BY TypeParts, PTL
<1> QED BY <1>3, <1>4, <1>5 DEF IInv

(* Whatever the file, parse() stands where the numbers of the file say, or *)
(* at a component that is no network; it has checked the components before *)
(* it, and each of them has filled its own entry and no other.             *)
THEOREM Invariance == Spec => []IInv
<1>1. IInv /\ [Next]_vars => IInv'
  <2> SUFFICES ASSUME IInv, [Next]_vars PROVE IInv'
    OBVIOUS
  <2>1. CASE Parse /\ UNCHANGED <<lifeVars, chipVars>>
    BY <2>1, ParseStep
  <2>2. CASE ExitPrivate
    BY <2>2, ExitStep DEF ExitPrivate
  <2>3. CASE ExitFlash
    BY <2>3, ExitStep DEF ExitFlash
  <2>4. CASE BuildUnit
    BY <2>4, BuildStep
  <2>5. CASE Live /\ UNCHANGED <<inputVars, chipVars>>
    BY <2>5, LiveStep
  <2>6. CASE Stopped
    BY <2>6, StutterStep DEF Stopped
  <2>7. CASE UNCHANGED vars
    BY <2>7, StutterStep
  <2> QED BY <2>1, <2>2, <2>3, <2>4, <2>5, <2>6, <2>7 DEF Next
<1> QED BY <1>1, InitialWalk, PTL DEF Spec

-----------------------------------------------------------------------------
(* Which place in the file is that of an entry: as many components of the  *)
(* group stand before it as entries do.                                    *)
LEMMA PlaceIs ==
  ASSUME file \in Files, NEW s \in 1 .. 10, NEW k \in Nat,
         Ahead(s) + k + 1 <= Ahead(s + 1)
  PROVE  Place(Groups[s], k) = Ahead(s) + k + 1
<1> DEFINE a == Ahead(s)
           g == Groups[s]
           B(p) == {q \in 1 .. p - 1 : Layout[q] = g}
           P(p) == Layout[p] = g /\ Cardinality(B(p)) = k
           n == Ahead(s) + k + 1
<1>1. a \in Nat /\ Ahead(s + 1) \in Nat
  <2>1. s \in 1 .. 11 /\ s + 1 \in 1 .. 11
    OBVIOUS
  <2> QED BY <2>1, AheadIs
<1>2. ASSUME NEW p \in DOMAIN Layout, Layout[p] = g
      PROVE  p \in Nat /\ a < p /\ p <= Ahead(s + 1) /\ Cardinality(B(p)) = p - 1 - a
  <2>1. p \in Nat /\ a < p /\ p <= Ahead(s + 1)
    <3>1. p \in 1 .. Ahead(11)
      BY LayoutFacts
    <3> QED BY <1>2, <3>1, LayoutFacts
  <2>2. ASSUME NEW q \in 1 .. p - 1 PROVE Layout[q] = g <=> q \in a + 1 .. p - 1
    <3>1. q \in Nat /\ q < p /\ q <= Ahead(s + 1)
      BY <1>1, <2>1
    <3>2. q \in DOMAIN Layout
      BY <1>2, <3>1, LayoutFacts
    <3>3. Layout[q] = g => a < q
      BY <3>2, LayoutFacts
    <3>4. a < q => Layout[q] = g
      BY <3>1, LayoutFacts
    <3> QED BY <1>1, <2>1, <3>1, <3>3, <3>4
  <2>3. B(p) = a + 1 .. p - 1
    <3>1. \A q \in a + 1 .. p - 1 : q \in 1 .. p - 1
      BY <1>1, <2>1
    <3> QED BY <2>2, <3>1
  <2>4. Cardinality(a + 1 .. p - 1) = IF a + 1 > p - 1 THEN 0 ELSE (p - 1) - (a + 1) + 1
    <3>1. a + 1 \in Int /\ p - 1 \in Int
      BY <1>1, <2>1
    <3> HIDE DEF a
    <3> QED BY <3>1, FS_Interval
  <2>5. (IF a + 1 > p - 1 THEN 0 ELSE (p - 1) - (a + 1) + 1) = p - 1 - a
    <3>1. a \in Nat /\ p \in Nat /\ a < p
      BY <1>1, <2>1
    <3> HIDE DEF a
    <3> QED BY <3>1
  <2>6. Cardinality(B(p)) = p - 1 - a
    BY <2>3, <2>4, <2>5
  <2> QED BY <2>1, <2>6
<1>3. n \in Nat /\ n \in DOMAIN Layout /\ Layout[n] = g
  <2>1. n \in Nat /\ Ahead(s) < n /\ n <= Ahead(s + 1)
    BY <1>1
  <2> HIDE DEF n
  <2> QED BY <2>1, LayoutFacts
<1>4. P(n)
  <2>1. Cardinality(B(n)) = n - 1 - a
    BY <1>2, <1>3
  <2>2. n - 1 - a = k
    BY <1>1
  <2> QED BY <1>3, <2>1, <2>2
<1>5. \A p \in DOMAIN Layout : P(p) => p = n
  <2> SUFFICES ASSUME NEW p \in DOMAIN Layout, P(p) PROVE p = n
    OBVIOUS
  <2>1. p \in Nat /\ Cardinality(B(p)) = p - 1 - a
    BY <1>2
  <2>2. p - 1 - a = k
    BY <2>1
  <2> QED BY <1>1, <2>1, <2>2
<1>6. Place(g, k) = CHOOSE p \in DOMAIN Layout : P(p)
  BY DEF Place
<1> HIDE DEF P, n
<1>7. (CHOOSE p \in DOMAIN Layout : P(p)) = n
  BY <1>3, <1>4, <1>5
<1> QED BY <1>6, <1>7 DEF n

(* A file that has been read to its end.                                   *)
LEMMA WholeFile ==
  ASSUME IInv, verdict = "done", file.comps # <<>>
  PROVE  /\ file \in Files /\ Placed /\ step = 11 /\ Accepted = Ahead(11)
         /\ Ahead(11) \in Nat /\ Ahead(7) > 1
         /\ \A p \in DOMAIN Layout : Layout[p] = "NoC" \/ Found(p)
<1>1. file \in Files /\ Counters /\ Checked /\ Placed /\ step = 11
  BY DEF IInv, Walk, Reading
<1>2. Accepted = Ahead(11) /\ Ahead(11) \in Nat /\ Ahead(7) > 1
  <2>1. i = 0 /\ Ahead(7) > 1
    BY <1>1 DEF Counters
  <2>2. Ahead(11) \in Nat
    BY <1>1, AheadIs
  <2> QED BY <1>1, <2>1, <2>2 DEF Accepted
<1>3. \A p \in DOMAIN Layout : Layout[p] = "NoC" \/ Found(p)
  BY <1>1, <1>2, LayoutFacts DEF Checked
<1> QED BY <1>1, <1>2, <1>3

(* From the walk: a file is accepted if and only if it fits and its core   *)
(* is not lonely, or it has no components.                                 *)
LEMMA VerdictHolds == IInv => VerdictRight
<1> SUFFICES ASSUME IInv PROVE VerdictRight
  OBVIOUS
<1>1. verdict = "misfit" => file.comps # <<>> /\ (~ Fits \/ Lonely)
  BY DEF IInv, Walk
<1>2. ASSUME verdict = "done", file.comps # <<>> PROVE Fits /\ ~ Lonely
  <2>1. /\ file \in Files /\ Ahead(11) \in Nat /\ Ahead(7) > 1
        /\ \A p \in DOMAIN Layout : Layout[p] = "NoC" \/ Found(p)
    BY <1>2, WholeFile
  <2>2. ~ Lonely
    BY <2>1, LayoutFacts, AheadIs
  <2>3. Ahead(11) <= Len(file.comps)
    <3>1. Ahead(11) \in DOMAIN Layout
      <4>1. DOMAIN Layout = 1 .. Ahead(11) /\ Ahead(11) = Ahead(7) + 4 /\ Ahead(7) \in Nat
        BY <2>1, AheadIs, LayoutFacts
      <4>2. 1 <= Ahead(11)
        BY <4>1
      <4> QED BY <2>1, <4>1, <4>2
    <3>2. Layout[Ahead(11)] = Groups[10]
      <4>1. Ahead(10) < Ahead(11) /\ Ahead(10 + 1) = Ahead(11) /\ Ahead(10) \in Nat
        <5>1. Ahead(10 + 1) = Ahead(10) + Size(10) /\ Size(10) = 1 /\ Ahead(10) \in Nat
          BY <2>1, AheadIs, SizesTyped
        <5> QED BY <5>1
      <4> QED BY <2>1, <4>1, LayoutFacts
    <3>3. Found(Ahead(11))
      BY <2>1, <3>1, <3>2, GroupsAre
    <3> QED BY <3>3 DEF Found
  <2>4. Len(file.comps) \in Nat
    <3>1. 0 \in Nat
      OBVIOUS
    <3> QED BY <2>1, <3>1, ChildIs
  <2>5. ASSUME NEW p \in DOMAIN Layout PROVE p <= Len(file.comps)
    <3>1. p \in 1 .. Ahead(11)
      BY <2>1, LayoutFacts
    <3> QED BY <2>1, <2>3, <2>4, <3>1
  <2> QED BY <2>1, <2>2, <2>5 DEF Fits, Found
<1> QED BY <1>1, <1>2 DEF VerdictRight

(* From the walk: each entry was filled from the component of its place.   *)
LEMMA OrderHolds == IInv => FilledInOrder
<1> SUFFICES ASSUME IInv, verdict = "done", NEW g \in GroupNames, NEW k \in 0 .. Entries - 1,
                    filled[g][k] # 0
             PROVE  filled[g][k] = Place(g, k)
  BY DEF FilledInOrder
<1>1. file \in Files /\ Placed
  BY DEF IInv, Walk, Reading
<1>2. PICK s \in 1 .. 10 : g = Groups[s]
  BY GroupsAre DEF GroupNames
<1>3. k \in Nat /\ Ahead(s) \in Nat /\ Ahead(s) + k + 1 \in Nat
  BY <1>1, AheadIs
<1>4. filled[g][k] = Ahead(s) + k + 1 /\ Ahead(s) + k + 1 <= Ahead(s + 1)
  BY <1>1, <1>2, <1>3 DEF Placed, Steps
<1> QED BY <1>1, <1>2, <1>3, <1>4, PlaceIs

(* Every file is judged rightly and fills each entry from the component of *)
(* its place, and no counter leaves its bounds.                            *)
THEOREM FilesRightCorrect == Spec => []FilesRight
<1>1. IInv => FilesRight
  BY VerdictHolds, OrderHolds DEF FilesRight, ParseRight, IInv
<1> QED BY <1>1, Invariance, PTL

-----------------------------------------------------------------------------
(* What an entry was filled from.                                          *)
LEMMA FillerIs ==
  ASSUME IInv, verdict = "done", file.comps # <<>>,
         NEW s \in 1 .. 10, NEW k \in 0 .. Entries - 1
  PROVE  \/ Filler(Groups[s], k) = Groups[s]
         \/ Groups[s] = "L2" /\ Filler(Groups[s], k) = "L2Directory"
         \/ /\ Filler(Groups[s], k) = "initial"
            /\ k < Size(s) => s = 6 /\ Passed
<1> DEFINE g == Groups[s]
           p == Ahead(s) + k + 1
<1>1. /\ file \in Files /\ Placed /\ Accepted = Ahead(11) /\ Ahead(11) \in Nat
  BY WholeFile
<1>2. /\ p \in Nat /\ k \in Nat /\ Ahead(s) \in Nat /\ Size(s) \in Nat
      /\ Ahead(s + 1) = Ahead(s) + Size(s) /\ Ahead(s + 1) <= Ahead(11)
  <2>1. s \in 1 .. 11 /\ 11 \in 1 .. 11 /\ s < 11
    OBVIOUS
  <2>2. k \in Nat
    OBVIOUS
  <2>3. file \in Files
    BY <1>1
  <2>4. /\ Ahead(s) \in Nat /\ Size(s) \in Nat /\ Ahead(s + 1) = Ahead(s) + Size(s)
        /\ Ahead(s) + Size(s) <= Ahead(11)
    BY <2>1, <2>3, AheadIs, SizesTyped
  <2> QED BY <2>2, <2>4
<1>3. \/ filled[g][k] = p /\ p <= Ahead(s + 1) /\ Found(p)
      \/ /\ filled[g][k] = 0
         /\ p > Ahead(s + 1) \/ p > Accepted \/ (s = 6 /\ Passed)
  BY <1>1, <1>2 DEF Placed, Steps
<1>4. CASE filled[g][k] = p /\ p <= Ahead(s + 1) /\ Found(p)
  <2>1. p # 0 /\ Ahead(s) < p
    BY <1>2
  <2>2. Filler(g, k) = file.comps[p]
    BY <1>4, <2>1 DEF Filler
  <2>3. Layout[p] = g
    BY <1>1, <1>2, <1>4, <2>1, LayoutFacts
  <2>4. Matches(g, file.comps[p])
    BY <1>4, <2>3 DEF Found
  <2> QED BY <2>2, <2>4 DEF Matches
<1>5. CASE /\ filled[g][k] = 0
           /\ p > Ahead(s + 1) \/ p > Accepted \/ (s = 6 /\ Passed)
  <2>1. Filler(g, k) = "initial"
    BY <1>5 DEF Filler
  <2>2. ASSUME k < Size(s) PROVE s = 6 /\ Passed
    <3>1. p <= Ahead(s + 1) /\ p <= Accepted
      BY <1>1, <1>2, <2>2
    <3> QED BY <1>1, <1>2, <1>5, <3>1
  <2> QED BY <2>1, <2>2
<1> QED BY <1>3, <1>4, <1>5

(* No unit is built that the numbers of the file do not ask for.           *)
LEMMA AskedFor ==
  ASSUME file \in Files, NEW s \in 1 .. 10, NEW k \in 0 .. NumBuilt(Groups[s]) - 1
  PROVE  k \in 0 .. Entries - 1 /\ k < Size(s)
<1> DEFINE g == Groups[s]
<1>1. Entries \in Nat \ {0} /\ UIntMax \in Nat
  BY InputAssumption
<1>2. file.num \in [Counted -> 0 .. Entries] /\ file.homo \in [Counted -> BOOLEAN]
  BY FilesAssumption
<1>3. CASE s \in 7 .. 10
  <2>1. g \in {Singles[j] : j \in DOMAIN Singles}
    <3>1. s \in {7, 8, 9, 10}
      BY <1>3
    <3>2. 1 \in 1 .. 4 /\ 2 \in 1 .. 4 /\ 3 \in 1 .. 4 /\ 4 \in 1 .. 4
      OBVIOUS
    <3> QED BY <3>1, <3>2, GroupsAre, SinglesAre
  <2>2. NumBuilt(g) = 1
    BY <2>1 DEF NumBuilt
  <2>3. Size(s) = 1
    BY <1>3, SizesTyped
  <2> QED BY <1>1, <2>2, <2>3
<1>4. CASE s \in 1 .. 6
  <2>1. g \in Counted /\ g \notin {Singles[j] : j \in DOMAIN Singles}
    <3>1. s \in {1, 2, 3, 4, 5, 6}
      BY <1>4
    <3>2. /\ \A j \in 1 .. 4 : j \in {1, 2, 3, 4}
          /\ 1 \in 1 .. 5 /\ 2 \in 1 .. 5 /\ 3 \in 1 .. 5 /\ 4 \in 1 .. 5 /\ 5 \in 1 .. 5
      OBVIOUS
    <3> QED BY <3>1, <3>2, GroupsAre, SharedAre, SinglesAre DEF Counted
  <2>2. file.num[g] \in 0 .. Entries /\ file.homo[g] \in BOOLEAN
    BY <1>2, <2>1
  <2>3. NumBuilt(g) = IF file.homo[g] THEN (IF file.num[g] = 0 THEN 0 ELSE 1) ELSE file.num[g]
    BY <2>1 DEF NumBuilt
  <2>4. NumBuilt(g) \in 0 .. Entries /\ NumBuilt(g) <= Size(s)
    <3>1. CASE s = 1
      <4>1. g = "core"
        BY <3>1, GroupsAre
      <4>2. Size(s) = LastCore + 1
        BY <3>1, SizesTyped
      <4> QED BY <1>1, <2>2, <2>3, <4>1, <4>2 DEF LastCore
    <3>2. CASE s # 1
      <4>1. Size(s) = Count(g)
        BY <1>4, <3>2 DEF Size
      <4> QED BY <1>1, <2>2, <2>3, <4>1 DEF Count
    <3> QED BY <3>1, <3>2
  <2>5. Size(s) \in Nat
    BY SizesTyped
  <2> HIDE DEF g
  <2>6. k \in 0 .. NumBuilt(g) - 1
    BY DEF g
  <2> QED BY <1>1, <2>4, <2>5, <2>6
<1>5. s \in 7 .. 10 \/ s \in 1 .. 6
  OBVIOUS
<1> QED BY <1>3, <1>4, <1>5

(* No other action changes which unit is there.                            *)
LEMMA OnlyBuildUnitBuilds ==
  ASSUME Next, unit' # unit
  PROVE  BuildUnit
<1>1. ~ UNCHANGED lifeVars
  BY DEF lifeVars
<1>2. ~ UNCHANGED vars
  BY <1>1 DEF vars
<1> QED BY <1>1, <1>2, LiveKeeps DEF Next, ExitPrivate, ExitFlash, Stopped

(* A unit reads the entries of its own components, whatever the file.      *)
THEOREM OwnComponentCorrect == Spec => OwnComponent
<1> DEFINE Allowed(s) ==
      \/ s[1] = s[2] \/ file.comps = <<>>
      \/ s = <<"L2", "L2Directory">>
      \/ /\ s = <<"NoC", "initial">>
         /\ \E k \in DOMAIN Layout : Layout[k] = "NoC" /\ file.comps[k] # "NoC"
      \/ home' = "L3" /\ s = <<"L2", "initial">>
<1>1. ASSUME IInv, BuildUnit
      PROVE  \A s \in sources' : Allowed(s)
  <2>1. PICK g \in GroupNames :
          \E k \in 0 .. NumBuilt(g) - 1, uc \in AllUnits[g] : Build(g, k, uc[1], uc[2])
    BY <1>1 DEF BuildUnit
  <2>2. PICK k \in 0 .. NumBuilt(g) - 1, uc \in AllUnits[g] : Build(g, k, uc[1], uc[2])
    BY <2>1
  <2>3. /\ verdict = "done" /\ ~ PrivateMismatch /\ home' = g
        /\ sources' = {<<e, Filler(e, k)>> : e \in EntriesOf(g)}
    BY <1>1, <2>2 DEF BuildUnit, Build
  <2>4. file \in Files
    BY <1>1, <2>3 DEF IInv, Walk, Reading
  <2> SUFFICES ASSUME file.comps # <<>>, NEW e \in EntriesOf(g)
               PROVE  Allowed(<<e, Filler(e, k)>>)
    BY <2>3
  <2>5. PICK t \in 1 .. 10 : g = Groups[t]
    BY GroupsAre DEF GroupNames
  <2>6. k \in 0 .. Entries - 1 /\ k < Size(t)
    BY <2>4, <2>5, AskedFor
  <2>7. Passed => \E p \in DOMAIN Layout : Layout[p] = "NoC" /\ file.comps[p] # "NoC"
    BY DEF Passed
  <2>8. ASSUME NEW s \in 1 .. 10, e = Groups[s], k < Size(s)
        PROVE  Allowed(<<e, Filler(e, k)>>)
    <3>1. \/ Filler(e, k) = e
          \/ e = "L2" /\ Filler(e, k) = "L2Directory"
          \/ Filler(e, k) = "initial" /\ s = 6 /\ Passed
      BY <1>1, <2>3, <2>6, <2>8, FillerIs
    <3> QED BY <2>7, <2>8, <3>1, GroupsAre
  <2>9. CASE e = g
    BY <2>5, <2>6, <2>8, <2>9
  <2>10. CASE e = "core" /\ g = "L2" /\ file.private
    <3>1. NumBuilt("core") = NumBuilt("L2")
      BY <2>3, <2>10 DEF PrivateMismatch
    <3>2. k \in 0 .. NumBuilt(Groups[1]) - 1
      BY <2>10, <3>1, GroupsAre
    <3>3. 1 \in 1 .. 10 /\ k < Size(1) /\ e = Groups[1]
      BY <2>4, <2>10, <3>2, AskedFor, GroupsAre
    <3> QED BY <2>8, <3>3
  <2>11. CASE e = "L2" /\ g = "L3"
    <3>1. 4 \in 1 .. 10 /\ Groups[4] = e
      BY <2>11, GroupsAre
    <3>2. \/ Filler(e, k) = e
          \/ e = "L2" /\ Filler(e, k) = "L2Directory"
          \/ Filler(e, k) = "initial"
      BY <1>1, <2>3, <2>6, <3>1, FillerIs
    <3> QED BY <2>3, <2>11, <3>2
  <2>12. e = g \/ (e = "core" /\ g = "L2" /\ file.private) \/ (e = "L2" /\ g = "L3")
    BY DEF EntriesOf, VccEntry, When
  <2> QED BY <2>9, <2>10, <2>11, <2>12
<1>2. IInv /\ Next /\ unit' # unit => \A s \in sources' : Allowed(s)
  BY <1>1, OnlyBuildUnitBuilds
<1>3. IInv /\ [Next]_vars => [unit' # unit => \A s \in sources' : Allowed(s)]_vars
  BY <1>2
<1> QED BY <1>3, Invariance, PTL DEF Spec, OwnComponent

-----------------------------------------------------------------------------
(* The life of the units. First the tables of each class, for all flags:   *)
(* what is used was made, what was made is released, what is charged has   *)
(* its statistics, and what is displayed was charged.                      *)

(* The parts a unit's calls and figures use are parts it made.             *)
Present(u, c) ==
  LET r == Table(u, c)
      There(p) == p \in r.made \/ p \in Members(u, c)
  IN /\ \A p : p \in r.peak \/ p \in DOMAIN r.run => There(p)
     /\ \A f, p : <<f, p>> \in r.charge => There(p)
     /\ \A f, p : <<f, p>> \in r.sum[TRUE] => There(p)
     /\ \A f, p : <<f, p>> \in r.sum[FALSE] => There(p)

(* What it allocates it deletes.                                           *)
Released(u, c) ==
  \A p : p \in Table(u, c).made => p \in Table(u, c).gone \/ p \in Members(u, c)

(* Both calls set the statistics of what they charge for, but for home     *)
(* nodes, which the runtime call leaves alone.                             *)
Sourced(u, c) ==
  LET r == Table(u, c)
  IN /\ \A f, p : <<f, p>> \in r.charge /\ p \notin r.fixed =>
          p \in r.peak /\ (p # "homenode" => p \in DOMAIN r.run)
     /\ "homenode" \notin DOMAIN r.run

(* The figures displayed are those charged.                                *)
Displayed(u, c) ==
  LET r == Table(u, c)
  IN \A f : f \in r.shown <=>
       IF u = "MCFrontEnd" THEN f \in McBuffers
       ELSE f \notin {"undiffCore", "backend", "phy"} /\ \E p : <<f, p>> \in r.charge

Sound(u, c) == Present(u, c) /\ Released(u, c) /\ Sourced(u, c) /\ Displayed(u, c)

(* The pairs of parts with a figure of their own.                          *)
LEMMA OwnIs == \A S, f, p : <<f, p>> \in Own(S) <=> f = p /\ p \in S
  BY DEF Own

(* Which rows joined tables have.                                          *)
LEMMA JoinDomain ==
  \A f, g, x : x \in DOMAIN (f @@ g) <=> x \in DOMAIN f \/ x \in DOMAIN g
  BY DEF @@

(* The empty table.                                                        *)
LEMMA NoDomain == \A x : x \notin DOMAIN << >>
  OBVIOUS

(* One row for each of S.                                                  *)
LEMMA EachDomain == \A S, x, n : x \in DOMAIN Each(S, n) <=> x \in S
  BY DEF Each

(* A table of one row.                                                     *)
LEMMA RowDomain == \A a, x, n : x \in DOMAIN (a :> n) <=> x = a
  BY DEF :>

(* InstFetchU.                                                             *)
LEMMA InstFetchUSound ==
  ASSUME NEW c PROVE Sound("InstFetchU", c)
<1> DEFINE r == Table("InstFetchU", c)
<1>1. /\ r.made = InstFetchU_made(c) /\ r.peak = InstFetchU_peak(c)
      /\ r.run = InstFetchU_run(c) /\ r.charge = InstFetchU_charge(c)
      /\ r.sum[TRUE] = InstFetchU_sum(c, TRUE) /\ r.sum[FALSE] = InstFetchU_sum(c, FALSE)
      /\ r.fixed = {} /\ r.shown = InstFetchU_shown(c, TRUE)
      /\ r.gone = InstFetchU_gone(c)
      /\ Members("InstFetchU", c) = {}
  BY DEF Table, Row, Members
<1> HIDE DEF r
<1>2. \A p : p \in DOMAIN r.run => p \in r.peak
  BY <1>1, JoinDomain, EachDomain, RowDomain, NoDomain DEF InstFetchU_run, InstFetchU_peak,
  Rows, ICache, Decoders, When
<1>3. \A p : p \in r.peak => p \in DOMAIN r.run
  BY <1>1, JoinDomain, EachDomain, RowDomain, NoDomain DEF InstFetchU_run, InstFetchU_peak,
  Rows, ICache, Decoders, When
<1>4. Present("InstFetchU", c)
  <2>1. \A p : p \in r.peak => p \in r.made
    BY <1>1 DEF InstFetchU_made, InstFetchU_peak, ICache, Decoders, When
  <2>2. \A f, p : <<f, p>> \in r.charge => p \in r.made
    BY <1>1, OwnIs DEF InstFetchU_made, InstFetchU_charge, ICache, Decoders, When
  <2>3. \A f, p : <<f, p>> \in r.sum[TRUE] \/ <<f, p>> \in r.sum[FALSE] => p \in r.made
    BY <1>1, OwnIs DEF InstFetchU_made, InstFetchU_sum, ICache, Decoders, When
  <2> QED BY <1>1, <1>2, <2>1, <2>2, <2>3 DEF r, Present
<1>5. Released("InstFetchU", c)
  BY <1>1 DEF r, Released, InstFetchU_made, InstFetchU_gone, ICache, Decoders, When
<1>6. Sourced("InstFetchU", c)
  BY <1>1, <1>2, <1>3, OwnIs DEF r, Sourced, InstFetchU_charge, InstFetchU_peak, ICache,
  Decoders, When
<1>7. Displayed("InstFetchU", c)
  <2>1. \A f : f \in r.shown => <<f, f>> \in r.charge \/ <<f, "icache.caches">> \in r.charge
    BY <1>1, OwnIs DEF InstFetchU_charge, InstFetchU_shown, ICache, Decoders, When
  <2>2. \A f, p : <<f, p>> \in r.charge =>
          f \in r.shown \/ f \in {"undiffCore", "backend", "phy"}
    BY <1>1, OwnIs DEF InstFetchU_charge, InstFetchU_shown, ICache, Decoders, When
  <2>3. \A f : f \in r.shown => f \notin {"undiffCore", "backend", "phy"}
    BY <1>1 DEF InstFetchU_shown, ICache, Decoders, When
  <2> QED BY <2>1, <2>2, <2>3 DEF r, Displayed
<1> QED BY <1>4, <1>5, <1>6, <1>7 DEF Sound

(* BranchPredictor.                                                        *)
LEMMA BranchPredictorSound ==
  ASSUME NEW c PROVE Sound("BranchPredictor", c)
<1> DEFINE r == Table("BranchPredictor", c)
<1>1. /\ r.made = BranchPredictor_made(c) /\ r.peak = BranchPredictor_peak(c)
      /\ r.run = BranchPredictor_run(c) /\ r.charge = BranchPredictor_charge(c)
      /\ r.sum[TRUE] = BranchPredictor_sum(c, TRUE) /\
           r.sum[FALSE] = BranchPredictor_sum(c, FALSE)
      /\ r.fixed = {} /\ r.shown = BranchPredictor_shown(c, TRUE)
      /\ r.gone = BranchPredictor_gone(c)
      /\ Members("BranchPredictor", c) = {}
  BY DEF Table, Row, Members
<1> HIDE DEF r
<1>2. \A p : p \in DOMAIN r.run => p \in r.peak
  BY <1>1, JoinDomain, EachDomain, RowDomain, NoDomain DEF BranchPredictor_run,
  BranchPredictor_peak, Rows, Predictors, When
<1>3. \A p : p \in r.peak => p \in DOMAIN r.run
  BY <1>1, JoinDomain, EachDomain, RowDomain, NoDomain DEF BranchPredictor_run,
  BranchPredictor_peak, Rows, Predictors, When
<1>4. Present("BranchPredictor", c)
  <2>1. \A p : p \in r.peak => p \in r.made
    BY <1>1 DEF BranchPredictor_made, BranchPredictor_peak, Predictors, When
  <2>2. \A f, p : <<f, p>> \in r.charge => p \in r.made
    BY <1>1, OwnIs DEF BranchPredictor_made, BranchPredictor_charge, Predictors, When
  <2>3. \A f, p : <<f, p>> \in r.sum[TRUE] \/ <<f, p>> \in r.sum[FALSE] => p \in r.made
    BY <1>1, OwnIs DEF BranchPredictor_made, BranchPredictor_sum, Predictors, When
  <2> QED BY <1>1, <1>2, <2>1, <2>2, <2>3 DEF r, Present
<1>5. Released("BranchPredictor", c)
  BY <1>1 DEF r, Released, BranchPredictor_made, BranchPredictor_gone, Predictors, When
<1>6. Sourced("BranchPredictor", c)
  BY <1>1, <1>2, <1>3, OwnIs DEF r, Sourced, BranchPredictor_charge, BranchPredictor_peak,
  Predictors, When
<1>7. Displayed("BranchPredictor", c)
  <2>1. \A f : f \in r.shown => <<f, f>> \in r.charge
    BY <1>1, OwnIs DEF BranchPredictor_charge, BranchPredictor_shown, Predictors, When
  <2>2. \A f, p : <<f, p>> \in r.charge =>
          f \in r.shown \/ f \in {"undiffCore", "backend", "phy"}
    BY <1>1, OwnIs DEF BranchPredictor_charge, BranchPredictor_shown, Predictors, When
  <2>3. \A f : f \in r.shown => f \notin {"undiffCore", "backend", "phy"}
    BY <1>1 DEF BranchPredictor_shown, Predictors, When
  <2> QED BY <2>1, <2>2, <2>3 DEF r, Displayed
<1> QED BY <1>4, <1>5, <1>6, <1>7 DEF Sound

(* RENAMINGU of an out-of-order core.                                      *)
LEMMA RENAMINGUSound ==
  ASSUME NEW c, "OOO" \in c
  PROVE  Sound("RENAMINGU", c)
<1> DEFINE r == Table("RENAMINGU", c)
<1>1. /\ r.made = RENAMINGU_made(c) /\ r.peak = RENAMINGU_peak(c)
      /\ r.run = RENAMINGU_run(c) /\ r.charge = RENAMINGU_charge(c)
      /\ r.sum[TRUE] = RENAMINGU_sum(c, TRUE) /\ r.sum[FALSE] = RENAMINGU_sum(c, FALSE)
      /\ r.fixed = RENAMINGU_fixed(c) /\ r.shown = RENAMINGU_shown(c, TRUE)
      /\ r.gone = RENAMINGU_gone(c)
      /\ Members("RENAMINGU", c) = {}
  BY DEF Table, Row, Members
<1> HIDE DEF r
<1>2. \A p : p \in DOMAIN r.run => p \in r.peak
  BY <1>1, JoinDomain, EachDomain, RowDomain, NoDomain DEF RENAMINGU_run, RENAMINGU_peak,
  Rows, RENAMINGU_physical, RENAMINGU_reservation, FRATs, RRATs, DCLs, FreeLists, HasRRAT,
  When
<1>3. \A p : p \in r.peak => p \in DOMAIN r.run
  BY <1>1, JoinDomain, EachDomain, RowDomain, NoDomain DEF RENAMINGU_run, RENAMINGU_peak,
  Rows, RENAMINGU_physical, RENAMINGU_reservation, FRATs, RRATs, DCLs, FreeLists, HasRRAT,
  When
<1>4. Present("RENAMINGU", c)
  <2>1. \A p : p \in r.peak => p \in r.made
    BY <1>1 DEF RENAMINGU_made, RENAMINGU_peak, RENAMINGU_physical, RENAMINGU_reservation,
    FRATs, RRATs, DCLs, FreeLists, HasRRAT, When
  <2>2. \A f, p : <<f, p>> \in r.charge => p \in r.made
    BY <1>1, OwnIs DEF RENAMINGU_made, RENAMINGU_charge, RENAMINGU_physical,
    RENAMINGU_reservation, FRATs, RRATs, DCLs, FreeLists, HasRRAT, When
  <2>3. \A f, p : <<f, p>> \in r.sum[TRUE] \/ <<f, p>> \in r.sum[FALSE] => p \in r.made
    BY <1>1, OwnIs DEF RENAMINGU_made, RENAMINGU_sum, RENAMINGU_physical,
    RENAMINGU_reservation, FRATs, RRATs, DCLs, FreeLists, HasRRAT, When
  <2> QED BY <1>1, <1>2, <2>1, <2>2, <2>3 DEF r, Present
<1>5. Released("RENAMINGU", c)
  BY <1>1 DEF r, Released, RENAMINGU_made, RENAMINGU_gone, RENAMINGU_physical,
  RENAMINGU_reservation, FRATs, RRATs, DCLs, FreeLists, HasRRAT, When
<1>6. Sourced("RENAMINGU", c)
  BY <1>1, <1>2, <1>3, OwnIs DEF r, Sourced, RENAMINGU_charge, RENAMINGU_peak,
  RENAMINGU_fixed, RENAMINGU_physical, RENAMINGU_reservation, FRATs, RRATs, DCLs, FreeLists,
  HasRRAT, When
<1>7. Displayed("RENAMINGU", c)
  <2>1. \A f : f \in r.shown => <<f, f>> \in r.charge
    BY <1>1, OwnIs DEF RENAMINGU_charge, RENAMINGU_shown, RENAMINGU_physical,
    RENAMINGU_reservation, FRATs, RRATs, DCLs, FreeLists, HasRRAT, When
  <2>2. \A f, p : <<f, p>> \in r.charge =>
          f \in r.shown \/ f \in {"undiffCore", "backend", "phy"}
    BY <1>1, OwnIs DEF RENAMINGU_charge, RENAMINGU_shown, RENAMINGU_physical,
    RENAMINGU_reservation, FRATs, RRATs, DCLs, FreeLists, HasRRAT, When
  <2>3. \A f : f \in r.shown => f \notin {"undiffCore", "backend", "phy"}
    BY <1>1 DEF RENAMINGU_shown, RENAMINGU_physical, RENAMINGU_reservation, FRATs, RRATs,
    DCLs, FreeLists, HasRRAT, When
  <2> QED BY <2>1, <2>2, <2>3 DEF r, Displayed
<1> QED BY <1>4, <1>5, <1>6, <1>7 DEF Sound

(* SchedulerU.                                                             *)
LEMMA SchedulerUSound ==
  ASSUME NEW c PROVE Sound("SchedulerU", c)
<1> DEFINE r == Table("SchedulerU", c)
<1>1. /\ r.made = SchedulerU_made(c) /\ r.peak = SchedulerU_peak(c)
      /\ r.run = SchedulerU_run(c) /\ r.charge = SchedulerU_charge(c)
      /\ r.sum[TRUE] = SchedulerU_sum(c, TRUE) /\ r.sum[FALSE] = SchedulerU_sum(c, FALSE)
      /\ r.fixed = SchedulerU_fixed(c) /\ r.shown = SchedulerU_shown(c, TRUE)
      /\ r.gone = SchedulerU_gone(c)
      /\ Members("SchedulerU", c) = {}
  BY DEF Table, Row, Members
<1> HIDE DEF r
<1>2. \A p : p \in DOMAIN r.run => p \in r.peak
  BY <1>1, JoinDomain, EachDomain, RowDomain, NoDomain DEF SchedulerU_run, SchedulerU_peak,
  Rows, SchedulerU_ooo, SchedulerU_inorder, Windows, Ordered, When
<1>3. \A p : p \in r.peak => p \in DOMAIN r.run
  BY <1>1, JoinDomain, EachDomain, RowDomain, NoDomain DEF SchedulerU_run, SchedulerU_peak,
  Rows, SchedulerU_ooo, SchedulerU_inorder, Windows, Ordered, When
<1>4. Present("SchedulerU", c)
  <2>1. \A p : p \in r.peak => p \in r.made
    BY <1>1 DEF SchedulerU_made, SchedulerU_peak, SchedulerU_ooo, SchedulerU_inorder,
    Windows, Ordered, When
  <2>2. \A f, p : <<f, p>> \in r.charge => p \in r.made
    BY <1>1, OwnIs DEF SchedulerU_made, SchedulerU_charge, SchedulerU_ooo,
    SchedulerU_inorder, Windows, Ordered, When
  <2>3. \A f, p : <<f, p>> \in r.sum[TRUE] \/ <<f, p>> \in r.sum[FALSE] => p \in r.made
    BY <1>1, OwnIs DEF SchedulerU_made, SchedulerU_sum, SchedulerU_ooo, SchedulerU_inorder,
    Windows, Ordered, When
  <2> QED BY <1>1, <1>2, <2>1, <2>2, <2>3 DEF r, Present
<1>5. Released("SchedulerU", c)
  BY <1>1 DEF r, Released, SchedulerU_made, SchedulerU_gone, SchedulerU_ooo,
  SchedulerU_inorder, Windows, Ordered, When
<1>6. Sourced("SchedulerU", c)
  BY <1>1, <1>2, <1>3, OwnIs DEF r, Sourced, SchedulerU_charge, SchedulerU_peak,
  SchedulerU_fixed, SchedulerU_ooo, SchedulerU_inorder, Windows, Ordered, When
<1>7. Displayed("SchedulerU", c)
  <2>1. \A f : f \in r.shown => <<f, f>> \in r.charge
    BY <1>1, OwnIs DEF SchedulerU_charge, SchedulerU_shown, SchedulerU_ooo,
    SchedulerU_inorder, Windows, Ordered, When
  <2>2. \A f, p : <<f, p>> \in r.charge =>
          f \in r.shown \/ f \in {"undiffCore", "backend", "phy"}
    BY <1>1, OwnIs DEF SchedulerU_charge, SchedulerU_shown, SchedulerU_ooo,
    SchedulerU_inorder, Windows, Ordered, When
  <2>3. \A f : f \in r.shown => f \notin {"undiffCore", "backend", "phy"}
    BY <1>1 DEF SchedulerU_shown, SchedulerU_ooo, SchedulerU_inorder, Windows, Ordered, When
  <2> QED BY <2>1, <2>2, <2>3 DEF r, Displayed
<1> QED BY <1>4, <1>5, <1>6, <1>7 DEF Sound

(* LoadStoreU.                                                             *)
LEMMA LoadStoreUSound ==
  ASSUME NEW c PROVE Sound("LoadStoreU", c)
<1> DEFINE r == Table("LoadStoreU", c)
<1>1. /\ r.made = LoadStoreU_made(c) /\ r.peak = LoadStoreU_peak(c)
      /\ r.run = LoadStoreU_run(c) /\ r.charge = LoadStoreU_charge(c)
      /\ r.sum[TRUE] = LoadStoreU_sum(c, TRUE) /\ r.sum[FALSE] = LoadStoreU_sum(c, FALSE)
      /\ r.fixed = {} /\ r.shown = LoadStoreU_shown(c, TRUE)
      /\ r.gone = LoadStoreU_gone(c)
      /\ Members("LoadStoreU", c) = {}
  BY DEF Table, Row, Members
<1> HIDE DEF r
<1>2. \A p : p \in DOMAIN r.run => p \in r.peak
  BY <1>1, JoinDomain, EachDomain, RowDomain, NoDomain DEF LoadStoreU_run, LoadStoreU_peak,
  Rows, DCache, HasLoadQ, When
<1>3. \A p : p \in r.peak => p \in DOMAIN r.run
  BY <1>1, JoinDomain, EachDomain, RowDomain, NoDomain DEF LoadStoreU_run, LoadStoreU_peak,
  Rows, DCache, HasLoadQ, When
<1>4. Present("LoadStoreU", c)
  <2>1. \A p : p \in r.peak => p \in r.made
    BY <1>1 DEF LoadStoreU_made, LoadStoreU_peak, DCache, HasLoadQ, When
  <2>2. \A f, p : <<f, p>> \in r.charge => p \in r.made
    BY <1>1, OwnIs DEF LoadStoreU_made, LoadStoreU_charge, DCache, HasLoadQ, When
  <2>3. \A f, p : <<f, p>> \in r.sum[TRUE] \/ <<f, p>> \in r.sum[FALSE] => p \in r.made
    BY <1>1, OwnIs DEF LoadStoreU_made, LoadStoreU_sum, DCache, HasLoadQ, When
  <2> QED BY <1>1, <1>2, <2>1, <2>2, <2>3 DEF r, Present
<1>5. Released("LoadStoreU", c)
  BY <1>1 DEF r, Released, LoadStoreU_made, LoadStoreU_gone, DCache, HasLoadQ, When
<1>6. Sourced("LoadStoreU", c)
  BY <1>1, <1>2, <1>3, OwnIs DEF r, Sourced, LoadStoreU_charge, LoadStoreU_peak, DCache,
  HasLoadQ, When
<1>7. Displayed("LoadStoreU", c)
  <2>1. \A f : f \in r.shown => <<f, f>> \in r.charge \/ <<f, "dcache.caches">> \in r.charge
    BY <1>1, OwnIs DEF LoadStoreU_charge, LoadStoreU_shown, DCache, HasLoadQ, When
  <2>2. \A f, p : <<f, p>> \in r.charge =>
          f \in r.shown \/ f \in {"undiffCore", "backend", "phy"}
    BY <1>1, OwnIs DEF LoadStoreU_charge, LoadStoreU_shown, DCache, HasLoadQ, When
  <2>3. \A f : f \in r.shown => f \notin {"undiffCore", "backend", "phy"}
    BY <1>1 DEF LoadStoreU_shown, DCache, HasLoadQ, When
  <2> QED BY <2>1, <2>2, <2>3 DEF r, Displayed
<1> QED BY <1>4, <1>5, <1>6, <1>7 DEF Sound

(* MemManU.                                                                *)
LEMMA MemManUSound ==
  ASSUME NEW c PROVE Sound("MemManU", c)
<1> DEFINE r == Table("MemManU", c)
<1>1. /\ r.made = MemManU_made(c) /\ r.peak = MemManU_peak(c)
      /\ r.run = MemManU_run(c) /\ r.charge = MemManU_charge(c)
      /\ r.sum[TRUE] = MemManU_sum(c, TRUE) /\ r.sum[FALSE] = MemManU_sum(c, FALSE)
      /\ r.fixed = {} /\ r.shown = MemManU_shown(c, TRUE)
      /\ r.gone = MemManU_gone(c)
      /\ Members("MemManU", c) = {}
  BY DEF Table, Row, Members
<1> HIDE DEF r
<1>2. \A p : p \in DOMAIN r.run => p \in r.peak
  BY <1>1, JoinDomain, EachDomain, RowDomain, NoDomain DEF MemManU_run, MemManU_peak, Rows,
  TLBs, When
<1>3. \A p : p \in r.peak => p \in DOMAIN r.run
  BY <1>1, JoinDomain, EachDomain, RowDomain, NoDomain DEF MemManU_run, MemManU_peak, Rows,
  TLBs, When
<1>4. Present("MemManU", c)
  <2>1. \A p : p \in r.peak => p \in r.made
    BY <1>1 DEF MemManU_made, MemManU_peak, TLBs, When
  <2>2. \A f, p : <<f, p>> \in r.charge => p \in r.made
    BY <1>1, OwnIs DEF MemManU_made, MemManU_charge, TLBs, When
  <2>3. \A f, p : <<f, p>> \in r.sum[TRUE] \/ <<f, p>> \in r.sum[FALSE] => p \in r.made
    BY <1>1, OwnIs DEF MemManU_made, MemManU_sum, TLBs, When
  <2> QED BY <1>1, <1>2, <2>1, <2>2, <2>3 DEF r, Present
<1>5. Released("MemManU", c)
  BY <1>1 DEF r, Released, MemManU_made, MemManU_gone, TLBs, When
<1>6. Sourced("MemManU", c)
  BY <1>1, <1>2, <1>3, OwnIs DEF r, Sourced, MemManU_charge, MemManU_peak, TLBs, When
<1>7. Displayed("MemManU", c)
  <2>1. \A f : f \in r.shown => <<f, f>> \in r.charge
    BY <1>1, OwnIs DEF MemManU_charge, MemManU_shown, TLBs, When
  <2>2. \A f, p : <<f, p>> \in r.charge =>
          f \in r.shown \/ f \in {"undiffCore", "backend", "phy"}
    BY <1>1, OwnIs DEF MemManU_charge, MemManU_shown, TLBs, When
  <2>3. \A f : f \in r.shown => f \notin {"undiffCore", "backend", "phy"}
    BY <1>1 DEF MemManU_shown, TLBs, When
  <2> QED BY <2>1, <2>2, <2>3 DEF r, Displayed
<1> QED BY <1>4, <1>5, <1>6, <1>7 DEF Sound

(* RegFU.                                                                  *)
LEMMA RegFUSound ==
  ASSUME NEW c PROVE Sound("RegFU", c)
<1> DEFINE r == Table("RegFU", c)
<1>1. /\ r.made = RegFU_made(c) /\ r.peak = RegFU_peak(c)
      /\ r.run = RegFU_run(c) /\ r.charge = RegFU_charge(c)
      /\ r.sum[TRUE] = RegFU_sum(c, TRUE) /\ r.sum[FALSE] = RegFU_sum(c, FALSE)
      /\ r.fixed = {} /\ r.shown = RegFU_shown(c, TRUE)
      /\ r.gone = RegFU_gone(c)
      /\ Members("RegFU", c) = {}
  BY DEF Table, Row, Members
<1> HIDE DEF r
<1>2. \A p : p \in DOMAIN r.run => p \in r.peak
  BY <1>1, JoinDomain, EachDomain, RowDomain, NoDomain DEF RegFU_run, RegFU_peak, Rows,
  RegFiles, Windowed, When
<1>3. \A p : p \in r.peak => p \in DOMAIN r.run
  BY <1>1, JoinDomain, EachDomain, RowDomain, NoDomain DEF RegFU_run, RegFU_peak, Rows,
  RegFiles, Windowed, When
<1>4. Present("RegFU", c)
  <2>1. \A p : p \in r.peak => p \in r.made
    BY <1>1 DEF RegFU_made, RegFU_peak, RegFiles, Windowed, When
  <2>2. \A f, p : <<f, p>> \in r.charge => p \in r.made
    BY <1>1, OwnIs DEF RegFU_made, RegFU_charge, RegFiles, Windowed, When
  <2>3. \A f, p : <<f, p>> \in r.sum[TRUE] \/ <<f, p>> \in r.sum[FALSE] => p \in r.made
    BY <1>1, OwnIs DEF RegFU_made, RegFU_sum, RegFiles, Windowed, When
  <2> QED BY <1>1, <1>2, <2>1, <2>2, <2>3 DEF r, Present
<1>5. Released("RegFU", c)
  BY <1>1 DEF r, Released, RegFU_made, RegFU_gone, RegFiles, Windowed, When
<1>6. Sourced("RegFU", c)
  BY <1>1, <1>2, <1>3, OwnIs DEF r, Sourced, RegFU_charge, RegFU_peak, RegFiles, Windowed,
  When
<1>7. Displayed("RegFU", c)
  <2>1. \A f : f \in r.shown => <<f, f>> \in r.charge
    BY <1>1, OwnIs DEF RegFU_charge, RegFU_shown, RegFiles, Windowed, When
  <2>2. \A f, p : <<f, p>> \in r.charge =>
          f \in r.shown \/ f \in {"undiffCore", "backend", "phy"}
    BY <1>1, OwnIs DEF RegFU_charge, RegFU_shown, RegFiles, Windowed, When
  <2>3. \A f : f \in r.shown => f \notin {"undiffCore", "backend", "phy"}
    BY <1>1 DEF RegFU_shown, RegFiles, Windowed, When
  <2> QED BY <2>1, <2>2, <2>3 DEF r, Displayed
<1> QED BY <1>4, <1>5, <1>6, <1>7 DEF Sound

(* FunctionalUnit of one of the three kinds.                               *)
LEMMA FunctionalUnitSound ==
  ASSUME NEW c, c \intersect FuTypes # {}
  PROVE  Sound("FunctionalUnit", c)
<1> DEFINE r == Table("FunctionalUnit", c)
<1>1. /\ r.made = {} /\ r.peak = FunctionalUnit_peak(c)
      /\ r.run = FunctionalUnit_run(c) /\ r.charge = FunctionalUnit_charge(c)
      /\ r.sum[TRUE] = FunctionalUnit_sum(c, TRUE) /\
           r.sum[FALSE] = FunctionalUnit_sum(c, FALSE)
      /\ r.fixed = {} /\ r.shown = FunctionalUnit_shown(c, TRUE)
      /\ r.gone = {}
      /\ Members("FunctionalUnit", c) = FunctionalUnit_made(c)
  BY DEF Table, Row, Members
<1> HIDE DEF r
<1>2. \A p : p \in DOMAIN r.run => p \in r.peak
  BY <1>1, JoinDomain, EachDomain, RowDomain, NoDomain DEF FunctionalUnit_run,
  FunctionalUnit_peak, Rows, When
<1>3. \A p : p \in r.peak => p \in DOMAIN r.run
  BY <1>1, JoinDomain, EachDomain, RowDomain, NoDomain DEF FunctionalUnit_run,
  FunctionalUnit_peak, Rows, When
<1>4. Present("FunctionalUnit", c)
  <2>1. \A p : p \in r.peak => p \in Members("FunctionalUnit", c)
    BY <1>1 DEF FunctionalUnit_peak, FunctionalUnit_made, When
  <2>2. \A f, p : <<f, p>> \in r.charge => p \in Members("FunctionalUnit", c)
    BY <1>1, OwnIs DEF FunctionalUnit_charge, FunctionalUnit_made, When
  <2>3. \A f, p : <<f, p>> \in r.sum[TRUE] \/ <<f, p>> \in r.sum[FALSE] =>
          p \in Members("FunctionalUnit", c)
    BY <1>1, OwnIs DEF FunctionalUnit_sum, FunctionalUnit_made, When
  <2> QED BY <1>1, <1>2, <2>1, <2>2, <2>3 DEF r, Present
<1>5. Released("FunctionalUnit", c)
  BY <1>1 DEF r, Released, FunctionalUnit_made, When
<1>6. Sourced("FunctionalUnit", c)
  BY <1>1, <1>2, <1>3, OwnIs DEF r, Sourced, FunctionalUnit_charge, FunctionalUnit_peak,
  When
<1>7. Displayed("FunctionalUnit", c)
  <2>1. \A f : f \in r.shown => <<f, f>> \in r.charge
    BY <1>1, OwnIs DEF FunctionalUnit_charge, FunctionalUnit_shown, When
  <2>2. \A f, p : <<f, p>> \in r.charge =>
          f \in r.shown \/ f \in {"undiffCore", "backend", "phy"}
    BY <1>1, OwnIs DEF FunctionalUnit_charge, FunctionalUnit_shown, When
  <2>3. \A f : f \in r.shown => f \notin {"undiffCore", "backend", "phy"}
    BY <1>1 DEF FunctionalUnit_shown, When
  <2> QED BY <2>1, <2>2, <2>3 DEF r, Displayed
<1> QED BY <1>4, <1>5, <1>6, <1>7 DEF Sound

(* EXECU.                                                                  *)
LEMMA EXECUSound ==
  ASSUME NEW c PROVE Sound("EXECU", c)
<1> DEFINE r == Table("EXECU", c)
<1>1. /\ r.made = EXECU_made(c) /\ r.peak = EXECU_peak(c)
      /\ r.run = EXECU_run(c) /\ r.charge = EXECU_charge(c)
      /\ r.sum[TRUE] = EXECU_sum(c, TRUE) /\ r.sum[FALSE] = EXECU_sum(c, FALSE)
      /\ r.fixed = {} /\ r.shown = EXECU_shown(c, TRUE)
      /\ r.gone = EXECU_gone(c)
      /\ Members("EXECU", c) = {}
  BY DEF Table, Row, Members
<1> HIDE DEF r
<1>2. \A p : p \in DOMAIN r.run => p \in r.peak
  BY <1>1, JoinDomain, EachDomain, RowDomain, NoDomain DEF EXECU_run, EXECU_peak, Rows,
  EXECU_made, ExecUnits, IntBypass, MulBypass, FpBypass, When
<1>3. \A p : p \in r.peak => p \in DOMAIN r.run
  BY <1>1, JoinDomain, EachDomain, RowDomain, NoDomain DEF EXECU_run, EXECU_peak, Rows,
  EXECU_made, ExecUnits, IntBypass, MulBypass, FpBypass, When
<1>4. Present("EXECU", c)
  <2>1. \A p : p \in r.peak => p \in r.made
    BY <1>1 DEF EXECU_made, EXECU_peak, ExecUnits, IntBypass, MulBypass, FpBypass, When
  <2>2. \A f, p : <<f, p>> \in r.charge => p \in r.made
    BY <1>1, OwnIs DEF EXECU_made, EXECU_charge, ExecUnits, IntBypass, MulBypass, FpBypass,
    When
  <2>3. \A f, p : <<f, p>> \in r.sum[TRUE] \/ <<f, p>> \in r.sum[FALSE] => p \in r.made
    BY <1>1, OwnIs DEF EXECU_made, EXECU_sum, ExecUnits, IntBypass, MulBypass, FpBypass,
    When
  <2> QED BY <1>1, <1>2, <2>1, <2>2, <2>3 DEF r, Present
<1>5. Released("EXECU", c)
  BY <1>1 DEF r, Released, EXECU_made, EXECU_gone, ExecUnits, IntBypass, MulBypass,
  FpBypass, When
<1>6. Sourced("EXECU", c)
  BY <1>1, <1>2, <1>3, OwnIs DEF r, Sourced, EXECU_charge, EXECU_peak, EXECU_made,
  ExecUnits, IntBypass, MulBypass, FpBypass, When
<1>7. Displayed("EXECU", c)
  <2>1. \A f : f \in r.shown => <<f, f>> \in r.charge \/ <<f, "int_bypass">> \in r.charge
    BY <1>1, OwnIs DEF EXECU_charge, EXECU_shown, EXECU_made, ExecUnits, IntBypass,
    MulBypass, FpBypass, When
  <2>2. \A f, p : <<f, p>> \in r.charge =>
          f \in r.shown \/ f \in {"undiffCore", "backend", "phy"}
    BY <1>1, OwnIs DEF EXECU_charge, EXECU_shown, EXECU_made, ExecUnits, IntBypass,
    MulBypass, FpBypass, When
  <2>3. \A f : f \in r.shown => f \notin {"undiffCore", "backend", "phy"}
    BY <1>1 DEF EXECU_shown, EXECU_made, ExecUnits, IntBypass, MulBypass, FpBypass, When
  <2> QED BY <2>1, <2>2, <2>3 DEF r, Displayed
<1> QED BY <1>4, <1>5, <1>6, <1>7 DEF Sound

(* Core.                                                                   *)
LEMMA CoreSound ==
  ASSUME NEW c PROVE Sound("Core", c)
<1> DEFINE r == Table("Core", c)
<1>1. /\ r.made = Core_made(c) /\ r.peak = Core_peak(c)
      /\ r.run = Core_run(c) /\ r.charge = Core_charge(c)
      /\ r.sum[TRUE] = Core_sum(c, TRUE) /\ r.sum[FALSE] = Core_sum(c, FALSE)
      /\ r.fixed = Core_fixed(c) /\ r.shown = Core_shown(c, TRUE)
      /\ r.gone = Core_gone(c)
      /\ Members("Core", c) = {}
  BY DEF Table, Row, Members
<1> HIDE DEF r
<1>2. \A p : p \in DOMAIN r.run => p \in r.peak
  BY <1>1, JoinDomain, EachDomain, RowDomain, NoDomain DEF Core_run, Core_peak, Rows,
  CoreUnits, When
<1>3. \A p : p \in r.peak => p \in DOMAIN r.run
  BY <1>1, JoinDomain, EachDomain, RowDomain, NoDomain DEF Core_run, Core_peak, Rows,
  CoreUnits, When
<1>4. Present("Core", c)
  <2>1. \A p : p \in r.peak => p \in r.made
    BY <1>1 DEF Core_made, Core_peak, CoreUnits, When
  <2>2. \A f, p : <<f, p>> \in r.charge => p \in r.made
    BY <1>1, OwnIs DEF Core_made, Core_charge, CoreUnits, When
  <2>3. \A f, p : <<f, p>> \in r.sum[TRUE] \/ <<f, p>> \in r.sum[FALSE] => p \in r.made
    BY <1>1, OwnIs DEF Core_made, Core_sum, CoreUnits, When
  <2> QED BY <1>1, <1>2, <2>1, <2>2, <2>3 DEF r, Present
<1>5. Released("Core", c)
  BY <1>1 DEF r, Released, Core_made, Core_gone, CoreUnits, When
<1>6. Sourced("Core", c)
  BY <1>1, <1>2, <1>3, OwnIs DEF r, Sourced, Core_charge, Core_peak, Core_fixed, CoreUnits,
  When
<1>7. Displayed("Core", c)
  <2>1. \A f : f \in r.shown => <<f, f>> \in r.charge
    BY <1>1, OwnIs DEF Core_charge, Core_shown, CoreUnits, When
  <2>2. \A f, p : <<f, p>> \in r.charge =>
          f \in r.shown \/ f \in {"undiffCore", "backend", "phy"}
    BY <1>1, OwnIs DEF Core_charge, Core_shown, CoreUnits, When
  <2>3. \A f : f \in r.shown => f \notin {"undiffCore", "backend", "phy"}
    BY <1>1 DEF Core_shown, CoreUnits, When
  <2> QED BY <2>1, <2>2, <2>3 DEF r, Displayed
<1> QED BY <1>4, <1>5, <1>6, <1>7 DEF Sound

(* SharedCache, if it is not shadowed and merged at once.                  *)
LEMMA SharedCacheSound ==
  ASSUME NEW c, "SBT" \in c => "ST" \notin c
  PROVE  Sound("SharedCache", c)
<1> DEFINE r == Table("SharedCache", c)
<1>1. /\ r.made = SharedCache_made(c) /\ r.peak = SharedCache_peak(c)
      /\ r.run = SharedCache_run(c) /\ r.charge = SharedCache_charge(c)
      /\ r.sum[TRUE] = SharedCache_sum(c, TRUE) /\ r.sum[FALSE] = SharedCache_sum(c, FALSE)
      /\ r.fixed = {} /\ r.shown = SharedCache_shown(c, TRUE)
      /\ r.gone = SharedCache_gone(c)
      /\ Members("SharedCache", c) = {"homenode", "homenode_rtp"}
  BY DEF Table, Row, Members
<1> HIDE DEF r
<1>2. \A p : p \in DOMAIN r.run => (p \in r.peak /\ p # "homenode") \/ p = "homenode_rtp"
  BY <1>1, JoinDomain, EachDomain, RowDomain, NoDomain DEF SharedCache_run,
  SharedCache_peak, Rows, Shadowed, HomeNode, SharedBuffers, When
<1>3. \A p : p \in r.peak => p \in DOMAIN r.run \/ p = "homenode"
  BY <1>1, JoinDomain, EachDomain, RowDomain, NoDomain DEF SharedCache_run,
  SharedCache_peak, Rows, Shadowed, HomeNode, SharedBuffers, When
<1>4. Present("SharedCache", c)
  <2>1. \A p : p \in r.peak => p \in r.made \/ p \in Members("SharedCache", c)
    BY <1>1 DEF SharedCache_made, SharedCache_peak, Shadowed, HomeNode, SharedBuffers, When
  <2>2. \A f, p : <<f, p>> \in r.charge => p \in r.made \/ p \in Members("SharedCache", c)
    BY <1>1, OwnIs DEF SharedCache_made, SharedCache_charge, Shadowed, HomeNode,
    SharedBuffers, When
  <2>3. \A f, p : <<f, p>> \in r.sum[TRUE] \/ <<f, p>> \in r.sum[FALSE] =>
          p \in r.made \/ p \in Members("SharedCache", c)
    BY <1>1, OwnIs DEF SharedCache_made, SharedCache_sum, Shadowed, HomeNode, SharedBuffers,
    When
  <2> QED BY <1>1, <1>2, <2>1, <2>2, <2>3 DEF r, Present
<1>5. Released("SharedCache", c)
  BY <1>1 DEF r, Released, SharedCache_made, SharedCache_gone, Shadowed, HomeNode,
  SharedBuffers, When
<1>6. Sourced("SharedCache", c)
  BY <1>1, <1>2, <1>3, OwnIs DEF r, Sourced, SharedCache_charge, SharedCache_peak, Shadowed,
  HomeNode, SharedBuffers, When
<1>7. Displayed("SharedCache", c)
  <2>1. \A f : f \in r.shown => <<f, f>> \in r.charge \/ <<f, "caches">> \in r.charge
    BY <1>1, OwnIs DEF SharedCache_charge, SharedCache_shown, Shadowed, HomeNode,
    SharedBuffers, When
  <2>2. \A f, p : <<f, p>> \in r.charge =>
          f \in r.shown \/ f \in {"undiffCore", "backend", "phy"}
    BY <1>1, OwnIs DEF SharedCache_charge, SharedCache_shown, Shadowed, HomeNode,
    SharedBuffers, When
  <2>3. \A f : f \in r.shown => f \notin {"undiffCore", "backend", "phy"}
    BY <1>1 DEF SharedCache_shown, Shadowed, HomeNode, SharedBuffers, When
  <2> QED BY <2>1, <2>2, <2>3 DEF r, Displayed
<1> QED BY <1>4, <1>5, <1>6, <1>7 DEF Sound

(* MemoryController.                                                       *)
LEMMA MemoryControllerSound ==
  ASSUME NEW c PROVE Sound("MemoryController", c)
<1> DEFINE r == Table("MemoryController", c)
<1>1. /\ r.made = MemoryController_made(c) /\ r.peak = MemoryController_peak(c)
      /\ r.run = MemoryController_run(c) /\ r.charge = MemoryController_charge(c)
      /\ r.sum[TRUE] = MemoryController_sum(c, TRUE) /\
           r.sum[FALSE] = MemoryController_sum(c, FALSE)
      /\ r.fixed = {} /\ r.shown = MemoryController_shown(c, TRUE)
      /\ r.gone = MemoryController_gone(c)
      /\ Members("MemoryController", c) = {}
  BY DEF Table, Row, Members
<1> HIDE DEF r
<1>2. \A p : p \in DOMAIN r.run => p \in r.peak
  BY <1>1, JoinDomain, EachDomain, RowDomain, NoDomain DEF MemoryController_run,
  MemoryController_peak, Rows, HasPHY, McParts, When
<1>3. \A p : p \in r.peak => p \in DOMAIN r.run
  BY <1>1, JoinDomain, EachDomain, RowDomain, NoDomain DEF MemoryController_run,
  MemoryController_peak, Rows, HasPHY, McParts, When
<1>4. Present("MemoryController", c)
  <2>1. \A p : p \in r.peak => p \in r.made
    BY <1>1 DEF MemoryController_made, MemoryController_peak, HasPHY, McParts, When
  <2>2. \A f, p : <<f, p>> \in r.charge => p \in r.made
    BY <1>1, OwnIs DEF MemoryController_made, MemoryController_charge, HasPHY, McParts, When
  <2>3. \A f, p : <<f, p>> \in r.sum[TRUE] \/ <<f, p>> \in r.sum[FALSE] => p \in r.made
    BY <1>1, OwnIs DEF MemoryController_made, MemoryController_sum, HasPHY, McParts, When
  <2> QED BY <1>1, <1>2, <2>1, <2>2, <2>3 DEF r, Present
<1>5. Released("MemoryController", c)
  BY <1>1 DEF r, Released, MemoryController_made, MemoryController_gone, HasPHY, McParts,
  When
<1>6. Sourced("MemoryController", c)
  BY <1>1, <1>2, <1>3, OwnIs DEF r, Sourced, MemoryController_charge, MemoryController_peak,
  HasPHY, McParts, When
<1>7. Displayed("MemoryController", c)
  <2>1. \A f : f \in r.shown => <<f, f>> \in r.charge
    BY <1>1, OwnIs DEF MemoryController_charge, MemoryController_shown, HasPHY, McParts,
    When
  <2>2. \A f, p : <<f, p>> \in r.charge =>
          f \in r.shown \/ f \in {"undiffCore", "backend", "phy"}
    BY <1>1, OwnIs DEF MemoryController_charge, MemoryController_shown, HasPHY, McParts,
    When
  <2>3. \A f : f \in r.shown => f \notin {"undiffCore", "backend", "phy"}
    BY <1>1 DEF MemoryController_shown, HasPHY, McParts, When
  <2> QED BY <2>1, <2>2, <2>3 DEF r, Displayed
<1> QED BY <1>4, <1>5, <1>6, <1>7 DEF Sound

(* MCFrontEnd.                                                             *)
LEMMA MCFrontEndSound ==
  ASSUME NEW c PROVE Sound("MCFrontEnd", c)
<1> DEFINE r == Table("MCFrontEnd", c)
<1>1. /\ r.made = MCFrontEnd_made(c) /\ r.peak = MCFrontEnd_peak(c)
      /\ r.run = MCFrontEnd_run(c) /\ r.charge = MCFrontEnd_charge(c)
      /\ r.sum[TRUE] = MCFrontEnd_sum(c, TRUE) /\ r.sum[FALSE] = MCFrontEnd_sum(c, FALSE)
      /\ r.fixed = {} /\ r.shown = MCFrontEnd_shown(c, TRUE)
      /\ r.gone = MCFrontEnd_gone(c)
      /\ Members("MCFrontEnd", c) = {}
  BY DEF Table, Row, Members
<1> HIDE DEF r
<1>2. \A p : p \in DOMAIN r.run => p \in r.peak
  BY <1>1, JoinDomain, EachDomain, RowDomain, NoDomain DEF MCFrontEnd_run, MCFrontEnd_peak,
  Rows, McBuffers, When
<1>3. \A p : p \in r.peak => p \in DOMAIN r.run
  BY <1>1, JoinDomain, EachDomain, RowDomain, NoDomain DEF MCFrontEnd_run, MCFrontEnd_peak,
  Rows, McBuffers, When
<1>4. Present("MCFrontEnd", c)
  <2>1. \A p : p \in r.peak => p \in r.made
    BY <1>1 DEF MCFrontEnd_made, MCFrontEnd_peak, McBuffers, When
  <2>2. \A f, p : <<f, p>> \in r.charge => p \in r.made
    BY <1>1, OwnIs DEF MCFrontEnd_made, MCFrontEnd_charge, McBuffers, When
  <2>3. \A f, p : <<f, p>> \in r.sum[TRUE] \/ <<f, p>> \in r.sum[FALSE] => p \in r.made
    BY <1>1, OwnIs DEF MCFrontEnd_made, MCFrontEnd_sum, McBuffers, When
  <2> QED BY <1>1, <1>2, <2>1, <2>2, <2>3 DEF r, Present
<1>5. Released("MCFrontEnd", c)
  BY <1>1 DEF r, Released, MCFrontEnd_made, MCFrontEnd_gone, McBuffers, When
<1>6. Sourced("MCFrontEnd", c)
  BY <1>1, <1>2, <1>3, OwnIs DEF r, Sourced, MCFrontEnd_charge, MCFrontEnd_peak, McBuffers,
  When
<1>7. Displayed("MCFrontEnd", c)
  BY <1>1 DEF r, Displayed, MCFrontEnd_shown, McBuffers, When
<1> QED BY <1>4, <1>5, <1>6, <1>7 DEF Sound

(* MCBackend.                                                              *)
LEMMA MCBackendSound ==
  ASSUME NEW c PROVE Sound("MCBackend", c)
<1> DEFINE r == Table("MCBackend", c)
<1>1. /\ r.made = {} /\ r.peak = MCBackend_peak(c)
      /\ r.run = MCBackend_run(c) /\ r.charge = MCBackend_charge(c)
      /\ r.sum[TRUE] = MCBackend_sum(c, TRUE) /\ r.sum[FALSE] = MCBackend_sum(c, FALSE)
      /\ r.fixed = {} /\ r.shown = {}
      /\ r.gone = {}
      /\ Members("MCBackend", c) = MCBackend_made(c)
  BY DEF Table, Row, Members
<1> HIDE DEF r
<1>2. \A p : p \in DOMAIN r.run => p \in r.peak
  BY <1>1, JoinDomain, EachDomain, RowDomain, NoDomain DEF MCBackend_run, MCBackend_peak,
  Rows, When
<1>3. \A p : p \in r.peak => p \in DOMAIN r.run
  BY <1>1, JoinDomain, EachDomain, RowDomain, NoDomain DEF MCBackend_run, MCBackend_peak,
  Rows, When
<1>4. Present("MCBackend", c)
  <2>1. \A p : p \in r.peak => p \in Members("MCBackend", c)
    BY <1>1 DEF MCBackend_peak, MCBackend_made, When
  <2>2. \A f, p : <<f, p>> \in r.charge => p \in Members("MCBackend", c)
    BY <1>1, OwnIs DEF MCBackend_charge, MCBackend_made, When
  <2>3. \A f, p : <<f, p>> \in r.sum[TRUE] \/ <<f, p>> \in r.sum[FALSE] =>
          p \in Members("MCBackend", c)
    BY <1>1, OwnIs DEF MCBackend_sum, MCBackend_made, When
  <2> QED BY <1>1, <1>2, <2>1, <2>2, <2>3 DEF r, Present
<1>5. Released("MCBackend", c)
  BY <1>1 DEF r, Released, MCBackend_made, When
<1>6. Sourced("MCBackend", c)
  BY <1>1, <1>2, <1>3, OwnIs DEF r, Sourced, MCBackend_charge, MCBackend_peak, When
<1>7. Displayed("MCBackend", c)
  <2>1. \A f : f \in r.shown => <<f, f>> \in r.charge
    BY <1>1, OwnIs DEF MCBackend_charge, When
  <2>2. \A f, p : <<f, p>> \in r.charge =>
          f \in r.shown \/ f \in {"undiffCore", "backend", "phy"}
    BY <1>1, OwnIs DEF MCBackend_charge, When
  <2>3. \A f : f \in r.shown => f \notin {"undiffCore", "backend", "phy"}
    BY <1>1 DEF When
  <2> QED BY <2>1, <2>2, <2>3 DEF r, Displayed
<1> QED BY <1>4, <1>5, <1>6, <1>7 DEF Sound

(* MCPHY.                                                                  *)
LEMMA MCPHYSound ==
  ASSUME NEW c PROVE Sound("MCPHY", c)
<1> DEFINE r == Table("MCPHY", c)
<1>1. /\ r.made = {} /\ r.peak = MCPHY_peak(c)
      /\ r.run = MCPHY_run(c) /\ r.charge = MCPHY_charge(c)
      /\ r.sum[TRUE] = MCPHY_sum(c, TRUE) /\ r.sum[FALSE] = MCPHY_sum(c, FALSE)
      /\ r.fixed = {} /\ r.shown = {}
      /\ r.gone = {}
      /\ Members("MCPHY", c) = MCPHY_made(c)
  BY DEF Table, Row, Members
<1> HIDE DEF r
<1>2. \A p : p \in DOMAIN r.run => p \in r.peak
  BY <1>1, JoinDomain, EachDomain, RowDomain, NoDomain DEF MCPHY_run, MCPHY_peak, Rows, When
<1>3. \A p : p \in r.peak => p \in DOMAIN r.run
  BY <1>1, JoinDomain, EachDomain, RowDomain, NoDomain DEF MCPHY_run, MCPHY_peak, Rows, When
<1>4. Present("MCPHY", c)
  <2>1. \A p : p \in r.peak => p \in Members("MCPHY", c)
    BY <1>1 DEF MCPHY_peak, MCPHY_made, When
  <2>2. \A f, p : <<f, p>> \in r.charge => p \in Members("MCPHY", c)
    BY <1>1, OwnIs DEF MCPHY_charge, MCPHY_made, When
  <2>3. \A f, p : <<f, p>> \in r.sum[TRUE] \/ <<f, p>> \in r.sum[FALSE] =>
          p \in Members("MCPHY", c)
    BY <1>1, OwnIs DEF MCPHY_sum, MCPHY_made, When
  <2> QED BY <1>1, <1>2, <2>1, <2>2, <2>3 DEF r, Present
<1>5. Released("MCPHY", c)
  BY <1>1 DEF r, Released, MCPHY_made, When
<1>6. Sourced("MCPHY", c)
  BY <1>1, <1>2, <1>3, OwnIs DEF r, Sourced, MCPHY_charge, MCPHY_peak, When
<1>7. Displayed("MCPHY", c)
  <2>1. \A f : f \in r.shown => <<f, f>> \in r.charge
    BY <1>1, OwnIs DEF MCPHY_charge, When
  <2>2. \A f, p : <<f, p>> \in r.charge =>
          f \in r.shown \/ f \in {"undiffCore", "backend", "phy"}
    BY <1>1, OwnIs DEF MCPHY_charge, When
  <2>3. \A f : f \in r.shown => f \notin {"undiffCore", "backend", "phy"}
    BY <1>1 DEF When
  <2> QED BY <2>1, <2>2, <2>3 DEF r, Displayed
<1> QED BY <1>4, <1>5, <1>6, <1>7 DEF Sound

(* NoC.                                                                    *)
LEMMA NoCSound ==
  ASSUME NEW c PROVE Sound("NoC", c)
<1> DEFINE r == Table("NoC", c)
<1>1. /\ r.made = NoC_made(c) /\ r.peak = NoC_peak(c)
      /\ r.run = NoC_run(c) /\ r.charge = NoC_charge(c)
      /\ r.sum[TRUE] = NoC_sum(c, TRUE) /\ r.sum[FALSE] = NoC_sum(c, FALSE)
      /\ r.fixed = {} /\ r.shown = NoC_shown(c, TRUE)
      /\ r.gone = NoC_gone(c)
      /\ Members("NoC", c) = {}
  BY DEF Table, Row, Members
<1> HIDE DEF r
<1>2. \A p : p \in DOMAIN r.run => p \in r.peak
  BY <1>1, JoinDomain, EachDomain, RowDomain, NoDomain DEF NoC_run, NoC_peak, Rows,
  NoC_router, NoC_link_bus, NocParts, When
<1>3. \A p : p \in r.peak => p \in DOMAIN r.run
  BY <1>1, JoinDomain, EachDomain, RowDomain, NoDomain DEF NoC_run, NoC_peak, Rows,
  NoC_router, NoC_link_bus, NocParts, When
<1>4. Present("NoC", c)
  <2>1. \A p : p \in r.peak => p \in r.made
    BY <1>1 DEF NoC_made, NoC_peak, NoC_router, NoC_link_bus, NocParts, When
  <2>2. \A f, p : <<f, p>> \in r.charge => p \in r.made
    BY <1>1, OwnIs DEF NoC_made, NoC_charge, NoC_router, NoC_link_bus, NocParts, When
  <2>3. \A f, p : <<f, p>> \in r.sum[TRUE] \/ <<f, p>> \in r.sum[FALSE] => p \in r.made
    BY <1>1, OwnIs DEF NoC_made, NoC_sum, NoC_router, NoC_link_bus, NocParts, When
  <2> QED BY <1>1, <1>2, <2>1, <2>2, <2>3 DEF r, Present
<1>5. Released("NoC", c)
  BY <1>1 DEF r, Released, NoC_made, NoC_gone, NoC_router, NoC_link_bus, NocParts, When
<1>6. Sourced("NoC", c)
  BY <1>1, <1>2, <1>3, OwnIs DEF r, Sourced, NoC_charge, NoC_peak, NoC_router, NoC_link_bus,
  NocParts, When
<1>7. Displayed("NoC", c)
  <2>1. \A f : f \in r.shown => <<f, f>> \in r.charge
    BY <1>1, OwnIs DEF NoC_charge, NoC_shown, NoC_router, NoC_link_bus, NocParts, When
  <2>2. \A f, p : <<f, p>> \in r.charge =>
          f \in r.shown \/ f \in {"undiffCore", "backend", "phy"}
    BY <1>1, OwnIs DEF NoC_charge, NoC_shown, NoC_router, NoC_link_bus, NocParts, When
  <2>3. \A f : f \in r.shown => f \notin {"undiffCore", "backend", "phy"}
    BY <1>1 DEF NoC_shown, NoC_router, NoC_link_bus, NocParts, When
  <2> QED BY <2>1, <2>2, <2>3 DEF r, Displayed
<1> QED BY <1>4, <1>5, <1>6, <1>7 DEF Sound

(* NIUController.                                                          *)
LEMMA NIUControllerSound ==
  ASSUME NEW c PROVE Sound("NIUController", c)
<1> DEFINE r == Table("NIUController", c)
<1>1. /\ r.made = {} /\ r.peak = {}
      /\ r.run = <<>> /\ r.charge = NIUController_charge(c)
      /\ r.sum[TRUE] = NIUController_sum(c, TRUE) /\
           r.sum[FALSE] = NIUController_sum(c, FALSE)
      /\ r.fixed = NIUController_made(c) /\ r.shown = NIUController_shown(c, TRUE)
      /\ r.gone = {}
      /\ Members("NIUController", c) = NIUController_made(c)
  BY DEF Table, Row, Members
<1> HIDE DEF r
<1>2. \A p : p \notin DOMAIN r.run
  BY <1>1, NoDomain
<1>3. \A p : p \notin r.peak
  BY <1>1
<1>4. Present("NIUController", c)
  <2>1. \A p : p \in r.peak => p \in Members("NIUController", c)
    BY <1>1 DEF NIUController_made, When
  <2>2. \A f, p : <<f, p>> \in r.charge => p \in Members("NIUController", c)
    BY <1>1, OwnIs DEF NIUController_charge, NIUController_made, When
  <2>3. \A f, p : <<f, p>> \in r.sum[TRUE] \/ <<f, p>> \in r.sum[FALSE] =>
          p \in Members("NIUController", c)
    BY <1>1, OwnIs DEF NIUController_sum, NIUController_made, When
  <2> QED BY <1>1, <1>2, <2>1, <2>2, <2>3 DEF r, Present
<1>5. Released("NIUController", c)
  BY <1>1 DEF r, Released, NIUController_made, When
<1>6. Sourced("NIUController", c)
  BY <1>1, <1>2, <1>3, OwnIs DEF r, Sourced, NIUController_charge, NIUController_made, When
<1>7. Displayed("NIUController", c)
  <2>1. \A f : f \in r.shown => <<f, f>> \in r.charge \/ <<f, "mac">> \in r.charge
    BY <1>1, OwnIs DEF NIUController_charge, NIUController_shown, When
  <2>2. \A f, p : <<f, p>> \in r.charge =>
          f \in r.shown \/ f \in {"undiffCore", "backend", "phy"}
    BY <1>1, OwnIs DEF NIUController_charge, NIUController_shown, When
  <2>3. \A f : f \in r.shown => f \notin {"undiffCore", "backend", "phy"}
    BY <1>1 DEF NIUController_shown, When
  <2> QED BY <2>1, <2>2, <2>3 DEF r, Displayed
<1> QED BY <1>4, <1>5, <1>6, <1>7 DEF Sound

(* PCIeController.                                                         *)
LEMMA PCIeControllerSound ==
  ASSUME NEW c PROVE Sound("PCIeController", c)
<1> DEFINE r == Table("PCIeController", c)
<1>1. /\ r.made = {} /\ r.peak = {}
      /\ r.run = <<>> /\ r.charge = PCIeController_charge(c)
      /\ r.sum[TRUE] = PCIeController_sum(c, TRUE) /\
           r.sum[FALSE] = PCIeController_sum(c, FALSE)
      /\ r.fixed = PCIeController_made(c) /\ r.shown = PCIeController_shown(c, TRUE)
      /\ r.gone = {}
      /\ Members("PCIeController", c) = PCIeController_made(c)
  BY DEF Table, Row, Members
<1> HIDE DEF r
<1>2. \A p : p \notin DOMAIN r.run
  BY <1>1, NoDomain
<1>3. \A p : p \notin r.peak
  BY <1>1
<1>4. Present("PCIeController", c)
  <2>1. \A p : p \in r.peak => p \in Members("PCIeController", c)
    BY <1>1 DEF PCIeController_made, When
  <2>2. \A f, p : <<f, p>> \in r.charge => p \in Members("PCIeController", c)
    BY <1>1, OwnIs DEF PCIeController_charge, PCIeController_made, When
  <2>3. \A f, p : <<f, p>> \in r.sum[TRUE] \/ <<f, p>> \in r.sum[FALSE] =>
          p \in Members("PCIeController", c)
    BY <1>1, OwnIs DEF PCIeController_sum, PCIeController_made, When
  <2> QED BY <1>1, <1>2, <2>1, <2>2, <2>3 DEF r, Present
<1>5. Released("PCIeController", c)
  BY <1>1 DEF r, Released, PCIeController_made, When
<1>6. Sourced("PCIeController", c)
  BY <1>1, <1>2, <1>3, OwnIs DEF r, Sourced, PCIeController_charge, PCIeController_made,
  When
<1>7. Displayed("PCIeController", c)
  <2>1. \A f : f \in r.shown => <<f, f>> \in r.charge \/ <<f, "ctrl">> \in r.charge
    BY <1>1, OwnIs DEF PCIeController_charge, PCIeController_shown, When
  <2>2. \A f, p : <<f, p>> \in r.charge =>
          f \in r.shown \/ f \in {"undiffCore", "backend", "phy"}
    BY <1>1, OwnIs DEF PCIeController_charge, PCIeController_shown, When
  <2>3. \A f : f \in r.shown => f \notin {"undiffCore", "backend", "phy"}
    BY <1>1 DEF PCIeController_shown, When
  <2> QED BY <2>1, <2>2, <2>3 DEF r, Displayed
<1> QED BY <1>4, <1>5, <1>6, <1>7 DEF Sound

(* FlashController.                                                        *)
LEMMA FlashControllerSound ==
  ASSUME NEW c PROVE Sound("FlashController", c)
<1> DEFINE r == Table("FlashController", c)
<1>1. /\ r.made = {} /\ r.peak = {}
      /\ r.run = <<>> /\ r.charge = FlashController_charge(c)
      /\ r.sum[TRUE] = FlashController_sum(c, TRUE) /\
           r.sum[FALSE] = FlashController_sum(c, FALSE)
      /\ r.fixed = FlashController_made(c) /\ r.shown = FlashController_shown(c, TRUE)
      /\ r.gone = {}
      /\ Members("FlashController", c) = FlashController_made(c)
  BY DEF Table, Row, Members
<1> HIDE DEF r
<1>2. \A p : p \notin DOMAIN r.run
  BY <1>1, NoDomain
<1>3. \A p : p \notin r.peak
  BY <1>1
<1>4. Present("FlashController", c)
  <2>1. \A p : p \in r.peak => p \in Members("FlashController", c)
    BY <1>1 DEF FlashController_made, When
  <2>2. \A f, p : <<f, p>> \in r.charge => p \in Members("FlashController", c)
    BY <1>1, OwnIs DEF FlashController_charge, FlashController_made, When
  <2>3. \A f, p : <<f, p>> \in r.sum[TRUE] \/ <<f, p>> \in r.sum[FALSE] =>
          p \in Members("FlashController", c)
    BY <1>1, OwnIs DEF FlashController_sum, FlashController_made, When
  <2> QED BY <1>1, <1>2, <2>1, <2>2, <2>3 DEF r, Present
<1>5. Released("FlashController", c)
  BY <1>1 DEF r, Released, FlashController_made, When
<1>6. Sourced("FlashController", c)
  BY <1>1, <1>2, <1>3, OwnIs DEF r, Sourced, FlashController_charge, FlashController_made,
  When
<1>7. Displayed("FlashController", c)
  <2>1. \A f : f \in r.shown => <<f, f>> \in r.charge \/ <<f, "ctrl">> \in r.charge
    BY <1>1, OwnIs DEF FlashController_charge, FlashController_shown, When
  <2>2. \A f, p : <<f, p>> \in r.charge =>
          f \in r.shown \/ f \in {"undiffCore", "backend", "phy"}
    BY <1>1, OwnIs DEF FlashController_charge, FlashController_shown, When
  <2>3. \A f : f \in r.shown => f \notin {"undiffCore", "backend", "phy"}
    BY <1>1 DEF FlashController_shown, When
  <2> QED BY <2>1, <2>2, <2>3 DEF r, Displayed
<1> QED BY <1>4, <1>5, <1>6, <1>7 DEF Sound

(* inst_decoder.                                                           *)
LEMMA inst_decoderSound ==
  ASSUME NEW c PROVE Sound("inst_decoder", c)
<1> DEFINE r == Table("inst_decoder", c)
<1>1. /\ r.made = inst_decoder_made(c) /\ r.peak = {}
      /\ r.run = <<>> /\ r.charge = {}
      /\ r.sum[TRUE] = {} /\ r.sum[FALSE] = {}
      /\ r.fixed = {} /\ r.shown = {}
      /\ r.gone = inst_decoder_gone(c)
      /\ Members("inst_decoder", c) = {}
  BY DEF Table, Row, Members
<1> HIDE DEF r
<1>2. \A p : p \notin DOMAIN r.run
  BY <1>1, NoDomain
<1>3. \A p : p \notin r.peak
  BY <1>1
<1>4. Present("inst_decoder", c)
  <2>1. \A p : p \in r.peak => p \in r.made
    BY <1>1 DEF inst_decoder_made, When
  <2>2. \A f, p : <<f, p>> \in r.charge => p \in r.made
    BY <1>1, OwnIs DEF inst_decoder_made, When
  <2>3. \A f, p : <<f, p>> \in r.sum[TRUE] \/ <<f, p>> \in r.sum[FALSE] => p \in r.made
    BY <1>1, OwnIs DEF inst_decoder_made, When
  <2> QED BY <1>1, <1>2, <2>1, <2>2, <2>3 DEF r, Present
<1>5. Released("inst_decoder", c)
  BY <1>1 DEF r, Released, inst_decoder_made, inst_decoder_gone, When
<1>6. Sourced("inst_decoder", c)
  BY <1>1, <1>2, <1>3, OwnIs DEF r, Sourced, When
<1>7. Displayed("inst_decoder", c)
  <2>1. \A f : f \in r.shown => <<f, f>> \in r.charge
    BY <1>1, OwnIs DEF When
  <2>2. \A f, p : <<f, p>> \in r.charge =>
          f \in r.shown \/ f \in {"undiffCore", "backend", "phy"}
    BY <1>1, OwnIs DEF When
  <2>3. \A f : f \in r.shown => f \notin {"undiffCore", "backend", "phy"}
    BY <1>1 DEF When
  <2> QED BY <2>1, <2>2, <2>3 DEF r, Displayed
<1> QED BY <1>4, <1>5, <1>6, <1>7 DEF Sound

-----------------------------------------------------------------------------
(* How many figures each part of a unit enters, class by class.            *)

(* In a set S of pairs <<figure, part>>, part p has no figure, exactly     *)
(* one, or those of F.                                                     *)
Never(S, p) == \A f : <<f, p>> \notin S
Once(S, p) ==
  /\ \E f : <<f, p>> \in S
  /\ \A f, g : <<f, p>> \in S /\ <<g, p>> \in S => f = g
Into(S, p, F) == \A f : <<f, p>> \in S <=> f \in F

(* What Entered says of p, with the figures themselves.                    *)
AsEntered(S, p) ==
  /\ p = "corepipe" => Into(S, p, CoreUnits(cfg))
  /\ p = "instruction_selection" => Into(S, p, Windows(cfg))
  /\ p \in {"MC_arb", "homenode_rtp"} \/ unit = "inst_decoder" => Never(S, p)
  /\ p = "homenode" => IF "SBT" \in cfg THEN Once(S, p) ELSE Never(S, p)
  /\ p \notin {"corepipe", "instruction_selection", "MC_arb", "homenode_rtp", "homenode"}
       /\ unit # "inst_decoder" => Once(S, p)

(* What ChargedOnce says of p, of the tables of the unit.                  *)
AsCounted(p, t) ==
  /\ AsEntered(T.charge, p)
  /\ p \in Uncounted(t) => Never(T.sum[t], p)
  /\ p \notin Uncounted(t) /\ p \in CountedTwice =>
       Into(T.sum[t], p, {"frontend", "SerDer"})
  /\ p \notin Uncounted(t) /\ p \notin CountedTwice => AsEntered(T.sum[t], p)

Counts == \A p \in Parts, t \in BOOLEAN : AsCounted(p, t)

(* The parts of InstFetchU.                                                *)
LEMMA InstFetchUCounts ==
  ASSUME unit = "InstFetchU"
  PROVE  Counts
<1> SUFFICES ASSUME NEW p \in Parts, NEW t \in BOOLEAN PROVE AsCounted(p, t)
  BY DEF Counts
<1> DEFINE ch == T.charge
           sm == T.sum[t]
<1>1. ch = InstFetchU_charge(cfg) /\ sm = InstFetchU_sum(cfg, t)
  BY DEF T, Table, Row
<1>2. p \in InstFetchU_made(cfg)
  BY DEF T, Parts, Table, Row, Members
<1> HIDE DEF ch, sm
<1>3. Once(ch, p)
  <2> DEFINE g == IF p \in ICache THEN "icache" ELSE p
  <2>1. \A f : <<f, p>> \in ch <=> f = g
    BY <1>1, <1>2, OwnIs DEF InstFetchU_made, InstFetchU_charge, ICache, Decoders, When
  <2> HIDE DEF g
  <2>2. <<g, p>> \in ch
    BY <2>1
  <2>3. \A f, h : <<f, p>> \in ch /\ <<h, p>> \in ch => f = h
    BY <2>1
  <2> QED BY <2>2, <2>3 DEF Once
<1>4. Once(sm, p)
  <2> DEFINE g == IF p \in ICache THEN "icache" ELSE p
  <2>1. \A f : <<f, p>> \in sm <=> f = g
    BY <1>1, <1>2, OwnIs DEF InstFetchU_made, InstFetchU_sum, ICache, Decoders, When
  <2> HIDE DEF g
  <2>2. <<g, p>> \in sm
    BY <2>1
  <2>3. \A f, h : <<f, p>> \in sm /\ <<h, p>> \in sm => f = h
    BY <2>1
  <2> QED BY <2>2, <2>3 DEF Once
<1>5. p \notin {"MC_arb", "corepipe", "homenode", "homenode_rtp", "instruction_selection"}
  BY <1>2 DEF InstFetchU_made, ICache, Decoders, When
<1>6. AsEntered(ch, p)
  BY <1>3, <1>5 DEF AsEntered
<1>7. p \notin Uncounted(t) /\ p \notin CountedTwice => AsEntered(sm, p)
  BY <1>4, <1>5 DEF AsEntered, Uncounted, CountedTwice, When
<1>8. p \in Uncounted(t) => Never(sm, p)
  BY <1>5 DEF Uncounted, When
<1>9. p \in CountedTwice => Into(sm, p, {"frontend", "SerDer"})
  BY <1>5 DEF CountedTwice, When
<1> QED BY <1>6, <1>7, <1>8, <1>9 DEF AsCounted, ch, sm

(* The parts of BranchPredictor.                                           *)
LEMMA BranchPredictorCounts ==
  ASSUME unit = "BranchPredictor"
  PROVE  Counts
<1> SUFFICES ASSUME NEW p \in Parts, NEW t \in BOOLEAN PROVE AsCounted(p, t)
  BY DEF Counts
<1> DEFINE ch == T.charge
           sm == T.sum[t]
<1>1. ch = BranchPredictor_charge(cfg) /\ sm = BranchPredictor_sum(cfg, t)
  BY DEF T, Table, Row
<1>2. p \in BranchPredictor_made(cfg)
  BY DEF T, Parts, Table, Row, Members
<1> HIDE DEF ch, sm
<1>3. Once(ch, p)
  <2> DEFINE g == p
  <2>1. \A f : <<f, p>> \in ch <=> f = g
    BY <1>1, <1>2, OwnIs DEF BranchPredictor_made, BranchPredictor_charge, Predictors, When
  <2> HIDE DEF g
  <2>2. <<g, p>> \in ch
    BY <2>1
  <2>3. \A f, h : <<f, p>> \in ch /\ <<h, p>> \in ch => f = h
    BY <2>1
  <2> QED BY <2>2, <2>3 DEF Once
<1>4. Once(sm, p)
  <2> DEFINE g == p
  <2>1. \A f : <<f, p>> \in sm <=> f = g
    BY <1>1, <1>2, OwnIs DEF BranchPredictor_made, BranchPredictor_sum, Predictors, When
  <2> HIDE DEF g
  <2>2. <<g, p>> \in sm
    BY <2>1
  <2>3. \A f, h : <<f, p>> \in sm /\ <<h, p>> \in sm => f = h
    BY <2>1
  <2> QED BY <2>2, <2>3 DEF Once
<1>5. p \notin {"MC_arb", "corepipe", "homenode", "homenode_rtp", "instruction_selection"}
  BY <1>2 DEF BranchPredictor_made, Predictors, When
<1>6. AsEntered(ch, p)
  BY <1>3, <1>5 DEF AsEntered
<1>7. p \notin Uncounted(t) /\ p \notin CountedTwice => AsEntered(sm, p)
  BY <1>4, <1>5 DEF AsEntered, Uncounted, CountedTwice, When
<1>8. p \in Uncounted(t) => Never(sm, p)
  BY <1>5 DEF Uncounted, When
<1>9. p \in CountedTwice => Into(sm, p, {"frontend", "SerDer"})
  BY <1>5 DEF CountedTwice, When
<1> QED BY <1>6, <1>7, <1>8, <1>9 DEF AsCounted, ch, sm

(* The parts of RENAMINGU.                                                 *)
LEMMA RENAMINGUCounts ==
  ASSUME unit = "RENAMINGU", "OOO" \in cfg
  PROVE  Counts
<1> SUFFICES ASSUME NEW p \in Parts, NEW t \in BOOLEAN PROVE AsCounted(p, t)
  BY DEF Counts
<1> DEFINE ch == T.charge
           sm == T.sum[t]
<1>1. ch = RENAMINGU_charge(cfg) /\ sm = RENAMINGU_sum(cfg, t)
  BY DEF T, Table, Row
<1>2. p \in RENAMINGU_made(cfg)
  BY DEF T, Parts, Table, Row, Members
<1> HIDE DEF ch, sm
<1>3. Once(ch, p)
  <2> DEFINE g == IF p = "idcl" THEN "iFRAT" ELSE IF p = "fdcl" THEN "fFRAT" ELSE p
  <2>1. \A f : <<f, p>> \in ch <=> f = g
    BY <1>1, <1>2, OwnIs DEF RENAMINGU_made, RENAMINGU_charge, RENAMINGU_physical,
    RENAMINGU_reservation, FRATs, RRATs, DCLs, FreeLists, HasRRAT, When
  <2> HIDE DEF g
  <2>2. <<g, p>> \in ch
    BY <2>1
  <2>3. \A f, h : <<f, p>> \in ch /\ <<h, p>> \in ch => f = h
    BY <2>1
  <2> QED BY <2>2, <2>3 DEF Once
<1>4. p \notin DCLs => Once(sm, p)
  <2> DEFINE g == p
  <2>1. p \notin DCLs => \A f : <<f, p>> \in sm <=> f = g
    BY <1>1, <1>2, OwnIs DEF RENAMINGU_made, RENAMINGU_sum, RENAMINGU_physical,
    RENAMINGU_reservation, FRATs, RRATs, DCLs, FreeLists, HasRRAT, When
  <2> HIDE DEF g
  <2>2. p \notin DCLs => <<g, p>> \in sm
    BY <2>1
  <2>3. p \notin DCLs => \A f, h : <<f, p>> \in sm /\ <<h, p>> \in sm => f = h
    BY <2>1
  <2> QED BY <2>2, <2>3 DEF Once
<1>5. p \in DCLs => Never(sm, p)
  BY <1>1, OwnIs DEF Never, RENAMINGU_sum, RENAMINGU_physical, RENAMINGU_reservation, FRATs,
  RRATs, DCLs, FreeLists, HasRRAT, When
<1>6. p \notin {"MC_arb", "corepipe", "homenode", "homenode_rtp", "instruction_selection"}
  BY <1>2 DEF RENAMINGU_made, RENAMINGU_physical, RENAMINGU_reservation, FRATs, RRATs, DCLs,
  FreeLists, HasRRAT, When
<1>7. AsEntered(ch, p)
  BY <1>3, <1>5, <1>6 DEF AsEntered
<1>8. p \notin Uncounted(t) /\ p \notin CountedTwice => AsEntered(sm, p)
  BY <1>4, <1>5, <1>6 DEF AsEntered, Uncounted, CountedTwice, When
<1>9. p \in Uncounted(t) => Never(sm, p)
  BY <1>5, <1>6 DEF Uncounted, When
<1>10. p \in CountedTwice => Into(sm, p, {"frontend", "SerDer"})
  BY <1>5, <1>6 DEF CountedTwice, When
<1> QED BY <1>7, <1>8, <1>9, <1>10 DEF AsCounted, ch, sm

(* The parts of SchedulerU.                                                *)
LEMMA SchedulerUCounts ==
  ASSUME unit = "SchedulerU"
  PROVE  Counts
<1> SUFFICES ASSUME NEW p \in Parts, NEW t \in BOOLEAN PROVE AsCounted(p, t)
  BY DEF Counts
<1> DEFINE ch == T.charge
           sm == T.sum[t]
<1>1. ch = SchedulerU_charge(cfg) /\ sm = SchedulerU_sum(cfg, t)
  BY DEF T, Table, Row
<1>2. p \in SchedulerU_made(cfg)
  BY DEF T, Parts, Table, Row, Members
<1> HIDE DEF ch, sm
<1>3. p \notin {"instruction_selection"} => Once(ch, p)
  <2> DEFINE g == p
  <2>1. p \notin {"instruction_selection"} => \A f : <<f, p>> \in ch <=> f = g
    BY <1>1, <1>2, OwnIs DEF SchedulerU_made, SchedulerU_charge, SchedulerU_ooo,
    SchedulerU_inorder, Windows, Ordered, When
  <2> HIDE DEF g
  <2>2. p \notin {"instruction_selection"} => <<g, p>> \in ch
    BY <2>1
  <2>3. p \notin {"instruction_selection"} =>
          \A f, h : <<f, p>> \in ch /\ <<h, p>> \in ch => f = h
    BY <2>1
  <2> QED BY <2>2, <2>3 DEF Once
<1>4. p \notin {"instruction_selection"} => Once(sm, p)
  <2> DEFINE g == p
  <2>1. p \notin {"instruction_selection"} => \A f : <<f, p>> \in sm <=> f = g
    BY <1>1, <1>2, OwnIs DEF SchedulerU_made, SchedulerU_sum, SchedulerU_ooo,
    SchedulerU_inorder, Windows, Ordered, When
  <2> HIDE DEF g
  <2>2. p \notin {"instruction_selection"} => <<g, p>> \in sm
    BY <2>1
  <2>3. p \notin {"instruction_selection"} =>
          \A f, h : <<f, p>> \in sm /\ <<h, p>> \in sm => f = h
    BY <2>1
  <2> QED BY <2>2, <2>3 DEF Once
<1>5. p = "instruction_selection" =>
        Into(ch, p, Windows(cfg)) /\ Into(sm, p, Windows(cfg))
  BY <1>1, OwnIs DEF Into, SchedulerU_charge, SchedulerU_sum, SchedulerU_ooo,
  SchedulerU_inorder, Windows, Ordered, When
<1>6. p \notin {"MC_arb", "corepipe", "homenode", "homenode_rtp"}
  BY <1>2 DEF SchedulerU_made, SchedulerU_ooo, SchedulerU_inorder, Windows, Ordered, When
<1>7. AsEntered(ch, p)
  BY <1>3, <1>5, <1>6 DEF AsEntered
<1>8. p \notin Uncounted(t) /\ p \notin CountedTwice => AsEntered(sm, p)
  BY <1>4, <1>5, <1>6 DEF AsEntered, Uncounted, CountedTwice, When
<1>9. p \in Uncounted(t) => Never(sm, p)
  BY <1>5, <1>6 DEF Uncounted, When
<1>10. p \in CountedTwice => Into(sm, p, {"frontend", "SerDer"})
  BY <1>5, <1>6 DEF CountedTwice, When
<1> QED BY <1>7, <1>8, <1>9, <1>10 DEF AsCounted, ch, sm

(* The parts of LoadStoreU.                                                *)
LEMMA LoadStoreUCounts ==
  ASSUME unit = "LoadStoreU"
  PROVE  Counts
<1> SUFFICES ASSUME NEW p \in Parts, NEW t \in BOOLEAN PROVE AsCounted(p, t)
  BY DEF Counts
<1> DEFINE ch == T.charge
           sm == T.sum[t]
<1>1. ch = LoadStoreU_charge(cfg) /\ sm = LoadStoreU_sum(cfg, t)
  BY DEF T, Table, Row
<1>2. p \in LoadStoreU_made(cfg)
  BY DEF T, Parts, Table, Row, Members
<1> HIDE DEF ch, sm
<1>3. Once(ch, p)
  <2> DEFINE g == IF p \in DCache(cfg) THEN "dcache" ELSE p
  <2>1. \A f : <<f, p>> \in ch <=> f = g
    BY <1>1, <1>2, OwnIs DEF LoadStoreU_made, LoadStoreU_charge, DCache, HasLoadQ, When
  <2> HIDE DEF g
  <2>2. <<g, p>> \in ch
    BY <2>1
  <2>3. \A f, h : <<f, p>> \in ch /\ <<h, p>> \in ch => f = h
    BY <2>1
  <2> QED BY <2>2, <2>3 DEF Once
<1>4. Once(sm, p)
  <2> DEFINE g == IF p \in DCache(cfg) THEN "dcache" ELSE p
  <2>1. \A f : <<f, p>> \in sm <=> f = g
    BY <1>1, <1>2, OwnIs DEF LoadStoreU_made, LoadStoreU_sum, DCache, HasLoadQ, When
  <2> HIDE DEF g
  <2>2. <<g, p>> \in sm
    BY <2>1
  <2>3. \A f, h : <<f, p>> \in sm /\ <<h, p>> \in sm => f = h
    BY <2>1
  <2> QED BY <2>2, <2>3 DEF Once
<1>5. p \notin {"MC_arb", "corepipe", "homenode", "homenode_rtp", "instruction_selection"}
  BY <1>2 DEF LoadStoreU_made, DCache, HasLoadQ, When
<1>6. AsEntered(ch, p)
  BY <1>3, <1>5 DEF AsEntered
<1>7. p \notin Uncounted(t) /\ p \notin CountedTwice => AsEntered(sm, p)
  BY <1>4, <1>5 DEF AsEntered, Uncounted, CountedTwice, When
<1>8. p \in Uncounted(t) => Never(sm, p)
  BY <1>5 DEF Uncounted, When
<1>9. p \in CountedTwice => Into(sm, p, {"frontend", "SerDer"})
  BY <1>5 DEF CountedTwice, When
<1> QED BY <1>6, <1>7, <1>8, <1>9 DEF AsCounted, ch, sm

(* The parts of MemManU.                                                   *)
LEMMA MemManUCounts ==
  ASSUME unit = "MemManU"
  PROVE  Counts
<1> SUFFICES ASSUME NEW p \in Parts, NEW t \in BOOLEAN PROVE AsCounted(p, t)
  BY DEF Counts
<1> DEFINE ch == T.charge
           sm == T.sum[t]
<1>1. ch = MemManU_charge(cfg) /\ sm = MemManU_sum(cfg, t)
  BY DEF T, Table, Row
<1>2. p \in MemManU_made(cfg)
  BY DEF T, Parts, Table, Row, Members
<1> HIDE DEF ch, sm
<1>3. Once(ch, p)
  <2> DEFINE g == p
  <2>1. \A f : <<f, p>> \in ch <=> f = g
    BY <1>1, <1>2, OwnIs DEF MemManU_made, MemManU_charge, TLBs, When
  <2> HIDE DEF g
  <2>2. <<g, p>> \in ch
    BY <2>1
  <2>3. \A f, h : <<f, p>> \in ch /\ <<h, p>> \in ch => f = h
    BY <2>1
  <2> QED BY <2>2, <2>3 DEF Once
<1>4. Once(sm, p)
  <2> DEFINE g == p
  <2>1. \A f : <<f, p>> \in sm <=> f = g
    BY <1>1, <1>2, OwnIs DEF MemManU_made, MemManU_sum, TLBs, When
  <2> HIDE DEF g
  <2>2. <<g, p>> \in sm
    BY <2>1
  <2>3. \A f, h : <<f, p>> \in sm /\ <<h, p>> \in sm => f = h
    BY <2>1
  <2> QED BY <2>2, <2>3 DEF Once
<1>5. p \notin {"MC_arb", "corepipe", "homenode", "homenode_rtp", "instruction_selection"}
  BY <1>2 DEF MemManU_made, TLBs, When
<1>6. AsEntered(ch, p)
  BY <1>3, <1>5 DEF AsEntered
<1>7. p \notin Uncounted(t) /\ p \notin CountedTwice => AsEntered(sm, p)
  BY <1>4, <1>5 DEF AsEntered, Uncounted, CountedTwice, When
<1>8. p \in Uncounted(t) => Never(sm, p)
  BY <1>5 DEF Uncounted, When
<1>9. p \in CountedTwice => Into(sm, p, {"frontend", "SerDer"})
  BY <1>5 DEF CountedTwice, When
<1> QED BY <1>6, <1>7, <1>8, <1>9 DEF AsCounted, ch, sm

(* The parts of RegFU.                                                     *)
LEMMA RegFUCounts ==
  ASSUME unit = "RegFU"
  PROVE  Counts
<1> SUFFICES ASSUME NEW p \in Parts, NEW t \in BOOLEAN PROVE AsCounted(p, t)
  BY DEF Counts
<1> DEFINE ch == T.charge
           sm == T.sum[t]
<1>1. ch = RegFU_charge(cfg) /\ sm = RegFU_sum(cfg, t)
  BY DEF T, Table, Row
<1>2. p \in RegFU_made(cfg)
  BY DEF T, Parts, Table, Row, Members
<1> HIDE DEF ch, sm
<1>3. Once(ch, p)
  <2> DEFINE g == p
  <2>1. \A f : <<f, p>> \in ch <=> f = g
    BY <1>1, <1>2, OwnIs DEF RegFU_made, RegFU_charge, RegFiles, Windowed, When
  <2> HIDE DEF g
  <2>2. <<g, p>> \in ch
    BY <2>1
  <2>3. \A f, h : <<f, p>> \in ch /\ <<h, p>> \in ch => f = h
    BY <2>1
  <2> QED BY <2>2, <2>3 DEF Once
<1>4. (t \/ p \notin RegFiles) => Once(sm, p)
  <2> DEFINE g == p
  <2>1. (t \/ p \notin RegFiles) => \A f : <<f, p>> \in sm <=> f = g
    BY <1>1, <1>2, OwnIs DEF RegFU_made, RegFU_sum, RegFiles, Windowed, When
  <2> HIDE DEF g
  <2>2. (t \/ p \notin RegFiles) => <<g, p>> \in sm
    BY <2>1
  <2>3. (t \/ p \notin RegFiles) => \A f, h : <<f, p>> \in sm /\ <<h, p>> \in sm => f = h
    BY <2>1
  <2> QED BY <2>2, <2>3 DEF Once
<1>5. p \in RegFiles /\ ~t => Never(sm, p)
  BY <1>1, OwnIs DEF Never, RegFU_sum, RegFiles, Windowed, When
<1>6. p \notin {"MC_arb", "corepipe", "homenode", "homenode_rtp", "instruction_selection"}
  BY <1>2 DEF RegFU_made, RegFiles, Windowed, When
<1>7. AsEntered(ch, p)
  BY <1>3, <1>5, <1>6 DEF AsEntered
<1>8. p \notin Uncounted(t) /\ p \notin CountedTwice => AsEntered(sm, p)
  BY <1>4, <1>5, <1>6 DEF AsEntered, Uncounted, CountedTwice, When
<1>9. p \in Uncounted(t) => Never(sm, p)
  BY <1>5, <1>6 DEF Uncounted, When
<1>10. p \in CountedTwice => Into(sm, p, {"frontend", "SerDer"})
  BY <1>5, <1>6 DEF CountedTwice, When
<1> QED BY <1>7, <1>8, <1>9, <1>10 DEF AsCounted, ch, sm

(* The parts of FunctionalUnit.                                            *)
LEMMA FunctionalUnitCounts ==
  ASSUME unit = "FunctionalUnit"
  PROVE  Counts
<1> SUFFICES ASSUME NEW p \in Parts, NEW t \in BOOLEAN PROVE AsCounted(p, t)
  BY DEF Counts
<1> DEFINE ch == T.charge
           sm == T.sum[t]
<1>1. ch = FunctionalUnit_charge(cfg) /\ sm = FunctionalUnit_sum(cfg, t)
  BY DEF T, Table, Row
<1>2. p \in FunctionalUnit_made(cfg)
  BY DEF T, Parts, Table, Row, Members
<1> HIDE DEF ch, sm
<1>3. Once(ch, p)
  <2> DEFINE g == p
  <2>1. \A f : <<f, p>> \in ch <=> f = g
    BY <1>1, <1>2, OwnIs DEF FunctionalUnit_charge, FunctionalUnit_made, When
  <2> HIDE DEF g
  <2>2. <<g, p>> \in ch
    BY <2>1
  <2>3. \A f, h : <<f, p>> \in ch /\ <<h, p>> \in ch => f = h
    BY <2>1
  <2> QED BY <2>2, <2>3 DEF Once
<1>4. (t \/ p \notin {"fu"}) => Once(sm, p)
  <2> DEFINE g == p
  <2>1. (t \/ p \notin {"fu"}) => \A f : <<f, p>> \in sm <=> f = g
    BY <1>1, <1>2, OwnIs DEF FunctionalUnit_sum, FunctionalUnit_made, When
  <2> HIDE DEF g
  <2>2. (t \/ p \notin {"fu"}) => <<g, p>> \in sm
    BY <2>1
  <2>3. (t \/ p \notin {"fu"}) => \A f, h : <<f, p>> \in sm /\ <<h, p>> \in sm => f = h
    BY <2>1
  <2> QED BY <2>2, <2>3 DEF Once
<1>5. p \in {"fu"} /\ ~t => Never(sm, p)
  BY <1>1, OwnIs DEF Never, FunctionalUnit_sum, When
<1>6. p \notin {"MC_arb", "corepipe", "homenode", "homenode_rtp", "instruction_selection"}
  BY <1>2 DEF FunctionalUnit_made, When
<1>7. AsEntered(ch, p)
  BY <1>3, <1>5, <1>6 DEF AsEntered
<1>8. p \notin Uncounted(t) /\ p \notin CountedTwice => AsEntered(sm, p)
  BY <1>4, <1>5, <1>6 DEF AsEntered, Uncounted, CountedTwice, When
<1>9. p \in Uncounted(t) => Never(sm, p)
  BY <1>5, <1>6 DEF Uncounted, When
<1>10. p \in CountedTwice => Into(sm, p, {"frontend", "SerDer"})
  BY <1>5, <1>6 DEF CountedTwice, When
<1> QED BY <1>7, <1>8, <1>9, <1>10 DEF AsCounted, ch, sm

(* The parts of EXECU.                                                     *)
LEMMA EXECUCounts ==
  ASSUME unit = "EXECU"
  PROVE  Counts
<1> SUFFICES ASSUME NEW p \in Parts, NEW t \in BOOLEAN PROVE AsCounted(p, t)
  BY DEF Counts
<1> DEFINE ch == T.charge
           sm == T.sum[t]
<1>1. ch = EXECU_charge(cfg) /\ sm = EXECU_sum(cfg, t)
  BY DEF T, Table, Row
<1>2. p \in EXECU_made(cfg)
  BY DEF T, Parts, Table, Row, Members
<1> HIDE DEF ch, sm
<1>3. Once(ch, p)
  <2> DEFINE g == IF p \in IntBypass \union MulBypass(cfg) \union FpBypass(cfg) THEN
        "bypass" ELSE p
  <2>1. \A f : <<f, p>> \in ch <=> f = g
    BY <1>1, <1>2, OwnIs DEF EXECU_made, EXECU_charge, ExecUnits, IntBypass, MulBypass,
    FpBypass, When
  <2> HIDE DEF g
  <2>2. <<g, p>> \in ch
    BY <2>1
  <2>3. \A f, h : <<f, p>> \in ch /\ <<h, p>> \in ch => f = h
    BY <2>1
  <2> QED BY <2>2, <2>3 DEF Once
<1>4. Once(sm, p)
  <2> DEFINE g == IF p \in IntBypass \union MulBypass(cfg) \union FpBypass(cfg) THEN
        "bypass" ELSE p
  <2>1. \A f : <<f, p>> \in sm <=> f = g
    BY <1>1, <1>2, OwnIs DEF EXECU_made, EXECU_sum, ExecUnits, IntBypass, MulBypass,
    FpBypass, When
  <2> HIDE DEF g
  <2>2. <<g, p>> \in sm
    BY <2>1
  <2>3. \A f, h : <<f, p>> \in sm /\ <<h, p>> \in sm => f = h
    BY <2>1
  <2> QED BY <2>2, <2>3 DEF Once
<1>5. p \notin {"MC_arb", "corepipe", "homenode", "homenode_rtp", "instruction_selection"}
  BY <1>2 DEF EXECU_made, ExecUnits, IntBypass, MulBypass, FpBypass, When
<1>6. AsEntered(ch, p)
  BY <1>3, <1>5 DEF AsEntered
<1>7. p \notin Uncounted(t) /\ p \notin CountedTwice => AsEntered(sm, p)
  BY <1>4, <1>5 DEF AsEntered, Uncounted, CountedTwice, When
<1>8. p \in Uncounted(t) => Never(sm, p)
  BY <1>5 DEF Uncounted, When
<1>9. p \in CountedTwice => Into(sm, p, {"frontend", "SerDer"})
  BY <1>5 DEF CountedTwice, When
<1> QED BY <1>6, <1>7, <1>8, <1>9 DEF AsCounted, ch, sm

(* The parts of Core.                                                      *)
LEMMA CoreCounts ==
  ASSUME unit = "Core"
  PROVE  Counts
<1> SUFFICES ASSUME NEW p \in Parts, NEW t \in BOOLEAN PROVE AsCounted(p, t)
  BY DEF Counts
<1> DEFINE ch == T.charge
           sm == T.sum[t]
<1>1. ch = Core_charge(cfg) /\ sm = Core_sum(cfg, t)
  BY DEF T, Table, Row
<1>2. p \in Core_made(cfg)
  BY DEF T, Parts, Table, Row, Members
<1> HIDE DEF ch, sm
<1>3. p \notin {"corepipe"} => Once(ch, p)
  <2> DEFINE g == p
  <2>1. p \notin {"corepipe"} => \A f : <<f, p>> \in ch <=> f = g
    BY <1>1, <1>2, OwnIs DEF Core_made, Core_charge, CoreUnits, When
  <2> HIDE DEF g
  <2>2. p \notin {"corepipe"} => <<g, p>> \in ch
    BY <2>1
  <2>3. p \notin {"corepipe"} => \A f, h : <<f, p>> \in ch /\ <<h, p>> \in ch => f = h
    BY <2>1
  <2> QED BY <2>2, <2>3 DEF Once
<1>4. p \notin {"corepipe"} => Once(sm, p)
  <2> DEFINE g == p
  <2>1. p \notin {"corepipe"} => \A f : <<f, p>> \in sm <=> f = g
    BY <1>1, <1>2, OwnIs DEF Core_made, Core_sum, CoreUnits, When
  <2> HIDE DEF g
  <2>2. p \notin {"corepipe"} => <<g, p>> \in sm
    BY <2>1
  <2>3. p \notin {"corepipe"} => \A f, h : <<f, p>> \in sm /\ <<h, p>> \in sm => f = h
    BY <2>1
  <2> QED BY <2>2, <2>3 DEF Once
<1>5. p = "corepipe" => Into(ch, p, CoreUnits(cfg)) /\ Into(sm, p, CoreUnits(cfg))
  BY <1>1, OwnIs DEF Into, Core_charge, Core_sum, CoreUnits, When
<1>6. p \notin {"MC_arb", "homenode", "homenode_rtp", "instruction_selection"}
  BY <1>2 DEF Core_made, CoreUnits, When
<1>7. AsEntered(ch, p)
  BY <1>3, <1>5, <1>6 DEF AsEntered
<1>8. p \notin Uncounted(t) /\ p \notin CountedTwice => AsEntered(sm, p)
  BY <1>4, <1>5, <1>6 DEF AsEntered, Uncounted, CountedTwice, When
<1>9. p \in Uncounted(t) => Never(sm, p)
  BY <1>5, <1>6 DEF Uncounted, When
<1>10. p \in CountedTwice => Into(sm, p, {"frontend", "SerDer"})
  BY <1>5, <1>6 DEF CountedTwice, When
<1> QED BY <1>7, <1>8, <1>9, <1>10 DEF AsCounted, ch, sm

(* The parts of SharedCache.                                               *)
LEMMA SharedCacheCounts ==
  ASSUME unit = "SharedCache", "SBT" \in cfg => "ST" \notin cfg
  PROVE  Counts
<1> SUFFICES ASSUME NEW p \in Parts, NEW t \in BOOLEAN PROVE AsCounted(p, t)
  BY DEF Counts
<1> DEFINE ch == T.charge
           sm == T.sum[t]
<1>1. ch = SharedCache_charge(cfg) /\ sm = SharedCache_sum(cfg, t)
  BY DEF T, Table, Row
<1>2. p \in SharedCache_made(cfg) \union {"homenode", "homenode_rtp"}
  BY DEF T, Parts, Table, Row, Members
<1> HIDE DEF ch, sm
<1>3. p \notin {"homenode", "homenode_rtp"} => Once(ch, p)
  <2> DEFINE g == "unicache"
  <2>1. p \notin {"homenode", "homenode_rtp"} => \A f : <<f, p>> \in ch <=> f = g
    BY <1>1, <1>2, OwnIs DEF SharedCache_made, SharedCache_charge, Shadowed, HomeNode,
    SharedBuffers, When
  <2> HIDE DEF g
  <2>2. p \notin {"homenode", "homenode_rtp"} => <<g, p>> \in ch
    BY <2>1
  <2>3. p \notin {"homenode", "homenode_rtp"} =>
          \A f, h : <<f, p>> \in ch /\ <<h, p>> \in ch => f = h
    BY <2>1
  <2> QED BY <2>2, <2>3 DEF Once
<1>4. p \notin {"homenode", "homenode_rtp"} => Once(sm, p)
  <2> DEFINE g == "unicache"
  <2>1. p \notin {"homenode", "homenode_rtp"} => \A f : <<f, p>> \in sm <=> f = g
    BY <1>1, <1>2, OwnIs DEF SharedCache_made, SharedCache_sum, Shadowed, HomeNode,
    SharedBuffers, When
  <2> HIDE DEF g
  <2>2. p \notin {"homenode", "homenode_rtp"} => <<g, p>> \in sm
    BY <2>1
  <2>3. p \notin {"homenode", "homenode_rtp"} =>
          \A f, h : <<f, p>> \in sm /\ <<h, p>> \in sm => f = h
    BY <2>1
  <2> QED BY <2>2, <2>3 DEF Once
<1>5. p \in {"homenode", "homenode_rtp"} => Never(sm, p)
  BY <1>1 DEF Never, SharedCache_sum, Shadowed, HomeNode, SharedBuffers, When
<1>6. p = "homenode_rtp" => Never(ch, p)
  BY <1>1 DEF Never, SharedCache_charge, Shadowed, HomeNode, SharedBuffers, When
<1>7. p = "homenode" => IF "SBT" \in cfg THEN Once(ch, p) ELSE Never(ch, p)
  BY <1>1 DEF Once, Never, SharedCache_charge, Shadowed, HomeNode, SharedBuffers, When
<1>8. p \notin {"MC_arb", "corepipe", "instruction_selection"}
  BY <1>2 DEF SharedCache_made, Shadowed, HomeNode, SharedBuffers, When
<1>9. AsEntered(ch, p)
  BY <1>3, <1>5, <1>6, <1>7, <1>8 DEF AsEntered
<1>10. p \notin Uncounted(t) /\ p \notin CountedTwice => AsEntered(sm, p)
  BY <1>4, <1>5, <1>6, <1>7, <1>8 DEF AsEntered, Uncounted, CountedTwice, When
<1>11. p \in Uncounted(t) => Never(sm, p)
  BY <1>5, <1>6, <1>7, <1>8 DEF Uncounted, When
<1>12. p \in CountedTwice => Into(sm, p, {"frontend", "SerDer"})
  BY <1>5, <1>6, <1>7, <1>8 DEF CountedTwice, When
<1> QED BY <1>9, <1>10, <1>11, <1>12 DEF AsCounted, ch, sm

(* The parts of MemoryController.                                          *)
LEMMA MemoryControllerCounts ==
  ASSUME unit = "MemoryController"
  PROVE  Counts
<1> SUFFICES ASSUME NEW p \in Parts, NEW t \in BOOLEAN PROVE AsCounted(p, t)
  BY DEF Counts
<1> DEFINE ch == T.charge
           sm == T.sum[t]
<1>1. ch = MemoryController_charge(cfg) /\ sm = MemoryController_sum(cfg, t)
  BY DEF T, Table, Row
<1>2. p \in MemoryController_made(cfg)
  BY DEF T, Parts, Table, Row, Members
<1> HIDE DEF ch, sm
<1>3. Once(ch, p)
  <2> DEFINE g == p
  <2>1. \A f : <<f, p>> \in ch <=> f = g
    BY <1>1, <1>2, OwnIs DEF MemoryController_made, MemoryController_charge, HasPHY,
    McParts, When
  <2> HIDE DEF g
  <2>2. <<g, p>> \in ch
    BY <2>1
  <2>3. \A f, h : <<f, p>> \in ch /\ <<h, p>> \in ch => f = h
    BY <2>1
  <2> QED BY <2>2, <2>3 DEF Once
<1>4. Once(sm, p)
  <2> DEFINE g == p
  <2>1. \A f : <<f, p>> \in sm <=> f = g
    BY <1>1, <1>2, OwnIs DEF MemoryController_made, MemoryController_sum, HasPHY, McParts,
    When
  <2> HIDE DEF g
  <2>2. <<g, p>> \in sm
    BY <2>1
  <2>3. \A f, h : <<f, p>> \in sm /\ <<h, p>> \in sm => f = h
    BY <2>1
  <2> QED BY <2>2, <2>3 DEF Once
<1>5. p \notin {"MC_arb", "corepipe", "homenode", "homenode_rtp", "instruction_selection"}
  BY <1>2 DEF MemoryController_made, HasPHY, McParts, When
<1>6. AsEntered(ch, p)
  BY <1>3, <1>5 DEF AsEntered
<1>7. p \notin Uncounted(t) /\ p \notin CountedTwice => AsEntered(sm, p)
  BY <1>4, <1>5 DEF AsEntered, Uncounted, CountedTwice, When
<1>8. p \in Uncounted(t) => Never(sm, p)
  BY <1>5 DEF Uncounted, When
<1>9. p \in CountedTwice => Into(sm, p, {"frontend", "SerDer"})
  BY <1>5 DEF CountedTwice, When
<1> QED BY <1>6, <1>7, <1>8, <1>9 DEF AsCounted, ch, sm

(* The parts of MCFrontEnd.                                                *)
LEMMA MCFrontEndCounts ==
  ASSUME unit = "MCFrontEnd"
  PROVE  Counts
<1> SUFFICES ASSUME NEW p \in Parts, NEW t \in BOOLEAN PROVE AsCounted(p, t)
  BY DEF Counts
<1> DEFINE ch == T.charge
           sm == T.sum[t]
<1>1. ch = MCFrontEnd_charge(cfg) /\ sm = MCFrontEnd_sum(cfg, t)
  BY DEF T, Table, Row
<1>2. p \in MCFrontEnd_made(cfg)
  BY DEF T, Parts, Table, Row, Members
<1> HIDE DEF ch, sm
<1>3. p \notin {"MC_arb"} => Once(ch, p)
  <2> DEFINE g == "frontend"
  <2>1. p \notin {"MC_arb"} => \A f : <<f, p>> \in ch <=> f = g
    BY <1>1, <1>2, OwnIs DEF MCFrontEnd_made, MCFrontEnd_charge, McBuffers, When
  <2> HIDE DEF g
  <2>2. p \notin {"MC_arb"} => <<g, p>> \in ch
    BY <2>1
  <2>3. p \notin {"MC_arb"} => \A f, h : <<f, p>> \in ch /\ <<h, p>> \in ch => f = h
    BY <2>1
  <2> QED BY <2>2, <2>3 DEF Once
<1>4. p \notin {"MC_arb"} => Once(sm, p)
  <2> DEFINE g == "frontend"
  <2>1. p \notin {"MC_arb"} => \A f : <<f, p>> \in sm <=> f = g
    BY <1>1, <1>2, OwnIs DEF MCFrontEnd_made, MCFrontEnd_sum, McBuffers, When
  <2> HIDE DEF g
  <2>2. p \notin {"MC_arb"} => <<g, p>> \in sm
    BY <2>1
  <2>3. p \notin {"MC_arb"} => \A f, h : <<f, p>> \in sm /\ <<h, p>> \in sm => f = h
    BY <2>1
  <2> QED BY <2>2, <2>3 DEF Once
<1>5. p = "MC_arb" => Never(ch, p) /\ Never(sm, p)
  BY <1>1, OwnIs DEF Never, MCFrontEnd_charge, MCFrontEnd_sum, McBuffers, When
<1>6. p \notin {"corepipe", "homenode", "homenode_rtp", "instruction_selection"}
  BY <1>2 DEF MCFrontEnd_made, McBuffers, When
<1>7. AsEntered(ch, p)
  BY <1>3, <1>5, <1>6 DEF AsEntered
<1>8. p \notin Uncounted(t) /\ p \notin CountedTwice => AsEntered(sm, p)
  BY <1>4, <1>5, <1>6 DEF AsEntered, Uncounted, CountedTwice, When
<1>9. p \in Uncounted(t) => Never(sm, p)
  BY <1>5, <1>6 DEF Uncounted, When
<1>10. p \in CountedTwice => Into(sm, p, {"frontend", "SerDer"})
  BY <1>5, <1>6 DEF CountedTwice, When
<1> QED BY <1>7, <1>8, <1>9, <1>10 DEF AsCounted, ch, sm

(* The parts of MCBackend.                                                 *)
LEMMA MCBackendCounts ==
  ASSUME unit = "MCBackend"
  PROVE  Counts
<1> SUFFICES ASSUME NEW p \in Parts, NEW t \in BOOLEAN PROVE AsCounted(p, t)
  BY DEF Counts
<1> DEFINE ch == T.charge
           sm == T.sum[t]
<1>1. ch = MCBackend_charge(cfg) /\ sm = MCBackend_sum(cfg, t)
  BY DEF T, Table, Row
<1>2. p \in MCBackend_made(cfg)
  BY DEF T, Parts, Table, Row, Members
<1> HIDE DEF ch, sm
<1>3. Once(ch, p)
  <2> DEFINE g == p
  <2>1. \A f : <<f, p>> \in ch <=> f = g
    BY <1>1, <1>2, OwnIs DEF MCBackend_charge, MCBackend_made, When
  <2> HIDE DEF g
  <2>2. <<g, p>> \in ch
    BY <2>1
  <2>3. \A f, h : <<f, p>> \in ch /\ <<h, p>> \in ch => f = h
    BY <2>1
  <2> QED BY <2>2, <2>3 DEF Once
<1>4. Once(sm, p)
  <2> DEFINE g == p
  <2>1. \A f : <<f, p>> \in sm <=> f = g
    BY <1>1, <1>2, OwnIs DEF MCBackend_sum, MCBackend_made, When
  <2> HIDE DEF g
  <2>2. <<g, p>> \in sm
    BY <2>1
  <2>3. \A f, h : <<f, p>> \in sm /\ <<h, p>> \in sm => f = h
    BY <2>1
  <2> QED BY <2>2, <2>3 DEF Once
<1>5. p \notin {"MC_arb", "corepipe", "homenode", "homenode_rtp", "instruction_selection"}
  BY <1>2 DEF MCBackend_made, When
<1>6. AsEntered(ch, p)
  BY <1>3, <1>5 DEF AsEntered
<1>7. p \notin Uncounted(t) /\ p \notin CountedTwice => AsEntered(sm, p)
  BY <1>4, <1>5 DEF AsEntered, Uncounted, CountedTwice, When
<1>8. p \in Uncounted(t) => Never(sm, p)
  BY <1>5 DEF Uncounted, When
<1>9. p \in CountedTwice => Into(sm, p, {"frontend", "SerDer"})
  BY <1>5 DEF CountedTwice, When
<1> QED BY <1>6, <1>7, <1>8, <1>9 DEF AsCounted, ch, sm

(* The parts of MCPHY.                                                     *)
LEMMA MCPHYCounts ==
  ASSUME unit = "MCPHY"
  PROVE  Counts
<1> SUFFICES ASSUME NEW p \in Parts, NEW t \in BOOLEAN PROVE AsCounted(p, t)
  BY DEF Counts
<1> DEFINE ch == T.charge
           sm == T.sum[t]
<1>1. ch = MCPHY_charge(cfg) /\ sm = MCPHY_sum(cfg, t)
  BY DEF T, Table, Row
<1>2. p \in MCPHY_made(cfg)
  BY DEF T, Parts, Table, Row, Members
<1> HIDE DEF ch, sm
<1>3. Once(ch, p)
  <2> DEFINE g == p
  <2>1. \A f : <<f, p>> \in ch <=> f = g
    BY <1>1, <1>2, OwnIs DEF MCPHY_charge, MCPHY_made, When
  <2> HIDE DEF g
  <2>2. <<g, p>> \in ch
    BY <2>1
  <2>3. \A f, h : <<f, p>> \in ch /\ <<h, p>> \in ch => f = h
    BY <2>1
  <2> QED BY <2>2, <2>3 DEF Once
<1>4. Once(sm, p)
  <2> DEFINE g == p
  <2>1. \A f : <<f, p>> \in sm <=> f = g
    BY <1>1, <1>2, OwnIs DEF MCPHY_sum, MCPHY_made, When
  <2> HIDE DEF g
  <2>2. <<g, p>> \in sm
    BY <2>1
  <2>3. \A f, h : <<f, p>> \in sm /\ <<h, p>> \in sm => f = h
    BY <2>1
  <2> QED BY <2>2, <2>3 DEF Once
<1>5. p \notin {"MC_arb", "corepipe", "homenode", "homenode_rtp", "instruction_selection"}
  BY <1>2 DEF MCPHY_made, When
<1>6. AsEntered(ch, p)
  BY <1>3, <1>5 DEF AsEntered
<1>7. p \notin Uncounted(t) /\ p \notin CountedTwice => AsEntered(sm, p)
  BY <1>4, <1>5 DEF AsEntered, Uncounted, CountedTwice, When
<1>8. p \in Uncounted(t) => Never(sm, p)
  BY <1>5 DEF Uncounted, When
<1>9. p \in CountedTwice => Into(sm, p, {"frontend", "SerDer"})
  BY <1>5 DEF CountedTwice, When
<1> QED BY <1>6, <1>7, <1>8, <1>9 DEF AsCounted, ch, sm

(* The parts of NoC.                                                       *)
LEMMA NoCCounts ==
  ASSUME unit = "NoC"
  PROVE  Counts
<1> SUFFICES ASSUME NEW p \in Parts, NEW t \in BOOLEAN PROVE AsCounted(p, t)
  BY DEF Counts
<1> DEFINE ch == T.charge
           sm == T.sum[t]
<1>1. ch = NoC_charge(cfg) /\ sm = NoC_sum(cfg, t)
  BY DEF T, Table, Row
<1>2. p \in NoC_made(cfg)
  BY DEF T, Parts, Table, Row, Members
<1> HIDE DEF ch, sm
<1>3. Once(ch, p)
  <2> DEFINE g == p
  <2>1. \A f : <<f, p>> \in ch <=> f = g
    BY <1>1, <1>2, OwnIs DEF NoC_made, NoC_charge, NoC_router, NoC_link_bus, NocParts, When
  <2> HIDE DEF g
  <2>2. <<g, p>> \in ch
    BY <2>1
  <2>3. \A f, h : <<f, p>> \in ch /\ <<h, p>> \in ch => f = h
    BY <2>1
  <2> QED BY <2>2, <2>3 DEF Once
<1>4. Once(sm, p)
  <2> DEFINE g == p
  <2>1. \A f : <<f, p>> \in sm <=> f = g
    BY <1>1, <1>2, OwnIs DEF NoC_made, NoC_sum, NoC_router, NoC_link_bus, NocParts, When
  <2> HIDE DEF g
  <2>2. <<g, p>> \in sm
    BY <2>1
  <2>3. \A f, h : <<f, p>> \in sm /\ <<h, p>> \in sm => f = h
    BY <2>1
  <2> QED BY <2>2, <2>3 DEF Once
<1>5. p \notin {"MC_arb", "corepipe", "homenode", "homenode_rtp", "instruction_selection"}
  BY <1>2 DEF NoC_made, NoC_router, NoC_link_bus, NocParts, When
<1>6. AsEntered(ch, p)
  BY <1>3, <1>5 DEF AsEntered
<1>7. p \notin Uncounted(t) /\ p \notin CountedTwice => AsEntered(sm, p)
  BY <1>4, <1>5 DEF AsEntered, Uncounted, CountedTwice, When
<1>8. p \in Uncounted(t) => Never(sm, p)
  BY <1>5 DEF Uncounted, When
<1>9. p \in CountedTwice => Into(sm, p, {"frontend", "SerDer"})
  BY <1>5 DEF CountedTwice, When
<1> QED BY <1>6, <1>7, <1>8, <1>9 DEF AsCounted, ch, sm

(* The parts of NIUController.                                             *)
LEMMA NIUControllerCounts ==
  ASSUME unit = "NIUController"
  PROVE  Counts
<1> SUFFICES ASSUME NEW p \in Parts, NEW t \in BOOLEAN PROVE AsCounted(p, t)
  BY DEF Counts
<1> DEFINE ch == T.charge
           sm == T.sum[t]
<1>1. ch = NIUController_charge(cfg) /\ sm = NIUController_sum(cfg, t)
  BY DEF T, Table, Row
<1>2. p \in NIUController_made(cfg)
  BY DEF T, Parts, Table, Row, Members
<1> HIDE DEF ch, sm
<1>3. Once(ch, p)
  <2> DEFINE g == "niu"
  <2>1. \A f : <<f, p>> \in ch <=> f = g
    BY <1>1, <1>2, OwnIs DEF NIUController_charge, NIUController_made, When
  <2> HIDE DEF g
  <2>2. <<g, p>> \in ch
    BY <2>1
  <2>3. \A f, h : <<f, p>> \in ch /\ <<h, p>> \in ch => f = h
    BY <2>1
  <2> QED BY <2>2, <2>3 DEF Once
<1>4. p \notin {"SerDer"} /\ p # "frontend" => Once(sm, p)
  <2> DEFINE g == p
  <2>1. p \notin {"SerDer"} /\ p # "frontend" => \A f : <<f, p>> \in sm <=> f = g
    BY <1>1, <1>2, OwnIs DEF NIUController_sum, NIUController_made, When
  <2> HIDE DEF g
  <2>2. p \notin {"SerDer"} /\ p # "frontend" => <<g, p>> \in sm
    BY <2>1
  <2>3. p \notin {"SerDer"} /\ p # "frontend" =>
          \A f, h : <<f, p>> \in sm /\ <<h, p>> \in sm => f = h
    BY <2>1
  <2> QED BY <2>2, <2>3 DEF Once
<1>5. p = "SerDer" => Never(sm, p)
  BY <1>1 DEF Never, NIUController_sum
<1>6. p = "frontend" => Into(sm, p, {"frontend", "SerDer"})
  BY <1>1 DEF Into, NIUController_sum
<1>7. p \notin {"MC_arb", "corepipe", "homenode", "homenode_rtp", "instruction_selection"}
  BY <1>2 DEF NIUController_made, When
<1>8. AsEntered(ch, p)
  BY <1>3, <1>5, <1>6, <1>7 DEF AsEntered
<1>9. p \notin Uncounted(t) /\ p \notin CountedTwice => AsEntered(sm, p)
  BY <1>4, <1>5, <1>6, <1>7 DEF AsEntered, Uncounted, CountedTwice, When
<1>10. p \in Uncounted(t) => Never(sm, p)
  BY <1>5, <1>6, <1>7 DEF Uncounted, When
<1>11. p \in CountedTwice => Into(sm, p, {"frontend", "SerDer"})
  BY <1>5, <1>6, <1>7 DEF CountedTwice, When
<1> QED BY <1>8, <1>9, <1>10, <1>11 DEF AsCounted, ch, sm

(* The parts of PCIeController.                                            *)
LEMMA PCIeControllerCounts ==
  ASSUME unit = "PCIeController"
  PROVE  Counts
<1> SUFFICES ASSUME NEW p \in Parts, NEW t \in BOOLEAN PROVE AsCounted(p, t)
  BY DEF Counts
<1> DEFINE ch == T.charge
           sm == T.sum[t]
<1>1. ch = PCIeController_charge(cfg) /\ sm = PCIeController_sum(cfg, t)
  BY DEF T, Table, Row
<1>2. p \in PCIeController_made(cfg)
  BY DEF T, Parts, Table, Row, Members
<1> HIDE DEF ch, sm
<1>3. Once(ch, p)
  <2> DEFINE g == "pcie"
  <2>1. \A f : <<f, p>> \in ch <=> f = g
    BY <1>1, <1>2, OwnIs DEF PCIeController_charge, PCIeController_made, When
  <2> HIDE DEF g
  <2>2. <<g, p>> \in ch
    BY <2>1
  <2>3. \A f, h : <<f, p>> \in ch /\ <<h, p>> \in ch => f = h
    BY <2>1
  <2> QED BY <2>2, <2>3 DEF Once
<1>4. Once(sm, p)
  <2> DEFINE g == "pcie"
  <2>1. \A f : <<f, p>> \in sm <=> f = g
    BY <1>1, <1>2, OwnIs DEF PCIeController_sum, PCIeController_made, When
  <2> HIDE DEF g
  <2>2. <<g, p>> \in sm
    BY <2>1
  <2>3. \A f, h : <<f, p>> \in sm /\ <<h, p>> \in sm => f = h
    BY <2>1
  <2> QED BY <2>2, <2>3 DEF Once
<1>5. p \notin {"MC_arb", "corepipe", "homenode", "homenode_rtp", "instruction_selection"}
  BY <1>2 DEF PCIeController_made, When
<1>6. AsEntered(ch, p)
  BY <1>3, <1>5 DEF AsEntered
<1>7. p \notin Uncounted(t) /\ p \notin CountedTwice => AsEntered(sm, p)
  BY <1>4, <1>5 DEF AsEntered, Uncounted, CountedTwice, When
<1>8. p \in Uncounted(t) => Never(sm, p)
  BY <1>5 DEF Uncounted, When
<1>9. p \in CountedTwice => Into(sm, p, {"frontend", "SerDer"})
  BY <1>5 DEF CountedTwice, When
<1> QED BY <1>6, <1>7, <1>8, <1>9 DEF AsCounted, ch, sm

(* The parts of FlashController.                                           *)
LEMMA FlashControllerCounts ==
  ASSUME unit = "FlashController"
  PROVE  Counts
<1> SUFFICES ASSUME NEW p \in Parts, NEW t \in BOOLEAN PROVE AsCounted(p, t)
  BY DEF Counts
<1> DEFINE ch == T.charge
           sm == T.sum[t]
<1>1. ch = FlashController_charge(cfg) /\ sm = FlashController_sum(cfg, t)
  BY DEF T, Table, Row
<1>2. p \in FlashController_made(cfg)
  BY DEF T, Parts, Table, Row, Members
<1> HIDE DEF ch, sm
<1>3. Once(ch, p)
  <2> DEFINE g == "fc"
  <2>1. \A f : <<f, p>> \in ch <=> f = g
    BY <1>1, <1>2, OwnIs DEF FlashController_charge, FlashController_made, When
  <2> HIDE DEF g
  <2>2. <<g, p>> \in ch
    BY <2>1
  <2>3. \A f, h : <<f, p>> \in ch /\ <<h, p>> \in ch => f = h
    BY <2>1
  <2> QED BY <2>2, <2>3 DEF Once
<1>4. Once(sm, p)
  <2> DEFINE g == "fc"
  <2>1. \A f : <<f, p>> \in sm <=> f = g
    BY <1>1, <1>2, OwnIs DEF FlashController_sum, FlashController_made, When
  <2> HIDE DEF g
  <2>2. <<g, p>> \in sm
    BY <2>1
  <2>3. \A f, h : <<f, p>> \in sm /\ <<h, p>> \in sm => f = h
    BY <2>1
  <2> QED BY <2>2, <2>3 DEF Once
<1>5. p \notin {"MC_arb", "corepipe", "homenode", "homenode_rtp", "instruction_selection"}
  BY <1>2 DEF FlashController_made, When
<1>6. AsEntered(ch, p)
  BY <1>3, <1>5 DEF AsEntered
<1>7. p \notin Uncounted(t) /\ p \notin CountedTwice => AsEntered(sm, p)
  BY <1>4, <1>5 DEF AsEntered, Uncounted, CountedTwice, When
<1>8. p \in Uncounted(t) => Never(sm, p)
  BY <1>5 DEF Uncounted, When
<1>9. p \in CountedTwice => Into(sm, p, {"frontend", "SerDer"})
  BY <1>5 DEF CountedTwice, When
<1> QED BY <1>6, <1>7, <1>8, <1>9 DEF AsCounted, ch, sm

(* The parts of inst_decoder.                                              *)
LEMMA inst_decoderCounts ==
  ASSUME unit = "inst_decoder"
  PROVE  Counts
<1> SUFFICES ASSUME NEW p \in Parts, NEW t \in BOOLEAN PROVE AsCounted(p, t)
  BY DEF Counts
<1>1. T.charge = {} /\ T.sum[t] = {}
  BY DEF T, Table, Row
<1>2. p \in inst_decoder_made(cfg)
  BY DEF T, Parts, Table, Row, Members
<1> QED BY <1>1, <1>2 DEF AsCounted, AsEntered, Never, Uncounted, CountedTwice, When,
inst_decoder_made

-----------------------------------------------------------------------------
(* Counting: the elements of a set that stand for the pairs of another.    *)

(* A set of pairs <<figure, part>>.                                        *)
Pairs(S) == \A x \in S : \E f, p : x = <<f, p>>

(* D has one element for each pair of S, and it starts with the pair.      *)
Spread(D, S) ==
  /\ \A y \in D : <<y[1], y[2]>> \in S
  /\ \A f, p : <<f, p>> \in S => \E y \in D : y[1] = f /\ y[2] = p
  /\ \A y, z \in D : y[1] = z[1] /\ y[2] = z[2] => y = z

(* A part is as often in D as it has figures in S.                         *)
LEMMA TimesInto ==
  ASSUME NEW D, NEW S, NEW p, NEW F, Spread(D, S), Into(S, p, F), IsFiniteSet(F)
  PROVE  Times(D, p) = Cardinality(F)
<1> DEFINE M == {y \in D : y[2] = p}
           at(f) == CHOOSE y \in M : y[1] = f
           m == [f \in F |-> at(f)]
<1>1. \A f \in F : \E y \in M : y[1] = f
  <2> TAKE f \in F
  <2>1. <<f, p>> \in S
    BY DEF Into
  <2>2. PICK y \in D : y[1] = f /\ y[2] = p
    BY <2>1 DEF Spread
  <2> QED BY <2>2
<1>2. \A f \in F : at(f) \in M /\ at(f)[1] = f
  BY <1>1
<1>3. \A y \in M : y[1] \in F /\ y[2] = p
  BY DEF Spread, Into
<1>4. \A y, z \in M : y[1] = z[1] => y = z
  BY <1>3 DEF Spread
<1>5. \A y \in M : \E f \in F : at(f) = y
  BY <1>2, <1>3, <1>4
<1> HIDE DEF at, M
<1>6. m \in [F -> M]
  BY <1>2
<1>7. \A f, g \in F : m[f] = m[g] => f = g
  BY <1>2
<1>8. \A y \in M : \E f \in F : m[f] = y
  BY <1>5
<1> HIDE DEF m
<1>9. m \in Bijection(F, M)
  BY <1>6, <1>7, <1>8, Fun_IsBij
<1>10. Cardinality(M) = Cardinality(F)
  BY <1>9, FS_Bijection DEF ExistsBijection
<1> QED BY <1>10 DEF Times, M

(* Once, if it has one figure.                                             *)
LEMMA TimesOnce ==
  ASSUME NEW D, NEW S, NEW p, Spread(D, S), Once(S, p)
  PROVE  Times(D, p) = 1
<1>1. PICK g : <<g, p>> \in S
  BY DEF Once
<1>2. Into(S, p, {g})
  BY <1>1 DEF Once, Into
<1>3. IsFiniteSet({g}) /\ Cardinality({g}) = 1
  BY FS_Singleton
<1> QED BY <1>2, <1>3, TimesInto

(* And not at all, if it has none.                                         *)
LEMMA TimesNever ==
  ASSUME NEW D, NEW S, NEW p, Spread(D, S), Never(S, p)
  PROVE  Times(D, p) = 0
<1>1. Into(S, p, {})
  BY DEF Never, Into
<1>2. IsFiniteSet({}) /\ Cardinality({}) = 0
  BY FS_EmptySet
<1> QED BY <1>1, <1>2, TimesInto

(* A set of pairs is spread over itself.                                   *)
LEMMA SpreadSelf ==
  ASSUME NEW S, Pairs(S) PROVE Spread(S, S)
<1>1. \A x \in S : x = <<x[1], x[2]>>
  BY DEF Pairs
<1> QED BY <1>1 DEF Spread

(* And the triples that add an origin to each pair are spread over it.     *)
LEMMA SpreadOrigins ==
  ASSUME NEW S, Pairs(S), NEW o
  PROVE  Spread({<<fp[1], fp[2], o[fp]>> : fp \in S}, S)
<1> DEFINE D == {<<fp[1], fp[2], o[fp]>> : fp \in S}
<1>1. \A x \in S : x = <<x[1], x[2]>>
  BY DEF Pairs
<1>2. \A y \in D : \E x \in S : y[1] = x[1] /\ y[2] = x[2] /\ y[3] = o[x] /\
        y = <<y[1], y[2], y[3]>>
  OBVIOUS
<1>3. \A x \in S : \E y \in D : y[1] = x[1] /\ y[2] = x[2]
  <2> TAKE x \in S
  <2>1. <<x[1], x[2], o[x]>> \in D
    OBVIOUS
  <2> QED BY <2>1
<1> HIDE DEF D
<1>4. \A y \in D : <<y[1], y[2]>> \in S
  BY <1>1, <1>2
<1>5. \A f, p : <<f, p>> \in S => \E y \in D : y[1] = f /\ y[2] = p
  BY <1>3
<1>6. ASSUME NEW y \in D, NEW z \in D, y[1] = z[1], y[2] = z[2] PROVE y = z
  <2>1. PICK a \in S : y[1] = a[1] /\ y[2] = a[2] /\ y[3] = o[a] /\ y = <<y[1], y[2], y[3]>>
    BY <1>2
  <2>2. PICK b \in S : z[1] = b[1] /\ z[2] = b[2] /\ z[3] = o[b] /\ z = <<z[1], z[2], z[3]>>
    BY <1>2
  <2>3. a = b
    BY <1>1, <1>6, <2>1, <2>2
  <2> QED BY <1>6, <2>1, <2>2, <2>3
<1> QED BY <1>4, <1>5, <1>6 DEF Spread, D

(* Parts with a figure of their own make pairs,                            *)
LEMMA PairsOwn == \A S : Pairs(Own(S))
  BY DEF Pairs, Own

(* so do the parts of some figures,                                        *)
LEMMA PairsProduct == \A A, B : Pairs(A \X B)
  BY DEF Pairs

(* both together,                                                          *)
LEMMA PairsUnion ==
  ASSUME NEW A, NEW B, Pairs(A), Pairs(B) PROVE Pairs(A \union B)
  BY DEF Pairs

(* and all of them under a condition.                                      *)
LEMMA PairsWhen ==
  ASSUME NEW b, NEW S, Pairs(S) PROVE Pairs(When(b, S))
  BY DEF Pairs, When

(* The tables of InstFetchU are pairs.                                     *)
LEMMA InstFetchUPairs ==
  ASSUME NEW c
  PROVE  /\ Pairs(Table("InstFetchU", c).charge)
         /\ \A t \in BOOLEAN : Pairs(Table("InstFetchU", c).sum[t])
<1>1. Pairs(InstFetchU_charge(c))
  BY PairsOwn, PairsProduct, PairsUnion, PairsWhen DEF InstFetchU_charge
<1>2. ASSUME NEW t \in BOOLEAN PROVE Pairs(InstFetchU_sum(c, t))
  BY PairsOwn, PairsProduct, PairsUnion, PairsWhen DEF InstFetchU_sum
<1> QED BY <1>1, <1>2 DEF Table, Row

(* The tables of BranchPredictor are pairs.                                *)
LEMMA BranchPredictorPairs ==
  ASSUME NEW c
  PROVE  /\ Pairs(Table("BranchPredictor", c).charge)
         /\ \A t \in BOOLEAN : Pairs(Table("BranchPredictor", c).sum[t])
<1>1. Pairs(BranchPredictor_charge(c))
  BY PairsOwn, PairsProduct, PairsUnion, PairsWhen DEF BranchPredictor_charge
<1>2. ASSUME NEW t \in BOOLEAN PROVE Pairs(BranchPredictor_sum(c, t))
  BY PairsOwn, PairsProduct, PairsUnion, PairsWhen DEF BranchPredictor_sum
<1> QED BY <1>1, <1>2 DEF Table, Row

(* The tables of RENAMINGU are pairs.                                      *)
LEMMA RENAMINGUPairs ==
  ASSUME NEW c
  PROVE  /\ Pairs(Table("RENAMINGU", c).charge)
         /\ \A t \in BOOLEAN : Pairs(Table("RENAMINGU", c).sum[t])
<1>1. Pairs(RENAMINGU_charge(c))
  BY PairsOwn, PairsProduct, PairsUnion, PairsWhen DEF RENAMINGU_charge, Pairs
<1>2. ASSUME NEW t \in BOOLEAN PROVE Pairs(RENAMINGU_sum(c, t))
  BY PairsOwn, PairsProduct, PairsUnion, PairsWhen DEF RENAMINGU_sum
<1> QED BY <1>1, <1>2 DEF Table, Row

(* The tables of SchedulerU are pairs.                                     *)
LEMMA SchedulerUPairs ==
  ASSUME NEW c
  PROVE  /\ Pairs(Table("SchedulerU", c).charge)
         /\ \A t \in BOOLEAN : Pairs(Table("SchedulerU", c).sum[t])
<1>1. Pairs(SchedulerU_charge(c))
  BY PairsOwn, PairsProduct, PairsUnion, PairsWhen DEF SchedulerU_charge
<1>2. ASSUME NEW t \in BOOLEAN PROVE Pairs(SchedulerU_sum(c, t))
  BY PairsOwn, PairsProduct, PairsUnion, PairsWhen DEF SchedulerU_sum
<1> QED BY <1>1, <1>2 DEF Table, Row

(* The tables of LoadStoreU are pairs.                                     *)
LEMMA LoadStoreUPairs ==
  ASSUME NEW c
  PROVE  /\ Pairs(Table("LoadStoreU", c).charge)
         /\ \A t \in BOOLEAN : Pairs(Table("LoadStoreU", c).sum[t])
<1>1. Pairs(LoadStoreU_charge(c))
  BY PairsOwn, PairsProduct, PairsUnion, PairsWhen DEF LoadStoreU_charge
<1>2. ASSUME NEW t \in BOOLEAN PROVE Pairs(LoadStoreU_sum(c, t))
  BY PairsOwn, PairsProduct, PairsUnion, PairsWhen DEF LoadStoreU_sum
<1> QED BY <1>1, <1>2 DEF Table, Row

(* The tables of MemManU are pairs.                                        *)
LEMMA MemManUPairs ==
  ASSUME NEW c
  PROVE  /\ Pairs(Table("MemManU", c).charge)
         /\ \A t \in BOOLEAN : Pairs(Table("MemManU", c).sum[t])
<1>1. Pairs(MemManU_charge(c))
  BY PairsOwn, PairsProduct, PairsUnion, PairsWhen DEF MemManU_charge
<1>2. ASSUME NEW t \in BOOLEAN PROVE Pairs(MemManU_sum(c, t))
  BY PairsOwn, PairsProduct, PairsUnion, PairsWhen DEF MemManU_sum
<1> QED BY <1>1, <1>2 DEF Table, Row

(* The tables of RegFU are pairs.                                          *)
LEMMA RegFUPairs ==
  ASSUME NEW c
  PROVE  /\ Pairs(Table("RegFU", c).charge)
         /\ \A t \in BOOLEAN : Pairs(Table("RegFU", c).sum[t])
<1>1. Pairs(RegFU_charge(c))
  BY PairsOwn, PairsProduct, PairsUnion, PairsWhen DEF RegFU_charge
<1>2. ASSUME NEW t \in BOOLEAN PROVE Pairs(RegFU_sum(c, t))
  BY PairsOwn, PairsProduct, PairsUnion, PairsWhen DEF RegFU_sum
<1> QED BY <1>1, <1>2 DEF Table, Row

(* The tables of FunctionalUnit are pairs.                                 *)
LEMMA FunctionalUnitPairs ==
  ASSUME NEW c
  PROVE  /\ Pairs(Table("FunctionalUnit", c).charge)
         /\ \A t \in BOOLEAN : Pairs(Table("FunctionalUnit", c).sum[t])
<1>1. Pairs(FunctionalUnit_charge(c))
  BY PairsOwn, PairsProduct, PairsUnion, PairsWhen DEF FunctionalUnit_charge
<1>2. ASSUME NEW t \in BOOLEAN PROVE Pairs(FunctionalUnit_sum(c, t))
  BY PairsOwn, PairsProduct, PairsUnion, PairsWhen DEF FunctionalUnit_sum
<1> QED BY <1>1, <1>2 DEF Table, Row

(* The tables of EXECU are pairs.                                          *)
LEMMA EXECUPairs ==
  ASSUME NEW c
  PROVE  /\ Pairs(Table("EXECU", c).charge)
         /\ \A t \in BOOLEAN : Pairs(Table("EXECU", c).sum[t])
<1>1. Pairs(EXECU_charge(c))
  BY PairsOwn, PairsProduct, PairsUnion, PairsWhen DEF EXECU_charge
<1>2. ASSUME NEW t \in BOOLEAN PROVE Pairs(EXECU_sum(c, t))
  BY PairsOwn, PairsProduct, PairsUnion, PairsWhen DEF EXECU_sum
<1> QED BY <1>1, <1>2 DEF Table, Row

(* The tables of Core are pairs.                                           *)
LEMMA CorePairs ==
  ASSUME NEW c
  PROVE  Pairs(Table("Core", c).charge) /\ \A t \in BOOLEAN : Pairs(Table("Core", c).sum[t])
<1>1. Pairs(Core_charge(c))
  BY PairsOwn, PairsProduct, PairsUnion, PairsWhen DEF Core_charge
<1>2. ASSUME NEW t \in BOOLEAN PROVE Pairs(Core_sum(c, t))
  BY PairsOwn, PairsProduct, PairsUnion, PairsWhen DEF Core_sum
<1> QED BY <1>1, <1>2 DEF Table, Row

(* The tables of SharedCache are pairs.                                    *)
LEMMA SharedCachePairs ==
  ASSUME NEW c
  PROVE  /\ Pairs(Table("SharedCache", c).charge)
         /\ \A t \in BOOLEAN : Pairs(Table("SharedCache", c).sum[t])
<1>1. Pairs(SharedCache_charge(c))
  BY PairsOwn, PairsProduct, PairsUnion, PairsWhen DEF SharedCache_charge
<1>2. ASSUME NEW t \in BOOLEAN PROVE Pairs(SharedCache_sum(c, t))
  BY PairsOwn, PairsProduct, PairsUnion, PairsWhen DEF SharedCache_sum
<1> QED BY <1>1, <1>2 DEF Table, Row

(* The tables of MemoryController are pairs.                               *)
LEMMA MemoryControllerPairs ==
  ASSUME NEW c
  PROVE  /\ Pairs(Table("MemoryController", c).charge)
         /\ \A t \in BOOLEAN : Pairs(Table("MemoryController", c).sum[t])
<1>1. Pairs(MemoryController_charge(c))
  BY PairsOwn, PairsProduct, PairsUnion, PairsWhen DEF MemoryController_charge
<1>2. ASSUME NEW t \in BOOLEAN PROVE Pairs(MemoryController_sum(c, t))
  BY PairsOwn, PairsProduct, PairsUnion, PairsWhen DEF MemoryController_sum
<1> QED BY <1>1, <1>2 DEF Table, Row

(* The tables of MCFrontEnd are pairs.                                     *)
LEMMA MCFrontEndPairs ==
  ASSUME NEW c
  PROVE  /\ Pairs(Table("MCFrontEnd", c).charge)
         /\ \A t \in BOOLEAN : Pairs(Table("MCFrontEnd", c).sum[t])
<1>1. Pairs(MCFrontEnd_charge(c))
  BY PairsOwn, PairsProduct, PairsUnion, PairsWhen DEF MCFrontEnd_charge
<1>2. ASSUME NEW t \in BOOLEAN PROVE Pairs(MCFrontEnd_sum(c, t))
  BY PairsOwn, PairsProduct, PairsUnion, PairsWhen DEF MCFrontEnd_sum
<1> QED BY <1>1, <1>2 DEF Table, Row

(* The tables of MCBackend are pairs.                                      *)
LEMMA MCBackendPairs ==
  ASSUME NEW c
  PROVE  /\ Pairs(Table("MCBackend", c).charge)
         /\ \A t \in BOOLEAN : Pairs(Table("MCBackend", c).sum[t])
<1>1. Pairs(MCBackend_charge(c))
  BY PairsOwn, PairsProduct, PairsUnion, PairsWhen DEF MCBackend_charge
<1>2. ASSUME NEW t \in BOOLEAN PROVE Pairs(MCBackend_sum(c, t))
  BY PairsOwn, PairsProduct, PairsUnion, PairsWhen DEF MCBackend_sum
<1> QED BY <1>1, <1>2 DEF Table, Row

(* The tables of MCPHY are pairs.                                          *)
LEMMA MCPHYPairs ==
  ASSUME NEW c
  PROVE  /\ Pairs(Table("MCPHY", c).charge)
         /\ \A t \in BOOLEAN : Pairs(Table("MCPHY", c).sum[t])
<1>1. Pairs(MCPHY_charge(c))
  BY PairsOwn, PairsProduct, PairsUnion, PairsWhen DEF MCPHY_charge
<1>2. ASSUME NEW t \in BOOLEAN PROVE Pairs(MCPHY_sum(c, t))
  BY PairsOwn, PairsProduct, PairsUnion, PairsWhen DEF MCPHY_sum
<1> QED BY <1>1, <1>2 DEF Table, Row

(* The tables of NoC are pairs.                                            *)
LEMMA NoCPairs ==
  ASSUME NEW c
  PROVE  Pairs(Table("NoC", c).charge) /\ \A t \in BOOLEAN : Pairs(Table("NoC", c).sum[t])
<1>1. Pairs(NoC_charge(c))
  BY PairsOwn, PairsProduct, PairsUnion, PairsWhen DEF NoC_charge
<1>2. ASSUME NEW t \in BOOLEAN PROVE Pairs(NoC_sum(c, t))
  BY PairsOwn, PairsProduct, PairsUnion, PairsWhen DEF NoC_sum
<1> QED BY <1>1, <1>2 DEF Table, Row

(* The tables of NIUController are pairs.                                  *)
LEMMA NIUControllerPairs ==
  ASSUME NEW c
  PROVE  /\ Pairs(Table("NIUController", c).charge)
         /\ \A t \in BOOLEAN : Pairs(Table("NIUController", c).sum[t])
<1>1. Pairs(NIUController_charge(c))
  BY PairsOwn, PairsProduct, PairsUnion, PairsWhen DEF NIUController_charge
<1>2. ASSUME NEW t \in BOOLEAN PROVE Pairs(NIUController_sum(c, t))
  BY PairsOwn, PairsProduct, PairsUnion, PairsWhen DEF NIUController_sum, Pairs
<1> QED BY <1>1, <1>2 DEF Table, Row

(* The tables of PCIeController are pairs.                                 *)
LEMMA PCIeControllerPairs ==
  ASSUME NEW c
  PROVE  /\ Pairs(Table("PCIeController", c).charge)
         /\ \A t \in BOOLEAN : Pairs(Table("PCIeController", c).sum[t])
<1>1. Pairs(PCIeController_charge(c))
  BY PairsOwn, PairsProduct, PairsUnion, PairsWhen DEF PCIeController_charge
<1>2. ASSUME NEW t \in BOOLEAN PROVE Pairs(PCIeController_sum(c, t))
  BY PairsOwn, PairsProduct, PairsUnion, PairsWhen DEF PCIeController_sum
<1> QED BY <1>1, <1>2 DEF Table, Row

(* The tables of FlashController are pairs.                                *)
LEMMA FlashControllerPairs ==
  ASSUME NEW c
  PROVE  /\ Pairs(Table("FlashController", c).charge)
         /\ \A t \in BOOLEAN : Pairs(Table("FlashController", c).sum[t])
<1>1. Pairs(FlashController_charge(c))
  BY PairsOwn, PairsProduct, PairsUnion, PairsWhen DEF FlashController_charge
<1>2. ASSUME NEW t \in BOOLEAN PROVE Pairs(FlashController_sum(c, t))
  BY PairsOwn, PairsProduct, PairsUnion, PairsWhen DEF FlashController_sum
<1> QED BY <1>1, <1>2 DEF Table, Row

(* The tables of inst_decoder are pairs.                                   *)
LEMMA inst_decoderPairs ==
  ASSUME NEW c
  PROVE  /\ Pairs(Table("inst_decoder", c).charge)
         /\ \A t \in BOOLEAN : Pairs(Table("inst_decoder", c).sum[t])
  BY DEF Table, Row, Pairs

-----------------------------------------------------------------------------
(* The arrays of the units: whatever the array before has left in the      *)
(* interface_ip, CACTI accepts each request, and the array has what it is  *)
(* used for.                                                               *)

(* An array that is accepted and has what its use takes.                   *)
Suit(r, use) == ~ r.refused /\ \A t \in BOOLEAN : Lacking(r, use, t) = {}

(* All arrays of a class under flags c.                                    *)
Suited(u, c) ==
  \A a \in DOMAIN ArraysOf(u, c) : Suit(ArraysOf(u, c)[a], UsesOf(u, c)[a])

(* The fields s leaves after its k-th request.                             *)
LeftIs(ip, s, k, type, assoc, search) ==
  /\ DOMAIN ip = {"is_cache", "pure_ram", "assoc", "search"}
  /\ Assigned(ip, s, k, "is_cache") = (type = "cache")
  /\ Assigned(ip, s, k, "pure_ram") = (type = "ram")
  /\ Assigned(ip, s, k, "assoc") = assoc
  /\ Assigned(ip, s, k, "search") = search

(* What stands in a table of one row,                                      *)
LEMMA RowValue ==
  ASSUME NEW a, NEW n PROVE (a :> n)[a] = n
  BY DEF :>

(* and in joined tables: the first that has the row gives it.              *)
LEMMA JoinValue ==
  ASSUME NEW f, NEW g, NEW x, x \in DOMAIN f \/ x \in DOMAIN g
  PROVE  (f @@ g)[x] = IF x \in DOMAIN f THEN f[x] ELSE g[x]
  BY DEF @@

(* Before the first request the fields are what the unit was given.        *)
LEMMA AssignedStart ==
  ASSUME NEW ip, NEW s, NEW f PROVE Assigned(ip, s, 0, f) = ip[f]
  BY DEF Assigned

(* A request assigns some fields and leaves the others.                    *)
LEMMA AssignedStep ==
  ASSUME NEW ip, NEW s, NEW f, NEW j \in Nat
  PROVE  Assigned(ip, s, j + 1, f) =
           IF f \in DOMAIN s[j + 1].fields THEN s[j + 1].fields[f] ELSE Assigned(ip, s, j,
             f)
<1> DEFINE J(k) == {i_1 \in 1..k : f \in DOMAIN s[i_1].fields}
<1>1. CASE f \in DOMAIN s[j + 1].fields
  <2>1. j + 1 \in J(j + 1) /\ \A x \in J(j + 1) : x \in Nat /\ j + 1 >= x
    BY <1>1
  <2>2. Max(J(j + 1)) = j + 1
    <3> HIDE DEF J
    <3> QED BY <2>1 DEF Max
  <2> QED BY <1>1, <2>1, <2>2 DEF Assigned
<1>2. CASE f \notin DOMAIN s[j + 1].fields
  <2>1. J(j + 1) = J(j)
    BY <1>2
  <2> QED BY <1>2, <2>1 DEF Assigned
<1> QED BY <1>1, <1>2

(* The fields a unit starts with.                                          *)
Fresh(ip) ==
  /\ DOMAIN ip = {"is_cache", "pure_ram", "assoc", "search"}
  /\ ip["is_cache"] = TRUE /\ ip["pure_ram"] = FALSE /\ ip["assoc"] = 1 /\ ip["search"] = 1

(* The fields every unit starts with.                                      *)
LEMMA LeftStart ==
  ASSUME NEW s, NEW ip, Fresh(ip)
  PROVE  LeftIs(ip, s, 0, "cache", 1, 1)
<1>1. \A f : Assigned(ip, s, 0, f) = ip[f]
  BY AssignedStart
<1> QED BY <1>1 DEF LeftIs, Fresh

(* SearchPorts assigns search and what the fields besides it do.           *)
LEMMA SearchPortsRows ==
  ASSUME NEW n, NEW g
  PROVE  /\ SearchPorts(n, g)["search"] = n
         /\ \A x \in DOMAIN g : x # "search" => SearchPorts(n, g)[x] = g[x]
         /\ \A x : x \in DOMAIN SearchPorts(n, g) <=> x = "search" \/ x \in DOMAIN g
<1> DEFINE f == [search |-> n]
<1>1. f["search"] = n /\ \A x : x \in DOMAIN f <=> x = "search"
  OBVIOUS
<1> HIDE DEF f
<1>2. SearchPorts(n, g) = f @@ g
  BY DEF SearchPorts, f
<1> QED BY <1>1, <1>2, JoinValue, JoinDomain

(* AsCache assigns is_cache and what the fields besides it do.             *)
LEMMA AsCacheRows ==
  ASSUME NEW g
  PROVE  /\ AsCache(g)["is_cache"] = TRUE
         /\ \A x \in DOMAIN g : x # "is_cache" => AsCache(g)[x] = g[x]
         /\ \A x : x \in DOMAIN AsCache(g) <=> x = "is_cache" \/ x \in DOMAIN g
<1> DEFINE f == [is_cache |-> TRUE]
<1>1. f["is_cache"] = TRUE /\ \A x : x \in DOMAIN f <=> x = "is_cache"
  OBVIOUS
<1> HIDE DEF f
<1>2. AsCache(g) = f @@ g
  BY DEF AsCache, f
<1> QED BY <1>1, <1>2, JoinValue, JoinDomain

(* set_proc_param() leaves the fields every unit starts with.              *)
LEMMA StartFresh == Fresh(set_proc_param)
  BY DEF Fresh, set_proc_param

(* What a request leaves: of a RAM,                                        *)
LEMMA LeftRam ==
  ASSUME NEW ip, NEW s, NEW j \in Nat, NEW k, k = j + 1, NEW t, NEW a, NEW n,
         LeftIs(ip, s, j, t, a, n), s[k].fields = Ram
  PROVE  LeftIs(ip, s, k, "ram", 1, n)
<1>1. \A f : Assigned(ip, s, k, f) =
              IF f \in DOMAIN s[k].fields THEN s[k].fields[f] ELSE Assigned(ip, s, j, f)
  BY AssignedStep
<1>2. /\ "is_cache" \in DOMAIN Ram
      /\ "pure_ram" \in DOMAIN Ram
      /\ "assoc" \in DOMAIN Ram
      /\ "search" \notin DOMAIN Ram
  BY DEF Ram
<1>3. /\ Ram["is_cache"] = FALSE
      /\ Ram["pure_ram"] = TRUE
      /\ Ram["assoc"] = 1
  BY DEF Ram
<1> QED BY <1>1, <1>2, <1>3 DEF LeftIs

(* of a set associative cache,                                             *)
LEMMA LeftSetAssoc ==
  ASSUME NEW ip, NEW s, NEW j \in Nat, NEW k, k = j + 1, NEW t, NEW a, NEW n,
         LeftIs(ip, s, j, t, a, n), s[k].fields = SetAssoc
  PROVE  LeftIs(ip, s, k, "cache", 1, n)
<1>1. \A f : Assigned(ip, s, k, f) =
              IF f \in DOMAIN s[k].fields THEN s[k].fields[f] ELSE Assigned(ip, s, j, f)
  BY AssignedStep
<1>2. /\ "is_cache" \in DOMAIN SetAssoc
      /\ "pure_ram" \in DOMAIN SetAssoc
      /\ "assoc" \in DOMAIN SetAssoc
      /\ "search" \notin DOMAIN SetAssoc
  BY DEF SetAssoc
<1>3. /\ SetAssoc["is_cache"] = TRUE
      /\ SetAssoc["pure_ram"] = FALSE
      /\ SetAssoc["assoc"] = 1
  BY DEF SetAssoc
<1> QED BY <1>1, <1>2, <1>3 DEF LeftIs

(* of a content addressable memory,                                        *)
LEMMA LeftCam ==
  ASSUME NEW ip, NEW s, NEW j \in Nat, NEW k, k = j + 1, NEW t, NEW a, NEW n,
         LeftIs(ip, s, j, t, a, n), s[k].fields = Cam
  PROVE  LeftIs(ip, s, k, "cache", 0, 1)
<1>1. \A f : Assigned(ip, s, k, f) =
              IF f \in DOMAIN s[k].fields THEN s[k].fields[f] ELSE Assigned(ip, s, j, f)
  BY AssignedStep
<1>2. /\ "is_cache" \in DOMAIN Cam
      /\ "pure_ram" \in DOMAIN Cam
      /\ "assoc" \in DOMAIN Cam
      /\ "search" \in DOMAIN Cam
  BY DEF Cam
<1>3. /\ Cam["is_cache"] = TRUE
      /\ Cam["pure_ram"] = FALSE
      /\ Cam["assoc"] = 0
      /\ Cam["search"] = 1
  BY DEF Cam
<1> QED BY <1>1, <1>2, <1>3 DEF LeftIs

(* of what is fully associative and leaves the search ports,               *)
LEMMA LeftFullyAssoc ==
  ASSUME NEW ip, NEW s, NEW j \in Nat, NEW k, k = j + 1, NEW t, NEW a, NEW n,
         LeftIs(ip, s, j, t, a, n), s[k].fields = FullyAssoc
  PROVE  LeftIs(ip, s, k, t, 0, n)
<1>1. \A f : Assigned(ip, s, k, f) =
              IF f \in DOMAIN s[k].fields THEN s[k].fields[f] ELSE Assigned(ip, s, j, f)
  BY AssignedStep
<1>2. /\ "is_cache" \notin DOMAIN FullyAssoc
      /\ "pure_ram" \notin DOMAIN FullyAssoc
      /\ "assoc" \in DOMAIN FullyAssoc
      /\ "search" \notin DOMAIN FullyAssoc
  BY DEF FullyAssoc
<1>3. /\ FullyAssoc["assoc"] = 0
  BY DEF FullyAssoc
<1> QED BY <1>1, <1>2, <1>3 DEF LeftIs

(* of what is fully associative and searched,                              *)
LEMMA LeftSearched ==
  ASSUME NEW ip, NEW s, NEW j \in Nat, NEW k, k = j + 1, NEW t, NEW a, NEW n,
         LeftIs(ip, s, j, t, a, n), s[k].fields = Searched
  PROVE  LeftIs(ip, s, k, t, 0, 1)
<1>1. \A f : Assigned(ip, s, k, f) =
              IF f \in DOMAIN s[k].fields THEN s[k].fields[f] ELSE Assigned(ip, s, j, f)
  BY AssignedStep
<1>2. /\ "is_cache" \notin DOMAIN Searched
      /\ "pure_ram" \notin DOMAIN Searched
      /\ "assoc" \in DOMAIN Searched
      /\ "search" \in DOMAIN Searched
  BY DEF Searched
<1>3. /\ Searched["assoc"] = 0
      /\ Searched["search"] = 1
  BY DEF Searched
<1> QED BY <1>1, <1>2, <1>3 DEF LeftIs

(* and none, or one that assigns nothing.                                  *)
LEMMA LeftNothing ==
  ASSUME NEW ip, NEW s, NEW j \in Nat, NEW k, k = j + 1, NEW t, NEW a, NEW n,
         LeftIs(ip, s, j, t, a, n), s[k].fields = <<>>
  PROVE  LeftIs(ip, s, k, t, a, n)
<1>1. \A f : Assigned(ip, s, k, f) =
              IF f \in DOMAIN s[k].fields THEN s[k].fields[f] ELSE Assigned(ip, s, j, f)
  BY AssignedStep
<1>2. /\ "is_cache" \notin DOMAIN <<>>
      /\ "pure_ram" \notin DOMAIN <<>>
      /\ "assoc" \notin DOMAIN <<>>
      /\ "search" \notin DOMAIN <<>>
  BY NoDomain
<1> QED BY <1>1, <1>2 DEF LeftIs

(* Of a RAM without search ports,                                          *)
LEMMA LeftBuffer ==
  ASSUME NEW ip, NEW s, NEW j \in Nat, NEW k, k = j + 1, NEW t, NEW a, NEW n,
         LeftIs(ip, s, j, t, a, n), s[k].fields = SearchPorts(0, Ram)
  PROVE  LeftIs(ip, s, k, "ram", 1, 0)
<1>0. \A x : x \in DOMAIN Ram <=> x \in {"is_cache", "pure_ram", "assoc"}
  BY DEF Ram
<1>1. \A f : Assigned(ip, s, k, f) =
              IF f \in DOMAIN s[k].fields THEN s[k].fields[f] ELSE Assigned(ip, s, j, f)
  BY AssignedStep
<1>2. /\ "is_cache" \in DOMAIN SearchPorts(0, Ram)
      /\ "pure_ram" \in DOMAIN SearchPorts(0, Ram)
      /\ "assoc" \in DOMAIN SearchPorts(0, Ram)
      /\ "search" \in DOMAIN SearchPorts(0, Ram)
  <2>1. "is_cache" \in DOMAIN SearchPorts(0, Ram)
    BY SearchPortsRows, <1>0
  <2>2. "pure_ram" \in DOMAIN SearchPorts(0, Ram)
    BY SearchPortsRows, <1>0
  <2>3. "assoc" \in DOMAIN SearchPorts(0, Ram)
    BY SearchPortsRows, <1>0
  <2>4. "search" \in DOMAIN SearchPorts(0, Ram)
    BY SearchPortsRows, <1>0
  <2> QED BY <2>1, <2>2, <2>3, <2>4
<1>3. /\ SearchPorts(0, Ram)["is_cache"] = FALSE
      /\ SearchPorts(0, Ram)["pure_ram"] = TRUE
      /\ SearchPorts(0, Ram)["assoc"] = 1
      /\ SearchPorts(0, Ram)["search"] = 0
  <2>1. SearchPorts(0, Ram)["is_cache"] = FALSE
    BY SearchPortsRows, <1>0 DEF Ram
  <2>2. SearchPorts(0, Ram)["pure_ram"] = TRUE
    BY SearchPortsRows, <1>0 DEF Ram
  <2>3. SearchPorts(0, Ram)["assoc"] = 1
    BY SearchPortsRows, <1>0 DEF Ram
  <2>4. SearchPorts(0, Ram)["search"] = 0
    BY SearchPortsRows
  <2> QED BY <2>1, <2>2, <2>3, <2>4
<1>4. Assigned(ip, s, k, "is_cache") = FALSE
  BY <1>1, <1>2, <1>3
<1>5. Assigned(ip, s, k, "pure_ram") = TRUE
  BY <1>1, <1>2, <1>3
<1>6. Assigned(ip, s, k, "assoc") = 1
  BY <1>1, <1>2, <1>3
<1>7. Assigned(ip, s, k, "search") = 0
  BY <1>1, <1>2, <1>3
<1>8. DOMAIN ip = {"is_cache", "pure_ram", "assoc", "search"}
  BY DEF LeftIs
<1> QED BY <1>4, <1>5, <1>6, <1>7, <1>8 DEF LeftIs

(* of a cache without them,                                                *)
LEMMA LeftBanks ==
  ASSUME NEW ip, NEW s, NEW j \in Nat, NEW k, k = j + 1, NEW t, NEW a, NEW n,
         LeftIs(ip, s, j, t, a, n), s[k].fields = SearchPorts(0, SetAssoc)
  PROVE  LeftIs(ip, s, k, "cache", 1, 0)
<1>0. \A x : x \in DOMAIN SetAssoc <=> x \in {"is_cache", "pure_ram", "assoc"}
  BY DEF SetAssoc
<1>1. \A f : Assigned(ip, s, k, f) =
              IF f \in DOMAIN s[k].fields THEN s[k].fields[f] ELSE Assigned(ip, s, j, f)
  BY AssignedStep
<1>2. /\ "is_cache" \in DOMAIN SearchPorts(0, SetAssoc)
      /\ "pure_ram" \in DOMAIN SearchPorts(0, SetAssoc)
      /\ "assoc" \in DOMAIN SearchPorts(0, SetAssoc)
      /\ "search" \in DOMAIN SearchPorts(0, SetAssoc)
  <2>1. "is_cache" \in DOMAIN SearchPorts(0, SetAssoc)
    BY SearchPortsRows, <1>0
  <2>2. "pure_ram" \in DOMAIN SearchPorts(0, SetAssoc)
    BY SearchPortsRows, <1>0
  <2>3. "assoc" \in DOMAIN SearchPorts(0, SetAssoc)
    BY SearchPortsRows, <1>0
  <2>4. "search" \in DOMAIN SearchPorts(0, SetAssoc)
    BY SearchPortsRows, <1>0
  <2> QED BY <2>1, <2>2, <2>3, <2>4
<1>3. /\ SearchPorts(0, SetAssoc)["is_cache"] = TRUE
      /\ SearchPorts(0, SetAssoc)["pure_ram"] = FALSE
      /\ SearchPorts(0, SetAssoc)["assoc"] = 1
      /\ SearchPorts(0, SetAssoc)["search"] = 0
  <2>1. SearchPorts(0, SetAssoc)["is_cache"] = TRUE
    BY SearchPortsRows, <1>0 DEF SetAssoc
  <2>2. SearchPorts(0, SetAssoc)["pure_ram"] = FALSE
    BY SearchPortsRows, <1>0 DEF SetAssoc
  <2>3. SearchPorts(0, SetAssoc)["assoc"] = 1
    BY SearchPortsRows, <1>0 DEF SetAssoc
  <2>4. SearchPorts(0, SetAssoc)["search"] = 0
    BY SearchPortsRows
  <2> QED BY <2>1, <2>2, <2>3, <2>4
<1>4. Assigned(ip, s, k, "is_cache") = TRUE
  BY <1>1, <1>2, <1>3
<1>5. Assigned(ip, s, k, "pure_ram") = FALSE
  BY <1>1, <1>2, <1>3
<1>6. Assigned(ip, s, k, "assoc") = 1
  BY <1>1, <1>2, <1>3
<1>7. Assigned(ip, s, k, "search") = 0
  BY <1>1, <1>2, <1>3
<1>8. DOMAIN ip = {"is_cache", "pure_ram", "assoc", "search"}
  BY DEF LeftIs
<1> QED BY <1>4, <1>5, <1>6, <1>7, <1>8 DEF LeftIs

(* of a cache with one,                                                    *)
LEMMA LeftDCache ==
  ASSUME NEW ip, NEW s, NEW j \in Nat, NEW k, k = j + 1, NEW t, NEW a, NEW n,
         LeftIs(ip, s, j, t, a, n), s[k].fields = SearchPorts(1, SetAssoc)
  PROVE  LeftIs(ip, s, k, "cache", 1, 1)
<1>0. \A x : x \in DOMAIN SetAssoc <=> x \in {"is_cache", "pure_ram", "assoc"}
  BY DEF SetAssoc
<1>1. \A f : Assigned(ip, s, k, f) =
              IF f \in DOMAIN s[k].fields THEN s[k].fields[f] ELSE Assigned(ip, s, j, f)
  BY AssignedStep
<1>2. /\ "is_cache" \in DOMAIN SearchPorts(1, SetAssoc)
      /\ "pure_ram" \in DOMAIN SearchPorts(1, SetAssoc)
      /\ "assoc" \in DOMAIN SearchPorts(1, SetAssoc)
      /\ "search" \in DOMAIN SearchPorts(1, SetAssoc)
  <2>1. "is_cache" \in DOMAIN SearchPorts(1, SetAssoc)
    BY SearchPortsRows, <1>0
  <2>2. "pure_ram" \in DOMAIN SearchPorts(1, SetAssoc)
    BY SearchPortsRows, <1>0
  <2>3. "assoc" \in DOMAIN SearchPorts(1, SetAssoc)
    BY SearchPortsRows, <1>0
  <2>4. "search" \in DOMAIN SearchPorts(1, SetAssoc)
    BY SearchPortsRows, <1>0
  <2> QED BY <2>1, <2>2, <2>3, <2>4
<1>3. /\ SearchPorts(1, SetAssoc)["is_cache"] = TRUE
      /\ SearchPorts(1, SetAssoc)["pure_ram"] = FALSE
      /\ SearchPorts(1, SetAssoc)["assoc"] = 1
      /\ SearchPorts(1, SetAssoc)["search"] = 1
  <2>1. SearchPorts(1, SetAssoc)["is_cache"] = TRUE
    BY SearchPortsRows, <1>0 DEF SetAssoc
  <2>2. SearchPorts(1, SetAssoc)["pure_ram"] = FALSE
    BY SearchPortsRows, <1>0 DEF SetAssoc
  <2>3. SearchPorts(1, SetAssoc)["assoc"] = 1
    BY SearchPortsRows, <1>0 DEF SetAssoc
  <2>4. SearchPorts(1, SetAssoc)["search"] = 1
    BY SearchPortsRows
  <2> QED BY <2>1, <2>2, <2>3, <2>4
<1>4. Assigned(ip, s, k, "is_cache") = TRUE
  BY <1>1, <1>2, <1>3
<1>5. Assigned(ip, s, k, "pure_ram") = FALSE
  BY <1>1, <1>2, <1>3
<1>6. Assigned(ip, s, k, "assoc") = 1
  BY <1>1, <1>2, <1>3
<1>7. Assigned(ip, s, k, "search") = 1
  BY <1>1, <1>2, <1>3
<1>8. DOMAIN ip = {"is_cache", "pure_ram", "assoc", "search"}
  BY DEF LeftIs
<1> QED BY <1>4, <1>5, <1>6, <1>7, <1>8 DEF LeftIs

(* of a queue that is a cache from here on,                                *)
LEMMA LeftQueue ==
  ASSUME NEW ip, NEW s, NEW j \in Nat, NEW k, k = j + 1, NEW t, NEW a, NEW n,
         LeftIs(ip, s, j, t, a, n), t = "cache", s[k].fields = AsCache(Searched)
  PROVE  LeftIs(ip, s, k, "cache", 0, 1)
<1>0. \A x : x \in DOMAIN Searched <=> x \in {"assoc", "search"}
  BY DEF Searched
<1>1. \A f : Assigned(ip, s, k, f) =
              IF f \in DOMAIN s[k].fields THEN s[k].fields[f] ELSE Assigned(ip, s, j, f)
  BY AssignedStep
<1>2. /\ "is_cache" \in DOMAIN AsCache(Searched)
      /\ "pure_ram" \notin DOMAIN AsCache(Searched)
      /\ "assoc" \in DOMAIN AsCache(Searched)
      /\ "search" \in DOMAIN AsCache(Searched)
  <2>1. "is_cache" \in DOMAIN AsCache(Searched)
    BY AsCacheRows, <1>0
  <2>2. "pure_ram" \notin DOMAIN AsCache(Searched)
    <3>1. "pure_ram" # "is_cache" /\ "pure_ram" \notin DOMAIN Searched
      BY <1>0
    <3> QED BY <3>1, AsCacheRows
  <2>3. "assoc" \in DOMAIN AsCache(Searched)
    BY AsCacheRows, <1>0
  <2>4. "search" \in DOMAIN AsCache(Searched)
    BY AsCacheRows, <1>0
  <2> QED BY <2>1, <2>2, <2>3, <2>4
<1>3. /\ AsCache(Searched)["assoc"] = 0
      /\ AsCache(Searched)["search"] = 1
      /\ AsCache(Searched)["is_cache"] = TRUE
  <2>1. AsCache(Searched)["assoc"] = 0
    BY AsCacheRows, <1>0 DEF Searched
  <2>2. AsCache(Searched)["search"] = 1
    BY AsCacheRows, <1>0 DEF Searched
  <2>3. AsCache(Searched)["is_cache"] = TRUE
    BY AsCacheRows
  <2> QED BY <2>1, <2>2, <2>3
<1>4. Assigned(ip, s, k, "is_cache") = TRUE
  BY <1>1, <1>2, <1>3
<1>5. Assigned(ip, s, k, "pure_ram") = FALSE
  <2>1. Assigned(ip, s, k, "pure_ram") = Assigned(ip, s, j, "pure_ram")
    BY <1>1, <1>2
  <2>2. Assigned(ip, s, j, "pure_ram") = ("cache" = "ram")
    BY DEF LeftIs
  <2> QED BY <2>1, <2>2
<1>6. Assigned(ip, s, k, "assoc") = 0
  BY <1>1, <1>2, <1>3
<1>7. Assigned(ip, s, k, "search") = 1
  BY <1>1, <1>2, <1>3
<1>8. DOMAIN ip = {"is_cache", "pure_ram", "assoc", "search"}
  BY DEF LeftIs
<1> QED BY <1>4, <1>5, <1>6, <1>7, <1>8 DEF LeftIs

(* and of what is only given its associativity.                            *)
LEMMA LeftAssoc ==
  ASSUME NEW ip, NEW s, NEW j \in Nat, NEW k, k = j + 1, NEW t, NEW a, NEW n,
         LeftIs(ip, s, j, t, a, n), s[k].fields = Indexed
  PROVE  LeftIs(ip, s, k, t, 1, n)
<1>1. \A f : Assigned(ip, s, k, f) =
              IF f \in DOMAIN s[k].fields THEN s[k].fields[f] ELSE Assigned(ip, s, j, f)
  BY AssignedStep
<1>2. /\ "is_cache" \notin DOMAIN Indexed
      /\ "pure_ram" \notin DOMAIN Indexed
      /\ "assoc" \in DOMAIN Indexed
      /\ "search" \notin DOMAIN Indexed
  BY DEF Indexed
<1>3. /\ Indexed["assoc"] = 1
  BY DEF Indexed
<1> QED BY <1>1, <1>2, <1>3 DEF LeftIs

(* A use that a RAM or a set associative cache with these ports suits,     *)
ReadOnly(use, ports, type) ==
  /\ ports # {} /\ "search" \notin use.ops
  /\ "read" \in use.ops => "rw" \in ports \/ "rd" \in ports
  /\ "write" \in use.ops => "rw" \in ports \/ "wr" \in ports
  /\ "tag" \in use.ops => type = "cache"
  /\ \A p \in use.peak : p \in ports

(* and one that a fully associative array with search ports suits.         *)
Searching(use, ports) ==
  /\ ports # {} /\ "tag" \notin use.ops
  /\ "write" \in use.ops => "rw" \in ports \/ "wr" \in ports
  /\ \A p \in use.peak : p \in ports \/ p = "search"

(* An array that is not fully associative has what a read-only use takes.  *)
LEMMA SuitReadOnly ==
  ASSUME NEW ip, NEW s, NEW k, NEW t \in {"cache", "ram"}, NEW n,
         LeftIs(ip, s, k, t, 1, n), NEW P, NEW use, ReadOnly(use, P, t)
  PROVE  Suit(error_checking(Left(ip, s, k), P), use)
<1> DEFINE r == Left(ip, s, k)
<1>1. (t = "cache" => r.pure_ram = FALSE) /\ r.assoc = 1
  BY DEF LeftIs, Left
<1> HIDE DEF r
<1> DEFINE e == error_checking(r, P)
<1>2. ~ e.refused
  BY <1>1 DEF error_checking, ReadOnly
<1>3. e.ports = P
  BY <1>1 DEF error_checking
<1>4. t = "cache" => e.tag
  <2>1. e.tag = (~ r.pure_ram /\ ~ (r.is_cache /\ r.assoc = 0))
    BY Zenon DEF error_checking
  <2>2. ~ (r.is_cache /\ r.assoc = 0)
    BY <1>1
  <2>3. t = "cache" => ~ r.pure_ram
    BY <1>1
  <2> QED BY <2>1, <2>2, <2>3, Zenon
<1> HIDE DEF e
<1>5. ASSUME NEW b \in BOOLEAN PROVE Lacking(e, use, b) = {}
  BY <1>3, <1>4 DEF Lacking, When, ReadOnly
<1> QED BY <1>2, <1>5 DEF Suit, e, r

(* A fully associative one with search ports has what a searching use      *)
(* takes.                                                                  *)
LEMMA SuitSearching ==
  ASSUME NEW ip, NEW s, NEW k, LeftIs(ip, s, k, "cache", 0, 1), NEW P, NEW use,
         Searching(use, P)
  PROVE  Suit(error_checking(Left(ip, s, k), P), use)
<1> DEFINE r == Left(ip, s, k)
<1>1. r.is_cache = TRUE /\ r.assoc = 0 /\ r.search = 1
  BY DEF LeftIs, Left
<1> HIDE DEF r
<1> DEFINE e == error_checking(r, P)
<1>2. /\ ~ e.refused
      /\ \A p : p \in P \/ p = "search" => p \in e.ports
      /\ "rw" \in e.ports \/ "rd" \in e.ports
  BY <1>1 DEF error_checking, Searching, When
<1> HIDE DEF e
<1>3. ASSUME NEW b \in BOOLEAN PROVE Lacking(e, use, b) = {}
  BY <1>2 DEF Lacking, When, Searching
<1> QED BY <1>2, <1>3 DEF Suit, e, r

(* The arrays of a unit suit their uses if each request does, with the     *)
(* fields it was left.                                                     *)
LEMMA SuitedIf ==
  ASSUME NEW u, NEW c, NEW s, s = AsksOf(u, c),
         \A j, k \in DOMAIN s : s[j].of = s[k].of => j = k \/ s[j].of = "none",
         \A k \in DOMAIN s : s[k].of # "none" =>
            Suit(error_checking(Left(Before(u), s, k), s[k].ports), UsesOf(u, c)[s[k].of])
  PROVE  Suited(u, c)
<1> DEFINE Made == {k \in DOMAIN s : s[k].of # "none"}
           Position(a) == CHOOSE k \in Made : s[k].of = a
<1>1. ArraysOf(u, c) = [a \in {s[k].of : k \in Made} |->
        error_checking(Left(Before(u), s, Position(a)), s[Position(a)].ports)]
  BY DEF ArraysOf
<1>2. SUFFICES ASSUME NEW a \in DOMAIN ArraysOf(u, c)
               PROVE  Suit(ArraysOf(u, c)[a], UsesOf(u, c)[a])
  BY DEF Suited
<1>3. PICK k \in Made : s[k].of = a
  BY <1>1, <1>2
<1>4. Position(a) \in Made /\ s[Position(a)].of = a
  BY <1>3
<1>5. Position(a) = k
  BY <1>3, <1>4
<1> QED BY <1>1, <1>3, <1>5

(* The requests of a unit are joined from short lists: of one and four,    *)
LEMMA Join14 ==
  ASSUME NEW x1, NEW x2, NEW x3, NEW x4, NEW x5
  PROVE  <<x1>> \o <<x2, x3, x4, x5>> = <<x1, x2, x3, x4, x5>>
<1> DEFINE S == {x1, x2, x3, x4, x5}
           p == <<x1>>
           q == <<x2, x3, x4, x5>>
           r == <<x1, x2, x3, x4, x5>>
<1>1. p \in Seq(S) /\ q \in Seq(S) /\ r \in Seq(S)
  OBVIOUS
<1>2. Len(p) = 1 /\ Len(q) = 4 /\ Len(r) = 5
  OBVIOUS
<1>3. \A j \in 1..5 : r[j] = IF j <= 1 THEN p[j] ELSE q[j - 1]
  OBVIOUS
<1> HIDE DEF S, p, q, r
<1>4. /\ p \o q \in Seq(S) /\ Len(p \o q) = Len(p) + Len(q)
      /\ \A j \in 1..Len(p) + Len(q) :
           (p \o q)[j] = IF j <= Len(p) THEN p[j] ELSE q[j - Len(p)]
  BY <1>1, ConcatProperties
<1>5. Len(p \o q) = 5 /\ \A j \in 1..5 : (p \o q)[j] = r[j]
  BY <1>2, <1>3, <1>4
<1>6. p \o q = r
  BY <1>1, <1>2, <1>4, <1>5, SeqEqual
<1> QED BY <1>6 DEF p, q, r

(* of two and one,                                                         *)
LEMMA Join21 ==
  ASSUME NEW x1, NEW x2, NEW x3
  PROVE  <<x1, x2>> \o <<x3>> = <<x1, x2, x3>>
<1> DEFINE S == {x1, x2, x3}
           p == <<x1, x2>>
           q == <<x3>>
           r == <<x1, x2, x3>>
<1>1. p \in Seq(S) /\ q \in Seq(S) /\ r \in Seq(S)
  OBVIOUS
<1>2. Len(p) = 2 /\ Len(q) = 1 /\ Len(r) = 3
  OBVIOUS
<1>3. \A j \in 1..3 : r[j] = IF j <= 2 THEN p[j] ELSE q[j - 2]
  OBVIOUS
<1> HIDE DEF S, p, q, r
<1>4. /\ p \o q \in Seq(S) /\ Len(p \o q) = Len(p) + Len(q)
      /\ \A j \in 1..Len(p) + Len(q) :
           (p \o q)[j] = IF j <= Len(p) THEN p[j] ELSE q[j - Len(p)]
  BY <1>1, ConcatProperties
<1>5. Len(p \o q) = 3 /\ \A j \in 1..3 : (p \o q)[j] = r[j]
  BY <1>2, <1>3, <1>4
<1>6. p \o q = r
  BY <1>1, <1>2, <1>4, <1>5, SeqEqual
<1> QED BY <1>6 DEF p, q, r

(* of two and two,                                                         *)
LEMMA Join22 ==
  ASSUME NEW x1, NEW x2, NEW x3, NEW x4
  PROVE  <<x1, x2>> \o <<x3, x4>> = <<x1, x2, x3, x4>>
<1> DEFINE S == {x1, x2, x3, x4}
           p == <<x1, x2>>
           q == <<x3, x4>>
           r == <<x1, x2, x3, x4>>
<1>1. p \in Seq(S) /\ q \in Seq(S) /\ r \in Seq(S)
  OBVIOUS
<1>2. Len(p) = 2 /\ Len(q) = 2 /\ Len(r) = 4
  OBVIOUS
<1>3. \A j \in 1..4 : r[j] = IF j <= 2 THEN p[j] ELSE q[j - 2]
  OBVIOUS
<1> HIDE DEF S, p, q, r
<1>4. /\ p \o q \in Seq(S) /\ Len(p \o q) = Len(p) + Len(q)
      /\ \A j \in 1..Len(p) + Len(q) :
           (p \o q)[j] = IF j <= Len(p) THEN p[j] ELSE q[j - Len(p)]
  BY <1>1, ConcatProperties
<1>5. Len(p \o q) = 4 /\ \A j \in 1..4 : (p \o q)[j] = r[j]
  BY <1>2, <1>3, <1>4
<1>6. p \o q = r
  BY <1>1, <1>2, <1>4, <1>5, SeqEqual
<1> QED BY <1>6 DEF p, q, r

(* of four and two,                                                        *)
LEMMA Join42 ==
  ASSUME NEW x1, NEW x2, NEW x3, NEW x4, NEW x5, NEW x6
  PROVE  <<x1, x2, x3, x4>> \o <<x5, x6>> = <<x1, x2, x3, x4, x5, x6>>
<1> DEFINE S == {x1, x2, x3, x4, x5, x6}
           p == <<x1, x2, x3, x4>>
           q == <<x5, x6>>
           r == <<x1, x2, x3, x4, x5, x6>>
<1>1. p \in Seq(S) /\ q \in Seq(S) /\ r \in Seq(S)
  OBVIOUS
<1>2. Len(p) = 4 /\ Len(q) = 2 /\ Len(r) = 6
  OBVIOUS
<1>3. \A j \in 1..6 : r[j] = IF j <= 4 THEN p[j] ELSE q[j - 4]
  OBVIOUS
<1> HIDE DEF S, p, q, r
<1>4. /\ p \o q \in Seq(S) /\ Len(p \o q) = Len(p) + Len(q)
      /\ \A j \in 1..Len(p) + Len(q) :
           (p \o q)[j] = IF j <= Len(p) THEN p[j] ELSE q[j - Len(p)]
  BY <1>1, ConcatProperties
<1>5. Len(p \o q) = 6 /\ \A j \in 1..6 : (p \o q)[j] = r[j]
  BY <1>2, <1>3, <1>4
<1>6. p \o q = r
  BY <1>1, <1>2, <1>4, <1>5, SeqEqual
<1> QED BY <1>6 DEF p, q, r

(* of five and two.                                                        *)
LEMMA Join52 ==
  ASSUME NEW x1, NEW x2, NEW x3, NEW x4, NEW x5, NEW x6, NEW x7
  PROVE  <<x1, x2, x3, x4, x5>> \o <<x6, x7>> = <<x1, x2, x3, x4, x5, x6, x7>>
<1> DEFINE S == {x1, x2, x3, x4, x5, x6, x7}
           p == <<x1, x2, x3, x4, x5>>
           q == <<x6, x7>>
           r == <<x1, x2, x3, x4, x5, x6, x7>>
<1>1. p \in Seq(S) /\ q \in Seq(S) /\ r \in Seq(S)
  OBVIOUS
<1>2. Len(p) = 5 /\ Len(q) = 2 /\ Len(r) = 7
  OBVIOUS
<1>3. \A j \in 1..7 : r[j] = IF j <= 5 THEN p[j] ELSE q[j - 5]
  OBVIOUS
<1> HIDE DEF S, p, q, r
<1>4. /\ p \o q \in Seq(S) /\ Len(p \o q) = Len(p) + Len(q)
      /\ \A j \in 1..Len(p) + Len(q) :
           (p \o q)[j] = IF j <= Len(p) THEN p[j] ELSE q[j - Len(p)]
  BY <1>1, ConcatProperties
<1>5. Len(p \o q) = 7 /\ \A j \in 1..7 : (p \o q)[j] = r[j]
  BY <1>2, <1>3, <1>4
<1>6. p \o q = r
  BY <1>1, <1>2, <1>4, <1>5, SeqEqual
<1> QED BY <1>6 DEF p, q, r

(* The branch target buffer leaves the fields as the processor gave them.  *)
LEMMA BeforePredictor == Fresh(Before("BranchPredictor"))
<1> DEFINE s == InstFetchU_asks({"prediction"})
           ip == set_proc_param
<1>1. s = <<Ask("icache.caches", SetAssoc, {"rw"}),
         Ask("icache.missb", Searched, {"rw"}),
         Ask("icache.ifb", Searched, {"rw"}),
         Ask("icache.prefetchb", Searched, {"rw"}),
         Ask("IB", Ram, {"rw"}),
         AskIf("prediction" \in {"prediction"}, "BTB", SetAssoc, {"rw", "rd", "wr"})>>
  BY Join42 DEF InstFetchU_asks, InstFetchU_icache, InstFetchU_IB, InstFetchU_BTB
<1>2. Len(s) = 6 /\ s[1] = Ask("icache.caches", SetAssoc, {"rw"}) /\
        s[2] = Ask("icache.missb", Searched, {"rw"}) /\
          s[3] = Ask("icache.ifb", Searched, {"rw"}) /\
            s[4] = Ask("icache.prefetchb", Searched, {"rw"}) /\
              s[5] = Ask("IB", Ram, {"rw"}) /\
                s[6] = AskIf("prediction" \in {"prediction"}, "BTB", SetAssoc, {"rw", "rd",
                  "wr"})
  BY <1>1
<1> HIDE DEF s
<1>3. s[1].fields = SetAssoc /\ s[2].fields = Searched /\ s[3].fields = Searched /\
        s[4].fields = Searched /\ s[5].fields = Ram /\ s[6].fields = SetAssoc
  BY <1>2 DEF Ask, AskIf
<1>4. LeftIs(ip, s, 0, "cache", 1, 1)
  BY LeftStart, StartFresh
<1>5. LeftIs(ip, s, 1, "cache", 1, 1)
  BY <1>4, <1>3, LeftSetAssoc
<1>6. LeftIs(ip, s, 2, "cache", 0, 1)
  BY <1>5, <1>3, LeftSearched
<1>7. LeftIs(ip, s, 3, "cache", 0, 1)
  BY <1>6, <1>3, LeftSearched
<1>8. LeftIs(ip, s, 4, "cache", 0, 1)
  BY <1>7, <1>3, LeftSearched
<1>9. LeftIs(ip, s, 5, "ram", 1, 1)
  BY <1>8, <1>3, LeftRam
<1>10. LeftIs(ip, s, 6, "cache", 1, 1)
  BY <1>9, <1>3, LeftSetAssoc
<1> HIDE DEF ip
<1>11. Before("BranchPredictor") = Left(ip, s, 6)
  BY <1>2 DEF Before, s, ip
<1> QED BY <1>10, <1>11 DEF Left, LeftIs, Fresh

(* The arrays of InstFetchU.                                               *)
LEMMA InstFetchUArrays ==
  ASSUME NEW c PROVE Suited("InstFetchU", c)
<1> DEFINE s == AsksOf("InstFetchU", c)
           ip == Before("InstFetchU")
<1>0. Fresh(ip)
  BY StartFresh DEF Before
<1>1. s = <<Ask("icache.caches", SetAssoc, {"rw"}),
           Ask("icache.missb", Searched, {"rw"}),
           Ask("icache.ifb", Searched, {"rw"}),
           Ask("icache.prefetchb", Searched, {"rw"}),
           Ask("IB", Ram, {"rw"}),
           AskIf("prediction" \in c, "BTB", SetAssoc, {"rw", "rd", "wr"})>>
  BY Join42 DEF AsksOf, InstFetchU_asks, InstFetchU_icache, InstFetchU_IB, InstFetchU_BTB
<1>2. /\ DOMAIN s = 1..6
      /\ s[1] = Ask("icache.caches", SetAssoc, {"rw"})
      /\ s[2] = Ask("icache.missb", Searched, {"rw"})
      /\ s[3] = Ask("icache.ifb", Searched, {"rw"})
      /\ s[4] = Ask("icache.prefetchb", Searched, {"rw"})
      /\ s[5] = Ask("IB", Ram, {"rw"})
      /\ s[6] = AskIf("prediction" \in c, "BTB", SetAssoc, {"rw", "rd", "wr"})
  BY <1>1
<1> HIDE DEF s, ip
<1>3. s[1].of = "icache.caches" /\ s[1].ports = {"rw"} /\ s[1].fields = SetAssoc
  BY <1>2 DEF Ask, AskIf, NotAsked
<1>4. s[2].of = "icache.missb" /\ s[2].ports = {"rw"} /\ s[2].fields = Searched
  BY <1>2 DEF Ask, AskIf, NotAsked
<1>5. s[3].of = "icache.ifb" /\ s[3].ports = {"rw"} /\ s[3].fields = Searched
  BY <1>2 DEF Ask, AskIf, NotAsked
<1>6. s[4].of = "icache.prefetchb" /\ s[4].ports = {"rw"} /\ s[4].fields = Searched
  BY <1>2 DEF Ask, AskIf, NotAsked
<1>7. s[5].of = "IB" /\ s[5].ports = {"rw"} /\ s[5].fields = Ram
  BY <1>2 DEF Ask, AskIf, NotAsked
<1>8. \/ ("prediction" \in c) /\ s[6].of = "BTB" /\ s[6].ports = {"rw", "rd", "wr"} /\
           s[6].fields = SetAssoc
      \/ ~ ("prediction" \in c) /\ s[6].of = "none" /\ s[6].fields = <<>>
  BY <1>2 DEF Ask, AskIf, NotAsked
<1>9. LeftIs(ip, s, 0, "cache", 1, 1)
  BY <1>0, LeftStart
<1>10. LeftIs(ip, s, 1, "cache", 1, 1)
  BY <1>9, <1>3, LeftSetAssoc
<1>11. UsesOf("InstFetchU", c)["icache.caches"] = Use({"read", "write"}, {"rw"})
  BY JoinDomain, JoinValue, RowDomain, RowValue DEF UsesOf, RW, Buffer, When,
  InstFetchU_uses, ICache
<1>12. ReadOnly(UsesOf("InstFetchU", c)["icache.caches"], {"rw"}, "cache")
  BY <1>11 DEF Use, ReadOnly
<1>13. Suit(error_checking(Left(ip, s, 1), s[1].ports), UsesOf("InstFetchU", c)[s[1].of])
  BY <1>3, <1>10, <1>12, SuitReadOnly
<1>14. LeftIs(ip, s, 2, "cache", 0, 1)
  BY <1>10, <1>4, LeftSearched
<1>15. UsesOf("InstFetchU", c)["icache.missb"] = Use({"search", "write"}, {"search"})
  BY JoinDomain, JoinValue, RowDomain, RowValue DEF UsesOf, RW, Buffer, When,
  InstFetchU_uses, ICache
<1>16. Searching(UsesOf("InstFetchU", c)["icache.missb"], {"rw"})
  BY <1>15 DEF Use, Searching
<1>17. Suit(error_checking(Left(ip, s, 2), s[2].ports), UsesOf("InstFetchU", c)[s[2].of])
  BY <1>4, <1>14, <1>16, SuitSearching
<1>18. LeftIs(ip, s, 3, "cache", 0, 1)
  BY <1>14, <1>5, LeftSearched
<1>19. UsesOf("InstFetchU", c)["icache.ifb"] = Use({"search", "write"}, {"search"})
  BY JoinDomain, JoinValue, RowDomain, RowValue DEF UsesOf, RW, Buffer, When,
  InstFetchU_uses, ICache
<1>20. Searching(UsesOf("InstFetchU", c)["icache.ifb"], {"rw"})
  BY <1>19 DEF Use, Searching
<1>21. Suit(error_checking(Left(ip, s, 3), s[3].ports), UsesOf("InstFetchU", c)[s[3].of])
  BY <1>5, <1>18, <1>20, SuitSearching
<1>22. LeftIs(ip, s, 4, "cache", 0, 1)
  BY <1>18, <1>6, LeftSearched
<1>23. UsesOf("InstFetchU", c)["icache.prefetchb"] = Use({"search", "write"}, {"search"})
  BY JoinDomain, JoinValue, RowDomain, RowValue DEF UsesOf, RW, Buffer, When,
  InstFetchU_uses, ICache
<1>24. Searching(UsesOf("InstFetchU", c)["icache.prefetchb"], {"rw"})
  BY <1>23 DEF Use, Searching
<1>25. Suit(error_checking(Left(ip, s, 4), s[4].ports), UsesOf("InstFetchU", c)[s[4].of])
  BY <1>6, <1>22, <1>24, SuitSearching
<1>26. LeftIs(ip, s, 5, "ram", 1, 1)
  BY <1>22, <1>7, LeftRam
<1>27. UsesOf("InstFetchU", c)["IB"] = Use({"read", "write"}, {})
  BY JoinDomain, JoinValue, RowDomain, RowValue DEF UsesOf, RW, Buffer, When,
  InstFetchU_uses, ICache
<1>28. ReadOnly(UsesOf("InstFetchU", c)["IB"], {"rw"}, "ram")
  BY <1>27 DEF Use, ReadOnly
<1>29. Suit(error_checking(Left(ip, s, 5), s[5].ports), UsesOf("InstFetchU", c)[s[5].of])
  BY <1>7, <1>26, <1>28, SuitReadOnly
<1>30. s[6].of # "none" => s[6].fields = SetAssoc
  BY <1>8
<1>31. s[6].of # "none" => LeftIs(ip, s, 6, "cache", 1, 1)
  BY <1>26, <1>30, LeftSetAssoc
<1>32. s[6].of # "none" => UsesOf("InstFetchU", c)["BTB"] = Use({"read", "write"}, {})
  BY <1>8, JoinDomain, JoinValue, RowDomain, RowValue DEF UsesOf, RW, Buffer, When,
  InstFetchU_uses, ICache
<1>33. s[6].of # "none" => ReadOnly(UsesOf("InstFetchU", c)["BTB"], {"rw", "rd", "wr"},
         "cache")
  BY <1>32 DEF Use, ReadOnly
<1>34. s[6].of # "none" => Suit(error_checking(Left(ip, s, 6), s[6].ports),
         UsesOf("InstFetchU", c)[s[6].of])
  BY <1>8, <1>31, <1>33, SuitReadOnly
<1>35. \A j, k \in DOMAIN s : s[j].of = s[k].of => j = k \/ s[j].of = "none"
  BY <1>2, <1>3, <1>4, <1>5, <1>6, <1>7, <1>8
<1>36. \A k \in DOMAIN s : s[k].of # "none" =>
         Suit(error_checking(Left(ip, s, k), s[k].ports), UsesOf("InstFetchU", c)[s[k].of])
  BY <1>2, <1>3, <1>4, <1>5, <1>6, <1>7, <1>8, <1>13, <1>17, <1>21, <1>25, <1>29, <1>34
<1> QED BY <1>35, <1>36, SuitedIf DEF s, ip

(* The arrays of BranchPredictor.                                          *)
LEMMA BranchPredictorArrays ==
  ASSUME NEW c PROVE Suited("BranchPredictor", c)
<1> DEFINE s == AsksOf("BranchPredictor", c)
           ip == Before("BranchPredictor")
<1>1. CASE "multithreaded" \in c
  <2>0. Fresh(ip)
    BY BeforePredictor
  <2>1. s = <<Ask("globalBPT", SetAssoc, {"rd", "wr"}),
             Ask("L1_localBPT", <<>>, {"rd", "wr"}),
             Ask("L2_localBPT", <<>>, {"rd", "wr"}),
             Ask("chooser", <<>>, {"rd", "wr"}),
             Ask("RAS", Ram, {"rd", "wr"})>>
    BY <1>1 DEF AsksOf, BranchPredictor_asks
  <2>2. /\ DOMAIN s = 1..5
        /\ s[1] = Ask("globalBPT", SetAssoc, {"rd", "wr"})
        /\ s[2] = Ask("L1_localBPT", <<>>, {"rd", "wr"})
        /\ s[3] = Ask("L2_localBPT", <<>>, {"rd", "wr"})
        /\ s[4] = Ask("chooser", <<>>, {"rd", "wr"})
        /\ s[5] = Ask("RAS", Ram, {"rd", "wr"})
    BY <2>1
  <2> HIDE DEF s, ip
  <2>3. s[1].of = "globalBPT" /\ s[1].ports = {"rd", "wr"} /\ s[1].fields = SetAssoc
    BY <1>1, <2>2 DEF Ask, AskIf, NotAsked
  <2>4. s[2].of = "L1_localBPT" /\ s[2].ports = {"rd", "wr"} /\ s[2].fields = <<>>
    BY <1>1, <2>2 DEF Ask, AskIf, NotAsked
  <2>5. s[3].of = "L2_localBPT" /\ s[3].ports = {"rd", "wr"} /\ s[3].fields = <<>>
    BY <1>1, <2>2 DEF Ask, AskIf, NotAsked
  <2>6. s[4].of = "chooser" /\ s[4].ports = {"rd", "wr"} /\ s[4].fields = <<>>
    BY <1>1, <2>2 DEF Ask, AskIf, NotAsked
  <2>7. s[5].of = "RAS" /\ s[5].ports = {"rd", "wr"} /\ s[5].fields = Ram
    BY <1>1, <2>2 DEF Ask, AskIf, NotAsked
  <2>8. LeftIs(ip, s, 0, "cache", 1, 1)
    BY <2>0, LeftStart
  <2>9. LeftIs(ip, s, 1, "cache", 1, 1)
    BY <2>8, <2>3, LeftSetAssoc
  <2>10. UsesOf("BranchPredictor", c)["globalBPT"] = Use({"read", "write"}, {})
    BY <1>1, JoinDomain, JoinValue, RowDomain, RowValue DEF UsesOf, RW, Buffer, When,
    BranchPredictor_uses, BranchPredictor_made, Predictors
  <2>11. ReadOnly(UsesOf("BranchPredictor", c)["globalBPT"], {"rd", "wr"}, "cache")
    BY <2>10 DEF Use, ReadOnly
  <2>12. Suit(error_checking(Left(ip, s, 1), s[1].ports), UsesOf("BranchPredictor",
           c)[s[1].of])
    BY <2>3, <2>9, <2>11, SuitReadOnly
  <2>13. LeftIs(ip, s, 2, "cache", 1, 1)
    BY <2>9, <2>4, LeftNothing
  <2>14. UsesOf("BranchPredictor", c)["L1_localBPT"] = Use({"read", "write"}, {})
    BY <1>1, JoinDomain, JoinValue, RowDomain, RowValue DEF UsesOf, RW, Buffer, When,
    BranchPredictor_uses, BranchPredictor_made, Predictors
  <2>15. ReadOnly(UsesOf("BranchPredictor", c)["L1_localBPT"], {"rd", "wr"}, "cache")
    BY <2>14 DEF Use, ReadOnly
  <2>16. Suit(error_checking(Left(ip, s, 2), s[2].ports), UsesOf("BranchPredictor",
           c)[s[2].of])
    BY <2>4, <2>13, <2>15, SuitReadOnly
  <2>17. LeftIs(ip, s, 3, "cache", 1, 1)
    BY <2>13, <2>5, LeftNothing
  <2>18. UsesOf("BranchPredictor", c)["L2_localBPT"] = Use({"read", "write"}, {})
    BY <1>1, JoinDomain, JoinValue, RowDomain, RowValue DEF UsesOf, RW, Buffer, When,
    BranchPredictor_uses, BranchPredictor_made, Predictors
  <2>19. ReadOnly(UsesOf("BranchPredictor", c)["L2_localBPT"], {"rd", "wr"}, "cache")
    BY <2>18 DEF Use, ReadOnly
  <2>20. Suit(error_checking(Left(ip, s, 3), s[3].ports), UsesOf("BranchPredictor",
           c)[s[3].of])
    BY <2>5, <2>17, <2>19, SuitReadOnly
  <2>21. LeftIs(ip, s, 4, "cache", 1, 1)
    BY <2>17, <2>6, LeftNothing
  <2>22. UsesOf("BranchPredictor", c)["chooser"] = Use({"read", "write"}, {})
    BY <1>1, JoinDomain, JoinValue, RowDomain, RowValue DEF UsesOf, RW, Buffer, When,
    BranchPredictor_uses, BranchPredictor_made, Predictors
  <2>23. ReadOnly(UsesOf("BranchPredictor", c)["chooser"], {"rd", "wr"}, "cache")
    BY <2>22 DEF Use, ReadOnly
  <2>24. Suit(error_checking(Left(ip, s, 4), s[4].ports), UsesOf("BranchPredictor",
           c)[s[4].of])
    BY <2>6, <2>21, <2>23, SuitReadOnly
  <2>25. LeftIs(ip, s, 5, "ram", 1, 1)
    BY <2>21, <2>7, LeftRam
  <2>26. UsesOf("BranchPredictor", c)["RAS"] = Use({"read", "write"}, {})
    BY <1>1, JoinDomain, JoinValue, RowDomain, RowValue DEF UsesOf, RW, Buffer, When,
    BranchPredictor_uses, BranchPredictor_made, Predictors
  <2>27. ReadOnly(UsesOf("BranchPredictor", c)["RAS"], {"rd", "wr"}, "ram")
    BY <2>26 DEF Use, ReadOnly
  <2>28. Suit(error_checking(Left(ip, s, 5), s[5].ports), UsesOf("BranchPredictor",
           c)[s[5].of])
    BY <2>7, <2>25, <2>27, SuitReadOnly
  <2>29. \A j, k \in DOMAIN s : s[j].of = s[k].of => j = k \/ s[j].of = "none"
    BY <2>2, <2>3, <2>4, <2>5, <2>6, <2>7
  <2>30. \A k \in DOMAIN s : s[k].of # "none" =>
           Suit(error_checking(Left(ip, s, k), s[k].ports), UsesOf("BranchPredictor",
             c)[s[k].of])
    BY <2>2, <2>3, <2>4, <2>5, <2>6, <2>7, <2>12, <2>16, <2>20, <2>24, <2>28
  <2> QED BY <2>29, <2>30, SuitedIf DEF s, ip
<1>2. CASE "multithreaded" \notin c
  <2>0. Fresh(ip)
    BY BeforePredictor
  <2>1. s = <<Ask("globalBPT", Ram, {"rd", "wr"}),
             Ask("L1_localBPT", <<>>, {"rd", "wr"}),
             Ask("L2_localBPT", <<>>, {"rd", "wr"}),
             Ask("chooser", <<>>, {"rd", "wr"}),
             Ask("RAS", Ram, {"rd", "wr"})>>
    BY <1>2 DEF AsksOf, BranchPredictor_asks
  <2>2. /\ DOMAIN s = 1..5
        /\ s[1] = Ask("globalBPT", Ram, {"rd", "wr"})
        /\ s[2] = Ask("L1_localBPT", <<>>, {"rd", "wr"})
        /\ s[3] = Ask("L2_localBPT", <<>>, {"rd", "wr"})
        /\ s[4] = Ask("chooser", <<>>, {"rd", "wr"})
        /\ s[5] = Ask("RAS", Ram, {"rd", "wr"})
    BY <2>1
  <2> HIDE DEF s, ip
  <2>3. s[1].of = "globalBPT" /\ s[1].ports = {"rd", "wr"} /\ s[1].fields = Ram
    BY <1>2, <2>2 DEF Ask, AskIf, NotAsked
  <2>4. s[2].of = "L1_localBPT" /\ s[2].ports = {"rd", "wr"} /\ s[2].fields = <<>>
    BY <1>2, <2>2 DEF Ask, AskIf, NotAsked
  <2>5. s[3].of = "L2_localBPT" /\ s[3].ports = {"rd", "wr"} /\ s[3].fields = <<>>
    BY <1>2, <2>2 DEF Ask, AskIf, NotAsked
  <2>6. s[4].of = "chooser" /\ s[4].ports = {"rd", "wr"} /\ s[4].fields = <<>>
    BY <1>2, <2>2 DEF Ask, AskIf, NotAsked
  <2>7. s[5].of = "RAS" /\ s[5].ports = {"rd", "wr"} /\ s[5].fields = Ram
    BY <1>2, <2>2 DEF Ask, AskIf, NotAsked
  <2>8. LeftIs(ip, s, 0, "cache", 1, 1)
    BY <2>0, LeftStart
  <2>9. LeftIs(ip, s, 1, "ram", 1, 1)
    BY <2>8, <2>3, LeftRam
  <2>10. UsesOf("BranchPredictor", c)["globalBPT"] = Use({"read", "write"}, {})
    BY <1>2, JoinDomain, JoinValue, RowDomain, RowValue DEF UsesOf, RW, Buffer, When,
    BranchPredictor_uses, BranchPredictor_made, Predictors
  <2>11. ReadOnly(UsesOf("BranchPredictor", c)["globalBPT"], {"rd", "wr"}, "ram")
    BY <2>10 DEF Use, ReadOnly
  <2>12. Suit(error_checking(Left(ip, s, 1), s[1].ports), UsesOf("BranchPredictor",
           c)[s[1].of])
    BY <2>3, <2>9, <2>11, SuitReadOnly
  <2>13. LeftIs(ip, s, 2, "ram", 1, 1)
    BY <2>9, <2>4, LeftNothing
  <2>14. UsesOf("BranchPredictor", c)["L1_localBPT"] = Use({"read", "write"}, {})
    BY <1>2, JoinDomain, JoinValue, RowDomain, RowValue DEF UsesOf, RW, Buffer, When,
    BranchPredictor_uses, BranchPredictor_made, Predictors
  <2>15. ReadOnly(UsesOf("BranchPredictor", c)["L1_localBPT"], {"rd", "wr"}, "ram")
    BY <2>14 DEF Use, ReadOnly
  <2>16. Suit(error_checking(Left(ip, s, 2), s[2].ports), UsesOf("BranchPredictor",
           c)[s[2].of])
    BY <2>4, <2>13, <2>15, SuitReadOnly
  <2>17. LeftIs(ip, s, 3, "ram", 1, 1)
    BY <2>13, <2>5, LeftNothing
  <2>18. UsesOf("BranchPredictor", c)["L2_localBPT"] = Use({"read", "write"}, {})
    BY <1>2, JoinDomain, JoinValue, RowDomain, RowValue DEF UsesOf, RW, Buffer, When,
    BranchPredictor_uses, BranchPredictor_made, Predictors
  <2>19. ReadOnly(UsesOf("BranchPredictor", c)["L2_localBPT"], {"rd", "wr"}, "ram")
    BY <2>18 DEF Use, ReadOnly
  <2>20. Suit(error_checking(Left(ip, s, 3), s[3].ports), UsesOf("BranchPredictor",
           c)[s[3].of])
    BY <2>5, <2>17, <2>19, SuitReadOnly
  <2>21. LeftIs(ip, s, 4, "ram", 1, 1)
    BY <2>17, <2>6, LeftNothing
  <2>22. UsesOf("BranchPredictor", c)["chooser"] = Use({"read", "write"}, {})
    BY <1>2, JoinDomain, JoinValue, RowDomain, RowValue DEF UsesOf, RW, Buffer, When,
    BranchPredictor_uses, BranchPredictor_made, Predictors
  <2>23. ReadOnly(UsesOf("BranchPredictor", c)["chooser"], {"rd", "wr"}, "ram")
    BY <2>22 DEF Use, ReadOnly
  <2>24. Suit(error_checking(Left(ip, s, 4), s[4].ports), UsesOf("BranchPredictor",
           c)[s[4].of])
    BY <2>6, <2>21, <2>23, SuitReadOnly
  <2>25. LeftIs(ip, s, 5, "ram", 1, 1)
    BY <2>21, <2>7, LeftRam
  <2>26. UsesOf("BranchPredictor", c)["RAS"] = Use({"read", "write"}, {})
    BY <1>2, JoinDomain, JoinValue, RowDomain, RowValue DEF UsesOf, RW, Buffer, When,
    BranchPredictor_uses, BranchPredictor_made, Predictors
  <2>27. ReadOnly(UsesOf("BranchPredictor", c)["RAS"], {"rd", "wr"}, "ram")
    BY <2>26 DEF Use, ReadOnly
  <2>28. Suit(error_checking(Left(ip, s, 5), s[5].ports), UsesOf("BranchPredictor",
           c)[s[5].of])
    BY <2>7, <2>25, <2>27, SuitReadOnly
  <2>29. \A j, k \in DOMAIN s : s[j].of = s[k].of => j = k \/ s[j].of = "none"
    BY <2>2, <2>3, <2>4, <2>5, <2>6, <2>7
  <2>30. \A k \in DOMAIN s : s[k].of # "none" =>
           Suit(error_checking(Left(ip, s, k), s[k].ports), UsesOf("BranchPredictor",
             c)[s[k].of])
    BY <2>2, <2>3, <2>4, <2>5, <2>6, <2>7, <2>12, <2>16, <2>20, <2>24, <2>28
  <2> QED BY <2>29, <2>30, SuitedIf DEF s, ip
<1> QED BY <1>1, <1>2

(* The arrays of RENAMINGU.                                                *)
LEMMA RENAMINGUArrays ==
  ASSUME NEW c, "OOO" \in c
  PROVE  Suited("RENAMINGU", c)
<1> DEFINE s == AsksOf("RENAMINGU", c)
           ip == Before("RENAMINGU")
<1>1. CASE "RAMbased" \notin c
  <2>0. Fresh(ip)
    BY StartFresh DEF Before
  <2>1. s = <<Ask("iFRAT", Cam, {"rw", "rd", "wr"}),
             Ask("fFRAT", Cam, {"rw", "rd", "wr"}),
             AskIf(HasRRAT(c), "iRRAT", Ram, {"rd", "wr"}),
             AskIf(HasRRAT(c), "fRRAT", Ram, {"rd", "wr"}),
             Ask("ifreeL", Ram, {"rw", "rd", "wr"}),
             AskIf("PhysicalRegFile" \in c, "ffreeL", Ram, {"rw", "rd", "wr"})>>
    <3>1. s = RENAMINGU_FRAT_CAM(c) \o RENAMINGU_RRAT(c) \o RENAMINGU_freeL(c)
      BY <1>1 DEF AsksOf, RENAMINGU_asks
    <3>2. RENAMINGU_FRAT_CAM(c) \o RENAMINGU_RRAT(c) =
          <<Ask("iFRAT", Cam, {"rw", "rd", "wr"}), Ask("fFRAT", Cam, {"rw", "rd", "wr"}),
            AskIf(HasRRAT(c), "iRRAT", Ram, {"rd", "wr"}), AskIf(HasRRAT(c), "fRRAT", Ram,
              {"rd", "wr"})>>
      BY Join22 DEF RENAMINGU_FRAT_CAM, RENAMINGU_RRAT
    <3> QED BY <3>1, <3>2, Join42 DEF RENAMINGU_freeL
  <2>2. /\ DOMAIN s = 1..6
        /\ s[1] = Ask("iFRAT", Cam, {"rw", "rd", "wr"})
        /\ s[2] = Ask("fFRAT", Cam, {"rw", "rd", "wr"})
        /\ s[3] = AskIf(HasRRAT(c), "iRRAT", Ram, {"rd", "wr"})
        /\ s[4] = AskIf(HasRRAT(c), "fRRAT", Ram, {"rd", "wr"})
        /\ s[5] = Ask("ifreeL", Ram, {"rw", "rd", "wr"})
        /\ s[6] = AskIf("PhysicalRegFile" \in c, "ffreeL", Ram, {"rw", "rd", "wr"})
    BY <2>1
  <2> HIDE DEF s, ip
  <2>3. s[1].of = "iFRAT" /\ s[1].ports = {"rw", "rd", "wr"} /\ s[1].fields = Cam
    BY <1>1, <2>2 DEF Ask, AskIf, NotAsked, HasRRAT
  <2>4. s[2].of = "fFRAT" /\ s[2].ports = {"rw", "rd", "wr"} /\ s[2].fields = Cam
    BY <1>1, <2>2 DEF Ask, AskIf, NotAsked, HasRRAT
  <2>5. s[3].of = "none" /\ s[3].fields = <<>>
    BY <1>1, <2>2 DEF Ask, AskIf, NotAsked, HasRRAT
  <2>6. s[4].of = "none" /\ s[4].fields = <<>>
    BY <1>1, <2>2 DEF Ask, AskIf, NotAsked, HasRRAT
  <2>7. s[5].of = "ifreeL" /\ s[5].ports = {"rw", "rd", "wr"} /\ s[5].fields = Ram
    BY <1>1, <2>2 DEF Ask, AskIf, NotAsked, HasRRAT
  <2>8. \/ ("PhysicalRegFile" \in c) /\ s[6].of = "ffreeL" /\
             s[6].ports = {"rw", "rd", "wr"} /\ s[6].fields = Ram
        \/ ~ ("PhysicalRegFile" \in c) /\ s[6].of = "none" /\ s[6].fields = <<>>
    BY <1>1, <2>2 DEF Ask, AskIf, NotAsked, HasRRAT
  <2>9. LeftIs(ip, s, 0, "cache", 1, 1)
    BY <2>0, LeftStart
  <2>10. LeftIs(ip, s, 1, "cache", 0, 1)
    BY <2>9, <2>3, LeftCam
  <2>11. UsesOf("RENAMINGU", c)["iFRAT"] = Use({"search", "write"}, {"search", "wr"})
    BY <1>1, JoinDomain, JoinValue, RowDomain, RowValue DEF UsesOf, RW, Buffer, When,
    RENAMINGU_uses, FRATs, RRATs, FreeLists, HasRRAT
  <2>12. Searching(UsesOf("RENAMINGU", c)["iFRAT"], {"rw", "rd", "wr"})
    BY <2>11 DEF Use, Searching
  <2>13. Suit(error_checking(Left(ip, s, 1), s[1].ports), UsesOf("RENAMINGU", c)[s[1].of])
    BY <2>3, <2>10, <2>12, SuitSearching
  <2>14. LeftIs(ip, s, 2, "cache", 0, 1)
    BY <2>10, <2>4, LeftCam
  <2>15. UsesOf("RENAMINGU", c)["fFRAT"] = Use({"search", "write"}, {"search", "wr"})
    BY <1>1, JoinDomain, JoinValue, RowDomain, RowValue DEF UsesOf, RW, Buffer, When,
    RENAMINGU_uses, FRATs, RRATs, FreeLists, HasRRAT
  <2>16. Searching(UsesOf("RENAMINGU", c)["fFRAT"], {"rw", "rd", "wr"})
    BY <2>15 DEF Use, Searching
  <2>17. Suit(error_checking(Left(ip, s, 2), s[2].ports), UsesOf("RENAMINGU", c)[s[2].of])
    BY <2>4, <2>14, <2>16, SuitSearching
  <2>18. LeftIs(ip, s, 3, "cache", 0, 1)
    BY <2>14, <2>5, LeftNothing
  <2>19. LeftIs(ip, s, 4, "cache", 0, 1)
    BY <2>18, <2>6, LeftNothing
  <2>20. LeftIs(ip, s, 5, "ram", 1, 1)
    BY <2>19, <2>7, LeftRam
  <2>21. UsesOf("RENAMINGU", c)["ifreeL"] = Use({"read", "write"}, {})
    BY <1>1, JoinDomain, JoinValue, RowDomain, RowValue DEF UsesOf, RW, Buffer, When,
    RENAMINGU_uses, FRATs, RRATs, FreeLists, HasRRAT
  <2>22. ReadOnly(UsesOf("RENAMINGU", c)["ifreeL"], {"rw", "rd", "wr"}, "ram")
    BY <2>21 DEF Use, ReadOnly
  <2>23. Suit(error_checking(Left(ip, s, 5), s[5].ports), UsesOf("RENAMINGU", c)[s[5].of])
    BY <2>7, <2>20, <2>22, SuitReadOnly
  <2>24. LeftIs(ip, s, 6, "ram", 1, 1)
    BY <2>20, <2>8, LeftRam, LeftNothing
  <2>25. s[6].of # "none" => UsesOf("RENAMINGU", c)["ffreeL"] = Use({"read", "write"}, {})
    BY <1>1, <2>8, JoinDomain, JoinValue, RowDomain, RowValue DEF UsesOf, RW, Buffer, When,
    RENAMINGU_uses, FRATs, RRATs, FreeLists, HasRRAT
  <2>26. s[6].of # "none" => ReadOnly(UsesOf("RENAMINGU", c)["ffreeL"], {"rw", "rd", "wr"},
           "ram")
    BY <2>25 DEF Use, ReadOnly
  <2>27. s[6].of # "none" => Suit(error_checking(Left(ip, s, 6), s[6].ports),
           UsesOf("RENAMINGU", c)[s[6].of])
    BY <2>8, <2>24, <2>26, SuitReadOnly
  <2>28. \A j, k \in DOMAIN s : s[j].of = s[k].of => j = k \/ s[j].of = "none"
    BY <2>2, <2>3, <2>4, <2>5, <2>6, <2>7, <2>8
  <2>29. \A k \in DOMAIN s : s[k].of # "none" =>
           Suit(error_checking(Left(ip, s, k), s[k].ports), UsesOf("RENAMINGU", c)[s[k].of])
    BY <2>2, <2>3, <2>4, <2>5, <2>6, <2>7, <2>8, <2>13, <2>17, <2>23, <2>27
  <2> QED BY <2>28, <2>29, SuitedIf DEF s, ip
<1>2. CASE "RAMbased" \in c /\ "checkpoints" \in c
  <2>0. Fresh(ip)
    BY StartFresh DEF Before
  <2>1. s = <<Ask("iFRAT", Ram, {"rw", "rd", "wr"}),
             Ask("fFRAT", Ram, {"rw", "rd", "wr"}),
             AskIf(HasRRAT(c), "iRRAT", Ram, {"rd", "wr"}),
             AskIf(HasRRAT(c), "fRRAT", Ram, {"rd", "wr"}),
             Ask("ifreeL", Ram, {"rw", "rd", "wr"}),
             AskIf("PhysicalRegFile" \in c, "ffreeL", Ram, {"rw", "rd", "wr"})>>
    <3>1. s = RENAMINGU_FRAT_RAM(c) \o RENAMINGU_RRAT(c) \o RENAMINGU_freeL(c)
      BY <1>2 DEF AsksOf, RENAMINGU_asks
    <3>2. RENAMINGU_FRAT_RAM(c) \o RENAMINGU_RRAT(c) =
          <<Ask("iFRAT", Ram, {"rw", "rd", "wr"}), Ask("fFRAT", Ram, {"rw", "rd", "wr"}),
            AskIf(HasRRAT(c), "iRRAT", Ram, {"rd", "wr"}), AskIf(HasRRAT(c), "fRRAT", Ram,
              {"rd", "wr"})>>
      BY Join22 DEF RENAMINGU_FRAT_RAM, RENAMINGU_RRAT
    <3> QED BY <3>1, <3>2, Join42 DEF RENAMINGU_freeL
  <2>2. /\ DOMAIN s = 1..6
        /\ s[1] = Ask("iFRAT", Ram, {"rw", "rd", "wr"})
        /\ s[2] = Ask("fFRAT", Ram, {"rw", "rd", "wr"})
        /\ s[3] = AskIf(HasRRAT(c), "iRRAT", Ram, {"rd", "wr"})
        /\ s[4] = AskIf(HasRRAT(c), "fRRAT", Ram, {"rd", "wr"})
        /\ s[5] = Ask("ifreeL", Ram, {"rw", "rd", "wr"})
        /\ s[6] = AskIf("PhysicalRegFile" \in c, "ffreeL", Ram, {"rw", "rd", "wr"})
    BY <2>1
  <2> HIDE DEF s, ip
  <2>3. s[1].of = "iFRAT" /\ s[1].ports = {"rw", "rd", "wr"} /\ s[1].fields = Ram
    BY <1>2, <2>2 DEF Ask, AskIf, NotAsked, HasRRAT
  <2>4. s[2].of = "fFRAT" /\ s[2].ports = {"rw", "rd", "wr"} /\ s[2].fields = Ram
    BY <1>2, <2>2 DEF Ask, AskIf, NotAsked, HasRRAT
  <2>5. s[3].of = "none" /\ s[3].fields = <<>>
    BY <1>2, <2>2 DEF Ask, AskIf, NotAsked, HasRRAT
  <2>6. s[4].of = "none" /\ s[4].fields = <<>>
    BY <1>2, <2>2 DEF Ask, AskIf, NotAsked, HasRRAT
  <2>7. s[5].of = "ifreeL" /\ s[5].ports = {"rw", "rd", "wr"} /\ s[5].fields = Ram
    BY <1>2, <2>2 DEF Ask, AskIf, NotAsked, HasRRAT
  <2>8. \/ ("PhysicalRegFile" \in c) /\ s[6].of = "ffreeL" /\
             s[6].ports = {"rw", "rd", "wr"} /\ s[6].fields = Ram
        \/ ~ ("PhysicalRegFile" \in c) /\ s[6].of = "none" /\ s[6].fields = <<>>
    BY <1>2, <2>2 DEF Ask, AskIf, NotAsked, HasRRAT
  <2>9. LeftIs(ip, s, 0, "cache", 1, 1)
    BY <2>0, LeftStart
  <2>10. LeftIs(ip, s, 1, "ram", 1, 1)
    BY <2>9, <2>3, LeftRam
  <2>11. UsesOf("RENAMINGU", c)["iFRAT"] = Use({"read", "write"}, {"rd", "wr"})
    BY <1>2, JoinDomain, JoinValue, RowDomain, RowValue DEF UsesOf, RW, Buffer, When,
    RENAMINGU_uses, FRATs, RRATs, FreeLists, HasRRAT
  <2>12. ReadOnly(UsesOf("RENAMINGU", c)["iFRAT"], {"rw", "rd", "wr"}, "ram")
    BY <2>11 DEF Use, ReadOnly
  <2>13. Suit(error_checking(Left(ip, s, 1), s[1].ports), UsesOf("RENAMINGU", c)[s[1].of])
    BY <2>3, <2>10, <2>12, SuitReadOnly
  <2>14. LeftIs(ip, s, 2, "ram", 1, 1)
    BY <2>10, <2>4, LeftRam
  <2>15. UsesOf("RENAMINGU", c)["fFRAT"] = Use({"read", "write"}, {"rd", "wr"})
    BY <1>2, JoinDomain, JoinValue, RowDomain, RowValue DEF UsesOf, RW, Buffer, When,
    RENAMINGU_uses, FRATs, RRATs, FreeLists, HasRRAT
  <2>16. ReadOnly(UsesOf("RENAMINGU", c)["fFRAT"], {"rw", "rd", "wr"}, "ram")
    BY <2>15 DEF Use, ReadOnly
  <2>17. Suit(error_checking(Left(ip, s, 2), s[2].ports), UsesOf("RENAMINGU", c)[s[2].of])
    BY <2>4, <2>14, <2>16, SuitReadOnly
  <2>18. LeftIs(ip, s, 3, "ram", 1, 1)
    BY <2>14, <2>5, LeftNothing
  <2>19. LeftIs(ip, s, 4, "ram", 1, 1)
    BY <2>18, <2>6, LeftNothing
  <2>20. LeftIs(ip, s, 5, "ram", 1, 1)
    BY <2>19, <2>7, LeftRam
  <2>21. UsesOf("RENAMINGU", c)["ifreeL"] = Use({"read", "write"}, {})
    BY <1>2, JoinDomain, JoinValue, RowDomain, RowValue DEF UsesOf, RW, Buffer, When,
    RENAMINGU_uses, FRATs, RRATs, FreeLists, HasRRAT
  <2>22. ReadOnly(UsesOf("RENAMINGU", c)["ifreeL"], {"rw", "rd", "wr"}, "ram")
    BY <2>21 DEF Use, ReadOnly
  <2>23. Suit(error_checking(Left(ip, s, 5), s[5].ports), UsesOf("RENAMINGU", c)[s[5].of])
    BY <2>7, <2>20, <2>22, SuitReadOnly
  <2>24. LeftIs(ip, s, 6, "ram", 1, 1)
    BY <2>20, <2>8, LeftRam, LeftNothing
  <2>25. s[6].of # "none" => UsesOf("RENAMINGU", c)["ffreeL"] = Use({"read", "write"}, {})
    BY <1>2, <2>8, JoinDomain, JoinValue, RowDomain, RowValue DEF UsesOf, RW, Buffer, When,
    RENAMINGU_uses, FRATs, RRATs, FreeLists, HasRRAT
  <2>26. s[6].of # "none" => ReadOnly(UsesOf("RENAMINGU", c)["ffreeL"], {"rw", "rd", "wr"},
           "ram")
    BY <2>25 DEF Use, ReadOnly
  <2>27. s[6].of # "none" => Suit(error_checking(Left(ip, s, 6), s[6].ports),
           UsesOf("RENAMINGU", c)[s[6].of])
    BY <2>8, <2>24, <2>26, SuitReadOnly
  <2>28. \A j, k \in DOMAIN s : s[j].of = s[k].of => j = k \/ s[j].of = "none"
    BY <2>2, <2>3, <2>4, <2>5, <2>6, <2>7, <2>8
  <2>29. \A k \in DOMAIN s : s[k].of # "none" =>
           Suit(error_checking(Left(ip, s, k), s[k].ports), UsesOf("RENAMINGU", c)[s[k].of])
    BY <2>2, <2>3, <2>4, <2>5, <2>6, <2>7, <2>8, <2>13, <2>17, <2>23, <2>27
  <2> QED BY <2>28, <2>29, SuitedIf DEF s, ip
<1>3. CASE "RAMbased" \in c /\ "checkpoints" \notin c
  <2>0. Fresh(ip)
    BY StartFresh DEF Before
  <2>1. s = <<Ask("iFRAT", Ram, {"rw", "rd", "wr"}),
             Ask("fFRAT", Ram, {"rw", "rd", "wr"}),
             AskIf(HasRRAT(c), "iRRAT", Ram, {"rd", "wr"}),
             AskIf(HasRRAT(c), "fRRAT", Ram, {"rd", "wr"}),
             Ask("ifreeL", Ram, {"rw", "rd", "wr"}),
             AskIf("PhysicalRegFile" \in c, "ffreeL", Ram, {"rw", "rd", "wr"})>>
    <3>1. s = RENAMINGU_FRAT_RAM(c) \o RENAMINGU_RRAT(c) \o RENAMINGU_freeL(c)
      BY <1>3 DEF AsksOf, RENAMINGU_asks
    <3>2. RENAMINGU_FRAT_RAM(c) \o RENAMINGU_RRAT(c) =
          <<Ask("iFRAT", Ram, {"rw", "rd", "wr"}), Ask("fFRAT", Ram, {"rw", "rd", "wr"}),
            AskIf(HasRRAT(c), "iRRAT", Ram, {"rd", "wr"}), AskIf(HasRRAT(c), "fRRAT", Ram,
              {"rd", "wr"})>>
      BY Join22 DEF RENAMINGU_FRAT_RAM, RENAMINGU_RRAT
    <3> QED BY <3>1, <3>2, Join42 DEF RENAMINGU_freeL
  <2>2. /\ DOMAIN s = 1..6
        /\ s[1] = Ask("iFRAT", Ram, {"rw", "rd", "wr"})
        /\ s[2] = Ask("fFRAT", Ram, {"rw", "rd", "wr"})
        /\ s[3] = AskIf(HasRRAT(c), "iRRAT", Ram, {"rd", "wr"})
        /\ s[4] = AskIf(HasRRAT(c), "fRRAT", Ram, {"rd", "wr"})
        /\ s[5] = Ask("ifreeL", Ram, {"rw", "rd", "wr"})
        /\ s[6] = AskIf("PhysicalRegFile" \in c, "ffreeL", Ram, {"rw", "rd", "wr"})
    BY <2>1
  <2> HIDE DEF s, ip
  <2>3. s[1].of = "iFRAT" /\ s[1].ports = {"rw", "rd", "wr"} /\ s[1].fields = Ram
    BY <1>3, <2>2 DEF Ask, AskIf, NotAsked, HasRRAT
  <2>4. s[2].of = "fFRAT" /\ s[2].ports = {"rw", "rd", "wr"} /\ s[2].fields = Ram
    BY <1>3, <2>2 DEF Ask, AskIf, NotAsked, HasRRAT
  <2>5. s[3].of = "iRRAT" /\ s[3].ports = {"rd", "wr"} /\ s[3].fields = Ram
    BY <1>3, <2>2 DEF Ask, AskIf, NotAsked, HasRRAT
  <2>6. s[4].of = "fRRAT" /\ s[4].ports = {"rd", "wr"} /\ s[4].fields = Ram
    BY <1>3, <2>2 DEF Ask, AskIf, NotAsked, HasRRAT
  <2>7. s[5].of = "ifreeL" /\ s[5].ports = {"rw", "rd", "wr"} /\ s[5].fields = Ram
    BY <1>3, <2>2 DEF Ask, AskIf, NotAsked, HasRRAT
  <2>8. \/ ("PhysicalRegFile" \in c) /\ s[6].of = "ffreeL" /\
             s[6].ports = {"rw", "rd", "wr"} /\ s[6].fields = Ram
        \/ ~ ("PhysicalRegFile" \in c) /\ s[6].of = "none" /\ s[6].fields = <<>>
    BY <1>3, <2>2 DEF Ask, AskIf, NotAsked, HasRRAT
  <2>9. LeftIs(ip, s, 0, "cache", 1, 1)
    BY <2>0, LeftStart
  <2>10. LeftIs(ip, s, 1, "ram", 1, 1)
    BY <2>9, <2>3, LeftRam
  <2>11. UsesOf("RENAMINGU", c)["iFRAT"] = Use({"read", "write"}, {"rd", "wr"})
    BY <1>3, JoinDomain, JoinValue, RowDomain, RowValue DEF UsesOf, RW, Buffer, When,
    RENAMINGU_uses, FRATs, RRATs, FreeLists, HasRRAT
  <2>12. ReadOnly(UsesOf("RENAMINGU", c)["iFRAT"], {"rw", "rd", "wr"}, "ram")
    BY <2>11 DEF Use, ReadOnly
  <2>13. Suit(error_checking(Left(ip, s, 1), s[1].ports), UsesOf("RENAMINGU", c)[s[1].of])
    BY <2>3, <2>10, <2>12, SuitReadOnly
  <2>14. LeftIs(ip, s, 2, "ram", 1, 1)
    BY <2>10, <2>4, LeftRam
  <2>15. UsesOf("RENAMINGU", c)["fFRAT"] = Use({"read", "write"}, {"rd", "wr"})
    BY <1>3, JoinDomain, JoinValue, RowDomain, RowValue DEF UsesOf, RW, Buffer, When,
    RENAMINGU_uses, FRATs, RRATs, FreeLists, HasRRAT
  <2>16. ReadOnly(UsesOf("RENAMINGU", c)["fFRAT"], {"rw", "rd", "wr"}, "ram")
    BY <2>15 DEF Use, ReadOnly
  <2>17. Suit(error_checking(Left(ip, s, 2), s[2].ports), UsesOf("RENAMINGU", c)[s[2].of])
    BY <2>4, <2>14, <2>16, SuitReadOnly
  <2>18. LeftIs(ip, s, 3, "ram", 1, 1)
    BY <2>14, <2>5, LeftRam
  <2>19. UsesOf("RENAMINGU", c)["iRRAT"] = Use({"read", "write"}, {"rd", "wr"})
    BY <1>3, JoinDomain, JoinValue, RowDomain, RowValue DEF UsesOf, RW, Buffer, When,
    RENAMINGU_uses, FRATs, RRATs, FreeLists, HasRRAT
  <2>20. ReadOnly(UsesOf("RENAMINGU", c)["iRRAT"], {"rd", "wr"}, "ram")
    BY <2>19 DEF Use, ReadOnly
  <2>21. Suit(error_checking(Left(ip, s, 3), s[3].ports), UsesOf("RENAMINGU", c)[s[3].of])
    BY <2>5, <2>18, <2>20, SuitReadOnly
  <2>22. LeftIs(ip, s, 4, "ram", 1, 1)
    BY <2>18, <2>6, LeftRam
  <2>23. UsesOf("RENAMINGU", c)["fRRAT"] = Use({"read", "write"}, {"rd", "wr"})
    BY <1>3, JoinDomain, JoinValue, RowDomain, RowValue DEF UsesOf, RW, Buffer, When,
    RENAMINGU_uses, FRATs, RRATs, FreeLists, HasRRAT
  <2>24. ReadOnly(UsesOf("RENAMINGU", c)["fRRAT"], {"rd", "wr"}, "ram")
    BY <2>23 DEF Use, ReadOnly
  <2>25. Suit(error_checking(Left(ip, s, 4), s[4].ports), UsesOf("RENAMINGU", c)[s[4].of])
    BY <2>6, <2>22, <2>24, SuitReadOnly
  <2>26. LeftIs(ip, s, 5, "ram", 1, 1)
    BY <2>22, <2>7, LeftRam
  <2>27. UsesOf("RENAMINGU", c)["ifreeL"] = Use({"read", "write"}, {})
    BY <1>3, JoinDomain, JoinValue, RowDomain, RowValue DEF UsesOf, RW, Buffer, When,
    RENAMINGU_uses, FRATs, RRATs, FreeLists, HasRRAT
  <2>28. ReadOnly(UsesOf("RENAMINGU", c)["ifreeL"], {"rw", "rd", "wr"}, "ram")
    BY <2>27 DEF Use, ReadOnly
  <2>29. Suit(error_checking(Left(ip, s, 5), s[5].ports), UsesOf("RENAMINGU", c)[s[5].of])
    BY <2>7, <2>26, <2>28, SuitReadOnly
  <2>30. LeftIs(ip, s, 6, "ram", 1, 1)
    BY <2>26, <2>8, LeftRam, LeftNothing
  <2>31. s[6].of # "none" => UsesOf("RENAMINGU", c)["ffreeL"] = Use({"read", "write"}, {})
    BY <1>3, <2>8, JoinDomain, JoinValue, RowDomain, RowValue DEF UsesOf, RW, Buffer, When,
    RENAMINGU_uses, FRATs, RRATs, FreeLists, HasRRAT
  <2>32. s[6].of # "none" => ReadOnly(UsesOf("RENAMINGU", c)["ffreeL"], {"rw", "rd", "wr"},
           "ram")
    BY <2>31 DEF Use, ReadOnly
  <2>33. s[6].of # "none" => Suit(error_checking(Left(ip, s, 6), s[6].ports),
           UsesOf("RENAMINGU", c)[s[6].of])
    BY <2>8, <2>30, <2>32, SuitReadOnly
  <2>34. \A j, k \in DOMAIN s : s[j].of = s[k].of => j = k \/ s[j].of = "none"
    BY <2>2, <2>3, <2>4, <2>5, <2>6, <2>7, <2>8
  <2>35. \A k \in DOMAIN s : s[k].of # "none" =>
           Suit(error_checking(Left(ip, s, k), s[k].ports), UsesOf("RENAMINGU", c)[s[k].of])
    BY <2>2, <2>3, <2>4, <2>5, <2>6, <2>7, <2>8, <2>13, <2>17, <2>21, <2>25, <2>29, <2>33
  <2> QED BY <2>34, <2>35, SuitedIf DEF s, ip
<1> QED BY <1>1, <1>2, <1>3

(* The arrays of SchedulerU.                                               *)
LEMMA SchedulerUArrays ==
  ASSUME NEW c PROVE Suited("SchedulerU", c)
<1> DEFINE s == AsksOf("SchedulerU", c)
           ip == Before("SchedulerU")
<1>1. CASE "OOO" \in c
  <2>0. Fresh(ip)
    BY StartFresh DEF Before
  <2>1. s = <<AskIf("OOO" \in c \/ "multithreaded" \in c, "int_inst_window", Cam, {"rd",
          "wr"}),
             AskIf("OOO" \in c, "fp_inst_window", Cam, {"rd", "wr"}),
             AskIf("OOO" \in c /\ "ROB" \in c, "ROB", SearchPorts(0, Ram), {"rd", "wr"})>>
    BY <1>1, Join21 DEF AsksOf, SchedulerU_asks, SchedulerU_windows, SchedulerU_ROB
  <2>2. /\ DOMAIN s = 1..3
        /\ s[1] = AskIf("OOO" \in c \/ "multithreaded" \in c, "int_inst_window", Cam,
             {"rd", "wr"})
        /\ s[2] = AskIf("OOO" \in c, "fp_inst_window", Cam, {"rd", "wr"})
        /\ s[3] = AskIf("OOO" \in c /\
             "ROB" \in c, "ROB", SearchPorts(0, Ram), {"rd", "wr"})
    BY <2>1
  <2> HIDE DEF s, ip
  <2>3. s[1].of = "int_inst_window" /\ s[1].ports = {"rd", "wr"} /\ s[1].fields = Cam
    BY <1>1, <2>2 DEF Ask, AskIf, NotAsked
  <2>4. s[2].of = "fp_inst_window" /\ s[2].ports = {"rd", "wr"} /\ s[2].fields = Cam
    BY <1>1, <2>2 DEF Ask, AskIf, NotAsked
  <2>5. \/ ("ROB" \in c) /\ s[3].of = "ROB" /\ s[3].ports = {"rd", "wr"} /\
             s[3].fields = SearchPorts(0, Ram)
        \/ ~ ("ROB" \in c) /\ s[3].of = "none" /\ s[3].fields = <<>>
    BY <1>1, <2>2 DEF Ask, AskIf, NotAsked
  <2>6. LeftIs(ip, s, 0, "cache", 1, 1)
    BY <2>0, LeftStart
  <2>7. LeftIs(ip, s, 1, "cache", 0, 1)
    BY <2>6, <2>3, LeftCam
  <2>8. UsesOf("SchedulerU", c)["int_inst_window"] = Use({"read",
          "write"} \union {"search"}, {})
    BY <1>1, JoinDomain, JoinValue, RowDomain, RowValue DEF UsesOf, RW, Buffer, When,
    SchedulerU_uses, Windows, Ordered
  <2>9. Searching(UsesOf("SchedulerU", c)["int_inst_window"], {"rd", "wr"})
    BY <2>8 DEF Use, Searching
  <2>10. Suit(error_checking(Left(ip, s, 1), s[1].ports), UsesOf("SchedulerU", c)[s[1].of])
    BY <2>3, <2>7, <2>9, SuitSearching
  <2>11. LeftIs(ip, s, 2, "cache", 0, 1)
    BY <2>7, <2>4, LeftCam
  <2>12. UsesOf("SchedulerU", c)["fp_inst_window"] = Use({"read",
           "write"} \union {"search"}, {"rd", "wr", "search"})
    BY <1>1, JoinDomain, JoinValue, RowDomain, RowValue DEF UsesOf, RW, Buffer, When,
    SchedulerU_uses, Windows, Ordered
  <2>13. Searching(UsesOf("SchedulerU", c)["fp_inst_window"], {"rd", "wr"})
    BY <2>12 DEF Use, Searching
  <2>14. Suit(error_checking(Left(ip, s, 2), s[2].ports), UsesOf("SchedulerU", c)[s[2].of])
    BY <2>4, <2>11, <2>13, SuitSearching
  <2>15. s[3].of # "none" => s[3].fields = SearchPorts(0, Ram)
    BY <2>5
  <2>16. s[3].of # "none" => LeftIs(ip, s, 3, "ram", 1, 0)
    BY <2>11, <2>15, LeftBuffer
  <2>17. s[3].of # "none" => UsesOf("SchedulerU", c)["ROB"] = Use({"read", "write"}, {})
    BY <1>1, <2>5, JoinDomain, JoinValue, RowDomain, RowValue DEF UsesOf, RW, Buffer, When,
    SchedulerU_uses, Windows, Ordered
  <2>18. s[3].of # "none" => ReadOnly(UsesOf("SchedulerU", c)["ROB"], {"rd", "wr"}, "ram")
    BY <2>17 DEF Use, ReadOnly
  <2>19. s[3].of # "none" => Suit(error_checking(Left(ip, s, 3), s[3].ports),
           UsesOf("SchedulerU", c)[s[3].of])
    BY <2>5, <2>16, <2>18, SuitReadOnly
  <2>20. \A j, k \in DOMAIN s : s[j].of = s[k].of => j = k \/ s[j].of = "none"
    BY <2>2, <2>3, <2>4, <2>5
  <2>21. \A k \in DOMAIN s : s[k].of # "none" =>
           Suit(error_checking(Left(ip, s, k), s[k].ports), UsesOf("SchedulerU",
             c)[s[k].of])
    BY <2>2, <2>3, <2>4, <2>5, <2>10, <2>14, <2>19
  <2> QED BY <2>20, <2>21, SuitedIf DEF s, ip
<1>2. CASE "OOO" \notin c /\ "multithreaded" \in c
  <2>0. Fresh(ip)
    BY StartFresh DEF Before
  <2>1. s = <<AskIf("OOO" \in c \/ "multithreaded" \in c, "int_inst_window", Cam, {"rd",
          "wr"}),
             AskIf("OOO" \in c, "fp_inst_window", Cam, {"rd", "wr"}),
             AskIf("OOO" \in c /\ "ROB" \in c, "ROB", SearchPorts(0, Ram), {"rd", "wr"})>>
    BY <1>2, Join21 DEF AsksOf, SchedulerU_asks, SchedulerU_windows, SchedulerU_ROB
  <2>2. /\ DOMAIN s = 1..3
        /\ s[1] = AskIf("OOO" \in c \/ "multithreaded" \in c, "int_inst_window", Cam,
             {"rd", "wr"})
        /\ s[2] = AskIf("OOO" \in c, "fp_inst_window", Cam, {"rd", "wr"})
        /\ s[3] = AskIf("OOO" \in c /\
             "ROB" \in c, "ROB", SearchPorts(0, Ram), {"rd", "wr"})
    BY <2>1
  <2> HIDE DEF s, ip
  <2>3. s[1].of = "int_inst_window" /\ s[1].ports = {"rd", "wr"} /\ s[1].fields = Cam
    BY <1>2, <2>2 DEF Ask, AskIf, NotAsked
  <2>4. s[2].of = "none" /\ s[2].fields = <<>>
    BY <1>2, <2>2 DEF Ask, AskIf, NotAsked
  <2>5. s[3].of = "none" /\ s[3].fields = <<>>
    BY <1>2, <2>2 DEF Ask, AskIf, NotAsked
  <2>6. LeftIs(ip, s, 0, "cache", 1, 1)
    BY <2>0, LeftStart
  <2>7. LeftIs(ip, s, 1, "cache", 0, 1)
    BY <2>6, <2>3, LeftCam
  <2>8. UsesOf("SchedulerU", c)["int_inst_window"] = Use({"read",
          "write"} \union {"search"}, {})
    BY <1>2, JoinDomain, JoinValue, RowDomain, RowValue DEF UsesOf, RW, Buffer, When,
    SchedulerU_uses, Windows, Ordered
  <2>9. Searching(UsesOf("SchedulerU", c)["int_inst_window"], {"rd", "wr"})
    BY <2>8 DEF Use, Searching
  <2>10. Suit(error_checking(Left(ip, s, 1), s[1].ports), UsesOf("SchedulerU", c)[s[1].of])
    BY <2>3, <2>7, <2>9, SuitSearching
  <2>11. \A j, k \in DOMAIN s : s[j].of = s[k].of => j = k \/ s[j].of = "none"
    BY <2>2, <2>3, <2>4, <2>5
  <2>12. \A k \in DOMAIN s : s[k].of # "none" =>
           Suit(error_checking(Left(ip, s, k), s[k].ports), UsesOf("SchedulerU",
             c)[s[k].of])
    BY <2>2, <2>3, <2>4, <2>5, <2>10
  <2> QED BY <2>11, <2>12, SuitedIf DEF s, ip
<1>3. CASE "OOO" \notin c /\ "multithreaded" \notin c
  <2>0. Fresh(ip)
    BY StartFresh DEF Before
  <2>1. s = <<AskIf("OOO" \in c \/ "multithreaded" \in c, "int_inst_window", Cam, {"rd",
          "wr"}),
             AskIf("OOO" \in c, "fp_inst_window", Cam, {"rd", "wr"}),
             AskIf("OOO" \in c /\ "ROB" \in c, "ROB", SearchPorts(0, Ram), {"rd", "wr"})>>
    BY <1>3, Join21 DEF AsksOf, SchedulerU_asks, SchedulerU_windows, SchedulerU_ROB
  <2>2. /\ DOMAIN s = 1..3
        /\ s[1] = AskIf("OOO" \in c \/ "multithreaded" \in c, "int_inst_window", Cam,
             {"rd", "wr"})
        /\ s[2] = AskIf("OOO" \in c, "fp_inst_window", Cam, {"rd", "wr"})
        /\ s[3] = AskIf("OOO" \in c /\
             "ROB" \in c, "ROB", SearchPorts(0, Ram), {"rd", "wr"})
    BY <2>1
  <2> HIDE DEF s, ip
  <2>3. s[1].of = "none" /\ s[1].fields = <<>>
    BY <1>3, <2>2 DEF Ask, AskIf, NotAsked
  <2>4. s[2].of = "none" /\ s[2].fields = <<>>
    BY <1>3, <2>2 DEF Ask, AskIf, NotAsked
  <2>5. s[3].of = "none" /\ s[3].fields = <<>>
    BY <1>3, <2>2 DEF Ask, AskIf, NotAsked
  <2>6. LeftIs(ip, s, 0, "cache", 1, 1)
    BY <2>0, LeftStart
  <2>7. \A j, k \in DOMAIN s : s[j].of = s[k].of => j = k \/ s[j].of = "none"
    BY <2>2, <2>3, <2>4, <2>5
  <2>8. \A k \in DOMAIN s : s[k].of # "none" =>
           Suit(error_checking(Left(ip, s, k), s[k].ports), UsesOf("SchedulerU",
             c)[s[k].of])
    BY <2>2, <2>3, <2>4, <2>5
  <2> QED BY <2>7, <2>8, SuitedIf DEF s, ip
<1> QED BY <1>1, <1>2, <1>3

(* The arrays of LoadStoreU.                                               *)
LEMMA LoadStoreUArrays ==
  ASSUME NEW c PROVE Suited("LoadStoreU", c)
<1> DEFINE s == AsksOf("LoadStoreU", c)
           ip == Before("LoadStoreU")
<1>0. Fresh(ip)
  BY StartFresh DEF Before
<1>1. s = <<Ask("dcache.caches", SearchPorts(1, SetAssoc), {"rw"}),
           Ask("dcache.missb", FullyAssoc, {"rw"}),
           Ask("dcache.ifb", FullyAssoc, {"rw"}),
           Ask("dcache.prefetchb", FullyAssoc, {"rw"}),
           AskIf("writeBack" \in c, "dcache.wbb", FullyAssoc, {"rw"}),
           Ask("LSQ", AsCache(Searched), {"rd", "wr"}),
           AskIf(HasLoadQ(c), "LoadQ", Searched, {"rd", "wr"})>>
  BY Join52 DEF AsksOf, LoadStoreU_asks, LoadStoreU_dcache, LoadStoreU_queues
<1>2. /\ DOMAIN s = 1..7
      /\ s[1] = Ask("dcache.caches", SearchPorts(1, SetAssoc), {"rw"})
      /\ s[2] = Ask("dcache.missb", FullyAssoc, {"rw"})
      /\ s[3] = Ask("dcache.ifb", FullyAssoc, {"rw"})
      /\ s[4] = Ask("dcache.prefetchb", FullyAssoc, {"rw"})
      /\ s[5] = AskIf("writeBack" \in c, "dcache.wbb", FullyAssoc, {"rw"})
      /\ s[6] = Ask("LSQ", AsCache(Searched), {"rd", "wr"})
      /\ s[7] = AskIf(HasLoadQ(c), "LoadQ", Searched, {"rd", "wr"})
  BY <1>1
<1> HIDE DEF s, ip
<1>3. s[1].of = "dcache.caches" /\ s[1].ports = {"rw"} /\
        s[1].fields = SearchPorts(1, SetAssoc)
  BY <1>2 DEF Ask, AskIf, NotAsked
<1>4. s[2].of = "dcache.missb" /\ s[2].ports = {"rw"} /\ s[2].fields = FullyAssoc
  BY <1>2 DEF Ask, AskIf, NotAsked
<1>5. s[3].of = "dcache.ifb" /\ s[3].ports = {"rw"} /\ s[3].fields = FullyAssoc
  BY <1>2 DEF Ask, AskIf, NotAsked
<1>6. s[4].of = "dcache.prefetchb" /\ s[4].ports = {"rw"} /\ s[4].fields = FullyAssoc
  BY <1>2 DEF Ask, AskIf, NotAsked
<1>7. \/ ("writeBack" \in c) /\ s[5].of = "dcache.wbb" /\ s[5].ports = {"rw"} /\
           s[5].fields = FullyAssoc
      \/ ~ ("writeBack" \in c) /\ s[5].of = "none" /\ s[5].fields = <<>>
  BY <1>2 DEF Ask, AskIf, NotAsked
<1>8. s[6].of = "LSQ" /\ s[6].ports = {"rd", "wr"} /\ s[6].fields = AsCache(Searched)
  BY <1>2 DEF Ask, AskIf, NotAsked
<1>9. \/ (HasLoadQ(c)) /\ s[7].of = "LoadQ" /\ s[7].ports = {"rd", "wr"} /\
           s[7].fields = Searched
      \/ ~ (HasLoadQ(c)) /\ s[7].of = "none" /\ s[7].fields = <<>>
  BY <1>2 DEF Ask, AskIf, NotAsked
<1>10. LeftIs(ip, s, 0, "cache", 1, 1)
  BY <1>0, LeftStart
<1>11. LeftIs(ip, s, 1, "cache", 1, 1)
  BY <1>10, <1>3, LeftDCache
<1>12. UsesOf("LoadStoreU", c)["dcache.caches"] = Use({"read", "write"} \union {"tag"},
         {"rw"})
  BY JoinDomain, JoinValue, RowDomain, RowValue DEF UsesOf, RW, Buffer, When,
  LoadStoreU_uses, DCache
<1>13. ReadOnly(UsesOf("LoadStoreU", c)["dcache.caches"], {"rw"}, "cache")
  BY <1>12 DEF Use, ReadOnly
<1>14. Suit(error_checking(Left(ip, s, 1), s[1].ports), UsesOf("LoadStoreU", c)[s[1].of])
  BY <1>3, <1>11, <1>13, SuitReadOnly
<1>15. LeftIs(ip, s, 2, "cache", 0, 1)
  BY <1>11, <1>4, LeftFullyAssoc
<1>16. UsesOf("LoadStoreU", c)["dcache.missb"] = Use({"search", "write"}, {"search"})
  BY JoinDomain, JoinValue, RowDomain, RowValue DEF UsesOf, RW, Buffer, When,
  LoadStoreU_uses, DCache
<1>17. Searching(UsesOf("LoadStoreU", c)["dcache.missb"], {"rw"})
  BY <1>16 DEF Use, Searching
<1>18. Suit(error_checking(Left(ip, s, 2), s[2].ports), UsesOf("LoadStoreU", c)[s[2].of])
  BY <1>4, <1>15, <1>17, SuitSearching
<1>19. LeftIs(ip, s, 3, "cache", 0, 1)
  BY <1>15, <1>5, LeftFullyAssoc
<1>20. UsesOf("LoadStoreU", c)["dcache.ifb"] = Use({"search", "write"}, {"search"})
  BY JoinDomain, JoinValue, RowDomain, RowValue DEF UsesOf, RW, Buffer, When,
  LoadStoreU_uses, DCache
<1>21. Searching(UsesOf("LoadStoreU", c)["dcache.ifb"], {"rw"})
  BY <1>20 DEF Use, Searching
<1>22. Suit(error_checking(Left(ip, s, 3), s[3].ports), UsesOf("LoadStoreU", c)[s[3].of])
  BY <1>5, <1>19, <1>21, SuitSearching
<1>23. LeftIs(ip, s, 4, "cache", 0, 1)
  BY <1>19, <1>6, LeftFullyAssoc
<1>24. UsesOf("LoadStoreU", c)["dcache.prefetchb"] = Use({"search", "write"}, {"search"})
  BY JoinDomain, JoinValue, RowDomain, RowValue DEF UsesOf, RW, Buffer, When,
  LoadStoreU_uses, DCache
<1>25. Searching(UsesOf("LoadStoreU", c)["dcache.prefetchb"], {"rw"})
  BY <1>24 DEF Use, Searching
<1>26. Suit(error_checking(Left(ip, s, 4), s[4].ports), UsesOf("LoadStoreU", c)[s[4].of])
  BY <1>6, <1>23, <1>25, SuitSearching
<1>27. LeftIs(ip, s, 5, "cache", 0, 1)
  BY <1>23, <1>7, LeftFullyAssoc, LeftNothing
<1>28. s[5].of # "none" => UsesOf("LoadStoreU", c)["dcache.wbb"] = Use({"search", "write"},
         {"search"})
  BY <1>7, JoinDomain, JoinValue, RowDomain, RowValue DEF UsesOf, RW, Buffer, When,
  LoadStoreU_uses, DCache
<1>29. s[5].of # "none" => Searching(UsesOf("LoadStoreU", c)["dcache.wbb"], {"rw"})
  BY <1>28 DEF Use, Searching
<1>30. s[5].of # "none" => Suit(error_checking(Left(ip, s, 5), s[5].ports),
         UsesOf("LoadStoreU", c)[s[5].of])
  BY <1>7, <1>27, <1>29, SuitSearching
<1>31. LeftIs(ip, s, 6, "cache", 0, 1)
  BY <1>27, <1>8, LeftQueue
<1>32. UsesOf("LoadStoreU", c)["LSQ"] = Use({"read", "write"} \union {"search"}, {"search"})
  BY JoinDomain, JoinValue, RowDomain, RowValue DEF UsesOf, RW, Buffer, When,
  LoadStoreU_uses, DCache
<1>33. Searching(UsesOf("LoadStoreU", c)["LSQ"], {"rd", "wr"})
  BY <1>32 DEF Use, Searching
<1>34. Suit(error_checking(Left(ip, s, 6), s[6].ports), UsesOf("LoadStoreU", c)[s[6].of])
  BY <1>8, <1>31, <1>33, SuitSearching
<1>35. LeftIs(ip, s, 7, "cache", 0, 1)
  BY <1>31, <1>9, LeftSearched, LeftNothing
<1>36. s[7].of # "none" => UsesOf("LoadStoreU", c)["LoadQ"] = Use({"read",
         "write"} \union {"search"}, {"search"})
  BY <1>9, JoinDomain, JoinValue, RowDomain, RowValue DEF UsesOf, RW, Buffer, When,
  LoadStoreU_uses, DCache
<1>37. s[7].of # "none" => Searching(UsesOf("LoadStoreU", c)["LoadQ"], {"rd", "wr"})
  BY <1>36 DEF Use, Searching
<1>38. s[7].of # "none" => Suit(error_checking(Left(ip, s, 7), s[7].ports),
         UsesOf("LoadStoreU", c)[s[7].of])
  BY <1>9, <1>35, <1>37, SuitSearching
<1>39. \A j, k \in DOMAIN s : s[j].of = s[k].of => j = k \/ s[j].of = "none"
  BY <1>2, <1>3, <1>4, <1>5, <1>6, <1>7, <1>8, <1>9
<1>40. \A k \in DOMAIN s : s[k].of # "none" =>
         Suit(error_checking(Left(ip, s, k), s[k].ports), UsesOf("LoadStoreU", c)[s[k].of])
  BY <1>2, <1>3, <1>4, <1>5, <1>6, <1>7, <1>8, <1>9, <1>14, <1>18, <1>22, <1>26, <1>30,
  <1>34, <1>38
<1> QED BY <1>39, <1>40, SuitedIf DEF s, ip

(* The arrays of MemManU.                                                  *)
LEMMA MemManUArrays ==
  ASSUME NEW c PROVE Suited("MemManU", c)
<1> DEFINE s == AsksOf("MemManU", c)
           ip == Before("MemManU")
<1>0. Fresh(ip)
  BY StartFresh DEF Before
<1>1. s = <<Ask("itlb", Cam, {"wr"}),
           Ask("dtlb", Searched, {"wr"})>>
  BY DEF AsksOf, MemManU_asks
<1>2. /\ DOMAIN s = 1..2
      /\ s[1] = Ask("itlb", Cam, {"wr"})
      /\ s[2] = Ask("dtlb", Searched, {"wr"})
  BY <1>1
<1> HIDE DEF s, ip
<1>3. s[1].of = "itlb" /\ s[1].ports = {"wr"} /\ s[1].fields = Cam
  BY <1>2 DEF Ask, AskIf, NotAsked
<1>4. s[2].of = "dtlb" /\ s[2].ports = {"wr"} /\ s[2].fields = Searched
  BY <1>2 DEF Ask, AskIf, NotAsked
<1>5. LeftIs(ip, s, 0, "cache", 1, 1)
  BY <1>0, LeftStart
<1>6. LeftIs(ip, s, 1, "cache", 0, 1)
  BY <1>5, <1>3, LeftCam
<1>7. UsesOf("MemManU", c)["itlb"] = Use({"search", "write"}, {"search"})
  BY JoinDomain, JoinValue, RowDomain, RowValue DEF UsesOf, RW, Buffer, When, MemManU_uses,
  TLBs
<1>8. Searching(UsesOf("MemManU", c)["itlb"], {"wr"})
  BY <1>7 DEF Use, Searching
<1>9. Suit(error_checking(Left(ip, s, 1), s[1].ports), UsesOf("MemManU", c)[s[1].of])
  BY <1>3, <1>6, <1>8, SuitSearching
<1>10. LeftIs(ip, s, 2, "cache", 0, 1)
  BY <1>6, <1>4, LeftSearched
<1>11. UsesOf("MemManU", c)["dtlb"] = Use({"search", "write"}, {"search"})
  BY JoinDomain, JoinValue, RowDomain, RowValue DEF UsesOf, RW, Buffer, When, MemManU_uses,
  TLBs
<1>12. Searching(UsesOf("MemManU", c)["dtlb"], {"wr"})
  BY <1>11 DEF Use, Searching
<1>13. Suit(error_checking(Left(ip, s, 2), s[2].ports), UsesOf("MemManU", c)[s[2].of])
  BY <1>4, <1>10, <1>12, SuitSearching
<1>14. \A j, k \in DOMAIN s : s[j].of = s[k].of => j = k \/ s[j].of = "none"
  BY <1>2, <1>3, <1>4
<1>15. \A k \in DOMAIN s : s[k].of # "none" =>
         Suit(error_checking(Left(ip, s, k), s[k].ports), UsesOf("MemManU", c)[s[k].of])
  BY <1>2, <1>3, <1>4, <1>9, <1>13
<1> QED BY <1>14, <1>15, SuitedIf DEF s, ip

(* The arrays of RegFU.                                                    *)
LEMMA RegFUArrays ==
  ASSUME NEW c PROVE Suited("RegFU", c)
<1> DEFINE s == AsksOf("RegFU", c)
           ip == Before("RegFU")
<1>0. Fresh(ip)
  BY StartFresh DEF Before
<1>1. s = <<Ask("IRF", Ram, {"rw", "rd", "wr"}),
           Ask("FRF", Ram, {"rw", "rd", "wr"}),
           AskIf("regWindowing" \in c, "RFWIN", Ram, {"rw"})>>
  BY DEF AsksOf, RegFU_asks
<1>2. /\ DOMAIN s = 1..3
      /\ s[1] = Ask("IRF", Ram, {"rw", "rd", "wr"})
      /\ s[2] = Ask("FRF", Ram, {"rw", "rd", "wr"})
      /\ s[3] = AskIf("regWindowing" \in c, "RFWIN", Ram, {"rw"})
  BY <1>1
<1> HIDE DEF s, ip
<1>3. s[1].of = "IRF" /\ s[1].ports = {"rw", "rd", "wr"} /\ s[1].fields = Ram
  BY <1>2 DEF Ask, AskIf, NotAsked
<1>4. s[2].of = "FRF" /\ s[2].ports = {"rw", "rd", "wr"} /\ s[2].fields = Ram
  BY <1>2 DEF Ask, AskIf, NotAsked
<1>5. \/ ("regWindowing" \in c) /\ s[3].of = "RFWIN" /\ s[3].ports = {"rw"} /\
           s[3].fields = Ram
      \/ ~ ("regWindowing" \in c) /\ s[3].of = "none" /\ s[3].fields = <<>>
  BY <1>2 DEF Ask, AskIf, NotAsked
<1>6. LeftIs(ip, s, 0, "cache", 1, 1)
  BY <1>0, LeftStart
<1>7. LeftIs(ip, s, 1, "ram", 1, 1)
  BY <1>6, <1>3, LeftRam
<1>8. UsesOf("RegFU", c)["IRF"] = Use({"read", "write"}, {})
  BY JoinDomain, JoinValue, RowDomain, RowValue DEF UsesOf, RW, Buffer, When, RegFU_uses,
  RegFU_made, RegFiles
<1>9. ReadOnly(UsesOf("RegFU", c)["IRF"], {"rw", "rd", "wr"}, "ram")
  BY <1>8 DEF Use, ReadOnly
<1>10. Suit(error_checking(Left(ip, s, 1), s[1].ports), UsesOf("RegFU", c)[s[1].of])
  BY <1>3, <1>7, <1>9, SuitReadOnly
<1>11. LeftIs(ip, s, 2, "ram", 1, 1)
  BY <1>7, <1>4, LeftRam
<1>12. UsesOf("RegFU", c)["FRF"] = Use({"read", "write"}, {"rd", "wr"})
  BY JoinDomain, JoinValue, RowDomain, RowValue DEF UsesOf, RW, Buffer, When, RegFU_uses,
  RegFU_made, RegFiles
<1>13. ReadOnly(UsesOf("RegFU", c)["FRF"], {"rw", "rd", "wr"}, "ram")
  BY <1>12 DEF Use, ReadOnly
<1>14. Suit(error_checking(Left(ip, s, 2), s[2].ports), UsesOf("RegFU", c)[s[2].of])
  BY <1>4, <1>11, <1>13, SuitReadOnly
<1>15. LeftIs(ip, s, 3, "ram", 1, 1)
  BY <1>11, <1>5, LeftRam, LeftNothing
<1>16. s[3].of # "none" => UsesOf("RegFU", c)["RFWIN"] = Use({"read", "write"}, {})
  BY <1>5, JoinDomain, JoinValue, RowDomain, RowValue DEF UsesOf, RW, Buffer, When,
  RegFU_uses, RegFU_made, RegFiles
<1>17. s[3].of # "none" => ReadOnly(UsesOf("RegFU", c)["RFWIN"], {"rw"}, "ram")
  BY <1>16 DEF Use, ReadOnly
<1>18. s[3].of # "none" => Suit(error_checking(Left(ip, s, 3), s[3].ports), UsesOf("RegFU",
         c)[s[3].of])
  BY <1>5, <1>15, <1>17, SuitReadOnly
<1>19. \A j, k \in DOMAIN s : s[j].of = s[k].of => j = k \/ s[j].of = "none"
  BY <1>2, <1>3, <1>4, <1>5
<1>20. \A k \in DOMAIN s : s[k].of # "none" =>
         Suit(error_checking(Left(ip, s, k), s[k].ports), UsesOf("RegFU", c)[s[k].of])
  BY <1>2, <1>3, <1>4, <1>5, <1>10, <1>14, <1>18
<1> QED BY <1>19, <1>20, SuitedIf DEF s, ip

(* The arrays of SharedCache.                                              *)
LEMMA SharedCacheArrays ==
  ASSUME NEW c PROVE Suited("SharedCache", c)
<1> DEFINE s == AsksOf("SharedCache", c)
           ip == Before("SharedCache")
<1>1. CASE Shadowed(c)
  <2>0. Fresh(ip)
    BY StartFresh DEF Before
  <2>1. s = <<Ask("caches", Cam, {"rw"}),
             AskIf(~ Shadowed(c), "missb", Cam, {"rw"}),
             AskIf(~ Shadowed(c), "ifb", FullyAssoc, {"rw"}),
             AskIf(~ Shadowed(c), "prefetchb", FullyAssoc, {"rw"}),
             AskIf(~ Shadowed(c), "wbb", FullyAssoc, {"rw"})>>
    BY <1>1, Join14 DEF AsksOf, SharedCache_asks, SharedCache_caches, SharedCache_buffers
  <2>2. /\ DOMAIN s = 1..5
        /\ s[1] = Ask("caches", Cam, {"rw"})
        /\ s[2] = AskIf(~ Shadowed(c), "missb", Cam, {"rw"})
        /\ s[3] = AskIf(~ Shadowed(c), "ifb", FullyAssoc, {"rw"})
        /\ s[4] = AskIf(~ Shadowed(c), "prefetchb", FullyAssoc, {"rw"})
        /\ s[5] = AskIf(~ Shadowed(c), "wbb", FullyAssoc, {"rw"})
    BY <2>1
  <2> HIDE DEF s, ip
  <2>3. s[1].of = "caches" /\ s[1].ports = {"rw"} /\ s[1].fields = Cam
    BY <1>1, <2>2 DEF Ask, AskIf, NotAsked
  <2>4. s[2].of = "none" /\ s[2].fields = <<>>
    BY <1>1, <2>2 DEF Ask, AskIf, NotAsked
  <2>5. s[3].of = "none" /\ s[3].fields = <<>>
    BY <1>1, <2>2 DEF Ask, AskIf, NotAsked
  <2>6. s[4].of = "none" /\ s[4].fields = <<>>
    BY <1>1, <2>2 DEF Ask, AskIf, NotAsked
  <2>7. s[5].of = "none" /\ s[5].fields = <<>>
    BY <1>1, <2>2 DEF Ask, AskIf, NotAsked
  <2>8. LeftIs(ip, s, 0, "cache", 1, 1)
    BY <2>0, LeftStart
  <2>9. LeftIs(ip, s, 1, "cache", 0, 1)
    BY <2>8, <2>3, LeftCam
  <2>10. UsesOf("SharedCache", c)["caches"] = Use({"search", "write"}, {"search"})
    BY <1>1, JoinDomain, JoinValue, RowDomain, RowValue DEF UsesOf, RW, Buffer, When,
    SharedCache_uses, SharedBuffers
  <2>11. Searching(UsesOf("SharedCache", c)["caches"], {"rw"})
    BY <2>10 DEF Use, Searching
  <2>12. Suit(error_checking(Left(ip, s, 1), s[1].ports), UsesOf("SharedCache", c)[s[1].of])
    BY <2>3, <2>9, <2>11, SuitSearching
  <2>13. \A j, k \in DOMAIN s : s[j].of = s[k].of => j = k \/ s[j].of = "none"
    BY <2>2, <2>3, <2>4, <2>5, <2>6, <2>7
  <2>14. \A k \in DOMAIN s : s[k].of # "none" =>
           Suit(error_checking(Left(ip, s, k), s[k].ports), UsesOf("SharedCache",
             c)[s[k].of])
    BY <2>2, <2>3, <2>4, <2>5, <2>6, <2>7, <2>12
  <2> QED BY <2>13, <2>14, SuitedIf DEF s, ip
<1>2. CASE ~ Shadowed(c)
  <2>0. Fresh(ip)
    BY StartFresh DEF Before
  <2>1. s = <<Ask("caches", SearchPorts(0, SetAssoc), {"rw"}),
             AskIf(~ Shadowed(c), "missb", Cam, {"rw"}),
             AskIf(~ Shadowed(c), "ifb", FullyAssoc, {"rw"}),
             AskIf(~ Shadowed(c), "prefetchb", FullyAssoc, {"rw"}),
             AskIf(~ Shadowed(c), "wbb", FullyAssoc, {"rw"})>>
    BY <1>2, Join14 DEF AsksOf, SharedCache_asks, SharedCache_caches, SharedCache_buffers
  <2>2. /\ DOMAIN s = 1..5
        /\ s[1] = Ask("caches", SearchPorts(0, SetAssoc), {"rw"})
        /\ s[2] = AskIf(~ Shadowed(c), "missb", Cam, {"rw"})
        /\ s[3] = AskIf(~ Shadowed(c), "ifb", FullyAssoc, {"rw"})
        /\ s[4] = AskIf(~ Shadowed(c), "prefetchb", FullyAssoc, {"rw"})
        /\ s[5] = AskIf(~ Shadowed(c), "wbb", FullyAssoc, {"rw"})
    BY <2>1
  <2> HIDE DEF s, ip
  <2>3. s[1].of = "caches" /\ s[1].ports = {"rw"} /\ s[1].fields = SearchPorts(0, SetAssoc)
    BY <1>2, <2>2 DEF Ask, AskIf, NotAsked
  <2>4. s[2].of = "missb" /\ s[2].ports = {"rw"} /\ s[2].fields = Cam
    BY <1>2, <2>2 DEF Ask, AskIf, NotAsked
  <2>5. s[3].of = "ifb" /\ s[3].ports = {"rw"} /\ s[3].fields = FullyAssoc
    BY <1>2, <2>2 DEF Ask, AskIf, NotAsked
  <2>6. s[4].of = "prefetchb" /\ s[4].ports = {"rw"} /\ s[4].fields = FullyAssoc
    BY <1>2, <2>2 DEF Ask, AskIf, NotAsked
  <2>7. s[5].of = "wbb" /\ s[5].ports = {"rw"} /\ s[5].fields = FullyAssoc
    BY <1>2, <2>2 DEF Ask, AskIf, NotAsked
  <2>8. LeftIs(ip, s, 0, "cache", 1, 1)
    BY <2>0, LeftStart
  <2>9. LeftIs(ip, s, 1, "cache", 1, 0)
    BY <2>8, <2>3, LeftBanks
  <2>10. UsesOf("SharedCache", c)["caches"] = Use({"read", "write"} \union {"tag"}, {"rw"})
    BY <1>2, JoinDomain, JoinValue, RowDomain, RowValue DEF UsesOf, RW, Buffer, When,
    SharedCache_uses, SharedBuffers
  <2>11. ReadOnly(UsesOf("SharedCache", c)["caches"], {"rw"}, "cache")
    BY <2>10 DEF Use, ReadOnly
  <2>12. Suit(error_checking(Left(ip, s, 1), s[1].ports), UsesOf("SharedCache", c)[s[1].of])
    BY <2>3, <2>9, <2>11, SuitReadOnly
  <2>13. LeftIs(ip, s, 2, "cache", 0, 1)
    BY <2>9, <2>4, LeftCam
  <2>14. UsesOf("SharedCache", c)["missb"] = Use({"search", "write"}, {"search"})
    BY <1>2, JoinDomain, JoinValue, RowDomain, RowValue DEF UsesOf, RW, Buffer, When,
    SharedCache_uses, SharedBuffers
  <2>15. Searching(UsesOf("SharedCache", c)["missb"], {"rw"})
    BY <2>14 DEF Use, Searching
  <2>16. Suit(error_checking(Left(ip, s, 2), s[2].ports), UsesOf("SharedCache", c)[s[2].of])
    BY <2>4, <2>13, <2>15, SuitSearching
  <2>17. LeftIs(ip, s, 3, "cache", 0, 1)
    BY <2>13, <2>5, LeftFullyAssoc
  <2>18. UsesOf("SharedCache", c)["ifb"] = Use({"search", "write"}, {"search"})
    BY <1>2, JoinDomain, JoinValue, RowDomain, RowValue DEF UsesOf, RW, Buffer, When,
    SharedCache_uses, SharedBuffers
  <2>19. Searching(UsesOf("SharedCache", c)["ifb"], {"rw"})
    BY <2>18 DEF Use, Searching
  <2>20. Suit(error_checking(Left(ip, s, 3), s[3].ports), UsesOf("SharedCache", c)[s[3].of])
    BY <2>5, <2>17, <2>19, SuitSearching
  <2>21. LeftIs(ip, s, 4, "cache", 0, 1)
    BY <2>17, <2>6, LeftFullyAssoc
  <2>22. UsesOf("SharedCache", c)["prefetchb"] = Use({"search", "write"}, {"search"})
    BY <1>2, JoinDomain, JoinValue, RowDomain, RowValue DEF UsesOf, RW, Buffer, When,
    SharedCache_uses, SharedBuffers
  <2>23. Searching(UsesOf("SharedCache", c)["prefetchb"], {"rw"})
    BY <2>22 DEF Use, Searching
  <2>24. Suit(error_checking(Left(ip, s, 4), s[4].ports), UsesOf("SharedCache", c)[s[4].of])
    BY <2>6, <2>21, <2>23, SuitSearching
  <2>25. LeftIs(ip, s, 5, "cache", 0, 1)
    BY <2>21, <2>7, LeftFullyAssoc
  <2>26. UsesOf("SharedCache", c)["wbb"] = Use({"search", "write"}, {"search"})
    BY <1>2, JoinDomain, JoinValue, RowDomain, RowValue DEF UsesOf, RW, Buffer, When,
    SharedCache_uses, SharedBuffers
  <2>27. Searching(UsesOf("SharedCache", c)["wbb"], {"rw"})
    BY <2>26 DEF Use, Searching
  <2>28. Suit(error_checking(Left(ip, s, 5), s[5].ports), UsesOf("SharedCache", c)[s[5].of])
    BY <2>7, <2>25, <2>27, SuitSearching
  <2>29. \A j, k \in DOMAIN s : s[j].of = s[k].of => j = k \/ s[j].of = "none"
    BY <2>2, <2>3, <2>4, <2>5, <2>6, <2>7
  <2>30. \A k \in DOMAIN s : s[k].of # "none" =>
           Suit(error_checking(Left(ip, s, k), s[k].ports), UsesOf("SharedCache",
             c)[s[k].of])
    BY <2>2, <2>3, <2>4, <2>5, <2>6, <2>7, <2>12, <2>16, <2>20, <2>24, <2>28
  <2> QED BY <2>29, <2>30, SuitedIf DEF s, ip
<1> QED BY <1>1, <1>2

(* The arrays of MCFrontEnd.                                               *)
LEMMA MCFrontEndArrays ==
  ASSUME NEW c PROVE Suited("MCFrontEnd", c)
<1> DEFINE s == AsksOf("MCFrontEnd", c)
           ip == Before("MCFrontEnd")
<1>0. Fresh(ip)
  BY StartFresh DEF Before
<1>1. s = <<Ask("frontendBuffer", Cam, {"rd", "wr"}),
           Ask("readBuffer", Ram, {"rd", "wr"}),
           Ask("writeBuffer", Indexed, {"rd", "wr"})>>
  BY DEF AsksOf, MCFrontEnd_asks
<1>2. /\ DOMAIN s = 1..3
      /\ s[1] = Ask("frontendBuffer", Cam, {"rd", "wr"})
      /\ s[2] = Ask("readBuffer", Ram, {"rd", "wr"})
      /\ s[3] = Ask("writeBuffer", Indexed, {"rd", "wr"})
  BY <1>1
<1> HIDE DEF s, ip
<1>3. s[1].of = "frontendBuffer" /\ s[1].ports = {"rd", "wr"} /\ s[1].fields = Cam
  BY <1>2 DEF Ask, AskIf, NotAsked
<1>4. s[2].of = "readBuffer" /\ s[2].ports = {"rd", "wr"} /\ s[2].fields = Ram
  BY <1>2 DEF Ask, AskIf, NotAsked
<1>5. s[3].of = "writeBuffer" /\ s[3].ports = {"rd", "wr"} /\ s[3].fields = Indexed
  BY <1>2 DEF Ask, AskIf, NotAsked
<1>6. LeftIs(ip, s, 0, "cache", 1, 1)
  BY <1>0, LeftStart
<1>7. LeftIs(ip, s, 1, "cache", 0, 1)
  BY <1>6, <1>3, LeftCam
<1>8. UsesOf("MCFrontEnd", c)["frontendBuffer"] = Use({"read", "write"} \union {"search"},
        {"search", "wr"})
  BY JoinDomain, JoinValue, RowDomain, RowValue DEF UsesOf, RW, Buffer, When,
  MCFrontEnd_uses
<1>9. Searching(UsesOf("MCFrontEnd", c)["frontendBuffer"], {"rd", "wr"})
  BY <1>8 DEF Use, Searching
<1>10. Suit(error_checking(Left(ip, s, 1), s[1].ports), UsesOf("MCFrontEnd", c)[s[1].of])
  BY <1>3, <1>7, <1>9, SuitSearching
<1>11. LeftIs(ip, s, 2, "ram", 1, 1)
  BY <1>7, <1>4, LeftRam
<1>12. UsesOf("MCFrontEnd", c)["readBuffer"] = Use({"read", "write"}, {"rd", "wr"})
  BY JoinDomain, JoinValue, RowDomain, RowValue DEF UsesOf, RW, Buffer, When,
  MCFrontEnd_uses
<1>13. ReadOnly(UsesOf("MCFrontEnd", c)["readBuffer"], {"rd", "wr"}, "ram")
  BY <1>12 DEF Use, ReadOnly
<1>14. Suit(error_checking(Left(ip, s, 2), s[2].ports), UsesOf("MCFrontEnd", c)[s[2].of])
  BY <1>4, <1>11, <1>13, SuitReadOnly
<1>15. LeftIs(ip, s, 3, "ram", 1, 1)
  BY <1>11, <1>5, LeftAssoc
<1>16. UsesOf("MCFrontEnd", c)["writeBuffer"] = Use({"read", "write"}, {"rd", "wr"})
  BY JoinDomain, JoinValue, RowDomain, RowValue DEF UsesOf, RW, Buffer, When,
  MCFrontEnd_uses
<1>17. ReadOnly(UsesOf("MCFrontEnd", c)["writeBuffer"], {"rd", "wr"}, "ram")
  BY <1>16 DEF Use, ReadOnly
<1>18. Suit(error_checking(Left(ip, s, 3), s[3].ports), UsesOf("MCFrontEnd", c)[s[3].of])
  BY <1>5, <1>15, <1>17, SuitReadOnly
<1>19. \A j, k \in DOMAIN s : s[j].of = s[k].of => j = k \/ s[j].of = "none"
  BY <1>2, <1>3, <1>4, <1>5
<1>20. \A k \in DOMAIN s : s[k].of # "none" =>
         Suit(error_checking(Left(ip, s, k), s[k].ports), UsesOf("MCFrontEnd", c)[s[k].of])
  BY <1>2, <1>3, <1>4, <1>5, <1>10, <1>14, <1>18
<1> QED BY <1>19, <1>20, SuitedIf DEF s, ip

-----------------------------------------------------------------------------
(* The life itself, call by call.                                          *)

(* All that is known of a class under flags it may have.                   *)
Known(u, c) ==
  /\ Sound(u, c) /\ Suited(u, c) /\ Pairs(Table(u, c).charge)
  /\ \A t \in BOOLEAN : Pairs(Table(u, c).sum[t])

(* What the flags of three classes cannot be.                              *)
LEMMA FlagsOf ==
  /\ \A c \in Configurations("RENAMINGU") : "OOO" \in c
  /\ \A c \in Configurations("FunctionalUnit") : c \intersect FuTypes # {}
  /\ \A c \in Configurations("SharedCache") : "SBT" \in c => "ST" \notin c
<1>1. ASSUME NEW c \in Configurations("RENAMINGU") PROVE "OOO" \in c
  <2>1. PICK raw \in SUBSET Varied("RENAMINGU") :
           Possible("RENAMINGU", raw) /\
             c = CoreDynParam(raw) \intersect Varied("RENAMINGU")
    BY DEF Configurations
  <2>2. "OOO" \in raw
    BY <2>1 DEF Possible
  <2>3. "OOO" \in CoreDynParam(raw)
    BY <2>2 DEF CoreDynParam
  <2>4. "OOO" \in Varied("RENAMINGU")
    BY DEF Varied
  <2> QED BY <2>1, <2>3, <2>4
<1>2. ASSUME NEW c \in Configurations("FunctionalUnit") PROVE c \intersect FuTypes # {}
  BY DEF Configurations
<1>3. ASSUME NEW c \in Configurations("SharedCache"), "SBT" \in c PROVE "ST" \notin c
  <2> DEFINE A == {{l, d} : l \in {"L2", "L3"}, d \in {"SBT", "NonDir"}}
             B == {{l, d} : l \in {"L1Directory", "L2Directory"}, d \in {"ST", "DC", "SBT"}}
  <2>1. Configurations("SharedCache") = A \union B
    BY DEF Configurations
  <2>2. CASE c \in A
    <3>1. PICK l \in {"L2", "L3"}, d \in {"SBT", "NonDir"} : c = {l, d}
      BY <2>2
    <3> QED BY <1>3, <3>1
  <2>3. CASE c \in B
    <3>1. PICK l \in {"L1Directory", "L2Directory"}, d \in {"ST", "DC", "SBT"} : c = {l, d}
      BY <2>3
    <3> QED BY <1>3, <3>1
  <2> QED BY <2>1, <2>2, <2>3
<1> QED BY <1>1, <1>2, <1>3

(* The figures and the parts of pairs.                                     *)
LEMMA PairsAre ==
  ASSUME NEW S, Pairs(S)
  PROVE  /\ \A f : f \in FiguresOf(S) <=> \E p : <<f, p>> \in S
         /\ \A p : p \in PartsOf(S) <=> \E f : <<f, p>> \in S
<1>1. \A x \in S : x = <<x[1], x[2]>>
  BY DEF Pairs
<1>2. \A f, p : <<f, p>> \in S => f \in FiguresOf(S) /\ p \in PartsOf(S)
  <2> TAKE f, p
  <2>1. <<f, p>>[1] = f /\ <<f, p>>[2] = p
    OBVIOUS
  <2> QED BY <2>1 DEF FiguresOf, PartsOf
<1>3. \A f \in FiguresOf(S) : \E p : <<f, p>> \in S
  <2> TAKE f \in FiguresOf(S)
  <2>1. PICK x \in S : f = x[1]
    BY DEF FiguresOf
  <2> QED BY <1>1, <2>1
<1>4. \A p \in PartsOf(S) : \E f : <<f, p>> \in S
  <2> TAKE p \in PartsOf(S)
  <2>1. PICK x \in S : p = x[2]
    BY DEF PartsOf
  <2> QED BY <1>1, <2>1
<1> QED BY <1>2, <1>3, <1>4

(* Classes that ask for no arrays.                                         *)
LEMMA NoArrays ==
  ASSUME NEW c,
         NEW u \in {"FunctionalUnit", "EXECU", "Core", "MemoryController", "MCBackend",
           "MCPHY",
                    "NoC", "NIUController", "PCIeController", "FlashController",
                      "inst_decoder"}
  PROVE  Suited(u, c)
<1>1. AsksOf(u, c) = << >>
  BY DEF AsksOf
<1>2. DOMAIN AsksOf(u, c) = {}
  BY <1>1
<1>3. DOMAIN ArraysOf(u, c) = {}
  BY <1>2 DEF ArraysOf
<1> QED BY <1>3 DEF Suited

(* What the lemmas on each class say together.                             *)
LEMMA AllKnown ==
  ASSUME NEW u \in Classes, NEW c \in Configurations(u)
  PROVE  Known(u, c)
<1>1. Pairs(Table(u, c).charge) /\ \A t \in BOOLEAN : Pairs(Table(u, c).sum[t])
  <2>1. CASE u = "InstFetchU"
    BY <2>1, InstFetchUPairs
  <2>2. CASE u = "BranchPredictor"
    BY <2>2, BranchPredictorPairs
  <2>3. CASE u = "RENAMINGU"
    BY <2>3, RENAMINGUPairs
  <2>4. CASE u = "SchedulerU"
    BY <2>4, SchedulerUPairs
  <2>5. CASE u = "LoadStoreU"
    BY <2>5, LoadStoreUPairs
  <2>6. CASE u = "MemManU"
    BY <2>6, MemManUPairs
  <2>7. CASE u = "RegFU"
    BY <2>7, RegFUPairs
  <2>8. CASE u = "FunctionalUnit"
    BY <2>8, FunctionalUnitPairs
  <2>9. CASE u = "EXECU"
    BY <2>9, EXECUPairs
  <2>10. CASE u = "Core"
    BY <2>10, CorePairs
  <2>11. CASE u = "SharedCache"
    BY <2>11, SharedCachePairs
  <2>12. CASE u = "MemoryController"
    BY <2>12, MemoryControllerPairs
  <2>13. CASE u = "MCFrontEnd"
    BY <2>13, MCFrontEndPairs
  <2>14. CASE u = "MCBackend"
    BY <2>14, MCBackendPairs
  <2>15. CASE u = "MCPHY"
    BY <2>15, MCPHYPairs
  <2>16. CASE u = "NoC"
    BY <2>16, NoCPairs
  <2>17. CASE u = "NIUController"
    BY <2>17, NIUControllerPairs
  <2>18. CASE u = "PCIeController"
    BY <2>18, PCIeControllerPairs
  <2>19. CASE u = "FlashController"
    BY <2>19, FlashControllerPairs
  <2>20. CASE u = "inst_decoder"
    BY <2>20, inst_decoderPairs
  <2> QED BY <2>1, <2>2, <2>3, <2>4, <2>5, <2>6, <2>7, <2>8, <2>9, <2>10, <2>11, <2>12,
             <2>13, <2>14, <2>15, <2>16, <2>17, <2>18, <2>19, <2>20
         DEF Classes, Core_classes, Io_classes, Mc_classes
<1>2. Sound(u, c)
  <2>1. CASE u = "InstFetchU"
    BY <2>1, InstFetchUSound
  <2>2. CASE u = "BranchPredictor"
    BY <2>2, BranchPredictorSound
  <2>3. CASE u = "RENAMINGU"
    BY <2>3, RENAMINGUSound, FlagsOf
  <2>4. CASE u = "SchedulerU"
    BY <2>4, SchedulerUSound
  <2>5. CASE u = "LoadStoreU"
    BY <2>5, LoadStoreUSound
  <2>6. CASE u = "MemManU"
    BY <2>6, MemManUSound
  <2>7. CASE u = "RegFU"
    BY <2>7, RegFUSound
  <2>8. CASE u = "FunctionalUnit"
    BY <2>8, FunctionalUnitSound, FlagsOf
  <2>9. CASE u = "EXECU"
    BY <2>9, EXECUSound
  <2>10. CASE u = "Core"
    BY <2>10, CoreSound
  <2>11. CASE u = "SharedCache"
    BY <2>11, SharedCacheSound, FlagsOf
  <2>12. CASE u = "MemoryController"
    BY <2>12, MemoryControllerSound
  <2>13. CASE u = "MCFrontEnd"
    BY <2>13, MCFrontEndSound
  <2>14. CASE u = "MCBackend"
    BY <2>14, MCBackendSound
  <2>15. CASE u = "MCPHY"
    BY <2>15, MCPHYSound
  <2>16. CASE u = "NoC"
    BY <2>16, NoCSound
  <2>17. CASE u = "NIUController"
    BY <2>17, NIUControllerSound
  <2>18. CASE u = "PCIeController"
    BY <2>18, PCIeControllerSound
  <2>19. CASE u = "FlashController"
    BY <2>19, FlashControllerSound
  <2>20. CASE u = "inst_decoder"
    BY <2>20, inst_decoderSound
  <2> QED BY <2>1, <2>2, <2>3, <2>4, <2>5, <2>6, <2>7, <2>8, <2>9, <2>10, <2>11, <2>12,
             <2>13, <2>14, <2>15, <2>16, <2>17, <2>18, <2>19, <2>20
         DEF Classes, Core_classes, Io_classes, Mc_classes
<1>3. Suited(u, c)
  <2>1. CASE u = "InstFetchU"
    BY <2>1, InstFetchUArrays, FlagsOf
  <2>2. CASE u = "BranchPredictor"
    BY <2>2, BranchPredictorArrays, FlagsOf
  <2>3. CASE u = "RENAMINGU"
    BY <2>3, RENAMINGUArrays, FlagsOf
  <2>4. CASE u = "SchedulerU"
    BY <2>4, SchedulerUArrays, FlagsOf
  <2>5. CASE u = "LoadStoreU"
    BY <2>5, LoadStoreUArrays, FlagsOf
  <2>6. CASE u = "MemManU"
    BY <2>6, MemManUArrays, FlagsOf
  <2>7. CASE u = "RegFU"
    BY <2>7, RegFUArrays, FlagsOf
  <2>8. CASE u = "SharedCache"
    BY <2>8, SharedCacheArrays, FlagsOf
  <2>9. CASE u = "MCFrontEnd"
    BY <2>9, MCFrontEndArrays, FlagsOf
  <2>10. CASE u \notin {"InstFetchU", "BranchPredictor", "RENAMINGU", "SchedulerU",
           "LoadStoreU", "MemManU", "RegFU", "SharedCache", "MCFrontEnd"}
    BY <2>10, NoArrays DEF Classes, Core_classes, Io_classes, Mc_classes
  <2> QED BY <2>1, <2>2, <2>3, <2>4, <2>5, <2>6, <2>7, <2>8, <2>9, <2>10
<1> QED BY <1>1, <1>2, <1>3 DEF Known

(* And for the unit that is there.                                         *)
LEMMA AllCounted ==
  ASSUME unit \in Classes, cfg \in Configurations(unit)
  PROVE  Counts
<1>1. CASE unit = "InstFetchU"
  BY <1>1, InstFetchUCounts
<1>2. CASE unit = "BranchPredictor"
  BY <1>2, BranchPredictorCounts
<1>3. CASE unit = "RENAMINGU"
  BY <1>3, RENAMINGUCounts, FlagsOf
<1>4. CASE unit = "SchedulerU"
  BY <1>4, SchedulerUCounts
<1>5. CASE unit = "LoadStoreU"
  BY <1>5, LoadStoreUCounts
<1>6. CASE unit = "MemManU"
  BY <1>6, MemManUCounts
<1>7. CASE unit = "RegFU"
  BY <1>7, RegFUCounts
<1>8. CASE unit = "FunctionalUnit"
  BY <1>8, FunctionalUnitCounts
<1>9. CASE unit = "EXECU"
  BY <1>9, EXECUCounts
<1>10. CASE unit = "Core"
  BY <1>10, CoreCounts
<1>11. CASE unit = "SharedCache"
  BY <1>11, SharedCacheCounts, FlagsOf
<1>12. CASE unit = "MemoryController"
  BY <1>12, MemoryControllerCounts
<1>13. CASE unit = "MCFrontEnd"
  BY <1>13, MCFrontEndCounts
<1>14. CASE unit = "MCBackend"
  BY <1>14, MCBackendCounts
<1>15. CASE unit = "MCPHY"
  BY <1>15, MCPHYCounts
<1>16. CASE unit = "NoC"
  BY <1>16, NoCCounts
<1>17. CASE unit = "NIUController"
  BY <1>17, NIUControllerCounts
<1>18. CASE unit = "PCIeController"
  BY <1>18, PCIeControllerCounts
<1>19. CASE unit = "FlashController"
  BY <1>19, FlashControllerCounts
<1>20. CASE unit = "inst_decoder"
  BY <1>20, inst_decoderCounts
<1> QED BY <1>1, <1>2, <1>3, <1>4, <1>5, <1>6, <1>7, <1>8, <1>9, <1>10, <1>11, <1>12,
           <1>13, <1>14, <1>15, <1>16, <1>17, <1>18, <1>19, <1>20
       DEF Classes, Core_classes, Io_classes, Mc_classes

(* The only heights a bypass wire crosses that nobody has set.             *)
LEMMA HeightsCrossed ==
  ASSUME NEW c
  PROVE  EXECU_crossed(c) \ EXECU_known(c) \subseteq
           When("OOO" \notin c /\ "multithreaded" \notin c, {"Iw_height"})
           \union When("OOO" \in c /\ "ROB" \notin c, {"ROB_height"})
<1>1. CASE "OOO" \in c
  BY <1>1 DEF EXECU_crossed, EXECU_crossed_ooo, EXECU_known, Windowless, SchedulerU_heights,
              ExecUnits, When
<1>2. CASE "OOO" \notin c
  BY <1>2 DEF EXECU_crossed, EXECU_crossed_inorder, EXECU_known, Windowless,
              SchedulerU_heights, ExecUnits, When
<1> QED BY <1>1, <1>2

-----------------------------------------------------------------------------

(* The figures of a call are its own.                                      *)
Mine(t) ==
  \A x \in dyn[t] : x[3] = IF x[2] \in T.fixed THEN "construct"
                           ELSE IF t \/ x[2] = "homenode" THEN "peak" ELSE "run"

(* What a call leaves in the figures.                                      *)
Charged(t) == Spread(dyn[t], T.charge) /\ leak[t] = T.sum[t] /\ Mine(t)

(* What holds of a unit from its construction on.                          *)
Built ==
  /\ unit \in Classes /\ cfg \in Configurations(unit) /\ arrays = ArraysOf(unit, cfg)
  /\ HeightsKnown /\ absent = {} /\ lacking = {}
  /\ DOMAIN dyn = BOOLEAN /\ DOMAIN leak = BOOLEAN

(* All its parts are there.                                                *)
Alive == live = Parts

(* The statistics before the peak call and after it.                       *)
NoStats == DOMAIN stats = {"peak", "run"} /\ stats["peak"] = {} /\ stats["run"] = {}
PeakStats == DOMAIN stats = {"peak", "run"} /\ stats["peak"] = T.peak /\ stats["run"] = {}

(* What holds when each call comes.                                        *)
AtPeak    == Alive /\ NoStats /\ dyn[TRUE] = {} /\ dyn[FALSE] = {}
AtRun     == Alive /\ PeakStats /\ saved = T.saved /\ Charged(TRUE) /\ dyn[FALSE] = {}
AtDisplay == Alive /\ Charged(TRUE) /\ Charged(FALSE)
AtDestroy == Alive /\ Charged(TRUE) /\ Charged(FALSE) /\ printed = T.shown
AtEnd     == live = {} /\ Charged(TRUE) /\ Charged(FALSE) /\ printed = T.shown

(* The inductive invariant of the life of a unit.                          *)
Life ==
  /\ next \in 1..6
  /\ next = 1 => InitUnit
  /\ next # 1 => Built
  /\ next = 2 => AtPeak
  /\ next = 3 => AtRun
  /\ next = 4 => AtDisplay
  /\ next = 5 => AtDestroy
  /\ next = 6 => AtEnd

(* Which call comes at which position.                                     *)
LEMMA CallIs ==
  ASSUME next \in 1..6
  PROVE  /\ Call = "construct" <=> next = 1
         /\ Call = "peak" <=> next = 2
         /\ Call = "run" <=> next = 3
         /\ Call = "display" <=> next = 4
         /\ Call = "destroy" <=> next = 5
         /\ Call = "over" <=> next = 6
  BY DEF Call, Calls

(* CACTI accepts the arrays of every class under every flags.              *)
LEMMA ConstructLife ==
  ASSUME Life, NEW u \in Classes, NEW c \in Configurations(u), Construct(u, c)
  PROVE  Life'
<1>1. next = 1 /\ InitUnit
  BY CallIs DEF Life, Construct
<1>2. unit' = u /\ cfg' = c /\ arrays' = ArraysOf(u, c)
  BY DEF Construct
<1>3. \A a \in DOMAIN arrays' : ~ arrays'[a].refused
  BY <1>2, AllKnown DEF Known, Suited, Suit
<1>4. next' = 2
  BY <1>1, <1>3 DEF Construct
<1>5. live' = Parts'
  BY <1>2 DEF Construct, Parts, T
<1>6. HeightsKnown'
  <2>1. unset' = IF u = "EXECU" THEN EXECU_crossed(c) \ EXECU_known(c) ELSE {}
    BY DEF Construct
  <2> QED BY <1>2, <2>1, HeightsCrossed DEF HeightsKnown
<1>7. /\ absent' = {} /\ lacking' = {} /\ NoStats'
      /\ DOMAIN dyn' = BOOLEAN /\ DOMAIN leak' = BOOLEAN /\ dyn'[TRUE] = {} /\
           dyn'[FALSE] = {}
  BY <1>1 DEF InitUnit, Construct, NoStats
<1>8. Built'
  BY <1>2, <1>6, <1>7 DEF Built
<1>9. AtPeak'
  BY <1>5, <1>7 DEF AtPeak, Alive
<1> QED BY <1>4, <1>8, <1>9 DEF Life

(* computeEnergy() finds what it uses, and its arrays have what it takes   *)
(* from them.                                                              *)
LEMMA NothingMissed ==
  ASSUME Built, Alive, NEW t \in BOOLEAN, NEW set,
         \A p : p \in Union(set) => p \in T.peak \/ p \in DOMAIN T.run
  PROVE  /\ (Union(set) \union PartsOf(T.charge) \union PartsOf(T.sum[t])) \ live = {}
         /\ {ax \in (DOMAIN arrays) \X Resources :
               ax[2] \in Lacking(arrays[ax[1]], UsesOf(unit, cfg)[ax[1]], t)} = {}
<1>1. Known(unit, cfg)
  BY AllKnown DEF Built
<1>2. Present(unit, cfg) /\ Pairs(T.charge) /\ Pairs(T.sum[t])
  BY <1>1 DEF Known, Sound, T
<1>3. /\ \A p : p \in T.peak \/ p \in DOMAIN T.run => p \in Parts
      /\ \A f, p : <<f, p>> \in T.charge => p \in Parts
      /\ \A f, p : <<f, p>> \in T.sum[TRUE] => p \in Parts
      /\ \A f, p : <<f, p>> \in T.sum[FALSE] => p \in Parts
  <2> DEFINE r == Table(unit, cfg)
             m == Members(unit, cfg)
  <2>1. Parts = r.made \union m /\ T = r
    BY DEF Parts, T
  <2>2. /\ \A p : p \in r.peak \/ p \in DOMAIN r.run => p \in r.made \/ p \in m
        /\ \A f, p : <<f, p>> \in r.charge => p \in r.made \/ p \in m
        /\ \A f, p : <<f, p>> \in r.sum[TRUE] => p \in r.made \/ p \in m
        /\ \A f, p : <<f, p>> \in r.sum[FALSE] => p \in r.made \/ p \in m
    BY <1>2, Zenon DEF Present
  <2> HIDE DEF r, m
  <2> QED BY <2>1, <2>2
<1>4. /\ \A p : p \in PartsOf(T.charge) => p \in Parts
      /\ \A p : p \in PartsOf(T.sum[t]) => p \in Parts
  <2> DEFINE ch == T.charge
             sm == T.sum[t]
  <2>1. \A f, p : <<f, p>> \in sm => p \in Parts
    <3>1. t = TRUE \/ t = FALSE
      OBVIOUS
    <3>2. CASE t = TRUE
      BY <1>3, <3>2
    <3>3. CASE t = FALSE
      BY <1>3, <3>3
    <3> QED BY <3>1, <3>2, <3>3
  <2>2. \A f, p : <<f, p>> \in ch => p \in Parts
    BY <1>3
  <2>3. Pairs(ch) /\ Pairs(sm)
    BY <1>2
  <2> HIDE DEF ch, sm
  <2>4. /\ \A p : p \in PartsOf(ch) => p \in Parts
        /\ \A p : p \in PartsOf(sm) => p \in Parts
    BY <2>1, <2>2, <2>3, PairsAre
  <2> QED BY <2>4 DEF ch, sm
<1>5. \A p : p \in Union(set) => p \in Parts
  BY <1>3
<1>6. \A a \in DOMAIN arrays : Lacking(arrays[a], UsesOf(unit, cfg)[a], t) = {}
  BY <1>1 DEF Known, Suited, Suit, Built
<1> QED BY <1>3, <1>4, <1>5, <1>6 DEF Alive

(* After the peak call its own statistics are all there are.               *)
LEMMA PeakLife ==
  ASSUME Life, ComputePeak
  PROVE  Life'
<1> DEFINE set == [k \in DOMAIN stats |-> IF k = "peak" THEN stats[k] \union T.peak
                                          ELSE stats[k] \ T.peak]
           o == [fp \in T.charge |-> IF {fp[1], fp[2]} \intersect {} # {} THEN "none"
                                     ELSE Origin(fp[2], set)]
<1>1. Call = "peak" /\ next = 2
  BY CallIs DEF ComputePeak, ComputeEnergy, Life
<1>2. Built /\ Alive /\ NoStats /\ dyn[FALSE] = {}
  <2>1. Built /\ AtPeak
    BY <1>1 DEF Life
  <2> QED BY <2>1 DEF AtPeak
<1>3. /\ stats' = set
      /\ dyn' = [dyn EXCEPT ![TRUE] = {<<fp[1], fp[2], o[fp]>> : fp \in T.charge}]
      /\ leak' = [leak EXCEPT ![TRUE] = T.sum[TRUE]]
      /\ saved' = T.saved /\ next' = next + 1
      /\ absent' = absent \union
           ((Union(set) \union PartsOf(T.charge) \union PartsOf(T.sum[TRUE])) \ live)
      /\ lacking' = lacking \union
           {ax \in (DOMAIN arrays) \X Resources :
               ax[2] \in Lacking(arrays[ax[1]], UsesOf(unit, cfg)[ax[1]], TRUE)}
  BY DEF ComputePeak, ComputeEnergy
<1>4. /\ unit' = unit /\ cfg' = cfg /\ live' = live /\ arrays' = arrays /\ unset' = unset
  BY DEF ComputePeak, ComputeEnergy
<1>5. T' = T /\ Parts' = Parts
  BY <1>4 DEF T, Parts
<1>6. DOMAIN set = {"peak", "run"} /\ set["peak"] = T.peak /\ set["run"] = {}
  BY <1>2 DEF NoStats
<1>7. \A fp \in T.charge : o[fp] = IF fp[2] \in T.fixed THEN "construct" ELSE "peak"
  <2> TAKE fp \in T.charge
  <2>1. Known(unit, cfg)
    BY <1>2, AllKnown DEF Built
  <2>2. Sourced(unit, cfg) /\ fp = <<fp[1], fp[2]>>
    BY <2>1 DEF Known, Sound, Pairs, T
  <2>3. fp[2] \notin T.fixed => fp[2] \in T.peak
    BY <2>2 DEF Sourced, T
  <2>4. o[fp] = Origin(fp[2], set)
    OBVIOUS
  <2> QED BY <1>6, <2>3, <2>4 DEF Origin
<1> HIDE DEF set, o
<1>8. Spread({<<fp[1], fp[2], o[fp]>> : fp \in T.charge}, T.charge)
  <2>1. Pairs(T.charge)
    BY <1>2, AllKnown DEF Built, Known, T
  <2> QED BY <2>1, SpreadOrigins
<1>9. dyn'[TRUE] = {<<fp[1], fp[2], o[fp]>> : fp \in T.charge} /\ dyn'[FALSE] = {}
      /\ DOMAIN dyn' = BOOLEAN
  BY <1>2, <1>3 DEF Built
<1>10. leak'[TRUE] = T.sum[TRUE] /\ DOMAIN leak' = BOOLEAN
  BY <1>2, <1>3 DEF Built
<1>11. \A x \in dyn'[TRUE] : x[3] = IF x[2] \in T.fixed THEN "construct" ELSE "peak"
  BY <1>7, <1>9
<1>12. Charged(TRUE)'
  BY <1>5, <1>8, <1>9, <1>10, <1>11 DEF Charged, Mine
<1>13. absent' = {} /\ lacking' = {}
  <2>1. \A p : p \in Union(set) => p \in T.peak
    BY <1>6 DEF Union
  <2> QED BY <1>2, <1>3, <2>1, NothingMissed DEF Built
<1>14. Built'
  BY <1>2, <1>4, <1>9, <1>10, <1>13 DEF Built, HeightsKnown
<1>15. PeakStats' /\ Alive' /\ saved' = T'.saved
  BY <1>2, <1>3, <1>4, <1>5, <1>6 DEF PeakStats, Alive
<1>16. AtRun'
  BY <1>9, <1>12, <1>15 DEF AtRun
<1>17. next' = 3
  BY <1>1, <1>3
<1> QED BY <1>14, <1>16, <1>17 DEF Life

(* The runtime call replaces those of all that is charged but home nodes.  *)
LEMMA RunLife ==
  ASSUME Life, ComputeRun
  PROVE  Life'
<1> DEFINE set == [k \in DOMAIN stats |-> IF k = "run" THEN stats[k] \union DOMAIN T.run
                                          ELSE stats[k] \ DOMAIN T.run]
           needed == T.saved \ saved
           o == [fp \in T.charge |-> IF {fp[1], fp[2]} \intersect needed # {} THEN "none"
                                     ELSE Origin(fp[2], set)]
<1>1. Call = "run" /\ next = 3
  BY CallIs DEF ComputeRun, ComputeEnergy, Life
<1>2. Built /\ Alive /\ PeakStats /\ saved = T.saved /\ Charged(TRUE)
  <2>1. Built /\ AtRun
    BY <1>1 DEF Life
  <2> QED BY <2>1 DEF AtRun
<1>3. /\ stats' = set
      /\ dyn' = [dyn EXCEPT ![FALSE] = {<<fp[1], fp[2], o[fp]>> : fp \in T.charge}]
      /\ leak' = [leak EXCEPT ![FALSE] = T.sum[FALSE]]
      /\ next' = next + 1
      /\ absent' = absent \union
           ((Union(set) \union PartsOf(T.charge) \union PartsOf(T.sum[FALSE])) \ live)
      /\ lacking' = lacking \union
           {ax \in (DOMAIN arrays) \X Resources :
               ax[2] \in Lacking(arrays[ax[1]], UsesOf(unit, cfg)[ax[1]], FALSE)}
  BY DEF ComputeRun, ComputeEnergy
<1>4. /\ unit' = unit /\ cfg' = cfg /\ live' = live /\ arrays' = arrays /\ unset' = unset
  BY DEF ComputeRun, ComputeEnergy
<1>5. T' = T /\ Parts' = Parts
  BY <1>4 DEF T, Parts
<1>6. set["peak"] = T.peak \ DOMAIN T.run /\ set["run"] = DOMAIN T.run
      /\ DOMAIN set = {"peak", "run"}
  BY <1>2 DEF PeakStats
<1>7. \A fp \in T.charge :
        o[fp] = IF fp[2] \in T.fixed THEN "construct"
                ELSE IF fp[2] = "homenode" THEN "peak" ELSE "run"
  <2> TAKE fp \in T.charge
  <2>1. Known(unit, cfg)
    BY <1>2, AllKnown DEF Built
  <2>2. Sourced(unit, cfg) /\ fp = <<fp[1], fp[2]>>
    BY <2>1 DEF Known, Sound, Pairs, T
  <2>3. /\ fp[2] \notin T.fixed => fp[2] \in T.peak
        /\ fp[2] \notin T.fixed /\ fp[2] # "homenode" => fp[2] \in DOMAIN T.run
        /\ "homenode" \notin DOMAIN T.run
    BY <2>2 DEF Sourced, T
  <2>4. needed = {}
    BY <1>2
  <2>5. o[fp] = Origin(fp[2], set)
    BY <2>4
  <2> QED BY <1>6, <2>3, <2>5 DEF Origin
<1> HIDE DEF set, o, needed
<1>8. Spread({<<fp[1], fp[2], o[fp]>> : fp \in T.charge}, T.charge)
  <2>1. Pairs(T.charge)
    BY <1>2, AllKnown DEF Built, Known, T
  <2> QED BY <2>1, SpreadOrigins
<1>9. dyn'[FALSE] = {<<fp[1], fp[2], o[fp]>> : fp \in T.charge} /\ dyn'[TRUE] = dyn[TRUE]
      /\ DOMAIN dyn' = BOOLEAN
  BY <1>2, <1>3 DEF Built
<1>10. leak'[FALSE] = T.sum[FALSE] /\ leak'[TRUE] = leak[TRUE] /\ DOMAIN leak' = BOOLEAN
  BY <1>2, <1>3 DEF Built
<1>11. \A x \in dyn'[FALSE] : x[3] = IF x[2] \in T.fixed THEN "construct"
                                     ELSE IF x[2] = "homenode" THEN "peak" ELSE "run"
  BY <1>7, <1>9
<1>12. Charged(FALSE)'
  BY <1>5, <1>8, <1>9, <1>10, <1>11 DEF Charged, Mine
<1>13. Charged(TRUE)'
  BY <1>2, <1>5, <1>9, <1>10 DEF Charged, Mine
<1>14. absent' = {} /\ lacking' = {}
  <2>1. \A p : p \in Union(set) => p \in T.peak \/ p \in DOMAIN T.run
    BY <1>6 DEF Union
  <2> QED BY <1>2, <1>3, <2>1, NothingMissed DEF Built
<1>15. Built'
  BY <1>2, <1>4, <1>9, <1>10, <1>14 DEF Built, HeightsKnown
<1>16. Alive'
  BY <1>2, <1>4, <1>5 DEF Alive
<1>17. AtDisplay'
  BY <1>12, <1>13, <1>16 DEF AtDisplay
<1>18. next' = 4
  BY <1>1, <1>3
<1> QED BY <1>15, <1>17, <1>18 DEF Life

(* Displaying and deleting leave the figures alone.                        *)
LEMMA LastCallsLife ==
  ASSUME Life, DisplayEnergy \/ Destroy
  PROVE  Life'
<1>1. /\ unit' = unit /\ cfg' = cfg /\ arrays' = arrays /\ unset' = unset
      /\ absent' = absent /\ lacking' = lacking /\ dyn' = dyn /\ leak' = leak
      /\ next' = next + 1
  BY DEF DisplayEnergy, Destroy
<1>2. T' = T /\ Parts' = Parts
  BY <1>1 DEF T, Parts
<1>3. next = 4 \/ next = 5
  BY CallIs DEF DisplayEnergy, Destroy, Life
<1>4. Built /\ Alive /\ Charged(TRUE) /\ Charged(FALSE)
  <2>1. Built /\ (AtDisplay \/ AtDestroy)
    BY <1>3 DEF Life
  <2> QED BY <2>1 DEF AtDisplay, AtDestroy
<1>5. Built' /\ Charged(TRUE)' /\ Charged(FALSE)'
  BY <1>1, <1>2, <1>4 DEF Built, HeightsKnown, Charged, Mine
<1>6. CASE DisplayEnergy
  <2>1. next = 4
    BY <1>6, CallIs DEF DisplayEnergy, Life
  <2>2. printed' = T'.shown /\ live' = live
    BY <1>2, <1>6 DEF DisplayEnergy
  <2>3. AtDestroy'
    BY <1>2, <1>4, <1>5, <2>2 DEF AtDestroy, Alive
  <2>4. next' = 5
    BY <1>1, <2>1
  <2> QED BY <1>5, <2>3, <2>4 DEF Life
<1>7. CASE Destroy
  <2>1. next = 5
    BY <1>7, CallIs DEF Destroy, Life
  <2>2. printed' = T'.shown
    <3>1. AtDestroy
      BY <2>1 DEF Life
    <3> QED BY <1>2, <1>7, <3>1 DEF Destroy, AtDestroy
  <2>3. Released(unit, cfg)
    BY <1>4, AllKnown DEF Built, Known, Sound
  <2>4. live' = {}
    BY <1>4, <1>7, <2>3 DEF Destroy, Alive, Parts, Released, T
  <2>5. AtEnd'
    BY <1>5, <2>2, <2>4 DEF AtEnd
  <2>6. next' = 6
    BY <1>1, <2>1
  <2> QED BY <1>5, <2>5, <2>6 DEF Life
<1> QED BY <1>6, <1>7

(* Processor builds units under the flags of their class only.             *)
LEMMA UnitPossible ==
  ASSUME NEW g \in GroupNames, NEW uc \in AllUnits[g]
  PROVE  uc[1] \in Classes /\ uc[2] \in Configurations(uc[1])
<1> DEFINE all == UNION {{u} \X Configurations(u) : u \in ClassesOf(g)}
<1>1. uc \in all
  BY DEF AllUnits
<1>2. PICK u \in ClassesOf(g) : uc \in {u} \X Configurations(u)
  BY <1>1
<1> QED BY <1>2, ClassesKnown

(* Before the unit is built.                                               *)
LEMMA InitialLife == Init => Life
  BY DEF Init, InitUnit, Life

(* What leaves the unit alone.                                             *)
LEMMA StillLife == Life /\ UNCHANGED lifeVars => Life'
  BY DEF Life, lifeVars, InitUnit, Built, HeightsKnown, Alive, Parts, T, NoStats, PeakStats,
         Charged, Mine, AtPeak, AtRun, AtDisplay, AtDestroy, AtEnd

(* Whatever the file and the unit built from it, Life holds after each     *)
(* call.                                                                   *)
THEOREM LifeInvariance == Spec => []Life
<1>1. Life /\ [Next]_vars => Life'
  <2> SUFFICES ASSUME Life, [Next]_vars PROVE Life'
    OBVIOUS
  <2>1. CASE BuildUnit
    <3>1. PICK g \in GroupNames :
            \E k \in 0 .. NumBuilt(g) - 1, uc \in AllUnits[g] : Build(g, k, uc[1], uc[2])
      BY <2>1 DEF BuildUnit
    <3>2. PICK uc \in AllUnits[g] : Construct(uc[1], uc[2])
      BY <3>1 DEF Build
    <3> QED BY <3>2, UnitPossible, ConstructLife
  <2>2. CASE Live
    BY <2>2, PeakLife, RunLife, LastCallsLife DEF Live
  <2>3. CASE UNCHANGED lifeVars
    BY <2>3, StillLife
  <2> QED BY <2>1, <2>2, <2>3 DEF Next, ExitPrivate, ExitFlash, Stopped, vars
<1> QED BY <1>1, InitialLife, PTL DEF Spec

(* Which calls are done at which position.                                 *)
LEMMA DoneIs ==
  ASSUME next \in 1..6
  PROVE  /\ Done("peak") <=> next > 2
         /\ Done("run") <=> next > 3
         /\ Done("display") <=> next > 4
         /\ Done("destroy") <=> next > 5
  BY DEF Done, Calls

(* NothingMissing follows,                                                 *)
LEMMA NothingIsMissing == Life => NothingMissing
<1> SUFFICES ASSUME Life PROVE NothingMissing
  OBVIOUS
<1>1. Done("destroy") => live = {}
  <2>1. Done("destroy") => next = 6
    BY DoneIs DEF Life
  <2> QED BY <2>1 DEF Life, AtEnd
<1>2. CASE next = 1
  <2>1. InitUnit
    BY <1>2 DEF Life
  <2>2. DOMAIN arrays = {}
    BY <2>1 DEF InitUnit
  <2> QED BY <1>1, <2>1, <2>2 DEF InitUnit, NothingMissing, NothingAbsent, RequestsAccepted,
             EnergiesThere, HeightsKnown, AllReleased
<1>3. CASE next # 1
  <2>1. Built
    BY <1>3 DEF Life
  <2>2. RequestsAccepted
    BY <2>1, AllKnown DEF Built, Known, Suited, Suit, RequestsAccepted
  <2> QED BY <1>1, <2>1, <2>2 DEF Built, NothingMissing, NothingAbsent, EnergiesThere,
             AllReleased
<1> QED BY <1>2, <1>3

(* A call that is done has left its figures.                               *)
LEMMA Settled ==
  ASSUME Life, unit # "none", NEW t \in BOOLEAN, Computed(t)
  PROVE  Charged(t) /\ Built
<1>1. next # 1
  BY DEF Life, InitUnit
<1>2. Built
  BY <1>1 DEF Life
<1>3. CASE t = TRUE
  <2>1. next > 2
    BY <1>3, DoneIs DEF Computed, Life
  <2>2. AtRun \/ AtDisplay \/ AtDestroy \/ AtEnd
    BY <2>1 DEF Life
  <2> QED BY <1>2, <1>3, <2>2 DEF AtRun, AtDisplay, AtDestroy, AtEnd
<1>4. CASE t = FALSE
  <2>1. next > 3
    BY <1>4, DoneIs DEF Computed, Life
  <2>2. AtDisplay \/ AtDestroy \/ AtEnd
    BY <2>1 DEF Life
  <2> QED BY <1>2, <1>4, <2>2 DEF AtDisplay, AtDestroy, AtEnd
<1> QED BY <1>3, <1>4

(* How many units share the pipeline, and other finite sets of figures.    *)
LEMMA SomeParts ==
  /\ IsFiniteSet(CoreUnits(cfg)) /\ Cardinality(CoreUnits(cfg)) = Core_shares(cfg)
  /\ IsFiniteSet(Windows(cfg))
  /\ IsFiniteSet({"frontend", "SerDer"}) /\ Cardinality({"frontend", "SerDer"}) = 2
<1>1. IsFiniteSet({"frontend", "SerDer"}) /\ Cardinality({"frontend", "SerDer"}) = 2
  <2>1. IsFiniteSet({"frontend"}) /\ Cardinality({"frontend"}) = 1
    BY FS_Singleton
  <2>2. {"frontend", "SerDer"} = {"frontend"} \union {"SerDer"} /\
          "SerDer" \notin {"frontend"}
    OBVIOUS
  <2> QED BY <2>1, <2>2, FS_AddElement
<1>2. IsFiniteSet(Windows(cfg))
  <2>1. IsFiniteSet({"int_inst_window"} \union {"fp_inst_window"})
    BY FS_AddElement, FS_Singleton
  <2>2. Windows(cfg) \subseteq {"int_inst_window"} \union {"fp_inst_window"}
    BY DEF Windows, When
  <2> QED BY <2>1, <2>2, FS_Subset
<1>3. IsFiniteSet(CoreUnits(cfg)) /\ Cardinality(CoreUnits(cfg)) = Core_shares(cfg)
  <2> DEFINE A == {"ifu"}  B == A \union {"lsu"}  C == B \union {"mmu"}  D == C \union {"exu"}
             E == D \union {"rnu"}
  <2>1. IsFiniteSet(A) /\ Cardinality(A) = 1
    BY FS_Singleton
  <2>2. "lsu" \notin A /\ "mmu" \notin B /\ "exu" \notin C /\ "rnu" \notin D
    OBVIOUS
  <2>3. CoreUnits(cfg) = IF "OOO" \in cfg THEN E ELSE D
    BY DEF CoreUnits, When
  <2> HIDE DEF A
  <2>4. IsFiniteSet(B) /\ Cardinality(B) = 2
    BY <2>1, <2>2, FS_AddElement
  <2> HIDE DEF B
  <2>5. IsFiniteSet(C) /\ Cardinality(C) = 3
    BY <2>2, <2>4, FS_AddElement
  <2> HIDE DEF C
  <2>6. IsFiniteSet(D) /\ Cardinality(D) = 4
    BY <2>2, <2>5, FS_AddElement
  <2> HIDE DEF D
  <2>7. IsFiniteSet(E) /\ Cardinality(E) = 5
    BY <2>2, <2>6, FS_AddElement
  <2> HIDE DEF E
  <2> QED BY <2>3, <2>6, <2>7 DEF Core_shares
<1> QED BY <1>1, <1>2, <1>3

(* AsEntered means Entered.                                                *)
LEMMA AsManyTimes ==
  ASSUME NEW D, NEW S, NEW p, Spread(D, S), AsEntered(S, p)
  PROVE  Times(D, p) = Entered(p)
<1>0. CASE unit = "inst_decoder"
  <2>1. Times(D, p) = 0
    BY <1>0, TimesNever DEF AsEntered
  <2> QED BY <1>0, <2>1 DEF Entered
<1>1. CASE p = "corepipe" /\ unit # "inst_decoder"
  <2>1. Times(D, p) = Core_shares(cfg)
    BY <1>1, SomeParts, TimesInto DEF AsEntered
  <2> QED BY <1>1, <2>1 DEF Entered
<1>2. CASE p = "instruction_selection" /\ unit # "inst_decoder"
  <2>1. Times(D, p) = Cardinality(Windows(cfg))
    BY <1>2, SomeParts, TimesInto DEF AsEntered
  <2> QED BY <1>2, <2>1 DEF Entered
<1>3. CASE p \in {"MC_arb", "homenode_rtp"} /\ unit # "inst_decoder"
  <2>1. Times(D, p) = 0
    BY <1>3, TimesNever DEF AsEntered
  <2> QED BY <1>3, <2>1 DEF Entered
<1>4. CASE p = "homenode" /\ unit # "inst_decoder"
  <2>1. Times(D, p) = IF "SBT" \in cfg THEN 1 ELSE 0
    BY <1>4, TimesNever, TimesOnce DEF AsEntered
  <2> QED BY <1>4, <2>1 DEF Entered
<1>5. CASE /\ unit # "inst_decoder"
           /\ p \notin {"corepipe", "instruction_selection", "MC_arb", "homenode_rtp",
                "homenode"}
  <2>1. Times(D, p) = 1
    BY <1>5, TimesOnce DEF AsEntered
  <2> QED BY <1>5, <2>1 DEF Entered
<1> QED BY <1>0, <1>1, <1>2, <1>3, <1>4, <1>5

(* ChargedOnce follows,                                                    *)
LEMMA ChargesCounted == Life => ChargedOnce
<1> SUFFICES ASSUME Life, unit # "none", NEW t \in BOOLEAN, Computed(t), NEW p \in Parts
             PROVE  /\ Times(dyn[t], p) = Entered(p)
                    /\ Times(leak[t], p) = IF p \in Uncounted(t) THEN 0
                                           ELSE IF p \in CountedTwice THEN 2 ELSE Entered(p)
  BY DEF ChargedOnce, EachPartCharged, LeakageCounted
<1>1. Charged(t) /\ Built
  BY Settled
<1>2. AsCounted(p, t)
  BY <1>1, AllCounted DEF Built, Counts
<1>3. Spread(dyn[t], T.charge) /\ leak[t] = T.sum[t]
  BY <1>1 DEF Charged
<1>4. Spread(T.sum[t], T.sum[t])
  BY <1>1, AllKnown, SpreadSelf DEF Built, Known, T
<1> DEFINE sm == T.sum[t]
<1>5. /\ AsEntered(T.charge, p)
      /\ p \in Uncounted(t) => Never(sm, p)
      /\ p \notin Uncounted(t) /\ p \in CountedTwice => Into(sm, p, {"frontend", "SerDer"})
      /\ p \notin Uncounted(t) /\ p \notin CountedTwice => AsEntered(sm, p)
  BY <1>2 DEF AsCounted
<1>6. Spread(sm, sm) /\ leak[t] = sm
  BY <1>3, <1>4
<1> HIDE DEF sm
<1>7. Times(dyn[t], p) = Entered(p)
  BY <1>3, <1>5, AsManyTimes
<1>8. p \in Uncounted(t) => Times(sm, p) = 0
  BY <1>5, <1>6, TimesNever
<1>9. p \notin Uncounted(t) /\ p \in CountedTwice => Times(sm, p) = 2
  BY <1>5, <1>6, SomeParts, TimesInto
<1>10. p \notin Uncounted(t) /\ p \notin CountedTwice => Times(sm, p) = Entered(p)
  BY <1>5, <1>6, AsManyTimes
<1> QED BY <1>6, <1>7, <1>8, <1>9, <1>10

(* and so does FiguresRight.                                               *)
LEMMA FiguresAreRight == Life => FiguresRight
<1> SUFFICES ASSUME Life PROVE FiguresRight
  OBVIOUS
<1>1. FiguresOfOwnCall
  <2> SUFFICES ASSUME unit # "none", NEW t \in BOOLEAN, NEW x \in dyn[t]
               PROVE  x[3] = IF x[2] \in T.fixed THEN "construct"
                             ELSE IF t \/ x[2] = "homenode" THEN "peak" ELSE "run"
    BY DEF FiguresOfOwnCall
  <2>1. next # 1
    BY DEF Life, InitUnit
  <2>2. CASE Computed(t)
    BY <2>2, Settled DEF Charged, Mine
  <2>3. CASE ~ Computed(t)
    <3>1. CASE t = TRUE
      <4>1. next = 2
        BY <2>1, <2>3, <3>1, DoneIs DEF Computed, Life
      <4> QED BY <3>1, <4>1 DEF Life, AtPeak
    <3>2. CASE t = FALSE
      <4>1. next = 2 \/ next = 3
        BY <2>1, <2>3, <3>2, DoneIs DEF Computed, Life
      <4> QED BY <3>2, <4>1 DEF Life, AtPeak, AtRun
    <3> QED BY <3>1, <3>2
  <2> QED BY <2>2, <2>3
<1>2. DisplayComplete
  <2> SUFFICES ASSUME Done("display")
               PROVE  printed = IF unit = "MCFrontEnd" THEN McBuffers
                       ELSE FiguresOf(T.charge) \ {"undiffCore", "backend", "phy"}
    BY DEF DisplayComplete
  <2>1. Built /\ (AtDestroy \/ AtEnd)
    BY DoneIs DEF Life
  <2>2. printed = T.shown /\ Built
    BY <2>1 DEF AtDestroy, AtEnd
  <2>3. Displayed(unit, cfg) /\ Pairs(T.charge)
    BY <2>2, AllKnown DEF Built, Known, Sound, T
  <2>4. \A f : f \in FiguresOf(T.charge) <=> \E p : <<f, p>> \in T.charge
    BY <2>3, PairsAre
  <2> QED BY <2>2, <2>3, <2>4 DEF Displayed, T
<1> QED BY <1>1, <1>2 DEF FiguresRight

(* No unit of any class, under any flags its class may have, uses what it  *)
(* has not made or CACTI has not given it, and each releases all it made.  *)
THEOREM NothingMissingCorrect == Spec => []NothingMissing
  BY LifeInvariance, NothingIsMissing, PTL

(* Every part of every unit has its energy and its leakage counted as      *)
(* often as they should, in both calls.                                    *)
THEOREM ChargedOnceCorrect == Spec => []ChargedOnce
  BY LifeInvariance, ChargesCounted, PTL

(* No figure of any unit is left over from another call, and what is       *)
(* displayed are the figures computed.                                     *)
THEOREM FiguresRightCorrect == Spec => []FiguresRight
  BY LifeInvariance, FiguresAreRight, PTL
-----------------------------------------------------------------------------
(* The inputs: every field a unit reads of its entry is stored from the    *)
(* name of the file that means it.                                         *)

(* What Same stores.                                                       *)
LEMMA SameIs ==
  \A S : DOMAIN Same(S) = S /\ \A x \in S : Same(S)[x] = x
  BY DEF Same

(* Tables that store x in the field x do so joined.                        *)
LEMMA JoinStores ==
  ASSUME NEW f, NEW g, NEW x,
         x \in DOMAIN f => f[x] = x, x \in DOMAIN g => g[x] = x
  PROVE  x \in DOMAIN (f @@ g) => (f @@ g)[x] = x
  BY DEF @@

(* The writes of register files, which go into each other's fields.        *)
Swapped == {"phy_int_regfile_writes", "phy_float_regfile_writes",
            "archi_int_regfile_writes", "archi_float_regfile_writes"}

(* The names of a core are those of its parts and, but for the swapped     *)
(* ones, stored in the fields of the same name.                            *)
LEMMA CoreStores ==
  /\ \A x : x \in DOMAIN core <=>
        \/ x \in DOMAIN core_params \/ x \in DOMAIN core_stats \/ x \in DOMAIN PBT
        \/ x \in DOMAIN itlb \/ x \in DOMAIN icache \/ x \in DOMAIN dtlb
        \/ x \in DOMAIN dcache \/ x \in DOMAIN BTB
  /\ \A x \in DOMAIN core : x \notin Swapped => core[x] = x
<1> DEFINE s1 == core_params @@ core_stats
           s2 == s1 @@ PBT
           s3 == s2 @@ itlb
           s4 == s3 @@ icache
           s5 == s4 @@ dtlb
           s6 == s5 @@ dcache
           s7 == s6 @@ BTB
<1>1. core = s7
  BY DEF core
<1>2. ASSUME NEW x PROVE x \in DOMAIN s7 <=>
        \/ x \in DOMAIN core_params \/ x \in DOMAIN core_stats \/ x \in DOMAIN PBT
        \/ x \in DOMAIN itlb \/ x \in DOMAIN icache \/ x \in DOMAIN dtlb
        \/ x \in DOMAIN dcache \/ x \in DOMAIN BTB
  BY JoinDomain
<1>3. ASSUME NEW x, x \notin Swapped
      PROVE  x \in DOMAIN s7 => s7[x] = x
  <2>0. x \in DOMAIN core_stats => core_stats[x] = x
    <3> DEFINE a == "phy_int_regfile_writes" :> "archi_int_regfile_writes"
               b == "phy_float_regfile_writes" :> "archi_float_regfile_writes"
               d == "archi_int_regfile_writes" :> "phy_int_regfile_writes"
               e == "archi_float_regfile_writes" :> "phy_float_regfile_writes"
    <3>1. x \notin DOMAIN a /\ x \notin DOMAIN b /\ x \notin DOMAIN d /\ x \notin DOMAIN e
      BY <1>3, RowDomain DEF Swapped
    <3> HIDE DEF a, b, d, e
    <3>2. PICK S : core_stats = a @@ b @@ d @@ e @@ Same(S)
      BY DEF core_stats, a, b, d, e
    <3> DEFINE q == Same(S)
    <3>3. x \in DOMAIN q => q[x] = x
      BY SameIs
    <3> HIDE DEF q
    <3>4. x \in DOMAIN (a @@ b) => (a @@ b)[x] = x
      BY <3>1, JoinStores
    <3>5. x \in DOMAIN (a @@ b @@ d) => (a @@ b @@ d)[x] = x
      BY <3>1, <3>4, JoinStores
    <3>6. x \in DOMAIN (a @@ b @@ d @@ e) => (a @@ b @@ d @@ e)[x] = x
      BY <3>1, <3>5, JoinStores
    <3>7. x \in DOMAIN (a @@ b @@ d @@ e @@ q) => (a @@ b @@ d @@ e @@ q)[x] = x
      BY <3>3, <3>6, JoinStores
    <3> QED BY <3>2, <3>7 DEF q
  <2>1. x \in DOMAIN core_params => core_params[x] = x
    BY SameIs DEF core_params
  <2>2. x \in DOMAIN PBT => PBT[x] = x
    BY SameIs DEF PBT
  <2>3. x \in DOMAIN itlb => itlb[x] = x
    BY SameIs DEF itlb
  <2>4. x \in DOMAIN icache => icache[x] = x
    BY SameIs DEF icache
  <2>5. x \in DOMAIN dtlb => dtlb[x] = x
    BY SameIs DEF dtlb
  <2>6. x \in DOMAIN dcache => dcache[x] = x
    BY SameIs DEF dcache
  <2>7. x \in DOMAIN BTB => BTB[x] = x
    BY SameIs DEF BTB
  <2> HIDE DEF s1, s2, s3, s4, s5, s6, s7
  <2>11. x \in DOMAIN s1 => s1[x] = x
    BY <2>0, <2>1, JoinStores DEF s1
  <2>12. x \in DOMAIN s2 => s2[x] = x
    BY <2>11, <2>2, JoinStores DEF s2
  <2>13. x \in DOMAIN s3 => s3[x] = x
    BY <2>12, <2>3, JoinStores DEF s3
  <2>14. x \in DOMAIN s4 => s4[x] = x
    BY <2>13, <2>4, JoinStores DEF s4
  <2>15. x \in DOMAIN s5 => s5[x] = x
    BY <2>14, <2>5, JoinStores DEF s5
  <2>16. x \in DOMAIN s6 => s6[x] = x
    BY <2>15, <2>6, JoinStores DEF s6
  <2>17. x \in DOMAIN s7 => s7[x] = x
    BY <2>16, <2>7, JoinStores DEF s7
  <2> QED BY <2>17
<1> QED BY <1>1, <1>2, <1>3


(* What the units of a core read of its entry.                             *)
CoreCounters ==
  {"icache.read_accesses", "icache.read_misses", "total_instructions",
   "BTB.read_accesses", "BTB.write_accesses", "branch_instructions",
   "branch_mispredictions", "function_calls", "int_instructions", "fp_instructions",
   "rename_reads", "rename_writes", "fp_rename_reads", "fp_rename_writes",
   "inst_window_reads", "inst_window_writes", "inst_window_wakeup_accesses",
   "fp_inst_window_reads", "fp_inst_window_writes", "fp_inst_window_wakeup_accesses",
   "ROB_reads", "ROB_writes", "dcache.read_accesses", "dcache.read_misses",
   "dcache.write_accesses", "dcache.write_misses", "load_instructions",
   "store_instructions", "itlb.total_accesses", "itlb.total_misses",
   "dtlb.total_accesses", "dtlb.total_misses", "int_regfile_reads",
   "int_regfile_writes", "float_regfile_reads", "float_regfile_writes",
   "ialu_accesses", "fpu_accesses", "mul_accesses", "cdb_alu_accesses",
   "cdb_mul_accesses", "cdb_fpu_accesses"}

(* The parameters and counters of a core are stored from their names.      *)
LEMMA CoreTold ==
  \A f \in set_core_param \union CoreCounters : f \in DOMAIN core /\ core[f] = f
<1>1. \A x \in set_core_param : x \in DOMAIN core_params \/ x \in DOMAIN core_stats
  BY SameIs, JoinDomain DEF core_params, core_stats, set_core_param
<1>2. \A x \in CoreCounters :
        \/ x \in DOMAIN core_stats \/ x \in DOMAIN itlb \/ x \in DOMAIN icache
        \/ x \in DOMAIN dtlb \/ x \in DOMAIN dcache \/ x \in DOMAIN BTB
  BY SameIs, JoinDomain DEF core_stats, itlb, icache, dtlb, dcache, BTB, CoreCounters
<1>3. \A x \in set_core_param \union CoreCounters : x \notin Swapped
  BY DEF set_core_param, CoreCounters, Swapped
<1> QED BY <1>1, <1>2, <1>3, CoreStores

(* A row in front of a table.                                              *)
LEMMA BehindRow ==
  ASSUME NEW a, NEW n, NEW q
  PROVE  /\ \A x : x \in DOMAIN ((a :> n) @@ q) <=> x = a \/ x \in DOMAIN q
         /\ ((a :> n) @@ q)[a] = n
         /\ \A x \in DOMAIN q : x # a => ((a :> n) @@ q)[x] = q[x]
<1> DEFINE r == a :> n
<1>1. \A x : x \in DOMAIN r <=> x = a
  BY RowDomain
<1>2. r[a] = n
  BY RowValue
<1> HIDE DEF r
<1>3. \A x : x \in DOMAIN (r @@ q) <=> x = a \/ x \in DOMAIN q
  BY <1>1, JoinDomain
<1>4. (r @@ q)[a] = n
  BY <1>1, <1>2, JoinValue
<1>5. \A x \in DOMAIN q : x # a => (r @@ q)[x] = q[x]
  BY <1>1, JoinValue
<1> QED BY <1>3, <1>4, <1>5 DEF r

(* A field that means what is read has a name that is stored in it.        *)
LEMMA MeantIf ==
  /\ \A g, f : f \in DOMAIN Stored(g) /\ Stored(g)[f] = f => Meant(g, f)
  /\ \A g, f, a : a \in DOMAIN Stored(g) /\ Stored(g)[a] = f /\ f \notin DOMAIN Stored(g)
       => Meant(g, f)
  BY DEF Meant

(* The counters of directories, of shared caches and of memory             *)
(* controllers.                                                            *)
CacheCounters == {"read_accesses", "read_misses", "write_accesses", "write_misses"}
HomeCounters == {"homenode_read_accesses", "homenode_read_misses",
                 "homenode_write_misses"}
McCounters == {"memory_reads", "memory_writes"}

(* The counters the units of a group read.                                 *)
CountersOf(g) ==
  CASE g = "core" -> CoreCounters
    [] g \in {"L1Directory", "L2Directory"} -> CacheCounters
    [] g \in {"L2", "L3"} -> CacheCounters \union HomeCounters
    [] g = "NoC" -> {"total_accesses"}
    [] g = "mc" -> McCounters
    [] OTHER -> {}

(* Every parameter and every counter read of an entry is stored from the   *)
(* name that means it.                                                     *)
LEMMA AllMeant ==
  ASSUME NEW g \in Names, NEW f \in ParamsOf(g) \union CountersOf(g)
  PROVE  Meant(g, f)
<1>1. CASE g = "core"
  BY <1>1, CoreTold, MeantIf DEF ParamsOf, CountersOf, Stored
<1>2. CASE g = "L1Directory"
  <2>1. Stored(g) = L1Directory /\ ParamsOf(g) = set_cache_param_L1Directory
        /\ CountersOf(g) = CacheCounters
    BY <1>2 DEF Stored, ParamsOf, CountersOf
  <2>2. f \in DOMAIN L1Directory /\ L1Directory[f] = f
    BY <2>1, BehindRow, SameIs DEF L1Directory, set_cache_param_L1Directory, CacheCounters
  <2> QED BY <2>1, <2>2, MeantIf
<1>3. CASE g = "L2Directory"
  <2>1. Stored(g) = L2Directory /\ ParamsOf(g) = set_cache_param_L2Directory
        /\ CountersOf(g) = CacheCounters
    BY <1>3 DEF Stored, ParamsOf, CountersOf
  <2>2. f \in DOMAIN L2Directory /\ L2Directory[f] = f
    BY <2>1, BehindRow, SameIs DEF L2Directory, set_cache_param_L2Directory, CacheCounters
  <2> QED BY <2>1, <2>2, MeantIf
<1>4. CASE g = "L2"
  <2>1. Stored(g) = L2 /\ ParamsOf(g) = set_cache_param_L2
        /\ CountersOf(g) = CacheCounters \union HomeCounters
    BY <1>4 DEF Stored, ParamsOf, CountersOf
  <2>2. f \in DOMAIN L2 /\ L2[f] = f
    BY <2>1, SameIs DEF L2, set_cache_param_L2, CacheCounters, HomeCounters, CacheUse
  <2> QED BY <2>1, <2>2, MeantIf
<1>5. CASE g = "L3"
  <2>1. Stored(g) = L3 /\ ParamsOf(g) = set_cache_param_L3
        /\ CountersOf(g) = CacheCounters \union HomeCounters
    BY <1>5 DEF Stored, ParamsOf, CountersOf
  <2>2. f \in DOMAIN L3 /\ L3[f] = f
    BY <2>1, SameIs DEF L3, set_cache_param_L3, CacheCounters, HomeCounters, CacheUse
  <2> QED BY <2>1, <2>2, MeantIf
<1>6. CASE g = "NoC"
  <2> DEFINE t == NoC @@ xbar0
  <2>1. Stored(g) = t /\ ParamsOf(g) = set_noc_param /\ CountersOf(g) = {"total_accesses"}
    BY <1>6 DEF Stored, ParamsOf, CountersOf
  <2>2. f # "route_over_perc" => f \in DOMAIN NoC /\ NoC[f] = f
    BY <2>1, BehindRow, SameIs DEF NoC, set_noc_param
  <2>3. "link_routing_over_percentage" \in DOMAIN NoC
        /\ NoC["link_routing_over_percentage"] = "route_over_perc"
        /\ "route_over_perc" \notin DOMAIN NoC
    BY BehindRow, SameIs DEF NoC
  <2>4. "route_over_perc" \notin DOMAIN xbar0
    BY BehindRow, SameIs DEF xbar0
  <2> HIDE DEF t
  <2>5. f # "route_over_perc" => f \in DOMAIN t /\ t[f] = f
    BY <2>2, JoinDomain, JoinValue DEF t
  <2>6. "link_routing_over_percentage" \in DOMAIN t
        /\ t["link_routing_over_percentage"] = "route_over_perc"
        /\ "route_over_perc" \notin DOMAIN t
    BY <2>3, <2>4, JoinDomain, JoinValue DEF t
  <2> QED BY <2>1, <2>5, <2>6, MeantIf
<1>7. CASE g = "mc"
  <2>1. Stored(g) = mc /\ ParamsOf(g) = set_mc_param /\ CountersOf(g) = McCounters
    BY <1>7 DEF Stored, ParamsOf, CountersOf
  <2>2. f # "llc_line_length" => f \in DOMAIN mc /\ mc[f] = f
    BY <2>1, BehindRow, SameIs DEF mc, set_mc_param, McCounters
  <2>3. "block_size" \in DOMAIN mc /\ mc["block_size"] = "llc_line_length"
        /\ "llc_line_length" \notin DOMAIN mc
    BY BehindRow, SameIs DEF mc
  <2> QED BY <2>1, <2>2, <2>3, MeantIf
<1>8. CASE g = "niu"
  <2>1. Stored(g) = niu /\ ParamsOf(g) = set_niu_param /\ CountersOf(g) = {}
    BY <1>8 DEF Stored, ParamsOf, CountersOf
  <2>2. f \in DOMAIN niu /\ niu[f] = f
    BY <2>1, SameIs DEF niu, set_niu_param
  <2> QED BY <2>1, <2>2, MeantIf
<1>9. CASE g = "pcie"
  <2>1. Stored(g) = pcie /\ ParamsOf(g) = set_pcie_param /\ CountersOf(g) = {}
    BY <1>9 DEF Stored, ParamsOf, CountersOf
  <2>2. f \in DOMAIN pcie /\ pcie[f] = f
    BY <2>1, SameIs DEF pcie, set_pcie_param
  <2> QED BY <2>1, <2>2, MeantIf
<1>10. CASE g = "flashc"
  <2>1. Stored(g) = flashc /\ ParamsOf(g) = set_fc_param /\ CountersOf(g) = {}
    BY <1>10 DEF Stored, ParamsOf, CountersOf
  <2>2. f # "number_mcs" => f \in DOMAIN flashc /\ flashc[f] = f
    BY <2>1, BehindRow, SameIs DEF flashc, set_fc_param
  <2>3. "number_flashcs" \in DOMAIN flashc /\ flashc["number_flashcs"] = "number_mcs"
        /\ "number_mcs" \notin DOMAIN flashc
    BY BehindRow, SameIs DEF flashc
  <2> QED BY <2>1, <2>2, <2>3, MeantIf
<1> QED BY <1>1, <1>2, <1>3, <1>4, <1>5, <1>6, <1>7, <1>8, <1>9, <1>10 DEF Names

(* All rows of a table are parts of S.                                     *)
RowsWithin(r, S) == \A p \in DOMAIN r : r[p] \subseteq S

(* So is their union then.                                                 *)
LEMMA UnionWithin ==
  ASSUME NEW r, NEW S, RowsWithin(r, S) PROVE Union(r) \subseteq S
  BY DEF RowsWithin, Union

(* Joined tables,                                                          *)
LEMMA JoinWithin ==
  ASSUME NEW f, NEW g, NEW S, RowsWithin(f, S), RowsWithin(g, S)
  PROVE  RowsWithin(f @@ g, S)
  BY DEF @@, RowsWithin

(* one row for each of a set,                                              *)
LEMMA EachWithin ==
  ASSUME NEW A, NEW n, NEW S, n \subseteq S PROVE RowsWithin(Each(A, n), S)
  BY DEF Each, RowsWithin

(* one row,                                                                *)
LEMMA RowWithin ==
  ASSUME NEW a, NEW n, NEW S, n \subseteq S PROVE RowsWithin(a :> n, S)
  BY DEF :>, RowsWithin

(* and no row at all.                                                      *)
LEMMA NoneWithin == \A S : RowsWithin(<<>>, S)
  BY DEF RowsWithin

(* The counters of InstFetchU.                                             *)
LEMMA InstFetchUReads ==
  ASSUME NEW c PROVE RowsWithin(InstFetchU_run(c), CoreCounters)
<1> DEFINE a == "icache.caches" :> {"icache.read_accesses", "icache.read_misses"}
           b == Each(ICache, {"icache.read_misses"})
           d == Each({"IB"} \union Decoders, {"total_instructions"})
           r == [BTB |-> {"BTB.read_accesses", "BTB.write_accesses"}, BPT |-> {}]
           e == Rows("prediction" \in c, r)
<1>1. RowsWithin(a, CoreCounters)
  BY RowWithin DEF CoreCounters
<1>2. RowsWithin(b, CoreCounters)
  BY EachWithin DEF CoreCounters
<1>3. RowsWithin(d, CoreCounters)
  BY EachWithin DEF CoreCounters
<1>4. RowsWithin(r, CoreCounters)
  BY DEF RowsWithin, CoreCounters
<1>5. RowsWithin(e, CoreCounters)
  BY <1>4, NoneWithin DEF Rows
<1>6. InstFetchU_run(c) = a @@ b @@ d @@ e
  BY DEF InstFetchU_run
<1> HIDE DEF a, b, d, e
<1> QED BY <1>1, <1>2, <1>3, <1>5, <1>6, JoinWithin

(* The counters of BranchPredictor.                                        *)
LEMMA BranchPredictorReads ==
  ASSUME NEW c PROVE RowsWithin(BranchPredictor_run(c), CoreCounters)
<1> DEFINE a == Each(Predictors, {"branch_instructions", "branch_mispredictions"})
           b == [RAS |-> {"function_calls"}]
<1>1. RowsWithin(a, CoreCounters)
  BY EachWithin DEF CoreCounters
<1>2. RowsWithin(b, CoreCounters)
  BY DEF RowsWithin, CoreCounters
<1>3. BranchPredictor_run(c) = a @@ b
  BY DEF BranchPredictor_run
<1> HIDE DEF a, b
<1> QED BY <1>1, <1>2, <1>3, JoinWithin

(* The counters of RENAMINGU.                                              *)
LEMMA RENAMINGUReads ==
  ASSUME NEW c PROVE RowsWithin(RENAMINGU_run(c), CoreCounters)
<1> DEFINE a == [idcl |-> {"int_instructions"}, fdcl |-> {"fp_instructions"}]
           b == [iFRAT |-> IntRename, fFRAT |-> FpRename]
           d == [iRRAT |-> {"rename_writes"}, fRRAT |-> {"fp_rename_writes"}]
           e == [ifreeL |-> IntRename, ffreeL |-> FpRename]
           h == [ifreeL |-> IntRename \union FpRename]
           k == [idcl |-> {"rename_reads"}, fdcl |-> {"fp_rename_writes"}]
           f == Rows(HasRRAT(c), d)
           g == IF "PhysicalRegFile" \in c THEN e ELSE h
<1>1. RowsWithin(a, CoreCounters)
  BY DEF RowsWithin, CoreCounters
<1>2. RowsWithin(b, CoreCounters)
  BY DEF RowsWithin, CoreCounters, IntRename, FpRename
<1>3. RowsWithin(d, CoreCounters)
  BY DEF RowsWithin, CoreCounters
<1>4. RowsWithin(e, CoreCounters) /\ RowsWithin(h, CoreCounters)
  BY DEF RowsWithin, CoreCounters, IntRename, FpRename
<1>5. RowsWithin(k, CoreCounters)
  BY DEF RowsWithin, CoreCounters
<1>6. RENAMINGU_run(c) = IF "OOO" \notin c THEN Rows("multiIssue" \in c, a)
                         ELSE b @@ f @@ g @@ k
  BY DEF RENAMINGU_run
<1> HIDE DEF a, b, d, e, h, k
<1>7. RowsWithin(f, CoreCounters)
  BY <1>3, NoneWithin DEF Rows
<1>8. RowsWithin(g, CoreCounters)
  BY <1>4
<1>9. RowsWithin(Rows("multiIssue" \in c, a), CoreCounters)
  BY <1>1, NoneWithin DEF Rows
<1> HIDE DEF f, g
<1>10. RowsWithin(b @@ f @@ g @@ k, CoreCounters)
  BY <1>2, <1>5, <1>7, <1>8, JoinWithin
<1> QED BY <1>6, <1>9, <1>10

(* The counters of SchedulerU.                                             *)
LEMMA SchedulerUReads ==
  ASSUME NEW c PROVE RowsWithin(SchedulerU_run(c), CoreCounters)
<1> DEFINE a == [int_inst_window |-> {"inst_window_reads", "inst_window_writes",
                                      "inst_window_wakeup_accesses"},
                 fp_inst_window |-> {"fp_inst_window_reads", "fp_inst_window_writes",
                                     "fp_inst_window_wakeup_accesses"}]
           b == [ROB |-> {"ROB_reads", "ROB_writes"}]
           d == [int_inst_window |-> {"int_instructions", "fp_instructions"}]
           e == Rows("ROB" \in c, b)
           f == Rows("multithreaded" \in c, d)
<1>1. RowsWithin(a, CoreCounters)
  BY DEF RowsWithin, CoreCounters
<1>2. RowsWithin(b, CoreCounters)
  BY DEF RowsWithin, CoreCounters
<1>3. RowsWithin(d, CoreCounters)
  BY DEF RowsWithin, CoreCounters
<1>4. SchedulerU_run(c) = IF "OOO" \in c THEN a @@ e ELSE f
  BY DEF SchedulerU_run
<1> HIDE DEF a, b, d
<1>5. RowsWithin(e, CoreCounters)
  BY <1>2, NoneWithin DEF Rows
<1>6. RowsWithin(f, CoreCounters)
  BY <1>3, NoneWithin DEF Rows
<1> HIDE DEF e, f
<1>7. RowsWithin(a @@ e, CoreCounters)
  BY <1>1, <1>5, JoinWithin
<1> QED BY <1>4, <1>6, <1>7

(* The counters of LoadStoreU.                                             *)
LEMMA LoadStoreUReads ==
  ASSUME NEW c PROVE RowsWithin(LoadStoreU_run(c), CoreCounters)
<1> DEFINE n == {"dcache.read_accesses", "dcache.read_misses",
                 "dcache.write_accesses", "dcache.write_misses"}
           m == IF "writeBack" \in c THEN {"dcache.write_misses"}
                ELSE {"dcache.read_misses"}
           l == {"load_instructions", "store_instructions"}
           a == "dcache.caches" :> n
           b == Each(DCache(c), m)
           d == Each({"LSQ"} \union When(HasLoadQ(c), {"LoadQ"}), l)
<1>1. n \subseteq CoreCounters /\ m \subseteq CoreCounters /\ l \subseteq CoreCounters
  BY DEF CoreCounters
<1>2. LoadStoreU_run(c) = a @@ b @@ d
  BY DEF LoadStoreU_run
<1> HIDE DEF n, m, l
<1>3. RowsWithin(a, CoreCounters)
  BY <1>1, RowWithin
<1>4. RowsWithin(b, CoreCounters)
  BY <1>1, EachWithin
<1>5. RowsWithin(d, CoreCounters)
  BY <1>1, EachWithin
<1> HIDE DEF a, b, d
<1> QED BY <1>2, <1>3, <1>4, <1>5, JoinWithin

(* The counters of MemManU.                                                *)
LEMMA MemManUReads ==
  ASSUME NEW c PROVE RowsWithin(MemManU_run(c), CoreCounters)
  BY DEF MemManU_run, RowsWithin, CoreCounters

(* The counters of RegFU.                                                  *)
LEMMA RegFUReads ==
  ASSUME NEW c PROVE RowsWithin(RegFU_run(c), CoreCounters)
<1> DEFINE s == When("regWindowing" \in c, {"function_calls"})
           m == {"int_regfile_reads", "int_regfile_writes"} \union s
           n == {"float_regfile_reads", "float_regfile_writes"} \union s
           a == [IRF |-> m, FRF |-> n]
           b == Each(Windowed(c), s)
<1>1. s \subseteq CoreCounters
  BY DEF When, CoreCounters
<1>2. m \subseteq CoreCounters /\ n \subseteq CoreCounters
  BY <1>1 DEF CoreCounters
<1>3. RegFU_run(c) = a @@ b
  BY DEF RegFU_run
<1> HIDE DEF s, m, n
<1>4. RowsWithin(a, CoreCounters)
  BY <1>2 DEF RowsWithin
<1>5. RowsWithin(b, CoreCounters)
  BY <1>1, EachWithin
<1> HIDE DEF a, b
<1> QED BY <1>3, <1>4, <1>5, JoinWithin

(* The counters of FunctionalUnit.                                         *)
LEMMA FunctionalUnitReads ==
  ASSUME NEW c PROVE RowsWithin(FunctionalUnit_run(c), CoreCounters)
<1> DEFINE n == When("FPU" \in c, {"fpu_accesses"})
                \union When("ALU" \in c, {"ialu_accesses"})
                \union When("MUL" \in c, {"mul_accesses"})
<1>1. n \subseteq CoreCounters
  BY DEF When, CoreCounters
<1>2. FunctionalUnit_run(c) = Each({"fu"}, n)
  BY DEF FunctionalUnit_run
<1> HIDE DEF n
<1> QED BY <1>1, <1>2, EachWithin

(* The counters of EXECU.                                                  *)
LEMMA EXECUReads ==
  ASSUME NEW c PROVE RowsWithin(EXECU_run(c), CoreCounters)
<1> DEFINE a == Each(ExecUnits(c), {})
           b == Each(IntBypass, {"cdb_alu_accesses"})
           d == Each(MulBypass(c), {"cdb_mul_accesses"})
           e == Each(FpBypass(c), {"cdb_fpu_accesses"})
<1>1. RowsWithin(a, CoreCounters)
  BY EachWithin
<1>2. RowsWithin(b, CoreCounters)
  BY EachWithin DEF CoreCounters
<1>3. RowsWithin(d, CoreCounters)
  BY EachWithin DEF CoreCounters
<1>4. RowsWithin(e, CoreCounters)
  BY EachWithin DEF CoreCounters
<1>5. EXECU_run(c) = a @@ b @@ d @@ e
  BY DEF EXECU_run
<1> HIDE DEF a, b, d, e
<1> QED BY <1>1, <1>2, <1>3, <1>4, <1>5, JoinWithin

(* The counters of SharedCache: those of its home node in a merged         *)
(* directory only, one of which no name is stored to.                      *)
LEMMA SharedCacheReads ==
  ASSUME NEW c
  PROVE  /\ ~HomeNode(c) => RowsWithin(SharedCache_run(c), CacheCounters)
         /\ RowsWithin(SharedCache_run(c), CacheCounters \union HomeCounters
                                           \union {"homenode_write_accesses"})
<1> DEFINE All == CacheCounters \union HomeCounters \union {"homenode_write_accesses"}
           m == {"write_misses"} \union When(HomeNode(c), {"homenode_write_misses"})
           a == [caches |-> {"read_accesses", "read_misses", "write_accesses",
                             "write_misses"}]
           b == Each(When(~Shadowed(c), SharedBuffers), m)
           d == [homenode_rtp |-> {"homenode_read_accesses", "homenode_read_misses",
                                   "homenode_write_accesses", "homenode_write_misses"}]
           e == Rows(HomeNode(c), d)
<1>1. m \subseteq All /\ (~HomeNode(c) => m \subseteq CacheCounters)
  BY DEF When, CacheCounters, HomeCounters
<1>2. RowsWithin(a, All) /\ RowsWithin(a, CacheCounters)
  BY DEF RowsWithin, CacheCounters
<1>3. RowsWithin(d, All)
  BY DEF RowsWithin, HomeCounters
<1>4. SharedCache_run(c) = a @@ b @@ e
  BY DEF SharedCache_run
<1> HIDE DEF All, m, a, d
<1>5. RowsWithin(b, All) /\ (~HomeNode(c) => RowsWithin(b, CacheCounters))
  BY <1>1, EachWithin
<1>6. RowsWithin(e, All) /\ (~HomeNode(c) => RowsWithin(e, CacheCounters))
  BY <1>3, NoneWithin DEF Rows
<1> HIDE DEF b, e
<1>7. RowsWithin(SharedCache_run(c), All)
  BY <1>2, <1>4, <1>5, <1>6, JoinWithin
<1>8. ~HomeNode(c) => RowsWithin(SharedCache_run(c), CacheCounters)
  BY <1>2, <1>4, <1>5, <1>6, JoinWithin
<1> QED BY <1>7, <1>8 DEF All

(* A unit of a directory is no cache.                                      *)
LEMMA DirectoryFlags ==
  ASSUME NEW c \in Configurations("SharedCache"),
         c \intersect {"L1Directory", "L2Directory"} # {}
  PROVE  ~HomeNode(c)
<1> DEFINE A == {{l, d} : l \in {"L2", "L3"}, d \in {"SBT", "NonDir"}}
           B == {{l, d} : l \in {"L1Directory", "L2Directory"}, d \in {"ST", "DC", "SBT"}}
<1>1. c \in A \/ c \in B
  BY DEF Configurations
<1>2. CASE c \in A
  <2>1. PICK l \in {"L2", "L3"}, d \in {"SBT", "NonDir"} : c = {l, d}
    BY <1>2
  <2> QED BY <2>1
<1>3. CASE c \in B
  <2>1. PICK l \in {"L1Directory", "L2Directory"}, d \in {"ST", "DC", "SBT"} : c = {l, d}
    BY <1>3
  <2> QED BY <2>1 DEF HomeNode
<1> QED BY <1>1, <1>2, <1>3

(* The classes of the groups, one by one.                                  *)
LEMMA UnitClass ==
  ASSUME NEW g \in Names, NEW uc \in AllUnits[g]
  PROVE  /\ uc[1] \in ClassesOf(g) /\ uc[2] \in Configurations(uc[1])
         /\ uc[1] = "SharedCache" => g \in uc[2]
<1> DEFINE all == UNION {{u} \X Configurations(u) : u \in ClassesOf(g)}
<1>1. g \in GroupNames
  BY GroupNamesAre
<1>2. uc \in all /\ (uc[1] = "SharedCache" => g \in uc[2])
  BY <1>1 DEF AllUnits
<1>3. PICK u \in ClassesOf(g) : uc \in {u} \X Configurations(u)
  BY <1>2
<1> QED BY <1>2, <1>3

(* The units of a group read its counters only, but for the home node's    *)
(* write accesses of a merged directory.                                   *)
LEMMA CountersRead ==
  ASSUME NEW g \in Names, NEW u \in ClassesOf(g), NEW c \in Configurations(u),
         u = "SharedCache" => g \in c, NEW f \in Union(Table(u, c).run)
  PROVE  f \in CountersOf(g) \/ (u = "SharedCache" /\ f = "homenode_write_accesses")
<1> DEFINE r == Table(u, c).run
<1>1. CASE g = "core"
  <2>1. u \in Core_classes \union {"inst_decoder"}
    BY <1>1 DEF ClassesOf
  <2>2. RowsWithin(r, CoreCounters)
    <3>1. CASE u = "InstFetchU"
      <4>1. r = InstFetchU_run(c)
        BY <3>1 DEF Table, Row
      <4> QED BY <4>1, InstFetchUReads
    <3>2. CASE u = "BranchPredictor"
      <4>1. r = BranchPredictor_run(c)
        BY <3>2 DEF Table, Row
      <4> QED BY <4>1, BranchPredictorReads
    <3>3. CASE u = "RENAMINGU"
      <4>1. r = RENAMINGU_run(c)
        BY <3>3 DEF Table, Row
      <4> QED BY <4>1, RENAMINGUReads
    <3>4. CASE u = "SchedulerU"
      <4>1. r = SchedulerU_run(c)
        BY <3>4 DEF Table, Row
      <4> QED BY <4>1, SchedulerUReads
    <3>5. CASE u = "LoadStoreU"
      <4>1. r = LoadStoreU_run(c)
        BY <3>5 DEF Table, Row
      <4> QED BY <4>1, LoadStoreUReads
    <3>6. CASE u = "MemManU"
      <4>1. r = MemManU_run(c)
        BY <3>6 DEF Table, Row
      <4> QED BY <4>1, MemManUReads
    <3>7. CASE u = "RegFU"
      <4>1. r = RegFU_run(c)
        BY <3>7 DEF Table, Row
      <4> QED BY <4>1, RegFUReads
    <3>8. CASE u = "FunctionalUnit"
      <4>1. r = FunctionalUnit_run(c)
        BY <3>8 DEF Table, Row
      <4> QED BY <4>1, FunctionalUnitReads
    <3>9. CASE u = "EXECU"
      <4>1. r = EXECU_run(c)
        BY <3>9 DEF Table, Row
      <4> QED BY <4>1, EXECUReads
    <3>10. CASE u = "Core"
      <4>1. r = Core_run(c)
        BY <3>10 DEF Table, Row
      <4> QED BY <4>1, EachWithin DEF Core_run
    <3>11. CASE u = "inst_decoder"
      <4>1. r = <<>>
        BY <3>11 DEF Table, Row
      <4> QED BY <4>1, NoneWithin
    <3> QED BY <2>1, <3>1, <3>2, <3>3, <3>4, <3>5, <3>6, <3>7, <3>8, <3>9, <3>10, <3>11
            DEF Core_classes
  <2> HIDE DEF r
  <2> QED BY <1>1, <2>2, UnionWithin DEF r, CountersOf
<1>2. CASE g \in {"L1Directory", "L2Directory"}
  <2>1. u = "SharedCache"
    BY <1>2 DEF ClassesOf
  <2>2. r = SharedCache_run(c)
    BY <2>1 DEF Table, Row
  <2>3. ~HomeNode(c)
    BY <1>2, <2>1, DirectoryFlags
  <2>4. RowsWithin(r, CacheCounters)
    BY <2>2, <2>3, SharedCacheReads
  <2> HIDE DEF r
  <2> QED BY <1>2, <2>4, UnionWithin DEF r, CountersOf
<1>3. CASE g \in {"L2", "L3"}
  <2>1. u = "SharedCache"
    BY <1>3 DEF ClassesOf
  <2>2. r = SharedCache_run(c)
    BY <2>1 DEF Table, Row
  <2>3. RowsWithin(r, CacheCounters \union HomeCounters \union {"homenode_write_accesses"})
    BY <2>2, SharedCacheReads
  <2> HIDE DEF r
  <2>4. f \in CacheCounters \union HomeCounters \union {"homenode_write_accesses"}
    BY <2>3, UnionWithin DEF r
  <2> QED BY <1>3, <2>1, <2>4 DEF CountersOf
<1>4. CASE g = "NoC"
  <2>1. u = "NoC"
    BY <1>4 DEF ClassesOf
  <2>2. r = NoC_run(c)
    BY <2>1 DEF Table, Row
  <2>3. RowsWithin(r, {"total_accesses"})
    BY <2>2, EachWithin DEF NoC_run
  <2> HIDE DEF r
  <2> QED BY <1>4, <2>3, UnionWithin DEF r, CountersOf
<1>5. CASE g = "mc"
  <2>1. u \in Mc_classes
    BY <1>5 DEF ClassesOf
  <2>2. RowsWithin(r, McCounters)
    <3>1. CASE u = "MemoryController"
      <4>1. r = MemoryController_run(c)
        BY <3>1 DEF Table, Row
      <4> QED BY <4>1, EachWithin DEF MemoryController_run
    <3>2. CASE u = "MCFrontEnd"
      <4>1. r = MCFrontEnd_run(c)
        BY <3>2 DEF Table, Row
      <4> QED BY <4>1 DEF RowsWithin, MCFrontEnd_run, McCounters
    <3>3. CASE u = "MCBackend"
      <4>1. r = MCBackend_run(c)
        BY <3>3 DEF Table, Row
      <4> QED BY <4>1 DEF RowsWithin, MCBackend_run, McCounters
    <3>4. CASE u = "MCPHY"
      <4>1. r = MCPHY_run(c)
        BY <3>4 DEF Table, Row
      <4> QED BY <4>1 DEF RowsWithin, MCPHY_run, McCounters
    <3> QED BY <2>1, <3>1, <3>2, <3>3, <3>4 DEF Mc_classes
  <2> HIDE DEF r
  <2> QED BY <1>5, <2>2, UnionWithin DEF r, CountersOf
<1>6. CASE g \in {"niu", "pcie", "flashc"}
  <2>1. u \in {"NIUController", "PCIeController", "FlashController"}
    BY <1>6 DEF ClassesOf
  <2>2. r = <<>>
    <3>1. CASE u = "NIUController"
      BY <3>1 DEF Table, Row
    <3>2. CASE u = "PCIeController"
      BY <3>2 DEF Table, Row
    <3>3. CASE u = "FlashController"
      BY <3>3 DEF Table, Row
    <3> QED BY <2>1, <3>1, <3>2, <3>3
  <2>3. RowsWithin(r, {})
    BY <2>2, NoneWithin
  <2> HIDE DEF r
  <2> QED BY <2>3, UnionWithin DEF r
<1> QED BY <1>1, <1>2, <1>3, <1>4, <1>5, <1>6 DEF Names

(* Which entries initialize() gives a power gating voltage: all but those  *)
(* of third level caches.                                                  *)
LEMMA VccInitialised ==
  ASSUME NEW g \in Names
  PROVE  InitialValue(g, "power_gating_vcc") > -1 <=> g = "L3"
<1> DEFINE v == "power_gating_vcc"
<1>1. g \notin {"core", "L3"} => v \in Fields(g)
  <2>1. v \in ParamsOf(g) => Meant(g, v)
    BY AllMeant
  <2>2. v \in ParamsOf(g)
    BY DEF Names, ParamsOf, set_core_param, set_cache_param_L2, set_cache_param_L3,
           set_cache_param_L1Directory, set_cache_param_L2Directory, set_mc_param,
           set_noc_param, set_niu_param, set_pcie_param, set_fc_param
  <2> QED BY <2>1, <2>2 DEF Meant, Fields
<1>2. g # "L3" => v \in Initialised(g)
  <2>1. CASE g = "core"
    <3>1. v \in initialize_core
      BY SameIs DEF initialize_core, core_params
    <3> QED BY <2>1, <3>1 DEF Initialised
  <2>2. CASE g \notin {"core", "L3"}
    BY <1>1, <2>2 DEF Names, Initialised, initialize_L1directory, initialize_L2directory,
       initialize_L2, initialize_NoC, initialize_mc, initialize_niu, initialize_pcie,
       initialize_flashc
  <2> QED BY <2>1, <2>2
<1>3. g = "L3" => v \notin Initialised(g)
  BY DEF Initialised, initialize_L3
<1> QED BY <1>2, <1>3 DEF InitialValue

(* The clocks the units divide by are not zero to begin with.              *)
LEMMA ClocksInitialised ==
  /\ \A g \in Names : \A f \in Divisors(g) : InitialValue(g, f) # 0
  /\ InitialValue("system", "target_core_clockrate") # 0
<1>1. ASSUME NEW g \in Names, NEW f \in Divisors(g) PROVE InitialValue(g, f) # 0
  <2>1. f \in ParamsOf(g) /\ f \in {"clock_rate", "clockrate", "mc_clock"}
    BY <1>1 DEF Divisors
  <2>2. f \in Fields(g)
    BY <2>1, AllMeant DEF Meant, Fields
  <2>3. f \in Initialised(g)
    <3>1. CASE g = "core"
      <4>1. f = "clock_rate"
        BY <2>1, <3>1 DEF ParamsOf, set_core_param
      <4>2. f \in initialize_core
        BY <4>1, SameIs DEF initialize_core, core_params
      <4> QED BY <3>1, <4>2 DEF Initialised
    <3>2. CASE g # "core"
      BY <2>1, <2>2, <3>2 DEF Names, Initialised, initialize_L1directory,
         initialize_L2directory, initialize_L2, initialize_L3, initialize_NoC,
         initialize_mc, initialize_niu, initialize_pcie, initialize_flashc
    <3> QED BY <3>1, <3>2
  <2> QED BY <2>1, <2>3 DEF InitialValue
<1>2. "target_core_clockrate" \in Initialised("system")
  <2> DEFINE v == "target_core_clockrate"
  <2>1. v \in DOMAIN system_params /\ system_params[v] = v
    BY SameIs DEF system_params
  <2>2. v \in DOMAIN (system_params @@ system_stats)
        /\ (system_params @@ system_stats)[v] = v
    BY <2>1, JoinDomain, JoinValue
  <2>3. v \in Fields("system")
    BY <2>2 DEF Fields, Stored
  <2> QED BY <2>3 DEF Initialised, initialize_system
<1>3. InitialValue("system", "target_core_clockrate") # 0
  BY <1>2 DEF InitialValue
<1> QED BY <1>1, <1>3

(* A unit is one of its group, and takes a voltage for a user's only if    *)
(* its component gives one or it is a third level cache.                   *)
Described ==
  unit # "none" =>
    /\ home \in Names /\ unit \in ClassesOf(home) /\ cfg \in Configurations(unit)
    /\ unit = "SharedCache" => home \in cfg
    /\ user_vcc <=> (gives \/ home = "L3")

(* It is so when the unit is built,                                        *)
LEMMA BuiltDescribed == BuildUnit => Described'
<1> SUFFICES ASSUME BuildUnit PROVE Described'
  OBVIOUS
<1>1. PICK g \in GroupNames :
        \E k \in 0 .. NumBuilt(g) - 1, uc \in AllUnits[g] : Build(g, k, uc[1], uc[2])
  BY DEF BuildUnit
<1>2. PICK k \in 0 .. NumBuilt(g) - 1, uc \in AllUnits[g] : Build(g, k, uc[1], uc[2])
  BY <1>1
<1>3. g \in Names
  BY GroupNamesAre
<1>4. home' = g /\ unit' = uc[1] /\ cfg' = uc[2]
      /\ user_vcc' = (gives' \/ InitialValue(VccEntry(g), "power_gating_vcc") > -1)
  BY <1>2 DEF Build, Construct
<1>5. VccEntry(g) \in Names /\ (VccEntry(g) = "L3" <=> g = "L3")
  BY <1>3 DEF VccEntry, Names
<1>6. InitialValue(VccEntry(g), "power_gating_vcc") > -1 <=> g = "L3"
  BY <1>5, VccInitialised
<1>7. user_vcc' <=> (gives' \/ g = "L3")
  BY <1>4, <1>6, Zenon
<1> QED BY <1>3, <1>4, <1>7, UnitClass DEF Described

(* and stays so.                                                           *)
THEOREM DescribedInvariance == Spec => []Described
<1>1. Init => Described
  BY DEF Init, InitUnit, Described
<1>2. Described /\ [Next]_vars => Described'
  <2> SUFFICES ASSUME Described, [Next]_vars PROVE Described'
    OBVIOUS
  <2>1. CASE BuildUnit
    BY <2>1, BuiltDescribed
  <2>2. CASE Live /\ UNCHANGED <<inputVars, chipVars>>
    <3>1. UNCHANGED <<unit, cfg>>
      BY <2>2 DEF Live, ComputePeak, ComputeRun, ComputeEnergy, DisplayEnergy, Destroy
    <3> QED BY <2>2, <3>1 DEF Described, chipVars
  <2>3. CASE UNCHANGED <<lifeVars, chipVars>>
    BY <2>3 DEF Described, lifeVars, chipVars
  <2> QED BY <2>1, <2>2, <2>3 DEF Next, ExitPrivate, ExitFlash, Stopped, vars
<1> QED BY <1>1, <1>2, PTL DEF Spec

(* Whatever the file leaves out, each unit reads parameters and counters   *)
(* its component gives under the names that mean them, home nodes          *)
(* excepted, takes a gating voltage for a user's only if one is given,     *)
(* third level caches excepted, and divides by no clock of zero.           *)
THEOREM InputsRightCorrect == Spec => []InputsRight
<1>1. Described => InputsRight
  <2> SUFFICES ASSUME Described PROVE InputsRight
    OBVIOUS
  <2>1. VccOnlyIfGiven
    BY DEF Described, VccOnlyIfGiven
  <2>2. ClockNeverZero
    BY ClocksInitialised DEF Described, ClockNeverZero
  <2>3. ASSUME unit # "none", NEW f \in Read
        PROVE  Meant(home, f) \/ (unit = "SharedCache" /\ f = "homenode_write_accesses")
    <3>1. f \in ParamsOf(home) \/ f \in Union(Table(unit, cfg).run)
      BY <2>3 DEF Read, T
    <3>2. CASE f \in ParamsOf(home)
      BY <2>3, <3>2, AllMeant DEF Described
    <3>3. CASE f \in Union(Table(unit, cfg).run)
      <4>1. f \in CountersOf(home) \/ (unit = "SharedCache" /\ f = "homenode_write_accesses")
        BY <2>3, <3>3, CountersRead DEF Described
      <4> QED BY <2>3, <4>1, AllMeant DEF Described
    <3> QED BY <3>1, <3>2, <3>3
  <2> QED BY <2>1, <2>2, <2>3 DEF InputsRight, FieldsGiven
<1> QED BY <1>1, DescribedInvariance, PTL
=============================================================================
