-------------------------- MODULE ArrayST_proofs ---------------------------
(***************************************************************************)
(* optimize_array() proved for every list of organisations, every clock    *)
(* and every set of temperatures.                                          *)
(***************************************************************************)
EXTENDS ArrayST, CostModel_proofs

(* optimize_array() has found the first result too slow.                   *)
Tightened == dev # 10000

(* Every result is one of the array's organisations.                       *)
Delivered ==
  /\ \A k \in Calls : k <= calls => \E i \in DOMAIN orgs : org[k] = orgs[i]
  /\ \A k \in Calls : k > calls => org[k] = Null

(* The deviation counts the calls, so that the loop is bounded.            *)
Deviation ==
  /\ calls = 0 <=> pc = "first"
  /\ ~ Tightened => calls \in {0, 1}
  /\ Tightened =>
       /\ pc \notin {"first", "tighten"}
       /\ calls >= 1 /\ dev = StartDev - Step * (calls - 1) /\ dev >= EndDev
  /\ pc = "loop" /\ ~ Tightened => ~ tOver /\ ~ lOver

(* Who holds which data_array2: nothing but local_result and the           *)
(* candidates not yet looked at may be used, and both are allocated.       *)
Heap ==
  /\ live \subseteq 1 .. calls
  /\ \A k \in Calls : k > calls \/ k \in live => freed[k] = 0
  /\ NoDanglingResult
  /\ pc = "tighten" => local = 1
  /\ pc = "ready" => local # Null

(* The candidates are the later results that qualify, in order.            *)
CandidateList ==
  /\ \A i \in 1 .. Len(candidates) :
       candidates[i] \in 2 .. calls /\ Candidate(org[candidates[i]])
  /\ \A i, j \in 1 .. Len(candidates) : i < j => candidates[i] < candidates[j]
  /\ pc \notin {"loop", "select", "exit"} => candidates = <<>>
  /\ pc \in {"loop", "select"} => \A k \in 2 .. calls :
       Candidate(org[k]) => \E i \in 1 .. Len(candidates) : candidates[i] = k

(* What has been looked at, and that the one kept is the best of it.       *)
Selection ==
  /\ pc \in {"first", "tighten", "loop"} => it = 1 /\ kept = Null
  /\ pc = "select" =>
       /\ it <= Len(candidates) + 1
       /\ it > 1 => kept # Null
       /\ kept # Null =>
            /\ local = kept
            /\ \E i \in 1 .. it - 1 : kept = candidates[i]
            /\ \A i \in 1 .. it - 1 : Energy(kept) <= Energy(candidates[i])
  /\ pc = "scale" /\ kept # Null =>
       /\ local = kept
       /\ \A k \in 2 .. calls : Candidate(org[k]) => Energy(kept) <= Energy(k)

(* An array with an associativity takes the first candidate, whose result  *)
(* ends the loop; until then the flags are those of the latest result.     *)
LatestResult ==
  ~ noAssoc /\ pc \in {"tighten", "loop", "select", "scale"} =>
    /\ live = IF local = Null THEN {} ELSE {local}
    /\ local # Null => local = calls
    /\ calls > 1 \/ ~ Tightened => (tOver <=> ~ MeetsThroughput(org[calls]))
    /\ calls > 1 =>
         Eligible(orgs, dev + Step) # {} /\ org[calls] = PickClock(orgs, dev + Step)
    /\ calls = 1 /\ Tightened => tOver /\ local = Null
    /\ Tightened /\ dev > EndDev /\ (tOver \/ lOver) => local = Null
    /\ candidates # <<>> =>
         /\ Len(candidates) = 1 /\ candidates[1] = calls
         /\ MeetsClock(org[calls]) /\ ~ tOver /\ ~ lOver
    /\ kept # Null => MeetsClock(org[kept]) /\ local = kept

IInv == /\ TypeOK /\ Delivered /\ Deviation /\ Heap
        /\ CandidateList /\ Selection /\ LatestResult
-----------------------------------------------------------------------------
(* The constants of the loop: nine calls at most.                          *)
LEMMA LoopConstants ==
  /\ StartDev = 100 /\ Step = 10 /\ EndDev = 20
  /\ MaxCalls = 9 /\ Calls = 1 .. 9
  /\ Null \notin Calls
  BY ArrayAssumption DEF StartDev, Step, EndDev, MaxCalls, Calls

(* What the organisations of an array are.                                 *)
LEMMA OrgsType ==
  ASSUME NEW s \in OrgLists
  PROVE  /\ DOMAIN s \subseteq Nat /\ 1 \in DOMAIN s
         /\ \A i \in DOMAIN s : Figures[s[i]] \in [Metrics -> Nat]
         /\ Least(s) \in [Metrics -> Nat]
<1>1. s \in Seq(DOMAIN Figures) /\ s # <<>>
  BY ArrayAssumption
<1>2. DOMAIN s \subseteq Nat /\ 1 \in DOMAIN s
  BY <1>1
<1>3. \A i \in DOMAIN s : s[i] \in DOMAIN Figures
  BY <1>1
<1>4. \A i \in DOMAIN s : Figures[s[i]] \in [Metrics -> Nat]
  BY <1>3, ArrayAssumption
<1>5. Least(s) \in [Metrics -> Nat]
  <2> DEFINE F == {Figures[s[i]] : i \in DOMAIN s}
  <2>1. F \subseteq [Metrics -> Nat] /\ F # {}
    BY <1>2, <1>4
  <2> HIDE DEF F
  <2>2. LeastFigures(F) \in [Metrics -> Nat]
    BY <2>1, LeastFiguresBound
  <2> QED BY <2>2 DEF Least, F
<1> QED BY <1>2, <1>4, <1>5

(* The scan for the least value finds one and keeps the first.             *)
LEMMA FirstLeastFound ==
  ASSUME NEW D, D \subseteq Nat, D # {}, NEW val \in [D -> Nat]
  PROVE  /\ FirstLeast(D, val) \in D
         /\ \A j \in D : \/ val[FirstLeast(D, val)] < val[j]
                         \/ /\ val[FirstLeast(D, val)] = val[j]
                            /\ FirstLeast(D, val) <= j
<1> DEFINE V == {val[i] : i \in D}
           First_(i) == \A j \in D : val[i] < val[j] \/ (val[i] = val[j] /\ i <= j)
<1>0. V \in SUBSET Nat /\ V # {}
  <2>1. \A i \in D : val[i] \in Nat
    OBVIOUS
  <2>2. PICK i : i \in D
    OBVIOUS
  <2> QED BY <2>1, <2>2
<1>1. PICK v \in V : \A w \in V : v <= w
  <2> HIDE DEF V
  <2> QED BY <1>0, SmallestExists
<1> DEFINE E == {i \in D : val[i] = v}
<1>2. PICK i \in E : \A j \in E : i <= j
  <2>1. E \subseteq Nat /\ E # {}
    BY <1>1
  <2> QED BY <2>1, SmallestExists
<1>3. First_(i) /\ i \in D
  <2> SUFFICES ASSUME NEW j \in D
               PROVE  val[i] < val[j] \/ (val[i] = val[j] /\ i <= j)
    BY <1>2
  <2>1. val[i] = v /\ val[i] \in Nat /\ val[j] \in Nat /\ v <= val[j]
    BY <1>1, <1>2
  <2>2. CASE val[j] = v
    BY <2>1, <2>2, <1>2
  <2>3. CASE val[j] # v
    BY <2>1, <2>3
  <2> QED BY <2>2, <2>3
<1> HIDE DEF First_
<1>4. FirstLeast(D, val) = CHOOSE k \in D : First_(k)
  BY DEF FirstLeast, First_
<1>5. FirstLeast(D, val) \in D /\ First_(FirstLeast(D, val))
  BY <1>3, <1>4
<1> QED BY <1>5 DEF First_

(* solve() delivers an organisation of the array's list.                   *)
LEMMA PickEd2Type ==
  ASSUME NEW s \in OrgLists
  PROVE  \E i \in DOMAIN s : PickEd2(s) = s[i]
<1> DEFINE val == [i \in DOMAIN s |-> EnergyDelay(Figures[s[i]], 2)]
<1>1. DOMAIN s \subseteq Nat /\ DOMAIN s # {}
  BY OrgsType
<1>2. val \in [DOMAIN s -> Nat]
  BY OrgsType, EnergyDelayType
<1> HIDE DEF val
<1>3. FirstLeast(DOMAIN s, val) \in DOMAIN s
  BY <1>1, <1>2, FirstLeastFound
<1> QED BY <1>3 DEF PickEd2, val

Costs(s, d) ==
  [i \in Eligible(s, d) |-> WeightedCost(Figures[s[i]], Least(s), ClockWt)]

(* Every admissible organisation has a cost.                               *)
LEMMA CostsType ==
  ASSUME NEW s \in OrgLists, NEW d
  PROVE  /\ Eligible(s, d) \subseteq DOMAIN s /\ Eligible(s, d) \subseteq Nat
         /\ Costs(s, d) \in [Eligible(s, d) -> Nat]
<1>1. Eligible(s, d) \subseteq DOMAIN s
  BY DEF Eligible
<1>2. ClockWt \in [Metrics -> Nat]
  BY DEF ClockWt
<1>3. \A i \in DOMAIN s : WeightedCost(Figures[s[i]], Least(s), ClockWt) \in Nat
  BY <1>2, OrgsType, WeightedCostType
<1> QED BY <1>1, <1>3, OrgsType DEF Costs

(* CACTI picks an admissible organisation of least cost, the first of      *)
(* several.                                                                *)
LEMMA PickClockType ==
  ASSUME NEW s \in OrgLists, NEW d, Eligible(s, d) # {}
  PROVE  \E i \in Eligible(s, d) :
           /\ PickClock(s, d) = s[i]
           /\ \A j \in Eligible(s, d) : \/ Costs(s, d)[i] < Costs(s, d)[j]
                                        \/ Costs(s, d)[i] = Costs(s, d)[j] /\ i <= j
<1>1. FirstLeast(Eligible(s, d), Costs(s, d)) \in Eligible(s, d)
  BY CostsType, FirstLeastFound
<1>2. PickClock(s, d) = s[FirstLeast(Eligible(s, d), Costs(s, d))]
  BY DEF PickClock, Costs
<1> QED BY <1>1, <1>2, CostsType, FirstLeastFound

(* A smaller deviation never makes the loop deliver a slower organisation: *)
(* it delivers the same one or one whose cycle time the old deviation      *)
(* admitted and the new one does not.                                      *)
LEMMA ClockMonotone ==
  ASSUME NEW s \in OrgLists, NEW d \in Nat, NEW e \in Nat, d <= e,
         Eligible(s, d) # {}
  PROVE  /\ Eligible(s, e) # {}
         /\ Figures[PickClock(s, d)].cyc <= Figures[PickClock(s, e)].cyc
<1>1. ClockDev(d) \in [Metrics -> Nat] /\ ClockDev(e) \in [Metrics -> Nat]
  BY DEF ClockDev
<1>2. \A m \in Metrics : ClockDev(d)[m] <= ClockDev(e)[m]
  BY DEF ClockDev
<1>3. Eligible(s, d) \subseteq Eligible(s, e)
  BY <1>1, <1>2, OrgsType, WithinDevMonotone DEF Eligible
<1>4. PICK i \in Eligible(s, d) :
        /\ PickClock(s, d) = s[i]
        /\ \A j \in Eligible(s, d) : \/ Costs(s, d)[i] < Costs(s, d)[j]
                                     \/ Costs(s, d)[i] = Costs(s, d)[j] /\ i <= j
  BY PickClockType
<1>5. PICK k \in Eligible(s, e) :
        /\ PickClock(s, e) = s[k]
        /\ \A j \in Eligible(s, e) : \/ Costs(s, e)[k] < Costs(s, e)[j]
                                     \/ Costs(s, e)[k] = Costs(s, e)[j] /\ k <= j
  BY <1>3, PickClockType
<1>6. "cyc" \in Metrics
  BY DEF Metrics
<1>7. Figures[s[i]].cyc \in Nat /\ Figures[s[k]].cyc \in Nat
  BY <1>6, OrgsType DEF Eligible
<1>8. CASE k \in Eligible(s, d)
  <2>1. Costs(s, d)[i] = Costs(s, e)[i] /\ Costs(s, d)[k] = Costs(s, e)[k]
    BY <1>3, <1>8 DEF Costs
  <2>2. Costs(s, d)[i] \in Nat /\ Costs(s, d)[k] \in Nat /\ i \in Nat /\ k \in Nat
    BY <1>8, CostsType
  <2>3. i = k
    BY <1>3, <1>4, <1>5, <1>8, <2>1, <2>2
  <2> QED BY <1>4, <1>5, <1>7, <2>3
<1>9. CASE k \notin Eligible(s, d)
  <2> DEFINE least == Least(s)
  <2>1. PICK m \in Metrics :
          ~ ((Figures[s[k]][m] - least[m]) * 100 <= ClockDev(d)[m] * least[m])
    BY <1>9 DEF Eligible, WithinDev
  <2>2. m = "cyc"
    <3> SUFFICES ASSUME m # "cyc" PROVE FALSE
      OBVIOUS
    <3>1. ClockDev(d)[m] = ClockDev(e)[m]
      BY DEF ClockDev
    <3> QED BY <2>1, <3>1 DEF Eligible, WithinDev
  <2>3. ~ ((Figures[s[k]].cyc - least["cyc"]) * 100 <= d * least["cyc"])
    BY <1>6, <2>1, <2>2 DEF ClockDev
  <2>4. (Figures[s[i]].cyc - least["cyc"]) * 100 <= d * least["cyc"]
    BY <1>6 DEF Eligible, WithinDev, ClockDev
  <2>5. least["cyc"] \in Nat /\ d * least["cyc"] \in Nat
    BY <1>6, OrgsType
  <2> HIDE DEF least
  <2>6. ASSUME NEW x \in Nat, NEW y \in Nat, NEW z \in Nat, NEW b \in Nat,
               ~ ((y - z) * 100 <= b), (x - z) * 100 <= b
        PROVE  x <= y
    BY <2>6
  <2>7. Figures[s[i]].cyc <= Figures[s[k]].cyc
    BY <1>7, <2>3, <2>4, <2>5, <2>6
  <2> QED BY <1>4, <1>5, <2>7
<1> QED BY <1>3, <1>8, <1>9

-----------------------------------------------------------------------------
(* A turn of the loop that delivers a result.                              *)
LEMMA RetryTurn ==
  ASSUME IInv, Retry, Eligible(orgs, dev) # {}
  PROVE  /\ Tightened /\ calls \in 1 .. 8 /\ dev = StartDev - Step * (calls - 1)
         /\ calls + 1 \in Calls /\ dev - Step \in Nat
         /\ \E i \in DOMAIN orgs : PickClock(orgs, dev) = orgs[i]
<1>1. Tightened
  BY DEF IInv, Retry, Deviation, TypeOK
<1>2. calls >= 1 /\ dev = 100 - 10 * (calls - 1) /\ dev > 20 /\ calls \in Nat
  BY <1>1, LoopConstants DEF IInv, Retry, DevLeft, Deviation, TypeOK
<1>3. calls \in 1 .. 8
  BY <1>2
<1>4. \E i \in DOMAIN orgs : PickClock(orgs, dev) = orgs[i]
  BY PickClockType, CostsType DEF IInv, TypeOK
<1> QED BY <1>1, <1>2, <1>3, <1>4, LoopConstants

(* Before the first request nothing is asked for, kept or released.        *)
LEMMA InitIInv == Init => IInv
<1> SUFFICES ASSUME Init PROVE IInv
  OBVIOUS
<1> USE LoopConstants
<1>1. TypeOK
  BY ArrayAssumption DEF Init, TypeOK
<1>2. Delivered /\ Deviation
  BY DEF Init, Delivered, Deviation, Tightened
<1>3. Heap /\ CandidateList /\ Selection /\ LatestResult
  BY DEF Init, Heap, NoDanglingResult, CandidateList, Selection, LatestResult
<1> QED BY <1>1, <1>2, <1>3 DEF IInv

(* Every step keeps the types.                                             *)
LEMMA TypeStep == IInv /\ [Next]_vars => TypeOK'
<1> SUFFICES ASSUME IInv, [Next]_vars PROVE TypeOK'
  OBVIOUS
<1>0. TypeOK
  BY DEF IInv
<1>c. /\ 1 \in Calls /\ Null \notin Calls
      /\ \A n \in Calls : n \in 0 .. MaxCalls
  BY LoopConstants
<1>1. CASE First
  BY <1>0, <1>1, <1>c DEF First, Deliver, TypeOK, array, thermal, IInv, Deviation
<1>2. CASE Tighten
  <2>1. local = 1 /\ 1 \in Calls
    BY <1>2, <1>c DEF Tighten, IInv, Heap
  <2>2. freed' \in [Calls -> Nat]
    BY <1>0, <1>2, <2>1 DEF Tighten, Release, TypeOK
  <2>3. dev' \in Nat /\ local' \in Calls \cup {Null} /\ live' \subseteq Calls
    <3>1. /\ dev' = dev \/ dev' = 100
          /\ local' = local \/ local' = Null
          /\ live' = live \/ live' = live \ {local}
      BY <1>2, LoopConstants DEF Tighten
    <3> QED BY <1>0, <3>1 DEF TypeOK
  <2>4. tOver' \in BOOLEAN /\ lOver' \in BOOLEAN
    BY <1>0, <1>2 DEF Tighten, TypeOK
  <2>5. pc' = "loop" /\ UNCHANGED <<array, calls, org, candidates, it, kept>>
        /\ UNCHANGED thermal
    BY <1>2 DEF Tighten
  <2> QED BY <1>0, <2>2, <2>3, <2>4, <2>5 DEF TypeOK, array, thermal
<1>3. CASE Retry
  <2>1. CASE Eligible(orgs, dev) = {}
    BY <1>0, <1>3, <2>1 DEF Retry, TypeOK, array, thermal
  <2>2. CASE Eligible(orgs, dev) # {}
    <3>1. calls + 1 \in Calls /\ dev - Step \in Nat
      BY <1>3, <2>2, RetryTurn
    <3>2. org' = [org EXCEPT ![calls + 1] = PickClock(orgs, dev)] /\ calls' = calls + 1
      BY <1>3, <2>2 DEF Retry, Deliver
    <3>3. candidates' \in Seq(Calls)
      <4>1. candidates' = candidates \/ candidates' = Append(candidates, calls + 1)
        BY <1>3, <2>2 DEF Retry
      <4>2. candidates \in Seq(Calls)
        BY <1>0 DEF TypeOK
      <4> QED BY <3>1, <4>1, <4>2
    <3>4. local' \in Calls \cup {Null} /\ live' \subseteq Calls
      BY <1>0, <1>3, <2>2, <3>1, Zenon DEF Retry, TypeOK
    <3>6. freed' \in [Calls -> Nat]
      <4>1. freed' = freed \/ freed' = Release(calls + 1)
        BY <1>3, <2>2 DEF Retry
      <4> QED BY <1>0, <3>1, <4>1 DEF Release, TypeOK
    <3>5. tOver' \in BOOLEAN /\ lOver' \in BOOLEAN
      BY <1>0, <1>3, <2>2 DEF Retry, TypeOK
    <3>7. /\ dev' = dev - Step /\ UNCHANGED <<pc, array, it, kept>>
          /\ UNCHANGED thermal
      BY <1>3, <2>2 DEF Retry
    <3>8. calls' \in 0 .. MaxCalls /\ DOMAIN org' = Calls
      BY <1>0, <1>c, <3>1, <3>2 DEF TypeOK
    <3> QED BY <1>0, <3>1, <3>3, <3>4, <3>5, <3>6, <3>7, <3>8
          DEF TypeOK, array, thermal
  <2> QED BY <2>1, <2>2
<1>4. CASE LoopEnd
  BY <1>0, <1>4 DEF LoopEnd, TypeOK, array, thermal
<1>5. CASE Select
  <2>1. candidates[it] \in Calls
    <3>1. it \in 1 .. Len(candidates) /\ candidates \in Seq(Calls)
      BY <1>0, <1>5 DEF Select, TypeOK
    <3> QED BY <3>1
  <2> QED BY <1>0, <1>5, <2>1, SMTT(30) DEF Select, Release, TypeOK, array, thermal
<1>6. CASE SelectEnd
  BY <1>0, <1>6 DEF SelectEnd, TypeOK, array, thermal
<1>7. CASE Scale
  BY <1>0, <1>7 DEF Scale, TypeOK, array, thermal
<1>8. ASSUME NEW c \in Temps, LeakageFeedback(c)
      PROVE  TypeOK'
  BY <1>0, <1>8, ArrayAssumption DEF LeakageFeedback, TypeOK, array
<1>9. CASE Destroy
  <2>1. freed' \in [Calls -> Nat]
    <3>1. freed' = [freed EXCEPT ![local] = @ + 1]
      BY <1>9 DEF Destroy, Release
    <3>2. freed \in [Calls -> Nat]
      BY <1>0 DEF TypeOK
    <3>3. local \in Calls
      BY <1>0, <1>9 DEF Destroy, TypeOK, IInv, Heap
    <3> QED BY <3>1, <3>2, <3>3
  <2> QED BY <1>0, <1>9, <2>1 DEF Destroy, TypeOK, array, thermal
<1>10. CASE UNCHANGED vars
  BY <1>0, <1>10 DEF TypeOK, vars
<1> QED BY <1>1, <1>2, <1>3, <1>4, <1>5, <1>6, <1>7, <1>8, <1>9, <1>10
      DEF Next, Optimize, Ended

(* Every result there is stays an organisation of its array.               *)
LEMMA DeliveredStep == IInv /\ [Next]_vars => Delivered'
<1> SUFFICES ASSUME IInv, [Next]_vars PROVE Delivered'
  OBVIOUS
<1>0. TypeOK /\ Delivered
  BY DEF IInv
<1>c. Calls = 1 .. 9
  BY LoopConstants
<1>1. CASE First
  <2>1. calls = 0 /\ calls' = 1 /\ orgs' = orgs
    BY <1>1 DEF First, Deliver, array, IInv, Deviation
  <2>2. org' = [org EXCEPT ![1] = PickEd2(orgs)]
    BY <1>1, <2>1 DEF First, Deliver
  <2>3. \E i \in DOMAIN orgs : PickEd2(orgs) = orgs[i]
    BY <1>0, PickEd2Type DEF TypeOK
  <2> QED BY <1>0, <1>c, <2>1, <2>2, <2>3 DEF TypeOK, Delivered
<1>2. CASE Retry
  <2>1. CASE Eligible(orgs, dev) = {}
    BY <1>0, <1>2, <2>1 DEF Retry, Delivered, array
  <2>2. CASE Eligible(orgs, dev) # {}
    <3>1. calls \in 1 .. 8 /\ \E i \in DOMAIN orgs : PickClock(orgs, dev) = orgs[i]
      BY <1>2, <2>2, RetryTurn
    <3>2. /\ org' = [org EXCEPT ![calls + 1] = PickClock(orgs, dev)]
          /\ calls' = calls + 1 /\ orgs' = orgs
      BY <1>2, <2>2 DEF Retry, Deliver, array
    <3>3. \A k \in Calls : org'[k] = IF k = calls + 1 THEN PickClock(orgs, dev) ELSE org[k]
      BY <1>0, <3>2 DEF TypeOK
    <3>4. \A k \in Calls : k <= calls + 1 => k <= calls \/ k = calls + 1
      BY <1>c, <3>1
    <3>5. \A k \in Calls : k > calls + 1 => k > calls /\ k # calls + 1
      BY <1>c, <3>1
    <3> QED BY <1>0, <3>1, <3>2, <3>3, <3>4, <3>5 DEF Delivered
  <2> QED BY <2>1, <2>2
<1>3. CASE UNCHANGED <<orgs, calls, org>>
  BY <1>0, <1>3 DEF Delivered
<1> QED BY <1>1, <1>2, <1>3 DEF Next, Optimize, Ended, vars, array, Tighten, LoopEnd,
      Select, SelectEnd, Scale, LeakageFeedback, Destroy

(* Only a retry lowers the deviation asked for.                            *)
LEMMA DeviationStep == IInv /\ [Next]_vars => Deviation'
<1> SUFFICES ASSUME IInv, [Next]_vars PROVE Deviation'
  OBVIOUS
<1>0. TypeOK /\ Deviation
  BY DEF IInv
<1> USE LoopConstants DEF Tightened
<1>1. CASE First
  BY <1>0, <1>1 DEF First, Deliver, TypeOK, Deviation
<1>2. CASE Tighten
  <2>1. calls = 1 /\ dev = 10000 /\ calls' = calls /\ pc' = "loop"
    BY <1>0, <1>2 DEF Tighten, TypeOK, Deviation
  <2>2. dev' = 100 \/ (dev' = dev /\ ~ tOver' /\ ~ lOver')
    BY <1>2 DEF Tighten
  <2> QED BY <2>1, <2>2 DEF Deviation
<1>3. CASE Retry
  <2>1. CASE Eligible(orgs, dev) = {}
    BY <1>0, <1>3, <2>1 DEF Retry, Deviation, TypeOK
  <2>2. CASE Eligible(orgs, dev) # {}
    <3>1. calls \in 1 .. 8 /\ dev = 100 - 10 * (calls - 1) /\ dev > 20
      BY <1>3, <2>2, RetryTurn DEF Retry, DevLeft
    <3>2. calls' = calls + 1 /\ dev' = dev - 10 /\ pc' = "loop"
      BY <1>3, <2>2 DEF Retry, Deliver
    <3> QED BY <3>1, <3>2 DEF Deviation
  <2> QED BY <2>1, <2>2
<1>4. CASE LoopEnd \/ Select \/ SelectEnd \/ Scale \/ Destroy
  BY <1>0, <1>4 DEF LoopEnd, Select, SelectEnd, Scale, Destroy, Deviation
<1>5. ASSUME NEW c \in Temps, LeakageFeedback(c)
      PROVE  Deviation'
  BY <1>0, <1>5 DEF LeakageFeedback, Deviation
<1>6. CASE UNCHANGED vars
  BY <1>0, <1>6 DEF vars, Deviation
<1> QED BY <1>1, <1>2, <1>3, <1>4, <1>5, <1>6 DEF Next, Optimize, Ended


(* What Heap says of a state, with the pairwise different candidates spelt *)
(* out for the step that looks at one of them.                             *)
LEMMA HeapStep == IInv /\ [Next]_vars => Heap'
<1> SUFFICES ASSUME IInv, [Next]_vars PROVE Heap'
  OBVIOUS
<1>0. TypeOK /\ Heap
  BY DEF IInv
<1>c. Calls = 1 .. 9 /\ Null \notin Calls /\ Null # 1
  BY LoopConstants
<1>t. /\ freed \in [Calls -> Nat] /\ calls \in Nat /\ it \in Nat \ {0}
      /\ candidates \in Seq(Calls) /\ local \in Calls \cup {Null}
  BY <1>0, LoopConstants DEF TypeOK
<1>h. /\ local # Null => local \in live
      /\ \A i \in it .. Len(candidates) : candidates[i] \in live
  BY <1>0 DEF Heap, NoDanglingResult
<1>l. calls \in Nat /\ live \subseteq 1 .. calls
  BY <1>0, <1>t DEF Heap
<1>z. \A k \in Calls : k > calls \/ k \in live => freed[k] = 0
  BY <1>0 DEF Heap
<1>o. \A k \in Calls : freed[k] <= 1
  BY <1>0 DEF Heap, NoDanglingResult
<1> USE DEF Heap, NoDanglingResult
<1>1. CASE First
  <2>1. /\ calls = 0 /\ calls' = 1 /\ local' = 1 /\ live' = {1}
        /\ freed' = freed /\ candidates' = <<>> /\ it' = it
        /\ pc' \in {"tighten", "scale"}
    BY <1>1 DEF First, Deliver, IInv, Deviation, CandidateList
  <2>2. \A k \in Calls : freed[k] = 0
    BY <1>0, <1>c, <2>1
  <2> QED BY <1>c, <1>t, <2>1, <2>2
<1>2. CASE Tighten
  <2>1. /\ local = 1 /\ 1 \in live /\ freed[1] = 0
        /\ candidates = <<>> /\ it = 1 /\ pc' = "loop"
        /\ UNCHANGED <<calls, candidates, it>>
    BY <1>0, <1>2, <1>c DEF Tighten, IInv, CandidateList, Selection
  <2>2. CASE tOver \/ lOver
    <3>1. freed' = [freed EXCEPT ![1] = @ + 1] /\ live' = live \ {1} /\ local' = Null
      BY <1>2, <2>1, <2>2 DEF Tighten, Release
    <3>2. \A k \in Calls : freed'[k] = IF k = 1 THEN 1 ELSE freed[k]
      BY <1>t, <1>c, <2>1, <3>1
    <3>3. 1 <= calls
      BY <1>0, <1>t, <2>1
    <3> QED BY <1>0, <1>c, <1>t, <2>1, <3>1, <3>2, <3>3
  <2>3. CASE ~ (tOver \/ lOver)
    <3>1. UNCHANGED <<freed, live, local>>
      BY <1>2, <2>3 DEF Tighten
    <3> QED BY <1>0, <2>1, <3>1
  <2> QED BY <2>2, <2>3
<1>3. CASE Retry
  <2> DEFINE k == calls + 1
  <2>1. CASE Eligible(orgs, dev) = {}
    <3>1. UNCHANGED <<calls, local, candidates, it, live, freed>> /\ pc' = "exit"
      BY <1>3, <2>1 DEF Retry
    <3> QED BY <1>0, <3>1
  <2>2. CASE Eligible(orgs, dev) # {}
    <3>1. k \in Calls /\ k \notin live /\ freed[k] = 0 /\ k \in Nat
      BY <1>0, <1>3, <1>t, <2>2, RetryTurn
    <3>2. calls' = k /\ it' = it /\ it = 1 /\ pc' = "loop"
      BY <1>3, <2>2 DEF Retry, Deliver, IInv, Selection
    <3>3. CASE Candidate(PickClock(orgs, dev))
      <4>1. /\ candidates' = Append(candidates, k) /\ local' = k
            /\ live' = live \cup {k} /\ freed' = freed
        BY <1>3, <2>2, <3>3 DEF Retry
      <4>2. \A i \in 1 .. Len(candidates') : candidates'[i] \in live'
        BY <1>0, <1>t, <3>1, <3>2, <4>1
      <4>3. live' \subseteq 1 .. calls'
        BY <1>l, <3>2, <4>1
      <4>4. \A j \in Calls : j > calls' \/ j \in live' => freed'[j] = 0
        BY <1>c, <1>l, <1>z, <3>1, <3>2, <4>1
      <4> QED BY <1>h, <1>o, <3>2, <4>1, <4>2, <4>3, <4>4
    <3>4. CASE ~ Candidate(PickClock(orgs, dev)) /\ MayRelease
      <4>1. /\ candidates' = candidates /\ local' = Null /\ live' = live
            /\ freed' = [freed EXCEPT ![k] = @ + 1]
        BY <1>3, <2>2, <3>4 DEF Retry, Release
      <4>2. \A j \in Calls : freed'[j] = IF j = k THEN 1 ELSE freed[j]
        BY <1>t, <3>1, <4>1
      <4>3. k \notin live' /\ live' \subseteq 1 .. k
        BY <1>l, <3>1, <4>1
      <4>4. \A j \in Calls : j > calls' \/ j \in live' => freed'[j] = 0
        BY <1>c, <1>l, <1>z, <3>1, <3>2, <4>1, <4>2
      <4>5. \A j \in Calls : freed'[j] <= 1
        BY <1>o, <4>2
      <4> QED BY <1>h, <3>2, <4>1, <4>3, <4>4, <4>5
    <3>5. CASE ~ Candidate(PickClock(orgs, dev)) /\ ~ MayRelease
      <4>1. /\ candidates' = candidates /\ local' = k
            /\ live' = live \cup {k} /\ freed' = freed
        BY <1>3, <2>2, <3>5 DEF Retry
      <4> QED BY <1>0, <1>t, <3>1, <3>2, <4>1
    <3> QED BY <3>3, <3>4, <3>5
  <2> QED BY <2>1, <2>2
<1>4. CASE Select
  <2> DEFINE k == candidates[it]
  <2>1. /\ pc = "select" /\ pc' = "select" /\ it' = it + 1 /\ it \in 1 .. Len(candidates)
        /\ calls' = calls /\ candidates' = candidates
    BY <1>0, <1>4 DEF Select, TypeOK
  <2>2. k \in Calls /\ k \in live /\ freed[k] = 0 /\ k <= calls
    <3>1. k \in Calls /\ k \in live
      BY <1>0, <1>t, <2>1
    <3>2. k \in 1 .. calls
      BY <1>l, <3>1
    <3> QED BY <1>l, <1>z, <3>1, <3>2
  <2>3. CASE LessEnergy(k)
    <3>1. local' = k /\ live' = live /\ freed' = freed
      BY <1>4, <2>3 DEF Select
    <3> QED BY <1>0, <1>t, <2>1, <2>2, <3>1
  <2>4. CASE ~ LessEnergy(k)
    <3>1. local' = local /\ live' = live \ {k} /\ freed' = [freed EXCEPT ![k] = @ + 1]
      BY <1>4, <2>4 DEF Select, Release
    <3>2. \A j \in Calls : freed'[j] = IF j = k THEN 1 ELSE freed[j]
      BY <1>t, <2>2, <3>1
    <3>3. \A i \in it + 1 .. Len(candidates) : candidates[i] # k /\ candidates[i] \in live
      <4>1. \A i \in it + 1 .. Len(candidates) :
               i \in it .. Len(candidates) /\ i \in 1 .. Len(candidates) /\ it < i
        BY <1>t
      <4>2. \A i \in it + 1 .. Len(candidates) : k < candidates[i]
        BY <2>1, <4>1 DEF IInv, CandidateList
      <4> QED BY <1>h, <2>2, <1>c, <4>1, <4>2
    <3>4. local # k
      <4>1. kept # Null
        BY <2>4 DEF LessEnergy
      <4>2. local = kept /\ \E i \in 1 .. it - 1 : kept = candidates[i]
        BY <2>1, <4>1 DEF IInv, Selection
      <4>3. \A i \in 1 .. it - 1 : candidates[i] < k /\ candidates[i] \in Calls
        BY <1>t, <2>1 DEF IInv, CandidateList
      <4> QED BY <1>c, <2>2, <4>2, <4>3
    <3>5. live' \subseteq 1 .. calls'
      BY <1>l, <2>1, <3>1
    <3>9. \A j \in Calls : freed'[j] <= 1
      BY <1>o, <3>2
    <3>8. \A j \in Calls : j > calls' \/ j \in live' => freed'[j] = 0
      BY <1>c, <1>l, <1>z, <2>1, <2>2, <3>1, <3>2
    <3>6. local' # Null => local' \in live'
      BY <1>h, <3>1, <3>4
    <3>7. \A i \in it' .. Len(candidates') : candidates'[i] \in live'
      BY <2>1, <3>1, <3>3
    <3> QED BY <2>1, <3>5, <3>6, <3>7, <3>8, <3>9
  <2> QED BY <2>3, <2>4
<1>5. CASE LoopEnd
  BY <1>0, <1>5 DEF LoopEnd
<1>6. CASE SelectEnd
  BY <1>0, <1>t, <1>6 DEF SelectEnd
<1>7. CASE Scale
  BY <1>0, <1>7 DEF Scale
<1>8. ASSUME NEW c \in Temps, LeakageFeedback(c)
      PROVE  Heap'
  BY <1>0, <1>8 DEF LeakageFeedback
<1>9. CASE Destroy
  <2>1. /\ local \in Calls /\ local \in live /\ freed[local] = 0
        /\ freed' = [freed EXCEPT ![local] = @ + 1] /\ live' = live \ {local}
        /\ local' = Null /\ pc' = "destroyed" /\ UNCHANGED <<calls, candidates, it>>
    BY <1>0, <1>t, <1>9 DEF Destroy, Release
  <2>2. \A j \in Calls : freed'[j] = IF j = local THEN 1 ELSE freed[j]
    BY <1>t, <2>1
  <2>3. local <= calls /\ candidates = <<>>
    BY <1>0, <1>t, <1>9, <2>1 DEF Destroy, IInv, CandidateList
  <2> QED BY <1>0, <1>t, <2>1, <2>2, <2>3
<1>10. CASE UNCHANGED vars
  BY <1>0, <1>10 DEF vars
<1> QED BY <1>1, <1>2, <1>3, <1>4, <1>5, <1>6, <1>7, <1>8, <1>9, <1>10
      DEF Next, Optimize, Ended


(* Only a result that meets the bounds becomes a candidate.                *)
LEMMA CandidateListStep == IInv /\ [Next]_vars => CandidateList'
<1> SUFFICES ASSUME IInv, [Next]_vars PROVE CandidateList'
  OBVIOUS
<1>0. CandidateList
  BY DEF IInv
<1>t. candidates \in Seq(Calls) /\ calls \in Nat /\ DOMAIN org = Calls
  BY LoopConstants DEF IInv, TypeOK
<1>c. Calls = 1 .. 9
  BY LoopConstants
<1>1. CASE First
  <2>1. candidates' = <<>> /\ pc' \notin {"loop", "select"}
    BY <1>1 DEF First, CandidateList, IInv
  <2> QED BY <2>1 DEF CandidateList
<1>2. CASE Tighten
  <2>1. candidates = <<>> /\ candidates' = <<>> /\ calls = 1 /\ calls' = 1
    BY <1>0, <1>2 DEF Tighten, CandidateList, IInv, Deviation, Tightened, TypeOK
  <2> QED BY <2>1 DEF CandidateList
<1>3. CASE Retry
  <2> DEFINE k == calls + 1
             o == PickClock(orgs, dev)
  <2>1. CASE Eligible(orgs, dev) = {}
    <3>1. UNCHANGED <<calls, org, candidates, noAssoc>> /\ pc = "loop" /\ pc' = "exit"
      BY <1>3, <2>1 DEF Retry, array
    <3> QED BY <1>0, <3>1 DEF CandidateList, Candidate
  <2>2. CASE Eligible(orgs, dev) # {}
    <3>1. /\ pc = "loop" /\ pc' = "loop" /\ calls' = k /\ noAssoc' = noAssoc
          /\ org' = [org EXCEPT ![k] = o] /\ k \in Calls /\ k \in 2 .. 9
      BY <1>3, <2>2, RetryTurn DEF Retry, Deliver, array
    <3>2. org'[k] = o /\ \A j \in Calls : j # k => org'[j] = org[j]
      BY <1>t, <3>1
    <3>3. \A j \in 2 .. calls : org'[j] = org[j]
      BY <1>c, <1>t, <3>1, <3>2
    <3>4. \A x : Candidate(x)' <=> Candidate(x)
      BY <3>1 DEF Candidate
    <3>5. CASE Candidate(o)
      <4>1. candidates' = Append(candidates, k)
        BY <1>3, <2>2, <3>5 DEF Retry
      <4>2. /\ Len(candidates') = Len(candidates) + 1 /\ candidates'[Len(candidates) + 1] = k
            /\ \A i \in 1 .. Len(candidates) : candidates'[i] = candidates[i]
        BY <1>t, <4>1
      <4>3. ASSUME NEW i \in 1 .. Len(candidates')
            PROVE  candidates'[i] \in 2 .. calls' /\ Candidate(org[candidates[i]])'
        <5>1. CASE i = Len(candidates) + 1
          BY <3>1, <3>2, <3>5, <4>2, <5>1 DEF Candidate
        <5>2. CASE i \in 1 .. Len(candidates)
          BY <1>0, <1>t, <3>1, <3>3, <4>2, <5>2 DEF CandidateList, Candidate
        <5> QED BY <1>t, <4>2, <5>1, <5>2
      <4>4. ASSUME NEW i \in 1 .. Len(candidates'), NEW j \in 1 .. Len(candidates'), i < j
            PROVE  candidates'[i] < candidates'[j]
        <5>1. i \in 1 .. Len(candidates) /\ candidates'[i] \in 2 .. calls
          BY <1>0, <1>t, <4>2, <4>4 DEF CandidateList
        <5>2. CASE j = Len(candidates) + 1
          BY <1>t, <4>2, <5>1, <5>2
        <5>3. CASE j \in 1 .. Len(candidates)
          BY <1>0, <4>2, <4>4, <5>1, <5>3 DEF CandidateList
        <5> QED BY <1>t, <4>2, <5>2, <5>3
      <4>5. ASSUME NEW j \in 2 .. calls', Candidate(org[j])'
            PROVE  \E i \in 1 .. Len(candidates') : candidates'[i] = j
        <5>1. CASE j = k
          BY <1>t, <4>2, <5>1
        <5>2. CASE j \in 2 .. calls
          <6>1. Candidate(org[j])
            BY <3>1, <3>3, <4>5, <5>2 DEF Candidate
          <6>2. PICK i \in 1 .. Len(candidates) : candidates[i] = j
            BY <1>0, <3>1, <5>2, <6>1 DEF CandidateList
          <6> QED BY <1>t, <4>2, <6>2
        <5> QED BY <1>t, <3>1, <5>1, <5>2
      <4> QED BY <3>1, <4>3, <4>4, <4>5 DEF CandidateList
    <3>6. CASE ~ Candidate(o)
      <4>1. candidates' = candidates
        BY <1>3, <2>2, <3>6 DEF Retry
      <4>2. ASSUME NEW i \in 1 .. Len(candidates')
            PROVE  candidates'[i] \in 2 .. calls' /\ Candidate(org[candidates[i]])'
        BY <1>0, <1>t, <3>1, <3>3, <4>1 DEF CandidateList, Candidate
      <4>3. ASSUME NEW j \in 2 .. calls', Candidate(org[j])'
            PROVE  \E i \in 1 .. Len(candidates') : candidates'[i] = j
        <5>1. j # k
          BY <3>1, <3>2, <3>6, <4>3 DEF Candidate
        <5>2. j \in 2 .. calls
          BY <1>t, <3>1, <5>1
        <5>3. Candidate(org[j])
          BY <3>1, <3>3, <4>3, <5>2 DEF Candidate
        <5> QED BY <1>0, <3>1, <4>1, <5>2, <5>3 DEF CandidateList
      <4> QED BY <1>0, <3>1, <4>1, <4>2, <4>3 DEF CandidateList
    <3> QED BY <3>5, <3>6
  <2> QED BY <2>1, <2>2
<1>4. CASE SelectEnd
  BY <1>4 DEF SelectEnd, CandidateList
<1>5. CASE LoopEnd \/ Select
  <2>1. /\ UNCHANGED <<calls, org, candidates, noAssoc>>
        /\ pc \in {"loop", "select"} /\ pc' = "select"
    BY <1>5 DEF LoopEnd, Select, array
  <2> QED BY <1>0, <2>1 DEF CandidateList, Candidate
<1>6. CASE Scale \/ Destroy \/ \E c \in Temps : LeakageFeedback(c)
  <2>1. /\ UNCHANGED <<calls, org, candidates, noAssoc>> /\ candidates = <<>>
        /\ pc' \notin {"loop", "select"}
    BY <1>0, <1>6 DEF Scale, Destroy, LeakageFeedback, array, CandidateList
  <2> QED BY <2>1 DEF CandidateList
<1>7. CASE UNCHANGED vars
  BY <1>0, <1>7 DEF vars, CandidateList, Candidate
<1> QED BY <1>1, <1>2, <1>3, <1>4, <1>5, <1>6, <1>7 DEF Next, Optimize, Ended

(* The energies that are compared are natural numbers.                     *)
LEMMA EnergyType ==
  ASSUME IInv, NEW k \in 1 .. calls
  PROVE  Energy(k) \in Nat
<1>1. k \in Calls
  <2>1. TypeOK
    BY DEF IInv
  <2>2. calls \in 0 .. MaxCalls
    BY <2>1 DEF TypeOK
  <2> QED BY <2>2, LoopConstants
<1>2. PICK i \in DOMAIN orgs : org[k] = orgs[i]
  BY <1>1 DEF IInv, Delivered
<1>3. Figures[orgs[i]] \in [Metrics -> Nat]
  BY OrgsType DEF IInv, TypeOK
<1> QED BY <1>2, <1>3 DEF Energy, Metrics

(* The best so far stays the least of those looked at.                     *)
LEMMA SelectionStep == IInv /\ [Next]_vars => Selection'
<1> SUFFICES ASSUME IInv, [Next]_vars PROVE Selection'
  OBVIOUS
<1>0. Selection
  BY DEF IInv
<1>t. candidates \in Seq(Calls) /\ calls \in Nat /\ it \in Nat \ {0}
  BY LoopConstants DEF IInv, TypeOK
<1>1. CASE First \/ Tighten
  BY <1>0, <1>1 DEF First, Tighten, Selection
<1>2. CASE Retry
  BY <1>0, <1>2 DEF Retry, Selection
<1>3. CASE LoopEnd
  BY <1>0, <1>t, <1>3 DEF LoopEnd, Selection
<1>4. CASE Select
  <2> DEFINE k == candidates[it]
  <2>1. /\ pc = "select" /\ pc' = "select" /\ it' = it + 1 /\ it \in 1 .. Len(candidates)
        /\ candidates' = candidates /\ org' = org
    BY <1>t, <1>4 DEF Select
  <2>2. \A j : Energy(j)' = Energy(j)
    BY <2>1 DEF Energy
  <2>3. \A i \in 1 .. Len(candidates) : Energy(candidates[i]) \in Nat
    BY <1>t, EnergyType DEF IInv, CandidateList
  <2>4. \A i \in 1 .. it : i \in 1 .. Len(candidates) /\ (i = it \/ i \in 1 .. it - 1)
    BY <1>t, <2>1
  <2>5. it' <= Len(candidates') + 1 /\ 1 .. it' - 1 = 1 .. it /\ it \in 1 .. it
    BY <1>t, <2>1
  <2>6. CASE LessEnergy(k)
    <3>1. local' = k /\ kept' = k
      BY <1>4, <2>6 DEF Select
    <3>2. ASSUME NEW i \in 1 .. it
          PROVE  Energy(k) <= Energy(candidates[i])
      <4>1. CASE i = it
        BY <2>1, <2>3, <4>1
      <4>2. CASE i \in 1 .. it - 1
        <5>1. it > 1
          BY <1>t, <4>2
        <5>2. kept # Null /\ \E j \in 1 .. it - 1 : kept = candidates[j]
          BY <1>0, <2>1, <5>1 DEF Selection
        <5>3. Energy(kept) <= Energy(candidates[i]) /\ Energy(k) < Energy(kept)
          BY <1>0, <2>1, <2>6, <4>2, <5>2 DEF Selection, LessEnergy
        <5>4. Energy(kept) \in Nat /\ Energy(k) \in Nat /\ Energy(candidates[i]) \in Nat
          BY <2>1, <2>3, <2>4, <1>t, <5>2
        <5> QED BY <5>3, <5>4
      <4> QED BY <2>4, <4>1, <4>2
    <3>3. \E i \in 1 .. it : k = candidates[i]
      BY <2>5
    <3>4. \A i \in 1 .. it' - 1 : Energy(kept)' <= Energy(candidates[i])'
      BY <2>1, <2>2, <2>5, <3>1, <3>2
    <3>5. k # Null
      BY <1>t, <2>1, LoopConstants
    <3> QED BY <2>1, <2>5, <3>1, <3>3, <3>4, <3>5 DEF Selection
  <2>7. CASE ~ LessEnergy(k)
    <3>1. local' = local /\ kept' = kept
      BY <1>4, <2>7 DEF Select
    <3>2. kept # Null /\ ~ (Energy(k) < Energy(kept))
      BY <2>7 DEF LessEnergy
    <3>3. local = kept /\ \E j \in 1 .. it - 1 : kept = candidates[j]
      BY <1>0, <2>1, <3>2 DEF Selection
    <3>4. Energy(kept) \in Nat /\ Energy(k) \in Nat
      BY <2>1, <2>3, <1>t, <3>3
    <3>5. \A i \in 1 .. it : Energy(kept) <= Energy(candidates[i])
      BY <1>0, <2>1, <2>4, <3>2, <3>4 DEF Selection
    <3>6. \E j \in 1 .. it : kept = candidates[j]
      BY <1>t, <3>3
    <3> QED BY <2>1, <2>2, <2>5, <3>1, <3>2, <3>3, <3>5, <3>6 DEF Selection
  <2> QED BY <2>6, <2>7
<1>5. CASE SelectEnd
  <2>1. /\ pc = "select" /\ pc' = "scale" /\ it > Len(candidates)
        /\ UNCHANGED <<local, kept, calls, org, noAssoc>>
    BY <1>5 DEF SelectEnd, array
  <2>2. ASSUME kept # Null, NEW k \in 2 .. calls, Candidate(org[k])
        PROVE  Energy(kept) <= Energy(k)
    <3>1. PICK i \in 1 .. Len(candidates) : candidates[i] = k
      BY <2>1, <2>2 DEF IInv, CandidateList
    <3>2. i \in 1 .. it - 1
      BY <1>t, <2>1
    <3> QED BY <1>0, <2>1, <2>2, <3>1, <3>2 DEF Selection
  <2>3. kept # Null => local = kept
    BY <1>0, <2>1 DEF Selection
  <2> QED BY <2>1, <2>2, <2>3 DEF Selection, Energy, Candidate
<1>6. CASE Scale \/ Destroy \/ \E c \in Temps : LeakageFeedback(c)
  BY <1>6 DEF Scale, Destroy, LeakageFeedback, Selection
<1>7. CASE UNCHANGED vars
  BY <1>0, <1>7 DEF vars, Selection, Energy, Candidate
<1> QED BY <1>1, <1>2, <1>3, <1>4, <1>5, <1>6, <1>7 DEF Next, Optimize, Ended


(* The flags stay those of the result last got.                            *)
LEMMA LatestResultStep == IInv /\ [Next]_vars => LatestResult'
<1> SUFFICES ASSUME IInv, [Next]_vars, ~ noAssoc',
                    pc' \in {"tighten", "loop", "select", "scale"}
             PROVE  LatestResult'
  BY DEF LatestResult
<1> DEFINE Body ==
      /\ live = IF local = Null THEN {} ELSE {local}
      /\ local # Null => local = calls
      /\ calls > 1 \/ ~ Tightened => (tOver <=> ~ MeetsThroughput(org[calls]))
      /\ calls > 1 =>
           Eligible(orgs, dev + Step) # {} /\ org[calls] = PickClock(orgs, dev + Step)
      /\ calls = 1 /\ Tightened => tOver /\ local = Null
      /\ Tightened /\ dev > EndDev /\ (tOver \/ lOver) => local = Null
      /\ candidates # <<>> =>
           /\ Len(candidates) = 1 /\ candidates[1] = calls
           /\ MeetsClock(org[calls]) /\ ~ tOver /\ ~ lOver
      /\ kept # Null => MeetsClock(org[kept]) /\ local = kept
<1>s. SUFFICES Body'
  BY DEF LatestResult
<1>0. ~ noAssoc /\ pc \in {"tighten", "loop", "select", "scale"} => Body
  BY DEF IInv, LatestResult
<1>c. Calls = 1 .. 9 /\ Null \notin Calls /\ Null # 1 /\ 1 \in Calls
  BY LoopConstants
<1>t. /\ candidates \in Seq(Calls) /\ calls \in Nat /\ DOMAIN org = Calls
      /\ it \in Nat \ {0} /\ tOver \in BOOLEAN /\ lOver \in BOOLEAN
  BY LoopConstants DEF IInv, TypeOK
<1>1. CASE First
  <2> DEFINE o == PickEd2(orgs)
  <2>1. calls = 0 /\ dev = 10000 /\ candidates = <<>> /\ kept = Null
    BY <1>1 DEF First, IInv, Deviation, Tightened, CandidateList, Selection
  <2>2. tOver' <=> ~ MeetsThroughput(o)
    BY <1>1 DEF First
  <2>3. /\ calls' = calls + 1 /\ org' = [org EXCEPT ![calls + 1] = o]
        /\ local' = 1 /\ live' = {1} /\ UNCHANGED <<dev, candidates, kept>>
    BY <1>1 DEF First, Deliver
  <2>4. calls' = 1 /\ dev' = 10000 /\ candidates' = <<>> /\ kept' = Null
    BY <2>1, <2>3
  <2>5. org'[1] = o
    BY <1>c, <1>t, <2>1, <2>3
  <2>6. calls' > 1 \/ ~ Tightened' => (tOver' <=> ~ MeetsThroughput(org[calls])')
    BY <2>2, <2>4, <2>5 DEF MeetsThroughput
  <2> QED BY <1>c, <2>3, <2>4, <2>6 DEF Tightened
<1>2. CASE Tighten
  <2>1. /\ local = 1 /\ calls = 1 /\ calls' = 1 /\ dev = 10000 /\ live = {1}
        /\ candidates' = <<>> /\ kept' = Null /\ org' = org
        /\ (tOver <=> ~ MeetsThroughput(org[1]))
    <3>1. Body /\ ~ Tightened
      BY <1>0, <1>2 DEF Tighten, array, IInv, Deviation
    <3> QED BY <1>2, <3>1, <1>c, <1>t DEF Tighten, IInv, Heap, Deviation, Tightened,
              CandidateList, Selection
  <2>2. CASE tOver \/ lOver
    <3>1. dev' = 100 /\ tOver' /\ local' = Null /\ live' = live \ {local}
      BY <1>2, <2>2, LoopConstants DEF Tighten
    <3> QED BY <2>1, <3>1 DEF Tightened
  <2>3. CASE ~ (tOver \/ lOver)
    <3>1. UNCHANGED <<dev, tOver, local, live>>
      BY <1>2, <2>3 DEF Tighten
    <3> QED BY <1>c, <2>1, <3>1 DEF Tightened, MeetsThroughput
  <2> QED BY <2>2, <2>3
<1>3. CASE Retry
  <2> DEFINE o == PickClock(orgs, dev)
             k == calls + 1
  <2>1. Eligible(orgs, dev) # {}
    BY <1>3 DEF Retry
  <2>2. /\ Tightened /\ calls \in 1 .. 8 /\ k \in Calls /\ k \in Nat /\ k > 1
        /\ dev = 100 - 10 * (calls - 1) /\ dev > 20 /\ dev \in Nat
    BY <1>3, <2>1, RetryTurn, LoopConstants, SMTT(30) DEF Retry, DevLeft
  <2>3. /\ calls' = k /\ org' = [org EXCEPT ![k] = o] /\ dev' = dev - 10
        /\ UNCHANGED <<orgs, kept, noAssoc>> /\ kept = Null
        /\ pc = "loop" /\ (tOver \/ lOver)
    BY <1>3, <2>1, LoopConstants DEF Retry, Deliver, array, IInv, Selection
  <2>4. org'[k] = o /\ dev' + 10 = dev
    BY <1>t, <2>2, <2>3
  <2>5. Body /\ ~ noAssoc
    BY <1>0, <2>3
  <2>6. candidates = <<>> /\ local = Null /\ live = {}
    BY <2>2, <2>3, <2>5, LoopConstants
  <2>7. ~ tOver => MeetsThroughput(o)
    <3> SUFFICES ASSUME ~ tOver PROVE MeetsThroughput(o)
      OBVIOUS
    <3>1. calls > 1
      BY <2>2, <2>5
    <3>2. MeetsThroughput(org[calls]) /\ org[calls] = PickClock(orgs, dev + 10)
      BY <2>5, <3>1, LoopConstants
    <3>3. Figures[o].cyc <= Figures[org[calls]].cyc
      BY <2>1, <2>2, <3>2, ClockMonotone DEF IInv, TypeOK
    <3>4. Figures[o].cyc \in Nat
      <4>1. PICK i \in DOMAIN orgs : o = orgs[i]
        BY <1>3, <2>1, RetryTurn
      <4> QED BY <4>1, OrgsType DEF IInv, TypeOK, Metrics
    <3>5. Figures[org[calls]].cyc \in Nat
      <4>1. PICK i \in DOMAIN orgs : org[calls] = orgs[i]
        BY <2>2, LoopConstants DEF IInv, Delivered
      <4> QED BY <4>1, OrgsType DEF IInv, TypeOK, Metrics
    <3> QED BY <3>2, <3>3, <3>4, <3>5, ArrayAssumption DEF MeetsThroughput
  <2>8. /\ calls' > 1 /\ calls' # 1
        /\ Eligible(orgs', dev' + Step) # {}
        /\ org'[calls'] = PickClock(orgs', dev' + Step)
        /\ org'[calls'] = o
    BY <2>1, <2>2, <2>3, <2>4, LoopConstants
  <2>9. \A x : (MeetsThroughput(x)' <=> MeetsThroughput(x)) /\ (MeetsClock(x)' <=> MeetsClock(x))
    BY DEF MeetsThroughput, MeetsClock, MeetsLatency
  <2>10. CASE Candidate(o)
    <3>1. MeetsClock(o) /\ MeetsThroughput(o)
      BY <2>5, <2>10 DEF Candidate, MeetsClock
    <3>2. /\ candidates' = Append(candidates, k) /\ local' = k /\ live' = live \cup {k}
          /\ tOver' = (tOver /\ ~ MeetsClock(o)) /\ lOver' = (lOver /\ ~ MeetsClock(o))
      BY <1>3, <2>1, <2>10 DEF Retry
    <3>3. ~ tOver' /\ ~ lOver'
      BY <3>1, <3>2
    <3>4. Len(candidates') = 1 /\ candidates'[1] = k
      BY <2>2, <2>6, <3>2
    <3>5. live' = {k} /\ k # Null
      BY <1>c, <2>2, <2>6, <3>2
    <3> QED BY <2>3, <2>8, <2>9, <3>1, <3>2, <3>3, <3>4, <3>5
  <2>11. CASE ~ Candidate(o)
    <3>1. /\ candidates' = <<>>
          /\ tOver' = (tOver /\ ~ MeetsThroughput(o))
      BY <1>3, <2>1, <2>6, <2>11 DEF Retry
    <3>2. tOver' <=> ~ MeetsThroughput(o)
      BY <2>7, <3>1
    <3>3. IF dev' > 20 THEN local' = Null /\ live' = {} ELSE local' = k /\ live' = {k}
      <4>1. MayRelease <=> dev' > 20
        BY <2>3, LoopConstants DEF MayRelease
      <4> QED BY <1>3, <2>1, <2>6, <2>11, <4>1 DEF Retry
    <3>4. k # Null
      BY <1>c, <2>2
    <3> QED BY <2>3, <2>8, <2>9, <3>1, <3>2, <3>3, <3>4, LoopConstants
  <2> QED BY <2>10, <2>11
<1>4. CASE LoopEnd
  <2>1. Body /\ UNCHANGED <<dev, tOver, lOver, calls, org, local, candidates, kept, live, orgs>>
    BY <1>0, <1>4 DEF LoopEnd, array
  <2> QED BY <2>1 DEF Tightened, MeetsThroughput, MeetsClock, MeetsLatency
<1>5. CASE Select
  <2> DEFINE k == candidates[it]
  <2>1. /\ Body /\ UNCHANGED <<dev, tOver, lOver, calls, org, candidates, orgs>>
        /\ it \in 1 .. Len(candidates) /\ pc = "select"
    BY <1>0, <1>5, <1>t DEF Select, array
  <2>2. /\ candidates # <<>> /\ it = 1 /\ k = calls /\ kept = Null
        /\ calls > 1
    <3>0. candidates # <<>>
      BY <1>t, <2>1
    <3>1. candidates # <<>> /\ it = 1 /\ k = calls
      <4>1. Len(candidates) = 1 /\ candidates[1] = calls
        BY <2>1, <3>0
      <4>2. it \in 1 .. Len(candidates)
        BY <2>1
      <4> QED BY <3>0, <4>1, <4>2
    <3>3. calls > 1
      BY <1>t, <2>1, <3>1 DEF IInv, CandidateList
    <3>2. kept = Null
      <4> SUFFICES ASSUME kept # Null PROVE FALSE
        OBVIOUS
      <4>1. \E i \in 1 .. it - 1 : kept = candidates[i]
        BY <2>1 DEF IInv, Selection
      <4> QED BY <3>1, <4>1
    <3> QED BY <3>1, <3>2, <3>3
  <2>3. local' = k /\ kept' = k /\ live' = live
    BY <1>5, <2>2 DEF Select, LessEnergy
  <2>4. k \in live
    BY <2>1 DEF IInv, Heap, NoDanglingResult
  <2>5. live = {calls} /\ calls # Null
    BY <2>1, <2>2, <2>4
  <2>6. ~ tOver /\ ~ lOver /\ MeetsClock(org[calls])
    BY <2>1, <2>2
  <2> QED BY <2>1, <2>2, <2>3, <2>5, <2>6 DEF Tightened, MeetsThroughput, MeetsClock, MeetsLatency
<1>6. CASE SelectEnd
  <2>1. /\ Body /\ UNCHANGED <<dev, tOver, lOver, calls, org, local, kept, live, orgs>>
        /\ candidates' = <<>>
    BY <1>0, <1>6 DEF SelectEnd, array
  <2> QED BY <2>1 DEF Tightened, MeetsThroughput, MeetsClock, MeetsLatency
<1>7. CASE Scale \/ Destroy \/ \E c \in Temps : LeakageFeedback(c)
  BY <1>7 DEF Scale, Destroy, LeakageFeedback
<1>8. CASE UNCHANGED vars
  <2>1. Body /\ UNCHANGED <<dev, tOver, lOver, calls, org, local, candidates, kept, live, orgs>>
    BY <1>0, <1>8 DEF vars
  <2> QED BY <2>1 DEF Tightened, MeetsThroughput, MeetsClock, MeetsLatency
<1> QED BY <1>1, <1>2, <1>3, <1>4, <1>5, <1>6, <1>7, <1>8 DEF Next, Optimize, Ended

-----------------------------------------------------------------------------
(* The invariant holds in every reachable state.                           *)
THEOREM Invariance == Spec => []IInv
<1>1. IInv /\ [Next]_vars => IInv'
  BY TypeStep, DeliveredStep, DeviationStep, HeapStep, CandidateListStep,
     SelectionStep, LatestResultStep DEF IInv
<1> QED BY InitIInv, <1>1, PTL DEF Spec

(* cleanup() deletes every data_array2 at most once and nothing that       *)
(* optimize_array(), leakage_feedback() or the destructor still use.       *)
THEOREM ResultOwnedCorrect == Spec => []ResultOwned
<1>1. IInv => ResultOwned
  BY DEF IInv, Heap, ResultOwned
<1> QED BY <1>1, Invariance, PTL

(* The warning about the throughput is printed just when the result that   *)
(* is reported misses it, although the flag is the work of several calls;  *)
(* a candidate that was kept meets the clock and nothing else is allocated.*)
THEOREM ReportTruthfulCorrect == Spec => []ReportTruthful
<1>1. IInv => ReportTruthful
  <2> SUFFICES ASSUME IInv, pc = "scale", local # Null, ~ noAssoc
               PROVE  /\ kept # Null => MeetsClock(org[local])
                      /\ tOver <=> ~ MeetsThroughput(org[local])
                      /\ live = {local}
    BY DEF ReportTruthful
  <2>1. /\ live = {local} /\ local = calls
        /\ calls > 1 \/ ~ Tightened => (tOver <=> ~ MeetsThroughput(org[calls]))
        /\ kept # Null => MeetsClock(org[kept]) /\ local = kept
    BY DEF IInv, LatestResult
  <2>2. calls > 1 \/ ~ Tightened
    BY <2>1, LoopConstants DEF IInv, LatestResult, Deviation, TypeOK
  <2> QED BY <2>1, <2>2
<1> QED BY <1>1, Invariance, PTL

(* A CAM keeps the candidate of least energy.                              *)
THEOREM LeastEnergyKeptCorrect == Spec => []LeastEnergyKept
<1>1. IInv => LeastEnergyKept
  <2>1. ASSUME IInv, NEW k \in Calls, org[k] # Null, k > 1
        PROVE  k \in 2 .. calls
    <3>1. calls \in Nat /\ k \in Nat
      BY <2>1, LoopConstants DEF IInv, TypeOK
    <3>2. ~ (k > calls)
      BY <2>1 DEF IInv, Delivered
    <3> QED BY <2>1, <3>1, <3>2
  <2> QED BY <2>1 DEF IInv, Selection, LeastEnergyKept
<1> QED BY <1>1, Invariance, PTL

=============================================================================
