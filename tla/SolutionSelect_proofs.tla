----------------------- MODULE SolutionSelect_proofs -----------------------
(***************************************************************************)
(* solve()'s selection proved for every list of organisations the search   *)
(* may deliver, every weight and every deviation.                          *)
(***************************************************************************)
EXTENDS SolutionSelect, CostModel_proofs, SequenceTheorems

LOCAL INSTANCE SequencesExt

(* What is allocated: the arrays of the two lists, the tag array kept so   *)
(* far and the result's data array, which sols shares.                     *)
Owned ==
  ToSet(Ahead) \cup ToSet(tags) \cup ({best} \ {Null})
    \cup (IF fin = Null THEN {} ELSE {fin[2]})

Heap ==
  /\ live = Owned
  /\ \A i \in Ids : deleted[i] <= 1 /\ (i \in live => deleted[i] = 0)

(* data_arr stays a selection of what was delivered, in order; the part    *)
(* the iterator has passed is filtered.                                    *)
DataList ==
  /\ Distinct(data)
  /\ ToSet(data) \subseteq ToSet(given[1])
  /\ \A j, k \in DOMAIN data : j < k => GivenBefore(data[j], data[k])
  /\ pc # "done" =>
       \A i \in ToSet(given[1]) : DominatedArray(i) \/ i \in ToSet(data)
  /\ pc = "filter_data" =>
       it <= Len(data) + 1 /\ \A j \in 1 .. it - 1 : ~ DominatedArray(data[j])
  /\ pc \in {"filter_tag", "combine", "pick", "cleanup"} =>
       given[1] # <<>> /\ \A j \in DOMAIN data : ~ DominatedArray(data[j])
  /\ pc = "done" => data = <<>>

(* tag_arr is consumed from its back; best is the best of that part.       *)
TagList ==
  /\ Len(tags) <= Len(given[2]) /\ \A j \in DOMAIN tags : tags[j] = given[2][j]
  /\ pc = "filter_data" => tags = given[2] /\ best = Null
  /\ pc \in {"combine", "pick", "cleanup", "done"} => tags = <<>>
  /\ pc \in {"combine", "pick", "cleanup", "done"} => (best = Null <=> ~ IsCache)
  /\ pc = "filter_tag" => IsCache
  /\ best # Null =>
       /\ TagAdmissible(best)
       /\ \E j \in Len(tags) + 1 .. Len(given[2]) : best = given[2][j]
  /\ pc \in {"filter_tag", "combine", "pick", "cleanup"} =>
       \A j \in Len(tags) + 1 .. Len(given[2]) : TagAdmissible(given[2][j]) =>
         best # Null /\ TagCost(best) <= TagCost(given[2][j])

(* Every solution combines the tag array kept with an array of data_arr.   *)
SolutionList ==
  /\ pc \in {"filter_data", "filter_tag"} => sols = <<>>
  /\ pc \in {"filter_data", "filter_tag", "combine"} => fin = Null
  /\ pc = "filter_tag" => it = 1
  /\ \A j \in DOMAIN sols : sols[j][1] = best /\ sols[j][2] \in ToSet(data)
  /\ fin # Null => fin[1] = best /\ (pc # "done" => fin[2] \in ToSet(data))
  /\ pc = "combine" => it <= Len(data) + 1 /\ Len(sols) = it - 1
       /\ \A j \in DOMAIN sols : sols[j] = <<best, data[j]>>
  /\ pc \in {"cleanup", "done"} => fin # Null /\ sols = <<>>
  /\ pc = "cleanup" => it <= Len(data) + 1

(* Where find_optimal_uca() is in data_arr: what lies ahead of the         *)
(* iterator is the tail of what was combined, and of the rest all that     *)
(* counts has been examined.                                               *)
Position == Len(data) - Len(sols) + it

Examination ==
  pc = "pick" =>
    /\ Len(sols) <= Len(data) /\ it <= Len(sols) + 1 /\ data # <<>>
    /\ it = 1 => Len(sols) = Len(data) \/ Len(data) = 1
    /\ it = 1 /\ Len(sols) = Len(data) => fin = Null
    /\ \A j \in it .. Len(sols) :
         sols[j] = <<best, data[Len(data) - Len(sols) + j]>>
    /\ fin # Null => Admissible(fin)
    /\ \A j \in (1 .. Position - 1) \cap Examined :
         Admissible(<<best, data[j]>>) =>
           fin # Null /\ CostOf(fin) <= CostOf(<<best, data[j]>>)

IInv == /\ TypeOK /\ Heap /\ DataList /\ TagList /\ SolutionList
        /\ Examination /\ LeastOfExamined
-----------------------------------------------------------------------------
(* erase() of one element: those behind it move up by one.                 *)
LEMMA RemoveAtProperties ==
  ASSUME NEW S, NEW s \in Seq(S), NEW i \in 1 .. Len(s)
  PROVE  /\ RemoveAt(s, i) \in Seq(S)
         /\ Len(RemoveAt(s, i)) = Len(s) - 1
         /\ \A j \in 1 .. Len(s) - 1 :
              RemoveAt(s, i)[j] = IF j < i THEN s[j] ELSE s[j + 1]
<1> DEFINE front == SubSeq(s, 1, i - 1)
           back  == SubSeq(s, i + 1, Len(s))
<1>1. /\ front \in Seq(S) /\ Len(front) = i - 1
      /\ \A j \in 1 .. i - 1 : front[j] = s[j]
  OBVIOUS
<1>2. /\ back \in Seq(S) /\ Len(back) = Len(s) - i
      /\ \A j \in 1 .. Len(s) - i : back[j] = s[i + j]
  OBVIOUS
<1> HIDE DEF front, back
<1>3. /\ front \o back \in Seq(S)
      /\ Len(front \o back) = Len(s) - 1
      /\ \A j \in 1 .. Len(s) - 1 :
           (front \o back)[j] = IF j < i THEN front[j] ELSE back[j - i + 1]
  <2>1. /\ front \o back \in Seq(S) /\ Len(front \o back) = (i - 1) + (Len(s) - i)
        /\ \A j \in 1 .. (i - 1) + (Len(s) - i) :
             (front \o back)[j] = IF j <= i - 1 THEN front[j] ELSE back[j - (i - 1)]
    <3>1. front \in Seq(S) /\ back \in Seq(S)
      BY <1>1, <1>2
    <3>2. /\ front \o back \in Seq(S) /\ Len(front \o back) = Len(front) + Len(back)
          /\ \A j \in 1 .. Len(front) + Len(back) :
               (front \o back)[j] =
                 IF j <= Len(front) THEN front[j] ELSE back[j - Len(front)]
      BY <3>1, ConcatProperties
    <3>3. Len(front) = i - 1 /\ Len(back) = Len(s) - i
      BY <1>1, <1>2
    <3> QED BY <3>2, <3>3
  <2>2. Len(s) \in Nat /\ (i - 1) + (Len(s) - i) = Len(s) - 1
    OBVIOUS
  <2>3. \A j \in 1 .. Len(s) - 1 : (j <= i - 1 <=> j < i) /\ j - (i - 1) = j - i + 1
    OBVIOUS
  <2> QED BY <2>1, <2>2, <2>3
<1>4. \A j \in 1 .. Len(s) - 1 :
        (front \o back)[j] = IF j < i THEN s[j] ELSE s[j + 1]
  <2> SUFFICES ASSUME NEW j \in 1 .. Len(s) - 1
               PROVE  (front \o back)[j] = IF j < i THEN s[j] ELSE s[j + 1]
    OBVIOUS
  <2>1. CASE j < i
    BY <1>1, <1>3, <2>1
  <2>2. CASE ~ (j < i)
    <3>1. j - i + 1 \in 1 .. Len(s) - i /\ i + (j - i + 1) = j + 1
      BY <2>2
    <3> QED BY <1>2, <1>3, <2>2, <3>1
  <2> QED BY <2>1, <2>2
<1>5. RemoveAt(s, i) = front \o back
  BY DEF RemoveAt, front, back
<1> QED BY <1>3, <1>4, <1>5

(* A sequence without its last element, and that element.                  *)
LEMMA FrontLast ==
  ASSUME NEW S, NEW s \in Seq(S), s # <<>>
  PROVE  /\ Front(s) \in Seq(S) /\ Len(Front(s)) = Len(s) - 1 /\ Len(s) \in Nat \ {0}
         /\ \A j \in 1 .. Len(s) - 1 : Front(s)[j] = s[j]
         /\ Last(s) = s[Len(s)] /\ Last(s) \in S
<1>1. Len(s) \in Nat \ {0}
  OBVIOUS
<1>2. Last(s) = s[Len(s)] /\ s[Len(s)] \in S
  BY <1>1 DEF Last
<1>3. /\ SubSeq(s, 1, Len(s) - 1) \in Seq(S)
      /\ Len(SubSeq(s, 1, Len(s) - 1)) = Len(s) - 1
      /\ \A j \in 1 .. Len(s) - 1 : SubSeq(s, 1, Len(s) - 1)[j] = s[j]
  <2>1. \A j \in 1 .. Len(s) - 1 : j \in 1 .. Len(s)
    BY <1>1
  <2> DEFINE n == Len(s) - 1
  <2>2. 1 \in Int /\ n \in Nat /\ \A j \in 1 .. n : s[j] \in S
    BY <1>1, <2>1
  <2> HIDE DEF n
  <2>3. /\ SubSeq(s, 1, n) \in Seq(S)
        /\ Len(SubSeq(s, 1, n)) = IF 1 <= n THEN n - 1 + 1 ELSE 0
        /\ \A j \in 1 .. n - 1 + 1 : SubSeq(s, 1, n)[j] = s[1 + j - 1]
    BY <2>2, SubSeqProperties
  <2>4. Len(SubSeq(s, 1, n)) = n /\ \A j \in 1 .. n : SubSeq(s, 1, n)[j] = s[j]
    BY <2>2, <2>3
  <2> QED BY <2>3, <2>4 DEF n
<1> QED BY <1>1, <1>2, <1>3 DEF Front

(* Of a list without repetitions nothing else is lost.                     *)
LEMMA RemoveAtDistinct ==
  ASSUME NEW S, NEW s \in Seq(S), NEW i \in 1 .. Len(s), Distinct(s)
  PROVE  /\ Distinct(RemoveAt(s, i))
         /\ ToSet(RemoveAt(s, i)) = ToSet(s) \ {s[i]}
<1> DEFINE r == RemoveAt(s, i)
           back(j) == IF j < i THEN j ELSE j + 1
<1>1. /\ r \in Seq(S) /\ Len(r) = Len(s) - 1
      /\ \A j \in 1 .. Len(s) - 1 : r[j] = s[back(j)]
  BY RemoveAtProperties
<1> HIDE DEF r
<1>2. DOMAIN r = 1 .. Len(s) - 1 /\ DOMAIN s = 1 .. Len(s) /\ Len(s) \in Nat
  BY <1>1
<1>3. \A j \in 1 .. Len(s) - 1 : back(j) \in 1 .. Len(s) /\ back(j) # i
  BY <1>2
<1>4. \A j, k \in 1 .. Len(s) - 1 : back(j) = back(k) => j = k
  BY <1>2
<1>5. ASSUME NEW k \in 1 .. Len(s), k # i
      PROVE  \E j \in 1 .. Len(s) - 1 : back(j) = k
  <2>1. CASE k < i
    BY <1>2, <2>1
  <2>2. CASE k > i
    <3>1. k - 1 \in 1 .. Len(s) - 1 /\ back(k - 1) = k
      BY <1>2, <2>2
    <3> QED BY <3>1
  <2> QED BY <1>2, <1>5, <2>1, <2>2
<1> HIDE DEF back
<1>6. Distinct(r)
  BY <1>1, <1>2, <1>3, <1>4, SMTT(30) DEF Distinct
<1>7. ASSUME NEW x \in ToSet(r) PROVE x \in ToSet(s) /\ x # s[i]
  <2>1. PICK j \in 1 .. Len(s) - 1 : x = s[back(j)]
    BY <1>1, <1>2 DEF ToSet
  <2>2. back(j) \in DOMAIN s /\ back(j) # i /\ i \in DOMAIN s
    BY <1>2, <1>3
  <2> QED BY <2>1, <2>2 DEF ToSet, Distinct
<1>8. ASSUME NEW x \in ToSet(s), x # s[i] PROVE x \in ToSet(r)
  <2>1. PICK k \in 1 .. Len(s) : s[k] = x
    BY <1>2 DEF ToSet
  <2>2. PICK j \in 1 .. Len(s) - 1 : back(j) = k
    BY <1>5, <1>8, <2>1
  <2> QED BY <1>1, <1>2, <2>1, <2>2 DEF ToSet
<1> QED BY <1>6, <1>7, <1>8 DEF r

(* Popping an element of a list without repetitions takes it out of the    *)
(* list.                                                                   *)
LEMMA FrontDistinct ==
  ASSUME NEW S, NEW s \in Seq(S), s # <<>>, Distinct(s)
  PROVE  /\ Distinct(Front(s))
         /\ ToSet(Front(s)) = ToSet(s) \ {Last(s)}
         /\ Last(s) \in ToSet(s)
<1>1. /\ Front(s) \in Seq(S) /\ Len(Front(s)) = Len(s) - 1 /\ Len(s) \in Nat \ {0}
      /\ \A j \in 1 .. Len(s) - 1 : Front(s)[j] = s[j]
      /\ Last(s) = s[Len(s)]
  BY FrontLast
<1>2. DOMAIN Front(s) = 1 .. Len(s) - 1 /\ DOMAIN s = 1 .. Len(s)
  BY <1>1
<1>3. \A j \in 1 .. Len(s) : j \in 1 .. Len(s) - 1 \/ j = Len(s)
  BY <1>1
<1>4. \A j \in 1 .. Len(s) - 1 : j \in 1 .. Len(s) /\ j # Len(s)
  BY <1>1
<1>5. Len(s) \in 1 .. Len(s)
  BY <1>1
<1>6. Distinct(Front(s))
  BY <1>1, <1>2, <1>4 DEF Distinct
<1>7. Last(s) \in ToSet(s)
  BY <1>1, <1>2, <1>5 DEF ToSet
<1>8. ASSUME NEW x \in ToSet(Front(s)) PROVE x \in ToSet(s) /\ x # Last(s)
  <2>1. PICK j \in 1 .. Len(s) - 1 : x = s[j]
    BY <1>1, <1>2 DEF ToSet
  <2> QED BY <1>1, <1>2, <1>4, <1>5, <2>1 DEF ToSet, Distinct
<1>9. ASSUME NEW x \in ToSet(s), x # Last(s) PROVE x \in ToSet(Front(s))
  <2>1. PICK j \in 1 .. Len(s) : x = s[j]
    BY <1>2 DEF ToSet
  <2>2. j \in 1 .. Len(s) - 1
    BY <1>1, <1>3, <1>9, <2>1
  <2> QED BY <1>1, <1>2, <2>1, <2>2 DEF ToSet
<1> QED BY <1>6, <1>7, <1>8, <1>9

(* The part of data_arr that deleting has not reached.                     *)
LEMMA AheadSet ==
  ASSUME NEW S, NEW s \in Seq(S), NEW i \in Nat \ {0}, i <= Len(s) + 1
  PROVE  ToSet(SubSeq(s, i, Len(s))) = {s[j] : j \in i .. Len(s)}
<1>1. /\ DOMAIN SubSeq(s, i, Len(s)) = 1 .. Len(s) - i + 1
      /\ \A j \in 1 .. Len(s) - i + 1 : SubSeq(s, i, Len(s))[j] = s[i + j - 1]
  OBVIOUS
<1>2. \A j \in 1 .. Len(s) - i + 1 : i + j - 1 \in i .. Len(s)
  OBVIOUS
<1>3. \A k \in i .. Len(s) : k - i + 1 \in 1 .. Len(s) - i + 1 /\ i + (k - i + 1) - 1 = k
  OBVIOUS
<1> DEFINE t == SubSeq(s, i, Len(s))
<1> HIDE DEF t
<1>4. ASSUME NEW x \in ToSet(t) PROVE x \in {s[j] : j \in i .. Len(s)}
  <2>1. PICK j \in 1 .. Len(s) - i + 1 : x = s[i + j - 1]
    BY <1>1 DEF ToSet, t
  <2> QED BY <1>2, <2>1
<1>5. ASSUME NEW k \in i .. Len(s) PROVE s[k] \in ToSet(t)
  BY <1>1, <1>3 DEF ToSet, t
<1> QED BY <1>4, <1>5 DEF t

(* The figures and costs that are compared.                                *)
LEMMA ArrayFiguresType ==
  ASSUME NEW i \in Ids
  PROVE  ArrayFigures(Array[i]) \in [Metrics -> Nat]
<1>1. Array[i] \in MemArray
  BY SelectAssumption DEF Ids
<1>2. \A x, y \in Nat : x * y \in Nat
  OBVIOUS
<1> QED BY <1>1, <1>2 DEF ArrayFigures, MemArray, Metrics

(* The figures of a tag and a data array together are numbers.             *)
LEMMA CacheFiguresType ==
  ASSUME NEW t \in MemArray, NEW u \in MemArray
  PROVE  CacheFigures(t, u) \in [Metrics -> Nat]
<1>1. \A x, y \in Nat : x * y \in Nat /\ x + y \in Nat /\ Larger(x, y) \in Nat
  BY DEF Larger
<1>2. /\ t.delay \in Nat /\ t.dyn \in Nat /\ t.leak \in Nat /\ t.height \in Nat
      /\ t.width \in Nat /\ t.cyc \in Nat
      /\ u.delay \in Nat /\ u.dyn \in Nat /\ u.leak \in Nat /\ u.height \in Nat
      /\ u.width \in Nat /\ u.cyc \in Nat
      /\ u.mux \in Nat /\ u.before \in Nat /\ u.after \in Nat
  BY DEF MemArray
<1>3. CacheDelay(t, u) \in Nat
  <2>1. AccessMode \in {"fast", "seq", "normal"}
    BY SelectAssumption
  <2>2. CASE AccessMode = "fast"
    BY <1>1, <1>2, <2>2 DEF CacheDelay
  <2>3. CASE AccessMode = "seq"
    BY <1>1, <1>2, <2>3 DEF CacheDelay
  <2>4. CASE AccessMode = "normal"
    BY <1>1, <1>2, <2>4 DEF CacheDelay
  <2> QED BY <2>1, <2>2, <2>3, <2>4
<1>4. CASE IsCache
  <2> DEFINE f == CacheFigures(t, u)
  <2>1. f = [delay |-> CacheDelay(t, u),
             dyn   |-> t.dyn + u.dyn,
             leak  |-> t.leak + u.leak,
             area  |-> Larger(t.height, u.height) * (t.width + u.width),
             cyc   |-> Larger(t.cyc, u.cyc)]
    BY <1>4 DEF CacheFigures
  <2>2. Larger(t.height, u.height) * (t.width + u.width) \in Nat
    BY <1>1, <1>2
  <2>3. t.dyn + u.dyn \in Nat /\ t.leak + u.leak \in Nat /\ Larger(t.cyc, u.cyc) \in Nat
    BY <1>1, <1>2
  <2> HIDE DEF f
  <2> QED BY <1>3, <2>1, <2>2, <2>3 DEF f, Metrics
<1>5. CASE ~ IsCache
  <2>1. CacheFigures(t, u) = [delay |-> u.delay, dyn |-> u.dyn, leak |-> u.leak,
                              area |-> u.height * u.width, cyc |-> u.cyc]
    BY <1>5 DEF CacheFigures, ArrayFigures
  <2>2. u.height * u.width \in Nat
    BY <1>1, <1>2
  <2> QED BY <1>2, <2>1, <2>2 DEF Metrics
<1> QED BY <1>4, <1>5

(* What the search delivered.                                              *)
LEMMA GivenLists ==
  ASSUME TypeOK
  PROVE  /\ given[1] \in Seq(DataIds) /\ given[2] \in Seq(TagIds)
         /\ Distinct(given[1]) /\ Distinct(given[2])
         /\ ~ IsCache => given[2] = <<>>
<1>1. given \in InitialLists
  BY DEF TypeOK
<1>2. given \in Seq(DataIds) \X Seq(TagIds)
  BY <1>1, SelectAssumption
<1>3. /\ Distinct(given[1]) /\ Distinct(given[2])
      /\ ~ IsCache => given[2] = <<>>
  BY <1>1, ListsAssumption
<1> QED BY <1>2, <1>3

(* Every minimum over the data arrays is attained by one of them.          *)
LEMMA DataMinBound ==
  ASSUME TypeOK, given[1] # <<>>
  PROVE  /\ DataMin \in [Metrics -> Nat]
         /\ \A m \in Metrics : \E i \in ToSet(given[1]) :
              DataMin[m] = ArrayFigures(Array[i])[m]
<1> DEFINE F == {ArrayFigures(Array[i]) : i \in ToSet(given[1])}
<1>1. ToSet(given[1]) \subseteq DataIds /\ given[1][1] \in ToSet(given[1])
  BY GivenLists DEF ToSet
<1>2. F \subseteq [Metrics -> Nat] /\ F # {}
  BY <1>1, ArrayFiguresType DEF Ids
<1>3. DataMin = LeastFigures(F)
  BY DEF DataMin
<1> HIDE DEF F
<1>4. /\ DataMin \in [Metrics -> Nat]
      /\ \A m \in Metrics : \E f \in F : DataMin[m] = f[m]
  BY <1>2, <1>3, LeastFiguresBound
<1> QED BY <1>4 DEF F

(* Every tag array delivered has a cost.                                   *)
LEMMA TagCostType ==
  ASSUME TypeOK, NEW t \in ToSet(given[2])
  PROVE  TagCost(t) \in Nat
<1> DEFINE F == {ArrayFigures(Array[i]) : i \in ToSet(given[2])}
<1>1. ToSet(given[2]) \subseteq TagIds
  BY GivenLists DEF ToSet
<1>2. F \subseteq [Metrics -> Nat] /\ F # {}
  BY <1>1, ArrayFiguresType DEF Ids
<1> HIDE DEF F
<1>3. LeastFigures(F) \in [Metrics -> Nat]
  BY <1>2, LeastFiguresBound
<1>4. ArrayFigures(Array[t]) \in [Metrics -> Nat]
  BY <1>1, ArrayFiguresType DEF Ids
<1> QED BY <1>3, <1>4, WeightedCostType, SelectAssumption DEF TagCost, TagMin, F

(* What find_optimal_uca() compares.                                       *)
LEMMA SolutionFacts ==
  ASSUME TypeOK, TagList, pc \in {"pick", "cleanup"}
  PROVE  /\ AllSolutions = {<<best, d>> : d \in ToSet(data)}
         /\ \A d \in ToSet(data) : CostOf(<<best, d>>) \in Nat
<1>1. best = Null <=> ~ IsCache
  BY DEF TagList
<1>2. AllSolutions = {<<best, d>> : d \in ToSet(data)}
  BY <1>1 DEF AllSolutions, Solutions
<1>3. ToSet(data) \subseteq DataIds
  BY DEF TypeOK, ToSet
<1>4. \A d \in ToSet(data) : Figures(<<best, d>>) \in [Metrics -> Nat]
  <2> SUFFICES ASSUME NEW d \in ToSet(data)
               PROVE  Figures(<<best, d>>) \in [Metrics -> Nat]
    OBVIOUS
  <2>1. Array[d] \in MemArray /\ (best # Null => Array[best] \in MemArray)
    BY <1>3, SelectAssumption DEF TypeOK
  <2> DEFINE t == IF best = Null THEN Array[d] ELSE Array[best]
  <2>2. t \in MemArray
    BY <2>1
  <2>3. Figures(<<best, d>>) = CacheFigures(t, Array[d])
    BY DEF Figures
  <2> HIDE DEF t
  <2> QED BY <2>1, <2>2, <2>3, CacheFiguresType
<1>5. ASSUME NEW d \in ToSet(data)
      PROVE  CostOf(<<best, d>>) \in Nat
  <2> DEFINE F == {Figures(s) : s \in AllSolutions}
  <2>1. F \subseteq [Metrics -> Nat] /\ F # {}
    <3>1. F = {Figures(<<best, e>>) : e \in ToSet(data)}
      BY <1>2
    <3> QED BY <1>4, <3>1
  <2>2. CacheMin = LeastFigures(F)
    BY DEF CacheMin
  <2> HIDE DEF F
  <2>3. CacheMin \in [Metrics -> Nat]
    BY <2>1, <2>2, LeastFiguresBound
  <2>4. Figures(<<best, d>>) \in [Metrics -> Nat] /\ ed \in Nat
    <3>1. Figures(<<best, d>>) \in [Metrics -> Nat]
      BY <1>4
    <3>2. ed \in Objectives
      BY DEF TypeOK
    <3>3. ed \in Nat
      BY <3>2, SelectAssumption
    <3> QED BY <3>1, <3>3
  <2>5. /\ WeightedCost(Figures(<<best, d>>), CacheMin, Wt) \in Nat
        /\ EnergyDelay(Figures(<<best, d>>), ed) \in Nat
    <3> DEFINE G == Figures(<<best, d>>)
    <3>1. G \in [Metrics -> Nat]
      BY <2>4
    <3> HIDE DEF G
    <3>2. WeightedCost(G, CacheMin, Wt) \in Nat
      BY <2>3, <3>1, WeightedCostType, SelectAssumption
    <3>3. EnergyDelay(G, ed) \in Nat
      BY <2>4, <3>1, EnergyDelayType
    <3> QED BY <3>2, <3>3 DEF G
  <2> QED BY <2>5 DEF CostOf
<1> QED BY <1>2, <1>5

(* The part of data_arr that is still referred to.                         *)
LEMMA AheadIs ==
  ASSUME TypeOK, SolutionList
  PROVE  ToSet(Ahead) = IF pc = "cleanup" THEN {data[j] : j \in it .. Len(data)}
                        ELSE ToSet(data)
<1>1. CASE pc = "cleanup"
  <2>1. data \in Seq(DataIds) /\ it \in Nat \ {0} /\ it <= Len(data) + 1
    BY <1>1 DEF TypeOK, SolutionList
  <2>2. ToSet(SubSeq(data, it, Len(data))) = {data[j] : j \in it .. Len(data)}
    BY <2>1, AheadSet
  <2> QED BY <1>1, <2>2 DEF Ahead
<1>2. CASE pc # "cleanup"
  BY <1>2 DEF Ahead
<1> QED BY <1>1, <1>2

(* solve() starts with the lists the search delivers.                      *)
LEMMA InitIInv == Init => IInv
<1> SUFFICES ASSUME Init PROVE IInv
  OBVIOUS
<1>1. TypeOK
  <2>1. given[1] \in Seq(DataIds) /\ given[2] \in Seq(TagIds)
    BY SelectAssumption DEF Init
  <2>2. ToSet(given[1]) \subseteq Ids /\ ToSet(given[2]) \subseteq Ids
    BY <2>1 DEF ToSet, Ids
  <2> QED BY <2>1, <2>2 DEF Init, TypeOK
<1>2. Heap
  BY DEF Init, Heap, Owned, Ahead
<1>3. DataList
  <2>1. Distinct(given[1]) /\ data = given[1] /\ given[1] \in Seq(DataIds)
    BY <1>1, GivenLists DEF Init
  <2> QED BY <2>1 DEF Init, DataList, GivenBefore
<1>4. TagList
  <2>1. given[2] \in Seq(TagIds)
    BY <1>1, GivenLists
  <2> QED BY <2>1 DEF Init, TagList
<1>5. SolutionList /\ Examination /\ LeastOfExamined
  BY DEF Init, SolutionList, Examination, LeastOfExamined
<1> QED BY <1>1, <1>2, <1>3, <1>4, <1>5 DEF IInv

(* Each step in the values it gives the variables.                         *)
LEMMA TypeStep == IInv /\ [Next]_vars => TypeOK'
<1> SUFFICES ASSUME IInv, [Next]_vars PROVE TypeOK'
  OBVIOUS
<1>0. TypeOK
  BY DEF IInv
<1>d. ASSUME NEW i \in Ids, Delete(i)
      PROVE  live' \subseteq Ids /\ deleted' \in [Ids -> Nat]
  BY <1>0, <1>d DEF Delete, TypeOK
<1>k. ASSUME Keep PROVE live' \subseteq Ids /\ deleted' \in [Ids -> Nat]
  BY <1>0, <1>k DEF Keep, TypeOK
<1>f. ASSUME Fail PROVE TypeOK'
  BY <1>0, <1>f DEF Fail, TypeOK
<1>1. CASE FilterData
  <2>1. it \in 1 .. Len(data) /\ data \in Seq(DataIds) /\ it + 1 \in Nat \ {0}
    BY <1>0, <1>1 DEF FilterData, TypeOK
  <2>2. data[it] \in Ids /\ RemoveAt(data, it) \in Seq(DataIds)
    BY <2>1, RemoveAtProperties DEF Ids
  <2>3. live' \subseteq Ids /\ deleted' \in [Ids -> Nat]
    BY <1>1, <1>d, <1>k, <2>2 DEF FilterData
  <2>4. data' \in Seq(DataIds) /\ it' \in Nat \ {0}
    BY <1>1, <2>1, <2>2 DEF FilterData, AfterErase
  <2> QED BY <1>0, <1>1, <2>3, <2>4 DEF FilterData, TypeOK
<1>2. CASE FilterDataEnd
  BY <1>0, <1>2, <1>f DEF FilterDataEnd, TypeOK
<1>3. CASE FilterTag
  <2>1. tags \in Seq(TagIds) /\ tags # <<>>
    BY <1>0, <1>3 DEF FilterTag, TypeOK
  <2>2. Front(tags) \in Seq(TagIds) /\ Last(tags) \in TagIds
    BY <2>1, FrontLast
  <2>3. live' \subseteq Ids /\ deleted' \in [Ids -> Nat]
    BY <1>0, <1>3, <1>d, <1>k, <2>2 DEF FilterTag, Ids, TypeOK
  <2>4. best' \in TagIds \cup {Null}
    BY <1>0, <1>3, <2>2 DEF FilterTag, TypeOK
  <2> QED BY <1>0, <1>3, <2>2, <2>3, <2>4 DEF FilterTag, TypeOK
<1>4. CASE FilterTagEnd
  BY <1>0, <1>4, <1>f DEF FilterTagEnd, TypeOK
<1>5. CASE Combine
  <2>1. it \in 1 .. Len(data) /\ data \in Seq(DataIds) /\ it + 1 \in Nat \ {0}
    BY <1>0, <1>5 DEF Combine, TypeOK
  <2>2. <<best, data[it]>> \in (TagIds \cup {Null}) \X DataIds
    BY <1>0, <2>1 DEF TypeOK
  <2>3. sols \in Seq((TagIds \cup {Null}) \X DataIds)
    BY <1>0 DEF TypeOK
  <2>4. sols' \in Seq((TagIds \cup {Null}) \X DataIds)
    BY <1>5, <2>2, <2>3 DEF Combine
  <2> QED BY <1>0, <1>5, <2>1, <2>4 DEF Combine, TypeOK
<1>6. CASE CombineEnd
  BY <1>0, <1>6, <1>f DEF CombineEnd, TypeOK
<1>7. CASE Pick
  <2> DEFINE P == (TagIds \cup {Null}) \X DataIds
  <2>1. it \in 1 .. Len(sols) /\ sols \in Seq(P) /\ it + 1 \in Nat \ {0}
    BY <1>0, <1>7 DEF Pick, TypeOK
  <2>0. fin \in P \cup {Null}
    BY <1>0 DEF TypeOK
  <2> HIDE DEF P
  <2>2. sols[it] \in P /\ RemoveAt(sols, it) \in Seq(P)
    BY <2>1, RemoveAtProperties
  <2>3. fin' \in P \cup {Null} /\ sols' \in Seq(P)
    BY <1>7, <2>0, <2>1, <2>2 DEF Pick
  <2>4. it' \in Nat \ {0}
    BY <1>7, <2>1 DEF Pick, AfterPickErase
  <2> QED BY <1>0, <1>7, <2>3, <2>4 DEF Pick, TypeOK, P
<1>8. CASE PickEnd
  <2>1. CASE fin = Null
    BY <1>8, <1>f, <2>1 DEF PickEnd
  <2>2. CASE fin # Null
    <3>1. /\ pc' = "cleanup" /\ it' = 1 /\ sols' = <<>>
          /\ UNCHANGED <<given, ed, data, tags, best, fin, live, deleted>>
      BY <1>8, <2>2 DEF PickEnd
    <3>2. sols' \in Seq((TagIds \cup {Null}) \X DataIds)
      BY <3>1
    <3> QED BY <1>0, <3>1, <3>2 DEF TypeOK
  <2> QED BY <2>1, <2>2
<1>9. CASE Cleanup
  <2>1. it \in 1 .. Len(data) /\ data \in Seq(DataIds) /\ it + 1 \in Nat \ {0}
    BY <1>0, <1>9 DEF Cleanup, TypeOK
  <2>2. live' \subseteq Ids /\ deleted' \in [Ids -> Nat]
    <3>1. data[it] \in Ids /\ (Delete(data[it]) \/ Keep)
      BY <1>9, <2>1 DEF Cleanup, Ids
    <3> QED BY <1>d, <1>k, <3>1
  <2> QED BY <1>0, <1>9, <2>1, <2>2 DEF Cleanup, TypeOK
<1>10. CASE CleanupEnd
  BY <1>0, <1>10 DEF CleanupEnd, TypeOK
<1>11. CASE UNCHANGED vars
  BY <1>0, <1>11 DEF vars, TypeOK
<1> QED BY <1>1, <1>2, <1>3, <1>4, <1>5, <1>6, <1>7, <1>8, <1>9, <1>10, <1>11
      DEF Next, Stopped


(* Each deletion is of a mem_array that is owned and no longer referred    *)
(* to.                                                                     *)
LEMMA HeapStep == IInv /\ [Next]_vars => Heap'
<1> SUFFICES ASSUME IInv, [Next]_vars PROVE Heap'
  OBVIOUS
<1>0. TypeOK /\ TypeOK' /\ SolutionList /\ Heap
  BY TypeStep DEF IInv
<1>h. live = Owned /\ \A i \in Ids : deleted[i] <= 1 /\ (i \in live => deleted[i] = 0)
  BY <1>0 DEF Heap
<1>t. /\ data \in Seq(DataIds) /\ tags \in Seq(TagIds) /\ it \in Nat \ {0}
      /\ best \in TagIds \cup {Null} /\ deleted \in [Ids -> Nat]
      /\ Distinct(data) /\ ToSet(data) \subseteq DataIds /\ ToSet(tags) \subseteq TagIds
      /\ DataIds \cap TagIds = {} /\ Null \notin Ids
  <2>1. data \in Seq(DataIds) /\ tags \in Seq(TagIds)
    BY <1>0 DEF TypeOK
  <2>2. ToSet(data) \subseteq DataIds /\ ToSet(tags) \subseteq TagIds
    BY <2>1 DEF ToSet
  <2> QED BY <1>0, <2>1, <2>2, SelectAssumption DEF TypeOK, IInv, DataList, Ids
(* Deleting what is owned, or nothing.                                     *)
<1>d. ASSUME NEW i \in Ids, Delete(i), i \in live, Owned' = Owned \ {i} PROVE Heap'
  <2>1. live' = live \ {i} /\ deleted' = [deleted EXCEPT ![i] = @ + 1] /\ deleted[i] = 0
    BY <1>h, <1>d DEF Delete
  <2>2. \A j \in Ids : deleted'[j] = IF j = i THEN 1 ELSE deleted[j]
    BY <1>t, <2>1
  <2> QED BY <1>h, <1>d, <2>1, <2>2 DEF Heap
<1>k. ASSUME Keep, Owned' = Owned PROVE Heap'
  BY <1>h, <1>k DEF Heap, Keep
<1>a. ASSUME pc' # "cleanup" PROVE Ahead' = data'
  BY <1>a DEF Ahead
<1>b. ASSUME pc # "cleanup" PROVE Ahead = data
  BY <1>b DEF Ahead
<1>f. ASSUME Fail, pc # "cleanup" PROVE Heap'
  BY <1>f, <1>k, <1>b DEF Fail, Owned, Ahead, Keep
<1>1. CASE FilterData
  <2>1. /\ pc = "filter_data" /\ pc' = pc /\ it \in 1 .. Len(data)
        /\ UNCHANGED <<tags, best, fin>> /\ best = Null /\ fin = Null
    BY <1>1, <1>t DEF FilterData, IInv, TagList, SolutionList
  <2>2. Owned = ToSet(data) \cup ToSet(tags) /\ Owned' = ToSet(data') \cup ToSet(tags)
    BY <1>a, <1>b, <2>1 DEF Owned
  <2>3. CASE DominatedArray(data[it])
    <3>1. Delete(data[it]) /\ data' = RemoveAt(data, it)
      BY <1>1, <2>3 DEF FilterData
    <3>2. ToSet(data') = ToSet(data) \ {data[it]}
      BY <1>t, <2>1, <3>1, RemoveAtDistinct
    <3>3. data[it] \in ToSet(data)
      BY <1>t, <2>1 DEF ToSet
    <3>4. data[it] \in Ids /\ data[it] \in live /\ data[it] \notin ToSet(tags)
      BY <1>h, <1>t, <2>2, <3>3 DEF Ids
    <3> QED BY <1>d, <2>2, <3>1, <3>2, <3>4
  <2>4. CASE ~ DominatedArray(data[it])
    BY <1>1, <1>k, <2>2, <2>4 DEF FilterData
  <2> QED BY <2>3, <2>4
<1>2. CASE FilterDataEnd
  <2>1. CASE Fail
    BY <1>2, <1>f, <2>1 DEF FilterDataEnd
  <2>2. CASE ~ Fail
    <3>1. /\ pc # "cleanup" /\ pc' # "cleanup" /\ UNCHANGED <<data, tags, best, fin>>
          /\ Keep
      BY <1>2, <2>2 DEF FilterDataEnd, Keep
    <3> QED BY <1>a, <1>b, <1>k, <3>1 DEF Owned
  <2> QED BY <2>1, <2>2
<1>3. CASE FilterTag
  <2> DEFINE t == Last(tags)
  <2>1. /\ pc = "filter_tag" /\ pc' = pc /\ tags # <<>> /\ tags' = Front(tags)
        /\ UNCHANGED <<data, fin>> /\ fin = Null
    BY <1>3 DEF FilterTag, IInv, SolutionList
  <2>2. Distinct(given[2]) /\ given[2] \in Seq(TagIds)
    BY <1>0, GivenLists
  <2>3. Distinct(tags) /\ best \notin ToSet(tags)
    <3>1. /\ DOMAIN tags = 1 .. Len(tags) /\ DOMAIN given[2] = 1 .. Len(given[2])
          /\ Len(tags) \in Nat /\ Len(given[2]) \in Nat /\ Len(tags) <= Len(given[2])
          /\ \A j \in DOMAIN tags : tags[j] = given[2][j]
      BY <1>t, <2>2 DEF IInv, TagList
    <3>2. Distinct(tags)
      BY <2>2, <3>1 DEF Distinct
    <3>3. best # Null => \E j \in Len(tags) + 1 .. Len(given[2]) : best = given[2][j]
      BY DEF IInv, TagList
    <3>4. ASSUME NEW j \in Len(tags) + 1 .. Len(given[2]), best = given[2][j],
                 NEW k \in DOMAIN tags
          PROVE  best # tags[k]
      <4>1. j \in DOMAIN given[2] /\ k \in DOMAIN given[2] /\ j # k
        BY <3>1
      <4> QED BY <2>2, <3>1, <3>4, <4>1 DEF Distinct
    <3>5. best = Null => best \notin ToSet(tags)
      BY <1>t DEF Ids
    <3> QED BY <3>2, <3>3, <3>4, <3>5 DEF ToSet
  <2>4. t \in TagIds /\ t \in ToSet(tags) /\ ToSet(tags') = ToSet(tags) \ {t}
    BY <1>t, <2>1, <2>3, FrontDistinct
  <2>5. /\ Owned = ToSet(data) \cup ToSet(tags) \cup ({best} \ {Null})
        /\ Owned' = ToSet(data) \cup (ToSet(tags) \ {t}) \cup ({best'} \ {Null})
    BY <1>a, <1>b, <2>1, <2>4 DEF Owned
  <2>6. CASE Cheaper(t) /\ best = Null
    <3>1. best' = t /\ Keep
      BY <1>3, <2>6 DEF FilterTag
    <3>2. Owned' = Owned
      BY <1>t, <2>4, <2>5, <2>6, <3>1 DEF Ids
    <3> QED BY <1>k, <3>1, <3>2
  <2>7. CASE Cheaper(t) /\ best # Null
    <3>1. best' = t /\ Delete(best)
      BY <1>3, <2>7 DEF FilterTag
    <3>2. best \in TagIds /\ best \in Ids /\ best \in live
      BY <1>h, <1>t, <2>5, <2>7 DEF Ids
    <3>3. Owned' = Owned \ {best}
      BY <1>t, <2>3, <2>4, <2>5, <3>1, <3>2 DEF Ids
    <3> QED BY <1>d, <3>1, <3>2, <3>3
  <2>8. CASE ~ Cheaper(t)
    <3>1. best' = best /\ Delete(t)
      BY <1>3, <2>8 DEF FilterTag
    <3>2. t \in Ids /\ t \in live
      BY <1>h, <2>4, <2>5 DEF Ids
    <3>3. Owned' = Owned \ {t}
      BY <1>t, <2>3, <2>4, <2>5, <3>1
    <3> QED BY <1>d, <3>1, <3>2, <3>3
  <2> QED BY <2>6, <2>7, <2>8
<1>4. CASE FilterTagEnd
  <2>1. CASE Fail
    BY <1>4, <1>f, <2>1 DEF FilterTagEnd
  <2>2. CASE ~ Fail
    <3>1. /\ pc # "cleanup" /\ pc' # "cleanup" /\ UNCHANGED <<data, tags, best, fin>>
          /\ Keep
      BY <1>4, <2>2 DEF FilterTagEnd, Keep
    <3> QED BY <1>a, <1>b, <1>k, <3>1 DEF Owned
  <2> QED BY <2>1, <2>2
<1>5. CASE Combine
  <2>1. /\ pc # "cleanup" /\ pc' # "cleanup" /\ UNCHANGED <<data, tags, best, fin>> /\ Keep
    BY <1>5 DEF Combine, Keep
  <2> QED BY <1>a, <1>b, <1>k, <2>1 DEF Owned
<1>6. CASE CombineEnd
  <2>1. CASE Fail
    BY <1>6, <1>f, <2>1 DEF CombineEnd
  <2>2. CASE ~ Fail
    <3>1. /\ pc # "cleanup" /\ pc' # "cleanup" /\ UNCHANGED <<data, tags, best, fin>>
          /\ Keep
      BY <1>6, <2>2 DEF CombineEnd, Keep
    <3> QED BY <1>a, <1>b, <1>k, <3>1 DEF Owned
  <2> QED BY <2>1, <2>2
<1>7. CASE Pick
  <2>1. /\ pc # "cleanup" /\ pc' # "cleanup" /\ UNCHANGED <<data, tags, best>> /\ Keep
        /\ it \in 1 .. Len(sols) /\ fin' \in {fin, sols[it]}
    BY <1>7, <1>t DEF Pick, Keep
  <2>2. fin # Null => fin[2] \in ToSet(data)
    BY <1>0, <1>7 DEF Pick, SolutionList
  <2>3. it \in DOMAIN sols
    BY <1>0, <2>1 DEF TypeOK
  <2>4. sols[it][2] \in ToSet(data)
    BY <1>0, <2>3 DEF SolutionList
  <2>5. fin' # Null => fin'[2] \in ToSet(data)
    BY <2>1, <2>2, <2>4
  <2>6. /\ Owned = ToSet(data) \cup ToSet(tags) \cup ({best} \ {Null})
        /\ Owned' = ToSet(data) \cup ToSet(tags) \cup ({best} \ {Null})
    BY <1>a, <1>b, <2>1, <2>2, <2>5 DEF Owned
  <2> QED BY <1>k, <2>1, <2>6
<1>8. CASE PickEnd
  <2>1. CASE Fail
    BY <1>8, <1>f, <2>1 DEF PickEnd
  <2>2. CASE ~ Fail
    <3>1. /\ pc = "pick" /\ pc' = "cleanup" /\ it' = 1
          /\ UNCHANGED <<data, tags, best, fin>> /\ Keep
      BY <1>8, <2>2 DEF PickEnd, Keep
    <3>2. Ahead' = SubSeq(data, 1, Len(data))
      BY <3>1 DEF Ahead
    <3>3. ToSet(SubSeq(data, 1, Len(data))) = {data[j] : j \in 1 .. Len(data)}
      BY <1>t, AheadSet
    <3>4. ToSet(data) = {data[j] : j \in 1 .. Len(data)}
      BY <1>t DEF ToSet
    <3> QED BY <1>b, <1>k, <3>1, <3>2, <3>3, <3>4 DEF Owned
  <2> QED BY <2>1, <2>2
<1>9. CASE Cleanup
  <2>1. /\ pc = "cleanup" /\ pc' = pc /\ it \in 1 .. Len(data) /\ it' = it + 1
        /\ UNCHANGED <<data, tags, best, fin>> /\ fin # Null
    BY <1>0, <1>9, <1>t DEF Cleanup, SolutionList
  <2>2. ToSet(Ahead) = {data[j] : j \in it .. Len(data)}
    BY <1>0, <2>1, AheadIs
  <2>3. ToSet(Ahead') = {data[j] : j \in it + 1 .. Len(data)}
    <3>1. it + 1 \in Nat \ {0} /\ it + 1 <= Len(data) + 1
      BY <1>t, <2>1
    <3>2. ToSet(SubSeq(data, it + 1, Len(data))) = {data[j] : j \in it + 1 .. Len(data)}
      BY <1>t, <3>1, AheadSet
    <3> QED BY <2>1, <3>2 DEF Ahead
  <2>4. /\ \A j \in it .. Len(data) : j = it \/ j \in it + 1 .. Len(data)
        /\ \A j \in it + 1 .. Len(data) : j \in it .. Len(data) /\ j # it
        /\ it \in it .. Len(data)
        /\ \A j \in it .. Len(data) : j \in DOMAIN data
    BY <1>t, <2>1
  <2>5. ToSet(Ahead') = ToSet(Ahead) \ {data[it]} /\ data[it] \in ToSet(Ahead)
    BY <1>t, <2>2, <2>3, <2>4 DEF Distinct
  <2>6. data[it] \in DataIds
    BY <1>t, <2>1
  <2>7. CASE data[it] # fin[2]
    <3>1. Delete(data[it])
      BY <1>9, <2>7 DEF Cleanup
    <3>2. Owned' = Owned \ {data[it]}
      BY <1>t, <2>1, <2>5, <2>6, <2>7 DEF Owned
    <3>3. data[it] \in live /\ data[it] \in Ids
      BY <1>h, <2>5, <2>6 DEF Owned, Ids
    <3> QED BY <1>d, <3>1, <3>2, <3>3
  <2>8. CASE data[it] = fin[2]
    <3>1. Keep
      BY <1>9, <2>8 DEF Cleanup
    <3>2. Owned' = Owned
      BY <2>1, <2>5, <2>8 DEF Owned
    <3> QED BY <1>k, <3>1, <3>2
  <2> QED BY <2>7, <2>8
<1>10. CASE CleanupEnd
  <2>1. /\ pc = "cleanup" /\ pc' = "done" /\ it > Len(data) /\ data' = <<>>
        /\ UNCHANGED <<tags, best, fin>> /\ Keep
    BY <1>10 DEF CleanupEnd, Keep
  <2>2. ToSet(Ahead) = {data[j] : j \in it .. Len(data)}
    BY <1>0, <2>1, AheadIs
  <2>3. ToSet(Ahead) = {}
    BY <1>t, <2>1, <2>2
  <2>4. ToSet(Ahead') = {}
    BY <2>1 DEF Ahead, ToSet
  <2> QED BY <1>k, <2>1, <2>3, <2>4 DEF Owned
<1>11. CASE UNCHANGED vars
  BY <1>0, <1>11 DEF vars, Heap, Owned, Ahead
<1> QED BY <1>1, <1>2, <1>3, <1>4, <1>5, <1>6, <1>7, <1>8, <1>9, <1>10, <1>11
      DEF Next, Stopped

(* What the search delivered stays, and so does what is judged by it.      *)
LEMMA GivenStays ==
  ASSUME [Next]_vars
  PROVE  /\ given' = given /\ ed' = ed
         /\ \A x : DominatedArray(x)' <=> DominatedArray(x)
         /\ \A x : TagAdmissible(x)' <=> TagAdmissible(x)
         /\ \A x : TagCost(x)' = TagCost(x)
         /\ \A x, y : GivenBefore(x, y)' <=> GivenBefore(x, y)
<1>1. given' = given /\ ed' = ed
  BY DEF Next, FilterData, FilterDataEnd, FilterTag, FilterTagEnd, Combine, CombineEnd,
         Pick, PickEnd, Cleanup, CleanupEnd, Stopped, Fail, vars
<1>2. DataMin' = DataMin /\ TagMin' = TagMin
  BY <1>1 DEF DataMin, TagMin
<1> QED BY <1>1, <1>2 DEF DominatedArray, TagAdmissible, TagCost, GivenBefore

(* A turn of filter_data_arr() erases dominated arrays only.               *)
LEMMA DataListStep == IInv /\ [Next]_vars => DataList'
<1> SUFFICES ASSUME IInv, [Next]_vars PROVE DataList'
  OBVIOUS
<1>0. TypeOK /\ DataList
  BY DEF IInv
<1>g. /\ given' = given
      /\ \A x : DominatedArray(x)' <=> DominatedArray(x)
      /\ \A x, y : GivenBefore(x, y)' <=> GivenBefore(x, y)
  BY GivenStays
<1>t. data \in Seq(DataIds) /\ it \in Nat \ {0} /\ DOMAIN data = 1 .. Len(data)
      /\ Len(data) \in Nat
  BY <1>0 DEF TypeOK
<1>1. CASE FilterData
  <2>1. pc = "filter_data" /\ pc' = pc /\ it \in 1 .. Len(data)
    BY <1>1, <1>t DEF FilterData
  <2>2. CASE DominatedArray(data[it])
    <3>1. data' = RemoveAt(data, it) /\ it' = it
      BY <1>1, <2>2 DEF FilterData, AfterErase
    <3>2. /\ data' \in Seq(DataIds) /\ Len(data') = Len(data) - 1
          /\ \A j \in 1 .. Len(data) - 1 :
               data'[j] = IF j < it THEN data[j] ELSE data[j + 1]
      BY <1>t, <2>1, <3>1, RemoveAtProperties
    <3>3. Distinct(data') /\ ToSet(data') = ToSet(data) \ {data[it]}
      BY <1>0, <1>t, <2>1, <3>1, RemoveAtDistinct DEF DataList
    <3>4. ASSUME NEW j \in DOMAIN data', NEW k \in DOMAIN data', j < k
          PROVE  GivenBefore(data'[j], data'[k])
      <4> DEFINE back(i) == IF i < it THEN i ELSE i + 1
      <4>1. j \in 1 .. Len(data) - 1 /\ k \in 1 .. Len(data) - 1
        BY <3>2
      <4>2. data'[j] = data[back(j)] /\ data'[k] = data[back(k)]
        BY <3>2, <4>1
      <4>3. back(j) \in DOMAIN data /\ back(k) \in DOMAIN data /\ back(j) < back(k)
        BY <1>t, <3>4, <4>1
      <4> HIDE DEF back
      <4> QED BY <1>0, <4>2, <4>3 DEF DataList
    <3>5. \A i \in ToSet(given[1]) : DominatedArray(i) \/ i \in ToSet(data')
      BY <1>0, <2>1, <2>2, <3>3 DEF DataList
    <3>6. it' <= Len(data') + 1 /\ \A j \in 1 .. it - 1 : ~ DominatedArray(data'[j])
      <4>1. \A j \in 1 .. it - 1 : data'[j] = data[j]
        BY <1>t, <2>1, <3>2
      <4> QED BY <1>0, <1>t, <2>1, <3>1, <3>2, <4>1 DEF DataList
    <3>7. ToSet(data') \subseteq ToSet(given[1])
      BY <1>0, <3>3 DEF DataList
    <3> QED BY <1>g, <2>1, <3>1, <3>3, <3>4, <3>5, <3>6, <3>7 DEF DataList
  <2>3. CASE ~ DominatedArray(data[it])
    <3>1. data' = data /\ it' = it + 1
      BY <1>1, <2>3 DEF FilterData
    <3>2. it' <= Len(data) + 1 /\ \A j \in 1 .. it' - 1 : ~ DominatedArray(data[j])
      <4>1. \A j \in 1 .. it' - 1 : j \in 1 .. it - 1 \/ j = it
        BY <1>t, <3>1
      <4> QED BY <1>0, <1>t, <2>1, <2>3, <3>1, <4>1 DEF DataList
    <3> QED BY <1>0, <1>g, <2>1, <3>1, <3>2 DEF DataList
  <2> QED BY <2>2, <2>3
<1>2. CASE FilterDataEnd
  <2>1. pc = "filter_data" /\ it > Len(data) /\ data' = data
    BY <1>2 DEF FilterDataEnd, Fail
  <2>2. pc' \in {"filter_tag", "combine", "exit"} /\ (pc' # "exit" => given[1] # <<>>)
    BY <1>2 DEF FilterDataEnd, Fail
  <2>3. \A j \in DOMAIN data : ~ DominatedArray(data[j])
    <3>1. \A j \in DOMAIN data : j \in 1 .. it - 1
      BY <1>t, <2>1
    <3> QED BY <1>0, <2>1, <3>1 DEF DataList
  <2> QED BY <1>0, <1>g, <2>1, <2>2, <2>3 DEF DataList
<1>3. CASE FilterTag \/ FilterTagEnd \/ Combine \/ CombineEnd \/ Pick \/ PickEnd \/ Cleanup
  <2>1. /\ data' = data /\ pc \in {"filter_tag", "combine", "pick", "cleanup"}
        /\ pc' \in {"filter_tag", "combine", "pick", "cleanup", "exit"}
    BY <1>3 DEF FilterTag, FilterTagEnd, Combine, CombineEnd, Pick, PickEnd, Cleanup, Fail
  <2> QED BY <1>0, <1>g, <2>1 DEF DataList
<1>4. CASE CleanupEnd
  <2>1. data' = <<>> /\ pc' = "done"
    BY <1>4 DEF CleanupEnd
  <2> QED BY <2>1 DEF DataList, Distinct, ToSet
<1>5. CASE UNCHANGED vars
  BY <1>0, <1>5, <1>g DEF vars, DataList
<1> QED BY <1>1, <1>2, <1>3, <1>4, <1>5 DEF Next, Stopped

(* A turn of filter_tag_arr() keeps the best tag array looked at.          *)
LEMMA TagListStep == IInv /\ [Next]_vars => TagList'
<1> SUFFICES ASSUME IInv, [Next]_vars PROVE TagList'
  OBVIOUS
<1>0. TypeOK /\ TagList
  BY DEF IInv
<1>g. /\ given' = given
      /\ \A x : TagAdmissible(x)' <=> TagAdmissible(x)
      /\ \A x : TagCost(x)' = TagCost(x)
  BY GivenStays
<1>t. /\ tags \in Seq(TagIds) /\ given[2] \in Seq(TagIds)
      /\ Len(tags) \in Nat /\ Len(given[2]) \in Nat
      /\ DOMAIN tags = 1 .. Len(tags)
      /\ best \in TagIds \cup {Null} /\ Null \notin TagIds
  BY <1>0, GivenLists, SelectAssumption DEF TypeOK
<1>1. CASE FilterTag
  <2> DEFINE n == Len(tags)
             t == given[2][n]
  <2>1. /\ pc = "filter_tag" /\ pc' = pc /\ tags # <<>> /\ tags' = Front(tags)
        /\ n \in 1 .. Len(given[2])
    BY <1>0, <1>1, <1>t DEF FilterTag, TagList
  <2>2. Last(tags) = t
    <3>1. Last(tags) = tags[Len(tags)] /\ Len(tags) \in Nat \ {0}
      BY <1>t, <2>1, FrontLast
    <3>2. Len(tags) \in DOMAIN tags
      BY <1>t, <3>1
    <3>3. tags[Len(tags)] = given[2][Len(tags)]
      BY <1>0, <3>2 DEF TagList
    <3> QED BY <3>1, <3>3
  <2>3. Len(tags') = n - 1 /\ \A j \in DOMAIN tags' : tags'[j] = given[2][j]
    <3>1. /\ Front(tags) \in Seq(TagIds) /\ Len(Front(tags)) = n - 1
          /\ \A j \in 1 .. n - 1 : Front(tags)[j] = tags[j]
      BY <1>t, <2>1, FrontLast
    <3>2. DOMAIN tags' = 1 .. n - 1 /\ \A j \in 1 .. n - 1 : j \in DOMAIN tags
      BY <1>t, <2>1, <3>1
    <3> QED BY <1>0, <2>1, <3>1, <3>2 DEF TagList
  <2>4. /\ Len(tags') + 1 = n
        /\ \A j \in n .. Len(given[2]) : j = n \/ j \in n + 1 .. Len(given[2])
        /\ \A j \in n + 1 .. Len(given[2]) : j \in n .. Len(given[2])
        /\ n \in n .. Len(given[2])
    <3> DEFINE l == Len(given[2])
    <3>1. l \in Nat /\ n \in 1 .. l /\ Len(tags') = n - 1
      BY <1>t, <2>1, <2>3
    <3> HIDE DEF l, n
    <3>2. n \in Nat /\ Len(tags') + 1 = n /\ n \in n .. l
      BY <3>1
    <3>3. /\ \A j \in n .. l : j = n \/ j \in n + 1 .. l
          /\ \A j \in n + 1 .. l : j \in n .. l
      BY <3>1
    <3> QED BY <3>2, <3>3 DEF l
  <2>5. \A j \in n .. Len(given[2]) : TagCost(given[2][j]) \in Nat
    <3>1. \A j \in n .. Len(given[2]) : given[2][j] \in ToSet(given[2])
      BY <1>t, <2>1 DEF ToSet
    <3> QED BY <1>0, <3>1, TagCostType
  <2>6. /\ best # Null =>
             TagAdmissible(best) /\ \E j \in n + 1 .. Len(given[2]) : best = given[2][j]
        /\ \A j \in n + 1 .. Len(given[2]) : TagAdmissible(given[2][j]) =>
             best # Null /\ TagCost(best) <= TagCost(given[2][j])
    BY <1>0, <2>1 DEF TagList
  <2> HIDE DEF t, n
  <2>7. CASE Cheaper(t)
    <3>1. best' = t /\ t # Null
      BY <1>1, <1>t, <2>1, <2>2, <2>7 DEF FilterTag, t, n
    <3>2. TagAdmissible(t) /\ (best = Null \/ TagCost(t) < TagCost(best))
      BY <2>7 DEF Cheaper
    <3>3. ASSUME NEW j \in n .. Len(given[2]), TagAdmissible(given[2][j])
          PROVE  TagCost(t) <= TagCost(given[2][j])
      <4>1. CASE j = n
        BY <2>4, <2>5, <4>1 DEF t
      <4>2. CASE j \in n + 1 .. Len(given[2])
        <5>1. TagCost(t) < TagCost(best) /\ TagCost(best) <= TagCost(given[2][j])
          BY <2>6, <3>2, <3>3, <4>2
        <5>2. TagCost(t) \in Nat /\ TagCost(best) \in Nat /\ TagCost(given[2][j]) \in Nat
          BY <2>4, <2>5, <2>6, <3>3, <4>2 DEF t
        <5> QED BY <5>1, <5>2
      <4> QED BY <2>4, <4>1, <4>2
    <3>4. t = given[2][n]
      BY DEF t
    <3>5. Len(tags') <= Len(given[2]) /\ IsCache
      BY <1>0, <1>t, <2>1, <2>3 DEF TagList, n
    <3> QED BY <1>g, <2>1, <2>3, <2>4, <3>1, <3>2, <3>3, <3>4, <3>5 DEF TagList
  <2>8. CASE ~ Cheaper(t)
    <3>1. best' = best
      BY <1>1, <2>2, <2>8 DEF FilterTag
    <3>2. ~ TagAdmissible(t) \/ (best # Null /\ ~ (TagCost(t) < TagCost(best)))
      BY <2>8 DEF Cheaper
    <3>3. TagAdmissible(t) => best # Null /\ TagCost(best) <= TagCost(t)
      <4>1. best # Null => TagCost(t) \in Nat /\ TagCost(best) \in Nat
        BY <2>4, <2>5, <2>6 DEF t
      <4> QED BY <3>2, <4>1
    <3>4. t = given[2][n]
      BY DEF t
    <3>5. Len(tags') <= Len(given[2]) /\ IsCache
      BY <1>0, <1>t, <2>1, <2>3 DEF TagList, n
    <3>6. \A j \in n .. Len(given[2]) : TagAdmissible(given[2][j]) =>
            best # Null /\ TagCost(best) <= TagCost(given[2][j])
      BY <2>4, <2>6, <3>3, <3>4
    <3>7. best # Null =>
            TagAdmissible(best) /\ \E j \in n .. Len(given[2]) : best = given[2][j]
      BY <2>4, <2>6
    <3> QED BY <1>g, <2>1, <2>3, <2>4, <3>1, <3>5, <3>6, <3>7 DEF TagList
  <2> QED BY <2>7, <2>8
<1>2. CASE FilterDataEnd
  <2>1. /\ pc = "filter_data" /\ pc' = (IF given[1] = <<>> THEN "exit"
                                        ELSE IF IsCache THEN "filter_tag" ELSE "combine")
        /\ tags' = tags /\ best' = best /\ tags = given[2] /\ best = Null
    BY <1>0, <1>2 DEF FilterDataEnd, Fail, TagList
  <2>2. pc' = "combine" => tags = <<>> /\ ~ IsCache
    BY <1>0, <2>1, GivenLists
  <2>3. \A j \in Len(tags) + 1 .. Len(given[2]) : FALSE
    BY <1>t, <2>1
  <2> QED BY <1>0, <1>g, <1>t, <2>1, <2>2, <2>3 DEF TagList
<1>3. CASE FilterTagEnd
  <2>1. /\ pc = "filter_tag" /\ tags = <<>> /\ tags' = tags /\ best' = best
        /\ pc' = IF best = Null THEN "exit" ELSE "combine"
    BY <1>3 DEF FilterTagEnd, Fail
  <2> QED BY <1>0, <1>g, <2>1 DEF TagList
<1>4. CASE FilterData
  <2>1. pc = "filter_data" /\ UNCHANGED <<pc, tags, best>>
    BY <1>4 DEF FilterData
  <2> QED BY <1>0, <1>g, <2>1 DEF TagList
<1>5. CASE Combine \/ CombineEnd \/ Pick \/ PickEnd \/ Cleanup \/ CleanupEnd
  <2>1. /\ UNCHANGED <<tags, best>> /\ pc \in {"combine", "pick", "cleanup"}
        /\ pc' \in {"combine", "pick", "cleanup", "done", "exit"}
    BY <1>5 DEF Combine, CombineEnd, Pick, PickEnd, Cleanup, CleanupEnd, Fail
  <2> QED BY <1>0, <1>g, <2>1 DEF TagList
<1>6. CASE UNCHANGED vars
  BY <1>0, <1>6, <1>g DEF vars, TagList
<1> QED BY <1>1, <1>2, <1>3, <1>4, <1>5, <1>6 DEF Next, Stopped


(* Solutions combine the tag array kept with the data arrays left.         *)
LEMMA SolutionListStep == IInv /\ [Next]_vars => SolutionList'
<1> SUFFICES ASSUME IInv, [Next]_vars PROVE SolutionList'
  OBVIOUS
<1>0. TypeOK /\ SolutionList
  BY DEF IInv
<1>t. /\ data \in Seq(DataIds) /\ it \in Nat \ {0} /\ Len(data) \in Nat
      /\ DOMAIN data = 1 .. Len(data)
      /\ sols \in Seq((TagIds \cup {Null}) \X DataIds)
      /\ Len(sols) \in Nat /\ DOMAIN sols = 1 .. Len(sols)
  BY <1>0 DEF TypeOK
(* A failure keeps every list.                                             *)
<1>f. ASSUME Fail, pc # "done" PROVE SolutionList'
  <2>1. pc' = "exit" /\ UNCHANGED <<data, best, sols, fin>>
    BY <1>f DEF Fail
  <2> QED BY <1>0, <1>f, <2>1 DEF SolutionList
<1>1. CASE FilterData
  <2>1. pc = "filter_data" /\ UNCHANGED <<pc, best, sols, fin>>
    BY <1>1 DEF FilterData
  <2>2. sols = <<>> /\ fin = Null
    BY <1>0, <2>1 DEF SolutionList
  <2> QED BY <2>1, <2>2 DEF SolutionList
<1>2. CASE FilterDataEnd
  <2>1. CASE Fail
    BY <1>2, <1>f, <2>1 DEF FilterDataEnd
  <2>2. CASE ~ Fail
    <3>1. /\ pc = "filter_data" /\ pc' \in {"filter_tag", "combine"} /\ it' = 1
          /\ UNCHANGED <<data, best, sols, fin>>
      BY <1>2, <2>2 DEF FilterDataEnd
    <3>2. sols = <<>> /\ fin = Null
      BY <1>0, <3>1 DEF SolutionList
    <3>3. 1 <= Len(data) + 1 /\ Len(<<>>) = 1 - 1 /\ DOMAIN <<>> = {}
      BY <1>t
    <3> QED BY <3>1, <3>2, <3>3 DEF SolutionList
  <2> QED BY <2>1, <2>2
<1>3. CASE FilterTag
  <2>1. pc = "filter_tag" /\ UNCHANGED <<pc, it, data, sols, fin>>
    BY <1>3 DEF FilterTag
  <2>2. sols = <<>> /\ fin = Null /\ it = 1
    BY <1>0, <2>1 DEF SolutionList
  <2> QED BY <2>1, <2>2 DEF SolutionList
<1>4. CASE FilterTagEnd
  <2>1. CASE Fail
    BY <1>4, <1>f, <2>1 DEF FilterTagEnd
  <2>2. CASE ~ Fail
    <3>1. /\ pc = "filter_tag" /\ pc' = "combine"
          /\ UNCHANGED <<it, data, best, sols, fin>>
      BY <1>4, <2>2 DEF FilterTagEnd
    <3>2. sols = <<>> /\ fin = Null /\ it = 1
      BY <1>0, <3>1 DEF SolutionList
    <3>3. 1 <= Len(data) + 1 /\ Len(<<>>) = 1 - 1 /\ DOMAIN <<>> = {}
      BY <1>t
    <3> QED BY <3>1, <3>2, <3>3 DEF SolutionList
  <2> QED BY <2>1, <2>2
<1>5. CASE Combine
  <2>1. /\ pc = "combine" /\ it \in 1 .. Len(data) /\ it' = it + 1
        /\ sols' = Append(sols, <<best, data[it]>>) /\ UNCHANGED <<pc, data, best, fin>>
    BY <1>5, <1>t DEF Combine
  <2>2. /\ Len(sols) = it - 1 /\ fin = Null
        /\ \A j \in DOMAIN sols : sols[j] = <<best, data[j]>>
    BY <1>0, <2>1 DEF SolutionList
  <2>3. <<best, data[it]>> \in (TagIds \cup {Null}) \X DataIds
    BY <1>0, <1>t, <2>1 DEF TypeOK
  <2>4. /\ Len(sols') = Len(sols) + 1 /\ DOMAIN sols' = 1 .. Len(sols) + 1
        /\ \A j \in 1 .. Len(sols) : sols'[j] = sols[j]
        /\ sols'[Len(sols) + 1] = <<best, data[it]>>
    BY <1>t, <2>1, <2>3, AppendProperties
  <2>5. /\ it' <= Len(data) + 1 /\ Len(sols') = it' - 1 /\ Len(sols) + 1 = it
        /\ \A j \in 1 .. it : j \in 1 .. Len(sols) \/ j = it
        /\ \A j \in 1 .. it : j \in DOMAIN data
    BY <1>t, <2>1, <2>2, <2>4
  <2>6. \A j \in DOMAIN sols' : sols'[j] = <<best, data[j]>> /\ data[j] \in ToSet(data)
    BY <1>t, <2>2, <2>4, <2>5 DEF ToSet
  <2> QED BY <2>1, <2>2, <2>5, <2>6 DEF SolutionList
<1>6. CASE CombineEnd
  <2>1. CASE Fail
    BY <1>6, <1>f, <2>1 DEF CombineEnd
  <2>2. CASE ~ Fail
    <3>1. pc = "combine" /\ pc' = "pick" /\ UNCHANGED <<data, best, sols, fin>>
      BY <1>6, <2>2 DEF CombineEnd
    <3> QED BY <1>0, <3>1 DEF SolutionList
  <2> QED BY <2>1, <2>2
<1>7. CASE Pick
  <2>1. /\ pc = "pick" /\ pc' = pc /\ it \in 1 .. Len(sols) /\ UNCHANGED <<data, best>>
        /\ fin' \in {fin, sols[it]} /\ sols' \in {sols, RemoveAt(sols, it)}
    BY <1>7, <1>t DEF Pick
  <2>2. ASSUME NEW j \in DOMAIN sols'
        PROVE  sols'[j][1] = best /\ sols'[j][2] \in ToSet(data)
    <3>1. \E k \in DOMAIN sols : sols'[j] = sols[k]
      <4>1. CASE sols' = sols
        BY <4>1
      <4>2. CASE sols' = RemoveAt(sols, it)
        <5>1. /\ DOMAIN RemoveAt(sols, it) = 1 .. Len(sols) - 1
              /\ \A i \in 1 .. Len(sols) - 1 :
                   RemoveAt(sols, it)[i] = IF i < it THEN sols[i] ELSE sols[i + 1]
          <6> DEFINE P == (TagIds \cup {Null}) \X DataIds
          <6>1. sols \in Seq(P) /\ it \in 1 .. Len(sols)
            BY <1>t, <2>1
          <6> HIDE DEF P
          <6>2. /\ RemoveAt(sols, it) \in Seq(P) /\ Len(RemoveAt(sols, it)) = Len(sols) - 1
                /\ \A i \in 1 .. Len(sols) - 1 :
                     RemoveAt(sols, it)[i] = IF i < it THEN sols[i] ELSE sols[i + 1]
            BY <6>1, RemoveAtProperties
          <6> QED BY <6>2
        <5>2. j \in 1 .. Len(sols) - 1
          BY <4>2, <5>1
        <5>3. j \in DOMAIN sols /\ j + 1 \in DOMAIN sols
          BY <1>t, <5>2
        <5> QED BY <4>2, <5>1, <5>2, <5>3
      <4> QED BY <2>1, <4>1, <4>2
    <3> QED BY <1>0, <3>1 DEF SolutionList
  <2>3. it \in DOMAIN sols
    BY <1>t, <2>1
  <2>4. fin' # Null => fin'[1] = best /\ fin'[2] \in ToSet(data)
    BY <1>0, <2>1, <2>3 DEF SolutionList
  <2> QED BY <2>1, <2>2, <2>4 DEF SolutionList
<1>8. CASE PickEnd
  <2>1. CASE Fail
    BY <1>8, <1>f, <2>1 DEF PickEnd
  <2>2. CASE ~ Fail
    <3>1. /\ pc = "pick" /\ pc' = "cleanup" /\ it' = 1 /\ sols' = <<>> /\ fin # Null
          /\ UNCHANGED <<data, best, fin>>
      BY <1>8, <2>2 DEF PickEnd
    <3>2. 1 <= Len(data) + 1 /\ DOMAIN <<>> = {}
      BY <1>t
    <3> QED BY <1>0, <3>1, <3>2 DEF SolutionList
  <2> QED BY <2>1, <2>2
<1>9. CASE Cleanup
  <2>1. /\ pc = "cleanup" /\ it \in 1 .. Len(data) /\ it' = it + 1
        /\ UNCHANGED <<pc, data, best, sols, fin>>
    BY <1>9, <1>t DEF Cleanup
  <2>2. it' <= Len(data) + 1
    BY <1>t, <2>1
  <2> QED BY <1>0, <2>1, <2>2 DEF SolutionList
<1>10. CASE CleanupEnd
  <2>1. pc = "cleanup" /\ pc' = "done" /\ UNCHANGED <<best, sols, fin>>
    BY <1>10 DEF CleanupEnd
  <2>2. sols = <<>> /\ DOMAIN <<>> = {} /\ fin # Null /\ fin[1] = best
    BY <1>0, <2>1 DEF SolutionList
  <2> QED BY <2>1, <2>2 DEF SolutionList
<1>11. CASE UNCHANGED vars
  BY <1>0, <1>11 DEF vars, SolutionList
<1> QED BY <1>1, <1>2, <1>3, <1>4, <1>5, <1>6, <1>7, <1>8, <1>9, <1>10, <1>11
      DEF Next, Stopped

(* While nothing of data_arr, tag_arr or the input changes, the figures    *)
(* and costs stay what they are.                                           *)
LEMMA CostsStay ==
  ASSUME UNCHANGED <<data, best, given, ed>>
  PROVE  /\ AllSolutions' = AllSolutions /\ CacheMin' = CacheMin
         /\ Examined' = Examined
         /\ \A s : Admissible(s)' <=> Admissible(s)
         /\ \A s : CostOf(s)' = CostOf(s)
<1>1. AllSolutions' = AllSolutions
  BY DEF AllSolutions, Solutions
<1>2. CacheMin' = CacheMin
  BY <1>1 DEF CacheMin, Figures
<1> QED BY <1>1, <1>2 DEF Examined, Admissible, CostOf

(* A turn of find_optimal_uca() accounts for the solution under its        *)
(* iterator.                                                               *)
LEMMA ExaminationStep == IInv /\ [Next]_vars => Examination'
<1> SUFFICES ASSUME IInv, [Next]_vars, pc' = "pick"
             PROVE  Examination'
  BY DEF Examination
<1>0. TypeOK /\ SolutionList /\ Examination /\ TagList
  BY DEF IInv
<1>t. /\ data \in Seq(DataIds) /\ it \in Nat \ {0} /\ Len(data) \in Nat
      /\ DOMAIN data = 1 .. Len(data)
      /\ sols \in Seq((TagIds \cup {Null}) \X DataIds)
      /\ Len(sols) \in Nat /\ DOMAIN sols = 1 .. Len(sols)
  BY <1>0 DEF TypeOK
<1>1. CASE CombineEnd
  <2>1. /\ pc = "combine" /\ it > Len(data) /\ sols # <<>> /\ it' = 1
        /\ UNCHANGED <<given, ed, data, tags, best, sols, fin>>
    BY <1>1 DEF CombineEnd, Fail
  <2>2. /\ it <= Len(data) + 1 /\ Len(sols) = it - 1 /\ fin = Null
        /\ \A j \in DOMAIN sols : sols[j] = <<best, data[j]>>
    BY <1>0, <2>1 DEF SolutionList
  <2>3. Len(sols) = Len(data) /\ Len(sols) >= 1 /\ data # <<>>
    BY <1>t, <2>1, <2>2
  <2>4. /\ 1 <= Len(sols) + 1 /\ Position' = 1
        /\ \A j \in 1 .. Len(sols) : j \in DOMAIN sols /\ Len(data) - Len(sols) + j = j
        /\ \A j \in 1 .. 1 - 1 : FALSE
    BY <1>t, <2>1, <2>3 DEF Position
  <2>5. \A j \in 1 .. Len(sols) : sols[j] = <<best, data[Len(data) - Len(sols) + j]>>
    BY <2>2, <2>4
  <2> QED BY <2>1, <2>2, <2>3, <2>4, <2>5 DEF Examination
<1>2. CASE Pick
  <2> DEFINE s == sols[it]
             d == Len(data) - Len(sols)
  <2>1. /\ pc = "pick" /\ it \in 1 .. Len(sols) /\ s = sols[it]
        /\ UNCHANGED <<given, ed, data, best>>
    BY <1>2, <1>t DEF Pick
  <2>2. /\ AllSolutions' = AllSolutions /\ Examined' = Examined
        /\ \A x : Admissible(x)' <=> Admissible(x)
        /\ \A x : CostOf(x)' = CostOf(x)
    BY <2>1, CostsStay
  <2>3. /\ Len(sols) <= Len(data) /\ data # <<>>
        /\ it = 1 => Len(sols) = Len(data) \/ Len(data) = 1
        /\ it = 1 /\ Len(sols) = Len(data) => fin = Null
        /\ fin # Null => Admissible(fin)
    BY <1>0, <2>1 DEF Examination
  <2>4. \A j \in it .. Len(sols) : sols[j] = <<best, data[d + j]>>
    BY <1>0, <2>1 DEF Examination
  <2>5. \A j \in (1 .. d + it - 1) \cap Examined :
          Admissible(<<best, data[j]>>) =>
            fin # Null /\ CostOf(fin) <= CostOf(<<best, data[j]>>)
    <3>1. \A j \in (1 .. Position - 1) \cap Examined :
            Admissible(<<best, data[j]>>) =>
              fin # Null /\ CostOf(fin) <= CostOf(<<best, data[j]>>)
      BY <1>0, <2>1 DEF Examination
    <3>2. Position = d + it
      BY DEF Position, d
    <3>3. d \in Int /\ it \in Int
      <4> DEFINE l == Len(data)
                 k == Len(sols)
      <4>1. l \in Nat /\ k \in Nat /\ it \in Int
        BY <1>t
      <4> HIDE DEF l, k
      <4>2. l - k \in Int
        BY <4>1
      <4> QED BY <4>1, <4>2 DEF d, l, k
    <3> HIDE DEF d
    <3>4. Position \in Int /\ Position - 1 = d + it - 1
      BY <3>2, <3>3
    <3> QED BY <3>1, <3>4
  <2>6. d \in Nat /\ d + it \in 1 .. Len(data) /\ it \in it .. Len(sols)
    <3> DEFINE l == Len(data)
               k == Len(sols)
    <3>1. l \in Nat /\ k \in Nat /\ k <= l /\ it \in 1 .. k
      BY <1>t, <2>1, <2>3
    <3> HIDE DEF l, k
    <3>2. l - k \in Nat /\ l - k + it \in 1 .. l /\ it \in it .. k
      BY <3>1
    <3> QED BY <3>2 DEF l, k
  <2> HIDE DEF d, s
  <2>7. s = <<best, data[d + it]>>
    BY <2>1, <2>4, <2>6
  <2>8. /\ \A j \in 1 .. Len(data) : CostOf(<<best, data[j]>>) \in Nat
        /\ fin # Null => CostOf(fin) \in Nat
    <3>1. \A x \in ToSet(data) : CostOf(<<best, x>>) \in Nat
      BY <1>0, <2>1, SolutionFacts
    <3>2. \A j \in 1 .. Len(data) : data[j] \in ToSet(data)
      BY <1>t DEF ToSet
    <3>3. fin # Null => fin[1] = best /\ fin[2] \in ToSet(data) /\ fin = <<fin[1], fin[2]>>
      BY <1>0, <2>1 DEF SolutionList, TypeOK
    <3> QED BY <3>1, <3>2, <3>3
  <2>9. /\ fin' = IF Improves(s) THEN s ELSE fin
        /\ IF Erased(s) THEN sols' = RemoveAt(sols, it) /\ it' = AfterPickErase
                        ELSE it' = it + 1 /\ sols' = sols
    BY <1>2 DEF Pick, s
  <2>10. s # Null
    <3>1. sols[it] \in (TagIds \cup {Null}) \X DataIds
      BY <1>t, <2>1
    <3>2. Null \notin (TagIds \cup {Null}) \X DataIds
      BY SelectAssumption
    <3> QED BY <2>1, <3>1, <3>2
(* The solution at the iterator, and all before it, are accounted for.     *)
  <2>11. \A j \in (1 .. d + it) \cap Examined :
          Admissible(<<best, data[j]>>) =>
            fin' # Null /\ CostOf(fin') <= CostOf(<<best, data[j]>>)
    <3> SUFFICES ASSUME NEW j \in (1 .. d + it) \cap Examined,
                        Admissible(<<best, data[j]>>)
                 PROVE  fin' # Null /\ CostOf(fin') <= CostOf(<<best, data[j]>>)
      OBVIOUS
    <3>1. j = d + it \/ j \in (1 .. d + it - 1) \cap Examined
      BY <2>6
    <3>2. j \in 1 .. Len(data)
      BY <1>t, <2>6
    <3>3. CASE Improves(s)
      <4>1. fin' = s /\ (fin = Null \/ CostOf(s) < CostOf(fin))
        BY <2>9, <3>3 DEF Improves
      <4>2. CostOf(s) \in Nat
        BY <2>6, <2>7, <2>8
      <4>3. CASE j = d + it
        BY <2>7, <2>10, <4>1, <4>2, <4>3
      <4>4. CASE j \in (1 .. d + it - 1) \cap Examined
        <5>1. fin # Null /\ CostOf(fin) <= CostOf(<<best, data[j]>>)
          BY <2>5, <4>4
        <5>2. CostOf(fin) \in Nat /\ CostOf(<<best, data[j]>>) \in Nat
          BY <2>8, <3>2, <5>1
        <5> QED BY <2>10, <4>1, <4>2, <5>1, <5>2
      <4> QED BY <3>1, <4>3, <4>4
    <3>4. CASE ~ Improves(s)
      <4>1. fin' = fin
        BY <2>9, <3>4
      <4>2. CASE j = d + it
        <5>1. Admissible(s) /\ fin # Null /\ ~ (CostOf(s) < CostOf(fin))
          BY <2>7, <3>4, <4>2 DEF Improves
        <5>2. CostOf(s) \in Nat /\ CostOf(fin) \in Nat
          BY <2>6, <2>7, <2>8, <5>1
        <5> QED BY <2>7, <4>1, <4>2, <5>1, <5>2
      <4>3. CASE j \in (1 .. d + it - 1) \cap Examined
        BY <2>5, <4>1, <4>3
      <4> QED BY <3>1, <4>2, <4>3
    <3> QED BY <3>3, <3>4
  <2>12. fin' # Null => Admissible(fin')
    BY <2>3, <2>9 DEF Improves
  <2>13. CASE ~ Erased(s)
    <3>1. it' = it + 1 /\ sols' = sols
      BY <2>9, <2>13
    <3>2. /\ it' <= Len(sols) + 1 /\ it' # 1
          /\ \A j \in it' .. Len(sols) : j \in it .. Len(sols)
          /\ Position' = d + it + 1 /\ d + it + 1 - 1 = d + it
      BY <1>t, <2>1, <2>6, <3>1 DEF Position, d
    <3>3. \A j \in it' .. Len(sols) : sols[j] = <<best, data[Len(data) - Len(sols) + j]>>
      BY <2>4, <3>2 DEF d
    <3>4. Position' - 1 = d + it
      BY <2>6, <3>2
    <3>5. \A j \in (1 .. Position' - 1) \cap Examined :
            Admissible(<<best, data[j]>>) =>
              fin' # Null /\ CostOf(fin') <= CostOf(<<best, data[j]>>)
      BY <2>11, <3>4
    <3>6. it' <= Len(sols) + 1 /\ it' # 1
      BY <3>2
    <3> HIDE DEF d
    <3> QED BY <2>1, <2>2, <2>3, <2>12, <3>1, <3>3, <3>5, <3>6 DEF Examination
  <2>14. CASE Erased(s)
    <3>1. sols' = RemoveAt(sols, it) /\ it' = AfterPickErase /\ ed = 0
      BY <2>9, <2>14 DEF Erased
    <3>2. /\ Len(sols') = Len(sols) - 1
          /\ \A j \in 1 .. Len(sols) - 1 :
               sols'[j] = IF j < it THEN sols[j] ELSE sols[j + 1]
      <4> DEFINE P == (TagIds \cup {Null}) \X DataIds
      <4>1. sols \in Seq(P) /\ it \in 1 .. Len(sols)
        BY <1>t, <2>1
      <4> HIDE DEF P
      <4>2. /\ Len(RemoveAt(sols, it)) = Len(sols) - 1
            /\ \A j \in 1 .. Len(sols) - 1 :
                 RemoveAt(sols, it)[j] = IF j < it THEN sols[j] ELSE sols[j + 1]
        BY <4>1, RemoveAtProperties
      <4> QED BY <3>1, <4>2
    <3>3. Len(data) - Len(sols') = d + 1
      BY <1>t, <3>2 DEF d
    <3>4. it' \in Nat /\ it' >= it /\ it' <= Len(sols') + 1
      BY <1>t, <2>1, <3>1, <3>2 DEF AfterPickErase
    <3>5. ASSUME NEW j \in it' .. Len(sols')
          PROVE  sols'[j] = <<best, data[Len(data) - Len(sols') + j]>>
      <4>1. j \in 1 .. Len(sols) - 1 /\ ~ (j < it) /\ j + 1 \in it .. Len(sols)
        BY <1>t, <3>2, <3>4
      <4>2. sols'[j] = sols[j + 1] /\ sols[j + 1] = <<best, data[d + (j + 1)]>>
        BY <2>4, <3>2, <4>1
      <4>3. d + (j + 1) = Len(data) - Len(sols') + j
        BY <2>6, <3>3, <4>1
      <4> QED BY <4>2, <4>3
(* The iterator skips an element only from the first of several.           *)
    <3>6. Position' = d + 1 + it'
      BY <2>1, <3>3 DEF Position
    <3>7. ASSUME NEW j \in (1 .. Position' - 1) \cap Examined
          PROVE  j \in (1 .. d + it) \cap Examined
      <4>1. CASE it = 1 /\ Len(sols) > 1
        <5>1. it' = 2 /\ d = 0 /\ it = 1
          <6> DEFINE l == Len(data)
                     k == Len(sols)
          <6>0. l \in Nat /\ k \in Nat /\ k > 1 /\ k <= l /\ (k = l \/ l = 1)
            BY <1>t, <2>3, <4>1
          <6> HIDE DEF l, k
          <6>2. k = l
            BY <6>0
          <6>1. Len(sols) = Len(data)
            BY <6>2 DEF l, k
          <6> QED BY <1>t, <3>1, <4>1, <6>1 DEF AfterPickErase, d
        <5>2. j \in 1 .. 2 /\ j # 2
          BY <3>1, <3>6, <5>1 DEF Examined
        <5> QED BY <5>1, <5>2
      <4>2. CASE ~ (it = 1 /\ Len(sols) > 1)
        <5>1. it' = it
          BY <3>1, <4>2 DEF AfterPickErase
        <5>2. Position' - 1 = d + it
          BY <1>t, <2>6, <3>6, <5>1
        <5> QED BY <5>2
      <4> QED BY <4>1, <4>2
    <3>8. it' = 1 => Len(data) = 1 /\ Len(sols') # Len(data)
      <4> SUFFICES ASSUME it' = 1 PROVE Len(data) = 1 /\ Len(sols') # Len(data)
        OBVIOUS
      <4>1. it = 1 /\ Len(sols) = 1
        BY <1>t, <2>1, <3>1, <3>4 DEF AfterPickErase
      <4>2. Len(data) = 1
        BY <2>3, <4>1
      <4> QED BY <3>2, <4>1, <4>2
    <3>9. Len(sols') <= Len(data)
      <4> DEFINE l == Len(data)
                 k == Len(sols)
      <4>1. l \in Nat /\ k \in Nat /\ k <= l /\ Len(sols') = k - 1
        BY <1>t, <2>3, <3>2
      <4> HIDE DEF l, k
      <4>2. Len(sols') <= l
        BY <4>1
      <4> QED BY <4>2 DEF l
    <3> QED BY <2>1, <2>2, <2>3, <2>11, <2>12, <3>4, <3>5, <3>7, <3>8, <3>9
            DEF Examination
  <2> QED BY <2>13, <2>14
<1>3. CASE UNCHANGED vars
  <2>1. /\ pc = "pick" /\ UNCHANGED <<given, ed, data, best, it, sols, fin>>
    BY <1>3 DEF vars
  <2>2. /\ Examined' = Examined
        /\ \A x : Admissible(x)' <=> Admissible(x)
        /\ \A x : CostOf(x)' = CostOf(x)
    BY <2>1, CostsStay
  <2>3. Position' = Position
    BY <2>1 DEF Position
  <2> QED BY <1>0, <2>1, <2>2, <2>3 DEF Examination
<1>4. CASE \/ FilterData \/ FilterDataEnd \/ FilterTag \/ FilterTagEnd \/ Combine
           \/ PickEnd \/ Cleanup \/ CleanupEnd
  BY <1>4 DEF FilterData, FilterDataEnd, FilterTag, FilterTagEnd, Combine, PickEnd,
              Cleanup, CleanupEnd, Fail
<1> QED BY <1>1, <1>2, <1>3, <1>4 DEF Next, Stopped

(* At the end the solution picked is the least of those accounted for.     *)
LEMMA LeastOfExaminedStep == IInv /\ [Next]_vars => LeastOfExamined'
<1> SUFFICES ASSUME IInv, [Next]_vars, pc' = "cleanup"
             PROVE  LeastAmong({<<best, data[i]>> : i \in Examined})'
  BY DEF LeastOfExamined
<1>0. TypeOK /\ SolutionList /\ Examination /\ LeastOfExamined
  BY DEF IInv
<1>k. ASSUME UNCHANGED <<given, ed, data, best, fin>>,
             LeastAmong({<<best, data[i]>> : i \in Examined})
      PROVE  LeastAmong({<<best, data[i]>> : i \in Examined})'
  <2>1. /\ Examined' = Examined
        /\ \A x : Admissible(x)' <=> Admissible(x)
        /\ \A x : CostOf(x)' = CostOf(x)
    BY <1>k, CostsStay
  <2> QED BY <1>k, <2>1 DEF LeastAmong
<1>1. CASE PickEnd
  <2>1. /\ pc = "pick" /\ it > Len(sols) /\ fin # Null
        /\ UNCHANGED <<given, ed, data, best, fin>>
    BY <1>1 DEF PickEnd, Fail
  <2>2. Admissible(fin) /\ Len(sols) <= Len(data) /\ it <= Len(sols) + 1
    BY <1>0, <2>1 DEF Examination
  <2>3. Examined \subseteq 1 .. Position - 1
    <3>1. /\ it \in Nat /\ Len(sols) \in Nat /\ Len(data) \in Nat
          /\ DOMAIN data = 1 .. Len(data)
      BY <1>0 DEF TypeOK
    <3>2. Position - 1 = Len(data)
      BY <2>1, <2>2, <3>1 DEF Position
    <3> QED BY <3>1, <3>2 DEF Examined
  <2>4. \A j \in Examined : Admissible(<<best, data[j]>>) =>
          CostOf(fin) <= CostOf(<<best, data[j]>>)
    BY <1>0, <2>1, <2>3 DEF Examination
  <2>5. LeastAmong({<<best, data[i]>> : i \in Examined})
    BY <2>2, <2>4 DEF LeastAmong
  <2> QED BY <1>k, <2>1, <2>5
<1>2. CASE Cleanup
  <2>1. pc = "cleanup" /\ UNCHANGED <<given, ed, data, best, fin>>
    BY <1>2 DEF Cleanup
  <2> QED BY <1>0, <1>k, <2>1 DEF LeastOfExamined
<1>3. CASE UNCHANGED vars
  <2>1. pc = "cleanup" /\ UNCHANGED <<given, ed, data, best, fin>>
    BY <1>3 DEF vars
  <2> QED BY <1>0, <1>k, <2>1 DEF LeastOfExamined
<1>4. CASE \/ FilterData \/ FilterDataEnd \/ FilterTag \/ FilterTagEnd \/ Combine
           \/ CombineEnd \/ Pick \/ CleanupEnd
  BY <1>4 DEF FilterData, FilterDataEnd, FilterTag, FilterTagEnd, Combine, CombineEnd,
              Pick, CleanupEnd, Fail
<1> QED BY <1>1, <1>2, <1>3, <1>4 DEF Next, Stopped

-----------------------------------------------------------------------------
(* The selection keeps what is owned, delivered, kept and accounted for in *)
(* step with its iterators, whatever lists the search delivers.            *)
THEOREM Invariance == Spec => []IInv
<1>1. IInv /\ [Next]_vars => IInv'
  BY TypeStep, HeapStep, DataListStep, TagListStep, SolutionListStep,
     ExaminationStep, LeastOfExaminedStep DEF IInv
<1> QED BY InitIInv, <1>1, PTL DEF Spec

(* No list, candidate or result of solve() refers to a deleted mem_array,  *)
(* none is deleted twice, and what is left is the result: for every list   *)
(* the search may deliver.                                                 *)
THEOREM OwnershipRightCorrect == Spec => []OwnershipRight
<1>1. IInv => OwnershipRight
  <2> SUFFICES ASSUME IInv PROVE OwnershipRight
    OBVIOUS
  <2>1. TypeOK /\ SolutionList /\ TagList /\ DataList
    BY DEF IInv
  <2>2. live = Owned /\ \A i \in Ids : deleted[i] <= 1
    BY DEF IInv, Heap
  <2>3. pc # "cleanup" => \A s \in ToSet(sols) :
          {s[1], s[2]} \ {Null} \subseteq ToSet(Ahead) \cup ({best} \ {Null})
    BY <2>1 DEF SolutionList, ToSet, Ahead
  <2>4. pc = "cleanup" => ToSet(sols) = {}
    BY <2>1 DEF SolutionList, ToSet
  <2>5. fin # Null =>
          {fin[1], fin[2]} \ {Null} \subseteq ({best} \ {Null}) \cup {fin[2]}
    BY <2>1 DEF SolutionList
  <2>6. Referenced \subseteq Owned
    <3> DEFINE cands == UNION {{s[1], s[2]} \ {Null} : s \in ToSet(sols)}
    <3>1. ASSUME NEW x \in cands
          PROVE  x \in ToSet(Ahead) \cup ({best} \ {Null})
      BY <2>3, <2>4
    <3>2. Referenced =
            ToSet(Ahead) \cup ToSet(tags) \cup ({best} \ {Null}) \cup cands
              \cup (IF fin = Null THEN {} ELSE {fin[1], fin[2]} \ {Null})
      BY DEF Referenced
    <3> HIDE DEF cands
    <3> QED BY <2>5, <3>1, <3>2 DEF Owned
  <2>7. NoLeak
    <3> SUFFICES ASSUME pc = "done" PROVE live = {fin[1], fin[2]} \ {Null}
      BY DEF NoLeak
    <3>1. data = <<>> /\ tags = <<>> /\ fin # Null /\ fin[1] = best
      BY <2>1 DEF DataList, TagList, SolutionList
    <3>2. ToSet(Ahead) = {} /\ ToSet(tags) = {}
      BY <3>1 DEF Ahead, ToSet
    <3>3. fin[2] # Null
      BY <2>1, <3>1, SelectAssumption DEF TypeOK
    <3> QED BY <2>2, <3>1, <3>2, <3>3 DEF Owned
  <2> QED BY <2>1, <2>2, <2>6, <2>7 DEF OwnershipRight, ReferencesLive
<1> QED BY Invariance, <1>1, PTL

(* An array with the least figure of the delivered ones in delay or in     *)
(* energy is not dominated: filter_data_arr() never empties its list.      *)
LEMMA UndominatedExists ==
  ASSUME TypeOK, given[1] # <<>>, NEW m \in {"delay", "dyn"}
  PROVE  \E i \in ToSet(given[1]) :
           ~ DominatedArray(i) /\ ArrayFigures(Array[i])[m] = DataMin[m]
<1>1. PICK i \in ToSet(given[1]) : DataMin[m] = ArrayFigures(Array[i])[m]
  BY DataMinBound DEF Metrics
<1>2. DataMin[m] \in Nat
  BY DataMinBound DEF Metrics
<1>3. ~ DominatedArray(i)
  BY <1>1, <1>2 DEF DominatedArray, Dominated
<1> QED BY <1>1, <1>3

(* filter_data_arr() leaves exactly the undominated arrays, in their order *)
(* and never none; filter_tag_arr() an admissible tag array of least cost. *)
THEOREM FilteredCorrect == Spec => []Filtered
<1>1. IInv => DataFiltered
  <2> SUFFICES ASSUME IInv, pc \in {"filter_tag", "combine", "pick", "cleanup"}
               PROVE  /\ ToSet(data) = {i \in ToSet(given[1]) : ~ DominatedArray(i)}
                      /\ \A j, k \in DOMAIN data : j < k => GivenBefore(data[j], data[k])
                      /\ \A m \in {"delay", "dyn"} : \E i \in ToSet(data) :
                           ArrayFigures(Array[i])[m] = DataMin[m]
    BY DEF DataFiltered
  <2>1. TypeOK /\ DataList
    BY DEF IInv
  <2>2. /\ \A i \in ToSet(given[1]) : DominatedArray(i) \/ i \in ToSet(data)
        /\ ToSet(data) \subseteq ToSet(given[1])
        /\ given[1] # <<>> /\ \A j \in DOMAIN data : ~ DominatedArray(data[j])
    BY <2>1 DEF DataList
  <2>3. ToSet(data) = {i \in ToSet(given[1]) : ~ DominatedArray(i)}
    BY <2>2 DEF ToSet
  <2>4. \A m \in {"delay", "dyn"} : \E i \in ToSet(data) :
          ArrayFigures(Array[i])[m] = DataMin[m]
    BY <2>1, <2>2, <2>3, UndominatedExists
  <2> QED BY <2>1, <2>3, <2>4 DEF DataList
<1>2. IInv => TagLeast
  <2> SUFFICES ASSUME IInv, IsCache, pc \in {"combine", "pick", "cleanup"}
               PROVE  /\ TagAdmissible(best)
                      /\ \A t \in ToSet(given[2]) :
                           TagAdmissible(t) => TagCost(best) <= TagCost(t)
    BY DEF TagLeast
  <2>1. TypeOK /\ TagList
    BY DEF IInv
  <2>2. tags = <<>> /\ best # Null /\ TagAdmissible(best)
    BY <2>1 DEF TagList
  <2>3. given[2] \in Seq(TagIds)
    BY <2>1, GivenLists
  <2>4. DOMAIN given[2] = 1 .. Len(given[2]) /\ Len(tags) + 1 = 1
    BY <2>2, <2>3
  <2>5. \A j \in 1 .. Len(given[2]) : TagAdmissible(given[2][j]) =>
          TagCost(best) <= TagCost(given[2][j])
    BY <2>1, <2>4 DEF TagList
  <2> QED BY <2>2, <2>4, <2>5 DEF ToSet
<1> QED BY Invariance, <1>1, <1>2, PTL DEF Filtered

(* find_optimal_uca(): the result is admissible and, of all solutions the  *)
(* erase-and-step-back loop looks at, of least cost.                       *)
THEOREM LeastOfExaminedCorrect == Spec => []LeastOfExamined
<1>1. IInv => LeastOfExamined
  BY DEF IInv
<1> QED BY Invariance, <1>1, PTL
=============================================================================
