--------------------------- MODULE SolutionSelect ---------------------------
(***************************************************************************)
(* The second half of solve() in cacti/Ucache.cc: the lists the search     *)
(* delivered are filtered, every data array is combined with the tag array *)
(* that is left, find_optimal_uca() picks one combination and all other    *)
(* mem_arrays are deleted.                                                 *)
(*                                                                         *)
(* The lists are std::lists.  An iterator is the index of its element,     *)
(* Len + 1 is end().  The filters erase the element under the iterator and *)
(* then step back, also from begin(): erase() on the first element         *)
(* followed by -- and ++ is what libstdc++'s circular list makes of it.    *)
(***************************************************************************)
EXTENDS Integers, Sequences, FiniteSets, CostModel

LOCAL INSTANCE SequencesExt

CONSTANTS
  DataIds, TagIds,  \* the mem_arrays the search allocated for each array
  Array,            \* their MemArray records
  InitialLists,     \* the pairs <<data_arr, tag_arr>> the search may deliver
  Objectives,       \* g_ip->ed: 0 weighted cost, 1 ED, 2 ED^2
  Wt, Dev,          \* the weights and deviations of g_ip
  Null

ASSUME SelectAssumption ==
  /\ DataIds \cap TagIds = {}
  /\ Null \notin DataIds \cup TagIds
  /\ Null \notin (TagIds \cup {Null}) \X DataIds
  /\ Array \in [DataIds \cup TagIds -> MemArray]
  /\ InitialLists \subseteq Seq(DataIds) \X Seq(TagIds)
  /\ IsCache \in BOOLEAN /\ AccessMode \in {"fast", "seq", "normal"}
  /\ Objectives \subseteq 0 .. 2
  /\ Wt \in [Metrics -> Nat]

Distinct(s) == \A i, j \in DOMAIN s : s[i] = s[j] => i = j

(* Every mem_array is allocated for one entry of one list; only a cache    *)
(* has a tag array.                                                        *)
ASSUME ListsAssumption == \A l \in InitialLists :
  /\ Distinct(l[1]) /\ Distinct(l[2])
  /\ ~ IsCache => l[2] = <<>>

VARIABLES
  pc,       \* the loop solve() is in
  given,    \* the lists the search delivered
  ed,       \* g_ip->ed
  data,     \* data_arr
  tags,     \* tag_arr
  it,       \* miter, iter or niter of the current loop
  best,     \* res of filter_tag_arr(): the tag array kept so far
  sols,     \* sol_list: pairs <<tag_array2, data_array2>>
  fin,      \* *fin_res, or Null before a solution is copied into it
  live,     \* mem_arrays allocated and not yet deleted
  deleted   \* how often each mem_array was deleted

vars == <<pc, given, ed, data, tags, it, best, sols, fin, live, deleted>>

Ids == DataIds \cup TagIds

-----------------------------------------------------------------------------
(* t_min and d_min, over everything the search found.                      *)
TagMin  == LeastFigures({ArrayFigures(Array[i]) : i \in ToSet(given[2])})
DataMin == LeastFigures({ArrayFigures(Array[i]) : i \in ToSet(given[1])})

DominatedArray(i) == Dominated(ArrayFigures(Array[i]), DataMin)

Figures(s) == CacheFigures(IF s[1] = Null THEN Array[s[2]] ELSE Array[s[1]],
                           Array[s[2]])

(* cache_min: taken in while sol_list is filled, from all its members.     *)
Solutions(ts, ds) ==
  IF IsCache THEN {<<t, d>> : t \in ts, d \in ds} ELSE {<<Null, d>> : d \in ds}

AllSolutions ==
  Solutions(IF best = Null THEN {} ELSE {best}, ToSet(data))

CacheMin == LeastFigures({Figures(s) : s \in AllSolutions})

TagAdmissible(t) == WithinDev(ArrayFigures(Array[t]), TagMin, Dev)
TagCost(t) == WeightedCost(ArrayFigures(Array[t]), TagMin, Wt)

Admissible(s) == ed # 0 \/ WithinDev(Figures(s), CacheMin, Dev)
CostOf(s) ==
  IF ed = 0 THEN WeightedCost(Figures(s), CacheMin, Wt)
            ELSE EnergyDelay(Figures(s), ed)

(* delete on a mem_array.                                                  *)
Delete(i) ==
  /\ live' = live \ {i}
  /\ deleted' = [deleted EXCEPT ![i] = @ + 1]

Keep == UNCHANGED <<live, deleted>>

-----------------------------------------------------------------------------
Init ==
  /\ pc = "filter_data"
  /\ given \in InitialLists
  /\ ed \in Objectives
  /\ data = given[1]
  /\ tags = given[2]
  /\ it = 1
  /\ best = Null
  /\ sols = <<>>
  /\ fin = Null
  /\ live = ToSet(given[1]) \cup ToSet(given[2])
  /\ deleted = [i \in Ids |-> 0]

(* exit() with an error message.                                           *)
Fail ==
  /\ pc' = "exit"
  /\ UNCHANGED <<given, ed, data, tags, it, best, sols, fin, live, deleted>>

(* Where the iterator stands after erase() of the element it is at, -- and *)
(* the loop's ++.                                                          *)
AfterErase == it

(* filter_data_arr(): one turn of its loop.                                *)
FilterData_KeepIterator ==
  /\ pc = "filter_data" /\ it <= Len(data)
  /\ IF DominatedArray(data[it])
     THEN /\ Delete(data[it])
          /\ data' = RemoveAt(data, it)
          /\ it' = it + 1
     ELSE it' = it + 1 /\ Keep /\ UNCHANGED data
  /\ UNCHANGED <<pc, given, ed, tags, best, sols, fin>>

FilterData_NoAdvance ==
  /\ pc = "filter_data" /\ it <= Len(data)
  /\ IF DominatedArray(data[it])
     THEN /\ Delete(data[it])
          /\ data' = RemoveAt(data, it)
          /\ it' = AfterErase
     ELSE Keep /\ UNCHANGED <<it, data>>
  /\ UNCHANGED <<pc, given, ed, tags, best, sols, fin>>

FilterData ==
  /\ pc = "filter_data" /\ it <= Len(data)
  /\ IF DominatedArray(data[it])
     THEN /\ Delete(data[it])
          /\ data' = RemoveAt(data, it)
          /\ it' = AfterErase
     ELSE it' = it + 1 /\ Keep /\ UNCHANGED data
  /\ UNCHANGED <<pc, given, ed, tags, best, sols, fin>>

FilterDataEnd ==
  /\ pc = "filter_data" /\ it > Len(data)
  /\ IF given[1] = <<>> THEN Fail
     ELSE /\ pc' = IF IsCache THEN "filter_tag" ELSE "combine"
          /\ it' = 1
          /\ UNCHANGED <<given, ed, data, tags, best, sols, fin, live, deleted>>

(* filter_tag_arr(): the tag array at the back of the list is kept if it   *)
(* is cheaper than the one kept so far, which is then deleted.             *)
Cheaper(t) ==
  /\ TagAdmissible(t)
  /\ best = Null \/ TagCost(t) < TagCost(best)

FilterTag ==
  LET t == Last(tags) IN
  /\ pc = "filter_tag" /\ tags # <<>>
  /\ tags' = Front(tags)
  /\ IF Cheaper(t)
     THEN /\ best' = t
          /\ IF best = Null THEN Keep ELSE Delete(best)
     ELSE Delete(t) /\ UNCHANGED best
  /\ UNCHANGED <<pc, given, ed, data, it, sols, fin>>

(* The best tag array is pushed back and, in the combining loop, popped.   *)
FilterTagEnd ==
  /\ pc = "filter_tag" /\ tags = <<>>
  /\ IF best = Null THEN Fail
     ELSE /\ pc' = "combine"
          /\ UNCHANGED <<given, ed, data, tags, it, best, sols, fin, live, deleted>>

(* One data array is combined with the tag array.                          *)
Combine ==
  /\ pc = "combine" /\ it <= Len(data)
  /\ sols' = Append(sols, <<best, data[it]>>)
  /\ it' = it + 1
  /\ UNCHANGED <<pc, given, ed, data, tags, best, fin, live, deleted>>

CombineEnd ==
  /\ pc = "combine" /\ it > Len(data)
  /\ IF sols = <<>> THEN Fail
     ELSE /\ pc' = "pick" /\ it' = 1
          /\ UNCHANGED <<given, ed, data, tags, best, sols, fin, live, deleted>>

-----------------------------------------------------------------------------
(* find_optimal_uca(): one turn of its loop.  With ed = 0 a solution that  *)
(* does not meet the deviations, and every solution that is better than    *)
(* all before it, is erased; niter steps back unless it is at begin().     *)
Improves(s) == Admissible(s) /\ (fin = Null \/ CostOf(s) < CostOf(fin))

Erased(s) == ed = 0 /\ (Improves(s) \/ ~ Admissible(s))

AfterPickErase_NoBack == IF Len(sols) = it THEN it ELSE it + 1
AfterPickErase == IF it = 1 /\ Len(sols) > 1 THEN 2 ELSE it

Pick ==
  /\ pc = "pick" /\ it <= Len(sols)
  /\ LET s == sols[it] IN
     /\ fin' = IF Improves(s) THEN s ELSE fin
     /\ IF Erased(s)
        THEN sols' = RemoveAt(sols, it) /\ it' = AfterPickErase
        ELSE it' = it + 1 /\ UNCHANGED sols
  /\ UNCHANGED <<pc, given, ed, data, tags, best, live, deleted>>


PickEnd ==
  /\ pc = "pick" /\ it > Len(sols)
  /\ IF fin = Null THEN Fail
     ELSE /\ pc' = "cleanup" /\ it' = 1 /\ sols' = <<>>
          /\ UNCHANGED <<given, ed, data, tags, best, fin, live, deleted>>

(* Every data array but the chosen one is deleted.                         *)

Cleanup_WithTag ==
  /\ pc = "cleanup" /\ it <= Len(data)
  /\ IF data[it] # fin[2]
     THEN /\ live' = live \ {data[it], best}
          /\ deleted' = [deleted EXCEPT ![data[it]] = @ + 1, ![best] = @ + 1]
     ELSE Keep
  /\ it' = it + 1
  /\ UNCHANGED <<pc, given, ed, data, tags, best, sols, fin>>

Cleanup ==
  /\ pc = "cleanup" /\ it <= Len(data)
  /\ IF data[it] # fin[2] THEN Delete(data[it]) ELSE Keep
  /\ it' = it + 1
  /\ UNCHANGED <<pc, given, ed, data, tags, best, sols, fin>>

CleanupEnd ==
  /\ pc = "cleanup" /\ it > Len(data)
  /\ pc' = "done" /\ data' = <<>>
  /\ UNCHANGED <<given, ed, tags, it, best, sols, fin, live, deleted>>

Stopped == pc \in {"done", "exit"} /\ UNCHANGED vars

Next ==
  \/ FilterData \/ FilterDataEnd
  \/ FilterTag \/ FilterTagEnd
  \/ Combine \/ CombineEnd
  \/ Pick \/ PickEnd
  \/ Cleanup \/ CleanupEnd
  \/ Stopped

Spec == Init /\ [][Next]_vars
FairSpec == Spec /\ WF_vars(Next)

-----------------------------------------------------------------------------
(* Types.                                                                  *)
TypeOK ==
  /\ pc \in {"filter_data", "filter_tag", "combine", "pick", "cleanup", "done",
             "exit"}
  /\ given \in InitialLists
  /\ ed \in Objectives
  /\ data \in Seq(DataIds)
  /\ tags \in Seq(TagIds)
  /\ it \in Nat \ {0}
  /\ best \in TagIds \cup {Null}
  /\ sols \in Seq((TagIds \cup {Null}) \X DataIds)
  /\ fin \in ((TagIds \cup {Null}) \X DataIds) \cup {Null}
  /\ live \subseteq Ids
  /\ deleted \in [Ids -> Nat]

(* What filter_data_arr() leaves.                                          *)
GivenBefore(i, j) == \E p, q \in DOMAIN given[1] :
  p < q /\ given[1][p] = i /\ given[1][q] = j

DataFiltered ==
  pc \in {"filter_tag", "combine", "pick", "cleanup"} =>
    /\ ToSet(data) = {i \in ToSet(given[1]) : ~ DominatedArray(i)}
    /\ \A j, k \in DOMAIN data : j < k => GivenBefore(data[j], data[k])
    /\ \A m \in {"delay", "dyn"} :
         \E i \in ToSet(data) : ArrayFigures(Array[i])[m] = DataMin[m]

(* What filter_tag_arr() leaves.                                           *)
TagLeast ==
  IsCache /\ pc \in {"combine", "pick", "cleanup"} =>
    /\ TagAdmissible(best)
    /\ \A t \in ToSet(given[2]) :
         TagAdmissible(t) => TagCost(best) <= TagCost(t)

(* filter_data_arr()'s erase-and-step-back loop looks at every array: what *)
(* it leaves is exactly the undominated ones, in their order, and never    *)
(* nothing - an array with the least delay and one with the least energy   *)
(* survive, so that the error path "no valid cache organizations" is not   *)
(* its doing.  filter_tag_arr() leaves an admissible tag array of least    *)
(* cost.                                                                   *)
Filtered == DataFiltered /\ TagLeast

(* Arrays still referred to; while those not chosen are deleted, the part  *)
(* of data_arr still ahead.                                                *)
Ahead == IF pc = "cleanup" THEN SubSeq(data, it, Len(data)) ELSE data

Referenced ==
  ToSet(Ahead) \cup ToSet(tags) \cup ({best} \ {Null})
    \cup (UNION {{s[1], s[2]} \ {Null} : s \in ToSet(sols)})
    \cup (IF fin = Null THEN {} ELSE {fin[1], fin[2]} \ {Null})

ReferencesLive ==
  /\ Referenced \subseteq live
  /\ \A i \in Ids : deleted[i] <= 1

NoLeak == pc = "done" => live = {fin[1], fin[2]} \ {Null}

(* The state is well typed; no list, no candidate and no result refers to  *)
(* a deleted mem_array, and none is deleted twice, although several        *)
(* solutions share their tag array; and solve() returns owning nothing but *)
(* the two arrays of its result.                                           *)
OwnershipRight == TypeOK /\ ReferencesLive /\ NoLeak

(* "Cache model with least cost is picked from sol_list" (the comment      *)
(* above solve()): the result is admissible and no admissible solution is  *)
(* cheaper.                                                                *)
LeastAmong(S) ==
  /\ Admissible(fin)
  /\ \A s \in S : Admissible(s) => CostOf(fin) <= CostOf(s)

LeastCost == pc = "cleanup" => LeastAmong(AllSolutions)

Examined == DOMAIN data \ (IF ed = 0 THEN {2} ELSE {})

(* What find_optimal_uca() does promise: under an energy-delay objective   *)
(* the result is of least cost; with ed = 0 the first solution is always   *)
(* erased, so the second is never looked at, and among all the others the  *)
(* result is admissible and of least cost.                                 *)
LeastOfExamined ==
  pc = "cleanup" => LeastAmong({<<best, data[i]>> : i \in Examined})

(* Every loop that erases from the list it walks ends.                     *)
Termination == <>(pc \in {"done", "exit"})

=============================================================================
