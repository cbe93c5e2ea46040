------------------------------- MODULE Ucache -------------------------------
(***************************************************************************)
(* The exhaustive partition search of solve() in cacti/Ucache.cc, up to    *)
(* the point where the minimum of every metric is known.                   *)
(*                                                                         *)
(* The main thread searches the tag array (for a cache only) and then the  *)
(* data array.  For each of the two it installs the technology parameters  *)
(* in the global g_tp, starts NThreads workers running                     *)
(* calc_time_mt_wrapper(), joins them all and merges their private lists.  *)
(* A worker strides over the Ndwl/Ndbl/Ndcm triples, starting at its tid,  *)
(* and evaluates every combination with calculate_time(), which reads g_tp *)
(* and keeps the partitions DynamicParameter finds valid.                  *)
(*                                                                         *)
(* Data abstraction.  A triple (Ndwl, Ndbl, Ndcm) is its index iter, a     *)
(* pair (Ndsam_lev_1, Ndsam_lev_2) its rank dsam in the two inner loops,   *)
(* Nspd its rank in the doubling sequence.  Which shapes are valid and     *)
(* what they cost are constants: functions of the input configuration.     *)
(***************************************************************************)
EXTENDS Integers, FiniteSets, ArrayShape

CONSTANTS
  NThreads,   \* nthreads: the compile-time number of workers
  NumIter,    \* niter: number of (Ndwl, Ndbl, Ndcm) triples
  NumDsam,    \* number of (Ndsam_lev_1, Ndsam_lev_2) pairs
  NspdMin,    \* calc_array[t].Nspd_min, one for each array
  MaxSpd,     \* rank of MAXDATASPD
  WtMin, WtMax,  \* wt_min, wt_max: the wire types tried
  IpWt,       \* g_ip->wt: the wire type of the configuration
  IsCache,    \* !(pure_ram || pure_cam || fully_assoc)
  ForceConfig, \* g_ip->force_cache_config and the forced organisation
  Valid,      \* the shapes DynamicParameter finds valid, one set per array
  Metrics,    \* access time, energy, leakage, area, cycle time
  Cost,       \* the metrics of a shape
  BigNum,     \* BIGNUM, the initial minimum
  Scratch     \* the unfilled mem_array at the back of every worker's list

Arrays  == {"tag", "data"}
Threads == 0 .. NThreads - 1

(* One position of the five nested loops, and the partition built there.   *)
Partition == [nspd : Nat, wt : Nat, iter : Nat, dsam : Nat]

(* The part of a partition calculate_time() is given: the wire type is not *)
(* an argument, it is only written into the result.                        *)
Shape(p) == [nspd |-> p.nspd, iter |-> p.iter, dsam |-> p.dsam]
Shapes   == [nspd : Nat, iter : Nat, dsam : Nat]

(* An element of a worker's list: the partition, the technology g_tp held  *)
(* when calculate_time() evaluated it and the wire type its H-trees were   *)
(* built with.                                                             *)
Entry == [part : Partition, tech : Arrays, wire : Nat]

MinValues == [Metrics -> Nat]

ASSUME CountAssumption ==
  /\ NThreads \in Nat \ {0}
  /\ NumIter \in Nat \ {0}
  /\ NumDsam \in Nat \ {0}
  /\ MaxSpd \in Nat
  /\ WtMin \in Nat /\ WtMax \in Nat /\ WtMin <= WtMax
  /\ IpWt \in Nat
  /\ NspdMin \in [Arrays -> 1 .. MaxSpd]

ASSUME ConfigAssumption ==
  /\ IsCache \in BOOLEAN
  /\ ForceConfig \in [on : BOOLEAN, nspd : Nat, iter : Nat, dsam : Nat]
  /\ Valid \in [Arrays -> SUBSET Shapes]
  /\ BigNum \in Nat
  /\ \A a \in Arrays, m \in Metrics : \A h \in Valid[a] :
       Cost[m][h] \in 0 .. BigNum
  /\ Scratch \notin Entry

VARIABLES
  mpc,     \* where the main thread is in solve()
  mt,      \* t, the index of the main thread's current for loop
  phase,   \* is_tag of solve(): the array being searched
  g_tp,    \* the array whose technology init_tech_params() installed
  job,     \* calc_array[t].is_tag, with Nspd_min: what worker t is to search
  tpc,     \* where worker t is
  cur,     \* worker t's position in its five loops
  lists,   \* calc_array[t].tag_arr and .data_arr
  res,     \* calc_array[t].tag_res and .data_res
  arr,     \* tag_arr and data_arr of solve(), with the worker that found each
  min      \* t_min and d_min of solve()

vars == <<mpc, mt, phase, g_tp, job, tpc, cur, lists, res, arr, min>>

-----------------------------------------------------------------------------
(* The loops of calc_time_mt_wrapper().                                    *)

(* force_cache_config applies to the data array only.                      *)
Forced(a) == ForceConfig.on /\ a = "data"

At(n, w, i, d) == [nspd |-> n, wt |-> w, iter |-> i, dsam |-> d]
FirstPos(a, t) == At(NspdMin[a], WtMin, t, 1)

(* What is evaluated at position c: c itself, or the forced organisation,  *)
(* where a forced Nspd or Ndsam of 0 leaves the loop's own value.          *)
Evaluated(a, c) ==
  IF Forced(a)
  THEN At(IF ForceConfig.nspd # 0 THEN ForceConfig.nspd ELSE c.nspd,
          IpWt,
          ForceConfig.iter,
          IF ForceConfig.dsam # 0 THEN ForceConfig.dsam ELSE c.dsam)
  ELSE c

(* Each loop in turn: may it still advance at position c?  A forced        *)
(* organisation drives the loops it fixes to their last value.             *)
MoreDsam(a, c) == c.dsam < NumDsam /\ ~ (Forced(a) /\ ForceConfig.dsam # 0)
MoreIter(a, c) == c.iter + NThreads < NumIter /\ ~ Forced(a)
MoreWt_Forced(a, c) == c.wt < WtMax
MoreWt(a, c)   == c.wt < WtMax /\ ~ Forced(a)
MoreNspd(a, c) == c.nspd < MaxSpd /\ ~ (Forced(a) /\ ForceConfig.nspd # 0)

More(a, c) ==
  \/ MoreDsam(a, c) \/ MoreIter(a, c) \/ MoreWt(a, c) \/ MoreNspd(a, c)

(* The position after c: the innermost loop that may advance does, and the *)
(* loops inside it start again.                                            *)
NextPos_StepOne(a, t, c) ==
  IF MoreDsam(a, c) THEN At(c.nspd, c.wt, c.iter, c.dsam + 1)
  ELSE IF MoreIter(a, c) THEN At(c.nspd, c.wt, c.iter + 1, 1)
  ELSE IF MoreWt(a, c) THEN At(c.nspd, c.wt + 1, t, 1)
  ELSE At(c.nspd + 1, WtMin, t, 1)

NextPos_SameNspd(a, t, c) ==
  IF MoreDsam(a, c) THEN At(c.nspd, c.wt, c.iter, c.dsam + 1)
  ELSE IF MoreIter(a, c) THEN At(c.nspd, c.wt, c.iter + NThreads, 1)
  ELSE IF MoreWt(a, c) THEN At(c.nspd, c.wt + 1, t, 1)
  ELSE At(c.nspd, WtMin, t, 1)

NextPos(a, t, c) ==
  IF MoreDsam(a, c) THEN At(c.nspd, c.wt, c.iter, c.dsam + 1)
  ELSE IF MoreIter(a, c) THEN At(c.nspd, c.wt, c.iter + NThreads, 1)
  ELSE IF MoreWt(a, c) THEN At(c.nspd, c.wt + 1, t, 1)
  ELSE At(c.nspd + 1, WtMin, t, 1)

IsValid(a, p) == Shape(p) \in Valid[a]

(* min_values_t::update_min_values(), from a mem_array and from another    *)
(* min_values_t.                                                           *)
NoMin == [m \in Metrics |-> BigNum]
Lower_First(v, w) == [m \in Metrics |-> IF v[m] = BigNum THEN w[m] ELSE v[m]]
Lower(v, w) == [m \in Metrics |-> IF v[m] > w[m] THEN w[m] ELSE v[m]]
ShapeCost(p) == [m \in Metrics |-> Cost[m][Shape(p)]]

-----------------------------------------------------------------------------
Init ==
  /\ mpc = "tag_init"
  /\ mt = 0
  /\ phase = "data"
  /\ g_tp = "data"
  /\ job = [t \in Threads |-> "tag"]
  /\ tpc = [t \in Threads |-> "idle"]
  /\ cur = [t \in Threads |-> FirstPos("tag", t)]
  /\ lists = [t \in Threads |-> [a \in Arrays |-> {}]]
  /\ res = [t \in Threads |-> [a \in Arrays |-> NoMin]]
  /\ arr = [a \in Arrays |-> {}]
  /\ min = [a \in Arrays |-> NoMin]

EndTurn_NoReset(next) ==
  /\ mt' = mt + 1
  /\ IF mt + 1 = NThreads THEN mpc' = next ELSE UNCHANGED mpc

(* One turn of a "for t" loop of solve() that continues at next.           *)
EndTurn(next) ==
  IF mt + 1 = NThreads
  THEN mt' = 0 /\ mpc' = next
  ELSE mt' = mt + 1 /\ UNCHANGED mpc

LastTurn == mt + 1 = NThreads

(* Install the technology of array a before its search.                    *)
Install(a) ==
  /\ phase' = a
  /\ g_tp' = a
  /\ mpc' = "create"

TagInit ==
  /\ mpc = "tag_init"
  /\ IF IsCache
     THEN Install("tag")
     ELSE mpc' = "data_init" /\ UNCHANGED <<phase, g_tp>>
  /\ UNCHANGED <<mt, job, tpc, cur, lists, res, arr, min>>

DataInit ==
  /\ mpc = "data_init"
  /\ Install("data")
  /\ UNCHANGED <<mt, job, tpc, cur, lists, res, arr, min>>

(* Write worker mt's parameters and pthread_create() it.                   *)
Create ==
  /\ mpc = "create"
  /\ job' = [job EXCEPT ![mt] = phase]
  /\ tpc' = [tpc EXCEPT ![mt] = "start"]
  /\ EndTurn("join")
  /\ UNCHANGED <<phase, g_tp, cur, lists, res, arr, min>>

CanJoin_NoWait(t) == TRUE
CanJoin(t) == tpc[t] = "exited"

(* pthread_join() worker mt; after the last one of the data search,        *)
(* data_arr.clear().                                                       *)
Join ==
  /\ mpc = "join"
  /\ CanJoin(mt)
  /\ arr' = IF LastTurn /\ phase = "data"
            THEN [arr EXCEPT !["data"] = {}] ELSE arr
  /\ EndTurn("merge")
  /\ UNCHANGED <<phase, g_tp, job, tpc, cur, lists, res, min>>

(* list::merge() empties the worker's list.  After the tag search both of  *)
(* the worker's lists are merged, after the data search the data list.     *)
Merged == IF phase = "tag" THEN Arrays ELSE {"data"}

Merge ==
  /\ mpc = "merge"
  /\ arr' = [a \in Arrays |->
               IF a \in Merged THEN arr[a] \cup ({mt} \X lists[mt][a])
                               ELSE arr[a]]
  /\ lists' = [lists EXCEPT ![mt] =
                 [a \in Arrays |-> IF a \in Merged THEN {} ELSE @[a]]]
  /\ EndTurn(IF phase = "tag" THEN "data_init" ELSE "mins")
  /\ UNCHANGED <<phase, g_tp, job, tpc, cur, res, min>>

(* d_min and t_min take in worker mt's minima.                             *)
Mins ==
  /\ mpc = "mins"
  /\ min' = [a \in Arrays |-> Lower(min[a], res[mt][a])]
  /\ EndTurn("done")
  /\ UNCHANGED <<phase, g_tp, job, tpc, cur, lists, res, arr>>

Main == TagInit \/ DataInit \/ Create \/ Join \/ Merge \/ Mins

-----------------------------------------------------------------------------
(* The start of calc_time_mt_wrapper(): both lists are cleared and given   *)
(* an unfilled mem_array.  A worker whose tid is not below niter has no    *)
(* triple to look at.                                                      *)
Start(t) ==
  /\ tpc[t] = "start"
  /\ lists' = [lists EXCEPT ![t] = [a \in Arrays |-> {Scratch}]]
  /\ cur' = [cur EXCEPT ![t] = FirstPos(job[t], t)]
  /\ tpc' = [tpc EXCEPT ![t] = IF t < NumIter THEN "loop" ELSE "exit"]
  /\ UNCHANGED <<mpc, mt, phase, g_tp, job, res, arr, min>>

(* calculate_time() reads the global technology and builds every H-tree    *)
(* with g_ip->wt; the wire type of the loop is only written to the result. *)
Built(p) == [part |-> p, tech |-> g_tp, wire |-> IpWt]

(* One evaluation.  A valid partition fills the mem_array at the back of   *)
(* the list, updates the worker's minima, and a new one is pushed.         *)
Record(t, p) ==
  IF IsValid(job[t], p)
  THEN /\ lists' = [lists EXCEPT ![t][job[t]] =
                      @ \cup {Built(p)}]
       /\ res' = [res EXCEPT ![t][job[t]] = Lower(@, ShapeCost(p))]
  ELSE UNCHANGED <<lists, res>>

Explore(t) ==
  /\ tpc[t] = "loop"
  /\ Record(t, Evaluated(job[t], cur[t]))
  /\ IF More(job[t], cur[t])
     THEN /\ cur' = [cur EXCEPT ![t] = NextPos(job[t], t, cur[t])]
          /\ UNCHANGED tpc
     ELSE /\ tpc' = [tpc EXCEPT ![t] = "exit"]
          /\ UNCHANGED cur
  /\ UNCHANGED <<mpc, mt, phase, g_tp, job, arr, min>>

(* The unfilled mem_arrays are deleted and the worker exits.               *)
WithoutScratch_Kept(l) == l
WithoutScratch(l) == l \ {Scratch}

Exit(t) ==
  /\ tpc[t] = "exit"
  /\ lists' = [lists EXCEPT ![t] =
                 [a \in Arrays |-> WithoutScratch(@[a])]]
  /\ tpc' = [tpc EXCEPT ![t] = "exited"]
  /\ UNCHANGED <<mpc, mt, phase, g_tp, job, cur, res, arr, min>>

Worker(t) == Start(t) \/ Explore(t) \/ Exit(t)

(* The search is over; solve() goes on to filter and combine.              *)
Finished == mpc = "done" /\ UNCHANGED vars

Next == Main \/ (\E t \in Threads : Worker(t)) \/ Finished

Spec == Init /\ [][Next]_vars

(* The operating system schedules every runnable thread.                   *)
FairSpec == Spec /\ WF_vars(Main) /\ \A t \in Threads : WF_vars(Worker(t))

-----------------------------------------------------------------------------
(* Type invariant.                                                         *)
TypeOK ==
  /\ mpc \in {"tag_init", "create", "join", "merge", "data_init", "mins",
               "done"}
  /\ mt \in Threads
  /\ phase \in Arrays
  /\ g_tp \in Arrays
  /\ job \in [Threads -> Arrays]
  /\ tpc \in [Threads -> {"idle", "start", "loop", "exit", "exited"}]
  /\ cur \in [Threads -> Partition]
  /\ lists \in [Threads -> [Arrays -> SUBSET (Entry \cup {Scratch})]]
  /\ res \in [Threads -> [Arrays -> MinValues]]
  /\ arr \in [Arrays -> SUBSET (Threads \X (Entry \cup {Scratch}))]
  /\ min \in [Arrays -> MinValues]

Running(t) == tpc[t] \in {"start", "loop", "exit"}

(* Every organisation in a list was evaluated under the technology of the  *)
(* array it belongs to: no worker of the tag search is still reading g_tp  *)
(* when solve() installs the data array's technology.                      *)
TechConsistent ==
  /\ \A t \in Threads, a \in Arrays :
       \A e \in lists[t][a] \ {Scratch} : e.tech = a
  /\ \A a \in Arrays : \A x \in arr[a] : x[2] # Scratch => x[2].tech = a

(* The main thread's control state fixes which workers may be running, and *)
(* a worker that runs searches the array whose technology is installed.    *)
Control ==
  /\ g_tp = phase
  /\ \A t \in Threads : Running(t) => job[t] = phase /\ mpc \in {"create", "join"}
  /\ mpc = "create" => \A t \in Threads : t >= mt => ~ Running(t)
  /\ mpc = "join" => \A t \in Threads : t < mt => ~ Running(t)

(* The main thread rewrites a worker's parameters, the technology and a    *)
(* worker's lists only while the workers concerned are not running.        *)
MainStepsAlone ==
  [][ /\ g_tp' # g_tp => \A t \in Threads : ~ Running(t)
      /\ \A t \in Threads : job'[t] # job[t] => ~ Running(t)
      /\ Merge => \A t \in Threads : ~ Running(t) ]_vars

NoScratchKept == \A a \in Arrays : \A x \in arr[a] : x[2] # Scratch
NothingForgotten == phase = "data" /\ mpc \in {"create", "join"} => arr["data"] = {}

(* The unfilled mem_array at the back of a worker's list is deleted by the *)
(* worker and never reaches the lists solve() filters; and data_arr.clear()*)
(* after the data search forgets no mem_array: what the tag search left    *)
(* there is empty.                                                         *)
OnlyFilled == NoScratchKept /\ NothingForgotten

(* No worker builds the same organisation twice, so that its list can be   *)
(* read as a set: a valid evaluation always makes the list longer.         *)
NeverRevisits ==
  [][\A t \in Threads :
       (Explore(t) /\ IsValid(job[t], Evaluated(job[t], cur[t])))
         => lists'[t] # lists[t]]_vars

(* The organisations the search is meant to cover: all of them, or those   *)
(* that agree with the forced configuration wherever it fixes a value.     *)
Choice(v, range) == IF v # 0 THEN {v} ELSE range
Positions(a) ==
  IF Forced(a)
  THEN [nspd : Choice(ForceConfig.nspd, NspdMin[a] .. MaxSpd), wt : {IpWt},
        iter : {ForceConfig.iter}, dsam : Choice(ForceConfig.dsam, 1 .. NumDsam)]
  ELSE [nspd : NspdMin[a] .. MaxSpd, wt : WtMin .. WtMax,
        iter : 0 .. NumIter - 1, dsam : 1 .. NumDsam]
Space(a) == {p \in Positions(a) : IsValid(a, p)}

(* At the end every valid organisation was built by exactly one worker,    *)
(* for any number of workers; a forced one by every worker that owns a     *)
(* triple, once each.                                                      *)
Copies(a, p) == {x \in arr[a] : x[2].part = p}
WorkSplit ==
  mpc = "done" =>
    \A a \in Arrays : \A p \in Space(a) :
      (a = "data" \/ IsCache) =>
        Cardinality(Copies(a, p)) =
          IF ~ Forced(a) THEN 1
          ELSE IF NThreads < NumIter THEN NThreads ELSE NumIter

(* The search ends: joining the workers blocks nobody for ever.            *)
Termination == <>(mpc = "done")

-----------------------------------------------------------------------------
(* The threaded search implements a sequential exhaustive search: whatever *)
(* the interleaving and the number of workers, each search delivers        *)
(* exactly the valid organisations of its space and the true minima.       *)
TagDone  == mpc = "data_init" \/ (phase = "data" /\ mpc # "tag_init")
DataDone == mpc \in {"mins", "done"}
Parts(a) == {x[2].part : x \in arr[a]}

Abstract == INSTANCE ExhaustiveSearch WITH
  Universe <- [a \in Arrays |-> Space(a)],
  CostOf <- [m \in Metrics |-> [p \in Space("tag") \cup Space("data") |->
                                  Cost[m][Shape(p)]]],
  stage <- IF mpc = "done" THEN "done" ELSE IF DataDone THEN "minima"
           ELSE IF TagDone THEN "data" ELSE "tag",
  found <- [a \in Arrays |->
              IF (a = "tag" /\ TagDone) \/ (a = "data" /\ DataDone)
              THEN Parts(a) ELSE {}],
  minima <- IF mpc = "done" THEN min ELSE [a \in Arrays |-> NoMin]

ImplementsExhaustiveSearch == Abstract!Spec

-----------------------------------------------------------------------------
(* Whatever partition of the array being searched is valid, its subarrays  *)
(* hold all bits asked for, and its mats all subarrays, see EnoughCells of *)
(* ArrayShape.                                                             *)
CapacityRight == EnoughCells[phase]

(* It is the whole array asked for, see WholeArray of ArrayShape.          *)
ShapesRight == WholeArray[phase]

=============================================================================
