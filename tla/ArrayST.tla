------------------------------ MODULE ArrayST -------------------------------
(***************************************************************************)
(* An ArrayST of array.cc: optimize_array() asks CACTI for a result, asks  *)
(* again under ever smaller cycle-time deviations while the clock is not   *)
(* met, keeps the candidate of least energy, scales its power, and         *)
(* releases it in the destructor.  Arrays without a tag array: the         *)
(* organisations solve() can pick from are the same in every call.         *)
(***************************************************************************)
EXTENDS Integers, Sequences, FiniteSets, CostModel

CONSTANTS
  OrgLists,      \* the sol_lists CACTI may have for an array
  Figures,       \* the figures of merit of an organisation
  LowEfficiency, \* organisations of area efficiency below 20 percent
  Throughput, Latency,   \* the cycle and access time to be met
  Temps,         \* operating temperatures
  MaxFeedback,   \* bound on the calls of leakage_feedback()
  Null

ASSUME ArrayAssumption ==
  /\ OrgLists \subseteq Seq(DOMAIN Figures) \ {<<>>}
  /\ \A o \in DOMAIN Figures : Figures[o] \in [Metrics -> Nat \ {0}]
  /\ Throughput \in Nat /\ Latency \in Nat
  /\ MaxFeedback \in Nat
  /\ Null \notin Nat

(* The deviations, weights and bounds optimize_array() fixes.              *)
StartDev == 100
Step     == 10
EndDev   == 20
ClockWt  == [m \in Metrics |->
  CASE m = "delay" -> 100 [] m = "cyc" -> 1000 [] OTHER -> 10]
ClockDev(d) == [m \in Metrics |-> IF m = "cyc" THEN d ELSE 1000000]

MaxCalls == 1 + (StartDev - EndDev) \div Step
Calls == 1 .. MaxCalls

VARIABLES
  pc,         \* where optimize_array() is
  orgs,       \* the organisations of this array
  noAssoc,    \* l_ip.assoc == 0: a CAM or fully associative array
  optimise,   \* opt_for_clk && opt_local && the array is not small
  dev,        \* l_ip.cycle_time_dev
  tOver, lOver,  \* throughput_overflow and latency_overflow
  calls,      \* compute_base_power() calls so far
  org,        \* the organisation each call delivered
  local,      \* the call whose data_array2 local_result holds, or Null
  candidates, \* candidate_solutions, as calls
  it,         \* candidate_iter
  kept,       \* min_dynamic_energy_iter, or Null
  live,       \* calls whose data_array2 is allocated
  freed,      \* how often each call's data_array2 was deleted
  temp,       \* l_ip.temp
  evalTemp,   \* the temperature local_result.power was computed for
  scalings,   \* scalings of local_result.power since then
  feedbacks   \* leakage_feedback() calls so far

vars == <<pc, orgs, noAssoc, optimise, dev, tOver, lOver, calls, org, local,
          candidates, it, kept, live, freed, temp, evalTemp, scalings, feedbacks>>

thermal == <<temp, evalTemp, scalings, feedbacks>>
array == <<orgs, noAssoc, optimise>>

-----------------------------------------------------------------------------
(* What solve() picks from the list s: with ed = 2 a solution of least     *)
(* ED^2; with ed = 0 the admissible one of least weighted cost, the second *)
(* of the list not counted (see SolutionSelect).  The first of equals.     *)
Least(s) == LeastFigures({Figures[s[i]] : i \in DOMAIN s})

FirstLeast(D, val) ==
  CHOOSE i \in D : \A j \in D : val[i] < val[j] \/ (val[i] = val[j] /\ i <= j)

PickEd2(s) ==
  s[FirstLeast(DOMAIN s, [i \in DOMAIN s |-> EnergyDelay(Figures[s[i]], 2)])]

Eligible(s, d) ==
  {i \in DOMAIN s \ {2} : WithinDev(Figures[s[i]], Least(s), ClockDev(d))}

PickClock(s, d) ==
  s[FirstLeast(Eligible(s, d), [i \in Eligible(s, d) |->
      WeightedCost(Figures[s[i]], Least(s), ClockWt)])]

MeetsThroughput(o) == Figures[o].cyc <= Throughput
MeetsLatency(o)    == Figures[o].delay <= Latency
MeetsClock(o)      == MeetsThroughput(o) /\ MeetsLatency(o)

-----------------------------------------------------------------------------
Init ==
  /\ pc = "first"
  /\ orgs \in OrgLists
  /\ noAssoc \in BOOLEAN /\ optimise \in BOOLEAN
  /\ dev = 10000
  /\ tOver = TRUE /\ lOver = TRUE
  /\ calls = 0
  /\ org = [k \in Calls |-> Null]
  /\ local = Null
  /\ candidates = <<>>
  /\ it = 1 /\ kept = Null
  /\ live = {}
  /\ freed = [k \in Calls |-> 0]
  /\ temp \in Temps /\ evalTemp = temp
  /\ scalings = 0 /\ feedbacks = 0

(* compute_base_power() overwrites local_result with a new result.         *)
Deliver(o) ==
  /\ calls' = calls + 1
  /\ org' = [org EXCEPT ![calls + 1] = o]

(* The first, ED^2-optimal result and whether it is fast enough.           *)
First ==
  LET o == PickEd2(orgs) IN
  /\ pc = "first"
  /\ Deliver(o)
  /\ local' = 1 /\ live' = {1}
  /\ tOver' = ~ MeetsThroughput(o)
  /\ lOver' = ~ MeetsLatency(o)
  /\ pc' = IF optimise THEN "tighten" ELSE "scale"
  /\ UNCHANGED <<array, dev, candidates, it, kept, freed>>
  /\ UNCHANGED thermal

(* uca_org_t::cleanup() of local_result.                                   *)
Release(k) == [freed EXCEPT ![k] = @ + 1]

(* Too slow: the weights and deviations for the clock, both flags set, the *)
(* first result released.                                                  *)
Tighten_NoReset ==
  /\ pc = "tighten"
  /\ pc' = "loop"
  /\ IF tOver \/ lOver
     THEN /\ dev' = StartDev
          /\ freed' = Release(local) /\ live' = live \ {local}
          /\ local' = Null
          /\ UNCHANGED <<tOver, lOver>>
     ELSE UNCHANGED <<dev, tOver, lOver, freed, live, local>>
  /\ UNCHANGED <<array, calls, org, candidates, it, kept>>
  /\ UNCHANGED thermal

Tighten ==
  /\ pc = "tighten"
  /\ pc' = "loop"
  /\ IF tOver \/ lOver
     THEN /\ dev' = StartDev
          /\ tOver' = TRUE /\ lOver' = TRUE
          /\ freed' = Release(local) /\ live' = live \ {local}
          /\ local' = Null
     ELSE UNCHANGED <<dev, tOver, lOver, freed, live, local>>
  /\ UNCHANGED <<array, calls, org, candidates, it, kept>>
  /\ UNCHANGED thermal

Candidate(o) == MeetsClock(o) \/ (o \in LowEfficiency /\ noAssoc)

(* One turn of the optimisation loop.  A result that is not a candidate is *)
(* released unless this was the last deviation; each flag is cleared by    *)
(* any result that meets its own bound.                                    *)
MayRelease == dev - Step > EndDev

DevLeft == dev > EndDev

Retry ==
  LET o == PickClock(orgs, dev)
      k == calls + 1
  IN
  /\ pc = "loop"
  /\ (tOver \/ lOver) /\ DevLeft
  /\ IF Eligible(orgs, dev) = {}
     THEN /\ pc' = "exit"
          /\ UNCHANGED <<array, dev, tOver, lOver, calls, org, local, candidates,
                         live, freed>>
     ELSE /\ Deliver(o)
          /\ dev' = dev - Step
          /\ IF Candidate(o)
             THEN /\ candidates' = Append(candidates, k)
                  /\ tOver' = (tOver /\ ~ MeetsClock(o))
                  /\ lOver' = (lOver /\ ~ MeetsClock(o))
                  /\ local' = k /\ live' = live \cup {k}
                  /\ UNCHANGED freed
             ELSE /\ tOver' = (tOver /\ ~ MeetsThroughput(o))
                  /\ lOver' = (lOver /\ ~ MeetsLatency(o))
                  /\ IF MayRelease
                     THEN local' = Null /\ freed' = Release(k) /\ UNCHANGED live
                     ELSE local' = k /\ live' = live \cup {k} /\ UNCHANGED freed
                  /\ UNCHANGED candidates
          /\ UNCHANGED <<pc, array>>
  /\ UNCHANGED <<it, kept>>
  /\ UNCHANGED thermal

LoopEnd ==
  /\ pc = "loop"
  /\ ~ ((tOver \/ lOver) /\ DevLeft)
  /\ pc' = "select"
  /\ UNCHANGED <<array, dev, tOver, lOver, calls, org, local, candidates, it,
                 kept, live, freed>>
  /\ UNCHANGED thermal

(* One candidate: of less energy than all before it, it becomes            *)
(* local_result; otherwise it is released.                                 *)
Energy(k) == Figures[org[k]].dyn

LessEnergy_First(k) == kept = Null
LessEnergy(k) == kept = Null \/ Energy(k) < Energy(kept)

Select_CleanupAll ==
  LET k == candidates[it] IN
  /\ pc = "select" /\ it <= Len(candidates)
  /\ IF LessEnergy(k)
     THEN local' = k /\ kept' = k
     ELSE UNCHANGED <<local, kept>>
  /\ freed' = Release(k) /\ live' = live \ {k}
  /\ it' = it + 1
  /\ UNCHANGED <<pc, array, dev, tOver, lOver, calls, org, candidates>>
  /\ UNCHANGED thermal

Select_Stay ==
  LET k == candidates[it] IN
  /\ pc = "select" /\ it <= Len(candidates)
  /\ IF LessEnergy(k)
     THEN local' = k /\ kept' = k /\ it' = it + 1 /\ UNCHANGED <<live, freed>>
     ELSE UNCHANGED <<local, kept, it, live, freed>>
  /\ UNCHANGED <<pc, array, dev, tOver, lOver, calls, org, candidates>>
  /\ UNCHANGED thermal

Select ==
  LET k == candidates[it] IN
  /\ pc = "select" /\ it <= Len(candidates)
  /\ IF LessEnergy(k)
     THEN local' = k /\ kept' = k /\ UNCHANGED <<live, freed>>
     ELSE /\ freed' = Release(k) /\ live' = live \ {k}
          /\ UNCHANGED <<local, kept>>
  /\ it' = it + 1
  /\ UNCHANGED <<pc, array, dev, tOver, lOver, calls, org, candidates>>
  /\ UNCHANGED thermal

SelectEnd ==
  /\ pc = "select" /\ it > Len(candidates)
  /\ pc' = "scale" /\ candidates' = <<>>
  /\ UNCHANGED <<array, dev, tOver, lOver, calls, org, local, it, kept,
                 live, freed>>
  /\ UNCHANGED thermal

(* The power of local_result and of its data_array2 is scaled: without a   *)
(* data_array2 the null pointer is dereferenced.                           *)
Scale ==
  /\ pc = "scale"
  /\ pc' = IF local = Null THEN "crash" ELSE "ready"
  /\ scalings' = scalings + 1
  /\ UNCHANGED <<array, dev, tOver, lOver, calls, org, local, candidates, it,
                 kept, live, freed, temp, evalTemp, feedbacks>>

(* leakage_feedback(): the new temperature is installed; reconfigure()     *)
(* ends in update_dvs(), which has no DVS voltages to evaluate, and the    *)
(* power is scaled again.                                                  *)
LeakageFeedback(c) ==
  /\ pc = "ready" /\ feedbacks < MaxFeedback
  /\ temp' = c
  /\ scalings' = scalings + 1
  /\ feedbacks' = feedbacks + 1
  /\ UNCHANGED <<pc, array, dev, tOver, lOver, calls, org, local, candidates, it,
                 kept, live, freed, evalTemp>>

(* ~ArrayST().                                                             *)
Destroy ==
  /\ pc = "ready"
  /\ pc' = "destroyed"
  /\ freed' = Release(local) /\ live' = live \ {local}
  /\ local' = Null
  /\ UNCHANGED <<array, dev, tOver, lOver, calls, org, candidates, it, kept>>
  /\ UNCHANGED thermal

Ended == pc \in {"destroyed", "exit", "crash"} /\ UNCHANGED vars

Optimize == First \/ Tighten \/ Retry \/ LoopEnd \/ Select \/ SelectEnd \/ Scale

Next ==
  \/ Optimize
  \/ \E c \in Temps : LeakageFeedback(c)
  \/ Destroy
  \/ Ended

Spec == Init /\ [][Next]_vars
FairSpec == Spec /\ WF_vars(Optimize)

-----------------------------------------------------------------------------
(* Type invariant.                                                         *)
TypeOK ==
  /\ pc \in {"first", "tighten", "loop", "select", "scale", "ready", "crash",
             "destroyed", "exit"}
  /\ orgs \in OrgLists
  /\ noAssoc \in BOOLEAN /\ optimise \in BOOLEAN
  /\ dev \in Nat
  /\ tOver \in BOOLEAN /\ lOver \in BOOLEAN
  /\ calls \in 0 .. MaxCalls
  /\ DOMAIN org = Calls
  /\ local \in Calls \cup {Null}
  /\ candidates \in Seq(Calls)
  /\ it \in Nat \ {0}
  /\ kept \in Calls \cup {Null}
  /\ live \subseteq Calls
  /\ freed \in [Calls -> Nat]
  /\ temp \in Temps /\ evalTemp \in Temps
  /\ scalings \in Nat /\ feedbacks \in 0 .. MaxFeedback

NoDanglingResult ==
  /\ \A k \in Calls : freed[k] <= 1
  /\ local # Null => local \in live
  /\ \A i \in it .. Len(candidates) : candidates[i] \in live

(* The state is well typed, cleanup() deletes every data_array2 at most    *)
(* once and nothing still used is deleted: local_result and the candidates *)
(* share their pointers.                                                   *)
ResultOwned == TypeOK /\ NoDanglingResult

(* A candidate kept for an array with an associativity meets both bounds;  *)
(* whether the throughput warning is printed tells the truth about the     *)
(* result that is reported, which no earlier call's flag does by itself;   *)
(* and nothing but the result is still allocated.                          *)
ReportTruthful ==
  pc = "scale" /\ local # Null /\ ~ noAssoc =>
    /\ kept # Null => MeetsClock(org[local])
    /\ tOver <=> ~ MeetsThroughput(org[local])
    /\ live = {local}

(* "if no satisfiable solution is found,the most aggressive one is left"   *)
(* (array.cc, in the loop): the result that is scaled exists.              *)
UsableAtEnd == pc # "crash"

(* The energy of the result of a CAM is the least of all its candidates'.  *)
LeastEnergyKept ==
  pc = "scale" /\ kept # Null =>
    /\ local = kept
    /\ \A k \in Calls :
         org[k] # Null /\ k > 1 /\ Candidate(org[k]) => Energy(kept) <= Energy(k)

(* The optimisation comes to an end.                                       *)
OptimisationEnds == <>(pc \in {"ready", "crash", "exit"})

=============================================================================
