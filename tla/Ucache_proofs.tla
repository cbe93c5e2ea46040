---------------------------- MODULE Ucache_proofs ----------------------------
(***************************************************************************)
(* Proofs about the threaded partition search, for any number of workers,  *)
(* any size of the search space and any set of valid organisations; and    *)
(* about the arrays searched, for requests of any size.                    *)
(***************************************************************************)
EXTENDS Ucache, FiniteSetTheorems, TLAPS

(* The inductive invariant: control fixes which technology a running       *)
(* worker can see, hence what its list entries were evaluated under.       *)
IInv == TypeOK /\ Control /\ TechConsistent

(* There is a first worker.                                                *)
LEMMA ZeroThread == 0 \in Threads
BY CountAssumption DEF Threads

(* The loops stay inside the partitions.                                   *)
LEMMA AtType ==
  ASSUME NEW n \in Nat, NEW w \in Nat, NEW i \in Nat, NEW d \in Nat
  PROVE  At(n, w, i, d) \in Partition
BY DEF At, Partition

(* The loops start at a partition.                                         *)
LEMMA FirstPosType ==
  ASSUME NEW a \in Arrays, NEW t \in Threads
  PROVE  FirstPos(a, t) \in Partition
BY CountAssumption, AtType DEF FirstPos, Threads, Arrays

(* What is evaluated is a partition.                                       *)
LEMMA EvaluatedType ==
  ASSUME NEW a \in Arrays, NEW c \in Partition
  PROVE  Evaluated(a, c) \in Partition
<1>1. ForceConfig.nspd \in Nat /\ ForceConfig.iter \in Nat /\ ForceConfig.dsam \in Nat /\ IpWt \in Nat
  <2>1. ForceConfig \in [on : BOOLEAN, nspd : Nat, iter : Nat, dsam : Nat]
    BY ConfigAssumption
  <2>2. QED
    BY <2>1, CountAssumption
<1>2. c.nspd \in Nat /\ c.dsam \in Nat
  BY DEF Partition
<1> DEFINE n == IF ForceConfig.nspd # 0 THEN ForceConfig.nspd ELSE c.nspd
           d == IF ForceConfig.dsam # 0 THEN ForceConfig.dsam ELSE c.dsam
<1>3. n \in Nat /\ d \in Nat
  BY <1>1, <1>2
<1>4. At(n, IpWt, ForceConfig.iter, d) \in Partition
  BY <1>1, <1>3, AtType
<1>5. QED
  BY <1>4, Zenon DEF Evaluated

(* The loops go on to a partition.                                         *)
LEMMA NextPosType ==
  ASSUME NEW a \in Arrays, NEW t \in Threads, NEW c \in Partition
  PROVE  NextPos(a, t, c) \in Partition
<1>1. /\ c.nspd \in Nat /\ c.wt \in Nat /\ c.iter \in Nat /\ c.dsam \in Nat
      /\ t \in Nat /\ NThreads \in Nat /\ WtMin \in Nat
  BY CountAssumption DEF Partition, Threads
<1>2. /\ c.nspd + 1 \in Nat /\ c.wt + 1 \in Nat /\ c.iter + NThreads \in Nat
      /\ c.dsam + 1 \in Nat
  BY <1>1
<1>3. QED
  BY <1>1, <1>2, AtType DEF NextPos

(* Minima stay natural numbers.                                            *)
LEMMA LowerType ==
  ASSUME NEW v \in MinValues, NEW w \in MinValues
  PROVE  Lower(v, w) \in MinValues
BY DEF Lower, MinValues

(* A valid partition has costs.                                            *)
LEMMA ShapeCostType ==
  ASSUME NEW a \in Arrays, NEW p \in Partition, IsValid(a, p)
  PROVE  ShapeCost(p) \in MinValues
BY ConfigAssumption DEF ShapeCost, MinValues, IsValid

(* A turn of the loops of the main thread.                                 *)
LEMMA EndTurnType ==
  ASSUME TypeOK, NEW next, EndTurn(next)
  PROVE  mt' \in Threads /\ mpc' \in {mpc, next}
BY CountAssumption, ZeroThread DEF TypeOK, EndTurn, Threads

(* The minima start well typed.                                            *)
LEMMA NoMinType == NoMin \in MinValues
BY ConfigAssumption DEF NoMin, MinValues

(* A valid partition's record in a worker's list is a list entry.          *)
LEMMA BuiltType ==
  ASSUME TypeOK, NEW p \in Partition
  PROVE  Built(p) \in Entry
BY CountAssumption DEF TypeOK, Built, Entry

-----------------------------------------------------------------------------
(* The types hold at the start.                                            *)
LEMMA InitTypeOK == Init => TypeOK
<1> SUFFICES ASSUME Init PROVE TypeOK
  OBVIOUS
<1>1. cur \in [Threads -> Partition]
  BY FirstPosType DEF Init, Arrays
<1>2. /\ res \in [Threads -> [Arrays -> MinValues]]
      /\ min \in [Arrays -> MinValues]
  BY NoMinType DEF Init
<1>3. /\ lists \in [Threads -> [Arrays -> SUBSET (Entry \cup {Scratch})]]
      /\ arr \in [Arrays -> SUBSET (Threads \X (Entry \cup {Scratch}))]
  BY DEF Init
<1>4. /\ job \in [Threads -> Arrays]
      /\ tpc \in [Threads -> {"idle", "start", "loop", "exit", "exited"}]
      /\ phase \in Arrays /\ g_tp \in Arrays
  BY DEF Init, Arrays
<1>5. QED
  BY <1>1, <1>2, <1>3, <1>4, ZeroThread DEF Init, TypeOK

(* Every step keeps the types.                                             *)
LEMMA NextTypeOK == TypeOK /\ [Next]_vars => TypeOK'
<1> SUFFICES ASSUME TypeOK, [Next]_vars PROVE TypeOK'
  OBVIOUS
<1>1. CASE TagInit
  BY <1>1 DEF TagInit, Install, TypeOK, Arrays
<1>2. CASE DataInit
  BY <1>2 DEF DataInit, Install, TypeOK, Arrays
<1>3. CASE Create
  <2>1. mt' \in Threads /\ mpc' \in {mpc, "join"}
    BY <1>3, EndTurnType DEF Create
  <2>2. job' \in [Threads -> Arrays]
    BY <1>3 DEF Create, TypeOK
  <2>3. tpc' \in [Threads -> {"idle", "start", "loop", "exit", "exited"}]
    BY <1>3 DEF Create, TypeOK
  <2>4. QED
    BY <1>3, <2>1, <2>2, <2>3 DEF Create, TypeOK
<1>4. CASE Join
  <2>1. mt' \in Threads /\ mpc' \in {mpc, "merge"}
    BY <1>4, EndTurnType DEF Join
  <2>2. arr' \in [Arrays -> SUBSET (Threads \X (Entry \cup {Scratch}))]
    BY <1>4 DEF Join, TypeOK
  <2>3. QED
    BY <1>4, <2>1, <2>2 DEF Join, TypeOK
<1>5. CASE Merge
  <2>1. mt' \in Threads /\ mpc' \in {mpc, "data_init", "mins"}
    BY <1>5, EndTurnType DEF Merge
  <2>2. arr' \in [Arrays -> SUBSET (Threads \X (Entry \cup {Scratch}))]
    <3>1. ASSUME NEW a \in Arrays
          PROVE  {mt} \X lists[mt][a] \in SUBSET (Threads \X (Entry \cup {Scratch}))
      BY DEF TypeOK
    <3>2. QED
      BY <1>5, <3>1 DEF Merge, TypeOK
  <2>3. lists' \in [Threads -> [Arrays -> SUBSET (Entry \cup {Scratch})]]
    BY <1>5 DEF Merge, TypeOK
  <2>4. QED
    BY <1>5, <2>1, <2>2, <2>3 DEF Merge, TypeOK
<1>6. CASE Mins
  <2>1. mt' \in Threads /\ mpc' \in {mpc, "done"}
    BY <1>6, EndTurnType DEF Mins
  <2>2. min' \in [Arrays -> MinValues]
    BY <1>6, LowerType DEF Mins, TypeOK
  <2>3. QED
    BY <1>6, <2>1, <2>2 DEF Mins, TypeOK
<1>7. ASSUME NEW t \in Threads, Start(t)
      PROVE  TypeOK'
  <2>1. cur' \in [Threads -> Partition]
    BY <1>7, FirstPosType DEF Start, TypeOK
  <2>2. lists' \in [Threads -> [Arrays -> SUBSET (Entry \cup {Scratch})]]
    BY <1>7 DEF Start, TypeOK
  <2>3. tpc' \in [Threads -> {"idle", "start", "loop", "exit", "exited"}]
    BY <1>7 DEF Start, TypeOK
  <2>4. QED
    BY <1>7, <2>1, <2>2, <2>3 DEF Start, TypeOK
<1>8. ASSUME NEW t \in Threads, Explore(t)
      PROVE  TypeOK'
  <2> DEFINE p == Evaluated(job[t], cur[t])
  <2>1. p \in Partition
    BY EvaluatedType DEF TypeOK
  <2>2. cur' \in [Threads -> Partition]
    <3>1. NextPos(job[t], t, cur[t]) \in Partition
      BY NextPosType DEF TypeOK
    <3>2. QED
      BY <1>8, <3>1 DEF Explore, TypeOK
  <2>3. tpc' \in [Threads -> {"idle", "start", "loop", "exit", "exited"}]
    BY <1>8 DEF Explore, TypeOK
  <2>4. lists' \in [Threads -> [Arrays -> SUBSET (Entry \cup {Scratch})]]
    <3>1. Built(p) \in Entry
      BY <2>1, BuiltType
    <3>2. Record(t, p)
      BY <1>8 DEF Explore
    <3>3. CASE IsValid(job[t], p)
      <4> DEFINE row == [lists[t] EXCEPT ![job[t]] = @ \cup {Built(p)}]
      <4>1. row \in [Arrays -> SUBSET (Entry \cup {Scratch})]
        BY <3>1 DEF TypeOK
      <4>2. lists' = [lists EXCEPT ![t] = row]
        BY <3>2, <3>3, Zenon DEF Record, Built
      <4>3. QED
        BY <4>1, <4>2 DEF TypeOK
    <3>4. CASE ~ IsValid(job[t], p)
      BY <3>2, <3>4 DEF Record, TypeOK
    <3>5. QED
      BY <3>3, <3>4
  <2>5. res' \in [Threads -> [Arrays -> MinValues]]
    <3>1. CASE IsValid(job[t], p)
      <4>1. Lower(res[t][job[t]], ShapeCost(p)) \in MinValues
        BY <2>1, <3>1, ShapeCostType, LowerType DEF TypeOK
      <4>2. QED
        <5> DEFINE row == [res[t] EXCEPT ![job[t]] = Lower(@, ShapeCost(p))]
        <5>1. row \in [Arrays -> MinValues]
          BY <4>1 DEF TypeOK
        <5>2. Record(t, p)
          BY <1>8 DEF Explore
        <5>3. res' = [res EXCEPT ![t] = row]
          BY <3>1, <5>2, Zenon DEF Record
        <5>4. QED
          BY <5>1, <5>3 DEF TypeOK
    <3>2. CASE ~ IsValid(job[t], p)
      BY <1>8, <3>2 DEF Explore, Record, TypeOK
    <3>3. QED
      BY <3>1, <3>2
  <2>6. QED
    BY <1>8, <2>2, <2>3, <2>4, <2>5 DEF Explore, TypeOK
<1>9. ASSUME NEW t \in Threads, Exit(t)
      PROVE  TypeOK'
  <2>1. lists' \in [Threads -> [Arrays -> SUBSET (Entry \cup {Scratch})]]
    BY <1>9 DEF Exit, WithoutScratch, TypeOK
  <2>2. tpc' \in [Threads -> {"idle", "start", "loop", "exit", "exited"}]
    BY <1>9 DEF Exit, TypeOK
  <2>3. QED
    BY <1>9, <2>1, <2>2 DEF Exit, TypeOK
<1>10. CASE UNCHANGED vars
  BY <1>10 DEF vars, TypeOK
<1>11. QED
  BY <1>1, <1>2, <1>3, <1>4, <1>5, <1>6, <1>7, <1>8, <1>9, <1>10
  DEF Next, Main, Worker, Finished

(* Every reachable state of the search is well typed.                      *)
THEOREM TypeCorrect == Spec => []TypeOK
BY InitTypeOK, NextTypeOK, PTL DEF Spec

-----------------------------------------------------------------------------
(* The invariant holds at the start.                                       *)
LEMMA InitIInv == Init => IInv
<1> SUFFICES ASSUME Init PROVE Control /\ TechConsistent
  BY InitTypeOK DEF IInv
<1>1. Control
  BY DEF Init, Control, Running
<1>2. TechConsistent
  BY DEF Init, TechConsistent
<1>3. QED
  BY <1>1, <1>2

(* Which workers run goes on to follow from where the main thread is.      *)
LEMMA NextControl == TypeOK /\ Control /\ [Next]_vars => Control'
<1> SUFFICES ASSUME TypeOK, Control, [Next]_vars PROVE Control'
  OBVIOUS
<1> USE DEF Running
<1>1. CASE TagInit
  BY <1>1 DEF TagInit, Install, TypeOK, Control
<1>2. CASE DataInit
  BY <1>2 DEF DataInit, Install, TypeOK, Control
<1>3. CASE Create
  BY <1>3, CountAssumption DEF Create, EndTurn, TypeOK, Control, Threads
<1>4. CASE Join
  BY <1>4, CountAssumption DEF Join, CanJoin, EndTurn, TypeOK, Control, Threads
<1>5. CASE Merge
  BY <1>5, CountAssumption DEF Merge, EndTurn, TypeOK, Control, Threads
<1>6. CASE Mins
  BY <1>6, CountAssumption DEF Mins, EndTurn, TypeOK, Control, Threads
<1>7. ASSUME NEW t \in Threads, Start(t)
      PROVE  Control'
  BY <1>7 DEF Start, TypeOK, Control
<1>8. ASSUME NEW t \in Threads, Explore(t)
      PROVE  Control'
  BY <1>8 DEF Explore, TypeOK, Control
<1>9. ASSUME NEW t \in Threads, Exit(t)
      PROVE  Control'
  BY <1>9 DEF Exit, TypeOK, Control
<1>10. CASE UNCHANGED vars
  BY <1>10 DEF vars, Control
<1>11. QED
  BY <1>1, <1>2, <1>3, <1>4, <1>5, <1>6, <1>7, <1>8, <1>9, <1>10
  DEF Next, Main, Worker, Finished

(* An entry is added under the technology of its own array.                *)
LEMMA NextTechConsistent == IInv /\ [Next]_vars => TechConsistent'
<1> SUFFICES ASSUME IInv, [Next]_vars PROVE TechConsistent'
  OBVIOUS
<1> USE DEF IInv
<1>1. CASE UNCHANGED <<lists, arr>>
  BY <1>1 DEF TechConsistent
<1>2. CASE Join
  BY <1>2 DEF Join, TypeOK, TechConsistent
<1>3. CASE Merge
  <2>1. ASSUME NEW a \in Arrays, NEW x \in arr'[a], x[2] # Scratch
        PROVE  x[2].tech = a
    BY <1>3, <2>1 DEF Merge, TypeOK, TechConsistent
  <2>2. ASSUME NEW t \in Threads, NEW a \in Arrays, NEW e \in lists'[t][a] \ {Scratch}
        PROVE  e.tech = a
    BY <1>3, <2>2 DEF Merge, TypeOK, TechConsistent
  <2>3. QED
    BY <2>1, <2>2 DEF TechConsistent
<1>4. ASSUME NEW t \in Threads, Start(t)
      PROVE  TechConsistent'
  BY <1>4 DEF Start, TypeOK, TechConsistent
<1>5. ASSUME NEW t \in Threads, Explore(t)
      PROVE  TechConsistent'
  <2>1. job[t] = g_tp
    BY <1>5 DEF Explore, Control, Running
  <2>2. Record(t, Evaluated(job[t], cur[t])) /\ arr' = arr
    BY <1>5 DEF Explore
  <2>3. ASSUME NEW u \in Threads, NEW a \in Arrays, NEW e \in lists'[u][a] \ {Scratch}
        PROVE  e.tech = a
    <3> DEFINE p == Evaluated(job[t], cur[t])
               row == [lists[t] EXCEPT ![job[t]] = @ \cup {Built(p)}]
    <3>1. CASE IsValid(job[t], p)
      <4>1. lists' = [lists EXCEPT ![t] = row]
        BY <2>2, <3>1, Zenon DEF Record, Built
      <4>2. row[a] = IF a = job[t] THEN lists[t][a] \cup {Built(p)} ELSE lists[t][a]
        BY DEF TypeOK
      <4>3. lists'[u][a] = IF u = t THEN row[a] ELSE lists[u][a]
        BY <4>1 DEF TypeOK
      <4>4. Built(p).tech = g_tp
        BY DEF Built
      <4>5. QED
        BY <2>1, <2>3, <4>2, <4>3, <4>4 DEF TechConsistent
    <3>2. CASE ~ IsValid(job[t], p)
      BY <2>2, <2>3, <3>2 DEF Record, TechConsistent
    <3>3. QED
      BY <3>1, <3>2
  <2>4. QED
    BY <2>2, <2>3 DEF TechConsistent
<1>6. ASSUME NEW t \in Threads, Exit(t)
      PROVE  TechConsistent'
  BY <1>6 DEF Exit, WithoutScratch, TypeOK, TechConsistent
<1>7. QED
  BY <1>1, <1>2, <1>3, <1>4, <1>5, <1>6
  DEF Next, Main, Worker, Finished, TagInit, DataInit, Create, Mins, vars

(* Every step keeps the invariant.                                         *)
LEMMA NextIInv == IInv /\ [Next]_vars => IInv'
BY NextTypeOK, NextControl, NextTechConsistent DEF IInv

(* Which workers run follows from where the main thread stands, and those  *)
(* that run search the array whose technology is installed.                *)
THEOREM ControlCorrect == Spec => []Control
<1>1. Spec => []IInv
  BY InitIInv, NextIInv, PTL DEF Spec
<1>2. IInv => Control
  BY DEF IInv
<1>3. QED
  BY <1>1, <1>2, PTL

(* Every organisation solve() chooses from was evaluated under the         *)
(* technology of its own array, in every interleaving of the workers.      *)
THEOREM TechCorrect == Spec => []TechConsistent
<1>1. Spec => []IInv
  BY InitIInv, NextIInv, PTL DEF Spec
<1>2. IInv => TechConsistent
  BY DEF IInv
<1>3. QED
  BY <1>1, <1>2, PTL

(* No step of the main thread touches the technology, a worker's           *)
(* parameters or a worker's lists while that worker runs.                  *)
THEOREM NoRace == Spec => MainStepsAlone
<1> DEFINE Alone ==
      /\ g_tp' # g_tp => \A t \in Threads : ~ Running(t)
      /\ \A t \in Threads : job'[t] # job[t] => ~ Running(t)
      /\ Merge => \A t \in Threads : ~ Running(t)
<1>1. Spec => []IInv
  BY InitIInv, NextIInv, PTL DEF Spec
<1>2. IInv /\ [Next]_vars => [Alone]_vars
  <2> SUFFICES ASSUME IInv, Next PROVE Alone
    BY DEF vars
  <2>1. g_tp' # g_tp => \A t \in Threads : ~ Running(t)
    BY DEF IInv, Control, Next, Main, TagInit, DataInit, Create, Join, Merge,
           Mins, Worker, Start, Explore, Exit, Finished, vars
  <2>2. \A t \in Threads : job'[t] # job[t] => ~ Running(t)
    <3>1. CASE Create
      BY <3>1 DEF Create, IInv, Control, TypeOK, Threads
    <3>2. CASE UNCHANGED job
      BY <3>2
    <3>3. QED
      BY <3>1, <3>2 DEF Next, Main, TagInit, DataInit, Join, Merge,
           Mins, Worker, Start, Explore, Exit, Finished, vars
  <2>3. Merge => \A t \in Threads : ~ Running(t)
    BY DEF IInv, Control, Merge
  <2>4. QED
    BY <2>1, <2>2, <2>3
<1>3. QED
  BY <1>1, <1>2, PTL DEF Spec, MainStepsAlone

-----------------------------------------------------------------------------
(* Where the unfilled mem_arrays are, and why data_arr is empty when it is *)
(* cleared: only a data search puts an organisation into a data list.      *)
ScratchWhileRunning ==
  \A t \in Threads, a \in Arrays : ~ Running(t) => Scratch \notin lists[t][a]

JobIsPhase ==
  /\ mpc \in {"tag_init", "data_init"} => mt = 0
  /\ mpc \in {"join", "merge"} => \A t \in Threads : job[t] = phase
  /\ mpc = "create" => \A t \in Threads : t < mt => job[t] = phase
  /\ phase = "tag" \/ mpc \in {"tag_init", "data_init"} =>
       \A t \in Threads : job[t] = "tag"

TagSearchNoData ==
  /\ \A t \in Threads : job[t] = "tag" => lists[t]["data"] \subseteq {Scratch}
  /\ phase = "tag" \/ mpc \in {"tag_init", "data_init", "create", "join"} =>
       arr["data"] = {}

Filling == ScratchWhileRunning /\ NoScratchKept /\ JobIsPhase /\ TagSearchNoData

FInv == IInv /\ Filling

(* No list is filled at the start.                                         *)
LEMMA InitFilling == Init => Filling
BY DEF Init, Filling, ScratchWhileRunning, JobIsPhase, TagSearchNoData,
       NoScratchKept, Running, Arrays

(* A worker that runs searches the array of the phase.                     *)
LEMMA NextJobIsPhase == FInv /\ [Next]_vars => JobIsPhase'
<1> SUFFICES ASSUME FInv, [Next]_vars PROVE JobIsPhase'
  OBVIOUS
<1> USE DEF FInv, IInv, Filling, JobIsPhase
<1>1. CASE TagInit
  BY <1>1 DEF TagInit, Install, TypeOK, Control
<1>2. CASE DataInit
  BY <1>2 DEF DataInit, Install, TypeOK, Threads
<1>3. CASE Create
  BY <1>3, CountAssumption DEF Create, EndTurn, TypeOK, Control, Threads, Arrays
<1>4. CASE Join
  BY <1>4, CountAssumption DEF Join, EndTurn, TypeOK, Threads
<1>5. CASE Merge
  BY <1>5, CountAssumption DEF Merge, EndTurn, TypeOK, Threads, Arrays
<1>6. CASE Mins
  BY <1>6, CountAssumption DEF Mins, EndTurn, TypeOK, Threads
<1>7. CASE UNCHANGED <<mpc, mt, phase, job>>
  BY <1>7
<1>8. QED
  BY <1>1, <1>2, <1>3, <1>4, <1>5, <1>6, <1>7
  DEF Next, Main, Worker, Finished, Start, Explore, Exit, vars

(* The scratch array is at the back of the list of a running worker, and   *)
(* is removed by its exit.                                                 *)
LEMMA NextScratch ==
  FInv /\ [Next]_vars => ScratchWhileRunning' /\ NoScratchKept'
<1> SUFFICES ASSUME FInv, [Next]_vars
             PROVE  ScratchWhileRunning' /\ NoScratchKept'
  OBVIOUS
<1> USE DEF FInv, IInv, Filling, ScratchWhileRunning, NoScratchKept, Running
<1>1. CASE UNCHANGED <<tpc, lists, arr>>
  BY <1>1
<1>2. CASE Create
  BY <1>2 DEF Create, TypeOK
<1>3. CASE Join
  BY <1>3 DEF Join, TypeOK
<1>4. CASE Merge
  <2>1. \A t \in Threads : ~ Running(t)
    BY <1>4 DEF Merge, Control
  <2>2. NoScratchKept'
    BY <1>4, <2>1 DEF Merge, TypeOK
  <2>3. ScratchWhileRunning'
    BY <1>4, <2>1 DEF Merge, TypeOK
  <2>4. QED
    BY <2>2, <2>3
<1>5. ASSUME NEW t \in Threads, Start(t)
      PROVE  ScratchWhileRunning' /\ NoScratchKept'
  BY <1>5 DEF Start, TypeOK
<1>6. ASSUME NEW t \in Threads, Explore(t)
      PROVE  ScratchWhileRunning' /\ NoScratchKept'
  <2> DEFINE p == Evaluated(job[t], cur[t])
             row == [lists[t] EXCEPT ![job[t]] = @ \cup {Built(p)}]
  <2>1. Record(t, p) /\ arr' = arr
    BY <1>6 DEF Explore
  <2>2. Built(p) # Scratch
    <3>1. p \in Partition
      BY EvaluatedType DEF TypeOK
    <3>2. Built(p) \in Entry
      BY <3>1, CountAssumption DEF Built, Entry, TypeOK
    <3>3. Scratch \notin Entry
      BY ConfigAssumption
    <3>4. QED
      BY <3>2, <3>3
  <2>3. ASSUME NEW u \in Threads, NEW a \in Arrays, ~ Running(u)'
        PROVE  Scratch \notin lists'[u][a]
    <3>1. CASE u # t
      <4>1. lists'[u] = lists[u]
        BY <2>1, <3>1 DEF Record, TypeOK
      <4>2. tpc'[u] = tpc[u]
        BY <1>6, <3>1 DEF Explore, TypeOK
      <4>3. QED
        BY <2>3, <4>1, <4>2
    <3>2. CASE u = t
      BY <1>6, <2>3, <3>2 DEF Explore, TypeOK
    <3>3. QED
      BY <3>1, <3>2
  <2>4. QED
    BY <2>1, <2>3
<1>7. ASSUME NEW t \in Threads, Exit(t)
      PROVE  ScratchWhileRunning' /\ NoScratchKept'
  BY <1>7 DEF Exit, WithoutScratch, TypeOK
<1>8. QED
  BY <1>1, <1>2, <1>3, <1>4, <1>5, <1>6, <1>7
  DEF Next, Main, Worker, Finished, TagInit, DataInit, Mins, vars

(* A tag search fills no data list.                                        *)
LEMMA NextTagSearchNoData == FInv /\ [Next]_vars => TagSearchNoData'
<1> SUFFICES ASSUME FInv, [Next]_vars PROVE TagSearchNoData'
  OBVIOUS
<1> USE DEF FInv, IInv, Filling, TagSearchNoData
<1>1. CASE TagInit
  BY <1>1 DEF TagInit, Install
<1>2. CASE DataInit
  BY <1>2 DEF DataInit, Install
<1>3. CASE Create
  BY <1>3, CountAssumption
  DEF Create, EndTurn, TypeOK, JobIsPhase, Threads, Arrays
<1>4. CASE Join
  BY <1>4, CountAssumption DEF Join, EndTurn, TypeOK, Threads, Arrays
<1>5. CASE Merge
  <2>1. UNCHANGED <<phase, job>> /\ mt \in Threads
    BY <1>5 DEF Merge, TypeOK
  <2>2. \A t \in Threads : job[t] = "tag" => lists'[t]["data"] \subseteq {Scratch}
    BY <1>5, <2>1 DEF Merge, TypeOK, Arrays
  <2>3. ASSUME phase = "tag" PROVE arr'["data"] = {}
    <3>1. Scratch \notin lists[mt]["data"]
      BY <1>5, <2>1 DEF Merge, Control, ScratchWhileRunning, Running, Arrays
    <3>2. lists[mt]["data"] = {} /\ arr["data"] = {}
      BY <1>5, <2>1, <2>3, <3>1 DEF Merge, JobIsPhase
    <3>3. arr'["data"] = arr["data"] \cup ({mt} \X lists[mt]["data"])
      BY <1>5, <2>3 DEF Merge, Merged, Arrays
    <3>4. {mt} \X {} = {}
      OBVIOUS
    <3>5. QED
      BY <3>2, <3>3, <3>4
  <2>4. phase # "tag" => mpc' \notin {"tag_init", "data_init", "create", "join"}
    BY <1>5 DEF Merge, EndTurn
  <2>5. QED
    BY <2>1, <2>2, <2>3, <2>4
<1>6. CASE Mins
  BY <1>6, CountAssumption DEF Mins, EndTurn, TypeOK, Threads
<1>7. ASSUME NEW t \in Threads, Start(t)
      PROVE  TagSearchNoData'
  BY <1>7 DEF Start, TypeOK, Arrays
<1>8. ASSUME NEW t \in Threads, Explore(t)
      PROVE  TagSearchNoData'
  <2> DEFINE p == Evaluated(job[t], cur[t])
             row == [lists[t] EXCEPT ![job[t]] = @ \cup {Built(p)}]
  <2>1. Record(t, p)
    BY <1>8 DEF Explore
  <2>2. UNCHANGED <<mpc, phase, job, arr>>
    BY <1>8 DEF Explore
  <2>3. ASSUME NEW u \in Threads, job[u] = "tag"
        PROVE  lists'[u]["data"] = lists[u]["data"]
    <3>1. CASE IsValid(job[t], p)
      <4>1. lists' = [lists EXCEPT ![t] = row]
        BY <2>1, <3>1, Zenon DEF Record
      <4>2. job[t] = "tag" => row["data"] = lists[t]["data"]
        BY DEF TypeOK, Arrays
      <4>3. lists'[u] = IF u = t THEN row ELSE lists[u]
        BY <4>1 DEF TypeOK
      <4>4. QED
        BY <2>3, <4>2, <4>3
    <3>2. CASE ~ IsValid(job[t], p)
      BY <2>1, <3>2 DEF Record
    <3>3. QED
      BY <3>1, <3>2
  <2>4. QED
    BY <2>2, <2>3
<1>9. ASSUME NEW t \in Threads, Exit(t)
      PROVE  TagSearchNoData'
  BY <1>9 DEF Exit, WithoutScratch, TypeOK, Arrays
<1>10. CASE UNCHANGED vars
  BY <1>10 DEF vars
<1>11. QED
  BY <1>1, <1>2, <1>3, <1>4, <1>5, <1>6, <1>7, <1>8, <1>9, <1>10
  DEF Next, Main, Worker, Finished

(* Where the scratch arrays are and which lists are filled, in every       *)
(* reachable state.                                                        *)
LEMMA FillingInvariant == Spec => []FInv
<1>1. Init => FInv
  BY InitIInv, InitFilling DEF FInv
<1>2. FInv /\ [Next]_vars => FInv'
  BY NextIInv, NextJobIsPhase, NextScratch, NextTagSearchNoData DEF FInv, Filling
<1>3. QED
  BY <1>1, <1>2, PTL DEF Spec

(* solve() never filters a mem_array no organisation was written to, and   *)
(* data_arr.clear() drops no pointer to a live mem_array.                  *)
THEOREM OnlyFilledCorrect == Spec => []OnlyFilled
<1>1. FInv => OnlyFilled
  BY DEF FInv, Filling, TagSearchNoData, OnlyFilled, NothingForgotten
<1>2. QED
  BY <1>1, FillingInvariant, PTL

-----------------------------------------------------------------------------
(* The stride of the workers over the triples.                             *)
LEMMA Multiple ==
  ASSUME NEW k \in Nat, NEW n \in Nat
  PROVE  n * k \in Nat
OBVIOUS

(* Division with remainder.                                                *)
LEMMA DivisionLaw ==
  ASSUME NEW i \in Int, NEW n \in Int, n > 0
  PROVE  i = n * (i \div n) + (i % n)
BY Z3

(* Division with remainder of naturals.                                    *)
LEMMA Euclid ==
  ASSUME NEW i \in Nat, NEW n \in Nat \ {0}
  PROVE  /\ i % n \in 0 .. n - 1 /\ i \div n \in Nat
         /\ i = n * (i \div n) + (i % n)
<1>1. i % n \in 0 .. n - 1
  OBVIOUS
<1>2. i \div n \in Int
  OBVIOUS
<1>3. i = n * (i \div n) + (i % n)
  <2>1. i \in Int /\ n \in Int /\ n > 0
    OBVIOUS
  <2> QED BY <2>1, DivisionLaw, Zenon
<1>4. i \div n >= 0
  <2> DEFINE q == i \div n
             r == (i % n)
  <2>1. q \in Int /\ r \in 0 .. n - 1 /\ i = n * q + r
    BY <1>1, <1>2, <1>3
  <2> HIDE DEF q, r
  <2> DEFINE d == 0 - q - 1
  <2>2. SUFFICES ASSUME q < 0 PROVE FALSE
    BY <2>1 DEF q
  <2>3. d \in Nat /\ q = 0 - 1 - d
    BY <2>1, <2>2
  <2> HIDE DEF d
  <2>4. n * q = 0 - n - n * d /\ n * d \in Nat
    BY <2>3, Multiple
  <2> QED BY <2>1, <2>4
<1> QED BY <1>1, <1>2, <1>3, <1>4

(* Quotient and remainder are determined by their equation.                *)
LEMMA Quotient ==
  ASSUME NEW n \in Nat \ {0}, NEW q \in Nat, NEW p \in Nat,
         NEW r \in 0 .. n - 1, NEW s \in 0 .. n - 1, n * q + r < n * p + s
  PROVE  q < p \/ (q = p /\ r < s)
<1>1. CASE q <= p
  BY <1>1
<1>2. CASE q > p
  <2> DEFINE d == q - p - 1
  <2>1. d \in Nat /\ q = p + 1 + d
    BY <1>2
  <2> HIDE DEF d
  <2>2. n * q = n * p + n + n * d
    BY <2>1
  <2>3. n * d \in Nat /\ n * p \in Nat
    BY <2>1, Multiple
  <2>4. FALSE
    BY <2>2, <2>3
  <2> QED BY <2>4
<1> QED BY <1>1, <1>2

(* A remainder is no larger than the number.                               *)
LEMMA SmallRemainder ==
  ASSUME NEW i \in Nat, NEW n \in Nat \ {0}
  PROVE  i % n <= i /\ (i < n => i % n = i)
<1> DEFINE q == i \div n
           r == (i % n)
<1>1. r \in 0 .. n - 1 /\ q \in Nat /\ i = n * q + r
  BY Euclid
<1> HIDE DEF q, r
<1>2. n * q \in Nat
  BY <1>1, Multiple
<1>3. ASSUME i < n PROVE r = i
  <2>1. n * q + r < n * 1 + 0
    BY <1>1, <1>3
  <2>2. q < 1 \/ (q = 1 /\ r < 0)
    BY <1>1, <2>1, Quotient
  <2>3. q = 0
    BY <1>1, <2>2
  <2> QED BY <1>1, <2>3
<1>4. r <= i
  BY <1>1, <1>2
<1> QED BY <1>3, <1>4 DEF r

(* The owner of a triple owns the one a stride further.                    *)
LEMMA Stride ==
  ASSUME NEW i \in Nat, NEW n \in Nat \ {0}
  PROVE  (i + n) % n = (i % n)
<1> DEFINE q == i \div n
           r == (i % n)
           p == (i + n) \div n
           s == (i + n) % n
<1>1. r \in 0 .. n - 1 /\ q \in Nat /\ i = n * q + r
  BY Euclid
<1>2. i + n \in Nat
  OBVIOUS
<1>3. s \in 0 .. n - 1 /\ p \in Nat /\ i + n = n * p + s
  BY <1>2, Euclid
<1> HIDE DEF q, r, p, s
<1>4. n * (q + 1) + r = n * p + s /\ q + 1 \in Nat
  BY <1>1, <1>3
<1>5. n * p + s < n * (q + 1) + (r + 1) /\ n * (q + 1) + r < n * p + (s + 1)
  BY <1>1, <1>3, <1>4, Multiple
<1>6. CASE q + 1 = p
  BY <1>1, <1>3, <1>4, <1>6 DEF r, s
<1>7. CASE q + 1 < p
  <2> DEFINE d == p - q - 2
  <2>1. d \in Nat /\ p = q + 2 + d
    BY <1>1, <1>3, <1>7
  <2> HIDE DEF d
  <2>2. n * p = n * (q + 1) + n + n * d /\ n * d \in Nat /\ n * (q + 1) \in Nat
    BY <1>1, <2>1, Multiple
  <2> QED BY <1>1, <1>3, <1>4, <2>2
<1>8. CASE p < q + 1
  <2> DEFINE d == q - p
  <2>1. d \in Nat /\ q + 1 = p + 1 + d
    BY <1>1, <1>3, <1>8
  <2> HIDE DEF d
  <2>2. n * (q + 1) = n * p + n + n * d /\ n * d \in Nat /\ n * p \in Nat
    BY <1>3, <2>1, Multiple
  <2> QED BY <1>1, <1>3, <1>4, <2>2
<1> QED BY <1>1, <1>3, <1>6, <1>7, <1>8

(* Two triples of one owner are at least a stride apart.                   *)
LEMMA StrideGap ==
  ASSUME NEW i \in Nat, NEW j \in Nat, NEW n \in Nat \ {0},
         i % n = j % n, i < j
  PROVE  i + n <= j
<1> DEFINE q == i \div n
           p == j \div n
           r == (i % n)
<1>1. r \in 0 .. n - 1 /\ q \in Nat /\ i = n * q + r
  BY Euclid
<1>2. p \in Nat /\ j = n * p + r
  BY Euclid
<1> HIDE DEF q, r, p
<1>3. q < p
  BY <1>1, <1>2, Quotient
<1> DEFINE d == p - q - 1
<1>4. d \in Nat /\ p = q + 1 + d
  BY <1>1, <1>2, <1>3
<1> HIDE DEF d
<1>5. n * p = n * q + n + n * d /\ n * d \in Nat /\ n * q \in Nat
  BY <1>1, <1>4, Multiple
<1> QED BY <1>1, <1>2, <1>5
-----------------------------------------------------------------------------
(* What the search delivers.                                               *)
(*                                                                         *)
(* The positions worker t's loops go through in a search of array a.  A    *)
(* forced organisation leaves the loops it fixes their first value only.   *)
Visits(a, t) ==
  {c \in [nspd : NspdMin[a] .. MaxSpd, wt : WtMin .. WtMax,
          iter : 0 .. NumIter - 1, dsam : 1 .. NumDsam] :
     IF Forced(a)
     THEN /\ c.wt = WtMin /\ c.iter = t
          /\ ForceConfig.nspd # 0 => c.nspd = NspdMin[a]
          /\ ForceConfig.dsam # 0 => c.dsam = 1
     ELSE c.iter % NThreads = t}

(* The order of the loops, the outermost first.                            *)
Before(c, d) ==
  \/ c.nspd < d.nspd
  \/ /\ c.nspd = d.nspd
     /\ \/ c.wt < d.wt
        \/ /\ c.wt = d.wt
           /\ \/ c.iter < d.iter
              \/ c.iter = d.iter /\ c.dsam < d.dsam

(* Where worker t finds a valid organisation, and where it already did: a  *)
(* worker that searches the data array is through with the tag array.      *)
Work(a, t) == {c \in Visits(a, t) : IsValid(a, Evaluated(a, c))}

Through(a, t, c) ==
  IF job[t] = a
  THEN tpc[t] \in {"exit", "exited"} \/ (tpc[t] = "loop" /\ Before(c, cur[t]))
  ELSE a = "tag" /\ IsCache

Done(a, t) == {c \in Work(a, t) : Through(a, t, c)}

(* The list entry made at position c, and everything the workers in T put  *)
(* into their lists for array a.                                           *)
Organisation(a, c) == [part |-> Evaluated(a, c), tech |-> a, wire |-> IpWt]
Entries(a, S) == {Organisation(a, c) : c \in S}
Collected(a, T) == UNION {{t} \X Entries(a, Work(a, t)) : t \in T}

(* v holds the least value of each metric over the organisations at S.     *)
LeastOver(v, a, S) ==
  \A m \in Metrics :
    /\ v[m] <= BigNum
    /\ \A c \in S : v[m] <= ShapeCost(Evaluated(a, c))[m]
    /\ v[m] = BigNum \/ \E c \in S : v[m] = ShapeCost(Evaluated(a, c))[m]

(* The inductive invariant: which workers a stage of solve() has begun and *)
(* finished with,                                                          *)
Fresh(t) ==
  /\ job[t] = "tag"
  /\ tpc[t] = IF IsCache /\ (mpc = "data_init" \/ phase = "data") THEN "exited" ELSE "idle"

Stage ==
  /\ phase = "tag" => IsCache
  /\ mpc = "tag_init" => phase = "data" /\ \A t \in Threads : tpc[t] = "idle"
  /\ mpc = "data_init" => \A t \in Threads : Fresh(t)
  /\ mpc = "create" => \A t \in Threads : IF t < mt THEN tpc[t] # "idle" ELSE Fresh(t)
  /\ mpc = "join" => \A t \in Threads : tpc[t] # "idle" /\ (t < mt => tpc[t] = "exited")
  /\ mpc \in {"merge", "mins", "done"} => \A t \in Threads : tpc[t] = "exited"
  /\ mpc \in {"mins", "done"} =>
       phase = "data" /\ \A t \in Threads : job[t] = "data"

(* where a worker's loops are, what it put into its list until the list is *)
(* merged, and the minima of all it evaluated,                             *)
Held(t) ==
  \/ tpc[t] \in {"loop", "exit"}
  \/ /\ tpc[t] = "exited"
     /\ \/ mpc = "join"
        \/ mpc = "create" /\ t < mt
        \/ mpc = "merge" /\ t >= mt

Progress ==
  \A t \in Threads :
    /\ tpc[t] = "loop" => cur[t] \in Visits(job[t], t)
    /\ Held(t) => lists[t][job[t]] \ {Scratch} = Entries(job[t], Done(job[t], t))
    /\ \A a \in Arrays : LeastOver(res[t][a], a, Done(a, t))

(* which workers' lists are merged,                                        *)
Delivered(a) ==
  IF a = "tag" /\ ~ IsCache THEN {}
  ELSE IF (a = "tag" /\ TagDone) \/ (a = "data" /\ DataDone) THEN Threads
  ELSE IF mpc = "merge" /\ phase = a THEN 0 .. mt - 1 ELSE {}

Delivery == \A a \in Arrays : arr[a] = Collected(a, Delivered(a))

(* and whose minima were taken in.                                         *)
Counted == IF mpc = "done" THEN Threads ELSE IF mpc = "mins" THEN 0 .. mt - 1 ELSE {}

Minima ==
  \A a \in Arrays : LeastOver(min[a], a, UNION {Done(a, t) : t \in Counted})

SInv == FInv /\ Stage /\ Progress /\ Delivery /\ Minima
-----------------------------------------------------------------------------
(* The loops of one worker: they visit the positions of Visits in order,   *)
(* from the first to the last, without leaving one out.                    *)
LEMMA ConfigFacts ==
  /\ ForceConfig.nspd \in Nat /\ ForceConfig.iter \in Nat /\ ForceConfig.dsam \in Nat
  /\ IpWt \in Nat /\ WtMin \in Nat /\ WtMax \in Nat /\ WtMin <= WtMax /\ MaxSpd \in Nat
  /\ NThreads \in Nat \ {0} /\ NumIter \in Nat \ {0} /\ NumDsam \in Nat \ {0}
  /\ \A a \in Arrays : NspdMin[a] \in Nat /\ NspdMin[a] <= MaxSpd /\ NspdMin[a] >= 1
<1>1. ForceConfig \in [on : BOOLEAN, nspd : Nat, iter : Nat, dsam : Nat]
  BY ConfigAssumption
<1>2. \A a \in Arrays : NspdMin[a] \in 1 .. MaxSpd
  BY CountAssumption
<1> QED BY <1>1, <1>2, CountAssumption

(* The fields of a position.                                               *)
LEMMA AtFields ==
  ASSUME NEW n, NEW w, NEW i, NEW d
  PROVE  /\ At(n, w, i, d).nspd = n /\ At(n, w, i, d).wt = w
         /\ At(n, w, i, d).iter = i /\ At(n, w, i, d).dsam = d
BY DEF At

(* A partition is its four numbers.                                        *)
LEMMA PartitionEqual ==
  ASSUME NEW c \in Partition, NEW d \in Partition,
         c.nspd = d.nspd, c.wt = d.wt, c.iter = d.iter, c.dsam = d.dsam
  PROVE  c = d
BY DEF Partition

(* Which positions the loops of a worker visit.                            *)
LEMMA InVisits ==
  ASSUME NEW a \in Arrays, NEW t \in Threads, NEW c
  PROVE  c \in Visits(a, t) <=>
           /\ c \in Partition
           /\ NspdMin[a] <= c.nspd /\ c.nspd <= MaxSpd
           /\ WtMin <= c.wt /\ c.wt <= WtMax
           /\ c.iter < NumIter /\ 1 <= c.dsam /\ c.dsam <= NumDsam
           /\ Forced(a) =>
                /\ c.wt = WtMin /\ c.iter = t
                /\ ForceConfig.nspd # 0 => c.nspd = NspdMin[a]
                /\ ForceConfig.dsam # 0 => c.dsam = 1
           /\ ~ Forced(a) => c.iter % NThreads = t
<1> DEFINE P == [nspd : NspdMin[a] .. MaxSpd, wt : WtMin .. WtMax,
                 iter : 0 .. NumIter - 1, dsam : 1 .. NumDsam]
<1>1. c \in P <=> /\ c \in Partition
                  /\ NspdMin[a] <= c.nspd /\ c.nspd <= MaxSpd
                  /\ WtMin <= c.wt /\ c.wt <= WtMax
                  /\ c.iter < NumIter /\ 1 <= c.dsam /\ c.dsam <= NumDsam
  <2>1. ASSUME c \in P PROVE c \in Partition
    BY <2>1, ConfigFacts DEF Partition
  <2>2. c \in P => /\ NspdMin[a] <= c.nspd /\ c.nspd <= MaxSpd
                   /\ WtMin <= c.wt /\ c.wt <= WtMax
                   /\ c.iter < NumIter /\ 1 <= c.dsam /\ c.dsam <= NumDsam
    BY ConfigFacts
  <2>3. ASSUME c \in Partition,
               NspdMin[a] <= c.nspd, c.nspd <= MaxSpd, WtMin <= c.wt, c.wt <= WtMax,
               c.iter < NumIter, 1 <= c.dsam, c.dsam <= NumDsam
        PROVE  c \in P
    BY <2>3, ConfigFacts DEF Partition
  <2> QED BY <2>1, <2>2, <2>3
<1> HIDE DEF P
<1>2. c \in Visits(a, t) <=>
        /\ c \in P
        /\ Forced(a) =>
                /\ c.wt = WtMin /\ c.iter = t
                /\ ForceConfig.nspd # 0 => c.nspd = NspdMin[a]
                /\ ForceConfig.dsam # 0 => c.dsam = 1
        /\ ~ Forced(a) => c.iter % NThreads = t
  BY DEF Visits, P
<1> QED BY <1>1, <1>2

(* A worker with no triple visits nothing.                                 *)
LEMMA NoVisits ==
  ASSUME NEW a \in Arrays, NEW t \in Threads, t >= NumIter
  PROVE  Visits(a, t) = {}
<1> SUFFICES ASSUME NEW c \in Visits(a, t) PROVE FALSE
  OBVIOUS
<1>1. c.iter \in Nat /\ c.iter < NumIter /\ t \in Nat
  BY InVisits DEF Partition, Threads
<1>2. c.iter % NThreads <= c.iter
  BY <1>1, ConfigFacts, SmallRemainder
<1>3. c.iter % NThreads = t \/ c.iter = t
  BY InVisits
<1> QED BY <1>1, <1>2, <1>3, ConfigFacts

(* The loops start at the first position.                                  *)
LEMMA FirstVisit ==
  ASSUME NEW a \in Arrays, NEW t \in Threads, t < NumIter
  PROVE  /\ FirstPos(a, t) \in Visits(a, t)
         /\ \A c \in Visits(a, t) : ~ Before(c, FirstPos(a, t))
<1> DEFINE f == FirstPos(a, t)
<1>1. f.nspd = NspdMin[a] /\ f.wt = WtMin /\ f.iter = t /\ f.dsam = 1
  BY AtFields DEF FirstPos
<1>2. f \in Partition
  BY FirstPosType
<1> HIDE DEF f
<1>3. t \in Nat /\ t < NThreads
  BY ConfigFacts DEF Threads
<1>4. t % NThreads = t
  BY <1>3, ConfigFacts, SmallRemainder
<1>5. f \in Visits(a, t)
  BY <1>1, <1>2, <1>3, <1>4, InVisits, ConfigFacts
<1>6. ASSUME NEW c \in Visits(a, t) PROVE ~ Before(c, f)
  <2>1. c.nspd >= f.nspd /\ c.wt >= f.wt /\ c.dsam >= f.dsam
        /\ c.nspd \in Nat /\ c.wt \in Nat /\ c.iter \in Nat /\ c.dsam \in Nat
    BY <1>1, InVisits DEF Partition
  <2>2. c.iter >= t
    <3>1. c.iter % NThreads <= c.iter
      BY <2>1, ConfigFacts, SmallRemainder
    <3>2. c.iter % NThreads = t \/ c.iter = t
      BY InVisits
    <3> QED BY <2>1, <3>1, <3>2, <1>3
  <2> QED BY <1>1, <1>3, <2>1, <2>2, ConfigFacts DEF Before
<1> QED BY <1>5, <1>6 DEF f

(* The loops go on to the next position: between the two there is none.    *)
LEMMA NextVisit ==
  ASSUME NEW a \in Arrays, NEW t \in Threads, NEW c \in Visits(a, t), More(a, c)
  PROVE  LET n == NextPos(a, t, c)
         IN /\ n \in Visits(a, t)
            /\ \A v \in Visits(a, t) : Before(v, n) <=> Before(v, c) \/ v = c
<1> DEFINE n == NextPos(a, t, c)
<1>1. /\ c \in Partition
      /\ c.nspd \in Nat /\ c.wt \in Nat /\ c.iter \in Nat /\ c.dsam \in Nat
      /\ t \in Nat /\ t < NThreads
  BY InVisits, ConfigFacts DEF Partition, Threads
<1>2. t <= c.iter /\ t % NThreads = t
  <2>1. c.iter % NThreads <= c.iter
    BY <1>1, ConfigFacts, SmallRemainder
  <2>2. c.iter % NThreads = t \/ c.iter = t
    BY InVisits
  <2>3. t % NThreads = t
    BY <1>1, ConfigFacts, SmallRemainder
  <2> QED BY <1>1, <2>1, <2>2, <2>3, ConfigFacts
<1>3. n \in Partition
  BY <1>1, NextPosType
<1>4. ASSUME NEW v \in Visits(a, t)
      PROVE  /\ v \in Partition
             /\ v.nspd \in Nat /\ v.wt \in Nat /\ v.iter \in Nat /\ v.dsam \in Nat
             /\ v.wt <= WtMax /\ WtMin <= v.wt /\ v.iter < NumIter /\ 1 <= v.dsam
             /\ v.dsam <= NumDsam /\ NspdMin[a] <= v.nspd /\ t <= v.iter
             /\ Forced(a) => /\ v.wt = WtMin /\ v.iter = t
                             /\ ForceConfig.nspd # 0 => v.nspd = NspdMin[a]
                             /\ ForceConfig.dsam # 0 => v.dsam = 1
             /\ ~ Forced(a) /\ c.iter < v.iter => c.iter + NThreads <= v.iter
             /\ ~ Forced(a) /\ v.iter < c.iter + NThreads => v.iter <= c.iter
             /\ v = c <=> v.nspd = c.nspd /\ v.wt = c.wt /\ v.iter = c.iter /\ v.dsam = c.dsam
  <2>1. /\ v \in Partition
        /\ v.nspd \in Nat /\ v.wt \in Nat /\ v.iter \in Nat /\ v.dsam \in Nat
    BY InVisits DEF Partition
  <2>2. t <= v.iter
    <3>1. v.iter % NThreads <= v.iter
      BY <2>1, ConfigFacts, SmallRemainder
    <3>2. v.iter % NThreads = t \/ v.iter = t
      BY InVisits
    <3> QED BY <1>1, <2>1, <3>1, <3>2, ConfigFacts
  <2>3. ~ Forced(a) /\ c.iter < v.iter => c.iter + NThreads <= v.iter
    BY <1>1, <2>1, InVisits, ConfigFacts, StrideGap
  <2>4. v = c <=> v.nspd = c.nspd /\ v.wt = c.wt /\ v.iter = c.iter /\ v.dsam = c.dsam
    BY <1>1, <2>1, PartitionEqual
  <2> QED BY <1>1, <2>1, <2>2, <2>3, <2>4, InVisits, ConfigFacts
<1>5. c \in Visits(a, t)
  OBVIOUS
<1>6. CASE MoreDsam(a, c)
  <2>1. n.nspd = c.nspd /\ n.wt = c.wt /\ n.iter = c.iter /\ n.dsam = c.dsam + 1
    BY <1>6, AtFields DEF NextPos
  <2>2. c.dsam < NumDsam /\ (Forced(a) => ForceConfig.dsam = 0)
    BY <1>6 DEF MoreDsam
  <2> HIDE DEF n
  <2>3. n \in Visits(a, t)
    BY <1>1, <1>3, <2>1, <2>2, InVisits, ConfigFacts
  <2>4. ASSUME NEW v \in Visits(a, t) PROVE Before(v, n) <=> Before(v, c) \/ v = c
    BY <1>1, <1>4, <2>1 DEF Before
  <2> QED BY <2>3, <2>4 DEF n
<1>7. CASE ~ MoreDsam(a, c) /\ MoreIter(a, c)
  <2>1. n.nspd = c.nspd /\ n.wt = c.wt /\ n.iter = c.iter + NThreads /\ n.dsam = 1
    BY <1>7, AtFields DEF NextPos
  <2>2. c.iter + NThreads < NumIter /\ ~ Forced(a) /\ c.dsam = NumDsam
    BY <1>1, <1>5, <1>4, <1>7, ConfigFacts DEF MoreIter, MoreDsam
  <2>a. (c.iter + NThreads) % NThreads = c.iter % NThreads /\ c.iter % NThreads = t
    <3>1. NThreads \in Nat \ {0} /\ c.iter \in Nat
      BY <1>1, ConfigFacts
    <3>2. c.iter % NThreads = t
      BY <1>1, <2>2, InVisits
    <3> QED BY <3>1, <3>2, Stride
  <2> HIDE DEF n
  <2>3. n \in Visits(a, t)
    BY <1>1, <1>3, <2>1, <2>2, <2>a, InVisits, ConfigFacts
  <2>4. ASSUME NEW v \in Visits(a, t) PROVE Before(v, n) <=> Before(v, c) \/ v = c
    BY <1>1, <1>4, <2>1, <2>2, ConfigFacts DEF Before
  <2> QED BY <2>3, <2>4 DEF n
<1>8. CASE ~ MoreDsam(a, c) /\ ~ MoreIter(a, c) /\ MoreWt(a, c)
  <2>1. n.nspd = c.nspd /\ n.wt = c.wt + 1 /\ n.iter = t /\ n.dsam = 1
    BY <1>8, AtFields DEF NextPos
  <2>2. c.wt < WtMax /\ ~ Forced(a) /\ c.dsam = NumDsam /\ c.iter + NThreads >= NumIter
    BY <1>1, <1>5, <1>4, <1>8, ConfigFacts DEF MoreIter, MoreDsam, MoreWt
  <2> HIDE DEF n
  <2>3. n \in Visits(a, t)
    BY <1>1, <1>2, <1>3, <1>4, <1>5, <2>1, <2>2, InVisits, ConfigFacts
  <2>4. ASSUME NEW v \in Visits(a, t) PROVE Before(v, n) <=> Before(v, c) \/ v = c
    BY <1>1, <1>4, <2>1, <2>2, ConfigFacts DEF Before
  <2> QED BY <2>3, <2>4 DEF n
<1>9. CASE ~ MoreDsam(a, c) /\ ~ MoreIter(a, c) /\ ~ MoreWt(a, c)
  <2>1. n.nspd = c.nspd + 1 /\ n.wt = WtMin /\ n.iter = t /\ n.dsam = 1
    BY <1>9, AtFields DEF NextPos
  <2>2. /\ c.nspd < MaxSpd /\ (Forced(a) => ForceConfig.nspd = 0)
        /\ (Forced(a) /\ ForceConfig.dsam # 0) \/ c.dsam = NumDsam
        /\ Forced(a) \/ (c.iter + NThreads >= NumIter /\ c.wt = WtMax)
    BY <1>1, <1>5, <1>4, <1>9, ConfigFacts DEF More, MoreIter, MoreDsam, MoreWt, MoreNspd
  <2> HIDE DEF n
  <2>3. n \in Visits(a, t)
    BY <1>1, <1>2, <1>3, <1>4, <1>5, <2>1, <2>2, InVisits, ConfigFacts
  <2>4. ASSUME NEW v \in Visits(a, t) PROVE Before(v, n) <=> Before(v, c) \/ v = c
    <3>1. CASE Forced(a)
      BY <1>1, <1>4, <1>5, <2>1, <2>2, <3>1, ConfigFacts DEF Before
    <3>2. CASE ~ Forced(a)
      BY <1>1, <1>4, <2>1, <2>2, <3>2, ConfigFacts DEF Before
    <3> QED BY <3>1, <3>2
  <2> QED BY <2>3, <2>4 DEF n
<1> QED BY <1>6, <1>7, <1>8, <1>9

(* The loops end at the last position.                                     *)
LEMMA LastVisit ==
  ASSUME NEW a \in Arrays, NEW t \in Threads, NEW c \in Visits(a, t), ~ More(a, c),
         NEW v \in Visits(a, t)
  PROVE  Before(v, c) \/ v = c
<1>1. /\ c.nspd \in Nat /\ c.wt \in Nat /\ c.iter \in Nat /\ c.dsam \in Nat
      /\ v.nspd \in Nat /\ v.wt \in Nat /\ v.iter \in Nat /\ v.dsam \in Nat
  BY InVisits DEF Partition
<1>2. ~ Forced(a) /\ c.iter < v.iter => c.iter + NThreads <= v.iter
  BY <1>1, InVisits, ConfigFacts, StrideGap
<1>3. v = c <=> v.nspd = c.nspd /\ v.wt = c.wt /\ v.iter = c.iter /\ v.dsam = c.dsam
  BY InVisits, PartitionEqual
<1>4. /\ (Forced(a) /\ ForceConfig.dsam # 0) \/ c.dsam >= NumDsam
      /\ Forced(a) \/ (c.iter + NThreads >= NumIter /\ c.wt >= WtMax)
      /\ (Forced(a) /\ ForceConfig.nspd # 0) \/ c.nspd >= MaxSpd
  BY <1>1, ConfigFacts DEF More, MoreIter, MoreDsam, MoreWt, MoreNspd
<1>5. CASE Forced(a)
  BY <1>1, <1>3, <1>4, <1>5, InVisits, ConfigFacts DEF Before
<1>6. CASE ~ Forced(a)
  BY <1>1, <1>2, <1>3, <1>4, <1>6, InVisits, ConfigFacts DEF Before
<1> QED BY <1>5, <1>6

(* No position is ahead of itself.                                         *)
LEMMA BeforeNot ==
  ASSUME NEW c \in Partition
  PROVE  ~ Before(c, c)
BY DEF Before, Partition

(* What a forced configuration replaces of a position.                     *)
LEMMA EvaluatedFields ==
  ASSUME NEW a \in Arrays, NEW c \in Partition
  PROVE  /\ Forced(a) =>
              /\ Evaluated(a, c).wt = IpWt /\ Evaluated(a, c).iter = ForceConfig.iter
              /\ Evaluated(a, c).nspd = IF ForceConfig.nspd # 0 THEN ForceConfig.nspd ELSE c.nspd
              /\ Evaluated(a, c).dsam = IF ForceConfig.dsam # 0 THEN ForceConfig.dsam ELSE c.dsam
         /\ ~ Forced(a) => Evaluated(a, c) = c
BY AtFields DEF Evaluated

(* No two positions of a worker are the same organisation.                 *)
LEMMA EvaluatedOnce ==
  ASSUME NEW a \in Arrays, NEW t \in Threads, NEW c \in Visits(a, t), NEW d \in Visits(a, t),
         Evaluated(a, c) = Evaluated(a, d)
  PROVE  c = d
<1>1. c \in Partition /\ d \in Partition
  BY InVisits
<1>2. CASE Forced(a)
  <2>1. c.nspd = d.nspd /\ c.dsam = d.dsam
    <3> DEFINE p == Evaluated(a, c)
               q == Evaluated(a, d)
    <3>1. /\ p.nspd = IF ForceConfig.nspd # 0 THEN ForceConfig.nspd ELSE c.nspd
          /\ p.dsam = IF ForceConfig.dsam # 0 THEN ForceConfig.dsam ELSE c.dsam
          /\ q.nspd = IF ForceConfig.nspd # 0 THEN ForceConfig.nspd ELSE d.nspd
          /\ q.dsam = IF ForceConfig.dsam # 0 THEN ForceConfig.dsam ELSE d.dsam
      BY <1>1, <1>2, EvaluatedFields
    <3>2. p = q
      OBVIOUS
    <3> HIDE DEF p, q
    <3>3. /\ ForceConfig.nspd # 0 => c.nspd = d.nspd
          /\ ForceConfig.dsam # 0 => c.dsam = d.dsam
      BY <1>2, InVisits
    <3> QED BY <3>1, <3>2, <3>3
  <2>2. c.wt = d.wt /\ c.iter = d.iter
    BY <1>2, InVisits
  <2> QED BY <1>1, <2>1, <2>2, PartitionEqual
<1>3. CASE ~ Forced(a)
  BY <1>1, <1>3, EvaluatedFields
<1> QED BY <1>2, <1>3

(* The workers together find every valid organisation; unless one is       *)
(* forced, each of them is found by the worker its triple belongs to.      *)
LEMMA WorkPart ==
  ASSUME NEW a \in Arrays, NEW t \in Threads, NEW c \in Work(a, t)
  PROVE  /\ c \in Visits(a, t) /\ c \in Partition /\ IsValid(a, Evaluated(a, c))
         /\ Evaluated(a, c) \in Space(a) /\ t < NumIter
<1>1. c \in Visits(a, t) /\ IsValid(a, Evaluated(a, c)) /\ c \in Partition
  BY InVisits DEF Work
<1>2. t < NumIter
  BY <1>1, NoVisits, ConfigFacts DEF Threads
<1>3. Evaluated(a, c) \in Positions(a)
  <2> DEFINE p == Evaluated(a, c)
  <2>0. /\ p \in Partition
        /\ c.nspd \in NspdMin[a] .. MaxSpd /\ c.wt \in WtMin .. WtMax
        /\ c.iter \in 0 .. NumIter - 1 /\ c.dsam \in 1 .. NumDsam
    BY <1>1, EvaluatedType DEF Visits
  <2>1. CASE Forced(a)
    <3>1. /\ p.wt = IpWt /\ p.iter = ForceConfig.iter
          /\ p.nspd = IF ForceConfig.nspd # 0 THEN ForceConfig.nspd ELSE c.nspd
          /\ p.dsam = IF ForceConfig.dsam # 0 THEN ForceConfig.dsam ELSE c.dsam
      BY <1>1, <2>1, EvaluatedFields
    <3> HIDE DEF p
    <3>2. /\ p.nspd \in Choice(ForceConfig.nspd, NspdMin[a] .. MaxSpd)
          /\ p.dsam \in Choice(ForceConfig.dsam, 1 .. NumDsam)
      BY <2>0, <3>1 DEF Choice
    <3>3. p \in Positions(a)
      BY <2>0, <2>1, <3>1, <3>2 DEF Partition, Positions
    <3> QED BY <3>3 DEF p
  <2>2. CASE ~ Forced(a)
    BY <1>1, <2>2, EvaluatedFields DEF Positions, Visits
  <2> QED BY <2>1, <2>2
<1> QED BY <1>1, <1>2, <1>3 DEF Space

(* The positions a forced configuration leaves.                            *)
LEMMA PositionParts ==
  ASSUME NEW a \in Arrays, NEW p \in Positions(a)
  PROVE  /\ p \in Partition
         /\ Forced(a) =>
              /\ p.wt = IpWt /\ p.iter = ForceConfig.iter
              /\ IF ForceConfig.nspd # 0 THEN p.nspd = ForceConfig.nspd
                                         ELSE NspdMin[a] <= p.nspd /\ p.nspd <= MaxSpd
              /\ IF ForceConfig.dsam # 0 THEN p.dsam = ForceConfig.dsam
                                         ELSE 1 <= p.dsam /\ p.dsam <= NumDsam
         /\ ~ Forced(a) =>
              /\ NspdMin[a] <= p.nspd /\ p.nspd <= MaxSpd /\ WtMin <= p.wt /\ p.wt <= WtMax
              /\ p.iter < NumIter /\ 1 <= p.dsam /\ p.dsam <= NumDsam
<1>1. CASE Forced(a)
  BY <1>1, ConfigFacts DEF Positions, Choice, Partition
<1>2. CASE ~ Forced(a)
  BY <1>2, ConfigFacts DEF Positions, Partition
<1> QED BY <1>1, <1>2

(* Whose organisation p is, and at which position its worker meets it.     *)
Owners(a, p) == IF Forced(a) THEN {t \in Threads : t < NumIter} ELSE {p.iter % NThreads}
Source(a, t, p) ==
  IF Forced(a)
  THEN At(IF ForceConfig.nspd # 0 THEN NspdMin[a] ELSE p.nspd, WtMin, t,
          IF ForceConfig.dsam # 0 THEN 1 ELSE p.dsam)
  ELSE p

(* An owner of a partition visits the position it is evaluated at.         *)
LEMMA SpaceFound ==
  ASSUME NEW a \in Arrays, NEW p \in Space(a), NEW t \in Owners(a, p)
  PROVE  t \in Threads /\ Source(a, t, p) \in Work(a, t) /\ Evaluated(a, Source(a, t, p)) = p
<1>1. p \in Positions(a) /\ IsValid(a, p) /\ p \in Partition
  BY PositionParts DEF Space
<1>2. p.nspd \in Nat /\ p.wt \in Nat /\ p.iter \in Nat /\ p.dsam \in Nat
  BY <1>1 DEF Partition
<1>3. CASE Forced(a)
  <2>1. t \in Threads /\ t < NumIter /\ t \in Nat
    BY <1>3 DEF Owners, Threads
  <2> DEFINE n == IF ForceConfig.nspd # 0 THEN NspdMin[a] ELSE p.nspd
             d == IF ForceConfig.dsam # 0 THEN 1 ELSE p.dsam
             c == At(n, WtMin, t, d)
  <2>2. c.nspd = n /\ c.wt = WtMin /\ c.iter = t /\ c.dsam = d
    BY AtFields
  <2>3. n \in Nat /\ d \in Nat
    BY <1>2, ConfigFacts
  <2>4. c \in Partition
    BY <2>1, <2>3, ConfigFacts, AtType
  <2>5. NspdMin[a] <= n /\ n <= MaxSpd /\ 1 <= d /\ d <= NumDsam
    BY <1>1, <1>3, PositionParts, ConfigFacts
  <2>6. /\ ForceConfig.nspd # 0 => n = NspdMin[a]
        /\ ForceConfig.dsam # 0 => d = 1
    OBVIOUS
  <2>7. c = Source(a, t, p)
    BY <1>3 DEF Source
  <2>8. /\ Evaluated(a, c).wt = p.wt /\ Evaluated(a, c).iter = p.iter
        /\ Evaluated(a, c).nspd = p.nspd /\ Evaluated(a, c).dsam = p.dsam
    <3>1. /\ Evaluated(a, c).wt = IpWt /\ Evaluated(a, c).iter = ForceConfig.iter
          /\ Evaluated(a, c).nspd = IF ForceConfig.nspd # 0 THEN ForceConfig.nspd ELSE c.nspd
          /\ Evaluated(a, c).dsam = IF ForceConfig.dsam # 0 THEN ForceConfig.dsam ELSE c.dsam
      BY <1>3, <2>4, EvaluatedFields
    <3> QED BY <1>1, <1>3, <2>2, <3>1, PositionParts
  <2> HIDE DEF n, d, c
  <2>9. c \in Visits(a, t)
    BY <1>3, <2>1, <2>2, <2>4, <2>5, <2>6, InVisits, ConfigFacts
  <2>10. Evaluated(a, c) = p
    BY <1>1, <2>4, <2>8, EvaluatedType, PartitionEqual
  <2> QED BY <1>1, <2>1, <2>7, <2>9, <2>10 DEF Work
<1>4. CASE ~ Forced(a)
  <2>1. t = p.iter % NThreads /\ Source(a, t, p) = p /\ Evaluated(a, p) = p
    BY <1>1, <1>4, EvaluatedFields DEF Owners, Source
  <2>2. t \in Threads
    BY <1>2, <2>1, Euclid, ConfigFacts DEF Threads
  <2>3. p \in Visits(a, t)
    BY <1>1, <1>4, <2>1, <2>2, PositionParts, InVisits
  <2> QED BY <1>1, <2>1, <2>2, <2>3 DEF Work
<1> QED BY <1>3, <1>4

(* Who evaluates a partition owns it, and does it at one position.         *)
LEMMA OwnersOnly ==
  ASSUME NEW a \in Arrays, NEW t \in Threads, NEW c \in Work(a, t)
  PROVE  /\ t \in Owners(a, Evaluated(a, c))
         /\ c = Source(a, t, Evaluated(a, c))
<1>1. c \in Visits(a, t) /\ c \in Partition /\ t < NumIter /\ Evaluated(a, c) \in Space(a)
  BY WorkPart
<1>2. t \in Owners(a, Evaluated(a, c))
  <2>1. ~ Forced(a) => Evaluated(a, c) = c /\ c.iter % NThreads = t
    BY <1>1, EvaluatedFields, InVisits
  <2> QED BY <1>1, <2>1 DEF Owners
<1>3. Source(a, t, Evaluated(a, c)) \in Visits(a, t)
      /\ Evaluated(a, Source(a, t, Evaluated(a, c))) = Evaluated(a, c)
  BY <1>1, <1>2, SpaceFound, WorkPart
<1> QED BY <1>1, <1>2, <1>3, EvaluatedOnce

(* Every partition has an owner.                                           *)
LEMMA SomeOwner ==
  ASSUME NEW a \in Arrays, NEW p \in Space(a)
  PROVE  Owners(a, p) # {}
<1>1. 0 \in Threads /\ 0 < NumIter
  BY ZeroThread, ConfigFacts
<1> QED BY <1>1 DEF Owners

-----------------------------------------------------------------------------
(* The invariant of the search holds at the start.                         *)
LEMMA InitSInv == Init => SInv
<1> SUFFICES ASSUME Init PROVE SInv
  OBVIOUS
<1>1. FInv
  BY InitIInv, InitFilling DEF FInv
<1>2. Stage
  BY DEF Init, Stage
<1>3. ASSUME NEW a \in Arrays, NEW t \in Threads PROVE Done(a, t) = {}
  BY DEF Init, Done, Through
<1>4. ASSUME NEW a \in Arrays PROVE LeastOver(NoMin, a, {})
  BY ConfigAssumption DEF LeastOver, NoMin
<1>5. Progress
  <2>1. ASSUME NEW t \in Threads PROVE ~ Held(t) /\ tpc[t] # "loop"
    BY DEF Init, Held
  <2>2. ASSUME NEW t \in Threads, NEW a \in Arrays PROVE LeastOver(res[t][a], a, Done(a, t))
    BY <1>3, <1>4 DEF Init
  <2> QED BY <2>1, <2>2 DEF Progress
<1>6. Delivery
  <2>1. ASSUME NEW a \in Arrays PROVE Delivered(a) = {} /\ arr[a] = {}
    BY DEF Init, Delivered, TagDone, DataDone, Arrays
  <2>2. ASSUME NEW a \in Arrays PROVE Collected(a, {}) = {}
    BY DEF Collected
  <2> QED BY <2>1, <2>2 DEF Delivery
<1>7. Minima
  <2>1. ASSUME NEW a \in Arrays
        PROVE UNION {Done(a, t) : t \in Counted} = {} /\ min[a] = NoMin
    BY DEF Init, Counted
  <2> QED BY <1>4, <2>1 DEF Minima
<1> QED BY <1>1, <1>2, <1>5, <1>6, <1>7 DEF SInv

(* Which lists are merged follows from where the main thread is.           *)
LEMMA NextStage == FInv /\ Stage /\ [Next]_vars => Stage'
<1> SUFFICES ASSUME FInv, Stage, [Next]_vars PROVE Stage'
  OBVIOUS
<1>0. TypeOK /\ Control /\ JobIsPhase
  BY DEF FInv, IInv, Filling
<1> USE DEF Stage, Fresh
<1>1. CASE TagInit
  BY <1>0, <1>1, ZeroThread DEF TagInit, Install, TypeOK, JobIsPhase, Threads
<1>2. CASE DataInit
  BY <1>0, <1>2, ZeroThread DEF DataInit, Install, TypeOK, JobIsPhase, Threads
<1>3. CASE Create
  BY <1>0, <1>3, ConfigFacts DEF Create, EndTurn, TypeOK, Threads
<1>4. CASE Join
  <2>1. /\ mpc = "join" /\ tpc[mt] = "exited" /\ UNCHANGED <<phase, job, tpc>>
        /\ IF mt + 1 = NThreads THEN mt' = 0 /\ mpc' = "merge"
                                ELSE mt' = mt + 1 /\ UNCHANGED mpc
    BY <1>4 DEF Join, CanJoin, EndTurn
  <2>2. \A t \in Threads : t \in Nat /\ t < NThreads /\ mt \in Nat
    BY <1>0, ConfigFacts DEF TypeOK, Threads
  <2>3. \A t \in Threads : t < mt + 1 => tpc[t] = "exited"
    BY <2>1, <2>2
  <2>4. CASE mt + 1 = NThreads
    BY <2>1, <2>2, <2>3, <2>4, ConfigFacts
  <2>5. CASE mt + 1 # NThreads
    BY <2>1, <2>3, <2>5
  <2> QED BY <2>4, <2>5
<1>5. CASE Merge
  BY <1>0, <1>5, ConfigFacts DEF Merge, EndTurn, TypeOK, Threads, JobIsPhase, Arrays
<1>6. CASE Mins
  BY <1>0, <1>6, ConfigFacts DEF Mins, EndTurn, TypeOK, Threads
<1>7. ASSUME NEW t \in Threads, Worker(t) PROVE Stage'
  <2>1. /\ UNCHANGED <<mpc, mt, phase, job>> /\ tpc[t] \in {"start", "loop", "exit"}
        /\ tpc'[t] # "idle"
        /\ \A u \in Threads : u # t => tpc'[u] = tpc[u]
    BY <1>0, <1>7 DEF Worker, Start, Explore, Exit, TypeOK
  <2>2. mpc \in {"create", "join"}
    BY <1>0, <2>1 DEF Control, Running
  <2>3. mpc = "create" => t < mt
    BY <1>0, <2>1 DEF Control, Running, TypeOK, Threads
  <2>4. mpc = "join" => ~ t < mt
    BY <1>0, <2>1 DEF Control, Running
  <2> QED BY <2>1, <2>2, <2>3, <2>4
<1>8. CASE UNCHANGED vars
  BY <1>8 DEF vars
<1> QED BY <1>1, <1>2, <1>3, <1>4, <1>5, <1>6, <1>7, <1>8 DEF Next, Main, Finished

-----------------------------------------------------------------------------
(* What a step leaves of a worker's progress.                              *)
LEMMA DoneKept ==
  ASSUME NEW a \in Arrays, NEW t \in Threads,
         job'[t] = job[t], tpc'[t] = tpc[t], cur'[t] = cur[t]
  PROVE  Done(a, t)' = Done(a, t)
BY DEF Done, Through

WorkerProgress(t) ==
  /\ tpc[t] = "loop" => cur[t] \in Visits(job[t], t)
  /\ Held(t) => lists[t][job[t]] \ {Scratch} = Entries(job[t], Done(job[t], t))
  /\ \A a \in Arrays : LeastOver(res[t][a], a, Done(a, t))

(* The progress of a worker stays while its variables do.                  *)
LEMMA ProgressKept ==
  ASSUME TypeOK, NEW t \in Threads, WorkerProgress(t),
         job'[t] = job[t], tpc'[t] = tpc[t], cur'[t] = cur[t], res'[t] = res[t],
         Held(t)' => Held(t) /\ lists'[t] = lists[t]
  PROVE  WorkerProgress(t)'
<1>1. \A a \in Arrays : Done(a, t)' = Done(a, t)
  BY DoneKept
<1>2. job[t] \in Arrays
  BY DEF TypeOK
<1> QED BY <1>1, <1>2 DEF WorkerProgress

(* A step of the main thread keeps the progress of the workers.            *)
LEMMA NextMainProgress ==
  ASSUME FInv, Stage, Progress, Main PROVE Progress'
<1>0. TypeOK /\ Control /\ JobIsPhase
  BY DEF FInv, IInv, Filling
<1> SUFFICES ASSUME NEW t \in Threads PROVE WorkerProgress(t)'
  BY DEF Progress, WorkerProgress
<1>1. WorkerProgress(t)
  BY DEF Progress, WorkerProgress
<1>t. t \in Nat /\ mt \in Nat /\ t < NThreads /\ mt < NThreads
  BY <1>0, ConfigFacts DEF TypeOK, Threads
<1>2. CASE TagInit
  <2>1. ~ Held(t)'
    BY <1>2 DEF TagInit, Install, Stage, Held
  <2> QED BY <1>0, <1>1, <1>2, <2>1, ProgressKept DEF TagInit
<1>3. CASE DataInit
  <2>1. Held(t)' => Held(t)
    BY <1>0, <1>3, <1>t DEF DataInit, Install, Held, JobIsPhase
  <2> QED BY <1>0, <1>1, <1>3, <2>1, ProgressKept DEF DataInit
<1>4. CASE Create
  <2>1. CASE t # mt
    <3>1. job'[t] = job[t] /\ tpc'[t] = tpc[t]
      BY <1>0, <1>4, <2>1 DEF Create, TypeOK
    <3>2. Held(t)' => Held(t)
      BY <1>4, <1>t, <2>1, <3>1 DEF Create, EndTurn, Held
    <3> QED BY <1>0, <1>1, <1>4, <3>1, <3>2, ProgressKept DEF Create
  <2>2. CASE t = mt
    <3>1. job'[t] = phase /\ tpc'[t] = "start" /\ mpc = "create"
          /\ cur' = cur /\ res' = res
      BY <1>0, <1>4, <2>2 DEF Create, TypeOK
    <3>2. Fresh(t) /\ (phase = "tag" => IsCache) /\ phase \in Arrays
      BY <1>0, <1>t, <2>2, <3>1 DEF Stage, TypeOK
    <3>3. ASSUME NEW a \in Arrays PROVE Done(a, t)' = Done(a, t)
      <4>1. ASSUME NEW c \in Work(a, t) PROVE Through(a, t, c)' <=> Through(a, t, c)
        BY <3>1, <3>2 DEF Through, Fresh, Arrays
      <4> QED BY <4>1 DEF Done
    <3> QED BY <1>1, <3>1, <3>3 DEF WorkerProgress, Held
  <2> QED BY <2>1, <2>2
<1>5. CASE Join
  <2>1. Held(t)' => Held(t)
    BY <1>5 DEF Join, EndTurn, Held
  <2> QED BY <1>0, <1>1, <1>5, <2>1, ProgressKept DEF Join
<1>6. CASE Merge
  <2>1. UNCHANGED <<job, tpc, cur, res>> /\ mpc = "merge" /\ tpc[t] = "exited"
    BY <1>6 DEF Merge, Stage
  <2>2. Held(t)' => Held(t) /\ t # mt
    BY <1>6, <1>t, <2>1 DEF Merge, EndTurn, Held
  <2>3. t # mt => lists'[t] = lists[t]
    BY <1>0, <1>6 DEF Merge, TypeOK
  <2> QED BY <1>0, <1>1, <2>1, <2>2, <2>3, ProgressKept
<1>7. CASE Mins
  <2>1. ~ Held(t)'
    BY <1>7 DEF Mins, EndTurn, Stage, Held
  <2> QED BY <1>0, <1>1, <1>7, <2>1, ProgressKept DEF Mins
<1> QED BY <1>2, <1>3, <1>4, <1>5, <1>6, <1>7 DEF Main

(* Minima of two sets of organisations give the minima of both.            *)
Found(a) == UNION {Work(a, t) : t \in Threads}

(* Positions with valid partitions have costs.                             *)
LEMMA FoundCost ==
  ASSUME NEW a \in Arrays, NEW c \in Found(a)
  PROVE  /\ c \in Partition /\ Evaluated(a, c) \in Space(a)
         /\ ShapeCost(Evaluated(a, c)) \in MinValues
<1>1. PICK t \in Threads : c \in Work(a, t)
  BY DEF Found
<1>2. c \in Partition /\ Evaluated(a, c) \in Space(a) /\ IsValid(a, Evaluated(a, c))
  BY <1>1, WorkPart
<1> QED BY <1>2, EvaluatedType, ShapeCostType

(* The lower of the minima of two sets is the minimum of both.             *)
LEMMA LowerLeast ==
  ASSUME NEW a \in Arrays, NEW S \in SUBSET Found(a), NEW T \in SUBSET Found(a),
         NEW v \in MinValues, NEW w \in MinValues,
         LeastOver(v, a, S), LeastOver(w, a, T)
  PROVE  LeastOver(Lower(v, w), a, S \cup T)
<1> SUFFICES ASSUME NEW m \in Metrics
             PROVE  LET u == Lower(v, w)[m]
                    IN /\ u <= BigNum
                       /\ \A c \in S \cup T : u <= ShapeCost(Evaluated(a, c))[m]
                       /\ u = BigNum \/ \E c \in S \cup T : u = ShapeCost(Evaluated(a, c))[m]
  BY DEF LeastOver
<1> DEFINE cost(c) == ShapeCost(Evaluated(a, c))[m]
           x == v[m]
           y == w[m]
           u == Lower(v, w)[m]
<1>1. u = IF x > y THEN y ELSE x
  BY DEF Lower
<1>2. x \in Nat /\ y \in Nat /\ BigNum \in Nat
  BY ConfigAssumption DEF MinValues
<1>3. /\ x <= BigNum /\ y <= BigNum
      /\ \A c \in S : x <= cost(c)
      /\ \A c \in T : y <= cost(c)
      /\ x = BigNum \/ \E c \in S : x = cost(c)
      /\ y = BigNum \/ \E c \in T : y = cost(c)
  BY DEF LeastOver
<1>b. \A c \in S \cup T : cost(c) \in Nat
  BY FoundCost DEF MinValues
<1> HIDE DEF x, y, u, cost
<1>a. SUFFICES /\ u <= BigNum
               /\ \A c \in S \cup T : u <= cost(c)
               /\ u = BigNum \/ \E c \in S \cup T : u = cost(c)
  BY DEF u, cost
<1>4. CASE x > y
  <2>1. u = y
    BY <1>1, <1>4
  <2>2. ASSUME NEW c \in S PROVE y <= cost(c)
    <3>1. x <= cost(c)
      BY <1>3
    <3>2. CASE x = BigNum
      BY <1>2, <1>3, <1>4, <1>b, <3>1, <3>2
    <3>3. ASSUME NEW d \in S, x = cost(d) PROVE y <= cost(c)
      BY <1>2, <1>3, <1>4, <1>b, <3>1, <3>3
    <3> QED BY <1>3, <3>2, <3>3
  <2> QED BY <1>3, <2>1, <2>2
<1>5. CASE ~ x > y
  BY <1>1, <1>2, <1>3, <1>5, <1>b
<1> QED BY <1>4, <1>5

(* The costs of one partition are its minima.                              *)
LEMMA OneLeast ==
  ASSUME NEW a \in Arrays, NEW c \in Found(a)
  PROVE  LeastOver(ShapeCost(Evaluated(a, c)), a, {c})
<1>1. PICK t \in Threads : c \in Work(a, t)
  BY DEF Found
<1>2. c \in Partition /\ IsValid(a, Evaluated(a, c))
  BY <1>1, WorkPart
<1>3. \A m \in Metrics : Cost[m][Shape(Evaluated(a, c))] \in 0 .. BigNum
  BY <1>2, ConfigAssumption DEF IsValid
<1> QED BY <1>3, ConfigAssumption DEF LeastOver, ShapeCost

(* What a worker is done with are positions with valid partitions.         *)
LEMMA DoneFound ==
  ASSUME NEW a \in Arrays, NEW t \in Threads
  PROVE  Done(a, t) \subseteq Found(a)
BY DEF Done, Found

(* A step of one worker leaves the progress of the others.                 *)
LEMMA OthersKept ==
  ASSUME FInv, Progress, NEW t \in Threads, WorkerProgress(t)',
         UNCHANGED <<mpc, mt, job>>,
         \A u \in Threads : u # t => /\ tpc'[u] = tpc[u] /\ cur'[u] = cur[u]
                                     /\ res'[u] = res[u] /\ lists'[u] = lists[u]
  PROVE  Progress'
<1> SUFFICES ASSUME NEW u \in Threads PROVE WorkerProgress(u)'
  BY DEF Progress, WorkerProgress
<1>1. CASE u = t
  BY <1>1
<1>2. CASE u # t
  <2>1. WorkerProgress(u) /\ TypeOK
    BY DEF Progress, WorkerProgress, FInv, IInv
  <2>2. Held(u)' => Held(u)
    BY <1>2 DEF Held
  <2> QED BY <1>2, <2>1, <2>2, ProgressKept
<1> QED BY <1>1, <1>2

(* A worker that starts has passed nothing.                                *)
LEMMA NextStartProgress ==
  ASSUME FInv, Progress, NEW t \in Threads, Start(t) PROVE Progress'
<1> DEFINE a == job[t]
<1>0. TypeOK /\ a \in Arrays
  BY DEF FInv, IInv, TypeOK
<1>1. /\ tpc[t] = "start" /\ UNCHANGED <<mpc, mt, job, res>>
      /\ cur'[t] = FirstPos(a, t) /\ lists'[t] = [b \in Arrays |-> {Scratch}]
      /\ tpc'[t] = IF t < NumIter THEN "loop" ELSE "exit"
      /\ \A u \in Threads : u # t => /\ tpc'[u] = tpc[u] /\ cur'[u] = cur[u]
                                     /\ res'[u] = res[u] /\ lists'[u] = lists[u]
  BY <1>0 DEF Start, TypeOK
<1>2. Done(a, t) = {}
  BY <1>1 DEF Done, Through
<1>3. Done(a, t)' = {}
  <2>1. CASE t < NumIter
    <3>1. \A c \in Work(a, t) : ~ Before(c, FirstPos(a, t))
      BY <1>0, <2>1, FirstVisit DEF Work
    <3> QED BY <1>1, <2>1, <3>1 DEF Done, Through
  <2>2. CASE ~ t < NumIter
    <3>1. Work(a, t) = {}
      BY <1>0, <2>2, NoVisits, ConfigFacts DEF Work, Threads
    <3> QED BY <1>1, <3>1 DEF Done
  <2> QED BY <2>1, <2>2
<1>4. ASSUME NEW b \in Arrays, b # a PROVE Done(b, t)' = Done(b, t)
  BY <1>1, <1>4 DEF Done, Through
<1>5. tpc'[t] = "loop" => cur'[t] \in Visits(a, t)
  BY <1>0, <1>1, FirstVisit
<1>6. \A b \in Arrays : LeastOver(res[t][b], b, Done(b, t))
  BY DEF Progress
<1>7. WorkerProgress(t)'
  <2>1. lists'[t][a] \ {Scratch} = {}
    BY <1>0, <1>1
  <2>2. lists'[t][job'[t]] \ {Scratch} = Entries(job'[t], Done(a, t)')
    BY <1>1, <1>3, <2>1 DEF Entries
  <2>3. \A b \in Arrays : LeastOver(res'[t][b], b, Done(b, t)')
    BY <1>1, <1>2, <1>3, <1>4, <1>6
  <2> QED BY <1>1, <1>5, <2>2, <2>3 DEF WorkerProgress
<1> QED BY <1>1, <1>7, OthersKept

(* A worker that exits has passed everything.                              *)
LEMMA NextExitProgress ==
  ASSUME FInv, Progress, NEW t \in Threads, Exit(t) PROVE Progress'
<1> DEFINE a == job[t]
<1>0. TypeOK /\ a \in Arrays
  BY DEF FInv, IInv, TypeOK
<1>1. /\ tpc[t] = "exit" /\ tpc'[t] = "exited" /\ UNCHANGED <<mpc, mt, job, cur, res>>
      /\ lists'[t][a] = lists[t][a] \ {Scratch}
      /\ \A u \in Threads : u # t => tpc'[u] = tpc[u] /\ lists'[u] = lists[u]
  BY <1>0 DEF Exit, TypeOK, WithoutScratch
<1>2. ASSUME NEW b \in Arrays PROVE Done(b, t)' = Done(b, t)
  BY <1>1 DEF Done, Through
<1>3. Held(t)
  BY <1>1 DEF Held
<1>4. lists[t][a] \ {Scratch} = Entries(a, Done(a, t))
  BY <1>3 DEF Progress
<1>5. lists'[t][a] \ {Scratch} = Entries(a, Done(a, t)')
  BY <1>0, <1>1, <1>2, <1>4
<1>6. \A b \in Arrays : LeastOver(res'[t][b], b, Done(b, t)')
  BY <1>1, <1>2 DEF Progress
<1>7. WorkerProgress(t)'
  BY <1>1, <1>5, <1>6 DEF WorkerProgress
<1> QED BY <1>1, <1>7, OthersKept

(* The organisations a worker has built when it has explored position c.   *)
LEMMA ExploreDone ==
  ASSUME FInv, Progress, NEW t \in Threads, Explore(t)
  PROVE  LET a == job[t]
             c == cur[t]
         IN /\ c \in Visits(a, t) /\ c \notin Done(a, t)
            /\ Done(a, t)' = IF IsValid(a, Evaluated(a, c)) THEN Done(a, t) \cup {c}
                                                            ELSE Done(a, t)
            /\ \A b \in Arrays : b # a => Done(b, t)' = Done(b, t)
            /\ tpc'[t] = "loop" => cur'[t] \in Visits(a, t)
<1> DEFINE a == job[t]
           c == cur[t]
<1>0. TypeOK /\ a \in Arrays /\ tpc[t] = "loop" /\ job' = job
  BY DEF FInv, IInv, TypeOK, Explore
<1>1. c \in Visits(a, t)
  BY <1>0 DEF Progress
<1>2. c \in Partition
  BY <1>0, <1>1, InVisits
<1>3. Done(a, t) = {v \in Work(a, t) : Before(v, c)}
  BY <1>0 DEF Done, Through
<1>4. c \notin Done(a, t)
  BY <1>2, <1>3, BeforeNot
<1>5. /\ Done(a, t)' = {v \in Work(a, t) : Before(v, c) \/ v = c}
      /\ tpc'[t] = "loop" => cur'[t] \in Visits(a, t)
  <2>1. CASE More(a, c)
    <3>1. cur'[t] = NextPos(a, t, c) /\ tpc'[t] = "loop"
      BY <1>0, <2>1 DEF Explore, TypeOK
    <3> DEFINE n == NextPos(a, t, c)
    <3>2. /\ n \in Visits(a, t)
          /\ \A v \in Visits(a, t) : Before(v, n) <=> Before(v, c) \/ v = c
      BY <1>0, <1>1, <2>1, NextVisit
    <3> HIDE DEF n
    <3>3. \A v \in Work(a, t) : Through(a, t, v)' <=> Before(v, n)
      BY <1>0, <3>1 DEF Through, n
    <3>4. Done(a, t)' = {v \in Work(a, t) : Before(v, n)}
      BY <1>0, <3>3 DEF Done
    <3> QED BY <3>1, <3>2, <3>4 DEF Work, n
  <2>2. CASE ~ More(a, c)
    <3>1. tpc'[t] = "exit"
      BY <1>0, <2>2 DEF Explore, TypeOK
    <3>2. \A v \in Visits(a, t) : Before(v, c) \/ v = c
      BY <1>0, <1>1, <2>2, LastVisit
    <3>3. Done(a, t)' = Work(a, t)
      BY <1>0, <3>1 DEF Done, Through
    <3> QED BY <3>1, <3>2, <3>3 DEF Work
  <2> QED BY <2>1, <2>2
<1>6. c \in Work(a, t) <=> IsValid(a, Evaluated(a, c))
  BY <1>1 DEF Work
<1>7. Done(a, t)' = IF IsValid(a, Evaluated(a, c)) THEN Done(a, t) \cup {c} ELSE Done(a, t)
  BY <1>3, <1>5, <1>6
<1>8. ASSUME NEW b \in Arrays, b # a PROVE Done(b, t)' = Done(b, t)
  BY <1>0, <1>8 DEF Done, Through
<1> QED BY <1>1, <1>4, <1>5, <1>7, <1>8

(* What one evaluation changes, in the variables of its worker only.       *)
LEMMA ExploreRecord ==
  ASSUME FInv, NEW t \in Threads, Explore(t)
  PROVE  LET a == job[t]
             p == Evaluated(a, cur[t])
         IN /\ UNCHANGED <<mpc, mt, job>>
            /\ \A u \in Threads : u # t => /\ tpc'[u] = tpc[u] /\ cur'[u] = cur[u]
                                           /\ res'[u] = res[u] /\ lists'[u] = lists[u]
            /\ IsValid(a, p) =>
                 /\ lists'[t][a] = lists[t][a] \cup {Organisation(a, cur[t])}
                 /\ res'[t][a] = Lower(res[t][a], ShapeCost(p))
            /\ ~ IsValid(a, p) => lists'[t][a] = lists[t][a] /\ res'[t][a] = res[t][a]
            /\ \A b \in Arrays : b # a => res'[t][b] = res[t][b]
            /\ Organisation(a, cur[t]) # Scratch
<1> DEFINE a == job[t]
           p == Evaluated(a, cur[t])
<1>0. TypeOK /\ a \in Arrays /\ cur[t] \in Partition /\ job' = job
  BY DEF FInv, IInv, TypeOK, Explore
<1>1. g_tp = a
  BY DEF FInv, IInv, Control, Running, Explore
<1>2. Record(t, p)
  BY DEF Explore
<1>3. Built(p) = Organisation(a, cur[t])
  BY <1>1 DEF Built, Organisation
<1>4. Organisation(a, cur[t]) # Scratch
  BY <1>0, <1>3, BuiltType, EvaluatedType, ConfigAssumption
<1>5. \A u \in Threads : u # t => tpc'[u] = tpc[u] /\ cur'[u] = cur[u]
  BY <1>0 DEF Explore, TypeOK
<1>6. UNCHANGED <<mpc, mt, job>>
  BY DEF Explore
<1>7. CASE IsValid(a, p)
  <2> DEFINE row == [lists[t] EXCEPT ![a] = @ \cup {Built(p)}]
             low == [res[t] EXCEPT ![a] = Lower(@, ShapeCost(p))]
  <2>1. lists' = [lists EXCEPT ![t] = row]
    BY <1>2, <1>7, Zenon DEF Record
  <2>2. res' = [res EXCEPT ![t] = low]
    BY <1>2, <1>7, Zenon DEF Record
  <2>3. row[a] = lists[t][a] \cup {Built(p)}
    BY <1>0 DEF TypeOK
  <2>4. low[a] = Lower(res[t][a], ShapeCost(p)) /\ \A b \in Arrays : b # a => low[b] = res[t][b]
    BY <1>0, Zenon DEF TypeOK
  <2> HIDE DEF row, low
  <2>5. lists'[t] = row /\ res'[t] = low
        /\ \A u \in Threads : u # t => res'[u] = res[u] /\ lists'[u] = lists[u]
    BY <1>0, <2>1, <2>2 DEF TypeOK
  <2> QED BY <1>3, <1>4, <1>5, <1>6, <1>7, <2>3, <2>4, <2>5
<1>8. CASE ~ IsValid(a, p)
  <2>1. lists' = lists /\ res' = res
    BY <1>2, <1>8 DEF Record
  <2> QED BY <1>4, <1>5, <1>6, <1>8, <2>1
<1> QED BY <1>7, <1>8

(* One evaluation passes one position.                                     *)
LEMMA NextExploreProgress ==
  ASSUME FInv, Progress, NEW t \in Threads, Explore(t) PROVE Progress'
<1> DEFINE a == job[t]
           c == cur[t]
           p == Evaluated(a, c)
<1>0. TypeOK /\ a \in Arrays /\ tpc[t] = "loop" /\ job'[t] = a
  BY DEF FInv, IInv, TypeOK, Explore
<1>1. Held(t)
  BY <1>0 DEF Held
<1>2. lists[t][a] \ {Scratch} = Entries(a, Done(a, t))
  BY <1>1 DEF Progress
<1>3. /\ c \in Visits(a, t) /\ c \notin Done(a, t)
      /\ Done(a, t)' = IF IsValid(a, p) THEN Done(a, t) \cup {c} ELSE Done(a, t)
      /\ \A b \in Arrays : b # a => Done(b, t)' = Done(b, t)
      /\ tpc'[t] = "loop" => cur'[t] \in Visits(a, t)
  BY ExploreDone
<1>4. /\ UNCHANGED <<mpc, mt, job>>
      /\ \A u \in Threads : u # t => /\ tpc'[u] = tpc[u] /\ cur'[u] = cur[u]
                                     /\ res'[u] = res[u] /\ lists'[u] = lists[u]
      /\ IsValid(a, p) => /\ lists'[t][a] = lists[t][a] \cup {Organisation(a, c)}
                          /\ res'[t][a] = Lower(res[t][a], ShapeCost(p))
      /\ ~ IsValid(a, p) => lists'[t][a] = lists[t][a] /\ res'[t][a] = res[t][a]
      /\ \A b \in Arrays : b # a => res'[t][b] = res[t][b]
      /\ Organisation(a, c) # Scratch
  BY ExploreRecord
<1>5. \A b \in Arrays : LeastOver(res[t][b], b, Done(b, t)) /\ res[t][b] \in MinValues
  BY <1>0 DEF Progress, TypeOK
<1> DEFINE D == Done(a, t)
           E == Done(a, t)'
<1> HIDE DEF D, E
<1>6. ASSUME IsValid(a, p)
      PROVE  lists'[t][a] \ {Scratch} = Entries(a, E) /\ LeastOver(res'[t][a], a, E)
  <2>1. E = D \cup {c} /\ c \in Found(a) /\ D \subseteq Found(a)
    BY <1>0, <1>3, <1>6, DoneFound DEF D, E, Found, Work
  <2>2. lists'[t][a] \ {Scratch} = Entries(a, E)
    <3>1. Entries(a, D \cup {c}) = Entries(a, D) \cup {Organisation(a, c)}
      BY DEF Entries
    <3>2. lists[t][a] \ {Scratch} = Entries(a, D)
      BY <1>2 DEF D
    <3>3. lists'[t][a] \ {Scratch} = (lists[t][a] \ {Scratch}) \cup {Organisation(a, c)}
      BY <1>4, <1>6
    <3> QED BY <2>1, <3>1, <3>2, <3>3
  <2>3. LeastOver(res'[t][a], a, E)
    <3>1. LeastOver(ShapeCost(p), a, {c}) /\ ShapeCost(p) \in MinValues
      BY <1>0, <2>1, OneLeast, FoundCost
    <3>2. LeastOver(res[t][a], a, D) /\ res[t][a] \in MinValues
      BY <1>0, <1>5 DEF D
    <3>3. LeastOver(Lower(res[t][a], ShapeCost(p)), a, D \cup {c})
      BY <1>0, <2>1, <3>1, <3>2, LowerLeast
    <3> QED BY <1>4, <1>6, <2>1, <3>3
  <2> QED BY <2>2, <2>3
<1>7. ASSUME ~ IsValid(a, p)
      PROVE  lists'[t][a] \ {Scratch} = Entries(a, E) /\ LeastOver(res'[t][a], a, E)
  <2>1. E = D
    BY <1>3, <1>7 DEF D, E
  <2> QED BY <1>0, <1>2, <1>4, <1>5, <1>7, <2>1 DEF D
<1>8. WorkerProgress(t)'
  <2>1. lists'[t][a] \ {Scratch} = Entries(a, E) /\ LeastOver(res'[t][a], a, E)
    BY <1>6, <1>7
  <2>2. lists'[t][job'[t]] \ {Scratch} = Entries(job[t], Done(job[t], t))'
    <3>1. Entries(job[t], Done(job[t], t))' = Entries(a, E)
      BY <1>4 DEF E, Entries
    <3> QED BY <1>0, <2>1, <3>1
  <2>3. \A b \in Arrays : LeastOver(res'[t][b], b, Done(b, t)')
    BY <1>3, <1>4, <1>5, <2>1 DEF E
  <2>4. tpc'[t] = "loop" => cur'[t] \in Visits(job'[t], t)
    BY <1>0, <1>3
  <2> QED BY <2>2, <2>3, <2>4 DEF WorkerProgress
<1> QED BY <1>4, <1>8, OthersKept

(* Every step keeps the progress of the workers.                           *)
LEMMA NextProgress == SInv /\ [Next]_vars => Progress'
<1> SUFFICES ASSUME SInv, [Next]_vars PROVE Progress'
  OBVIOUS
<1>0. FInv /\ Stage /\ Progress
  BY DEF SInv
<1>1. CASE Main
  BY <1>0, <1>1, NextMainProgress
<1>2. ASSUME NEW t \in Threads, Worker(t) PROVE Progress'
  BY <1>0, <1>2, NextStartProgress, NextExploreProgress, NextExitProgress DEF Worker
<1>3. CASE UNCHANGED vars
  <2>1. ASSUME NEW t \in Threads PROVE WorkerProgress(t)'
    <3>1. WorkerProgress(t) /\ TypeOK /\ (Held(t)' => Held(t))
      BY <1>0, <1>3 DEF Progress, WorkerProgress, FInv, IInv, Held, vars
    <3> QED BY <1>3, <3>1, ProgressKept DEF vars
  <2> QED BY <2>1 DEF Progress, WorkerProgress
<1> QED BY <1>1, <1>2, <1>3 DEF Next, Finished

-----------------------------------------------------------------------------
(* The lists that are merged.                                              *)
LEMMA CollectedIs ==
  ASSUME NEW a, NEW T, NEW x
  PROVE  x \in Collected(a, T) <=>
           \E t \in T : \E c \in Work(a, t) : x = <<t, Organisation(a, c)>>
BY DEF Collected, Entries

(* The entries of one worker more.                                         *)
LEMMA CollectedMore ==
  ASSUME NEW a, NEW T, NEW t
  PROVE  Collected(a, T \cup {t}) = Collected(a, T) \cup ({t} \X Entries(a, Work(a, t)))
BY DEF Collected

(* Once a worker has exited, all of its organisations are in its list.     *)
LEMMA ListComplete ==
  ASSUME SInv, mpc = "merge"
  PROVE  /\ job[mt] = phase /\ tpc[mt] = "exited"
         /\ lists[mt][phase] = Entries(phase, Work(phase, mt))
         /\ phase = "tag" => lists[mt]["data"] = {}
<1>1. TypeOK /\ mt \in Threads /\ phase \in Arrays /\ mt \in Nat
  BY ConfigFacts DEF SInv, FInv, IInv, TypeOK, Threads
<1>2. job[mt] = phase
  BY <1>1 DEF SInv, FInv, Filling, JobIsPhase
<1>3. tpc[mt] = "exited"
  BY <1>1 DEF SInv, Stage
<1>4. Scratch \notin lists[mt][phase] /\ Scratch \notin lists[mt]["data"]
  BY <1>1, <1>3 DEF SInv, FInv, Filling, ScratchWhileRunning, Running, Arrays
<1>5. Done(phase, mt) = Work(phase, mt)
  BY <1>2, <1>3 DEF Done, Through
<1>6. Held(mt)
  BY <1>1, <1>3 DEF Held
<1>7. lists[mt][phase] \ {Scratch} = Entries(phase, Work(phase, mt))
  BY <1>1, <1>2, <1>5, <1>6 DEF SInv, Progress
<1>8. phase = "tag" => lists[mt]["data"] \subseteq {Scratch}
  BY <1>1, <1>2 DEF SInv, FInv, Filling, TagSearchNoData
<1> QED BY <1>2, <1>3, <1>4, <1>7, <1>8

(* The workers up to one more, and all of them.                            *)
LEMMA UpTo ==
  ASSUME NEW n \in Threads
  PROVE  /\ 0 .. (n + 1) - 1 = (0 .. n - 1) \cup {n}
         /\ n + 1 = NThreads => Threads = (0 .. n - 1) \cup {n}
         /\ 0 .. 0 - 1 = {} /\ 0 .. n - 1 \subseteq Threads /\ n \in Nat
<1>1. n \in Nat
  BY ConfigFacts DEF Threads
<1> QED BY <1>1, ConfigFacts DEF Threads

(* Every merge adds the entries and minima of its worker.                  *)
LEMMA NextDelivery == SInv /\ [Next]_vars => Delivery'
<1> SUFFICES ASSUME SInv, [Next]_vars PROVE Delivery'
  OBVIOUS
<1>0. /\ TypeOK /\ JobIsPhase /\ TagSearchNoData /\ Delivery /\ mt \in Threads
      /\ phase \in Arrays /\ (phase = "tag" => IsCache)
  BY DEF SInv, FInv, IInv, Filling, TypeOK, Stage
<1>k. ASSUME arr' = arr, \A a \in Arrays : Delivered(a)' = Delivered(a) PROVE Delivery'
  BY <1>0, <1>k DEF Delivery
<1> USE DEF Delivered, TagDone, DataDone, Arrays
<1>1. CASE TagInit
  BY <1>0, <1>1, <1>k DEF TagInit, Install, SInv, Stage
<1>2. CASE DataInit
  BY <1>0, <1>2, <1>k DEF DataInit, Install
<1>3. CASE Create
  BY <1>0, <1>3, <1>k DEF Create, EndTurn
<1>4. CASE Join
  <2>1. arr' = arr
    BY <1>0, <1>4 DEF Join, TagSearchNoData, TypeOK
  <2>2. 0 .. 0 - 1 = {}
    BY <1>0, UpTo
  <2>3. \A a \in Arrays : Delivered(a)' = Delivered(a)
    BY <1>0, <1>4, <2>2 DEF Join, EndTurn
  <2> QED BY <2>1, <2>3, <1>k
<1>5. CASE Merge
  <2>1. mpc = "merge" /\ phase' = phase
    BY <1>5 DEF Merge
  <2>2. /\ lists[mt][phase] = Entries(phase, Work(phase, mt))
        /\ phase = "tag" => lists[mt]["data"] = {}
    BY <2>1, ListComplete
  <2>3. arr' = [a \in Arrays |-> IF a \in Merged THEN arr[a] \cup ({mt} \X lists[mt][a])
                                                 ELSE arr[a]]
    BY <1>5 DEF Merge
  <2>4. Delivered(phase) = 0 .. mt - 1 /\ Delivered(phase)' = (0 .. mt - 1) \cup {mt}
    BY <1>0, <1>5, <2>1, UpTo DEF Merge, EndTurn
  <2>5. ASSUME NEW a \in Arrays, a # phase PROVE Delivered(a)' = Delivered(a)
    <3>1. CASE phase = "tag"
      BY <1>5, <2>1, <2>5, <3>1 DEF Merge, EndTurn
    <3>2. CASE phase = "data"
      BY <1>5, <2>1, <2>5, <3>2 DEF Merge, EndTurn
    <3> QED BY <1>0, <3>1, <3>2
  <2>6. ASSUME NEW a \in Arrays PROVE arr'[a] = Collected(a, Delivered(a)')
    <3>0. arr[a] = Collected(a, Delivered(a))
      BY <1>0 DEF Delivery
    <3>1. CASE a = phase
      <4>1. a \in Merged
        BY <1>0, <3>1 DEF Merged
      <4>2. arr'[a] = arr[a] \cup ({mt} \X Entries(a, Work(a, mt)))
        BY <2>2, <2>3, <3>1, <4>1
      <4>3. Collected(a, (0 .. mt - 1) \cup {mt})
              = Collected(a, 0 .. mt - 1) \cup ({mt} \X Entries(a, Work(a, mt)))
        BY CollectedMore
      <4>4. arr[a] = Collected(a, 0 .. mt - 1) /\ Delivered(a)' = (0 .. mt - 1) \cup {mt}
        BY <2>4, <3>0, <3>1, <2>1
      <4> HIDE DEF Delivered
      <4> QED BY <4>2, <4>3, <4>4
    <3>2. CASE a # phase
      <4>1. arr'[a] = arr[a]
        <5>1. CASE phase = "tag"
          <6>1. a = "data" /\ lists[mt]["data"] = {}
            BY <2>2, <3>2, <5>1
          <6>2. {mt} \X {} = {}
            OBVIOUS
          <6> QED BY <2>3, <6>1, <6>2
        <5>2. CASE phase = "data"
          BY <2>3, <3>2, <5>2 DEF Merged
        <5> QED BY <1>0, <5>1, <5>2
      <4> HIDE DEF Delivered
      <4> QED BY <2>5, <3>0, <3>2, <4>1
    <3> QED BY <3>1, <3>2
  <2> HIDE DEF Delivered
  <2> QED BY <2>6 DEF Delivery
<1>6. CASE Mins
  BY <1>0, <1>6, <1>k DEF Mins, EndTurn
<1>7. CASE UNCHANGED <<mpc, mt, phase, arr>>
  BY <1>7, <1>k
<1> QED BY <1>1, <1>2, <1>3, <1>4, <1>5, <1>6, <1>7
  DEF Next, Main, Finished, Worker, Start, Explore, Exit, vars

-----------------------------------------------------------------------------
(* The minima.                                                             *)
LEMMA NextMinima == SInv /\ [Next]_vars => Minima'
<1> SUFFICES ASSUME SInv, [Next]_vars PROVE Minima'
  OBVIOUS
<1>0. TypeOK /\ Control /\ Minima /\ Stage /\ Progress /\ mt \in Threads
  BY DEF SInv, FInv, IInv, TypeOK
<1>1. CASE Mins
  <2>1. /\ mpc = "mins" /\ UNCHANGED <<job, tpc, cur>>
        /\ min' = [a \in Arrays |-> Lower(min[a], res[mt][a])]
    BY <1>1 DEF Mins
  <2>2. Counted = 0 .. mt - 1 /\ Counted' = (0 .. mt - 1) \cup {mt}
    BY <1>0, <1>1, <2>1, UpTo DEF Mins, EndTurn, Counted
  <2>3. ASSUME NEW a \in Arrays, NEW t \in Threads PROVE Done(a, t)' = Done(a, t)
    BY <2>1, DoneKept
  <2>4. ASSUME NEW a \in Arrays
        PROVE  LeastOver(min'[a], a, UNION {Done(a, t)' : t \in Counted'})
    <3> DEFINE S == UNION {Done(a, t) : t \in 0 .. mt - 1}
    <3>0. (0 .. mt - 1) \cup {mt} \subseteq Threads
      BY <1>0, UpTo
    <3>1. UNION {Done(a, t)' : t \in Counted'} = S \cup Done(a, mt)
      BY <1>0, <2>2, <2>3, <3>0
    <3>2. LeastOver(min[a], a, S) /\ min[a] \in MinValues
      BY <1>0, <2>2 DEF Minima, TypeOK
    <3>3. LeastOver(res[mt][a], a, Done(a, mt)) /\ res[mt][a] \in MinValues
      BY <1>0 DEF Progress, TypeOK
    <3>4. S \subseteq Found(a) /\ Done(a, mt) \subseteq Found(a)
      BY <1>0, <3>0, DoneFound
    <3> HIDE DEF S
    <3>5. LeastOver(Lower(min[a], res[mt][a]), a, S \cup Done(a, mt))
      BY <3>2, <3>3, <3>4, LowerLeast
    <3> QED BY <2>1, <3>1, <3>5
  <2> QED BY <2>4 DEF Minima
<1>2. ASSUME min' = min, Counted = {}, Counted' = {} PROVE Minima'
  BY <1>0, <1>2 DEF Minima
<1>3. CASE TagInit \/ DataInit \/ Create \/ Join
  BY <1>2, <1>3 DEF TagInit, DataInit, Install, Create, Join, EndTurn, Counted
<1>4. CASE Merge
  BY <1>0, <1>2, <1>4, UpTo DEF Merge, EndTurn, Counted
<1>5. ASSUME NEW t \in Threads, Worker(t) PROVE Minima'
  <2>1. mpc \in {"create", "join"} /\ UNCHANGED <<mpc, min>>
    BY <1>0, <1>5 DEF Worker, Start, Explore, Exit, Control, Running
  <2> QED BY <1>2, <2>1 DEF Counted
<1>6. CASE UNCHANGED vars
  <2>1. ASSUME NEW a \in Arrays, NEW t \in Threads PROVE Done(a, t)' = Done(a, t)
    BY <1>6, DoneKept DEF vars
  <2>2. Counted' = Counted /\ Counted \subseteq Threads /\ min' = min
    BY <1>0, <1>6, UpTo DEF vars, Counted
  <2>3. ASSUME NEW a \in Arrays
        PROVE  UNION {Done(a, t)' : t \in Counted'} = UNION {Done(a, t) : t \in Counted}
    BY <2>1, <2>2
  <2> QED BY <1>0, <2>2, <2>3 DEF Minima
<1> QED BY <1>1, <1>3, <1>4, <1>5, <1>6 DEF Next, Main, Finished

(* Every step keeps the invariant of the search.                           *)
LEMMA NextSInv == SInv /\ [Next]_vars => SInv'
<1>1. FInv /\ [Next]_vars => FInv'
  BY NextIInv, NextJobIsPhase, NextScratch, NextTagSearchNoData DEF FInv, Filling
<1> QED BY <1>1, NextStage, NextProgress, NextDelivery, NextMinima DEF SInv

(* What the lists, the minima and the workers are in every reachable       *)
(* state.                                                                  *)
THEOREM SearchInvariance == Spec => []SInv
BY InitSInv, NextSInv, PTL DEF Spec

(* calc_time_mt_wrapper(): no worker builds an organisation twice.         *)
THEOREM NeverRevisitsCorrect == Spec => NeverRevisits
<1> DEFINE Longer ==
      \A t \in Threads :
        (Explore(t) /\ IsValid(job[t], Evaluated(job[t], cur[t]))) => lists'[t] # lists[t]
<1>1. SInv => Longer
  <2> SUFFICES ASSUME SInv, NEW t \in Threads, Explore(t),
                      IsValid(job[t], Evaluated(job[t], cur[t]))
               PROVE  lists'[t] # lists[t]
    OBVIOUS
  <2> DEFINE a == job[t]
             c == cur[t]
  <2>0. FInv /\ Progress /\ a \in Arrays /\ tpc[t] = "loop"
    BY DEF SInv, FInv, IInv, TypeOK, Explore
  <2>1. /\ lists'[t][a] = lists[t][a] \cup {Organisation(a, c)}
        /\ Organisation(a, c) # Scratch
    BY <2>0, ExploreRecord
  <2>2. c \in Visits(a, t) /\ c \notin Done(a, t)
    BY <2>0, ExploreDone
  <2>3. lists[t][a] \ {Scratch} = Entries(a, Done(a, t))
    BY <2>0 DEF Progress, Held
  <2>4. ASSUME Organisation(a, c) \in lists[t][a] PROVE FALSE
    <3>1. Organisation(a, c) \in Entries(a, Done(a, t))
      BY <2>1, <2>3, <2>4
    <3>2. PICK d \in Done(a, t) : Organisation(a, c) = Organisation(a, d)
      BY <3>1 DEF Entries
    <3>3. Evaluated(a, c) = Evaluated(a, d)
      <4>1. Organisation(a, c).part = Evaluated(a, c) /\ Organisation(a, d).part = Evaluated(a, d)
        BY DEF Organisation
      <4> QED BY <3>2, <4>1
    <3>4. d \in Visits(a, t)
      BY DEF Done, Work
    <3> QED BY <2>0, <2>2, <3>2, <3>3, <3>4, EvaluatedOnce
  <2> QED BY <2>1, <2>4
<1>2. SInv => [Longer]_vars
  BY <1>1
<1> QED BY <1>2, SearchInvariance, PTL DEF NeverRevisits

(* The copies of an organisation when the search is over: one for each of  *)
(* the workers it belongs to.                                              *)
LEMMA CopiesAre ==
  ASSUME NEW a \in Arrays, NEW p \in Space(a), arr[a] = Collected(a, Threads)
  PROVE  Copies(a, p) = Owners(a, p) \X {[part |-> p, tech |-> a, wire |-> IpWt]}
<1> DEFINE e == [part |-> p, tech |-> a, wire |-> IpWt]
<1>1. ASSUME NEW x \in Copies(a, p) PROVE x \in Owners(a, p) \X {e}
  <2>1. x \in Collected(a, Threads) /\ x[2].part = p
    BY DEF Copies
  <2>2. PICK t \in Threads : \E c \in Work(a, t) : x = <<t, Organisation(a, c)>>
    BY <2>1, CollectedIs
  <2>a. PICK c \in Work(a, t) : x = <<t, Organisation(a, c)>>
    BY <2>2
  <2>3. Evaluated(a, c) = p /\ Organisation(a, c) = e
    BY <2>1, <2>a DEF Organisation
  <2>4. t \in Owners(a, p)
    BY <2>3, OwnersOnly
  <2> QED BY <2>a, <2>3, <2>4
<1>2. ASSUME NEW t \in Owners(a, p) PROVE <<t, e>> \in Copies(a, p)
  <2> DEFINE c == Source(a, t, p)
  <2>1. t \in Threads /\ c \in Work(a, t) /\ Evaluated(a, c) = p
    BY SpaceFound
  <2>2. Organisation(a, c) = e
    BY <2>1 DEF Organisation
  <2>3. <<t, Organisation(a, c)>> \in Collected(a, Threads)
    BY <2>1, CollectedIs
  <2> QED BY <2>2, <2>3 DEF Copies
<1> QED BY <1>1, <1>2

(* Pairing with one element keeps the size of a set.                       *)
LEMMA PairsCount ==
  ASSUME NEW S, IsFiniteSet(S), NEW e
  PROVE  Cardinality(S \X {e}) = Cardinality(S)
<1>1. IsFiniteSet({e}) /\ Cardinality({e}) = 1
  BY FS_Singleton
<1>2. Cardinality(S \X {e}) = Cardinality(S) * Cardinality({e})
  BY <1>1, FS_Product
<1>3. Cardinality(S) \in Nat
  BY FS_CardinalityType
<1> QED BY <1>1, <1>2, <1>3

(* Every valid organisation was built by exactly one worker, for any       *)
(* number of workers; a forced one by every worker that has a triple.      *)
THEOREM WorkSplitCorrect == Spec => []WorkSplit
<1>1. SInv => WorkSplit
  <2> SUFFICES ASSUME SInv, mpc = "done", NEW a \in Arrays, NEW p \in Space(a),
                      a = "data" \/ IsCache
               PROVE  Cardinality(Copies(a, p)) =
                        IF ~ Forced(a) THEN 1
                        ELSE IF NThreads < NumIter THEN NThreads ELSE NumIter
    BY DEF WorkSplit
  <2> DEFINE e == [part |-> p, tech |-> a, wire |-> IpWt]
             k == IF NThreads < NumIter THEN NThreads ELSE NumIter
  <2>1. arr[a] = Collected(a, Threads)
    <3>1. phase = "data"
      BY DEF SInv, Stage
    <3>2. Delivered(a) = Threads
      BY <3>1 DEF Delivered, TagDone, DataDone, Arrays
    <3> QED BY <3>2 DEF SInv, Delivery
  <2>2. Copies(a, p) = Owners(a, p) \X {e}
    BY <2>1, CopiesAre
  <2> HIDE DEF e
  <2>3. CASE ~ Forced(a)
    <3>1. Owners(a, p) = {p.iter % NThreads}
      BY <2>3 DEF Owners
    <3>2. IsFiniteSet({p.iter % NThreads}) /\ Cardinality({p.iter % NThreads}) = 1
      BY FS_Singleton
    <3>3. Cardinality(Owners(a, p) \X {e}) = 1
      BY <3>1, <3>2, PairsCount
    <3> QED BY <2>2, <2>3, <3>3
  <2>4. CASE Forced(a)
    <3>1. Owners(a, p) = 0 .. k - 1
      BY <2>4, ConfigFacts DEF Owners, Threads
    <3>2. k \in Nat \ {0}
      BY ConfigFacts
    <3> HIDE DEF k
    <3>3. IsFiniteSet(0 .. k - 1) /\ Cardinality(0 .. k - 1) = k
      <4>1. 0 \in Int /\ k - 1 \in Int /\ k - 1 >= 0 /\ (k - 1) - 0 + 1 = k
        BY <3>2
      <4> QED BY <4>1, FS_Interval
    <3>4. Cardinality(Owners(a, p) \X {e}) = k
      BY <3>1, <3>3, PairsCount
    <3> QED BY <2>2, <2>4, <3>4 DEF k
  <2> QED BY <2>3, <2>4
<1> QED BY <1>1, SearchInvariance, PTL

-----------------------------------------------------------------------------
(* The threaded search implements the exhaustive one: the values of the    *)
(* abstract variables, and what they are in a reachable state.             *)
AbsStage == IF mpc = "done" THEN "done" ELSE IF DataDone THEN "minima"
            ELSE IF TagDone THEN "data" ELSE "tag"
AbsFound == [a \in Arrays |-> IF (a = "tag" /\ TagDone) \/ (a = "data" /\ DataDone)
                              THEN Parts(a) ELSE {}]
AbsMinima == IF mpc = "done" THEN min ELSE [a \in Arrays |-> NoMin]
AbsCost == [m \in Metrics |-> [p \in Space("tag") \cup Space("data") |-> Cost[m][Shape(p)]]]

Searched(a) == IF a = "tag" THEN TagDone /\ IsCache ELSE DataDone

(* With the lists of all workers merged, every valid partition is there.   *)
LEMMA PartsAre ==
  ASSUME NEW a \in Arrays, arr[a] = Collected(a, Threads)
  PROVE  Parts(a) = Space(a)
<1>1. ASSUME NEW p \in Parts(a) PROVE p \in Space(a)
  <2>1. PICK x \in Collected(a, Threads) : p = x[2].part
    BY DEF Parts
  <2>2. PICK t \in Threads : \E c \in Work(a, t) : x = <<t, Organisation(a, c)>>
    BY CollectedIs
  <2>3. PICK c \in Work(a, t) : x = <<t, Organisation(a, c)>>
    BY <2>2
  <2>4. p = Evaluated(a, c)
    BY <2>1, <2>3 DEF Organisation
  <2> QED BY <2>4, WorkPart
<1>2. ASSUME NEW p \in Space(a) PROVE p \in Parts(a)
  <2>1. PICK t \in Owners(a, p) : TRUE
    BY SomeOwner
  <2> DEFINE c == Source(a, t, p)
             x == <<t, Organisation(a, c)>>
  <2>2. t \in Threads /\ c \in Work(a, t) /\ Evaluated(a, c) = p
    BY SpaceFound
  <2>3. x \in arr[a]
    BY <2>2, CollectedIs
  <2>4. x[2].part = p
    BY <2>2 DEF Organisation
  <2> HIDE DEF x
  <2> QED BY <2>3, <2>4 DEF Parts
<1> QED BY <1>1, <1>2

(* What the refinement mapping says has been found.                        *)
LEMMA AbsFoundIs ==
  ASSUME SInv
  PROVE  AbsFound = [a \in Arrays |-> IF Searched(a) THEN Space(a) ELSE {}]
<1>1. ASSUME NEW a \in Arrays
      PROVE  (IF (a = "tag" /\ TagDone) \/ (a = "data" /\ DataDone) THEN Parts(a) ELSE {})
               = IF Searched(a) THEN Space(a) ELSE {}
  <2>0. arr[a] = Collected(a, Delivered(a))
    BY DEF SInv, Delivery
  <2>1. CASE Searched(a)
    <3>1. Delivered(a) = Threads
      BY <2>1 DEF Searched, Delivered, Arrays
    <3>2. Parts(a) = Space(a)
      BY <2>0, <3>1, PartsAre
    <3> QED BY <2>1, <3>2 DEF Searched, Arrays
  <2>2. CASE ~ Searched(a) /\ a = "tag" /\ TagDone
    <3>1. Delivered(a) = {}
      BY <2>2 DEF Searched, Delivered
    <3>2. Collected(a, {}) = {}
      BY DEF Collected
    <3>3. Parts(a) = {}
      BY <2>0, <3>1, <3>2 DEF Parts
    <3> QED BY <2>2, <3>3
  <2>3. CASE ~ Searched(a) /\ ~ (a = "tag" /\ TagDone)
    BY <2>3 DEF Searched, Arrays
  <2> QED BY <2>1, <2>2, <2>3
<1> QED BY <1>1 DEF AbsFound

(* The minima of a set of organisations are one value only.                *)
LEMMA LeastIs ==
  ASSUME NEW S \in SUBSET Int, NEW x \in S, \A y \in S : x <= y
  PROVE  (CHOOSE z \in S : \A y \in S : z <= y) = x
<1> DEFINE z == CHOOSE z \in S : \A y \in S : z <= y
<1>1. z \in S /\ \A y \in S : z <= y
  OBVIOUS
<1> HIDE DEF z
<1>2. z <= x /\ x <= z /\ x \in Int /\ z \in Int
  BY <1>1
<1> QED BY <1>2 DEF z

(* Minima over the positions found are those the abstract search chooses.  *)
LEMMA MinimaAre ==
  ASSUME NEW a \in Arrays, NEW T \in SUBSET Found(a), NEW v \in MinValues, LeastOver(v, a, T)
  PROVE  v = [m \in Metrics |->
                CHOOSE z \in {AbsCost[m][p] : p \in {Evaluated(a, c) : c \in T}} \cup {BigNum} :
                  \A y \in {AbsCost[m][p] : p \in {Evaluated(a, c) : c \in T}} \cup {BigNum} :
                    z <= y]
<1> DEFINE values(m) == {AbsCost[m][p] : p \in {Evaluated(a, c) : c \in T}} \cup {BigNum}
<1>1. ASSUME NEW m \in Metrics
      PROVE  v[m] = CHOOSE z \in values(m) : \A y \in values(m) : z <= y
  <2>1. ASSUME NEW c \in T
        PROVE  /\ AbsCost[m][Evaluated(a, c)] = ShapeCost(Evaluated(a, c))[m]
               /\ ShapeCost(Evaluated(a, c))[m] \in Nat
    <3>1. /\ Evaluated(a, c) \in Space("tag") \cup Space("data")
          /\ ShapeCost(Evaluated(a, c)) \in MinValues
      BY FoundCost DEF Arrays
    <3>2. AbsCost[m][Evaluated(a, c)] = Cost[m][Shape(Evaluated(a, c))]
      BY <3>1 DEF AbsCost
    <3>3. ShapeCost(Evaluated(a, c))[m] = Cost[m][Shape(Evaluated(a, c))]
      BY DEF ShapeCost
    <3> QED BY <3>1, <3>2, <3>3 DEF MinValues
  <2>2. values(m) = {ShapeCost(Evaluated(a, c))[m] : c \in T} \cup {BigNum}
    BY <2>1
  <2> DEFINE S == {ShapeCost(Evaluated(a, c))[m] : c \in T} \cup {BigNum}
  <2>3. S \in SUBSET Int
    BY <2>1, ConfigAssumption
  <2>4. v[m] \in S /\ \A y \in S : v[m] <= y
    BY DEF LeastOver
  <2> HIDE DEF S, values
  <2>5. (CHOOSE z \in S : \A y \in S : z <= y) = v[m]
    BY <2>3, <2>4, LeastIs
  <2>6. values(m) = S
    BY <2>2 DEF S
  <2> QED BY <2>5, <2>6
<1> HIDE DEF values
<1>2. v = [m \in Metrics |-> v[m]]
  BY DEF MinValues
<1>3. v = [m \in Metrics |-> CHOOSE z \in values(m) : \A y \in values(m) : z <= y]
  BY <1>1, <1>2
<1> QED BY <1>3 DEF values

(* The positions of all workers evaluate to all valid partitions.          *)
LEMMA WorkParts ==
  ASSUME NEW a \in Arrays
  PROVE  {Evaluated(a, c) : c \in Found(a)} = Space(a)
<1>1. ASSUME NEW c \in Found(a) PROVE Evaluated(a, c) \in Space(a)
  BY FoundCost
<1>2. ASSUME NEW p \in Space(a) PROVE \E c \in Found(a) : p = Evaluated(a, c)
  <2>1. PICK t \in Owners(a, p) : TRUE
    BY SomeOwner
  <2>2. t \in Threads /\ Source(a, t, p) \in Work(a, t) /\ Evaluated(a, Source(a, t, p)) = p
    BY SpaceFound
  <2> QED BY <2>2 DEF Found
<1> QED BY <1>1, <1>2

(* At the end the minima are those of the abstract search.                 *)
LEMMA FinalMinima ==
  ASSUME SInv, mpc = "done"
  PROVE  AbsMinima = [a \in Arrays |-> Abstract!MinimaOf(AbsFound[a])]
<1>0. TypeOK /\ phase = "data" /\ Minima
      /\ \A t \in Threads : tpc[t] = "exited" /\ job[t] = "data"
  BY DEF SInv, FInv, IInv, Stage
<1>1. ASSUME NEW a \in Arrays PROVE min[a] = Abstract!MinimaOf(AbsFound[a])
  <2> DEFINE T == IF Searched(a) THEN Found(a) ELSE {}
  <2>1. UNION {Done(a, t) : t \in Counted} = T
    <3>1. TagDone /\ DataDone /\ Counted = Threads
      BY <1>0 DEF TagDone, DataDone, Counted
    <3>2. ASSUME NEW t \in Threads PROVE Done(a, t) = IF Searched(a) THEN Work(a, t) ELSE {}
      BY <1>0, <3>1 DEF Done, Through, Searched, Arrays
    <3> QED BY <3>1, <3>2 DEF Found
  <2>2. LeastOver(min[a], a, T) /\ min[a] \in MinValues
    <3>1. LeastOver(min[a], a, UNION {Done(a, t) : t \in Counted})
      BY <1>0 DEF Minima
    <3> HIDE DEF T
    <3> QED BY <1>0, <2>1, <3>1 DEF TypeOK
  <2>3. {Evaluated(a, c) : c \in T} = AbsFound[a]
    <3>1. AbsFound[a] = IF Searched(a) THEN Space(a) ELSE {}
      BY AbsFoundIs
    <3> QED BY <3>1, WorkParts
  <2>4. T \in SUBSET Found(a)
    OBVIOUS
  <2> HIDE DEF T
  <2> DEFINE F == {Evaluated(a, c) : c \in T}
  <2>5. min[a] = [m \in Metrics |->
                    CHOOSE z \in {AbsCost[m][p] : p \in F} \cup {BigNum} :
                      \A y \in {AbsCost[m][p] : p \in F} \cup {BigNum} : z <= y]
    BY <2>2, <2>4, MinimaAre
  <2>6. F = AbsFound[a]
    BY <2>3
  <2> HIDE DEF F
  <2> QED BY <2>5, <2>6 DEF Abstract!MinimaOf, Abstract!Least, AbsCost
<1>2. min = [a \in Arrays |-> min[a]]
  BY <1>0 DEF TypeOK
<1> QED BY <1>1, <1>2 DEF AbsMinima

(* The initial states map to initial states.                               *)
LEMMA AbstractInit == Init => Abstract!Init
<1> SUFFICES ASSUME Init PROVE Abstract!Init
  OBVIOUS
<1>1. AbsStage = "tag"
  BY DEF Init, AbsStage, TagDone, DataDone
<1>2. AbsFound = [a \in Arrays |-> {}]
  BY DEF Init, AbsFound, TagDone, DataDone
<1>3. AbsMinima = [a \in Arrays |-> NoMin]
  BY DEF Init, AbsMinima
<1> QED BY <1>1, <1>2, <1>3
  DEF Abstract!Init, Abstract!Arrays, Abstract!NoMin, AbsStage, AbsFound, AbsMinima,
      Arrays, NoMin

(* Which searches are over changes in four steps only: when there is no    *)
(* tag array, with the last merge of each search and with the last minimum.*)
LEMMA Searches ==
  ASSUME SInv, [Next]_vars
  PROVE  \/ /\ AbsStage = "tag" /\ AbsStage' = "data" /\ ~ TagDone /\ TagDone'
            /\ ~ DataDone /\ ~ DataDone' /\ mpc # "done" /\ mpc' # "done"
         \/ /\ AbsStage = "data" /\ AbsStage' = "minima" /\ TagDone /\ TagDone'
            /\ ~ DataDone /\ DataDone' /\ mpc # "done" /\ mpc' # "done"
         \/ /\ AbsStage = "minima" /\ AbsStage' = "done" /\ TagDone /\ TagDone'
            /\ DataDone /\ DataDone' /\ mpc # "done" /\ mpc' = "done"
         \/ /\ UNCHANGED AbsStage /\ TagDone' = TagDone /\ DataDone' = DataDone
            /\ (mpc' = "done") = (mpc = "done") /\ (mpc = "done" => UNCHANGED min)
<1>0. Stage /\ TypeOK /\ JobIsPhase /\ Control
  BY DEF SInv, FInv, IInv, Filling
<1>p. phase \in {"tag", "data"} /\ (mpc \in {"mins", "done"} => phase = "data")
  BY <1>0 DEF TypeOK, Arrays, Stage
<1> USE DEF AbsStage, TagDone, DataDone
<1>1. CASE TagInit
  BY <1>0, <1>1 DEF TagInit, Install, Stage
<1>2. CASE DataInit
  BY <1>2 DEF DataInit, Install
<1>3. CASE Create
  BY <1>3 DEF Create, EndTurn
<1>4. CASE Join
  BY <1>4 DEF Join, EndTurn
<1>5. CASE Merge
  BY <1>5, <1>p DEF Merge, EndTurn
<1>6. CASE Mins
  BY <1>6, <1>p DEF Mins, EndTurn
<1>7. CASE UNCHANGED <<mpc, phase, min>>
  BY <1>7
<1> QED BY <1>1, <1>2, <1>3, <1>4, <1>5, <1>6, <1>7
  DEF Next, Main, Finished, Worker, Start, Explore, Exit, vars

FoundRight == AbsFound = [a \in Arrays |-> IF Searched(a) THEN Space(a) ELSE {}]
MinimaRight ==
  mpc = "done" => AbsMinima = [a \in Arrays |-> Abstract!MinimaOf(AbsFound[a])]

(* What the mapping yields in a state that satisfies the invariant.        *)
LEMMA AbstractNow == SInv => FoundRight /\ MinimaRight
BY AbsFoundIs, FinalMinima DEF FoundRight, MinimaRight

(* And in the state after.                                                 *)
LEMMA AbstractAfter == SInv' => FoundRight' /\ MinimaRight'
BY AbstractNow, PTL

(* Every step maps to a step or a stutter.                                 *)
LEMMA AbstractNext ==
  SInv /\ SInv' /\ [Next]_vars => [Abstract!Next]_(Abstract!vars)
<1> SUFFICES ASSUME SInv, SInv', [Next]_vars
             PROVE  [Abstract!Next]_(Abstract!vars)
  OBVIOUS
<1>1. /\ AbsFound = [a \in Arrays |-> IF Searched(a) THEN Space(a) ELSE {}]
      /\ AbsFound' = [a \in Arrays |-> IF Searched(a)' THEN Space(a) ELSE {}]
  BY AbstractNow, AbstractAfter DEF FoundRight
<1> DEFINE u == AbsStage
           f == AbsFound
           m == AbsMinima
<1>2. CASE /\ AbsStage = "tag" /\ AbsStage' = "data" /\ ~ TagDone /\ TagDone'
           /\ ~ DataDone /\ ~ DataDone' /\ mpc # "done" /\ mpc' # "done"
  <2>1. f' = [f EXCEPT !["tag"] = IF IsCache THEN Space("tag") ELSE {}]
    BY <1>1, <1>2 DEF Searched, Arrays
  <2>2. m' = m
    BY <1>2 DEF AbsMinima
  <2>3. Abstract!SearchTag
    BY <1>2, <2>1, <2>2
    DEF Abstract!SearchTag, AbsStage, AbsFound, AbsMinima, Arrays
  <2> QED BY <2>3 DEF Abstract!Next
<1>3. CASE /\ AbsStage = "data" /\ AbsStage' = "minima" /\ TagDone /\ TagDone'
           /\ ~ DataDone /\ DataDone' /\ mpc # "done" /\ mpc' # "done"
  <2>1. f' = [f EXCEPT !["data"] = Space("data")]
    BY <1>1, <1>3 DEF Searched, Arrays
  <2>2. m' = m
    BY <1>3 DEF AbsMinima
  <2>3. Abstract!SearchData
    BY <1>3, <2>1, <2>2
    DEF Abstract!SearchData, AbsStage, AbsFound, AbsMinima, Arrays
  <2> QED BY <2>3 DEF Abstract!Next
<1>4. CASE /\ AbsStage = "minima" /\ AbsStage' = "done" /\ TagDone /\ TagDone'
           /\ DataDone /\ DataDone' /\ mpc # "done" /\ mpc' = "done"
  <2>1. f' = f
    BY <1>1, <1>4 DEF Searched
  <2>2. m' = [a \in Arrays |-> Abstract!MinimaOf(f[a])]
    <3>2. AbsMinima' = [a \in Arrays |-> Abstract!MinimaOf(AbsFound[a])']
      BY <1>4, AbstractAfter DEF MinimaRight
    <3>3. AbsMinima' = [a \in Arrays |-> Abstract!MinimaOf(AbsFound'[a])]
      BY <1>4, <3>2 DEF Abstract!MinimaOf
    <3> QED BY <2>1, <3>3
  <2>3. Abstract!Minimise
    BY <1>4, <2>1, <2>2
    DEF Abstract!Minimise, Abstract!Arrays, AbsStage, AbsFound, AbsMinima, Arrays
  <2> QED BY <2>3 DEF Abstract!Next
<1>5. CASE /\ UNCHANGED AbsStage /\ TagDone' = TagDone /\ DataDone' = DataDone
           /\ (mpc' = "done") = (mpc = "done") /\ (mpc = "done" => UNCHANGED min)
  <2>1. f' = f
    BY <1>1, <1>5 DEF Searched
  <2>2. m' = m
    BY <1>5 DEF AbsMinima
  <2>3. UNCHANGED Abstract!vars
    BY <1>5, <2>1, <2>2 DEF Abstract!vars, AbsStage, AbsFound, AbsMinima
  <2> QED BY <2>3
<1> QED BY <1>2, <1>3, <1>4, <1>5, Searches

(* Whatever the interleaving and the number of workers, the search goes    *)
(* through the steps of the exhaustive one: each array's valid             *)
(* organisations, all of them and no others, and then their minima.        *)
THEOREM Refinement == Spec => ImplementsExhaustiveSearch
<1>1. Init => Abstract!Init
  BY AbstractInit
<1>2. SInv /\ SInv' /\ [Next]_vars => [Abstract!Next]_(Abstract!vars)
  BY AbstractNext
<1> QED BY <1>1, <1>2, SearchInvariance, PTL
  DEF Spec, ImplementsExhaustiveSearch, Abstract!Spec

-----------------------------------------------------------------------------
(* The room in the subarrays of a valid partition.                         *)

(* Products of naturals: they grow with their factors, and a common factor *)
(* cancels.                                                                *)
LEMMA ProductGrows ==
  ASSUME NEW a \in Nat, NEW b \in Nat, NEW c \in Nat, NEW d \in Nat, b <= a, d <= c
  PROVE  b * d <= a * c
<1> DEFINE x == a - b
           y == c - d
<1>1. x \in Nat /\ y \in Nat /\ a = b + x /\ c = d + y
  OBVIOUS
<1> HIDE DEF x, y
<1>2. a * c = b * d + b * y + x * d + x * y
  BY <1>1
<1>3. b * y \in Nat /\ x * d \in Nat /\ x * y \in Nat /\ b * d \in Nat
  BY <1>1, Multiple
<1> QED BY <1>2, <1>3

LEMMA FactorCancels ==
  ASSUME NEW a \in Nat, NEW b \in Nat, NEW k \in Positive, b * k <= a * k
  PROVE  b <= a
<1> SUFFICES ASSUME a < b PROVE FALSE
  OBVIOUS
<1> DEFINE x == b - a - 1
<1>1. x \in Nat /\ b = a + 1 + x
  OBVIOUS
<1> HIDE DEF x
<1>2. k \in Nat /\ k > 0
  BY DEF Positive
<1>3. b * k = a * k + k + x * k
  BY <1>1, <1>2
<1>4. x * k \in Nat /\ a * k \in Nat
  BY <1>1, <1>2, Multiple
<1> QED BY <1>2, <1>3, <1>4

LEMMA Products ==
  ASSUME NEW a \in Positive, NEW b \in Positive
  PROVE  a * b \in Positive
<1> DEFINE x == a - 1
           y == b - 1
<1>1. x \in Nat /\ y \in Nat /\ a = x + 1 /\ b = y + 1
  BY DEF Positive
<1> HIDE DEF x, y
<1>2. a * b = x * y + x + y + 1 /\ x * y \in Nat
  BY <1>1, Multiple
<1> QED BY <1>1, <1>2 DEF Positive

(* A quotient rounded up is at least the quotient.                         *)
LEMMA CeilDivUp ==
  ASSUME NEW a \in Nat, NEW b \in Positive
  PROVE  CeilDiv(a, b) \in Nat /\ CeilDiv(a, b) * b >= a
<1> DEFINE x == a + b - 1
           q == x \div b
           r == x % b
<1>1. b \in Nat \ {0} /\ x \in Nat
  BY DEF Positive
<1>2. r \in 0 .. b - 1 /\ q \in Nat /\ x = b * q + r
  <2> HIDE DEF x
  <2> QED BY <1>1, Euclid
<1>3. CeilDiv(a, b) = q
  BY DEF CeilDiv
<1>4. x = a + b - 1
  BY DEF x
<1> HIDE DEF x, q, r
<1>5. b * q \in Nat /\ q * b = b * q
  BY <1>1, <1>2
<1> DEFINE y == b * q
<1>6. y \in Nat /\ x = y + r
  BY <1>2, <1>5
<1> HIDE DEF y
<1>7. y >= a
  BY <1>1, <1>2, <1>4, <1>6
<1> QED BY <1>2, <1>3, <1>5, <1>7 DEF y

(* Rows and columns that are rounded up hold what they divide: C bytes in  *)
(* nb banks, sets of A lines of L bytes, D by W subarrays, and T bits for  *)
(* each line.                                                              *)
LEMMA RowsTimesColumns ==
  ASSUME NEW C \in Positive, NEW nb \in Positive, NEW L \in Positive, NEW A \in Positive,
         NEW D \in Positive, NEW W \in Positive, NEW s \in Positive, NEW T \in Positive,
         NEW R \in Nat, NEW K \in Nat,
         8 * C <= R * (nb * L * A * D * s),
         T * A * s <= K * (8 * W)
  PROVE  C * T <= (R * D * nb * K * W) * L
<1> DEFINE u == nb * L * A * D * s
           v == T * A * s
           k == 8 * A * s
           x == (R * D * nb * K * W) * L
<1>1. \A n \in Positive : n \in Nat
  BY DEF Positive
<1>2. u \in Positive /\ v \in Positive
  BY Products
<1>3. k \in Positive
  <2>1. 8 \in Positive
    BY DEF Positive
  <2> QED BY <2>1, Products
<1>4. C * T \in Nat
  BY <1>1, Multiple
<1>5. x \in Nat
  <2>1. \A m, n \in Nat : m * n \in Nat
    OBVIOUS
  <2>2. R * D * nb * K * W \in Nat
    BY <1>1, <2>1
  <2> QED BY <1>1, <2>1, <2>2
<1>6. (8 * C) * v <= (R * u) * (K * (8 * W))
  <2>1. 8 * C \in Nat /\ R * u \in Nat /\ K * (8 * W) \in Nat /\ v \in Nat
    <3>1. C \in Nat /\ W \in Nat /\ u \in Nat /\ v \in Nat
      BY <1>1, <1>2
    <3> HIDE DEF u, v
    <3>2. 8 * C \in Nat /\ 8 * W \in Nat
      BY <3>1
    <3> QED BY <3>1, <3>2, Multiple
  <2>2. 8 * C <= R * u /\ v <= K * (8 * W)
    OBVIOUS
  <2> DEFINE cc == 8 * C
             ru == R * u
             kw == K * (8 * W)
  <2> HIDE DEF cc, ru, kw, v
  <2>3. cc * v <= ru * kw
    BY <2>1, <2>2, ProductGrows DEF cc, ru, kw
  <2> QED BY <2>3 DEF cc, ru, kw
<1>7. (8 * C) * v = (C * T) * k
  BY <1>1
<1>8. (R * u) * (K * (8 * W)) = x * k
  BY <1>1
<1> HIDE DEF u, v, k, x
<1>9. (C * T) * k <= x * k
  BY <1>6, <1>7, <1>8
<1>10. C * T <= x
  BY <1>3, <1>4, <1>5, <1>9, FactorCancels
<1> QED BY <1>10 DEF x

(* What is known of a request that is accepted, and of a partition.        *)
LEMMA RequestFacts ==
  ASSUME NEW ip \in ArrayRequests, ~ Refused(ip)
  PROVE  /\ ip.cache_sz \in Positive /\ ip.line_sz \in Positive /\ ip.nbanks \in Positive
         /\ ip.assoc \in Nat /\ tagbits(ip) \in Positive
         /\ ip.is_cache \in BOOLEAN /\ ip.pure_cam \in BOOLEAN
         /\ ~ (ip.is_cache /\ ip.pure_cam)
         /\ ~ ByContent(ip) => ip.assoc \in Positive
<1>1. ip \in ArrayRequest /\ tagbits(ip) \in Positive
  BY ShapeAssumption
<1>2. /\ ip.cache_sz \in Positive /\ ip.line_sz \in Positive /\ ip.nbanks \in Positive
      /\ ip.assoc \in Nat /\ ip.is_cache \in BOOLEAN /\ ip.pure_cam \in BOOLEAN
      /\ ~ (ip.is_cache /\ ip.pure_cam)
  BY <1>1 DEF ArrayRequest
<1>3. ~ ByContent(ip) => ip.assoc # 0
  BY DEF Refused, ByContent, fully_assoc
<1> QED BY <1>1, <1>2, <1>3 DEF Positive

LEMMA PartitionFacts ==
  ASSUME NEW p \in ArrayPartitions
  PROVE  /\ p.Nspd8 \in Positive /\ p.Ndwl \in Positive /\ p.Ndbl \in Positive
         /\ p.Ndwl \in OneOrEven /\ p.Ndbl \in OneOrEven
  BY ShapeAssumption DEF ArrayPartition, OneOrEven

(* The subarrays of an array that is not addressed by content.             *)
LEMMA OrdinaryHolds ==
  ASSUME NEW ip \in ArrayRequests, ~ Refused(ip), NEW p \in ArrayPartitions,
         NEW array \in {"tag", "data"}, ~ ByContent(ip)
  PROVE  Holds(ip, array, p)
<1> DEFINE A == Associativity(ip, array)
           R == Rows(ip, array, p)
           K == Columns(ip, array, p)
           T == IF array = "tag" THEN tagbits(ip) ELSE 8 * ip.line_sz
           C == ip.cache_sz
           L == ip.line_sz
           nb == ip.nbanks
           D == p.Ndbl
           W == p.Ndwl
           s == p.Nspd8
<1>1. /\ C \in Positive /\ L \in Positive /\ nb \in Positive /\ tagbits(ip) \in Positive
      /\ ip.assoc \in Positive /\ ~ fully_assoc(ip) /\ ~ ip.pure_cam
  BY RequestFacts DEF ByContent
<1>2. D \in Positive /\ W \in Positive /\ s \in Positive
  BY PartitionFacts
<1>3. A \in Positive
  <2>1. Ways(ip) = ip.assoc /\ 1 \in Positive
    BY <1>1 DEF Ways, Positive
  <2> QED BY <1>1, <2>1 DEF Associativity, tag_assoc, data_assoc
<1>4. T \in Positive
  BY <1>1, Products DEF Positive
<1>5. R = CeilDiv(8 * C, nb * L * A * D * s)
  BY <1>1 DEF Rows
<1>6. K = CeilDiv(T * A * s, 8 * W)
  BY <1>1 DEF Columns, ByContent
<1> HIDE DEF A, R, K, T, C, L, nb, D, W, s
<1>7. R \in Nat /\ 8 * C <= R * (nb * L * A * D * s)
  <2>1. nb * L * A * D * s \in Positive /\ 8 * C \in Nat
    BY <1>1, <1>2, <1>3, Products DEF Positive
  <2> DEFINE u == nb * L * A * D * s
  <2> HIDE DEF u
  <2>2. CeilDiv(8 * C, u) \in Nat /\ CeilDiv(8 * C, u) * u >= 8 * C
    BY <2>1, CeilDivUp DEF u
  <2>3. CeilDiv(8 * C, u) * u \in Nat
    BY <2>1, <2>2 DEF u, Positive
  <2>4. R = CeilDiv(8 * C, u)
    BY <1>5 DEF u
  <2>5. R * u >= 8 * C /\ R * u \in Nat /\ R \in Nat
    BY <2>2, <2>3, <2>4
  <2>6. 8 * C <= R * u
    BY <2>1, <2>5
  <2> QED BY <2>5, <2>6 DEF u
<1>8. K \in Nat /\ T * A * s <= K * (8 * W)
  <2>1. T * A * s \in Positive /\ 8 * W \in Positive
    BY <1>2, <1>3, <1>4, Products DEF Positive
  <2> DEFINE u == T * A * s
             w == 8 * W
  <2> HIDE DEF u, w
  <2>2. CeilDiv(u, w) \in Nat /\ CeilDiv(u, w) * w >= u
    BY <2>1, CeilDivUp DEF u, w, Positive
  <2>3. K = CeilDiv(u, w)
    BY <1>6 DEF u, w
  <2>4. K * w >= u /\ K \in Nat /\ K * w \in Nat /\ u \in Nat
    BY <2>1, <2>2, <2>3 DEF u, w, Positive
  <2>5. u <= K * w
    BY <2>4
  <2> QED BY <2>4, <2>5 DEF u, w
<1>9. C * T <= (R * D * nb * K * W) * L
  BY <1>1, <1>2, <1>3, <1>4, <1>7, <1>8, RowsTimesColumns
<1> DEFINE bits == R * D * nb * K * W
<1>10. bits \in Nat
  <2>1. \A m, n \in Nat : m * n \in Nat
    OBVIOUS
  <2>2. \A n \in Positive : n \in Nat
    BY DEF Positive
  <2> QED BY <1>1, <1>2, <1>7, <1>8, <2>1, <2>2
<1> HIDE DEF bits
<1>11. C * T <= bits * L
  BY <1>9 DEF bits
<1>12. CASE array = "tag"
  <2> DEFINE q == C \div L
             r == C % L
             t == tagbits(ip)
  <2>1. C \in Nat /\ L \in Nat \ {0} /\ t \in Nat /\ T = t
    BY <1>1, <1>12 DEF Positive, T
  <2>2. q \in Nat /\ r \in Nat /\ C = L * q + r
    BY <2>1, Euclid
  <2> HIDE DEF q, r, t
  <2>3. (q * t) * L + r * t = C * T /\ r * t \in Nat /\ q * t \in Nat
    <3>1. r * t \in Nat /\ q * t \in Nat
      BY <2>1, <2>2, Multiple
    <3>2. (L * q + r) * t = (q * t) * L + r * t
      BY <2>1, <2>2
    <3> QED BY <2>1, <2>2, <3>1, <3>2
  <2>4. (q * t) * L <= bits * L
    <3> DEFINE x == (q * t) * L
               y == r * t
               z == bits * L
    <3>1. x \in Nat /\ z \in Nat
      BY <1>10, <2>1, <2>3, Multiple
    <3>2. x + y <= z /\ y \in Nat
      BY <1>11, <2>3
    <3> HIDE DEF x, y, z
    <3>3. x <= z
      BY <3>1, <3>2
    <3> QED BY <3>3 DEF x, z
  <2>5. q * t <= bits
    BY <1>1, <1>10, <2>3, <2>4, FactorCancels
  <2>6. bits >= q * t
    BY <1>10, <2>3, <2>5
  <2> QED BY <1>1, <1>12, <2>6 DEF Holds, bits, q, t, R, K, C, L, nb, D, W
<1>13. CASE array = "data"
  <2>1. T = 8 * L /\ C \in Nat /\ L \in Nat
    BY <1>1, <1>13 DEF Positive, T, L
  <2>2. (8 * C) * L = C * T /\ 8 * C \in Nat
    BY <2>1
  <2>3. 8 * C <= bits
    BY <1>1, <1>10, <1>11, <2>2, FactorCancels
  <2>4. bits >= 8 * C
    BY <1>10, <2>2, <2>3
  <2> QED BY <1>1, <1>13, <2>4 DEF Holds, bits, R, K, C, L, nb, D, W
<1> QED BY <1>12, <1>13

(* An array addressed by content has one column of subarrays: a CAM rounds *)
(* its rows up, and a cache loses nothing if they come out even.           *)
LEMMA ByContentHolds ==
  ASSUME NEW ip \in ArrayRequests, ~ Refused(ip), NEW p \in ArrayPartitions,
         ByContent(ip), is_valid(ip, "data", p)
  PROVE  Holds(ip, "data", p)
<1> DEFINE C == ip.cache_sz
           nb == ip.nbanks
           D == p.Ndbl
           R == Rows(ip, "data", p)
<1>1. C \in Positive /\ nb \in Positive /\ D \in Positive /\ p.Ndwl = 1
  <2>1. p.Ndwl = 1
    BY Zenon DEF is_valid
  <2> QED BY <2>1, RequestFacts, PartitionFacts
<1>2. CASE ip.pure_cam
  <2> DEFINE t == tagbits(ip)
             u == nb * t * D
  <2>1. ~ fully_assoc(ip) /\ t \in Positive
    BY <1>2, RequestFacts DEF fully_assoc
  <2>2. R = CeilDiv(8 * C, u) /\ Columns(ip, "data", p) = t
    <3>1. R = CeilDiv(8 * C, u)
      BY <1>2, <2>1 DEF Rows
    <3>2. Columns(ip, "data", p) = t
      BY DEF Columns
    <3> QED BY <3>1, <3>2
  <2> HIDE DEF C, nb, D, R, t
  <2>3. u \in Positive /\ 8 * C \in Nat
    BY <1>1, <2>1, Products DEF Positive
  <2> HIDE DEF u
  <2>4. R \in Nat /\ R * u >= 8 * C
    BY <2>2, <2>3, CeilDivUp
  <2>5. R * D * nb * t * 1 = R * u
    <3>1. R \in Nat /\ D \in Nat /\ nb \in Nat /\ t \in Nat
      BY <1>1, <2>1, <2>4 DEF Positive
    <3> QED BY <3>1 DEF u
  <2>6. (R * D * nb) * t * 1 >= 8 * C
    BY <2>4, <2>5
  <2> QED BY <1>1, <2>1, <2>2, <2>6 DEF Holds, C, nb, D, R, t
<1>3. CASE fully_assoc(ip)
  <2> DEFINE L == ip.line_sz
             u == nb * L * D
  <2>1. ~ ip.pure_cam /\ L \in Positive
    BY <1>3, RequestFacts DEF fully_assoc
  <2>2. R = C \div u
    BY <1>3, <2>1 DEF Rows
  <2> SUFFICES ASSUME C % u = 0 PROVE R * D * nb * L = C
    BY <1>3 DEF Holds
  <2> HIDE DEF C, nb, D, R, L
  <2>3. u \in Nat \ {0} /\ C \in Nat
    BY <1>1, <2>1, Products DEF Positive
  <2> HIDE DEF u
  <2>4. R \in Nat /\ C = u * R + 0
    BY <2>2, <2>3, Euclid
  <2>5. R * D * nb * L = u * R
    <3>1. R \in Nat /\ D \in Nat /\ nb \in Nat /\ L \in Nat
      BY <1>1, <2>1, <2>4 DEF Positive
    <3> QED BY <3>1 DEF u
  <2>6. u * R \in Nat
    BY <2>3, <2>4, Multiple
  <2> QED BY <2>4, <2>5, <2>6
<1> QED BY <1>2, <1>3 DEF ByContent

(* A number that is one or even is a number of pairs, or one.              *)
LEMMA Halves ==
  ASSUME NEW n \in OneOrEven
  PROVE  /\ Larger(n \div 2, 1) \in Positive
         /\ n = Larger(n \div 2, 1) \/ n = 2 * Larger(n \div 2, 1)
<1>1. n \in Nat /\ n # 0 /\ (n = 1 \/ n % 2 = 0)
  BY DEF OneOrEven, Positive
<1>2. CASE n = 1
  BY <1>2 DEF Larger, Positive
<1>3. CASE n % 2 = 0
  <2>1. n \div 2 \in Nat /\ n = 2 * (n \div 2) /\ n \div 2 # 0
    BY <1>1, <1>3
  <2>2. Larger(n \div 2, 1) = n \div 2
    BY <2>1 DEF Larger
  <2> QED BY <2>1, <2>2 DEF Positive
<1> QED BY <1>1, <1>2, <1>3

(* Mats of one, two or four subarrays are all subarrays.                   *)
LEMMA AllPlaced ==
  ASSUME NEW ip \in ArrayRequests, NEW p \in ArrayPartitions
  PROVE  Placed(ip, p)
<1> SUFFICES ASSUME ~ ByContent(ip)
             PROVE  Mats(ip, p) * PerMat(ip, p) = p.Ndwl * p.Ndbl /\ PerMat(ip, p) <= 4
  BY DEF Placed
<1> DEFINE h == Larger(p.Ndwl \div 2, 1)
           v == Larger(p.Ndbl \div 2, 1)
           n == p.Ndwl * p.Ndbl
<1>1. Mats(ip, p) = h * v /\ PerMat(ip, p) = n \div (h * v)
  <2>1. MatsAcross(ip, p) = h
    BY DEF MatsAcross
  <2>2. MatsDown(ip, p) = v
    BY DEF MatsDown
  <2>3. Mats(ip, p) = h * v
    BY <2>1, <2>2 DEF Mats
  <2> HIDE DEF h, v
  <2> QED BY <2>3 DEF PerMat
<1>2. /\ h \in Positive /\ (p.Ndwl = h \/ p.Ndwl = 2 * h)
      /\ v \in Positive /\ (p.Ndbl = v \/ p.Ndbl = 2 * v)
  BY PartitionFacts, Halves
<1> HIDE DEF h, v
<1> DEFINE m == h * v
<1>3. m \in Positive /\ h \in Nat /\ v \in Nat
  BY <1>2, Products DEF Positive
<1>4. n = m * 1 \/ n = m * 2 \/ n = m * 4
  BY <1>2, <1>3
<1> HIDE DEF m, n
<1>5. PICK k \in {1, 2, 4} : n = m * k
  BY <1>4
<1>6. n \div m = k
  <2>1. m \in Nat \ {0} /\ n \in Nat
    BY <1>3, <1>5 DEF Positive
  <2>2. n % m \in 0 .. m - 1 /\ n \div m \in Nat /\ n = m * (n \div m) + (n % m)
    BY <2>1, Euclid
  <2> DEFINE q == n \div m
             r == n % m
  <2> HIDE DEF q, r
  <2>3. q \in Nat /\ r \in 0 .. m - 1 /\ m * k + 0 = m * q + r /\ 0 \in 0 .. m - 1
    BY <1>5, <2>1, <2>2 DEF q, r
  <2>4. ~ (q < k) /\ ~ (k < q)
    <3>1. ASSUME q < k PROVE FALSE
      <4>1. k = q + 1 + (k - q - 1) /\ k - q - 1 \in Nat
        BY <2>3, <3>1
      <4> DEFINE x == k - q - 1
      <4> HIDE DEF x
      <4>2. m * k = m * q + m + m * x /\ m * x \in Nat /\ m * q \in Nat
        BY <2>1, <2>3, <4>1 DEF x
      <4> QED BY <2>1, <2>3, <4>2
    <3>2. ASSUME k < q PROVE FALSE
      <4>1. q = k + 1 + (q - k - 1) /\ q - k - 1 \in Nat
        BY <2>3, <3>2
      <4> DEFINE x == q - k - 1
      <4> HIDE DEF x
      <4>2. m * q = m * k + m + m * x /\ m * x \in Nat /\ m * k \in Nat
        BY <2>1, <2>3, <4>1 DEF x
      <4> QED BY <2>1, <2>3, <4>2
    <3> QED BY <3>1, <3>2
  <2>5. q = k
    BY <2>3, <2>4
  <2> QED BY <2>5 DEF q
<1>7. k \in Nat /\ k <= 4 /\ m * k = n
  BY <1>5
<1> QED BY <1>1, <1>6, <1>7 DEF m, n

(* DynamicParameter: every partition it declares valid has room for all    *)
(* bits of the array and all of its subarrays in mats, whatever the size   *)
(* of the request, its line and its ways, and whatever the stretch.        *)
THEOREM CapacityRightCorrect == Spec => []CapacityRight
<1>1. ASSUME NEW array \in Arrays PROVE EnoughCells[array]
  <2> SUFFICES ASSUME NEW ip \in ArrayRequests, ~ Refused(ip), array \in ArraysOf(ip),
                      NEW p \in ArrayPartitions, is_valid(ip, array, p)
               PROVE  Holds(ip, array, p) /\ Placed(ip, p)
    BY DEF EnoughCells, Arrays
  <2>1. CASE ByContent(ip)
    <3>1. array = "data"
      BY <2>1 DEF ArraysOf
    <3> QED BY <2>1, <3>1, ByContentHolds, AllPlaced
  <2>2. CASE ~ ByContent(ip)
    BY <2>2, OrdinaryHolds, AllPlaced DEF Arrays
  <2> QED BY <2>1, <2>2
<1>2. TypeOK => CapacityRight
  BY <1>1 DEF TypeOK, CapacityRight
<1> QED BY <1>2, TypeCorrect, PTL

=============================================================================
