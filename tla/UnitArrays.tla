------------------------------ MODULE UnitArrays ------------------------------
(***************************************************************************)
(* What the constructors of the units ask of CACTI.  A unit has one        *)
(* interface_ip and changes it from array to array: a field it does not    *)
(* assign keeps the value the array before has left there.  An array is    *)
(* asked for with the fields assigned since the last one and its ports,    *)
(* which are always assigned; assoc and search (num_search_ports) are 0 or *)
(* more, which 1 stands for.  A request under a condition that does not    *)
(* hold is not made and assigns nothing.                                   *)
(***************************************************************************)
EXTENDS UncoreUnits, Integers, Sequences, FiniteSetsExt

Ask(array, fields, ports) == [of |-> array, fields |-> fields, ports |-> ports]
NotAsked == Ask("none", <<>>, {})
AskIf(b, array, fields, ports) == IF b THEN Ask(array, fields, ports) ELSE NotAsked

Ram      == [is_cache |-> FALSE, pure_ram |-> TRUE, assoc |-> 1]
SetAssoc == [is_cache |-> TRUE, pure_ram |-> FALSE, assoc |-> 1]
Cam      == [is_cache |-> TRUE, pure_ram |-> FALSE, assoc |-> 0, search |-> 1]
FullyAssoc == [assoc |-> 0]
Searched == [assoc |-> 0, search |-> 1]
Indexed  == [assoc |-> 1]
SearchPorts(n, fields) == [search |-> n] @@ fields
AsCache(fields) == [is_cache |-> TRUE] @@ fields

(* Processor::set_proc_param(): what every unit starts from.               *)
set_proc_param == [is_cache |-> TRUE, pure_ram |-> FALSE, assoc |-> 1, search |-> 1]

-----------------------------------------------------------------------------
(* The constructors, array by array.                                       *)
InstFetchU_icache(c) ==
  <<Ask("icache.caches", SetAssoc, {"rw"}), Ask("icache.missb", Searched, {"rw"}),
    Ask("icache.ifb", Searched, {"rw"}), Ask("icache.prefetchb", Searched, {"rw"})>>
InstFetchU_IB(c)  == Ask("IB", Ram, {"rw"})
InstFetchU_BTB(c) == AskIf("prediction" \in c, "BTB", SetAssoc, {"rw", "rd", "wr"})
InstFetchU_asks(c) == InstFetchU_icache(c) \o <<InstFetchU_IB(c), InstFetchU_BTB(c)>>

(* The predictors of a multithreaded core are caches, tagged by thread.    *)
BranchPredictor_asks(c) ==
  LET table == IF "multithreaded" \in c THEN SetAssoc ELSE Ram IN
  <<Ask("globalBPT", table, {"rd", "wr"}), Ask("L1_localBPT", <<>>, {"rd", "wr"}),
    Ask("L2_localBPT", <<>>, {"rd", "wr"}), Ask("chooser", <<>>, {"rd", "wr"}),
    Ask("RAS", Ram, {"rd", "wr"})>>

RENAMINGU_FRAT_RAM(c) ==
  <<Ask("iFRAT", Ram, {"rw", "rd", "wr"}), Ask("fFRAT", Ram, {"rw", "rd", "wr"})>>
RENAMINGU_FRAT_CAM(c) ==
  <<Ask("iFRAT", Cam, {"rw", "rd", "wr"}), Ask("fFRAT", Cam, {"rw", "rd", "wr"})>>
RENAMINGU_RRAT(c) ==
  <<AskIf(HasRRAT(c), "iRRAT", Ram, {"rd", "wr"}),
    AskIf(HasRRAT(c), "fRRAT", Ram, {"rd", "wr"})>>
RENAMINGU_freeL(c) ==
  <<Ask("ifreeL", Ram, {"rw", "rd", "wr"}),
    AskIf("PhysicalRegFile" \in c, "ffreeL", Ram, {"rw", "rd", "wr"})>>
RENAMINGU_asks(c) ==
  IF "OOO" \notin c THEN <<>>
  ELSE (IF "RAMbased" \in c THEN RENAMINGU_FRAT_RAM(c) ELSE RENAMINGU_FRAT_CAM(c))
       \o RENAMINGU_RRAT(c) \o RENAMINGU_freeL(c)

SchedulerU_windows(c) ==
  <<AskIf("OOO" \in c \/ "multithreaded" \in c, "int_inst_window", Cam, {"rd", "wr"}),
    AskIf("OOO" \in c, "fp_inst_window", Cam, {"rd", "wr"})>>
SchedulerU_ROB(c) ==
  AskIf("OOO" \in c /\ "ROB" \in c, "ROB", SearchPorts(0, Ram), {"rd", "wr"})
SchedulerU_asks(c) == SchedulerU_windows(c) \o <<SchedulerU_ROB(c)>>

(* The buffers of a data cache are searched through the ports of the       *)
(* cache.                                                                  *)
LoadStoreU_dcache(c) ==
  <<Ask("dcache.caches", SearchPorts(1, SetAssoc), {"rw"}),
    Ask("dcache.missb", FullyAssoc, {"rw"}), Ask("dcache.ifb", FullyAssoc, {"rw"}),
    Ask("dcache.prefetchb", FullyAssoc, {"rw"}),
    AskIf("writeBack" \in c, "dcache.wbb", FullyAssoc, {"rw"})>>
LoadStoreU_queues(c) ==
  <<Ask("LSQ", AsCache(Searched), {"rd", "wr"}),
    AskIf(HasLoadQ(c), "LoadQ", Searched, {"rd", "wr"})>>
LoadStoreU_asks(c) == LoadStoreU_dcache(c) \o LoadStoreU_queues(c)

MemManU_asks(c) == <<Ask("itlb", Cam, {"wr"}), Ask("dtlb", Searched, {"wr"})>>
RegFU_asks(c) ==
  <<Ask("IRF", Ram, {"rw", "rd", "wr"}), Ask("FRF", Ram, {"rw", "rd", "wr"}),
    AskIf("regWindowing" \in c, "RFWIN", Ram, {"rw"})>>

SharedCache_caches(c) ==
  <<Ask("caches", IF Shadowed(c) THEN Cam ELSE SearchPorts(0, SetAssoc), {"rw"})>>
SharedCache_buffers(c) ==
  <<AskIf(~Shadowed(c), "missb", Cam, {"rw"}),
    AskIf(~Shadowed(c), "ifb", FullyAssoc, {"rw"}),
    AskIf(~Shadowed(c), "prefetchb", FullyAssoc, {"rw"}),
    AskIf(~Shadowed(c), "wbb", FullyAssoc, {"rw"})>>
SharedCache_asks(c) == SharedCache_caches(c) \o SharedCache_buffers(c)

MCFrontEnd_asks(c) ==
  <<Ask("frontendBuffer", Cam, {"rd", "wr"}), Ask("readBuffer", Ram, {"rd", "wr"}),
    Ask("writeBuffer", Indexed, {"rd", "wr"})>>

-----------------------------------------------------------------------------
(* The value field f has for the k-th array of the requests s, from an     *)
(* interface_ip that starts as ip.                                         *)
Assigned(ip, s, k, f) ==
  LET J == {j \in 1..k : f \in DOMAIN s[j].fields} IN
  IF J = {} THEN ip[f] ELSE s[Max(J)].fields[f]
Left(ip, s, k) == [f \in DOMAIN ip |-> Assigned(ip, s, k, f)]

(* The predictor is given the interface_ip of the fetch unit, as the       *)
(* branch target buffer has left it; the others that of the processor.     *)
Before(u) ==
  IF u # "BranchPredictor" THEN set_proc_param
  ELSE LET s == InstFetchU_asks({"prediction"}) IN Left(set_proc_param, s, Len(s))

AsksOf(u, c) ==
  CASE u = "InstFetchU" -> InstFetchU_asks(c)
    [] u = "BranchPredictor" -> BranchPredictor_asks(c)
    [] u = "RENAMINGU" -> RENAMINGU_asks(c)
    [] u = "SchedulerU" -> SchedulerU_asks(c)
    [] u = "LoadStoreU" -> LoadStoreU_asks(c)
    [] u = "MemManU" -> MemManU_asks(c)
    [] u = "RegFU" -> RegFU_asks(c)
    [] u = "SharedCache" -> SharedCache_asks(c)
    [] u = "MCFrontEnd" -> MCFrontEnd_asks(c)
    [] OTHER -> <<>>

(* ArrayST::ArrayST() has InputParameter::error_checking() look at the     *)
(* request, and cacti_interface() ends the program when it refuses it.     *)
(* Here: what the array built will have.  A fully associative array that   *)
(* can be searched only is given as many read as search ports; others lose *)
(* their search ports.                                                     *)
error_checking(r, ports) ==
  LET fully_assoc == r.is_cache /\ r.assoc = 0 IN
  [refused |-> \/ ports = {}
               \/ r.assoc = 0 /\ ~r.is_cache
               \/ fully_assoc /\ r.search < 1,
   ports |-> IF ~fully_assoc THEN ports
             ELSE ports \union When(r.search > 0, {"search"})
                  \union When(ports \intersect {"rw", "rd"} = {} /\ r.search > 0, {"rd"}),
   tag |-> ~r.pure_ram /\ ~fully_assoc]

ArraysOf(u, c) ==
  LET s == AsksOf(u, c)
      Made == {k \in DOMAIN s : s[k].of # "none"}
      Position(a) == CHOOSE k \in Made : s[k].of = a
  IN [a \in {s[k].of : k \in Made} |->
        error_checking(Left(Before(u), s, Position(a)), s[Position(a)].ports)]

-----------------------------------------------------------------------------
(* What computeEnergy() takes from an array: energies of local_result      *)
(* ("tag" is that of its tag_array2), and for the peak call the numbers of *)
(* ports its accesses are made of.                                         *)
Use(ops, peak) == [ops |-> ops, peak |-> peak]
Resources == {"read", "write", "search", "tag", "rw", "rd", "wr"}
RW == {"read", "write"}
Buffer(S) == [b \in S |-> Use({"search", "write"}, {"search"})]

InstFetchU_uses(c) ==
     ("icache.caches" :> Use(RW, {"rw"})) @@ Buffer(ICache)
  @@ [a \in {"IB"} \union When("prediction" \in c, {"BTB"}) |-> Use(RW, {})]
BranchPredictor_uses(c) == [a \in BranchPredictor_made(c) |-> Use(RW, {})]
RENAMINGU_uses(c) ==
     [a \in When("OOO" \in c, FRATs) |->
        IF "RAMbased" \in c THEN Use(RW, {"rd", "wr"})
        ELSE Use({"search", "write"}, {"search", "wr"})]
  @@ [a \in When("OOO" \in c /\ HasRRAT(c), RRATs) |-> Use(RW, {"rd", "wr"})]
  @@ [a \in When("OOO" \in c, FreeLists(c)) |-> Use(RW, {})]
SchedulerU_uses(c) ==
  [a \in Windows(c) |->
     Use(RW \union {"search"}, When(a = "fp_inst_window", {"rd", "wr", "search"}))]
  @@ [a \in Ordered(c) |-> Use(RW, {})]
LoadStoreU_uses(c) ==
     ("dcache.caches" :> Use(RW \union {"tag"}, {"rw"})) @@ Buffer(DCache(c))
  @@ [a \in {"LSQ"} \union When(HasLoadQ(c), {"LoadQ"}) |->
        Use(RW \union {"search"}, {"search"})]
MemManU_uses(c) == Buffer(TLBs)
RegFU_uses(c) ==
  [FRF |-> Use(RW, {"rd", "wr"})] @@ [a \in RegFU_made(c) |-> Use(RW, {})]
SharedCache_uses(c) ==
  IF Shadowed(c) THEN Buffer({"caches"})
  ELSE [caches |-> Use(RW \union {"tag"}, {"rw"})] @@ Buffer(SharedBuffers)
MCFrontEnd_uses(c) ==
  [frontendBuffer |-> Use(RW \union {"search"}, {"search", "wr"}),
   readBuffer |-> Use(RW, {"rd", "wr"}), writeBuffer |-> Use(RW, {"rd", "wr"})]

UsesOf(u, c) ==
  CASE u = "InstFetchU" -> InstFetchU_uses(c)
    [] u = "BranchPredictor" -> BranchPredictor_uses(c)
    [] u = "RENAMINGU" -> RENAMINGU_uses(c)
    [] u = "SchedulerU" -> SchedulerU_uses(c)
    [] u = "LoadStoreU" -> LoadStoreU_uses(c)
    [] u = "MemManU" -> MemManU_uses(c)
    [] u = "RegFU" -> RegFU_uses(c)
    [] u = "SharedCache" -> SharedCache_uses(c)
    [] u = "MCFrontEnd" -> MCFrontEnd_uses(c)
    [] OTHER -> <<>>

(* What of it the array r has not got: an energy without a port for it is  *)
(* zero, and a tag array that is not there a null pointer.                 *)
Lacking(r, use, is_tdp) ==
     {op \in use.ops :
        \/ op = "search" /\ "search" \notin r.ports
        \/ op = "read" /\ r.ports \intersect {"rw", "rd"} = {}
        \/ op = "write" /\ r.ports \intersect {"rw", "wr"} = {}
        \/ op = "tag" /\ ~r.tag}
  \union When(is_tdp, use.peak \ r.ports)
=============================================================================
