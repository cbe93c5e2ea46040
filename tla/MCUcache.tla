------------------------------ MODULE MCUcache ------------------------------
(* Instances of the threaded partition search for TLC, and the arrays and  *)
(* partitions whose shapes are examined.                                   *)
EXTENDS Ucache

MCArrays == {"tag", "data"}

(* The data array starts at a larger Nspd than the tag array.              *)
MCNspdMin == [a \in MCArrays |-> IF a = "tag" THEN 1 ELSE 2]

MCShapes(numIter, numDsam, maxSpd) ==
  [nspd : 1 .. maxSpd, iter : 0 .. numIter - 1, dsam : 1 .. numDsam]

(* About two thirds of the shapes are valid, never the same for the two    *)
(* arrays, and the first one a worker looks at may be invalid.             *)
MCValid == [a \in MCArrays |->
  {h \in MCShapes(4, 2, 2) :
     (h.nspd + h.iter + 2 * h.dsam + (IF a = "tag" THEN 1 ELSE 0)) % 3 # 0}]

MCMetrics == {"delay", "dyn"}

(* The two metrics are least at opposite ends of the space.                *)
MCCost == [m \in MCMetrics |-> [h \in MCShapes(4, 2, 2) |->
  IF m = "delay" THEN 1 + 5 * h.iter + 2 * h.nspd + h.dsam
                 ELSE 40 - 6 * h.iter - 3 * h.nspd + h.dsam]]

(* A forced configuration that leaves the two Ndsam to the search.         *)
ForceRow == [on |-> TRUE, nspd |-> 2, iter |-> 1, dsam |-> 0]

-----------------------------------------------------------------------------
(* All numbers of subarrays up to eight by eight, and for arrays that are  *)
(* addressed by content, which have one column of subarrays, up to 512.    *)
Powers(lo, hi) == {2 ^ e : e \in lo .. hi}

Partitions(spd, wl, bl, cm, sam1, sam2) ==
  [Nspd8 : spd, Ndwl : wl, Ndbl : bl, Ndcm : cm, Ndsam1 : sam1, Ndsam2 : sam2]

MCArrayPartitions ==
  Partitions({4, 8, 16}, Powers(0, 3), Powers(0, 3), {1, 2}, Powers(0, 2), {1, 2})
    \cup Partitions({8}, {1}, Powers(1, 9), {1}, {1}, {1})

(* Sizes that are powers of two and sizes that are not.                    *)
Requests(cache, line, assoc, banks, width, modes, isCache, cam, main, dram, specific) ==
  [cache_sz : cache, line_sz : line, assoc : assoc, nbanks : banks, out_w : width,
   access_mode : modes, is_cache : isCache, pure_cam : cam, is_main_mem : main,
   dram : {[a \in MCArrays |-> a = "data" /\ d] : d \in dram},
   specific_tag : specific, tag_w : {36}, sense : {64}, page_sz_bits : {512},
   burst_len : {2}, int_prefetch_w : {2}]

MCArrayRequests ==
  Requests({1024, 1536, 16384}, {16, 64}, {0, 2, 4}, {1, 2}, {64, 96, 128},
           {"normal", "seq", "fast"}, {TRUE}, {FALSE}, {FALSE}, {FALSE}, {FALSE})
    \cup Requests({2048}, {16}, {0, 1, 2}, {1}, {64}, {"normal"}, {TRUE}, {FALSE}, {FALSE}, {FALSE}, {TRUE})
    \cup Requests({2048, 3072}, {8, 16}, {1}, {1, 2}, {32, 48, 64}, {"normal"},
                  {FALSE}, {FALSE}, BOOLEAN, BOOLEAN, {FALSE})
    \cup Requests({768, 1024, 1536}, {8}, {0}, {1}, {64}, {"normal"},
                  {FALSE}, {TRUE}, {FALSE}, {FALSE}, BOOLEAN)

=============================================================================
