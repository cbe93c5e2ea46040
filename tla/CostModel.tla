----------------------------- MODULE CostModel ------------------------------
(***************************************************************************)
(* How CACTI compares organisations: the deviation check, the cost         *)
(* functions and the metrics of a tag array and a data array put together. *)
(* A figure of merit is a natural number; a quotient v / min is compared   *)
(* after multiplication with every minimum, which is positive.             *)
(***************************************************************************)
EXTENDS Integers, FiniteSets

CONSTANTS
  IsCache,     \* !(pure_ram || pure_cam || fully_assoc)
  AccessMode   \* "fast", "seq" or "normal": fast_access and is_seq_acc

(* The figures of merit of an array or a cache.                            *)
Metrics == {"delay", "dyn", "leak", "area", "cyc"}

(* A mem_array: access time, its three parts, energy, size and cycle time. *)
MemArray == [delay : Nat, mux : Nat, before : Nat, after : Nat, dyn : Nat,
             leak : Nat, height : Nat, width : Nat, cyc : Nat]

Larger(a, b) == IF a > b THEN a ELSE b

ArrayFigures(u) ==
  [delay |-> u.delay, dyn |-> u.dyn, leak |-> u.leak,
   area |-> u.height * u.width, cyc |-> u.cyc]

(* uca_org_t::find_delay(), find_energy(), find_area() and find_cyc() of a *)
(* tag and a data array; without a tag array they are the data array's.    *)
CacheDelay(t, u) ==
  CASE AccessMode = "fast"   -> Larger(t.delay, u.delay)
    [] AccessMode = "seq"    -> t.delay + u.delay
    [] AccessMode = "normal" -> Larger(t.delay + u.mux, u.before) + u.after

CacheFigures(t, u) ==
  IF ~ IsCache THEN ArrayFigures(u)
  ELSE [delay |-> CacheDelay(t, u),
        dyn   |-> t.dyn + u.dyn,
        leak  |-> t.leak + u.leak,
        area  |-> Larger(t.height, u.height) * (t.width + u.width),
        cyc   |-> Larger(t.cyc, u.cyc)]

(* The minima min_values_t holds after taking in every member of F.        *)
LeastOf(S) == CHOOSE x \in S : \A y \in S : x <= y
LeastFigures(F) == [m \in Metrics |-> LeastOf({f[m] : f \in F})]

(* check_uca_org() and check_mem_org(): no figure deviates from its        *)
(* minimum by more than dev percent.                                       *)
WithinDev(f, least, dev) ==
  \A m \in Metrics : (f[m] - least[m]) * 100 <= dev[m] * least[m]

(* The weighted cost, each term over the product of the other minima, and  *)
(* the two energy-delay products.                                          *)
WeightedCost(f, least, wt) ==
  LET Term(m, a, b, c, d) ==
        wt[m] * f[m] * (least[a] * least[b] * least[c] * least[d])
  IN  Term("delay", "dyn", "leak", "area", "cyc")
        + Term("dyn", "delay", "leak", "area", "cyc")
        + Term("leak", "delay", "dyn", "area", "cyc")
        + Term("area", "delay", "dyn", "leak", "cyc")
        + Term("cyc", "delay", "dyn", "leak", "area")

EnergyDelay(f, ed) ==
  IF ed = 1 THEN f.delay * f.dyn ELSE f.delay * f.delay * f.dyn

(* filter_data_arr() drops an array more than half above both minima.      *)
Dominated(f, least) ==
  /\ 2 * (f.delay - least.delay) > least.delay
  /\ 2 * (f.dyn - least.dyn) > least.dyn

=============================================================================
