-------------------------------- MODULE Nuca --------------------------------
(***************************************************************************)
(* Nuca::sim_nuca() of cacti/nuca.cc: for every number of banks, wire type *)
(* and router the grid of banks with the least average latency, and from   *)
(* all of them the organisation find_optimal_nuca() picks.  A wire type    *)
(* and a router count as one choice of hop latencies; powers and areas are *)
(* positive figures of an organisation.                                    *)
(***************************************************************************)
EXTENDS Integers, Sequences

CONSTANTS
  NucaCaches,   \* the caches divided into banks
  NucaRuns,     \* sequences of configurations whose grids are searched
  NucaPicks     \* lists of organisations, with the weights to pick by

Cost == INSTANCE CostModel WITH IsCache <- FALSE, AccessMode <- "normal"

-----------------------------------------------------------------------------
(* A cache: cache_sz in units of 64 KB, assoc and nuca_bank_count.  The    *)
(* iterations halve the bank, down to MIN_BANKSIZE, or look at one forced  *)
(* number of banks only.                                                   *)
NucaCache == [cache_sz : Nat \ {0}, assoc : Nat \ {0}, nuca_bank_count : Nat]

PowerOfTwo(n) == LET pow[m \in 0 .. n] == IF m = 0 THEN 1 ELSE 2 * pow[m - 1] IN pow[n]

logtwo(n) == CHOOSE m \in 0 .. n : PowerOfTwo(m) <= n /\ n < PowerOfTwo(m + 1)

MIN_BANKSIZE(q) == IF q.assoc > 2 THEN q.assoc \div 2 ELSE 1

Iterations_Inclusive(q) ==
  IF q.nuca_bank_count # 0 THEN {logtwo(q.nuca_bank_count)}
  ELSE 0 .. logtwo(q.cache_sz \div MIN_BANKSIZE(q)) + 1
Iterations(q) ==
  IF q.nuca_bank_count # 0 THEN {logtwo(q.nuca_bank_count)}
  ELSE 0 .. logtwo(q.cache_sz \div MIN_BANKSIZE(q)) - 1

(* What cache_sz has been divided by in an iteration.                      *)
Divisor(q, it) == IF q.nuca_bank_count # 0 THEN q.nuca_bank_count ELSE PowerOfTwo(it)

BankSize(q, it) == q.cache_sz \div Divisor(q, it)

BankCount(q, it) == q.cache_sz \div BankSize(q, it)

(* The row of the contention table, which has seven.                       *)
ContentionRow(it) == IF it < 7 THEN it ELSE 7

-----------------------------------------------------------------------------
(* A configuration: bank_count, the latencies ver and hor of a hop, the    *)
(* delay of a router and the cycles of a bank.  The search goes through    *)
(* the divisors of bank_count and keeps what is better than the best so    *)
(* far of the same configuration.  A latency is the total over all banks,  *)
(* which are numbered along the rows.                                      *)
Configuration ==
  [bank_count : Nat \ {0}, ver : Nat, hor : Nat, delay : Nat, cycles : Nat]

Hop(conf, row, column) ==
  2 * (row * conf.ver + column * conf.hor) + 2 * (conf.delay * (row + 1 + column))

AccessLatency(conf, r, c) ==
  LET tot_lat[n \in 0 .. r * c] ==
        IF n = 0 THEN conf.cycles * conf.bank_count
        ELSE tot_lat[n - 1] + Hop(conf, (n - 1) \div c, (n - 1) % c)
  IN tot_lat[r * c]

(* The best so far: the average is acclat over banks.  BIGNUM stands for   *)
(* the 1e30 of const.h, more than any latency.                             *)
BIGNUM == 1000000
NoneYet == [acclat |-> BIGNUM, banks |-> 1, rows |-> 0, columns |-> 0]

Better(conf, c, opt) ==
  LET r == conf.bank_count \div c
      curr_acclat == AccessLatency(conf, r, c)
  IN IF curr_acclat * opt.banks < opt.acclat * conf.bank_count
     THEN [acclat |-> curr_acclat, banks |-> conf.bank_count, rows |-> r, columns |-> c]
     ELSE opt

SearchGrid(conf, opt) ==
  LET best[c \in 0 .. conf.bank_count] ==
        IF c = 0 THEN opt
        ELSE IF conf.bank_count % c # 0 THEN best[c - 1]
        ELSE Better(conf, c, best[c - 1])
  IN best[conf.bank_count]

(* Every configuration starts from what the one before it left; opt_acclat *)
(* alone is set back.                                                      *)
Reset_Kept(opt) == opt
Reset(opt) == [opt EXCEPT !.acclat = BIGNUM, !.banks = 1]

SearchGrids(confs) ==
  LET found[n \in 0 .. Len(confs)] ==
        IF n = 0 THEN NoneYet ELSE SearchGrid(confs[n], Reset(found[n - 1]))
  IN [n \in 1 .. Len(confs) |-> found[n]]

-----------------------------------------------------------------------------
(* find_optimal_nuca(): p.list holds the figures of the organisations,     *)
(* p.ed what is weighed, p.dev and p.wt the deviations allowed and the     *)
(* weights.                                                                *)
Organisation == [Cost!Metrics -> Nat]
Pick ==
  [list : Seq(Organisation), ed : 0 .. 2, dev : Organisation, wt : Organisation]

Least(p)   == Cost!LeastFigures({p.list[i] : i \in DOMAIN p.list})
check_nuca_org(p, f) == Cost!WithinDev(f, Least(p), p.dev)

NucaCost(p, f) ==
  IF p.ed = 0 THEN Cost!WeightedCost(f, Least(p), p.wt) ELSE Cost!EnergyDelay(f, p.ed)

(* A position in p.list, 0 for the null pointer.                           *)
Cheaper(p, i, res) ==
  IF res = 0 \/ NucaCost(p, p.list[i]) < NucaCost(p, p.list[res]) THEN i ELSE res

(* A turn of the loop.  Positions are those in p.list, of which erasing    *)
(* leaves the others; begin is the first that is left.  An inadmissible    *)
(* organisation is erased: the iterator is then at the next, and is        *)
(* stepped back unless that is the first, before the loop's increment.     *)
Turn_Unchecked(p, s) ==
  [s EXCEPT !.niter = @ + 1, !.res = Cheaper(p, s.niter, @)]
Turn(p, s) ==
  IF p.ed # 0 \/ check_nuca_org(p, p.list[s.niter])
  THEN [s EXCEPT !.niter = @ + 1, !.res = Cheaper(p, s.niter, @)]
  ELSE IF s.niter = s.begin THEN [s EXCEPT !.begin = @ + 1, !.niter = @ + 2]
  ELSE [s EXCEPT !.niter = @ + 1]

find_optimal_nuca(p) ==
  LET state[n \in 0 .. Len(p.list)] ==
        IF n = 0 THEN [begin |-> 1, niter |-> 1, res |-> 0]
        ELSE LET s == state[n - 1] IN IF s.niter > Len(p.list) THEN s ELSE Turn(p, s)
  IN state[Len(p.list)].res

-----------------------------------------------------------------------------
(* What the loops are run on.  No average latency reaches BIGNUM, from     *)
(* which the best starts.                                                  *)
ASSUME NucaAssumption ==
  /\ NucaCaches \subseteq NucaCache
  /\ \A q \in NucaCaches : q.nuca_bank_count <= q.cache_sz
  /\ NucaRuns \subseteq Seq(Configuration)
  /\ \A confs \in NucaRuns : \A i \in DOMAIN confs : \A c \in 1 .. confs[i].bank_count :
       confs[i].bank_count % c = 0 =>
         AccessLatency(confs[i], confs[i].bank_count \div c, c) < BIGNUM * confs[i].bank_count
  /\ NucaPicks \subseteq Pick

(* What the banks of an iteration hold together.                           *)
Held(q, it) == BankCount(q, it) * BankSize(q, it)

(* The banks simulated make up the whole cache, but for less than a bank   *)
(* where it cannot be divided evenly, and are no smaller than twice their  *)
(* lower bound, unless their number is forced.  A cache of less than two   *)
(* such banks is not simulated at all, one of less than one trips the      *)
(* assertion in logtwo(), and one of 256 of them or more, or of 128 forced *)
(* banks or more, reads past the contention table.                         *)
BanksMakeUp(q, it) ==
  /\ Held(q, it) <= q.cache_sz /\ q.cache_sz < Held(q, it) + BankSize(q, it)
  /\ q.cache_sz % Divisor(q, it) = 0 =>
       Held(q, it) = q.cache_sz /\ BankCount(q, it) = Divisor(q, it)
  /\ q.nuca_bank_count = 0 => BankSize(q, it) >= 2 * MIN_BANKSIZE(q)
  /\ (IF q.nuca_bank_count = 0 THEN q.cache_sz < 256 * MIN_BANKSIZE(q)
       ELSE q.nuca_bank_count < 128) => ContentionRow(it) \in 0 .. 6

BanksRight ==
  \A q \in NucaCaches : q.cache_sz >= MIN_BANKSIZE(q) =>
    /\ q.cache_sz >= 2 * MIN_BANKSIZE(q) => Iterations(q) # {}
    /\ \A it \in Iterations(q) : BanksMakeUp(q, it)

(* Every organisation's grid has as many places as there are banks, and    *)
(* the least average latency of all such grids, whatever configurations    *)
(* were looked at before.                                                  *)
GridsRight ==
  \A confs \in NucaRuns : LET found == SearchGrids(confs) IN
    \A i \in DOMAIN confs :
      /\ found[i].rows * found[i].columns = confs[i].bank_count
      /\ \A c \in 1 .. confs[i].bank_count : confs[i].bank_count % c = 0 =>
           AccessLatency(confs[i], found[i].rows, found[i].columns)
             <= AccessLatency(confs[i], confs[i].bank_count \div c, c)

(* The organisation picked costs least of the admissible ones, of which    *)
(* the second is not looked at when the first is not admissible; none is   *)
(* picked only if there is none, which print_nuca() then dereferences.     *)
PickRight ==
  \A p \in NucaPicks :
    LET Admissible(i) == p.ed # 0 \/ check_nuca_org(p, p.list[i])
        examined == {i \in DOMAIN p.list : Admissible(i) /\ (i = 2 => Admissible(1))}
        res == find_optimal_nuca(p)
    IN IF examined = {} THEN res = 0
       ELSE /\ res \in examined
            /\ \A j \in examined : NucaCost(p, p.list[res]) <= NucaCost(p, p.list[j])

=============================================================================
