----------------------------- MODULE ArrayShape -----------------------------
(***************************************************************************)
(* The shape of an array: what InputParameter::error_checking() (cacti/    *)
(* io.cc) accepts and derives, and how DynamicParameter (cacti/            *)
(* parameter.cc) divides an array into subarrays and mats for one          *)
(* partition, with its early returns.                                      *)
(*                                                                         *)
(* Nspd, which may be a fraction, is counted in eighths.  The bit line     *)
(* voltage a DRAM cell leaves is a bound on the number of rows, ip.sense.  *)
(* Cell sizes, ports, data-in widths and check bits are left out.          *)
(***************************************************************************)
EXTENDS Integers, FiniteSets

CONSTANTS
  ArrayRequests,    \* the requests examined
  ArrayPartitions   \* the partitions tried for each of them

(* What a request says of the array, of which the kinds exclude each       *)
(* other, and a partition.  The numbers of subarrays are doubled from one; *)
(* one forced by the configuration file is taken to be one or even too.    *)
Positive == Nat \ {0}
ArrayRequest ==
  {q \in [cache_sz : Positive, line_sz : Positive, assoc : Nat, nbanks : Positive, out_w : Positive,
          access_mode : {"normal", "seq", "fast"}, is_cache : BOOLEAN, pure_cam : BOOLEAN,
          is_main_mem : BOOLEAN, dram : [{"tag", "data"} -> BOOLEAN], specific_tag : BOOLEAN,
          tag_w : Positive, sense : Nat, page_sz_bits : Nat, burst_len : Nat, int_prefetch_w : Nat] :
     ~ (q.is_cache /\ q.pure_cam)}

OneOrEven == {n \in Positive : n = 1 \/ n % 2 = 0}
ArrayPartition ==
  [Nspd8 : Positive, Ndwl : OneOrEven, Ndbl : OneOrEven, Ndcm : Positive,
   Ndsam1 : Positive, Ndsam2 : Positive]

ADDRESS_BITS   == 42
EXTRA_TAG_BITS == 5

MINSUBARRAYROWS == 16
MAXSUBARRAYROWS == 262144
MINSUBARRAYCOLS == 2
MAXSUBARRAYCOLS == 262144

CeilDiv(a, b) == (a + b - 1) \div b
Larger(a, b)  == IF a > b THEN a ELSE b

(* _log2() rounds down.                                                    *)
Log2(n) == CHOOSE k \in 0 .. 29 : 2 ^ k <= n /\ n < 2 ^ (k + 1)
is_pow2(n) == n > 0 /\ (n = 1 \/ Log2(n) # Log2(n - 1))

-----------------------------------------------------------------------------
(* error_checking(): the bytes of a bank, the ways of a set, what is       *)
(* refused and what is derived.                                            *)
BankSize(q) == q.cache_sz \div q.nbanks
Ways(q)     == IF q.assoc = 0 THEN BankSize(q) \div q.line_sz ELSE q.assoc

fully_assoc(q) == q.is_cache /\ q.assoc = 0
tag_assoc(q)   == Ways(q)
data_assoc(q)  == IF q.access_mode = "seq" \/ q.assoc = 0 THEN 1 ELSE Ways(q)

(* A subarray of a fully associative cache or of a CAM holds whole         *)
(* entries, tag and data side by side.                                     *)
ByContent(q) == fully_assoc(q) \/ q.pure_cam

Refused(q) ==
  \/ 8 * q.line_sz < q.out_w
  \/ ~ is_pow2(q.nbanks)
  \/ BankSize(q) < 64
  \/ q.pure_cam /\ q.assoc # 0
  \/ q.assoc = 0 /\ ~ q.pure_cam /\ ~ q.is_cache
  \/ ByContent(q) /\ (q.is_main_mem \/ q.dram["data"])
  \/ q.assoc > 1 /\ ~ is_pow2(q.assoc)
  \/ q.assoc # 0 /\ BankSize(q) \div (q.line_sz * Ways(q)) <= 1

-----------------------------------------------------------------------------
(* DynamicParameter, for the array "tag" or "data" of an accepted request  *)
(* and a partition p.                                                      *)
Associativity(ip, array) == IF array = "tag" THEN tag_assoc(ip) ELSE data_assoc(ip)

tagbits(ip) ==
  LET unit  == IF ip.pure_cam THEN 8 ELSE 4
      index == CASE ip.pure_cam    -> 0
                 [] fully_assoc(ip) -> Log2(ip.line_sz)
                 [] OTHER          -> Log2(ip.cache_sz) - Log2(2 * tag_assoc(ip) - 1) + Log2(ip.nbanks)
  IN unit * CeilDiv(IF ip.specific_tag THEN ip.tag_w ELSE ADDRESS_BITS + EXTRA_TAG_BITS - index,
                    unit)

(* No cache is so large that no bits are left for its tag, which the code  *)
(* computes unsigned.                                                      *)
ASSUME ShapeAssumption ==
  /\ ArrayRequests \subseteq ArrayRequest
  /\ ArrayPartitions \subseteq ArrayPartition
  /\ \A ip \in ArrayRequests : ~ Refused(ip) => tagbits(ip) \in Positive

Rows_CamTruncated(ip, array, p) ==
  CASE ip.pure_cam    -> (8 * ip.cache_sz) \div (ip.nbanks * tagbits(ip) * p.Ndbl)
    [] fully_assoc(ip) -> ip.cache_sz \div (ip.nbanks * ip.line_sz * p.Ndbl)
    [] OTHER          -> (8 * ip.cache_sz) \div (ip.nbanks * ip.line_sz
                              * Associativity(ip, array) * p.Ndbl * p.Nspd8)
Rows(ip, array, p) ==
  CASE ip.pure_cam    -> CeilDiv(8 * ip.cache_sz, ip.nbanks * tagbits(ip) * p.Ndbl)
    [] fully_assoc(ip) -> ip.cache_sz \div (ip.nbanks * ip.line_sz * p.Ndbl)
    [] OTHER          -> CeilDiv(8 * ip.cache_sz, ip.nbanks * ip.line_sz
                                   * Associativity(ip, array) * p.Ndbl * p.Nspd8)

Columns(ip, array, p) ==
  IF ByContent(ip) THEN tagbits(ip)
  ELSE CeilDiv((IF array = "tag" THEN tagbits(ip) ELSE 8 * ip.line_sz)
                 * Associativity(ip, array) * p.Nspd8, 8 * p.Ndwl)

(* A mat is two by two subarrays, or less.                                 *)
MatsAcross(ip, p) ==
  IF ~ ByContent(ip) THEN Larger(p.Ndwl \div 2, 1)
  ELSE IF p.Ndbl <= 2 THEN 1
  ELSE CHOOSE n \in 1 .. p.Ndbl : 4 * n * n <= p.Ndbl /\ p.Ndbl < 4 * (n + 1) * (n + 1)
MatsDown(ip, p) ==
  IF ~ ByContent(ip) THEN Larger(p.Ndbl \div 2, 1)
  ELSE IF p.Ndbl <= 2 THEN 1
  ELSE p.Ndbl \div (4 * MatsAcross(ip, p))

Mats(ip, p)       == MatsAcross(ip, p) * MatsDown(ip, p)
PerMat(ip, p)     == (p.Ndwl * p.Ndbl) \div Mats(ip, p)
BitlineMux(ip, array, p) == IF ByContent(ip) \/ ip.dram[array] THEN 1 ELSE p.Ndcm

(* The bits a mat delivers, those wanted of a subbank, the degree of sense *)
(* amplifier multiplexing that does not select a way, and the mats of a    *)
(* row that are activated for them.                                        *)
MatBits(ip, array, p) ==
  CASE fully_assoc(ip) -> 8 * ip.line_sz + tagbits(ip)
    [] ip.pure_cam    -> tagbits(ip)
    [] OTHER -> Larger((PerMat(ip, p) * Columns(ip, array, p))
                         \div (BitlineMux(ip, array, p) * p.Ndsam1 * p.Ndsam2), 1)

SubbankBits(ip, array) ==
  IF fully_assoc(ip) THEN 8 * ip.line_sz + tagbits(ip)
  ELSE IF ip.pure_cam THEN tagbits(ip)
  ELSE IF array = "tag" THEN tagbits(ip) * tag_assoc(ip)
  ELSE IF ip.is_main_mem THEN ip.int_prefetch_w * ip.out_w
  ELSE ip.out_w * (IF ip.access_mode = "fast" THEN data_assoc(ip) ELSE 1)

WordMux(ip, array, p) ==
  IF ByContent(ip) THEN 1
  ELSE IF array = "data" /\ ~ ip.is_main_mem /\ ip.access_mode # "fast"
       THEN p.Ndsam1 \div data_assoc(ip)
  ELSE p.Ndsam1

ActiveMats(ip, array, p) ==
  IF ByContent(ip) THEN 1 ELSE SubbankBits(ip, array) \div MatBits(ip, array, p)

(* Of a tag mat only the results of the comparison come out.               *)
OutBits(ip, array, p) ==
  IF array = "tag" /\ ~ ByContent(ip) THEN tag_assoc(ip) \div ActiveMats(ip, array, p)
  ELSE MatBits(ip, array, p)

AddressBits(ip, array, p) ==
  LET row  == Log2(Rows(ip, array, p)) + IF ByContent(ip) THEN Log2(PerMat(ip, p)) ELSE 0
      muxes == Log2(BitlineMux(ip, array, p)) + Log2(WordMux(ip, array, p)) + Log2(p.Ndsam2)
  IN IF ip.dram[array] /\ ip.is_main_mem THEN Larger(row, muxes) ELSE row + muxes

SubbankAddressBits(ip, array, p) == Log2(Mats(ip, p) \div ActiveMats(ip, array, p))

(* The early returns, in their order.                                      *)
is_valid_AnyMat(ip, array, p) ==
  /\ ByContent(ip) =>
       /\ p.Ndwl = 1 /\ p.Ndcm = 1 /\ p.Nspd8 = 8 /\ p.Ndsam1 = 1 /\ p.Ndsam2 = 1
       /\ p.Ndbl >= 2
  /\ ip.dram[array] /\ array = "data" => p.Ndcm = 1
  /\ Rows(ip, array, p) \in (IF ByContent(ip) THEN 1 ELSE MINSUBARRAYROWS) .. MAXSUBARRAYROWS
  /\ Columns(ip, array, p) \in MINSUBARRAYCOLS .. MAXSUBARRAYCOLS
  /\ ~ ByContent(ip) /\ array = "data" => WordMux(ip, array, p) >= 1
  /\ ActiveMats(ip, array, p) \in 1 .. MatsAcross(ip, p)

is_valid(ip, array, p) ==
  /\ ByContent(ip) =>
       /\ p.Ndwl = 1 /\ p.Ndcm = 1 /\ p.Nspd8 = 8 /\ p.Ndsam1 = 1 /\ p.Ndsam2 = 1
       /\ p.Ndbl >= 2
  /\ ip.dram[array] /\ array = "data" => p.Ndcm = 1
  /\ Rows(ip, array, p) \in (IF ByContent(ip) THEN 1 ELSE MINSUBARRAYROWS) .. MAXSUBARRAYROWS
  /\ Columns(ip, array, p) \in MINSUBARRAYCOLS .. MAXSUBARRAYCOLS
  /\ fully_assoc(ip) => 8 * ip.line_sz \in MINSUBARRAYCOLS .. MAXSUBARRAYCOLS
  /\ ip.dram[array] => Rows(ip, array, p) <= ip.sense
  /\ ~ ByContent(ip) =>
       /\ MatBits(ip, array, p) >= PerMat(ip, p)
       /\ IF array = "tag" THEN MatBits(ip, array, p) >= tagbits(ip)
                           ELSE WordMux(ip, array, p) >= 1
  /\ ActiveMats(ip, array, p) \in 1 .. MatsAcross(ip, p)
  /\ ip.is_main_mem =>
       LET page == ActiveMats(ip, array, p) * OutBits(ip, array, p) * p.Ndsam1 * p.Ndsam2 IN
         /\ ~ ip.is_cache => page = ip.page_sz_bits
         /\ array = "data" => page >= ip.out_w * ip.burst_len * data_assoc(ip)

-----------------------------------------------------------------------------
(* What a valid shape has to be, for every request accepted and every      *)
(* partition of its arrays.                                                *)
ArraysOf(ip) == IF ip.is_cache /\ ~ ByContent(ip) THEN {"tag", "data"} ELSE {"data"}

RoundSizes(ip) == \A n \in {ip.cache_sz, ip.line_sz, ip.out_w} : is_pow2(n)

(* The subarrays hold all bits.  A fully associative cache's rows are      *)
(* rounded down: entries that do not fill a row of subarrays are lost.     *)
Holds(ip, array, p) ==
  LET rows == Rows(ip, array, p) * p.Ndbl * ip.nbanks
      bits == rows * Columns(ip, array, p) * p.Ndwl
  IN CASE fully_assoc(ip) -> ip.cache_sz % (ip.nbanks * ip.line_sz * p.Ndbl) = 0
                               => rows * ip.line_sz = ip.cache_sz
       [] array = "tag"   -> bits >= (ip.cache_sz \div ip.line_sz) * tagbits(ip)
       [] OTHER           -> bits >= 8 * ip.cache_sz

(* The mats hold all subarrays, four at most.  Those of an array addressed *)
(* by content are a square and a quotient rounded down: 32 mats become     *)
(* five by six, and 128 eleven by eleven.                                  *)
Placed(ip, p) ==
  ByContent(ip) \/ (Mats(ip, p) * PerMat(ip, p) = p.Ndwl * p.Ndbl /\ PerMat(ip, p) <= 4)
MatsHold(ip, p) ==
  ByContent(ip) => p.Ndbl \in {128, 512} \/ 4 * Mats(ip, p) >= p.Ndbl

(* The active mats deliver the word, or one result for each way.  A width  *)
(* that is no multiple of a mat's is rounded down.                         *)
WordOut(ip, array, p) ==
  RoundSizes(ip) =>
    ActiveMats(ip, array, p) * OutBits(ip, array, p) =
      IF array = "tag" THEN tag_assoc(ip) ELSE SubbankBits(ip, array)

(* The address bits tell all words of a bank apart, and no more.  They are *)
(* logarithms rounded down, of rows that may be no power of two.           *)
Addressed(ip, array, p) ==
  RoundSizes(ip) /\ ~ ip.pure_cam /\ ~ ip.is_main_mem /\ ~ (ByContent(ip) /\ p.Ndbl \in {128, 512}) =>
    2 ^ (AddressBits(ip, array, p) + SubbankAddressBits(ip, array, p))
      * (CASE ByContent(ip)  -> 8 * ip.line_sz
           [] array = "tag"  -> 8 * tag_assoc(ip) * ip.line_sz
           [] OTHER          -> data_assoc(ip) * ip.out_w)
    = 8 * BankSize(ip)

(* The tag tells the lines of a set apart, and keeps its state bits.  The  *)
(* bits that select a bank are subtracted twice.                           *)
TagIdentifies(ip) ==
  ip.specific_tag \/ ip.nbanks > 1 \/
    tagbits(ip) + (CASE ip.pure_cam     -> 0
                     [] fully_assoc(ip) -> Log2(ip.line_sz)
                     [] OTHER           -> Log2(ip.cache_sz \div tag_assoc(ip)))
      >= ADDRESS_BITS + EXTRA_TAG_BITS

(* Every partition DynamicParameter declares valid has room for what is    *)
(* asked for.                                                              *)
EnoughCells ==
  [array \in {"tag", "data"} |->
    \A ip \in ArrayRequests : ~ Refused(ip) /\ array \in ArraysOf(ip) =>
      \A p \in {x \in ArrayPartitions : is_valid(ip, array, x)} :
        Holds(ip, array, p) /\ Placed(ip, p)]

(* It has mats for all of it, delivers the word and can address it; and a  *)
(* tag is wide enough.                                                     *)
WholeArray ==
  [array \in {"tag", "data"} |->
    \A ip \in ArrayRequests : ~ Refused(ip) /\ array \in ArraysOf(ip) =>
      /\ TagIdentifies(ip)
      /\ \A p \in {x \in ArrayPartitions : is_valid(ip, array, x)} :
           /\ MatsHold(ip, p)
           /\ WordOut(ip, array, p)
           /\ Addressed(ip, array, p)]

=============================================================================
