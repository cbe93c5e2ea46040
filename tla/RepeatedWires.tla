---------------------------- MODULE RepeatedWires ----------------------------
(***************************************************************************)
(* Repeated wires and the static members of Wire (cacti/wire.cc): the      *)
(* choice of the repeaters for a delay penalty, and the width the statics  *)
(* are computed for when the units of a chip, one after the other, build   *)
(* their wires (interconnect.cc, cacti/router.cc, cacti/crossbar.cc).      *)
(***************************************************************************)
EXTENDS Integers, Sequences

CONSTANTS
  WireLists,   \* the lists of sizes and spacings init_wire() may find
  Builds       \* the sequences of units that may be built

(* A repeated wire: delay, dynamic and leakage power per length.           *)
RepeatedWire == [delay : Nat, dyn : Nat, leak : Nat]

(* A unit of a chip that has wires: any array, a network with its router,  *)
(* or an interconnect with the delays of its wires of each width and the   *)
(* bound they should meet.                                                 *)
Widths == {1, 2, 4}
WiredUnit ==
  [kind : {"array", "router"}]
    \union [kind : {"interconnect"}, delay : [Widths -> Nat], bound : Nat \ {0},
            pipelinable : BOOLEAN, optimise : BOOLEAN]

(* init_wire() finds at least the delay-optimal wire.                      *)
ASSUME WiresAssumption ==
  /\ WireLists \subseteq Seq(RepeatedWire) \ {<<>>}
  /\ Builds \subseteq Seq(WiredUnit)

-----------------------------------------------------------------------------
(* update_fullswing(): one list for all four penalties, of which each pass *)
(* drops what is slower than its own allows: Left are the positions of     *)
(* what is left in the n-th.  The first wire is the delay-optimal one,     *)
(* global.                                                                 *)
Penalties_Ascending == <<5, 10, 20, 30>>
Penalties == <<30, 20, 10, 5>>

Allowed(w, global, penalty) == 100 * w.delay <= (100 + penalty) * global.delay

ncost(w, global) == w.dyn * global.leak + w.leak * global.dyn

Left(ws, n) ==
  {p \in DOMAIN ws : \A pass \in 1 .. n : Allowed(ws[p], ws[1], Penalties[pass])}

FirstLeast(ws, ps) ==
  CHOOSE p \in ps : \A q \in ps :
    ncost(ws[p], ws[1]) < ncost(ws[q], ws[1])
      \/ (ncost(ws[p], ws[1]) = ncost(ws[q], ws[1]) /\ p <= q)

update_fullswing(repeated_wire) ==
  [penalty \in {5, 10, 20, 30} |->
     LET pass == CHOOSE n \in 1 .. 4 : Penalties[n] = penalty
     IN repeated_wire[FirstLeast(repeated_wire, Left(repeated_wire, pass))]]

-----------------------------------------------------------------------------
(* The width of the wires the statics hold: 0 before the first Wire winit. *)
(* A unit leaves, with the width of the statics, what it has computed: the *)
(* width its wires were meant to have and that of the statics they read.   *)
init_interface_Kept(statics) == IF statics = 0 THEN 1 ELSE statics
init_interface(statics) == 1

BuildArray(statics) ==
  LET w == init_interface(statics)
  IN [statics |-> w, read |-> <<[meant |-> 1, width |-> w]>>]

(* NoC::NoC(): buffers with plain wires, then the crossbar with wide ones; *)
(* the arbiters ask for a capacitance only.  'Wire wreset();' declares a   *)
(* function and resets nothing.                                            *)
BuildRouter(statics) ==
  LET w == init_interface(statics)
  IN [statics |-> 4, read |-> <<[meant |-> 1, width |-> w], [meant |-> 4, width |-> 4]>>]

(* interconnect::interconnect(): wires are widened until the delay is      *)
(* within the latency asked for, or the throughput if it can be pipelined; *)
(* then a pipelinable one gets stages, and another one a warning.          *)
TooSlow(u, width) == u.optimise /\ u.delay[width] > u.bound
WidenUntil(u) == IF ~ TooSlow(u, 1) THEN 1 ELSE IF ~ TooSlow(u, 2) THEN 2 ELSE 4

BuildInterconnect(u, statics) ==
  LET start == init_interface(statics)
      width == WidenUntil(u)
      slow  == TooSlow(u, width)
  IN [statics |-> IF width = 1 THEN start ELSE width,
      read    |-> <<[meant |-> width, width |-> IF width = 1 THEN start ELSE width]>>,
      width   |-> width,
      latency_overflow |-> slow /\ ~ u.pipelinable,
      num_pipe_stages  |-> IF slow /\ u.pipelinable
                           THEN (u.delay[width] + u.bound - 1) \div u.bound ELSE 1]

BuildUnit(u, statics) ==
  CASE u.kind = "array"        -> BuildArray(statics)
    [] u.kind = "router"       -> BuildRouter(statics)
    [] u.kind = "interconnect" -> BuildInterconnect(u, statics)

BuildAll(units, first) ==
  LET built[n \in DOMAIN units] ==
        BuildUnit(units[n], IF n = 1 THEN first ELSE built[n - 1].statics)
  IN built

-----------------------------------------------------------------------------
(* Of the wires slower than the optimal one by no more than the penalty,   *)
(* the chosen one costs least - although all penalties share one list that *)
(* the passes shorten.                                                     *)
PenaltyKept ==
  \A ws \in WireLists : \A p \in {5, 10, 20, 30} :
    LET w == update_fullswing(ws)[p] IN
      /\ Allowed(w, ws[1], p)
      /\ \A n \in DOMAIN ws :
           Allowed(ws[n], ws[1], p) => ncost(w, ws[1]) <= ncost(ws[n], ws[1])

(* How an interconnect is optimised.                                       *)
Widened(u, built) ==
  LET met == {n \in Widths : u.delay[n] <= u.bound} IN
    /\ met # {} => built.width \in met /\ \A n \in met : built.width <= n
    /\ built.latency_overflow <=> met = {} /\ ~ u.pipelinable
    /\ u.pipelinable => built.num_pipe_stages * u.bound >= u.delay[built.width]

(* Every unit's wires are computed from statics of their own width, in     *)
(* whatever order the units are built, after widened ones, and in a        *)
(* process that has loaded its chip and initialised no wire; an            *)
(* interconnect is no wider than its bound needs, and says so when its     *)
(* widest wire is too slow.                                                *)
OwnWidth ==
  [first \in {0} \cup Widths |->
    \A units \in Builds :
      LET built == BuildAll(units, first) IN
      \A n \in DOMAIN units :
        /\ \A m \in DOMAIN built[n].read : built[n].read[m].meant = built[n].read[m].width
        /\ units[n].kind = "interconnect" /\ units[n].optimise => Widened(units[n], built[n])]
=============================================================================
