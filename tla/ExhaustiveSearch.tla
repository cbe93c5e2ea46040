-------------------------- MODULE ExhaustiveSearch --------------------------
(***************************************************************************)
(* What solve() in cacti/Ucache.cc promises of its search, as its comment  *)
(* lists it: first all valid tag organisations (for a cache), then all     *)
(* valid data organisations, each with the smallest value of every metric. *)
(* There are no threads here: each search is one step.                     *)
(***************************************************************************)
EXTENDS Integers

CONSTANTS
  IsCache,   \* is there a tag array to search?
  Universe,     \* the valid organisations of each array
  Metrics,
  CostOf,    \* the metrics of an organisation
  BigNum     \* the minimum over nothing

VARIABLES stage, found, minima

vars == <<stage, found, minima>>

Arrays == {"tag", "data"}

Least(S) == CHOOSE x \in S : \A y \in S : x <= y

(* The least value of every metric over a set of organisations.            *)
MinimaOf(S) == [m \in Metrics |-> Least({CostOf[m][p] : p \in S} \cup {BigNum})]

NoMin == [m \in Metrics |-> BigNum]

Init ==
  /\ stage = "tag"
  /\ found = [a \in Arrays |-> {}]
  /\ minima = [a \in Arrays |-> NoMin]

SearchTag ==
  /\ stage = "tag"
  /\ stage' = "data"
  /\ found' = [found EXCEPT !["tag"] = IF IsCache THEN Universe["tag"] ELSE {}]
  /\ UNCHANGED minima

SearchData ==
  /\ stage = "data"
  /\ stage' = "minima"
  /\ found' = [found EXCEPT !["data"] = Universe["data"]]
  /\ UNCHANGED minima

Minimise ==
  /\ stage = "minima"
  /\ stage' = "done"
  /\ minima' = [a \in Arrays |-> MinimaOf(found[a])]
  /\ UNCHANGED found

Next == SearchTag \/ SearchData \/ Minimise

Spec == Init /\ [][Next]_vars

=============================================================================
