------------------------------- MODULE MCChip -------------------------------
(***************************************************************************)
(* Files of chips with up to two units of a kind, of at most two kinds     *)
(* besides the cores and controllers, whose components are those the       *)
(* numbers ask for, or all of them but one, or with one of them of another *)
(* name, or none at all.                                                   *)
(***************************************************************************)
EXTENDS Chip

Numbers(g) ==
  CASE g = "core" -> {<<0, FALSE>>, <<1, TRUE>>, <<2, TRUE>>, <<2, FALSE>>}
    [] g = "L1Directory" -> {<<0, FALSE>>, <<1, TRUE>>}
    [] g = "L2Directory" -> {<<0, TRUE>>, <<1, FALSE>>, <<0, FALSE>>}
    [] g = "L2" -> {<<0, FALSE>>, <<1, TRUE>>, <<2, FALSE>>}
    [] g = "L3" -> {<<0, FALSE>>, <<2, FALSE>>}
    [] g = "NoC" -> {<<0, FALSE>>, <<1, TRUE>>, <<2, FALSE>>}

SomeGroups == {"core"} \union {Shared[k] : k \in DOMAIN Shared}
None == <<0, FALSE>>
Asked ==
  {n \in [SomeGroups -> (0..2) \X BOOLEAN] :
     /\ \A g \in SomeGroups : n[g] \in Numbers(g)
     /\ Cardinality({g \in SomeGroups \ {"core"} : n[g] # None}) <= 2}

Amount(n, g) == Repeat(g, IF n[g][2] THEN 1 ELSE n[g][1])
Exact(n) ==
  Amount(n, "core") \o Amount(n, "L1Directory") \o Amount(n, "L2Directory")
  \o Amount(n, "L2") \o Amount(n, "L3") \o Amount(n, "NoC") \o Singles

Without(s, k) == [j \in 1..(Len(s) - 1) |-> IF j < k THEN s[j] ELSE s[j + 1]]
Variants(s) ==
  {<<>>} \union {Without(s, k) : k \in DOMAIN s}
  \union {[s EXCEPT ![k] = "router"] : k \in DOMAIN s}
  \union {[s EXCEPT ![k] = "L2Directory"] : k \in {j \in DOMAIN s : s[j] = "L2"}}

File(n, p, c) ==
  [num |-> [g \in SomeGroups |-> n[g][1]], homo |-> [g \in SomeGroups |-> n[g][2]],
   private |-> p, comps |-> c]
SmallFiles ==
  UNION {{File(n, FALSE, c) : c \in Variants(Exact(n))}
         \union {File(n, p, Exact(n)) : p \in BOOLEAN} : n \in Asked}
=============================================================================
