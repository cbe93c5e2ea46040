------------------------------- MODULE Tables -------------------------------
(***************************************************************************)
(* Tables are functions written row by row.  The two operators are those   *)
(* of the standard module TLC, with definitions that a proof can expand:   *)
(* a table of one row, and the rows of f with those of g for what f has    *)
(* none for.                                                               *)
(***************************************************************************)
x :> y == [z \in {x} |-> y]

f @@ g ==
  [x \in DOMAIN f \union DOMAIN g |-> IF x \in DOMAIN f THEN f[x] ELSE g[x]]
=============================================================================
