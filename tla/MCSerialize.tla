----------------------------- MODULE MCSerialize -----------------------------
(* Every graph of a Processor and two objects with two pointers each, to   *)
(* each other, to themselves, into g_tp or null.                           *)
EXTENDS Serialize

CONSTANTS o1, o2
MCObjects == {o1, o2}
=============================================================================
