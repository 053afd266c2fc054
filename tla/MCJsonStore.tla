---------------------------- MODULE MCJsonStore ----------------------------
EXTENDS JsonStore
CONSTANTS v1

(* The demo list holds v1 for every entity. *)
MCDemo == [i \in Id |-> v1]
=============================================================================
