-------------------------- MODULE MCBlacklistQueue --------------------------
(* Values for model-checking BlacklistQueue: the blacklist is one station's *)
(* count, capped at 3; three refusals and a login's reset.                  *)
EXTENDS BlacklistQueue, Integers

Jobs == {"refusal1", "refusal2", "refusal3", "login"}

Counts == 0..3

CountChange ==
  [j \in Jobs |-> [n \in Counts |-> IF j = "login" THEN 0 ELSE IF n < 3 THEN n + 1 ELSE n]]
=============================================================================
