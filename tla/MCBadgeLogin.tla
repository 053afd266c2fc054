---------------------------- MODULE MCBadgeLogin ----------------------------
(* Values for model-checking BadgeLogin. *)
EXTENDS BadgeLogin, TLC

CONSTANTS l1, l2, l3, a, b

Requests == {l1, l2, l3}
Stations == {a, b}

Setting(enabled, after, minutes) ==
  [badgeLoginEnabled |-> enabled, lockAfterFailures |-> after, lockDurationMin |-> minutes]

\* Locked at once until unlocked by hand, or at the second refusal for a while;
\* never locked; the badge login off.
AllSettings ==
  {Setting(TRUE, 1, 0), Setting(TRUE, 2, 1), Setting(TRUE, 0, 1), Setting(FALSE, 1, 1)}

Symmetric == Permutations(Requests) \union Permutations(Stations)
=============================================================================
