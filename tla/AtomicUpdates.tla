--------------------------- MODULE AtomicUpdates ---------------------------
(***************************************************************************)
(* What a caller of updateBlacklist may count on                           *)
(* (libs/wui-auth-badge/backend/badgeBlacklist.ts): its change is applied  *)
(* to the stored value at one instant between the call and the answer, in  *)
(* the order of the calls; one that failed left no trace.                  *)
(***************************************************************************)
EXTENDS Sequences

CONSTANTS
  Job,     \* the calls
  Value,   \* the stored values
  Empty,   \* the value of an absent DP
  Change   \* Change[j][v]: what the change of call j makes of v

VARIABLES
  value,    \* the stored value
  pending,  \* the calls not settled, in order
  outcome   \* each call's

vars == <<value, pending, outcome>>

Init ==
  /\ value = Empty
  /\ pending = <<>>
  /\ outcome = [j \in Job |-> "notCalled"]

Call(j) ==
  /\ outcome[j] = "notCalled"
  /\ outcome' = [outcome EXCEPT ![j] = "pending"]
  /\ pending' = Append(pending, j)
  /\ UNCHANGED value

Settle(result) ==
  /\ pending # <<>>
  /\ pending' = Tail(pending)
  /\ outcome' = [outcome EXCEPT ![Head(pending)] = result]

Apply == Settle("done") /\ value' = Change[Head(pending)][value]

Fail == Settle("failed") /\ UNCHANGED value

\* A restart of the webserver: the calls not settled are never answered.
Restart ==
  /\ pending' = <<>>
  /\ outcome' = [j \in Job |-> IF outcome[j] = "pending" THEN "lost" ELSE outcome[j]]
  /\ UNCHANGED value

Next ==
  \/ \E j \in Job : Call(j)
  \/ Apply
  \/ Fail
  \/ Restart

Spec == Init /\ [][Next]_vars
=============================================================================
