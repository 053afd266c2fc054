----------------------------- MODULE LockLedger -----------------------------
(***************************************************************************)
(* What the blacklist of the badge login promises about the locks it keeps *)
(* (libs/wui-auth-badge/backend/badgeBlacklist.ts, the header): every lock *)
(* is recorded once, stays active until its deadline or until it is lifted *)
(* by hand, ends once and for all, and only an ended lock is ever purged   *)
(* from the history.  Nothing is said of counts, requests or restarts.     *)
(***************************************************************************)
EXTENDS Integers

CONSTANTS Station, NoDeadline, Duration

VARIABLES
  ledger,  \* the locks
  next,    \* the number of the next one: the list's order
  clock

vars == <<ledger, next, clock>>

Ends(lock, state) == [lock EXCEPT !.state = state]

Active == {lock \in ledger : lock.state = "active"}

Overdue == {lock \in Active : lock.lockedUntil # NoDeadline /\ lock.lockedUntil <= clock}

Init == ledger = {} /\ next = 1 /\ clock = 0

\* A new lock, decided at some time since the start; ended ones may be purged
\* to make room.
Issue(ip, at, duration) ==
  /\ \E purged \in SUBSET (ledger \ Active) :
       ledger' = (ledger \ purged) \union
         {[no |-> next, ip |-> ip, lockedAt |-> at,
           lockedUntil |-> IF duration > 0 THEN at + duration ELSE NoDeadline,
           state |-> "active"]}
  /\ next' = next + 1
  /\ UNCHANGED clock

\* Locks whose deadline has passed, and only those, run out.
RunOut(locks) ==
  /\ ledger' = (ledger \ locks) \union {Ends(lock, "expired") : lock \in locks}
  /\ UNCHANGED <<next, clock>>

LiftOne(lock) ==
  /\ ledger' = (ledger \ {lock}) \union {Ends(lock, "lifted")}
  /\ UNCHANGED <<next, clock>>

Tick == clock' = clock + 1 /\ UNCHANGED <<ledger, next>>

Next ==
  \/ \E ip \in Station, at \in 0..clock, duration \in Duration : Issue(ip, at, duration)
  \/ \E locks \in SUBSET Overdue : RunOut(locks)
  \/ \E lock \in Active : LiftOne(lock)
  \/ Tick

Spec == Init /\ [][Next]_vars
=============================================================================
