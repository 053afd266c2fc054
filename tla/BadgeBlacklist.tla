--------------------------- MODULE BadgeBlacklist ---------------------------
(***************************************************************************)
(* The blacklist of the badge login, and the pure functions over it        *)
(* (libs/wui-auth-badge/backend/badgeBlacklist.ts).                        *)
(*                                                                         *)
(* The source keeps two JSON lists.  Here                                  *)
(*   counters  one count per station, NoCount where the list has no entry; *)
(*   records   the set of locks, current and past.  The list's order is    *)
(*             the field no: the head of the list has the largest one;     *)
(*   next      the number the next lock gets.                              *)
(* Who lifted a lock, why, and the item a station sent are left out.       *)
(***************************************************************************)
EXTENDS Integers, FiniteSets

CONSTANTS
  Station,       \* the addresses badges are presented from
  MaxCounters,   \* MAX_COUNTERS: the stations counted at most
  MaxRecords,    \* MAX_RECORDS: the history's bound
  NoDeadline     \* lockedUntil = null: locked until unlocked by hand

ASSUME BlacklistAssumption ==
  /\ MaxCounters \in Nat \ {0}
  /\ MaxRecords \in Nat \ {0}
  /\ NoDeadline \notin Nat

Count == [failures : Nat, lastAt : Nat]

NoCount == [failures |-> 0, lastAt |-> 0]

LockState == {"active", "expired", "lifted"}

Record == [no : Nat, ip : Station, lockedAt : Nat,
           lockedUntil : Nat \union {NoDeadline}, state : LockState]

Blacklist == [counters : [Station -> Count], records : SUBSET Record, next : Nat]

EmptyBlacklist ==
  [counters |-> [ip \in Station |-> NoCount], records |-> {}, next |-> 1]

-----------------------------------------------------------------------------
(* Reading: isActive and activeLock. *)

IsActive(record, now) ==
  /\ record.state = "active"
  /\ record.lockedUntil = NoDeadline \/ record.lockedUntil > now

ActiveLocks(blacklist, ip, now) ==
  {record \in blacklist.records : record.ip = ip /\ IsActive(record, now)}

\* Mutant: a lock without a deadline compared as one (null > now).
Locked_NullDeadline(blacklist, ip, now) ==
  \E record \in ActiveLocks(blacklist, ip, now) : record.lockedUntil # NoDeadline

Locked(blacklist, ip, now) == ActiveLocks(blacklist, ip, now) # {}

\* The lock activeLock finds: the first of the list.
First(records) == {record \in records : \A other \in records : other.no <= record.no}

-----------------------------------------------------------------------------
(* expire: the active records whose deadline has passed, turned "expired". *)

Expire(blacklist, now) ==
  LET Ended(record) == record.state = "active" /\ ~IsActive(record, now)
  IN  [blacklist EXCEPT !.records =
         {record \in @ : ~Ended(record)}
           \union {[record EXCEPT !.state = "expired"] : record \in {r \in @ : Ended(r)}}]

-----------------------------------------------------------------------------
(* recordFailure, below the threshold: one more refusal of the station.    *)
(* Beyond MaxCounters the last of the list sorted by lastAt is dropped: a  *)
(* station counted longest ago — the new count itself when it is not newer *)
(* than another one.                                                       *)

Counted(counters) == {ip \in Station : counters[ip].failures > 0}

Oldest(counters) ==
  {ip \in Counted(counters) :
     \A other \in Counted(counters) : counters[ip].lastAt <= counters[other].lastAt}

Dropped(counters, new) == IF new \in Oldest(counters) THEN {new} ELSE Oldest(counters)

CountFailure(blacklist, ip, now) ==
  LET counters == [blacklist.counters EXCEPT ![ip] =
                     [failures |-> @.failures + 1, lastAt |-> now]]
  IN  IF Cardinality(Counted(counters)) <= MaxCounters
        THEN {[blacklist EXCEPT !.counters = counters]}
        ELSE {[blacklist EXCEPT !.counters = [counters EXCEPT ![lost] = NoCount]] :
                lost \in Dropped(counters, ip)}

(* recordFailure, at the threshold: the station's count starts again from  *)
(* 0 and a new lock heads the records, bounded: the oldest ended ones go.  *)

\* Mutant: the oldest records go, an active one too.
Bounded_Any(records) ==
  {record \in records : Cardinality({r \in records : r.no > record.no}) < MaxRecords}

Bounded(records) ==
  LET excess   == Cardinality(records) - MaxRecords
      ended    == {record \in records : record.state # "active"}
      older(r) == {record \in ended : record.no < r.no}
  IN  records \ {record \in ended : Cardinality(older(record)) < excess}

NewLock(no, ip, duration, now) ==
  [no |-> no, ip |-> ip, lockedAt |-> now,
   lockedUntil |-> IF duration > 0 THEN now + duration ELSE NoDeadline,
   state |-> "active"]

LockStation(blacklist, ip, duration, now) ==
  [counters |-> [blacklist.counters EXCEPT ![ip] = NoCount],
   records  |-> Bounded(blacklist.records
                          \union {NewLock(blacklist.next, ip, duration, now)}),
   next     |-> blacklist.next + 1]

-----------------------------------------------------------------------------
(* resetFailures, and lift: the station's lock `current` ended by hand. *)

\* Mutant: every station's count reset.
ResetFailures_All(blacklist, ip) == [blacklist EXCEPT !.counters = [s \in Station |-> NoCount]]

ResetFailures(blacklist, ip) == [blacklist EXCEPT !.counters[ip] = NoCount]

Lift(blacklist, ip, current) ==
  ResetFailures([blacklist EXCEPT !.records =
                   (@ \ {current}) \union {[current EXCEPT !.state = "lifted"]}], ip)
=============================================================================
