----------------------------- MODULE BadgeLogin -----------------------------
(***************************************************************************)
(* The badge login of the stations (libs/wui-auth-badge/backend/           *)
(* badgeAuth.ts): POST /login as a process per request, interleaved at its *)
(* awaits with the other logins, with the "Badges" page's unlock and list  *)
(* requests, with a change of the settings and with webserver restarts.    *)
(*                                                                         *)
(* A change of the blacklist (updateBlacklist: read, change, write) is one *)
(* step: BlacklistQueue shows that one webserver's changes are atomic.     *)
(* Times are in units of the lock's duration; `now` is captured when a     *)
(* request starts and used by all of its later steps, as in the source.    *)
(***************************************************************************)
EXTENDS BadgeBlacklist

CONSTANTS
  Login,         \* the login requests, each made at most once
  Settings,      \* the settings the "Badges" page may store
  MaxThreshold,  \* LIMITS.lockAfterFailures[1]
  MaxTime        \* bound: the clock stops there

ASSUME LoginAssumption ==
  /\ MaxThreshold \in Nat
  /\ MaxTime \in Nat
  /\ Settings \subseteq [badgeLoginEnabled : BOOLEAN,
                         lockAfterFailures : 0..MaxThreshold,
                         lockDurationMin : Nat]

VARIABLES
  blacklist,  \* the DP WuiAuthBadge_Blacklist.state
  settings,   \* what readSettings gives
  clock,
  request     \* the login requests: the await each one stands at, and its locals

vars == <<blacklist, settings, clock, request>>

Answer == {"ok", "unknown", "locked", "disabled", "unavailable"}

\* seen is a history variable: the number the next lock would have got when
\* the request read the station's lock.
NotMade == [at |-> "notMade"]
Lost == [at |-> "lost"]
Waiting == [at : {"stationLock", "userIdOf", "refuse", "reset"}, ip : Station,
            now : Nat, settings : Settings, seen : Nat]
Answered == [at : {"answered"}, answer : Answer]

Request == {NotMade, Lost} \union Waiting \union Answered

TypeOK ==
  /\ blacklist \in Blacklist
  /\ settings \in Settings
  /\ clock \in Nat
  /\ request \in [Login -> Request]

Init ==
  /\ blacklist = EmptyBlacklist
  /\ settings \in Settings
  /\ clock = 0
  /\ request = [l \in Login |-> NotMade]

-----------------------------------------------------------------------------
(* The request l stands at an await; it goes on to the next, or answers. *)

At(l, await) == request[l].at = await

GoTo(l, await) == request' = [request EXCEPT ![l].at = await]

Reply(l, answer) ==
  request' = [request EXCEPT ![l] = [at |-> "answered", answer |-> answer]]

\* login up to its first change of the blacklist: the settings and the time
\* are read once, here.
Present(l, ip) ==
  /\ At(l, "notMade")
  /\ \/ /\ ~settings.badgeLoginEnabled
        /\ Reply(l, "disabled")
     \/ /\ settings.badgeLoginEnabled
        /\ request' = [request EXCEPT ![l] =
                         [at |-> "stationLock", ip |-> ip, now |-> clock,
                          settings |-> settings, seen |-> 0]]
  /\ UNCHANGED <<blacklist, settings, clock>>

\* stationLock: the locks run out are ended first, then the station's is read.
StationLock(l) ==
  LET r == request[l] IN
  /\ At(l, "stationLock")
  /\ blacklist' = Expire(blacklist, r.now)
  /\ \/ /\ Locked(blacklist', r.ip, r.now)
        /\ Reply(l, "locked")
     \/ /\ ~Locked(blacklist', r.ip, r.now)
        /\ request' = [request EXCEPT ![l].at = "userIdOf", ![l].seen = blacklist.next]
  /\ UNCHANGED <<settings, clock>>

\* userIdOf, userById and signWebUiToken: the badge is refused (unknown badge,
\* disabled user, no login permission), opens a session, or cannot be told.
LookUp(l) ==
  /\ At(l, "userIdOf")
  /\ GoTo(l, "refuse") \/ GoTo(l, "reset") \/ Reply(l, "unavailable")
  /\ UNCHANGED <<blacklist, settings, clock>>

-----------------------------------------------------------------------------
(* refuse: one more refusal of the station, locked at the threshold of the *)
(* settings the request started with.                                      *)

NotCounted(r) == r.settings.lockAfterFailures <= 0

BelowThreshold(r) ==
  /\ ~NotCounted(r)
  /\ blacklist.counters[r.ip].failures + 1 < r.settings.lockAfterFailures

ReachesThreshold(r) == ~NotCounted(r) /\ ~BelowThreshold(r)

Refuse(l) ==
  LET r == request[l] IN
  /\ At(l, "refuse")
  /\ \/ /\ NotCounted(r)
        /\ UNCHANGED blacklist
        /\ Reply(l, "unknown")
     \/ /\ BelowThreshold(r)
        /\ \E counted \in CountFailure(blacklist, r.ip, r.now) : blacklist' = counted
        /\ Reply(l, "unknown")
     \/ /\ ReachesThreshold(r)
        /\ blacklist' = LockStation(blacklist, r.ip, r.settings.lockDurationMin, r.now)
        /\ Reply(l, "locked")
  /\ UNCHANGED <<settings, clock>>

\* A recognised badge: the station's count back to 0, then the session.
Admit(l) ==
  /\ At(l, "reset")
  /\ blacklist' = ResetFailures(blacklist, request[l].ip)
  /\ Reply(l, "ok")
  /\ UNCHANGED <<settings, clock>>

-----------------------------------------------------------------------------
(* The blacklist's DP cannot be read or written: the check fails as a 503, *)
(* a refusal stands with its count lost, a login stands with its reset lost. *)

BlacklistFails(l) ==
  /\ \/ At(l, "stationLock") /\ Reply(l, "unavailable")
     \/ At(l, "refuse") /\ Reply(l, "unknown")
     \/ At(l, "reset") /\ Reply(l, "ok")
  /\ UNCHANGED <<blacklist, settings, clock>>

-----------------------------------------------------------------------------
(* The "Badges" page. *)

\* unlock: the first active lock of the station lifted.
UnlockStation(ip) ==
  /\ \E current \in First(ActiveLocks(blacklist, ip, clock)) :
       blacklist' = Lift(blacklist, ip, current)
  /\ UNCHANGED <<settings, clock, request>>

\* getBlacklist: its `now` was taken when the request started.
ListBlacklist ==
  /\ \E now \in 0..clock : blacklist' = Expire(blacklist, now)
  /\ UNCHANGED <<settings, clock, request>>

PutSettings ==
  /\ settings' \in Settings
  /\ UNCHANGED <<blacklist, clock, request>>

-----------------------------------------------------------------------------
(* The environment: time passes, the webserver restarts.  A restart loses  *)
(* the requests in flight; the blacklist is in the DP.                     *)

Tick ==
  /\ clock < MaxTime
  /\ clock' = clock + 1
  /\ UNCHANGED <<blacklist, settings, request>>

Restart ==
  /\ request' = [l \in Login |-> IF request[l] \in Waiting THEN Lost ELSE request[l]]
  /\ UNCHANGED <<blacklist, settings, clock>>

LoginStep(l) ==
  \/ \E ip \in Station : Present(l, ip)
  \/ StationLock(l)
  \/ LookUp(l)
  \/ Refuse(l)
  \/ Admit(l)
  \/ BlacklistFails(l)

Next ==
  \/ \E l \in Login : LoginStep(l)
  \/ \E ip \in Station : UnlockStation(ip)
  \/ ListBlacklist
  \/ PutSettings
  \/ Tick
  \/ Restart

Spec == Init /\ [][Next]_vars

-----------------------------------------------------------------------------
(* Safety. *)

\* No count ever reaches the highest threshold the settings accept, whatever
\* the settings change to between a station's refusals: recordFailure turns
\* the refusal that reaches the threshold into a lock.
CountsBelowLimit ==
  \A ip \in Station : LET n == blacklist.counters[ip].failures IN n = 0 \/ n < MaxThreshold

\* The stations counted at a time are bounded (recordFailure's slice).
CountersBounded == Cardinality(Counted(blacklist.counters)) <= MaxCounters

PastStationLock(l) == request[l].at \in {"userIdOf", "refuse", "reset"}

\* A login that was let past stationLock can only be overrun by a lock recorded
\* after it read the blacklist: no lock that was there, in force at the time
\* the request started, was missed.
NoLockMissed ==
  \A l \in Login : PastStationLock(l) =>
    \A lock \in ActiveLocks(blacklist, request[l].ip, request[l].now) :
      lock.no >= request[l].seen

Opens(l, ip) == At(l, "reset") /\ request[l].ip = ip /\ request'[l].at = "answered"

LocksOf(ip) == {record \in blacklist.records : record.ip = ip}

\* A station's refusals are never forgotten by another request's change: its
\* count goes down only with a session opened there, with a lock of the station
\* recorded or lifted, or as the oldest count when too many stations are
\* counted (recordFailure, resetFailures, lift).
CountKept ==
  [][\A ip \in Station :
       blacklist'.counters[ip].failures < blacklist.counters[ip].failures =>
         \/ \E l \in Login : Opens(l, ip)
         \/ LocksOf(ip)' # LocksOf(ip)
         \/ /\ Cardinality(Counted(blacklist'.counters)) = MaxCounters
            /\ \A other \in Counted(blacklist'.counters) :
                 blacklist.counters[ip].lastAt <= blacklist'.counters[other].lastAt]_vars

\* The locks the login records, expires and lifts are those of a ledger: none
\* is lost, brought back or ended before its time — by a restart, a purge of
\* the history or a concurrent change (LockLedger).
Ledger == INSTANCE LockLedger WITH
  ledger <- blacklist.records,
  next <- blacklist.next,
  Duration <- {s.lockDurationMin : s \in Settings}

LedgerSpec == Ledger!Spec

-----------------------------------------------------------------------------
(* What the documentation says, and the interleaved requests do not keep. *)

\* badgeAuth.ts:379: POST /blacklist/unlock "lifts the station's active lock" —
\* once it answered ok, the station is not locked.
UnlockOpens == [][\A ip \in Station : UnlockStation(ip) => ~Locked(blacklist', ip, clock)]_vars
=============================================================================
