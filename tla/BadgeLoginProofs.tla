-------------------------- MODULE BadgeLoginProofs --------------------------
(***************************************************************************)
(* Theorems about BadgeLogin, for any number of stations, requests and     *)
(* settings, and any bounds, and about the queue it takes for granted      *)
(* (BlacklistQueue), at the end.                                           *)
(***************************************************************************)
EXTENDS BadgeLogin, BlacklistQueue, FiniteSetTheorems, SequenceTheorems, TLAPS

-----------------------------------------------------------------------------
(* What the blacklist's functions give back. *)

\* Every function of badgeBlacklist.ts gives back a blacklist.
LEMMA ExpireType ==
  ASSUME NEW bl \in Blacklist, NEW now \in Nat
  PROVE  Expire(bl, now) \in Blacklist
  BY DEF Expire, Blacklist, Record, LockState

LEMMA CountFailureType ==
  ASSUME NEW bl \in Blacklist, NEW ip \in Station, NEW now \in Nat,
         NEW counted \in CountFailure(bl, ip, now)
  PROVE  counted \in Blacklist
<1> DEFINE counters == [bl.counters EXCEPT ![ip] = [failures |-> @.failures + 1, lastAt |-> now]]
<1>1. counters \in [Station -> Count]
  BY DEF Blacklist, Count
<1>2. \A lost : [counters EXCEPT ![lost] = NoCount] \in [Station -> Count]
  BY <1>1 DEF NoCount, Count
<1> HIDE DEF counters
<1>3. \/ counted = [bl EXCEPT !.counters = counters]
      \/ \E lost : counted = [bl EXCEPT !.counters = [counters EXCEPT ![lost] = NoCount]]
  BY DEF CountFailure, counters
<1> QED
  BY <1>1, <1>2, <1>3 DEF Blacklist

LEMMA NewLockType ==
  ASSUME NEW no \in Nat, NEW ip \in Station, NEW duration \in Nat, NEW now \in Nat
  PROVE  NewLock(no, ip, duration, now) \in Record
  BY DEF NewLock, Record, LockState

LEMMA LockStationType ==
  ASSUME NEW bl \in Blacklist, NEW ip \in Station, NEW duration \in Nat, NEW now \in Nat
  PROVE  LockStation(bl, ip, duration, now) \in Blacklist
<1>1. NewLock(bl.next, ip, duration, now) \in Record
  BY NewLockType DEF Blacklist
<1>2. Bounded(bl.records \union {NewLock(bl.next, ip, duration, now)}) \subseteq Record
  BY <1>1 DEF Bounded, Blacklist
<1>3. [bl.counters EXCEPT ![ip] = NoCount] \in [Station -> Count]
  BY DEF Blacklist, NoCount, Count
<1>4. bl.next + 1 \in Nat
  BY DEF Blacklist
<1> QED
  BY <1>2, <1>3, <1>4 DEF LockStation, Blacklist

LEMMA ResetType ==
  ASSUME NEW bl \in Blacklist, NEW ip \in Station
  PROVE  ResetFailures(bl, ip) \in Blacklist
  BY DEF ResetFailures, Blacklist, NoCount, Count

LEMMA LiftType ==
  ASSUME NEW bl \in Blacklist, NEW ip \in Station, NEW current \in bl.records
  PROVE  Lift(bl, ip, current) \in Blacklist
<1>1. [bl EXCEPT !.records = (@ \ {current}) \union {[current EXCEPT !.state = "lifted"]}]
        \in Blacklist
  BY DEF Blacklist, Record, LockState
<1> QED
  BY <1>1, ResetType DEF Lift

-----------------------------------------------------------------------------
(* The requests. *)

Awaits == {"stationLock", "userIdOf", "refuse", "reset"}

\* A request that stands at an await has its locals.
LEMMA AtWaiting ==
  ASSUME TypeOK, NEW l \in Login, NEW await \in Awaits, At(l, await)
  PROVE  /\ request[l] \in Waiting
         /\ request[l].ip \in Station
         /\ request[l].now \in Nat
         /\ request[l].settings \in Settings
         /\ request[l].settings.lockAfterFailures \in 0..MaxThreshold
         /\ request[l].settings.lockDurationMin \in Nat
<1>1. request[l] \in Request
  BY DEF TypeOK
<1>2. request[l] \in Waiting
  BY <1>1 DEF Request, NotMade, Lost, Answered, At, Awaits
<1> QED
  BY <1>2, LoginAssumption DEF Waiting

LEMMA GoToType ==
  ASSUME TypeOK, NEW l \in Login, request[l] \in Waiting, NEW await \in Awaits, GoTo(l, await)
  PROVE  request' \in [Login -> Request]
<1>1. [request[l] EXCEPT !.at = await] \in Waiting
  BY DEF Waiting, Awaits
<1> QED
  BY <1>1 DEF GoTo, TypeOK, Request

LEMMA ReplyType ==
  ASSUME TypeOK, NEW l \in Login, NEW answer \in Answer, Reply(l, answer)
  PROVE  request' \in [Login -> Request]
<1>1. [at |-> "answered", answer |-> answer] \in Answered
  BY DEF Answered
<1> QED
  BY <1>1 DEF Reply, TypeOK, Request

-----------------------------------------------------------------------------

\* Type correctness.
THEOREM TypeCorrect == Spec => []TypeOK
<1>1. Init => TypeOK
  BY BlacklistAssumption
  DEF Init, TypeOK, EmptyBlacklist, Blacklist, NoCount, Count, Request, NotMade
<1>2. TypeOK /\ [Next]_vars => TypeOK'
  <2> SUFFICES ASSUME TypeOK, [Next]_vars
               PROVE  TypeOK'
    OBVIOUS
  <2>1. ASSUME NEW l \in Login, NEW ip \in Station, Present(l, ip)
        PROVE  TypeOK'
    <3>1. CASE Reply(l, "disabled") /\ UNCHANGED <<blacklist, settings, clock>>
      BY <3>1, ReplyType DEF TypeOK, Answer
    <3>2. CASE /\ request' = [request EXCEPT ![l] =
                                [at |-> "stationLock", ip |-> ip, now |-> clock,
                                 settings |-> settings, seen |-> 0]]
               /\ UNCHANGED <<blacklist, settings, clock>>
      BY <3>2 DEF TypeOK, Request, Waiting
    <3> QED
      BY <2>1, <3>1, <3>2 DEF Present
  <2>2. ASSUME NEW l \in Login, StationLock(l)
        PROVE  TypeOK'
    <3>1. request[l] \in Waiting /\ request[l].now \in Nat
      BY <2>2, AtWaiting DEF StationLock, Awaits
    <3>2. blacklist' \in Blacklist
      BY <2>2, <3>1, ExpireType DEF StationLock, TypeOK
    <3>3. request' \in [Login -> Request]
      <4>1. CASE Reply(l, "locked")
        BY <4>1, ReplyType DEF Answer
      <4>2. CASE request' = [request EXCEPT ![l].at = "userIdOf", ![l].seen = blacklist.next]
        <5>1. [[request[l] EXCEPT !.at = "userIdOf"] EXCEPT !.seen = blacklist.next] \in Waiting
          BY <3>1 DEF Waiting, TypeOK, Blacklist
        <5> QED
          BY <4>2, <5>1 DEF TypeOK, Request
      <4> QED
        BY <2>2, <4>1, <4>2 DEF StationLock
    <3> QED
      BY <2>2, <3>2, <3>3 DEF StationLock, TypeOK
  <2>3. ASSUME NEW l \in Login, LookUp(l)
        PROVE  TypeOK'
    <3>1. request[l] \in Waiting
      BY <2>3, AtWaiting DEF LookUp, Awaits
    <3>2. request' \in [Login -> Request]
      BY <2>3, <3>1, GoToType, ReplyType DEF LookUp, Awaits, Answer
    <3> QED
      BY <2>3, <3>2 DEF LookUp, TypeOK
  <2>4. ASSUME NEW l \in Login, Refuse(l)
        PROVE  TypeOK'
    <3>1. /\ request[l].ip \in Station
          /\ request[l].now \in Nat
          /\ request[l].settings.lockDurationMin \in Nat
      BY <2>4, AtWaiting DEF Refuse, Awaits
    <3>2. blacklist' \in Blacklist
      BY <2>4, <3>1, CountFailureType, LockStationType DEF Refuse, TypeOK
    <3>3. request' \in [Login -> Request]
      BY <2>4, ReplyType DEF Refuse, Answer
    <3> QED
      BY <2>4, <3>2, <3>3 DEF Refuse, TypeOK
  <2>5. ASSUME NEW l \in Login, Admit(l)
        PROVE  TypeOK'
    <3>1. request[l].ip \in Station
      BY <2>5, AtWaiting DEF Admit, Awaits
    <3>2. blacklist' \in Blacklist
      BY <2>5, <3>1, ResetType DEF Admit, TypeOK
    <3>3. request' \in [Login -> Request]
      BY <2>5, ReplyType DEF Admit, Answer
    <3> QED
      BY <2>5, <3>2, <3>3 DEF Admit, TypeOK
  <2>6. ASSUME NEW l \in Login, BlacklistFails(l)
        PROVE  TypeOK'
    <3>1. request' \in [Login -> Request]
      BY <2>6, ReplyType DEF BlacklistFails, Answer
    <3> QED
      BY <2>6, <3>1 DEF BlacklistFails, TypeOK
  <2>7. ASSUME NEW ip \in Station, UnlockStation(ip)
        PROVE  TypeOK'
    <3>1. PICK current \in blacklist.records : blacklist' = Lift(blacklist, ip, current)
      BY <2>7 DEF UnlockStation, First, ActiveLocks
    <3>2. blacklist' \in Blacklist
      BY <3>1, LiftType DEF TypeOK
    <3> QED
      BY <2>7, <3>2 DEF UnlockStation, TypeOK
  <2>8. CASE ListBlacklist
    <3>1. PICK now \in 0..clock : blacklist' = Expire(blacklist, now)
      BY <2>8 DEF ListBlacklist
    <3>2. now \in Nat
      BY DEF TypeOK
    <3> QED
      BY <2>8, <3>1, <3>2, ExpireType DEF ListBlacklist, TypeOK
  <2>9. CASE PutSettings
    BY <2>9 DEF PutSettings, TypeOK
  <2>10. CASE Tick
    BY <2>10 DEF Tick, TypeOK
  <2>11. CASE Restart
    BY <2>11 DEF Restart, TypeOK, Request
  <2>12. CASE UNCHANGED vars
    BY <2>12 DEF vars, TypeOK
  <2> QED
    BY <2>1, <2>2, <2>3, <2>4, <2>5, <2>6, <2>7, <2>8, <2>9, <2>10, <2>11, <2>12
    DEF Next, LoginStep
<1> QED
  BY <1>1, <1>2, PTL DEF Spec

-----------------------------------------------------------------------------
(* Counts: the one step that raises a count is a refusal below the          *)
(* threshold of the settings its request started with.                      *)

LEMMA CountFailureCounts ==
  ASSUME NEW bl \in Blacklist, NEW ip \in Station, NEW now \in Nat,
         NEW counted \in CountFailure(bl, ip, now), NEW s \in Station
  PROVE  \/ counted.counters[s].failures \in {0, bl.counters[s].failures}
         \/ s = ip /\ counted.counters[s].failures = bl.counters[s].failures + 1
<1> DEFINE counters == [bl.counters EXCEPT ![ip] = [failures |-> @.failures + 1, lastAt |-> now]]
<1>1. counters \in [Station -> Count]
  BY DEF Blacklist, Count
<1>2. \/ counters[s].failures = bl.counters[s].failures
      \/ s = ip /\ counters[s].failures = bl.counters[s].failures + 1
  BY DEF Blacklist, Count
<1> HIDE DEF counters
<1>3. \/ counted.counters = counters
      \/ \E lost : counted.counters = [counters EXCEPT ![lost] = NoCount]
  BY DEF CountFailure, counters, Blacklist
<1>4. \A lost : [counters EXCEPT ![lost] = NoCount][s] \in {NoCount, counters[s]}
  BY <1>1
<1>5. counted.counters[s] \in {NoCount, counters[s]}
  BY <1>3, <1>4
<1>6. NoCount.failures = 0
  BY DEF NoCount
<1> QED
  BY <1>2, <1>5, <1>6

LEMMA OthersCounts ==
  ASSUME NEW bl \in Blacklist, NEW ip \in Station, NEW s \in Station
  PROVE  /\ \A now : Expire(bl, now).counters = bl.counters
         /\ \A duration, now : LockStation(bl, ip, duration, now).counters[s].failures
                                 \in {0, bl.counters[s].failures}
         /\ ResetFailures(bl, ip).counters[s].failures \in {0, bl.counters[s].failures}
         /\ \A current : Lift(bl, ip, current).counters[s].failures
                           \in {0, bl.counters[s].failures}
<1>1. \A now : Expire(bl, now).counters = bl.counters
  BY DEF Expire, Blacklist
<1>2. [bl.counters EXCEPT ![ip] = NoCount][s].failures \in {0, bl.counters[s].failures}
  BY DEF NoCount, Blacklist
<1> QED
  BY <1>1, <1>2 DEF LockStation, ResetFailures, Lift, Blacklist

\* No count reaches the highest threshold there is (recordFailure).
THEOREM CountsStayBelow == Spec => []CountsBelowLimit
<1>1. Init => CountsBelowLimit
  BY DEF Init, EmptyBlacklist, NoCount, CountsBelowLimit
<1>2. TypeOK /\ CountsBelowLimit /\ [Next]_vars => CountsBelowLimit'
  <2> SUFFICES ASSUME TypeOK, CountsBelowLimit, [Next]_vars, NEW s \in Station
               PROVE  \/ blacklist'.counters[s].failures = 0
                      \/ blacklist'.counters[s].failures < MaxThreshold
    BY DEF CountsBelowLimit
  <2>1. blacklist \in Blacklist
    BY DEF TypeOK
  <2>2. blacklist.counters[s].failures = 0 \/ blacklist.counters[s].failures < MaxThreshold
    BY DEF CountsBelowLimit
  <2>3. SUFFICES ASSUME blacklist'.counters[s].failures \notin {0, blacklist.counters[s].failures}
                 PROVE  blacklist'.counters[s].failures < MaxThreshold
    BY <2>2
  <2>4. ASSUME NEW l \in Login, Refuse(l)
        PROVE  blacklist'.counters[s].failures < MaxThreshold
    <3> DEFINE r == request[l]
    <3>1. /\ r.ip \in Station /\ r.now \in Nat
          /\ r.settings.lockAfterFailures \in 0..MaxThreshold
      BY <2>4, AtWaiting DEF Refuse, Awaits
    <3>2. blacklist' # LockStation(blacklist, r.ip, r.settings.lockDurationMin, r.now)
      BY <2>1, <2>3, <3>1, OthersCounts
    <3>3. BelowThreshold(r) /\ blacklist' \in CountFailure(blacklist, r.ip, r.now)
      BY <2>3, <2>4, <3>2 DEF Refuse
    <3>4. s = r.ip /\ blacklist'.counters[s].failures = blacklist.counters[s].failures + 1
      BY <2>1, <2>3, <3>1, <3>3, CountFailureCounts
    <3>5. blacklist.counters[s].failures \in Nat
      BY <2>1 DEF Blacklist, Count
    <3> QED
      BY <3>1, <3>3, <3>4, <3>5, LoginAssumption DEF BelowThreshold
  <2>5. ASSUME NEW l \in Login, StationLock(l)
        PROVE  FALSE
    BY <2>1, <2>3, <2>5, OthersCounts DEF StationLock
  <2>6. ASSUME NEW l \in Login, Admit(l)
        PROVE  FALSE
    <3>1. request[l].ip \in Station
      BY <2>6, AtWaiting DEF Admit, Awaits
    <3> QED
      BY <2>1, <2>3, <2>6, <3>1, OthersCounts DEF Admit
  <2>7. ASSUME NEW ip \in Station, UnlockStation(ip)
        PROVE  FALSE
    BY <2>1, <2>3, <2>7, OthersCounts DEF UnlockStation
  <2>8. CASE ListBlacklist
    BY <2>1, <2>3, <2>8, OthersCounts DEF ListBlacklist
  <2>9. blacklist' # blacklist
    BY <2>3
  <2> QED
    BY <2>4, <2>5, <2>6, <2>7, <2>8, <2>9
    DEF Next, LoginStep, Present, LookUp, BlacklistFails, PutSettings, Tick, Restart, vars
<1> QED
  BY <1>1, <1>2, TypeCorrect, PTL DEF Spec

-----------------------------------------------------------------------------
(* The stations counted at a time.                                         *)

FewCounted(counters) ==
  IsFiniteSet(Counted(counters)) /\ Cardinality(Counted(counters)) <= MaxCounters

\* Fewer stations counted stay few.
LEMMA FewerCounted ==
  ASSUME NEW counters, FewCounted(counters), NEW later, Counted(later) \subseteq Counted(counters)
  PROVE  FewCounted(later)
<1>1. /\ IsFiniteSet(Counted(later))
      /\ Cardinality(Counted(later)) <= Cardinality(Counted(counters))
  BY FS_Subset DEF FewCounted
<1>2. Cardinality(Counted(later)) \in Nat /\ Cardinality(Counted(counters)) \in Nat
  BY <1>1, FS_CardinalityType DEF FewCounted
<1> QED
  BY <1>1, <1>2, BlacklistAssumption DEF FewCounted

LEMMA CountFailureFew ==
  ASSUME NEW bl \in Blacklist, NEW ip \in Station, NEW now \in Nat, FewCounted(bl.counters),
         NEW counted \in CountFailure(bl, ip, now)
  PROVE  FewCounted(counted.counters)
<1> DEFINE counters == [bl.counters EXCEPT ![ip] = [failures |-> @.failures + 1, lastAt |-> now]]
<1>1. counters \in [Station -> Count]
  BY DEF Blacklist, Count
<1>2. Counted(counters) \subseteq Counted(bl.counters) \union {ip}
  BY DEF Counted, Blacklist
<1>3. /\ IsFiniteSet(Counted(bl.counters) \union {ip})
      /\ Cardinality(Counted(bl.counters) \union {ip}) <= Cardinality(Counted(bl.counters)) + 1
      /\ Cardinality(Counted(bl.counters)) \in Nat
      /\ Cardinality(Counted(bl.counters) \union {ip}) \in Nat
  <2>1. IsFiniteSet(Counted(bl.counters)) /\ Cardinality(Counted(bl.counters)) \in Nat
    BY FS_CardinalityType DEF FewCounted
  <2>2. /\ IsFiniteSet(Counted(bl.counters) \union {ip})
        /\ Cardinality(Counted(bl.counters) \union {ip})
             \in {Cardinality(Counted(bl.counters)), Cardinality(Counted(bl.counters)) + 1}
    <3> DEFINE S == Counted(bl.counters)
    <3> HIDE DEF S
    <3> SUFFICES ASSUME IsFiniteSet(S)
                 PROVE  /\ IsFiniteSet(S \union {ip})
                        /\ Cardinality(S \union {ip}) \in {Cardinality(S), Cardinality(S) + 1}
      BY <2>1 DEF S
    <3> QED
      BY FS_AddElement
  <2> QED
    BY <2>1, <2>2
<1>4. /\ IsFiniteSet(Counted(counters))
      /\ Cardinality(Counted(counters)) <= Cardinality(Counted(bl.counters) \union {ip})
      /\ Cardinality(Counted(counters)) \in Nat
  BY <1>2, <1>3, FS_Subset, FS_CardinalityType
<1>5. Cardinality(Counted(counters)) <= MaxCounters + 1
  BY <1>3, <1>4, BlacklistAssumption DEF FewCounted
<1> HIDE DEF counters
<1>6. CASE counted.counters = counters /\ Cardinality(Counted(counters)) <= MaxCounters
  BY <1>4, <1>6 DEF FewCounted
<1>7. CASE \E lost \in Dropped(counters, ip) :
             counted.counters = [counters EXCEPT ![lost] = NoCount]
  <2>1. PICK lost \in Dropped(counters, ip) :
               counted.counters = [counters EXCEPT ![lost] = NoCount]
    BY <1>7
  <2>2. lost \in Counted(counters)
    BY DEF Dropped, Oldest
  <2>3. Counted(counted.counters) = Counted(counters) \ {lost}
    BY <1>1, <2>1, <2>2 DEF Counted, NoCount, Count
  <2>4. /\ IsFiniteSet(Counted(counters) \ {lost})
        /\ Cardinality(Counted(counters) \ {lost}) = Cardinality(Counted(counters)) - 1
    BY <1>4, <2>2, FS_RemoveElement
  <2> QED
    BY <1>4, <1>5, <2>3, <2>4, BlacklistAssumption DEF FewCounted
<1> QED
  BY <1>6, <1>7 DEF CountFailure, counters, Blacklist

LEMMA OthersCountNoMore ==
  ASSUME NEW bl \in Blacklist, NEW ip \in Station
  PROVE  /\ \A now : Counted(Expire(bl, now).counters) \subseteq Counted(bl.counters)
         /\ \A duration, now :
              Counted(LockStation(bl, ip, duration, now).counters) \subseteq Counted(bl.counters)
         /\ Counted(ResetFailures(bl, ip).counters) \subseteq Counted(bl.counters)
         /\ \A current : Counted(Lift(bl, ip, current).counters) \subseteq Counted(bl.counters)
<1>1. \A now : Expire(bl, now).counters = bl.counters
  BY DEF Expire, Blacklist
<1>2. Counted([bl.counters EXCEPT ![ip] = NoCount]) \subseteq Counted(bl.counters)
  BY DEF NoCount, Blacklist, Counted
<1>3. /\ \A duration, now :
            LockStation(bl, ip, duration, now).counters = [bl.counters EXCEPT ![ip] = NoCount]
      /\ ResetFailures(bl, ip).counters = [bl.counters EXCEPT ![ip] = NoCount]
      /\ \A current : Lift(bl, ip, current).counters = [bl.counters EXCEPT ![ip] = NoCount]
  BY DEF LockStation, ResetFailures, Lift, Blacklist
<1> QED
  BY <1>1, <1>2, <1>3

Few == FewCounted(blacklist.counters)

\* The counted stations are finitely many, and few.
LEMMA FewStay == Spec => []Few
<1> USE DEF Few
<1>1. Init => Few
  <2> SUFFICES ASSUME Init PROVE Few
    OBVIOUS
  <2>1. Counted(blacklist.counters) = {}
    BY DEF Init, EmptyBlacklist, NoCount, Counted
  <2> QED
    BY <2>1, FS_EmptySet, BlacklistAssumption DEF FewCounted
<1>2. TypeOK /\ Few /\ [Next]_vars => Few'
  <2> SUFFICES ASSUME TypeOK, Few, [Next]_vars PROVE FewCounted(blacklist'.counters)
    BY DEF FewCounted, Counted
  <2>1. blacklist \in Blacklist
    BY DEF TypeOK
  <2>2. ASSUME Counted(blacklist'.counters) \subseteq Counted(blacklist.counters)
        PROVE  FewCounted(blacklist'.counters)
    BY <2>2, FewerCounted
  <2>3. ASSUME NEW l \in Login, Refuse(l)
        PROVE  FewCounted(blacklist'.counters)
    <3> DEFINE r == request[l]
    <3>1. r.ip \in Station /\ r.now \in Nat
      BY <2>3, AtWaiting DEF Refuse, Awaits
    <3>2. CASE blacklist' \in CountFailure(blacklist, r.ip, r.now)
      BY <2>1, <3>1, <3>2, CountFailureFew
    <3>3. CASE blacklist' = LockStation(blacklist, r.ip, r.settings.lockDurationMin, r.now)
      BY <2>1, <2>2, <3>1, <3>3, OthersCountNoMore
    <3>4. CASE UNCHANGED blacklist
      BY <2>2, <3>4
    <3> QED
      BY <2>3, <3>2, <3>3, <3>4 DEF Refuse
  <2>4. ASSUME NEW l \in Login, StationLock(l)
        PROVE  FewCounted(blacklist'.counters)
    <3>1. request[l].ip \in Station
      BY <2>4, AtWaiting DEF StationLock, Awaits
    <3> QED
      BY <2>1, <2>2, <2>4, <3>1, OthersCountNoMore DEF StationLock
  <2>5. ASSUME NEW l \in Login, Admit(l)
        PROVE  FewCounted(blacklist'.counters)
    <3>1. request[l].ip \in Station
      BY <2>5, AtWaiting DEF Admit, Awaits
    <3> QED
      BY <2>1, <2>2, <2>5, <3>1, OthersCountNoMore DEF Admit
  <2>6. ASSUME NEW ip \in Station, UnlockStation(ip)
        PROVE  FewCounted(blacklist'.counters)
    BY <2>1, <2>2, <2>6, OthersCountNoMore DEF UnlockStation
  <2>7. CASE ListBlacklist
    <3>1. \A now : Expire(blacklist, now).counters = blacklist.counters
      BY <2>1 DEF Expire, Blacklist
    <3> QED
      BY <2>2, <2>7, <3>1 DEF ListBlacklist
  <2>8. CASE UNCHANGED blacklist
    BY <2>2, <2>8
  <2> QED
    BY <2>3, <2>4, <2>5, <2>6, <2>7, <2>8
    DEF Next, LoginStep, Present, LookUp, BlacklistFails, PutSettings, Tick, Restart, vars
<1> QED
  BY <1>1, <1>2, TypeCorrect, PTL DEF Spec

\* However many stations present badges, and in whatever order their refusals are
\* recorded, no more than MAX_COUNTERS of them are counted (recordFailure).
THEOREM FewAreCounted == Spec => []CountersBounded
<1>1. Few => CountersBounded
  BY DEF Few, FewCounted, CountersBounded
<1> QED
  BY <1>1, FewStay, PTL

-----------------------------------------------------------------------------
(* Locks: no change of the blacklist brings one back; a new one is numbered *)
(* by `next`.                                                               *)

NoneRevived(bl, later) ==
  /\ bl.next <= later.next
  /\ \A lock \in later.records :
       lock.state = "active" => lock \in bl.records \/ lock.no >= bl.next

LEMMA ExpireRevivesNone ==
  ASSUME NEW bl \in Blacklist, NEW now \in Nat
  PROVE  /\ NoneRevived(bl, Expire(bl, now))
         /\ Expire(bl, now).next = bl.next
<1>1. /\ bl.next \in Nat /\ bl.records \subseteq Record
      /\ Expire(bl, now).next = bl.next
  BY DEF Expire, Blacklist
<1>2. ASSUME NEW lock \in Expire(bl, now).records, lock.state = "active"
      PROVE  lock \in bl.records
  <2>1. \A r \in bl.records : [r EXCEPT !.state = "expired"].state = "expired"
    BY <1>1 DEF Record
  <2> QED
    BY <1>2, <2>1 DEF Expire, Blacklist
<1> QED
  BY <1>1, <1>2 DEF NoneRevived

LEMMA CountFailureRevivesNone ==
  ASSUME NEW bl \in Blacklist, NEW ip, NEW now, NEW counted \in CountFailure(bl, ip, now)
  PROVE  counted.records = bl.records /\ counted.next = bl.next
BY DEF CountFailure, Blacklist

LEMMA LockStationRevivesNone ==
  ASSUME NEW bl \in Blacklist, NEW ip \in Station, NEW duration \in Nat, NEW now \in Nat
  PROVE  NoneRevived(bl, LockStation(bl, ip, duration, now))
<1> DEFINE new == NewLock(bl.next, ip, duration, now)
<1>1. bl.next \in Nat /\ new.no = bl.next
  BY DEF Blacklist, NewLock
<1>2. LockStation(bl, ip, duration, now).records \subseteq bl.records \union {new}
  BY DEF LockStation, Bounded
<1>3. LockStation(bl, ip, duration, now).next = bl.next + 1
  BY DEF LockStation
<1> QED
  BY <1>1, <1>2, <1>3 DEF NoneRevived

LEMMA ResetRevivesNone ==
  ASSUME NEW bl \in Blacklist, NEW ip
  PROVE  ResetFailures(bl, ip).records = bl.records /\ ResetFailures(bl, ip).next = bl.next
BY DEF ResetFailures, Blacklist

LEMMA LiftRevivesNone ==
  ASSUME NEW bl \in Blacklist, NEW ip, NEW current \in bl.records
  PROVE  /\ Lift(bl, ip, current).records =
              (bl.records \ {current}) \union {[current EXCEPT !.state = "lifted"]}
         /\ Lift(bl, ip, current).next = bl.next
         /\ NoneRevived(bl, Lift(bl, ip, current))
<1> DEFINE ended == [bl EXCEPT !.records =
                       (@ \ {current}) \union {[current EXCEPT !.state = "lifted"]}]
<1>1. /\ ended.records = (bl.records \ {current}) \union {[current EXCEPT !.state = "lifted"]}
      /\ ended.next = bl.next /\ bl.next \in Nat
      /\ [current EXCEPT !.state = "lifted"].state = "lifted"
  BY DEF Blacklist, Record
<1>2. Lift(bl, ip, current).records = ended.records /\ Lift(bl, ip, current).next = ended.next
  BY DEF Lift, ResetFailures, Blacklist
<1> HIDE DEF ended
<1>3. ASSUME NEW lock \in Lift(bl, ip, current).records, lock.state = "active"
      PROVE  lock \in bl.records
  <2>1. lock # [current EXCEPT !.state = "lifted"]
    BY <1>1, <1>3
  <2> QED
    BY <1>1, <1>2, <2>1
<1> QED
  BY <1>1, <1>2, <1>3 DEF NoneRevived

LEMMA NextRevivesNone ==
  ASSUME TypeOK, [Next]_vars
  PROVE  NoneRevived(blacklist, blacklist')
<1>1. blacklist \in Blacklist /\ NoneRevived(blacklist, blacklist)
  BY DEF TypeOK, NoneRevived, Blacklist
<1>2. ASSUME NEW l \in Login, StationLock(l)
      PROVE  NoneRevived(blacklist, blacklist')
  BY <1>1, <1>2, AtWaiting, ExpireRevivesNone DEF StationLock, Awaits
<1>3. ASSUME NEW l \in Login, Refuse(l)
      PROVE  NoneRevived(blacklist, blacklist')
  <2>1. /\ request[l].ip \in Station /\ request[l].now \in Nat
        /\ request[l].settings.lockDurationMin \in Nat
    BY <1>3, AtWaiting DEF Refuse, Awaits
  <2>2. ASSUME NEW counted \in CountFailure(blacklist, request[l].ip, request[l].now)
        PROVE  NoneRevived(blacklist, counted)
    BY <1>1, CountFailureRevivesNone DEF NoneRevived
  <2> QED
    BY <1>1, <1>3, <2>1, <2>2, LockStationRevivesNone DEF Refuse
<1>4. ASSUME NEW l \in Login, Admit(l)
      PROVE  NoneRevived(blacklist, blacklist')
  BY <1>1, <1>4, ResetRevivesNone DEF Admit, NoneRevived
<1>5. ASSUME NEW ip \in Station, UnlockStation(ip)
      PROVE  NoneRevived(blacklist, blacklist')
  <2>1. PICK current \in blacklist.records : blacklist' = Lift(blacklist, ip, current)
    BY <1>5 DEF UnlockStation, First, ActiveLocks
  <2> QED
    BY <1>1, <2>1, LiftRevivesNone
<1>6. CASE ListBlacklist
  <2>1. PICK now \in Nat : blacklist' = Expire(blacklist, now)
    BY <1>6 DEF ListBlacklist, TypeOK
  <2> QED
    BY <1>1, <2>1, ExpireRevivesNone
<1>7. CASE blacklist' = blacklist
  BY <1>1, <1>7
<1> QED
  BY <1>2, <1>3, <1>4, <1>5, <1>6, <1>7
  DEF Next, LoginStep, Present, LookUp, BlacklistFails, PutSettings, Tick, Restart, vars

\* A request past stationLock goes on with what it read there.
LEMMA PastStationLockKept ==
  ASSUME TypeOK, [Next]_vars, NEW l \in Login, PastStationLock(l)', ~StationLock(l)
  PROVE  /\ PastStationLock(l)
         /\ request'[l].ip = request[l].ip
         /\ request'[l].now = request[l].now
         /\ request'[l].seen = request[l].seen
<1> DEFINE Same == /\ PastStationLock(l)
                   /\ request'[l].ip = request[l].ip
                   /\ request'[l].now = request[l].now
                   /\ request'[l].seen = request[l].seen
<1>1. CASE request'[l] = request[l]
  BY <1>1 DEF PastStationLock
<1>2. ASSUME NEW k \in Login, k # l, LoginStep(k)
      PROVE  request'[l] = request[l]
  BY <1>2 DEF LoginStep, Present, StationLock, LookUp, Refuse, Admit, BlacklistFails, GoTo,
              Reply, TypeOK
<1>3. ASSUME NEW answer, Reply(l, answer)
      PROVE  FALSE
  BY <1>3 DEF Reply, PastStationLock, TypeOK
<1>4. ASSUME NEW ip \in Station, Present(l, ip)
      PROVE  FALSE
  BY <1>3, <1>4 DEF Present, PastStationLock, TypeOK
<1>5. CASE LookUp(l)
  <2>1. request[l] \in Waiting /\ request[l].at = "userIdOf"
    BY <1>5, AtWaiting DEF LookUp, Awaits, At
  <2>2. PICK await \in {"refuse", "reset"} : GoTo(l, await)
    BY <1>3, <1>5 DEF LookUp
  <2>3. request'[l] = [request[l] EXCEPT !.at = await]
    BY <2>2 DEF GoTo, TypeOK
  <2> QED
    BY <2>1, <2>3 DEF PastStationLock, Waiting
<1>6. CASE Refuse(l) \/ Admit(l) \/ BlacklistFails(l)
  BY <1>3, <1>6 DEF Refuse, Admit, BlacklistFails
<1>7. CASE Restart
  BY <1>7 DEF Restart, PastStationLock, Lost, TypeOK
<1> QED
  BY <1>1, <1>2, <1>4, <1>5, <1>6, <1>7
  DEF Next, LoginStep, UnlockStation, ListBlacklist, PutSettings, Tick, vars

\* What a request read is not newer than the blacklist.
SeenBefore == \A l \in Login : PastStationLock(l) => request[l].seen <= blacklist.next

LEMMA NextKeepsSight ==
  ASSUME TypeOK, TypeOK', SeenBefore, NoLockMissed, [Next]_vars
  PROVE  SeenBefore' /\ NoLockMissed'
<1>1. SUFFICES ASSUME NEW l \in Login, PastStationLock(l)'
               PROVE  /\ request'[l].seen <= blacklist'.next
                      /\ \A lock \in ActiveLocks(blacklist', request'[l].ip, request'[l].now) :
                           lock.no >= request'[l].seen
  BY DEF SeenBefore, NoLockMissed, PastStationLock
<1>2. NoneRevived(blacklist, blacklist')
  BY NextRevivesNone
<1>3. /\ blacklist.next \in Nat /\ blacklist'.next \in Nat
      /\ blacklist'.records \subseteq Record
  BY DEF TypeOK, Blacklist
<1>4. CASE StationLock(l)
  <2>1. request[l] \in Waiting /\ request[l].now \in Nat
    BY <1>4, AtWaiting DEF StationLock, Awaits
  <2>2. ~(\E answer : Reply(l, answer))
    BY <1>1 DEF Reply, PastStationLock, TypeOK
  <2>3. /\ ~Locked(blacklist', request[l].ip, request[l].now)
        /\ request' = [request EXCEPT ![l].at = "userIdOf", ![l].seen = blacklist.next]
    BY <1>4, <2>2 DEF StationLock
  <2>4. request'[l] = [[request[l] EXCEPT !.at = "userIdOf"] EXCEPT !.seen = blacklist.next]
    BY <2>3 DEF TypeOK
  <2>5. /\ request'[l].ip = request[l].ip /\ request'[l].now = request[l].now
        /\ request'[l].seen = blacklist.next
    BY <2>1, <2>4 DEF Waiting
  <2> QED
    BY <1>2, <2>3, <2>5 DEF Locked, NoneRevived
<1>5. CASE ~StationLock(l)
  <2>1. /\ PastStationLock(l) /\ request'[l].ip = request[l].ip
        /\ request'[l].now = request[l].now /\ request'[l].seen = request[l].seen
    BY <1>1, <1>5, PastStationLockKept
  <2>2. request[l].seen \in Nat
    BY <2>1, AtWaiting DEF PastStationLock, At, Awaits, Waiting
  <2>3. request[l].seen <= blacklist.next
    BY <2>1 DEF SeenBefore
  <2>4. ASSUME NEW lock \in ActiveLocks(blacklist', request[l].ip, request[l].now)
        PROVE  lock.no >= request[l].seen
    <3>1. lock \in blacklist'.records /\ lock.state = "active" /\ lock.no \in Nat
      BY <1>3 DEF ActiveLocks, IsActive, Record
    <3>2. CASE lock \in blacklist.records
      BY <2>1, <3>2 DEF NoLockMissed, ActiveLocks, IsActive
    <3>3. CASE lock.no >= blacklist.next
      BY <1>3, <2>2, <2>3, <3>1, <3>3
    <3> QED
      BY <1>2, <3>1, <3>2, <3>3 DEF NoneRevived
  <2>5. request[l].seen <= blacklist'.next
    BY <1>2, <1>3, <2>2, <2>3 DEF NoneRevived
  <2> QED
    BY <2>1, <2>4, <2>5
<1> QED
  BY <1>4, <1>5

\* Only a lock recorded after a request read the blacklist can overrun it
\* (stationLock).
THEOREM NoLockIsMissed == Spec => []NoLockMissed
<1>1. Init => SeenBefore /\ NoLockMissed
  BY DEF Init, SeenBefore, NoLockMissed, PastStationLock, NotMade
<1>2. /\ TypeOK /\ TypeOK' /\ SeenBefore /\ NoLockMissed /\ [Next]_vars
      => SeenBefore' /\ NoLockMissed'
  BY NextKeepsSight
<1> QED
  BY <1>1, <1>2, TypeCorrect, PTL DEF Spec

-----------------------------------------------------------------------------
(* The refinement of LockLedger.  It needs one more fact: the times the     *)
(* requests started at are past, so no lock is ended before its deadline.   *)

Timely == \A l \in Login : request[l].at \in Awaits => request[l].now <= clock

LEMMA InitTimely == Init => Timely
BY DEF Init, Timely, NotMade, Awaits

\* A request goes on with its locals.
LEMMA LocalsKept ==
  ASSUME TypeOK, [Next]_vars, NEW l \in Login, request'[l].at \in Awaits,
         ~(\E ip \in Station : Present(l, ip))
  PROVE  request[l].at \in Awaits /\ request'[l].now = request[l].now
<1>1. CASE request'[l] = request[l]
  BY <1>1
<1>2. ASSUME NEW k \in Login, k # l, LoginStep(k)
      PROVE  request'[l] = request[l]
  BY <1>2 DEF LoginStep, Present, StationLock, LookUp, Refuse, Admit, BlacklistFails, GoTo,
              Reply, TypeOK
<1>3. ASSUME NEW answer, Reply(l, answer)
      PROVE  FALSE
  BY <1>3 DEF Reply, Awaits, TypeOK
<1>4. CASE StationLock(l)
  <2>1. request[l] \in Waiting /\ request[l].at \in Awaits
    BY <1>4, AtWaiting DEF StationLock, Awaits, At
  <2>2. request' = [request EXCEPT ![l].at = "userIdOf", ![l].seen = blacklist.next]
    BY <1>3, <1>4 DEF StationLock
  <2>3. request'[l] = [[request[l] EXCEPT !.at = "userIdOf"] EXCEPT !.seen = blacklist.next]
    BY <2>2 DEF TypeOK
  <2> QED
    BY <2>1, <2>3 DEF Waiting
<1>5. CASE LookUp(l)
  <2>1. request[l] \in Waiting /\ request[l].at \in Awaits
    BY <1>5, AtWaiting DEF LookUp, Awaits, At
  <2>2. PICK await \in {"refuse", "reset"} : GoTo(l, await)
    BY <1>3, <1>5 DEF LookUp
  <2>3. request'[l] = [request[l] EXCEPT !.at = await]
    BY <2>2 DEF GoTo, TypeOK
  <2> QED
    BY <2>1, <2>3 DEF Waiting
<1>6. CASE Refuse(l) \/ Admit(l) \/ BlacklistFails(l)
  BY <1>3, <1>6 DEF Refuse, Admit, BlacklistFails
<1>7. CASE Restart
  BY <1>1, <1>7 DEF Restart, Awaits, Lost, TypeOK
<1> QED
  BY <1>1, <1>2, <1>4, <1>5, <1>6, <1>7
  DEF Next, LoginStep, UnlockStation, ListBlacklist, PutSettings, Tick, vars

LEMMA ClockAdvances ==
  ASSUME TypeOK, [Next]_vars
  PROVE  clock' = clock \/ clock' = clock + 1
<1>1. ASSUME NEW l \in Login, LoginStep(l)
      PROVE  clock' = clock
  BY <1>1 DEF LoginStep, Present, StationLock, LookUp, Refuse, Admit, BlacklistFails
<1>2. CASE ListBlacklist \/ PutSettings \/ Restart \/ UNCHANGED vars
  BY <1>2 DEF ListBlacklist, PutSettings, Restart, vars
<1> QED
  BY <1>1, <1>2 DEF Next, UnlockStation, Tick

LEMMA NextTimely ==
  ASSUME TypeOK, Timely, [Next]_vars
  PROVE  Timely'
<1>1. clock \in Nat /\ (clock' = clock \/ clock' = clock + 1)
  BY ClockAdvances DEF TypeOK
<1>2. SUFFICES ASSUME NEW l \in Login, request'[l].at \in Awaits
               PROVE  request'[l].now <= clock'
  BY DEF Timely
<1>3. ASSUME NEW ip \in Station, Present(l, ip)
      PROVE  request'[l].now <= clock'
  <2>1. ~Reply(l, "disabled")
    BY <1>2 DEF Reply, Awaits, TypeOK
  <2>2. request'[l].now = clock
    BY <1>3, <2>1 DEF Present, TypeOK
  <2> QED
    BY <1>1, <2>2
<1>4. CASE ~(\E ip \in Station : Present(l, ip))
  <2>1. request[l].at \in Awaits /\ request'[l].now = request[l].now
    BY <1>2, <1>4, LocalsKept
  <2>2. request[l].now \in Nat /\ request[l].now <= clock
    BY <2>1, AtWaiting DEF At, Timely
  <2> QED
    BY <1>1, <2>1, <2>2
<1> QED
  BY <1>3, <1>4

LEMMA LedgerInit == Init => Ledger!Init
BY DEF Init, Ledger!Init, EmptyBlacklist

\* expire at a past time is a RunOut.
LEMMA LedgerRunOut ==
  ASSUME TypeOK, NEW now \in Nat, now <= clock, blacklist' = Expire(blacklist, now),
         clock' = clock
  PROVE  Ledger!Next
<1> DEFINE locks == {lock \in blacklist.records : lock.state = "active" /\ ~IsActive(lock, now)}
<1>1. blacklist'.next = blacklist.next
  BY DEF Expire, TypeOK, Blacklist
<1>2. blacklist'.records = (blacklist.records \ locks)
                             \union {Ledger!Ends(lock, "expired") : lock \in locks}
  <2>1. blacklist'.records =
          {record \in blacklist.records : ~(record.state = "active" /\ ~IsActive(record, now))}
            \union {[record EXCEPT !.state = "expired"] : record \in locks}
    BY DEF Expire, TypeOK, Blacklist
  <2>2. {Ledger!Ends(lock, "expired") : lock \in locks}
          = {[record EXCEPT !.state = "expired"] : record \in locks}
    BY DEF Ledger!Ends
  <2> QED
    BY <2>1, <2>2
<1>3. locks \subseteq Ledger!Overdue
  <2> SUFFICES ASSUME NEW lock \in locks
               PROVE  lock \in Ledger!Overdue
    OBVIOUS
  <2>1. /\ lock \in blacklist.records /\ lock.state = "active"
        /\ lock.lockedUntil # NoDeadline /\ ~(lock.lockedUntil > now)
    BY DEF IsActive
  <2>2. lock.lockedUntil \in Nat
    BY <2>1 DEF TypeOK, Blacklist, Record
  <2>3. lock.lockedUntil <= clock
    BY <2>1, <2>2 DEF TypeOK
  <2> QED
    BY <2>1, <2>3 DEF Ledger!Overdue, Ledger!Active
<1> HIDE DEF locks
<1>4. Ledger!RunOut(locks)
  BY <1>1, <1>2 DEF Ledger!RunOut
<1> QED
  BY <1>3, <1>4 DEF Ledger!Next

\* recordFailure at the threshold is an Issue: what bounded leaves out is ended.
LEMMA LedgerIssue ==
  ASSUME TypeOK, NEW ip \in Station, NEW now \in 0..clock,
         NEW duration \in {s.lockDurationMin : s \in Settings},
         blacklist' = LockStation(blacklist, ip, duration, now), clock' = clock
  PROVE  Ledger!Next
<1> DEFINE new == NewLock(blacklist.next, ip, duration, now)
           purged == blacklist.records \ Bounded(blacklist.records \union {new})
<1>1. /\ blacklist'.next = blacklist.next + 1
      /\ blacklist'.records = Bounded(blacklist.records \union {new})
  BY DEF LockStation
<1>2. new = [no |-> blacklist.next, ip |-> ip, lockedAt |-> now,
             lockedUntil |-> IF duration > 0 THEN now + duration ELSE NoDeadline,
             state |-> "active"]
  BY DEF NewLock
<1>3. \A record \in (blacklist.records \union {new})
                      \ Bounded(blacklist.records \union {new}) :
        record.state # "active"
  BY DEF Bounded
<1>4. Bounded(blacklist.records \union {new}) \subseteq blacklist.records \union {new}
  BY DEF Bounded
<1>5. new.state = "active"
  BY <1>2
<1> HIDE DEF new
<1>6. blacklist'.records = (blacklist.records \ purged) \union {new}
  BY <1>1, <1>3, <1>4, <1>5
<1>7. purged \in SUBSET (blacklist.records \ Ledger!Active)
  BY <1>3 DEF Ledger!Active
<1> HIDE DEF purged
<1>8. Ledger!Issue(ip, now, duration)
  BY <1>1, <1>2, <1>6, <1>7 DEF Ledger!Issue
<1> QED
  BY <1>8 DEF Ledger!Next

\* lift is a LiftOne.
LEMMA LedgerLift ==
  ASSUME TypeOK, NEW ip \in Station, UnlockStation(ip)
  PROVE  Ledger!Next
<1>1. PICK current \in blacklist.records :
        current.state = "active" /\ blacklist' = Lift(blacklist, ip, current)
  BY DEF UnlockStation, First, ActiveLocks, IsActive
<1>2. /\ blacklist'.records =
           (blacklist.records \ {current}) \union {[current EXCEPT !.state = "lifted"]}
      /\ blacklist'.next = blacklist.next /\ clock' = clock
  BY <1>1, LiftRevivesNone DEF TypeOK, UnlockStation
<1>3. current \in Ledger!Active /\ Ledger!LiftOne(current)
  BY <1>1, <1>2 DEF Ledger!Active, Ledger!LiftOne, Ledger!Ends
<1> QED
  BY <1>3 DEF Ledger!Next

LEMMA LedgerNext ==
  ASSUME TypeOK, Timely, [Next]_vars
  PROVE  [Ledger!Next]_Ledger!vars
<1>1. CASE UNCHANGED <<blacklist, clock>>
  BY <1>1 DEF Ledger!vars
<1>2. ASSUME NEW l \in Login, StationLock(l)
      PROVE  Ledger!Next
  <2>1. request[l].now \in Nat /\ request[l].now <= clock
    BY <1>2, AtWaiting DEF StationLock, At, Awaits, Timely
  <2> QED
    BY <1>2, <2>1, LedgerRunOut DEF StationLock
<1>3. ASSUME NEW l \in Login, Refuse(l)
      PROVE  [Ledger!Next]_Ledger!vars
  <2>1. /\ request[l].ip \in Station /\ request[l].now \in 0..clock
        /\ request[l].settings \in Settings
    BY <1>3, AtWaiting DEF Refuse, At, Awaits, Timely, TypeOK
  <2>2. clock' = clock
    BY <1>3 DEF Refuse
  <2>3. CASE blacklist' = LockStation(blacklist, request[l].ip,
                                      request[l].settings.lockDurationMin, request[l].now)
    BY <2>1, <2>2, <2>3, LedgerIssue
  <2>4. CASE blacklist' \in CountFailure(blacklist, request[l].ip, request[l].now)
    BY <2>2, <2>4, CountFailureRevivesNone DEF Ledger!vars, TypeOK
  <2> QED
    BY <1>1, <1>3, <2>2, <2>3, <2>4 DEF Refuse
<1>4. ASSUME NEW l \in Login, Admit(l)
      PROVE  UNCHANGED Ledger!vars
  BY <1>4, ResetRevivesNone DEF Admit, TypeOK, Ledger!vars
<1>5. ASSUME NEW ip \in Station, UnlockStation(ip)
      PROVE  Ledger!Next
  BY <1>5, LedgerLift
<1>6. CASE ListBlacklist
  <2>1. PICK now \in 0..clock : blacklist' = Expire(blacklist, now)
    BY <1>6 DEF ListBlacklist
  <2>2. now \in Nat /\ now <= clock /\ clock' = clock
    BY <1>6 DEF ListBlacklist, TypeOK
  <2> QED
    BY <2>1, <2>2, LedgerRunOut
<1>7. CASE Tick
  BY <1>7 DEF Tick, Ledger!Tick, Ledger!Next
<1> QED
  BY <1>1, <1>2, <1>3, <1>4, <1>5, <1>6, <1>7
  DEF Next, LoginStep, Present, LookUp, BlacklistFails, PutSettings, Restart, vars

\* The locks are those of the ledger: each recorded once, ended only by its
\* deadline or by hand, and purged only once ended — whatever the requests, the
\* settings, the page and the restarts interleave.
THEOREM LocksAreALedger == Spec => LedgerSpec
<1>1. TypeOK /\ Timely /\ [Next]_vars => Timely' /\ [Ledger!Next]_Ledger!vars
  BY NextTimely, LedgerNext
<1>2. Spec => Ledger!Init /\ [][Ledger!Next]_Ledger!vars
  BY <1>1, LedgerInit, InitTimely, TypeCorrect, PTL DEF Spec
<1> QED
  BY <1>2 DEF LedgerSpec, Ledger!Spec

-----------------------------------------------------------------------------
(* CountKept: what lowers a count.                                          *)

\* What a step makes of the blacklist.
LEMMA BlacklistChanges ==
  ASSUME TypeOK, [Next]_vars
  PROVE  \/ blacklist' = blacklist
         \/ \E now \in Nat : blacklist' = Expire(blacklist, now)
         \/ \E ip \in Station, now \in Nat : blacklist' \in CountFailure(blacklist, ip, now)
         \/ \E ip \in Station, duration \in Nat, now \in Nat :
              blacklist' = LockStation(blacklist, ip, duration, now)
         \/ \E l \in Login, ip \in Station :
              Opens(l, ip) /\ blacklist' = ResetFailures(blacklist, ip)
         \/ \E ip \in Station : \E current \in ActiveLocks(blacklist, ip, clock) :
              blacklist' = Lift(blacklist, ip, current)
<1>1. ASSUME NEW l \in Login, StationLock(l)
      PROVE  \E now \in Nat : blacklist' = Expire(blacklist, now)
  BY <1>1, AtWaiting DEF StationLock, Awaits
<1>2. CASE ListBlacklist
  BY <1>2 DEF ListBlacklist, TypeOK
<1>3. ASSUME NEW l \in Login, Refuse(l)
      PROVE  \/ blacklist' = blacklist
             \/ \E ip \in Station, now \in Nat : blacklist' \in CountFailure(blacklist, ip, now)
             \/ \E ip \in Station, duration \in Nat, now \in Nat :
                  blacklist' = LockStation(blacklist, ip, duration, now)
  BY <1>3, AtWaiting DEF Refuse, Awaits
<1>4. ASSUME NEW l \in Login, Admit(l)
      PROVE  \E ip \in Station : Opens(l, ip) /\ blacklist' = ResetFailures(blacklist, ip)
  <2>1. request[l].ip \in Station /\ At(l, "reset")
    BY <1>4, AtWaiting DEF Admit, Awaits
  <2>2. request'[l].at = "answered"
    BY <1>4 DEF Admit, Reply, TypeOK
  <2> QED
    BY <1>4, <2>1, <2>2 DEF Admit, Opens
<1>5. ASSUME NEW ip \in Station, UnlockStation(ip)
      PROVE  \E current \in ActiveLocks(blacklist, ip, clock) :
               blacklist' = Lift(blacklist, ip, current)
  BY <1>5 DEF UnlockStation, First
<1> QED
  BY <1>1, <1>2, <1>3, <1>4, <1>5
  DEF Next, LoginStep, Present, LookUp, BlacklistFails, PutSettings, Tick, Restart, vars

\* Every lock has a number already given: a new one is none of them.
Numbered(bl) == \A record \in bl.records : record.no < bl.next

LEMMA ExpireNumbered ==
  ASSUME NEW bl \in Blacklist, Numbered(bl), NEW now \in Nat
  PROVE  Numbered(Expire(bl, now))
<1>1. Expire(bl, now).next = bl.next
  BY DEF Expire, Blacklist
<1>2. ASSUME NEW record \in Expire(bl, now).records
      PROVE  \E r \in bl.records : record.no = r.no
  <2>1. PICK r \in bl.records : record = r \/ record = [r EXCEPT !.state = "expired"]
    BY DEF Expire, Blacklist
  <2>2. [r EXCEPT !.state = "expired"].no = r.no
    BY DEF Blacklist, Record
  <2> QED
    BY <2>1, <2>2
<1> QED
  BY <1>1, <1>2 DEF Numbered

LEMMA LockStationNumbered ==
  ASSUME NEW bl \in Blacklist, Numbered(bl), NEW ip \in Station, NEW duration \in Nat,
         NEW now \in Nat
  PROVE  Numbered(LockStation(bl, ip, duration, now))
<1> DEFINE new == NewLock(bl.next, ip, duration, now)
<1>1. bl.next \in Nat /\ new.no = bl.next /\ \A r \in bl.records : r.no \in Nat
  BY DEF Blacklist, NewLock, Record
<1>2. LockStation(bl, ip, duration, now).records \subseteq bl.records \union {new}
  BY DEF LockStation, Bounded
<1>3. LockStation(bl, ip, duration, now).next = bl.next + 1
  BY DEF LockStation
<1> HIDE DEF new
<1> QED
  BY <1>1, <1>2, <1>3 DEF Numbered

LEMMA LiftNumbered ==
  ASSUME NEW bl \in Blacklist, Numbered(bl), NEW ip, NEW current \in bl.records
  PROVE  Numbered(Lift(bl, ip, current))
<1> DEFINE ended == [current EXCEPT !.state = "lifted"]
<1>1. ended.no = current.no
  BY DEF Blacklist, Record
<1>2. /\ Lift(bl, ip, current).records = (bl.records \ {current}) \union {ended}
      /\ Lift(bl, ip, current).next = bl.next
  BY LiftRevivesNone
<1> HIDE DEF ended
<1> QED
  BY <1>1, <1>2 DEF Numbered

InOrder == Numbered(blacklist)

\* Locks are numbered one after the other.
LEMMA LocksNumbered == Spec => []InOrder
<1>1. Init => InOrder
  BY DEF Init, EmptyBlacklist, Numbered, InOrder
<1>2. TypeOK /\ InOrder /\ [Next]_vars => InOrder'
  <2> SUFFICES ASSUME TypeOK, Numbered(blacklist), [Next]_vars
               PROVE  Numbered(blacklist')
    BY DEF InOrder, Numbered
  <2>1. blacklist \in Blacklist
    BY DEF TypeOK
  <2>2. ASSUME NEW ip, NEW now, NEW counted \in CountFailure(blacklist, ip, now)
        PROVE  Numbered(counted)
    BY <2>1, CountFailureRevivesNone DEF Numbered
  <2>3. ASSUME NEW ip
        PROVE  Numbered(ResetFailures(blacklist, ip))
    BY <2>1, ResetRevivesNone DEF Numbered
  <2> QED
    BY <2>1, <2>2, <2>3, BlacklistChanges, ExpireNumbered, LockStationNumbered, LiftNumbered
    DEF ActiveLocks
<1> QED
  BY <1>1, <1>2, TypeCorrect, PTL DEF Spec

\* A lock recorded, or lifted, is a change of the station's locks.
LEMMA LockingShows ==
  ASSUME NEW bl \in Blacklist, Numbered(bl), NEW ip \in Station, NEW duration \in Nat,
         NEW now \in Nat, NEW later, later = LockStation(bl, ip, duration, now)
  PROVE  {record \in later.records : record.ip = ip} # {record \in bl.records : record.ip = ip}
<1> DEFINE new == NewLock(bl.next, ip, duration, now)
<1>1. new.ip = ip /\ new.no = bl.next /\ new.state = "active"
  BY DEF NewLock
<1>2. new \in Bounded(bl.records \union {new})
  BY <1>1 DEF Bounded
<1>3. new \notin bl.records
  BY <1>1 DEF Numbered, Blacklist
<1> QED
  BY <1>1, <1>2, <1>3 DEF LockStation

LEMMA LiftingShows ==
  ASSUME NEW bl \in Blacklist, NEW ip \in Station, NEW now,
         NEW current \in ActiveLocks(bl, ip, now), NEW later, later = Lift(bl, ip, current)
  PROVE  {record \in later.records : record.ip = ip} # {record \in bl.records : record.ip = ip}
<1>1. current \in bl.records /\ current.ip = ip /\ current.state = "active"
  BY DEF ActiveLocks, IsActive
<1>2. [current EXCEPT !.state = "lifted"].state = "lifted"
  BY <1>1 DEF Blacklist, Record
<1>3. later.records = (bl.records \ {current}) \union {[current EXCEPT !.state = "lifted"]}
  BY <1>1, LiftRevivesNone
<1>4. current \notin later.records
  BY <1>1, <1>2, <1>3
<1> QED
  BY <1>1, <1>4

\* recordFailure lowers no count but the oldest one, when too many are counted.
LEMMA CountFailureKeeps ==
  ASSUME NEW bl \in Blacklist, FewCounted(bl.counters), NEW ip \in Station, NEW now \in Nat,
         NEW counted \in CountFailure(bl, ip, now), NEW s \in Station,
         counted.counters[s].failures < bl.counters[s].failures
  PROVE  /\ Cardinality(Counted(counted.counters)) = MaxCounters
         /\ \A other \in Counted(counted.counters) :
              bl.counters[s].lastAt <= counted.counters[other].lastAt
<1> DEFINE counters == [bl.counters EXCEPT ![ip] = [failures |-> @.failures + 1, lastAt |-> now]]
<1>1. counters \in [Station -> Count] /\ bl.counters \in [Station -> Count]
  BY DEF Blacklist, Count
<1>2. counters[s].failures >= bl.counters[s].failures
  BY <1>1 DEF Count
<1>3. counters[s].failures \in Nat /\ bl.counters[s].failures \in Nat
  BY <1>1 DEF Count
<1>4. s \in Counted(bl.counters)
  <2>1. counted \in Blacklist
    BY CountFailureType
  <2>2. counted.counters[s].failures \in Nat
    BY <2>1 DEF Blacklist, Count
  <2> QED
    BY <1>3, <2>2 DEF Counted
<1>5. s # ip => counters[s] = bl.counters[s]
  BY <1>1
<1>6. Counted(counters) = Counted(bl.counters) \union {ip}
  BY <1>1 DEF Counted, Count
<1> HIDE DEF counters
<1>7. counted.counters # counters
  BY <1>2, <1>3
<1>8. PICK lost \in Dropped(counters, ip) :
             /\ counted.counters = [counters EXCEPT ![lost] = NoCount]
             /\ ~(Cardinality(Counted(counters)) <= MaxCounters)
  BY <1>7 DEF CountFailure, counters, Blacklist
<1>9. lost = s
  <2>1. lost \in Station
    BY DEF Dropped, Oldest, Counted
  <2> QED
    BY <1>1, <1>2, <1>3, <1>8, <2>1
<1>10. s # ip
  <2> SUFFICES ASSUME s = ip PROVE FALSE
    OBVIOUS
  <2>1. Counted(counters) = Counted(bl.counters)
    BY <1>4, <1>6
  <2> QED
    BY <1>8, <2>1 DEF FewCounted
<1>11. /\ s \in Counted(counters)
       /\ \A other \in Counted(counters) : counters[s].lastAt <= counters[other].lastAt
  BY <1>8, <1>9, <1>10 DEF Dropped, Oldest
<1>12. Counted(counted.counters) = Counted(counters) \ {s}
  BY <1>1, <1>8, <1>9 DEF Counted, NoCount, Count
<1>13. Cardinality(Counted(counted.counters)) = MaxCounters
  <2>1. /\ IsFiniteSet(Counted(bl.counters))
        /\ Cardinality(Counted(bl.counters)) \in Nat
        /\ Cardinality(Counted(bl.counters)) <= MaxCounters
    BY FS_CardinalityType DEF FewCounted
  <2>2. /\ IsFiniteSet(Counted(counters))
        /\ Cardinality(Counted(counters))
             \in {Cardinality(Counted(bl.counters)), Cardinality(Counted(bl.counters)) + 1}
    <3> DEFINE S == Counted(bl.counters)
    <3> HIDE DEF S
    <3> SUFFICES ASSUME IsFiniteSet(S)
                 PROVE  /\ IsFiniteSet(S \union {ip})
                        /\ Cardinality(S \union {ip}) \in {Cardinality(S), Cardinality(S) + 1}
      BY <1>6, <2>1 DEF S
    <3> QED
      BY FS_AddElement
  <2>3. Cardinality(Counted(counters)) = MaxCounters + 1
    BY <1>8, <2>1, <2>2, BlacklistAssumption
  <2>4. Cardinality(Counted(counters) \ {s}) = Cardinality(Counted(counters)) - 1
    BY <1>11, <2>2, FS_RemoveElement
  <2> QED
    BY <1>12, <2>3, <2>4, BlacklistAssumption
<1>14. ASSUME NEW other \in Counted(counted.counters)
       PROVE  bl.counters[s].lastAt <= counted.counters[other].lastAt
  <2>1. other \in Counted(counters) /\ other # s /\ other \in Station
    BY <1>12 DEF Counted
  <2>2. counted.counters[other] = counters[other]
    BY <1>1, <1>8, <1>9, <2>1
  <2> QED
    BY <1>5, <1>10, <1>11, <2>1, <2>2
<1> QED
  BY <1>13, <1>14

\* No station's refusals are forgotten by another request's change: only a session
\* opened there, a lock of the station recorded or lifted, or its being the oldest
\* of too many counts lowers its count (recordFailure, resetFailures, lift).
THEOREM CountsAreKept == Spec => CountKept
<1> DEFINE Kept(ip) ==
      blacklist'.counters[ip].failures < blacklist.counters[ip].failures =>
        \/ \E l \in Login : Opens(l, ip)
        \/ LocksOf(ip)' # LocksOf(ip)
        \/ /\ Cardinality(Counted(blacklist'.counters)) = MaxCounters
           /\ \A other \in Counted(blacklist'.counters) :
                blacklist.counters[ip].lastAt <= blacklist'.counters[other].lastAt
<1>1. TypeOK /\ Few /\ InOrder /\ [Next]_vars => \A ip \in Station : Kept(ip)
  <2> SUFFICES ASSUME TypeOK, Few, Numbered(blacklist), [Next]_vars, NEW s \in Station,
                      blacklist'.counters[s].failures < blacklist.counters[s].failures
               PROVE  Kept(s)
    BY DEF InOrder
  <2>1. blacklist \in Blacklist /\ blacklist.counters[s].failures \in Nat
    BY DEF TypeOK, Blacklist, Count
  <2>2. ASSUME NEW ip \in Station, blacklist'.counters = [blacklist.counters EXCEPT ![ip] = NoCount]
        PROVE  s = ip
    BY <2>1, <2>2 DEF Blacklist
  <2>3. ASSUME blacklist'.counters = blacklist.counters
        PROVE  FALSE
    BY <2>1, <2>3
  <2>4. ASSUME NEW now \in Nat, blacklist' = Expire(blacklist, now)
        PROVE  FALSE
    BY <2>1, <2>3, <2>4, OthersCounts
  <2>5. ASSUME NEW ip \in Station, NEW now \in Nat, blacklist' \in CountFailure(blacklist, ip, now)
        PROVE  Kept(s)
    BY <2>1, <2>5, CountFailureKeeps DEF Few
  <2>6. ASSUME NEW ip \in Station, NEW duration \in Nat, NEW now \in Nat,
               blacklist' = LockStation(blacklist, ip, duration, now)
        PROVE  LocksOf(s)' # LocksOf(s)
    <3>1. s = ip
      BY <2>2, <2>6 DEF LockStation
    <3> QED
      BY <2>1, <2>6, <3>1, LockingShows DEF LocksOf
  <2>7. ASSUME NEW l \in Login, NEW ip \in Station, Opens(l, ip),
               blacklist' = ResetFailures(blacklist, ip)
        PROVE  Opens(l, s)
    BY <2>1, <2>2, <2>7 DEF ResetFailures, Blacklist
  <2>8. ASSUME NEW ip \in Station, NEW current \in ActiveLocks(blacklist, ip, clock),
               blacklist' = Lift(blacklist, ip, current)
        PROVE  LocksOf(s)' # LocksOf(s)
    <3>1. s = ip
      BY <2>1, <2>2, <2>8 DEF Lift, ResetFailures, Blacklist
    <3> QED
      BY <2>1, <2>8, <3>1, LiftingShows DEF LocksOf
  <2> QED
    BY <2>3, <2>4, <2>5, <2>6, <2>7, <2>8, BlacklistChanges
<1>2. TypeOK /\ Few /\ InOrder /\ [Next]_vars => [\A ip \in Station : Kept(ip)]_vars
  BY <1>1
<1> QED
  BY <1>2, TypeCorrect, FewStay, LocksNumbered, PTL DEF Spec, CountKept

-----------------------------------------------------------------------------
(* The queue of one webserver's changes (BlacklistQueue), for any calls,    *)
(* blacklists and changes: the runs of updateBlacklist write what they read *)
(* changed, and implement atomic updates.                                   *)

\* The inductive invariant.  A run at its write has created the DP: without
\* that, its write could leave a value in a DP that does not exist.
WritesReady == phase = "write" => ready

QueueInv == QueueTypeOK /\ WritesWhatItRead /\ AbsentIsEmpty /\ WritesReady

LEMMA SettleType ==
  ASSUME QueueTypeOK, pending # <<>>, NEW result \in {"done", "failed"}, Settle(result)
  PROVE  /\ pending' \in Seq(Job)
         /\ phase' = "read"
         /\ outcome' \in [Job -> {"notCalled", "pending", "done", "failed", "lost"}]
<1>1. Tail(pending) \in Seq(Job)
  BY HeadTailProperties DEF QueueTypeOK
<1>2. pending' \in Seq(Job) /\ phase' = "read"
  BY <1>1 DEF Settle
<1>3. outcome' \in [Job -> {"notCalled", "pending", "done", "failed", "lost"}]
  BY DEF QueueTypeOK, Settle
<1> QED
  BY <1>2, <1>3

LEMMA JobIsCall ==
  ASSUME QueueTypeOK, pending # <<>>
  PROVE  Job1 \in Job
BY HeadTailProperties DEF QueueTypeOK, Job1

LEMMA QueueInitInv == QueueInit => QueueInv
<1> SUFFICES ASSUME QueueInit PROVE QueueInv
  OBVIOUS
<1> USE DEF QueueInit
<1>1. QueueTypeOK
  BY QueueAssumption, EmptySeq DEF QueueTypeOK
<1>2. WritesWhatItRead
  BY DEF WritesWhatItRead
<1>3. AbsentIsEmpty
  BY DEF AbsentIsEmpty
<1>4. WritesReady
  BY DEF WritesReady
<1> QED
  BY <1>1, <1>2, <1>3, <1>4 DEF QueueInv

LEMMA CallInv ==
  ASSUME QueueInv, NEW j \in Job, Call(j)
  PROVE  QueueInv'
<1> USE DEF Call
<1>1. Append(pending, j) \in Seq(Job)
  BY AppendProperties DEF QueueInv, QueueTypeOK
<1>2. QueueTypeOK'
  BY <1>1 DEF QueueInv, QueueTypeOK
<1>3. WritesWhatItRead'
  <2> SUFFICES ASSUME phase # "read"
               PROVE  pending' # <<>> /\ after = Change[Job1'][dp]
    BY DEF WritesWhatItRead, Job1
  <2>1. pending \in Seq(Job) /\ pending # <<>> /\ after = Change[Head(pending)][dp]
    BY DEF QueueInv, QueueTypeOK, WritesWhatItRead, Job1
  <2>2. Head(Append(pending, j)) = Head(pending) /\ Append(pending, j) # <<>>
    BY <2>1, AppendProperties, HeadTailAppend
  <2> QED
    BY <2>1, <2>2 DEF Job1
<1>4. AbsentIsEmpty' /\ WritesReady'
  BY DEF QueueInv, AbsentIsEmpty, WritesReady
<1> QED
  BY <1>2, <1>3, <1>4 DEF QueueInv

LEMMA ReadAndChangeInv ==
  ASSUME QueueInv, ReadAndChange
  PROVE  QueueInv'
<1> DEFINE before == IF schema = "dp" THEN dp ELSE Empty
           changed == Change[Job1][before]
<1>1. pending # <<>> /\ phase = "read" /\ UNCHANGED <<dp, schema, ready>>
  BY DEF ReadAndChange, Running
<1>2. before = dp
  BY DEF QueueInv, AbsentIsEmpty
<1>3. Job1 \in Job /\ dp \in Value
  BY <1>1, JobIsCall DEF QueueInv, QueueTypeOK
<1>4. changed \in Value
  BY <1>2, <1>3, QueueAssumption
<1>5. CASE Settle("done") /\ UNCHANGED after
  <2>1. QueueTypeOK' /\ phase' = "read"
    BY <1>1, <1>5, SettleType DEF QueueInv, QueueTypeOK
  <2> QED
    BY <1>1, <2>1 DEF QueueInv, WritesWhatItRead, AbsentIsEmpty, WritesReady
<1>6. CASE after' = changed /\ phase' = "ensure" /\ UNCHANGED <<pending, outcome>>
  <2>1. QueueTypeOK'
    BY <1>1, <1>4, <1>6 DEF QueueInv, QueueTypeOK
  <2>2. WritesWhatItRead'
    BY <1>1, <1>2, <1>6 DEF WritesWhatItRead, Job1
  <2>3. AbsentIsEmpty' /\ WritesReady'
    BY <1>1, <1>6 DEF QueueInv, AbsentIsEmpty, WritesReady
  <2> QED
    BY <2>1, <2>2, <2>3 DEF QueueInv
<1> QED
  BY <1>5, <1>6 DEF ReadAndChange

LEMMA EnsureInv ==
  ASSUME QueueInv, Ensure
  PROVE  QueueInv'
<1> USE DEF Ensure, Running
<1>1. QueueTypeOK'
  BY DEF QueueInv, QueueTypeOK
<1>2. WritesWhatItRead'
  BY DEF QueueInv, WritesWhatItRead, Job1
<1>3. AbsentIsEmpty' /\ WritesReady'
  BY DEF QueueInv, AbsentIsEmpty, WritesReady
<1> QED
  BY <1>1, <1>2, <1>3 DEF QueueInv

LEMMA WriteInv ==
  ASSUME QueueInv, Write
  PROVE  QueueInv'
<1>1. /\ pending # <<>> /\ phase = "write" /\ dp' = after
      /\ UNCHANGED <<schema, ready, after>>
  BY DEF Write, Running
<1>2. QueueTypeOK' /\ phase' = "read"
  BY <1>1, SettleType DEF QueueInv, QueueTypeOK, Write
<1>3. schema = "dp"
  BY <1>1 DEF QueueInv, WritesReady, AbsentIsEmpty
<1> QED
  BY <1>1, <1>2, <1>3 DEF QueueInv, WritesWhatItRead, AbsentIsEmpty, WritesReady

LEMMA FailsInv ==
  ASSUME QueueInv, ReadOrWriteFails \/ EnsureFails
  PROVE  QueueInv'
<1>1. pending # <<>> /\ Settle("failed")
  BY DEF ReadOrWriteFails, EnsureFails, Running
<1>2. /\ UNCHANGED <<dp, ready, after>>
      /\ schema' \in {schema, "type"}
      /\ schema = "dp" => schema' = "dp"
  BY DEF ReadOrWriteFails, EnsureFails
<1>3. QueueTypeOK' /\ phase' = "read"
  BY <1>1, <1>2, SettleType DEF QueueInv, QueueTypeOK
<1> QED
  BY <1>2, <1>3 DEF QueueInv, WritesWhatItRead, AbsentIsEmpty, WritesReady

LEMMA RestartInv ==
  ASSUME QueueInv, QueueRestart
  PROVE  QueueInv'
<1> USE DEF QueueRestart
<1>1. QueueTypeOK'
  BY EmptySeq DEF QueueInv, QueueTypeOK
<1> QED
  BY <1>1 DEF QueueInv, WritesWhatItRead, AbsentIsEmpty, WritesReady

LEMMA QueueNextInv == QueueInv /\ [QueueNext]_queueVars => QueueInv'
<1> SUFFICES ASSUME QueueInv, [QueueNext]_queueVars PROVE QueueInv'
  OBVIOUS
<1>1. CASE \E j \in Job : Call(j)
  BY <1>1, CallInv
<1>2. CASE Run
  BY <1>2, ReadAndChangeInv, EnsureInv, WriteInv, FailsInv DEF Run
<1>3. CASE QueueRestart
  BY <1>3, RestartInv
<1>4. CASE UNCHANGED queueVars
  BY <1>4 DEF queueVars, QueueInv, QueueTypeOK, WritesWhatItRead, AbsentIsEmpty, WritesReady, Job1
<1> QED
  BY <1>1, <1>2, <1>3, <1>4 DEF QueueNext

\* The inductive invariant holds.
THEOREM QueueInvariant == QueueSpec => []QueueInv
<1> QED
  BY QueueInitInv, QueueNextInv, PTL DEF QueueSpec

\* Every variable keeps its type: the queue holds calls, each with one outcome.
THEOREM QueueTypeCorrect == QueueSpec => []QueueTypeOK
<1>1. QueueInv => QueueTypeOK
  BY DEF QueueInv
<1> QED
  BY <1>1, QueueInvariant, PTL

\* Every run writes its change of the stored value: nothing came between its
\* read and its write (updateBlacklist's queue).
THEOREM WritesWhatTheyRead == QueueSpec => []WritesWhatItRead
<1>1. QueueInv => WritesWhatItRead
  BY DEF QueueInv
<1> QED
  BY <1>1, QueueInvariant, PTL

\* A DP that could not be created holds nothing, and is not remembered as ready
\* (ensureBlacklistDp).
THEOREM AbsentAreEmpty == QueueSpec => []AbsentIsEmpty
<1>1. QueueInv => AbsentIsEmpty
  BY DEF QueueInv
<1> QED
  BY <1>1, QueueInvariant, PTL

-----------------------------------------------------------------------------
(* The refinement: a run is applied at its write — or at its read, when its *)
(* change gives the same value back.                                        *)

LEMMA AtomicInit == QueueInit => Atomic!Init
BY DEF QueueInit, Atomic!Init

LEMMA AtomicSettle ==
  ASSUME NEW result, pending # <<>>, Settle(result)
  PROVE  Atomic!Settle(result)
BY DEF Settle, Job1, Atomic!Settle

LEMMA AtomicRead ==
  ASSUME QueueInv, ReadAndChange
  PROVE  [Atomic!Next]_Atomic!vars
<1>1. pending # <<>> /\ dp' = dp
  BY DEF ReadAndChange, Running
<1>2. (IF schema = "dp" THEN dp ELSE Empty) = dp
  BY DEF QueueInv, AbsentIsEmpty
<1>3. CASE Change[Job1][dp] = dp /\ Settle("done")
  BY <1>1, <1>3, AtomicSettle DEF Atomic!Apply, Atomic!Next, Job1
<1>4. CASE UNCHANGED <<pending, outcome>>
  BY <1>1, <1>4 DEF Atomic!vars
<1> QED
  BY <1>2, <1>3, <1>4 DEF ReadAndChange

LEMMA AtomicWrite ==
  ASSUME QueueInv, Write
  PROVE  Atomic!Next
<1>1. pending # <<>> /\ dp' = after /\ Settle("done") /\ phase = "write"
  BY DEF Write, Running
<1>2. after = Change[Head(pending)][dp]
  BY <1>1 DEF QueueInv, WritesWhatItRead, Job1
<1> QED
  BY <1>1, <1>2, AtomicSettle DEF Atomic!Apply, Atomic!Next

LEMMA AtomicFails ==
  ASSUME ReadOrWriteFails \/ EnsureFails
  PROVE  Atomic!Next
<1>1. pending # <<>> /\ Settle("failed") /\ dp' = dp
  BY DEF ReadOrWriteFails, EnsureFails, Running
<1> QED
  BY <1>1, AtomicSettle DEF Atomic!Fail, Atomic!Next

LEMMA AtomicNext == QueueInv /\ [QueueNext]_queueVars => [Atomic!Next]_Atomic!vars
<1> SUFFICES ASSUME QueueInv, [QueueNext]_queueVars PROVE [Atomic!Next]_Atomic!vars
  OBVIOUS
<1>1. CASE \E j \in Job : Call(j)
  BY <1>1 DEF Call, Atomic!Call, Atomic!Next
<1>2. CASE ReadAndChange
  BY <1>2, AtomicRead
<1>3. CASE Ensure
  BY <1>3 DEF Ensure, Atomic!vars
<1>4. CASE Write
  BY <1>4, AtomicWrite
<1>5. CASE ReadOrWriteFails \/ EnsureFails
  BY <1>5, AtomicFails
<1>6. CASE QueueRestart
  BY <1>6 DEF QueueRestart, Atomic!Restart, Atomic!Next
<1>7. CASE UNCHANGED queueVars
  BY <1>7 DEF queueVars, Atomic!vars
<1> QED
  BY <1>1, <1>2, <1>3, <1>4, <1>5, <1>6, <1>7 DEF QueueNext, Run

\* The serialised runs implement atomic updates of the stored value, applied in
\* the order of the calls, whatever fails and whenever the webserver restarts.
THEOREM Atomicity == QueueSpec => AtomicSpec
<1>1. QueueSpec => Atomic!Init /\ [][Atomic!Next]_Atomic!vars
  BY AtomicInit, AtomicNext, QueueInvariant, PTL DEF QueueSpec
<1> QED
  BY <1>1 DEF AtomicSpec, Atomic!Spec
=============================================================================
