-------------------------- MODULE BadgeStoreProofs --------------------------
(* Proofs about BadgeStore, for any users, numbers, requests and operations: *)
(* as long as no request wrote on the strength of something stale, a badge   *)
(* number is one user's, every badge opens by the rule of the setting, and a *)
(* PUT changes what it names.                                                *)
EXTENDS BadgeStore, TLAPS

\* The await a request stands at belongs to its operation.
AskFits(local) ==
  /\ local.at \in {"readSettings", "findOwner", "writeBadge"} =>
       local.ask.op \in {"enrol", "enrolUser"}
  /\ local.at \in {"canChangeOwn", "removeBadge"} =>
       local.ask.op \in {"enrol", "forget", "forgetUser"}
  /\ local.at \in {"before", "scan", "rewrite", "merge", "store"} =>
       local.ask.op = "putSettings"
  /\ local.at \in {"scan", "rewrite"} => TurnsOn(local.ask.patch)
  /\ local.at = "merge" => ~TurnsOn(local.ask.patch)

\* What a request goes by that is not stale, the badges being bs and the
\* settings st: the setting it read, no other holder of its number, the numbers
\* in clear still to be rewritten, none left when it is about to turn
\* hashBadges on, and the settings its patch is put over.
GoesByStored(local, bs, st) ==
  /\ local.at \in {"findOwner", "writeBadge"} => local.hashBadges = st.hashBadges
  /\ local.at = "writeBadge" =>
       \A u \in User \ {local.ask.user} : bs[u] # None => bs[u].number # local.ask.number
  /\ local.at = "rewrite" =>
       \A u \in User : /\ u \in local.left <=> Clear(bs[u])
                       /\ u \in local.left => bs[u] = local.scanned[u]
  /\ local.at = "store" =>
       /\ local.merged = Merged(st, local.ask.patch)
       /\ TurnsOn(local.ask.patch) => \A u \in User : ~Clear(bs[u])

\* sw: a stale write has already happened, and all bets are off.
Sound(local, bs, st, sw) ==
  local.at \in Await => /\ AskFits(local)
                        /\ ~local.stale /\ ~sw => GoesByStored(local, bs, st)

\* The inductive invariant.
Inv ==
  /\ TypeOK
  /\ \A r \in Request : Sound(request[r], badges, settings, staleWrite)
  /\ UniqueUnlessStale
  /\ OpensUnlessStale

-----------------------------------------------------------------------------
(* The operators. *)

LEMMA MergedType ==
  ASSUME NEW value \in BadgeSettings, NEW patch \in Patch
  PROVE  Merged(value, patch) \in BadgeSettings
BY DEF BadgeSettings, Patch, Merged

LEMMA MergedTurnsOn ==
  ASSUME NEW value \in BadgeSettings, NEW patch \in Patch, Merged(value, patch).hashBadges
  PROVE  TurnsOn(patch) \/ value.hashBadges
BY DEF BadgeSettings, Patch, Merged, TurnsOn

LEMMA AskType ==
  ASSUME NEW ask \in Operation
  PROVE  /\ ask.op \in {"enrol", "enrolUser"} => ask.user \in User /\ ask.number \in Number
         /\ ask.op \in {"forget", "forgetUser"} => ask.user \in User
         /\ ask.op = "putSettings" => ask.patch \in Patch
         /\ ask.op \in {"enrol", "enrolUser", "forget", "forgetUser", "putSettings"}
BY StoreAssumption DEF Operations

LEMMA InFlightAt ==
  ASSUME TypeOK, NEW r \in Request, request[r].at \in Await
  PROVE  request[r] \in InFlight
BY DEF TypeOK, Over, Await

LEMMA BadgesTyped ==
  ASSUME TypeOK, NEW u \in User
  PROVE  badges[u] \in Badge \union {None}
BY DEF TypeOK

LEMMA ReadableType ==
  ASSUME TypeOK
  PROVE  Readable \subseteq BadgeSettings
<1>1. Defaults \in BadgeSettings
  BY DEF Defaults, BadgeSettings
<1>2. settings \in BadgeSettings /\ cache \in BadgeSettings \union {None}
  BY DEF TypeOK
<1> QED
  BY <1>1, <1>2 DEF Readable

LEMMA InitInv == Init => Inv
<1> SUFFICES ASSUME Init PROVE Inv
  OBVIOUS
<1>1. TypeOK
  BY DEF Init, TypeOK, Over
<1>2. \A r \in Request : Sound(request[r], badges, settings, staleWrite)
  BY DEF Init, Sound, Await
<1>3. UniqueUnlessStale /\ OpensUnlessStale
  BY DEF Init, UniqueUnlessStale, OpensUnlessStale
<1> QED
  BY <1>1, <1>2, <1>3 DEF Inv

-----------------------------------------------------------------------------
(* Two kinds of steps: those that write nothing, and those that write and   *)
(* outdate what the other requests have read.                               *)

LEMMA QuietStep ==
  ASSUME Inv, NEW r \in Request, NEW local \in InFlight \union [at : Over],
         Goes(r, local), Sound(local, badges, settings, staleWrite),
         UNCHANGED <<badges, settings, staleWrite>>,
         cache' \in BadgeSettings \union {None}
  PROVE  Inv'
<1>1. TypeOK'
  BY DEF Inv, TypeOK, Goes
<1>2. \A q \in Request : Sound(request'[q], badges', settings', staleWrite')
  BY DEF Inv, TypeOK, Goes
<1>3. UniqueUnlessStale' /\ OpensUnlessStale'
  BY DEF Inv, UniqueUnlessStale, OpensUnlessStale, NoBadgeTwice, EveryBadgeOpens
<1> QED
  BY <1>1, <1>2, <1>3 DEF Inv

LEMMA WritingStep ==
  ASSUME Inv, NEW r \in Request, NEW local \in InFlight \union [at : Over],
         NEW who \in SUBSET User, Outdates(r, local, who),
         Sound(local, badges', settings', staleWrite'),
         badges' \in [User -> Badge \union {None}],
         settings' \in BadgeSettings,
         cache' \in BadgeSettings \union {None},
         staleWrite' \in BOOLEAN,
         UniqueUnlessStale', OpensUnlessStale'
  PROVE  Inv'
<1>1. \A q \in Request \ {r} :
        /\ request'[q] \in InFlight \union [at : Over]
        /\ Sound(request'[q], badges', settings', staleWrite')
  <2> SUFFICES ASSUME NEW q \in Request \ {r}
               PROVE  /\ request'[q] \in InFlight \union [at : Over]
                      /\ Sound(request'[q], badges', settings', staleWrite')
    OBVIOUS
  <2>1. CASE request[q].at \in Over
    <3>1. request'[q] = request[q] /\ request[q].at \notin Await
      BY <2>1 DEF Outdates, Over, Await
    <3> QED
      BY <3>1 DEF Inv, TypeOK, Sound
  <2>2. CASE request[q].at \notin Over
    <3>1. PICK changed \in {request[q].changed, request[q].changed \union who} :
            request'[q] = [request[q] EXCEPT !.stale = TRUE, !.changed = changed]
      BY <2>2 DEF Outdates
    <3>2. request[q] \in InFlight
      BY <2>2 DEF Inv, TypeOK
    <3>3. request'[q] \in InFlight
      <4>1. changed \in SUBSET User
        BY <3>2 DEF InFlight
      <4> QED
        BY <3>1, <3>2, <4>1 DEF InFlight
    <3>4. AskFits(request[q])
      BY <3>2 DEF Inv, Sound, InFlight
    <3>5. AskFits(request'[q]) /\ request'[q].stale
      BY <3>1, <3>2, <3>4 DEF AskFits, InFlight
    <3> QED
      BY <3>3, <3>5 DEF Sound
  <2> QED
    BY <2>1, <2>2
<1>2. request'[r] = local /\ request' \in [Request -> InFlight \union [at : Over]]
  BY <1>1 DEF Outdates
<1>3. TypeOK'
  BY <1>2 DEF TypeOK
<1>4. \A q \in Request : Sound(request'[q], badges', settings', staleWrite')
  BY <1>1, <1>2
<1> QED
  BY <1>3, <1>4 DEF Inv

LEMMA OverIsSound ==
  ASSUME NEW at \in Over
  PROVE  /\ [at |-> at] \in InFlight \union [at : Over]
         /\ \A bs, st, sw : Sound([at |-> at], bs, st, sw)
BY DEF Over, Sound, Await

-----------------------------------------------------------------------------
(* The actions. *)

LEMMA StartInv ==
  ASSUME Inv, NEW r \in Request, NEW ask \in Operation, Start(r, ask)
  PROVE  Inv'
<1> DEFINE local == [at |-> FirstAwait(ask), ask |-> ask, hashBadges |-> FALSE,
                     merged |-> Defaults, scanned |-> NoBadges, left |-> {},
                     stale |-> FALSE, changed |-> {}]
<1>1. /\ FirstAwait(ask) \in {"canChangeOwn", "readSettings", "removeBadge", "before"}
      /\ FirstAwait(ask) = "canChangeOwn" => ask.op \in {"enrol", "forget"}
      /\ FirstAwait(ask) = "readSettings" => ask.op = "enrolUser"
      /\ FirstAwait(ask) = "removeBadge" => ask.op = "forgetUser"
      /\ FirstAwait(ask) = "before" => ask.op = "putSettings"
  BY AskType DEF FirstAwait
<1>2. Defaults \in BadgeSettings /\ NoBadges \in [User -> Badge \union {None}]
  BY DEF Defaults, BadgeSettings, NoBadges
<1>3. local \in InFlight
  BY <1>1, <1>2 DEF InFlight, Await
<1>4. Sound(local, badges, settings, staleWrite)
  BY <1>1 DEF Sound, AskFits, GoesByStored
<1> HIDE DEF local
<1>5. Goes(r, local) /\ UNCHANGED <<badges, settings, staleWrite, cache>>
  BY DEF Start, local
<1> QED
  BY <1>3, <1>4, <1>5, QuietStep DEF Inv, TypeOK

LEMMA ReplyInv ==
  ASSUME Inv, NEW r \in Request, Reply(r), UNCHANGED <<badges, settings, staleWrite>>,
         cache' \in BadgeSettings \union {None}
  PROVE  Inv'
BY OverIsSound, QuietStep DEF Reply, Over

LEMMA CanChangeOwnInv ==
  ASSUME Inv, NEW r \in Request, CanChangeOwn(r)
  PROVE  Inv'
<1> DEFINE local == [request[r] EXCEPT !.at =
                       IF request[r].ask.op = "enrol" THEN "readSettings" ELSE "removeBadge"]
<1>1. request[r] \in InFlight /\ AskFits(request[r]) /\ request[r].at = "canChangeOwn"
  BY InFlightAt DEF CanChangeOwn, At, Inv, Sound, Await
<1>2. cache' \in BadgeSettings
  BY ReadableType DEF CanChangeOwn, Inv
<1>3. local \in InFlight
  BY <1>1 DEF InFlight, Await
<1>4. Sound(local, badges, settings, staleWrite)
  BY <1>1 DEF InFlight, Sound, AskFits, GoesByStored
<1> HIDE DEF local
<1>5. Goes(r, local) \/ Reply(r)
  BY DEF CanChangeOwn, local
<1> QED
  BY <1>2, <1>3, <1>4, <1>5, QuietStep, ReplyInv DEF CanChangeOwn

LEMMA ReadSettingsInv ==
  ASSUME Inv, NEW r \in Request, ReadSettings(r)
  PROVE  Inv'
<1>1. PICK value \in Readable :
        /\ cache' = value
        /\ Goes(r, [request[r] EXCEPT !.at = "findOwner", !.hashBadges = value.hashBadges,
                                      !.stale = value # settings])
  BY DEF ReadSettings
<1> DEFINE local == [request[r] EXCEPT !.at = "findOwner", !.hashBadges = value.hashBadges,
                                       !.stale = value # settings]
<1>2. request[r] \in InFlight /\ AskFits(request[r]) /\ request[r].at = "readSettings"
  BY InFlightAt DEF ReadSettings, At, Inv, Sound, Await
<1>3. value \in BadgeSettings /\ value.hashBadges \in BOOLEAN
  BY ReadableType DEF Inv, BadgeSettings
<1>4. local \in InFlight
  BY <1>2, <1>3 DEF InFlight, Await
<1>5. Sound(local, badges, settings, staleWrite)
  BY <1>2 DEF InFlight, Sound, AskFits, GoesByStored
<1> HIDE DEF local
<1>6. Goes(r, local) /\ UNCHANGED <<badges, settings, staleWrite>>
  BY <1>1 DEF local, ReadSettings
<1> QED
  BY <1>1, <1>3, <1>4, <1>5, <1>6, QuietStep

LEMMA FindOwnerInv ==
  ASSUME Inv, NEW r \in Request, FindOwner(r)
  PROVE  Inv'
<1> DEFINE ask == request[r].ask
           local == [request[r] EXCEPT !.at = "writeBadge"]
<1>1. /\ request[r] \in InFlight /\ AskFits(request[r]) /\ request[r].at = "findOwner"
      /\ ~request[r].stale /\ ~staleWrite => request[r].hashBadges = settings.hashBadges
  BY InFlightAt DEF FindOwner, At, Inv, Sound, GoesByStored, Await
<1>2. cache' \in BadgeSettings \union {None} /\ UNCHANGED <<badges, settings, staleWrite>>
  BY DEF FindOwner, Inv, TypeOK
<1>3. CASE Reply(r)
  BY <1>2, <1>3, ReplyInv
<1>4. CASE ~Reply(r)
  <2>1. PICK owner \in {None, ask.user} : IsOwner(owner, ask.number, FALSE) /\ Goes(r, local)
    BY <1>4 DEF FindOwner
  <2>2. ASSUME ~staleWrite,
               NEW u \in User \ {ask.user}, badges[u] # None, badges[u].number = ask.number
        PROVE  FALSE
    <3>1. u \in Holders(ask.number, FALSE)
      BY <2>2 DEF Holders, Matches
    <3>2. owner = ask.user /\ owner \in Holders(ask.number, FALSE)
      BY <2>1, <3>1, StoreAssumption DEF IsOwner, Holders
    <3>3. owner \in User /\ badges[owner] # None /\ badges[owner].number = ask.number
      BY <3>2 DEF Holders, Matches
    <3> QED
      BY <2>2, <3>2, <3>3 DEF Inv, UniqueUnlessStale, NoBadgeTwice
  <2>3. local \in InFlight
    BY <1>1 DEF InFlight, Await
  <2>4. Sound(local, badges, settings, staleWrite)
    BY <1>1, <2>2 DEF InFlight, Sound, AskFits, GoesByStored
  <2> HIDE DEF local
  <2> QED
    BY <1>2, <2>1, <2>3, <2>4, QuietStep
<1> QED
  BY <1>3, <1>4

LEMMA WriteBadgeInv ==
  ASSUME Inv, NEW r \in Request, WriteBadge(r)
  PROVE  Inv'
<1> DEFINE ask == request[r].ask
           badge == [number |-> ask.number, hashed |-> request[r].hashBadges]
<1>1. /\ request[r] \in InFlight /\ request[r].at = "writeBadge"
      /\ ask.user \in User /\ ask.number \in Number
      /\ ~request[r].stale /\ ~staleWrite => GoesByStored(request[r], badges, settings)
  <2>1. request[r].at = "writeBadge" /\ request[r] \in InFlight
    BY InFlightAt DEF WriteBadge, At, Inv, Await
  <2>2. ask \in Operation /\ ask.op \in {"enrol", "enrolUser"}
    BY <2>1 DEF Inv, Sound, AskFits, InFlight
  <2> QED
    BY <2>1, <2>2, AskType DEF Inv, Sound, InFlight
<1>2. badge \in Badge /\ badge # None
  BY <1>1, StoreAssumption DEF Badge, InFlight
<1>3. /\ badges' = [badges EXCEPT ![ask.user] = badge]
      /\ staleWrite' = (staleWrite \/ request[r].stale)
      /\ Outdates(r, Done, {ask.user}) /\ UNCHANGED <<settings, cache>>
  BY DEF WriteBadge, Writes
<1>4. badges' \in [User -> Badge \union {None}] /\ staleWrite' \in BOOLEAN
  BY <1>1, <1>2, <1>3 DEF Inv, TypeOK, InFlight
<1>5. ASSUME ~staleWrite'
      PROVE  NoBadgeTwice' /\ EveryBadgeOpens'
  <2>1. /\ badge.hashed = settings.hashBadges /\ badge.number = ask.number
        /\ \A u \in User \ {ask.user} : badges[u] # None => badges[u].number # badge.number
        /\ NoBadgeTwice /\ EveryBadgeOpens
    BY <1>1, <1>3, <1>5 DEF GoesByStored, Inv, UniqueUnlessStale, OpensUnlessStale
  <2>2. \A u \in User : badges'[u] = IF u = ask.user THEN badge ELSE badges[u]
    BY <1>1, <1>3 DEF Inv, TypeOK
  <2>3. NoBadgeTwice'
    BY <2>1, <2>2 DEF NoBadgeTwice
  <2>4. EveryBadgeOpens'
    BY <1>2, <1>3, <2>1, <2>2 DEF EveryBadgeOpens, Matches
  <2> QED
    BY <2>3, <2>4
<1>6. Done \in InFlight \union [at : Over] /\ Sound(Done, badges', settings', staleWrite')
  BY OverIsSound DEF Done, Over
<1> QED
  BY <1>1, <1>3, <1>4, <1>5, <1>6, WritingStep DEF Inv, TypeOK, UniqueUnlessStale, OpensUnlessStale

LEMMA RemoveBadgeInv ==
  ASSUME Inv, NEW r \in Request, RemoveBadge(r)
  PROVE  Inv'
<1>1. /\ badges' = [badges EXCEPT ![request[r].ask.user] = None]
      /\ Outdates(r, Done, {request[r].ask.user}) /\ UNCHANGED <<settings, cache, staleWrite>>
  BY DEF RemoveBadge
<1>0. request[r].ask.user \in User
  <2>1. request[r].at = "removeBadge" /\ request[r] \in InFlight
    BY InFlightAt DEF RemoveBadge, At, Inv, Await
  <2>2. request[r].ask \in Operation /\ request[r].ask.op \in {"enrol", "forget", "forgetUser"}
    BY <2>1 DEF Inv, Sound, AskFits, InFlight
  <2> QED
    BY <2>2, AskType
<1>2. badges' \in [User -> Badge \union {None}]
  BY <1>1 DEF Inv, TypeOK
<1>3. \A u \in User : badges'[u] \in {None, badges[u]}
  BY <1>1 DEF Inv, TypeOK
<1>4. UniqueUnlessStale' /\ OpensUnlessStale'
  BY <1>1, <1>3 DEF Inv, UniqueUnlessStale, OpensUnlessStale, NoBadgeTwice, EveryBadgeOpens,
                    Matches
<1>5. Done \in InFlight \union [at : Over] /\ Sound(Done, badges', settings', staleWrite')
  BY OverIsSound DEF Done, Over
<1> QED
  BY <1>0, <1>1, <1>2, <1>4, <1>5, WritingStep DEF Inv, TypeOK

LEMMA BeforeInv ==
  ASSUME Inv, NEW r \in Request, Before(r)
  PROVE  Inv'
<1> DEFINE local == [request[r] EXCEPT
                       !.at = IF TurnsOn(request[r].ask.patch) THEN "scan" ELSE "merge",
                       !.stale = FALSE]
<1>1. request[r] \in InFlight /\ AskFits(request[r]) /\ request[r].at = "before"
  BY InFlightAt DEF Before, At, Inv, Sound, Await
<1>2. /\ cache' \in BadgeSettings /\ Goes(r, local)
      /\ UNCHANGED <<badges, settings, staleWrite>>
  BY ReadableType DEF Before, Inv
<1>3. local \in InFlight
  BY <1>1 DEF InFlight, Await
<1>4. Sound(local, badges, settings, staleWrite)
  BY <1>1 DEF InFlight, Sound, AskFits, GoesByStored
<1> HIDE DEF local
<1> QED
  BY <1>2, <1>3, <1>4, QuietStep

LEMMA ScanInv ==
  ASSUME Inv, NEW r \in Request, Scan(r)
  PROVE  Inv'
<1> DEFINE left == {u \in User : Clear(badges[u])}
           local == [request[r] EXCEPT !.at = "rewrite", !.stale = FALSE, !.changed = {},
                                       !.scanned = badges, !.left = left]
<1>1. request[r] \in InFlight /\ AskFits(request[r]) /\ request[r].at = "scan"
  BY InFlightAt DEF Scan, At, Inv, Sound, Await
<1>2. Goes(r, local) /\ UNCHANGED <<badges, settings, staleWrite, cache>>
  BY DEF Scan
<1>3. badges \in [User -> Badge \union {None}] /\ left \in SUBSET User
  BY DEF Inv, TypeOK
<1> HIDE DEF left
<1>4. local \in InFlight
  BY <1>1, <1>3 DEF InFlight, Await
<1>5. Sound(local, badges, settings, staleWrite)
  BY <1>1 DEF InFlight, Sound, AskFits, GoesByStored, left
<1> HIDE DEF local
<1> QED
  BY <1>2, <1>4, <1>5, QuietStep DEF Inv, TypeOK

LEMMA RewriteInv ==
  ASSUME Inv, NEW r \in Request, NEW u \in User, Rewrite(r, u)
  PROVE  Inv'
<1> DEFINE scanned == request[r].scanned[u]
           badge == Fingerprint(scanned)
           who == {u} \intersect request[r].changed
           local == [request[r] EXCEPT !.left = @ \ {u}]
<1>1. /\ request[r] \in InFlight /\ AskFits(request[r]) /\ request[r].at = "rewrite"
      /\ ~request[r].stale /\ ~staleWrite => GoesByStored(request[r], badges, settings)
  BY InFlightAt DEF Rewrite, At, Inv, Sound, Await
<1>2. u \in request[r].left /\ scanned \in Badge \union {None}
  BY <1>1 DEF Rewrite, InFlight
<1>3. /\ badge \in Badge \union {None}
      /\ scanned # None =>
           badge # None /\ badge.hashed /\ badge.number = scanned.number
  BY <1>2, StoreAssumption DEF Badge, Fingerprint
<1>4. /\ badges' = [badges EXCEPT ![u] = badge]
      /\ staleWrite' = (staleWrite \/ request[r].stale)
      /\ Outdates(r, local, who) /\ UNCHANGED <<settings, cache>>
  BY DEF Rewrite, Writes
<1> HIDE DEF badge
<1>5. badges' \in [User -> Badge \union {None}] /\ staleWrite' \in BOOLEAN
  BY <1>1, <1>3, <1>4 DEF Inv, TypeOK, InFlight
<1>6. \A v \in User : badges'[v] = IF v = u THEN badge ELSE badges[v]
  BY <1>4 DEF Inv, TypeOK
<1>7. local \in InFlight
  BY <1>1, <1>2 DEF InFlight
<1>8. /\ local.at = "rewrite" /\ local.ask = request[r].ask /\ local.stale = request[r].stale
      /\ local.left = request[r].left \ {u} /\ local.scanned = request[r].scanned
  BY <1>1, <1>2 DEF InFlight
<1> HIDE DEF local
<1>9. ASSUME ~staleWrite'
      PROVE  /\ NoBadgeTwice' /\ EveryBadgeOpens'
             /\ GoesByStored(local, badges', settings')
  <2>1. /\ \A v \in User : /\ v \in request[r].left <=> Clear(badges[v])
                           /\ v \in request[r].left => badges[v] = request[r].scanned[v]
        /\ NoBadgeTwice /\ EveryBadgeOpens
    BY <1>1, <1>4, <1>9 DEF GoesByStored, Inv, UniqueUnlessStale, OpensUnlessStale
  <2>2. /\ badges[u] # None /\ badge.number = badges[u].number
        /\ badge # None /\ badge.hashed
    BY <1>2, <1>3, <2>1 DEF Clear
  <2>3. NoBadgeTwice'
    BY <1>6, <2>1, <2>2 DEF NoBadgeTwice
  <2>4. EveryBadgeOpens'
    BY <1>4, <1>6, <2>1, <2>2 DEF EveryBadgeOpens, Matches
  <2>5. GoesByStored(local, badges', settings')
    BY <1>6, <1>8, <2>1, <2>2 DEF GoesByStored, Clear
  <2> QED
    BY <2>3, <2>4, <2>5
<1>10. Sound(local, badges', settings', staleWrite')
  BY <1>1, <1>8, <1>9 DEF Sound, AskFits
<1> QED
  BY <1>4, <1>5, <1>7, <1>9, <1>10, WritingStep
     DEF Inv, TypeOK, UniqueUnlessStale, OpensUnlessStale

LEMMA MergeInv ==
  ASSUME Inv, NEW r \in Request, Merge(r)
  PROVE  Inv'
<1> DEFINE patch == request[r].ask.patch
<1>1. PICK value \in Readable :
        /\ cache' = value
        /\ Goes(r, [request[r] EXCEPT !.at = "store", !.merged = Merged(value, patch),
                                      !.stale = @ \/ value # settings])
  BY DEF Merge
<1> DEFINE local == [request[r] EXCEPT !.at = "store", !.merged = Merged(value, patch),
                                       !.stale = @ \/ value # settings]
<1>2. /\ request[r] \in InFlight /\ AskFits(request[r])
      /\ request[r].at \in {"merge", "rewrite"}
      /\ ~request[r].stale /\ ~staleWrite => GoesByStored(request[r], badges, settings)
  BY InFlightAt DEF Merge, At, Inv, Sound, Await
<1>3. patch \in Patch
  BY <1>2, AskType DEF AskFits, InFlight
<1>4. value \in BadgeSettings /\ Merged(value, patch) \in BadgeSettings
  BY <1>3, ReadableType, MergedType DEF Inv
<1>5. local \in InFlight
  BY <1>2, <1>4 DEF InFlight, Await
<1>6. ASSUME ~request[r].stale, ~staleWrite, TurnsOn(patch), NEW u \in User
      PROVE  ~Clear(badges[u])
  <2>1. request[r].at = "rewrite"
    BY <1>2, <1>6 DEF AskFits
  <2>2. request[r].left = {}
    BY <2>1 DEF Merge, At
  <2>3. u \in request[r].left <=> Clear(badges[u])
    BY <1>2, <1>6, <2>1 DEF GoesByStored
  <2> QED
    BY <2>2, <2>3
<1>7. /\ local.at = "store" /\ local.ask = request[r].ask /\ local.merged = Merged(value, patch)
      /\ local.stale = (request[r].stale \/ value # settings)
  BY <1>2 DEF InFlight
<1> HIDE DEF local
<1>8. Sound(local, badges, settings, staleWrite)
  BY <1>2, <1>6, <1>7 DEF Sound, AskFits, GoesByStored
<1>9. Goes(r, local) /\ UNCHANGED <<badges, settings, staleWrite>>
  BY <1>1 DEF local, Merge
<1> QED
  BY <1>1, <1>4, <1>5, <1>8, <1>9, QuietStep

LEMMA StoreInv ==
  ASSUME Inv, NEW r \in Request, Store(r)
  PROVE  Inv'
<1> DEFINE patch == request[r].ask.patch
<1>1. /\ request[r] \in InFlight /\ AskFits(request[r]) /\ request[r].at = "store"
      /\ ~request[r].stale /\ ~staleWrite => GoesByStored(request[r], badges, settings)
  BY InFlightAt DEF Store, At, Inv, Sound, Await
<1>2. patch \in Patch
  BY <1>1, AskType DEF AskFits, InFlight
<1>3. /\ settings' = request[r].merged /\ cache' = request[r].merged
      /\ staleWrite' = (staleWrite \/ request[r].stale)
      /\ Outdates(r, Done, {}) /\ UNCHANGED badges
  BY DEF Store, Writes
<1>4. settings' \in BadgeSettings /\ cache' \in BadgeSettings /\ staleWrite' \in BOOLEAN
  BY <1>1, <1>3 DEF Inv, TypeOK, InFlight
<1>5. ASSUME ~staleWrite'
      PROVE  NoBadgeTwice' /\ EveryBadgeOpens'
  <2>1. /\ settings' = Merged(settings, patch)
        /\ TurnsOn(patch) => \A u \in User : ~Clear(badges[u])
        /\ NoBadgeTwice /\ EveryBadgeOpens
    BY <1>1, <1>3, <1>5 DEF GoesByStored, Inv, UniqueUnlessStale, OpensUnlessStale
  <2>2. settings'.hashBadges => TurnsOn(patch) \/ settings.hashBadges
    BY <1>2, <2>1, MergedTurnsOn DEF Inv, TypeOK
  <2>3. NoBadgeTwice'
    BY <1>3, <2>1 DEF NoBadgeTwice
  <2>4. EveryBadgeOpens'
    BY <1>3, <2>1, <2>2 DEF EveryBadgeOpens, Matches, Clear
  <2> QED
    BY <2>3, <2>4
<1>6. Done \in InFlight \union [at : Over] /\ Sound(Done, badges', settings', staleWrite')
  BY OverIsSound DEF Done, Over
<1> QED
  BY <1>3, <1>4, <1>5, <1>6, WritingStep DEF Inv, TypeOK, UniqueUnlessStale, OpensUnlessStale

LEMMA FailsInv ==
  ASSUME Inv, NEW r \in Request, Fails(r)
  PROVE  Inv'
BY ReplyInv DEF Fails, Inv, TypeOK

\* The steps between the requests' own.
LEMMA AroundInv ==
  ASSUME Inv, ReadElsewhere \/ CacheExpires \/ Restart
  PROVE  Inv'
<1>1. cache' \in BadgeSettings \union {None} /\ UNCHANGED <<badges, settings, staleWrite>>
  BY ReadableType DEF ReadElsewhere, CacheExpires, Restart, Inv
<1>2. \A r \in Request : request'[r] = request[r] \/ request'[r] = [at |-> "lost"]
  BY DEF ReadElsewhere, CacheExpires, Restart
<1>3. request' \in [Request -> InFlight \union [at : Over]]
  <2>1. [at |-> "lost"] \in [at : Over]
    BY DEF Over
  <2>2. \A r \in Request : request[r] \in InFlight \union [at : Over]
    BY DEF Inv, TypeOK
  <2> QED
    BY <2>1, <2>2 DEF ReadElsewhere, CacheExpires, Restart, Inv, TypeOK
<1>4. \A r \in Request : Sound(request'[r], badges', settings', staleWrite')
  BY <1>1, <1>2, OverIsSound DEF Inv, Over
<1>5. UniqueUnlessStale' /\ OpensUnlessStale'
  BY <1>1 DEF Inv, UniqueUnlessStale, OpensUnlessStale, NoBadgeTwice, EveryBadgeOpens
<1> QED
  BY <1>1, <1>3, <1>4, <1>5 DEF Inv, TypeOK

LEMMA NextInv == Inv /\ [Next]_vars => Inv'
<1> SUFFICES ASSUME Inv, [Next]_vars PROVE Inv'
  OBVIOUS
<1>1. ASSUME NEW r \in Request, RequestStep(r)
      PROVE  Inv'
  BY <1>1, StartInv, CanChangeOwnInv, ReadSettingsInv, FindOwnerInv, WriteBadgeInv,
     RemoveBadgeInv, BeforeInv, ScanInv, RewriteInv, MergeInv, StoreInv, FailsInv
     DEF RequestStep
<1>2. CASE ReadElsewhere \/ CacheExpires \/ Restart
  BY <1>2, AroundInv
<1>3. CASE UNCHANGED vars
  BY <1>3 DEF vars, Inv, TypeOK, UniqueUnlessStale, OpensUnlessStale, NoBadgeTwice,
              EveryBadgeOpens
<1> QED
  BY <1>1, <1>2, <1>3 DEF Next

\* Every step leaves in the cache nothing, what is stored or the defaults: only
\* Store changes the settings, and it caches what it stores.
LEMMA CacheStep == Inv /\ CacheCurrent /\ [Next]_vars => CacheCurrent'
<1> SUFFICES ASSUME Inv, CacheCurrent, [Next]_vars PROVE CacheCurrent'
  OBVIOUS
<1>1. ASSUME UNCHANGED settings, cache' \in Readable
      PROVE  CacheCurrent'
  BY <1>1 DEF Readable, CacheCurrent
<1>2. ASSUME UNCHANGED settings, cache' = None \/ cache' = cache
      PROVE  CacheCurrent'
  BY <1>2 DEF CacheCurrent
<1>3. ASSUME NEW r \in Request, RequestStep(r)
      PROVE  CacheCurrent'
  <2>1. CASE CanChangeOwn(r) \/ ReadSettings(r) \/ Before(r) \/ Merge(r)
    BY <1>1, <2>1 DEF CanChangeOwn, ReadSettings, Before, Merge
  <2>2. CASE Store(r)
    BY <2>2 DEF Store, CacheCurrent
  <2>3. CASE \/ \E ask \in Operation : Start(r, ask)
             \/ FindOwner(r) \/ WriteBadge(r) \/ RemoveBadge(r) \/ Scan(r) \/ Fails(r)
             \/ \E u \in User : Rewrite(r, u)
    BY <1>2, <2>3 DEF Start, FindOwner, WriteBadge, RemoveBadge, Scan, Fails, Rewrite
  <2> QED
    BY <1>3, <2>1, <2>2, <2>3 DEF RequestStep
<1>4. CASE ReadElsewhere
  BY <1>1, <1>4 DEF ReadElsewhere
<1>5. CASE CacheExpires \/ Restart \/ UNCHANGED vars
  BY <1>2, <1>5 DEF CacheExpires, Restart, vars
<1> QED
  BY <1>3, <1>4, <1>5 DEF Next

-----------------------------------------------------------------------------
(* What a migration does to the badges nobody else changes since its scan.  *)

\* Such a badge has the number it was scanned with, and is a fingerprint once the
\* migration has passed it; none is left when hashBadges is about to be stored.
Intact(local, bs) ==
  local.at \in {"rewrite", "store"} =>
    \/ local.at = "store" /\ ~TurnsOn(local.ask.patch)
    \/ /\ \A u \in User \ local.changed :
            /\ Fingerprint(bs[u]) = Fingerprint(local.scanned[u])
            /\ u \notin local.left => bs[u] = Fingerprint(bs[u])
       /\ local.at = "store" => local.left = {}

Kept == \A r \in Request : Intact(request[r], badges)

LEMMA Idempotent ==
  ASSUME NEW badge \in Badge \union {None}
  PROVE  /\ Fingerprint(badge) \in Badge \union {None}
         /\ Fingerprint(Fingerprint(badge)) = Fingerprint(badge)
         /\ ~Clear(badge) => badge = Fingerprint(badge)
BY StoreAssumption DEF Fingerprint, Badge, Clear

LEMMA InitKept == Init => Kept
BY DEF Init, Kept, Intact

\* A step that writes no badge, ...
LEMMA KeptQuiet ==
  ASSUME Kept, NEW r \in Request, NEW local, TypeOK,
         Goes(r, local), Intact(local, badges), UNCHANGED badges
  PROVE  Kept'
BY DEF Kept, Goes, TypeOK

\* ... and one that changes the badges of `who`: the others are left as they are
\* or made fingerprints.
LEMMA KeptWrite ==
  ASSUME Inv, Kept, NEW r \in Request, NEW local, NEW who \in SUBSET User,
         Outdates(r, local, who), Intact(local, badges'),
         \A u \in User \ who : badges'[u] \in {badges[u], Fingerprint(badges[u])}
  PROVE  Kept'
<1> SUFFICES ASSUME NEW q \in Request, q # r
             PROVE  Intact(request'[q], badges')
  BY DEF Kept, Outdates
<1>1. CASE request[q].at \in Over
  BY <1>1 DEF Outdates, Intact, Over
<1>2. CASE request[q].at \notin Over
  <2>1. request[q] \in InFlight /\ Intact(request[q], badges)
    BY <1>2 DEF Inv, TypeOK, Kept
  <2>2. PICK changed \in SUBSET User :
          /\ request'[q] = [request[q] EXCEPT !.stale = TRUE, !.changed = changed]
          /\ request[q].at \in {"rewrite", "store"} => changed = request[q].changed \union who
    <3> DEFINE both == IF request[q].at \in {"rewrite", "store"}
                       THEN request[q].changed \union who ELSE request[q].changed
    <3>1. both \in SUBSET User
      BY <2>1 DEF InFlight
    <3>2. request'[q] = [request[q] EXCEPT !.stale = TRUE, !.changed = both]
      BY <1>2 DEF Outdates
    <3> QED
      BY <3>1, <3>2
  <2>3. /\ request'[q].at = request[q].at /\ request'[q].ask = request[q].ask
        /\ request'[q].left = request[q].left /\ request'[q].scanned = request[q].scanned
        /\ request'[q].changed = changed
    BY <2>1, <2>2 DEF InFlight
  <2>4. ASSUME NEW u \in User \ who
        PROVE  /\ Fingerprint(badges'[u]) = Fingerprint(badges[u])
               /\ badges[u] = Fingerprint(badges[u]) => badges'[u] = Fingerprint(badges'[u])
    BY <2>4, BadgesTyped, Idempotent DEF Inv
  <2> QED
    BY <2>1, <2>2, <2>3, <2>4 DEF Intact
<1> QED
  BY <1>1, <1>2

LEMMA ScanKept ==
  ASSUME Inv, Kept, NEW r \in Request, Scan(r)
  PROVE  Kept'
<1> DEFINE local == [request[r] EXCEPT !.at = "rewrite", !.stale = FALSE, !.changed = {},
                                       !.scanned = badges,
                                       !.left = {u \in User : Clear(badges[u])}]
<1>1. request[r] \in InFlight
  BY InFlightAt DEF Scan, At, Inv, Await
<1>2. /\ local.at = "rewrite" /\ local.changed = {} /\ local.scanned = badges
      /\ local.left = {u \in User : Clear(badges[u])}
  BY <1>1 DEF InFlight
<1>3. Goes(r, local) /\ UNCHANGED badges
  BY DEF Scan
<1> HIDE DEF local
<1>4. Intact(local, badges)
  BY <1>2, BadgesTyped, Idempotent DEF Intact, Inv
<1> QED
  BY <1>3, <1>4, KeptQuiet DEF Inv

LEMMA RewriteKept ==
  ASSUME Inv, Kept, NEW r \in Request, NEW u \in User, Rewrite(r, u)
  PROVE  Kept'
<1> DEFINE scanned == request[r].scanned[u]
           who == {u} \intersect request[r].changed
           local == [request[r] EXCEPT !.left = @ \ {u}]
<1>1. request[r] \in InFlight /\ request[r].at = "rewrite" /\ Intact(request[r], badges)
  BY InFlightAt DEF Rewrite, At, Inv, Await, Kept
<1>2. scanned \in Badge \union {None}
  BY <1>1 DEF InFlight
<1>3. Outdates(r, local, who) /\ badges' = [badges EXCEPT ![u] = Fingerprint(scanned)]
  BY DEF Rewrite, Writes
<1>4. /\ local.at = "rewrite" /\ local.changed = request[r].changed
      /\ local.scanned = request[r].scanned /\ local.left = request[r].left \ {u}
  BY <1>1 DEF InFlight
<1>5. \A v \in User : badges'[v] = IF v = u THEN Fingerprint(scanned) ELSE badges[v]
  BY <1>3 DEF Inv, TypeOK
<1>6. u \notin request[r].changed => Fingerprint(badges[u]) = Fingerprint(scanned)
  BY <1>1 DEF Intact
<1> HIDE DEF local
<1>7. Intact(local, badges')
  <2>1. ASSUME NEW v \in User \ local.changed
        PROVE  /\ Fingerprint(badges'[v]) = Fingerprint(local.scanned[v])
               /\ v \notin local.left => badges'[v] = Fingerprint(badges'[v])
    <3>1. CASE v = u
      BY <1>2, <1>4, <1>5, <3>1, Idempotent
    <3>2. CASE v # u
      BY <1>1, <1>4, <1>5, <2>1, <3>2 DEF Intact
    <3> QED
      BY <3>1, <3>2
  <2> QED
    BY <1>4, <2>1 DEF Intact
<1>8. \A v \in User \ who : badges'[v] \in {badges[v], Fingerprint(badges[v])}
  BY <1>5, <1>6
<1>9. who \in SUBSET User
  OBVIOUS
<1> HIDE DEF who
<1> QED
  BY <1>3, <1>7, <1>8, <1>9, KeptWrite

LEMMA MergeKept ==
  ASSUME Inv, Kept, NEW r \in Request, Merge(r)
  PROVE  Kept'
<1> DEFINE patch == request[r].ask.patch
<1>1. PICK value \in Readable :
        Goes(r, [request[r] EXCEPT !.at = "store", !.merged = Merged(value, patch),
                                   !.stale = @ \/ value # settings])
  BY DEF Merge
<1> DEFINE local == [request[r] EXCEPT !.at = "store", !.merged = Merged(value, patch),
                                       !.stale = @ \/ value # settings]
<1>2. /\ request[r] \in InFlight /\ Intact(request[r], badges) /\ AskFits(request[r])
      /\ \/ request[r].at = "merge"
         \/ request[r].at = "rewrite" /\ request[r].left = {}
  BY InFlightAt DEF Merge, At, Inv, Sound, Await, Kept
<1>3. /\ local.at = "store" /\ local.ask = request[r].ask
      /\ local.changed = request[r].changed /\ local.left = request[r].left
      /\ local.scanned = request[r].scanned
  BY <1>2 DEF InFlight
<1> HIDE DEF local
<1>4. Intact(local, badges)
  BY <1>2, <1>3 DEF Intact, AskFits
<1>5. Goes(r, local) /\ UNCHANGED badges
  BY <1>1 DEF local, Merge
<1> QED
  BY <1>4, <1>5, KeptQuiet DEF Inv

\* The other steps of a request leave it at no await of a migration's.
LEMMA OtherKept ==
  ASSUME Inv, Kept, NEW r \in Request,
         \/ \E ask \in Operation : Start(r, ask)
         \/ CanChangeOwn(r) \/ ReadSettings(r) \/ FindOwner(r) \/ Before(r) \/ Fails(r)
  PROVE  Kept'
<1>1. UNCHANGED badges
  BY DEF Start, CanChangeOwn, ReadSettings, FindOwner, Before, Fails
<1>2. \E local : Goes(r, local) /\ local.at \notin {"rewrite", "store"}
  <2>1. ASSUME NEW ask \in Operation, Start(r, ask)
        PROVE  \E local : Goes(r, local) /\ local.at \notin {"rewrite", "store"}
    <3>1. FirstAwait(ask) \in {"canChangeOwn", "readSettings", "removeBadge", "before"}
      BY AskType DEF FirstAwait
    <3> QED
      BY <2>1, <3>1 DEF Start
  <2>2. ASSUME Reply(r)
        PROVE  \E local : Goes(r, local) /\ local.at \notin {"rewrite", "store"}
    BY <2>2 DEF Reply
  <2>3. ASSUME CanChangeOwn(r) \/ ReadSettings(r) \/ FindOwner(r) \/ Before(r), ~Reply(r)
        PROVE  \E local : Goes(r, local) /\ local.at \notin {"rewrite", "store"}
    <3>1. request[r] \in InFlight
      BY <2>3, InFlightAt DEF CanChangeOwn, ReadSettings, FindOwner, Before, At, Inv, Await
    <3>2. CASE CanChangeOwn(r)
      BY <2>3, <3>1, <3>2 DEF CanChangeOwn, InFlight
    <3>3. CASE ReadSettings(r)
      <4>1. PICK value \in Readable :
              Goes(r, [request[r] EXCEPT !.at = "findOwner", !.hashBadges = value.hashBadges,
                                         !.stale = value # settings])
        BY <3>3 DEF ReadSettings
      <4>2. [request[r] EXCEPT !.at = "findOwner", !.hashBadges = value.hashBadges,
                               !.stale = value # settings].at = "findOwner"
        BY <3>1 DEF InFlight
      <4> QED
        BY <4>1, <4>2
    <3>4. CASE FindOwner(r)
      BY <2>3, <3>1, <3>4 DEF FindOwner, InFlight
    <3>5. CASE Before(r)
      <4> DEFINE next == IF TurnsOn(request[r].ask.patch) THEN "scan" ELSE "merge"
      <4>1. Goes(r, [request[r] EXCEPT !.at = next, !.stale = FALSE])
        BY <3>5 DEF Before
      <4>2. [request[r] EXCEPT !.at = next, !.stale = FALSE].at = next
        BY <3>1 DEF InFlight
      <4>3. next \notin {"rewrite", "store"}
        OBVIOUS
      <4> HIDE DEF next
      <4> QED
        BY <4>1, <4>2, <4>3
    <3> QED
      BY <2>3, <3>2, <3>3, <3>4, <3>5
  <2> QED
    BY <2>1, <2>2, <2>3 DEF Fails
<1> QED
  BY <1>1, <1>2, KeptQuiet DEF Inv, Intact

LEMMA KeptStep == Inv /\ Kept /\ [Next]_vars => Kept'
<1> SUFFICES ASSUME Inv, Kept, [Next]_vars PROVE Kept'
  OBVIOUS
<1>1. ASSUME NEW r \in Request, RequestStep(r)
      PROVE  Kept'
  <2>1. CASE Scan(r) \/ Merge(r) \/ \E u \in User : Rewrite(r, u)
    BY <2>1, ScanKept, MergeKept, RewriteKept
  <2>2. CASE WriteBadge(r)
    <3>1. request[r].ask.user \in User
      <4>1. request[r].at = "writeBadge" /\ request[r] \in InFlight
        BY <2>2, InFlightAt DEF WriteBadge, At, Inv, Await
      <4>2. request[r].ask \in Operation /\ request[r].ask.op \in {"enrol", "enrolUser"}
        BY <4>1 DEF Inv, Sound, AskFits, InFlight, Await
      <4> QED
        BY <4>2, AskType
    <3>2. \A u \in User \ {request[r].ask.user} : badges'[u] = badges[u]
      BY <2>2 DEF WriteBadge, Inv, TypeOK
    <3>3. Intact(Done, badges') /\ Outdates(r, Done, {request[r].ask.user})
      BY <2>2 DEF WriteBadge, Writes, Done, Intact
    <3> QED
      BY <3>1, <3>2, <3>3, KeptWrite
  <2>3. CASE RemoveBadge(r)
    <3>1. request[r].ask.user \in User
      <4>1. request[r].at = "removeBadge" /\ request[r] \in InFlight
        BY <2>3, InFlightAt DEF RemoveBadge, At, Inv, Await
      <4>2. request[r].ask \in Operation
            /\ request[r].ask.op \in {"enrol", "forget", "forgetUser"}
        BY <4>1 DEF Inv, Sound, AskFits, InFlight, Await
      <4> QED
        BY <4>2, AskType
    <3>2. \A u \in User \ {request[r].ask.user} : badges'[u] = badges[u]
      BY <2>3 DEF RemoveBadge, Inv, TypeOK
    <3>3. Intact(Done, badges') /\ Outdates(r, Done, {request[r].ask.user})
      BY <2>3 DEF RemoveBadge, Done, Intact
    <3> QED
      BY <3>1, <3>2, <3>3, KeptWrite
  <2>4. CASE Store(r)
    <3>1. Intact(Done, badges') /\ Outdates(r, Done, {}) /\ badges' = badges
      BY <2>4 DEF Store, Writes, Done, Intact
    <3> QED
      BY <3>1, KeptWrite
  <2> QED
    BY <1>1, <2>1, <2>2, <2>3, <2>4, OtherKept DEF RequestStep
<1>2. CASE Restart
  BY <1>2 DEF Restart, Kept, Intact
<1>3. CASE ReadElsewhere \/ CacheExpires \/ UNCHANGED vars
  BY <1>3 DEF ReadElsewhere, CacheExpires, vars, Kept
<1> QED
  BY <1>1, <1>2, <1>3 DEF Next

-----------------------------------------------------------------------------
(* The theorems. *)

\* The inductive invariant holds.
THEOREM Invariant == Spec => []Inv
<1> QED
  BY InitInv, NextInv, PTL DEF Spec

\* Every variable, the locals of the requests included, keeps its type.
THEOREM TypeCorrect == Spec => []TypeOK
<1>1. Inv => TypeOK
  BY DEF Inv
<1> QED
  BY <1>1, Invariant, PTL

\* associate, hashClearBadges and the removals never give a number to two users
\* as long as none of them wrote on the strength of something stale.
THEOREM Unique == Spec => []UniqueUnlessStale
<1>1. Inv => UniqueUnlessStale
  BY DEF Inv
<1> QED
  BY <1>1, Invariant, PTL

\* Under the same condition every stored badge opens by the rule of hashBadges,
\* at every step of the migration and whatever step of it fails (putSettings:
\* "done before the setting is stored: a failure leaves it off").
THEOREM Opens == Spec => []OpensUnlessStale
<1>1. Inv => OpensUnlessStale
  BY DEF Inv
<1> QED
  BY <1>1, Invariant, PTL

\* A PUT that goes by nothing stale stores its patch over the settings stored,
\* and nothing else (writeSettings).
THEOREM PatchesOnly == Spec => PatchUnlessStale
<1>1. ASSUME Inv, NEW r \in Request, Store(r), ~staleWrite'
      PROVE  settings' = Merged(settings, request[r].ask.patch)
  BY <1>1, InFlightAt DEF Store, Writes, At, Inv, Sound, GoesByStored, Await
<1>2. Inv /\ [Next]_vars =>
        [\A r \in Request : Store(r) /\ ~staleWrite' =>
           settings' = Merged(settings, request[r].ask.patch)]_vars
  BY <1>1
<1> QED
  BY <1>2, Invariant, PTL DEF Spec, PatchUnlessStale

\* When a PUT turns hashBadges on, every badge nobody else changed since the
\* migration read them all is the one it read, as a fingerprint.
THEOREM TurnsOnKeeping == Spec => TurnedOnKeeps
<1>1. ASSUME Inv, Kept, NEW r \in Request, Store(r), TurnsOn(request[r].ask.patch),
             NEW u \in User \ request[r].changed
      PROVE  badges[u] = Fingerprint(request[r].scanned[u])
  BY <1>1 DEF Store, At, Kept, Intact
<1>2. Inv /\ Kept /\ [Next]_vars =>
        [\A r \in Request :
           Store(r) /\ TurnsOn(request[r].ask.patch) =>
             \A u \in User \ request[r].changed :
               badges[u] = Fingerprint(request[r].scanned[u])]_vars
  BY <1>1
<1> QED
  BY <1>2, InitKept, KeptStep, Invariant, PTL DEF Spec, TurnedOnKeeps

\* A request never finds in the cache settings that are no more the stored ones
\* (writeSettings replaces what readSettings remembers), those of a failed read
\* apart.
THEOREM CacheStaysCurrent == Spec => []CacheCurrent
<1>1. Init => CacheCurrent
  BY DEF Init, CacheCurrent
<1> QED
  BY <1>1, CacheStep, Invariant, PTL DEF Spec
=============================================================================
