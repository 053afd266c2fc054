----------------------------- MODULE BadgeStore -----------------------------
(***************************************************************************)
(* The badges of the users and the settings of the badge login             *)
(* (libs/wui-auth-badge/backend: badgeAuth.ts, badgeSettings.ts,           *)
(* badgeHash.ts): the requests that associate or remove a badge and the    *)
(* one that changes the settings — which rewrites every number in clear as *)
(* a fingerprint when hashBadges is turned on — interleaved at their       *)
(* awaits in one webserver.                                                *)
(*                                                                         *)
(* A step is one answer of WinCC OA and the code up to the next await: a   *)
(* webserver has one connection, whose answers come in the order they were *)
(* served.  The authorisation of the requests, their validation and the    *)
(* audit lines are left out; of the settings, the two that matter here are *)
(* kept.                                                                   *)
(***************************************************************************)
CONSTANTS
  User,      \* the users a badge can open
  Number,    \* the badge numbers: valid ones, long enough
  None,      \* no badge, no owner, nothing cached
  Request,   \* the requests, each made at most once
  Operation, \* what a request may ask
  Outages    \* whether WinCC OA may fail to answer

VARIABLES
  badges,     \* the user setting RFID_UID of each user
  settings,   \* the DP WuiAuthBadge_Config.settings; the defaults when absent
  cache,      \* what readSettings remembers for CACHE_MS; None: too old
  request,    \* the requests: the await each one stands at, and its locals
  staleWrite  \* history: a request wrote on the strength of something read
              \* that was not, or no more, what is stored

vars == <<badges, settings, cache, request, staleWrite>>

Badge == [number : Number, hashed : BOOLEAN]

BadgeSettings == [hashBadges : BOOLEAN, selfEnrolment : BOOLEAN]

Defaults == [hashBadges |-> FALSE, selfEnrolment |-> TRUE]

\* The settings a PUT names, and their values.
Patch == [hashBadges : BOOLEAN] \union [selfEnrolment : BOOLEAN]

Operations ==
  [op : {"enrol", "enrolUser"}, user : User, number : Number]
    \union [op : {"forget", "forgetUser"}, user : User]
    \union [op : {"putSettings"}, patch : Patch]

ASSUME StoreAssumption ==
  /\ Operation \subseteq Operations
  /\ None \notin User \union Badge
  /\ None \notin BadgeSettings
  /\ Outages \in BOOLEAN

Await == {"canChangeOwn", "readSettings", "findOwner", "writeBadge", "removeBadge",
          "before", "scan", "rewrite", "merge", "store"}

NoBadges == [u \in User |-> None]

\* The locals of a request in flight: the setting hashBadges it read, the
\* settings it will store, the badges it scanned and, of them, the users' whose
\* numbers in clear it has still to rewrite; and, as history, whether anything
\* was written since it read what it goes by, and the users whose badge somebody
\* else changed since the scan.
InFlight == [at : Await, ask : Operation, hashBadges : BOOLEAN, merged : BadgeSettings,
             scanned : [User -> Badge \union {None}], left : SUBSET User,
             stale : BOOLEAN, changed : SUBSET User]

Over == {"notMade", "answered", "lost"}

TypeOK ==
  /\ badges \in [User -> Badge \union {None}]
  /\ settings \in BadgeSettings
  /\ cache \in BadgeSettings \union {None}
  /\ request \in [Request -> InFlight \union [at : Over]]
  /\ staleWrite \in BOOLEAN

-----------------------------------------------------------------------------
(* The badges: isHashed and matches. *)

Clear(badge) == badge # None /\ ~badge.hashed

\* hashUid, of a number in clear; a fingerprint is left as it is.
Fingerprint(badge) == IF badge = None THEN None ELSE [badge EXCEPT !.hashed = TRUE]

\* Does a stored badge stand for the number?  hashOnly: fingerprints only.
Matches(badge, number, hashOnly) ==
  /\ badge # None
  /\ badge.number = number
  /\ hashOnly => badge.hashed

Holders(number, hashOnly) == {u \in User : Matches(badges[u], number, hashOnly)}

\* Mutant: a badge in clear not found when a duplicate is looked for.
IsOwner_Hashed(owner, number, hashOnly) ==
  \/ owner \in Holders(number, TRUE)
  \/ owner = None /\ Holders(number, TRUE) = {}

\* userIdOf: the first holder in the list of the user settings, whose order is
\* WinCC OA's.
IsOwner(owner, number, hashOnly) ==
  \/ owner \in Holders(number, hashOnly)
  \/ owner = None /\ Holders(number, hashOnly) = {}

(* readSettings: the cache, else the DP — the defaults when it cannot be  *)
(* read; what it gives is cached either way.                               *)

Readable ==
  IF cache # None THEN {cache}
  ELSE {settings} \union (IF Outages THEN {Defaults} ELSE {})

Merged(value, patch) ==
  [s \in DOMAIN value |-> IF s \in DOMAIN patch THEN patch[s] ELSE value[s]]

-----------------------------------------------------------------------------
(* The properties of a state. *)

\* badgeAuth.ts:499: a number "must not be given twice".
NoBadgeTwice ==
  \A u, v \in User :
    badges[u] # None /\ badges[v] # None /\ badges[u].number = badges[v].number => u = v

\* badgeHash.ts:22: with hashBadges on "the clear numbers were all rewritten
\* when it was turned on" — every stored badge opens its user's session by the
\* rule of the setting.
EveryBadgeOpens ==
  \A u \in User :
    badges[u] # None => Matches(badges[u], badges[u].number, settings.hashBadges)

Init ==
  /\ badges \in [User -> Badge \union {None}]
  /\ settings \in BadgeSettings
  /\ NoBadgeTwice
  /\ EveryBadgeOpens
  /\ cache = None
  /\ request = [r \in Request |-> [at |-> "notMade"]]
  /\ staleWrite = FALSE

-----------------------------------------------------------------------------
(* The steps of a request. *)

At(r, await) == request[r].at = await

Goes(r, local) == request' = [request EXCEPT ![r] = local]

Reply(r) == Goes(r, [at |-> "answered"])

\* r writes, changing the badges of the users `who`, and goes on as `local`: what
\* the others in flight have read is no more what is stored.
Outdates(r, local, who) ==
  request' = [q \in Request |->
                IF q = r THEN local
                ELSE IF request[q].at \in Over THEN request[q]
                ELSE [request[q] EXCEPT
                        !.stale = TRUE,
                        !.changed = IF request[q].at \in {"rewrite", "store"}
                                    THEN @ \union who ELSE @]]

\* A write that goes by what r has read.
Writes(r, local, who) ==
  /\ staleWrite' = (staleWrite \/ request[r].stale)
  /\ Outdates(r, local, who)

Done == [at |-> "answered"]

FirstAwait(ask) ==
  CASE ask.op \in {"enrol", "forget"} -> "canChangeOwn"
    [] ask.op = "enrolUser" -> "readSettings"
    [] ask.op = "forgetUser" -> "removeBadge"
    [] ask.op = "putSettings" -> "before"

Start(r, ask) ==
  /\ At(r, "notMade")
  /\ Goes(r, [at |-> FirstAwait(ask), ask |-> ask, hashBadges |-> FALSE,
              merged |-> Defaults, scanned |-> NoBadges, left |-> {},
              stale |-> FALSE, changed |-> {}])
  /\ UNCHANGED <<badges, settings, cache, staleWrite>>

\* enrol and forget: a user changes their own badge with selfEnrolment only.
CanChangeOwn(r) ==
  LET allowed == IF request[r].ask.op = "enrol" THEN "readSettings" ELSE "removeBadge" IN
  /\ At(r, "canChangeOwn")
  /\ \E value \in Readable :
       /\ cache' = value
       /\ \/ value.selfEnrolment /\ Goes(r, [request[r] EXCEPT !.at = allowed])
          \/ ~value.selfEnrolment /\ Reply(r)
  /\ UNCHANGED <<badges, settings, staleWrite>>

\* associate: the settings, then the number's owner in either form, then the
\* badge written as the setting read says.
ReadSettings(r) ==
  /\ At(r, "readSettings")
  /\ \E value \in Readable :
       /\ cache' = value
       /\ Goes(r, [request[r] EXCEPT !.at = "findOwner", !.hashBadges = value.hashBadges,
                                     !.stale = value # settings])
  /\ UNCHANGED <<badges, settings, staleWrite>>

FindOwner(r) ==
  LET ask == request[r].ask IN
  /\ At(r, "findOwner")
  /\ \E owner \in User \union {None} :
       /\ IsOwner(owner, ask.number, FALSE)
       /\ \/ owner \in {None, ask.user} /\ Goes(r, [request[r] EXCEPT !.at = "writeBadge"])
          \/ owner \notin {None, ask.user} /\ Reply(r)
  /\ UNCHANGED <<badges, settings, cache, staleWrite>>

WriteBadge(r) ==
  LET ask == request[r].ask IN
  /\ At(r, "writeBadge")
  /\ badges' = [badges EXCEPT ![ask.user] =
                  [number |-> ask.number, hashed |-> request[r].hashBadges]]
  /\ Writes(r, Done, {ask.user})
  /\ UNCHANGED <<settings, cache>>

\* forget and forgetUser.
RemoveBadge(r) ==
  /\ At(r, "removeBadge")
  /\ badges' = [badges EXCEPT ![request[r].ask.user] = None]
  /\ Outdates(r, Done, {request[r].ask.user})
  /\ UNCHANGED <<settings, cache, staleWrite>>

-----------------------------------------------------------------------------
(* putSettings: the settings before, the migration of the numbers in clear *)
(* when the patch turns hashBadges on, then the patch over the settings.   *)

TurnsOn(patch) == "hashBadges" \in DOMAIN patch /\ patch.hashBadges

Before(r) ==
  LET next == IF TurnsOn(request[r].ask.patch) THEN "scan" ELSE "merge" IN
  /\ At(r, "before")
  /\ \E value \in Readable :
       /\ cache' = value
       /\ Goes(r, [request[r] EXCEPT !.at = next, !.stale = FALSE])
  /\ UNCHANGED <<badges, settings, staleWrite>>

\* hashClearBadges: every user's badge read at once ...
Scan(r) ==
  /\ At(r, "scan")
  /\ Goes(r, [request[r] EXCEPT
                !.at = "rewrite", !.stale = FALSE, !.changed = {},
                !.scanned = badges, !.left = {u \in User : Clear(badges[u])}])
  /\ UNCHANGED <<badges, settings, cache, staleWrite>>

\* Mutant: a write that is refused passed over, the migration going on.
Rewrite_PassedOver(r, u) ==
  /\ At(r, "rewrite")
  /\ u \in request[r].left
  /\ \/ badges' = [badges EXCEPT ![u] = Fingerprint(request[r].scanned[u])]
     \/ UNCHANGED badges
  /\ Writes(r, [request[r] EXCEPT !.left = @ \ {u}], {u} \intersect request[r].changed)
  /\ UNCHANGED <<settings, cache>>

\* ... and those in clear written back one by one as fingerprints: a badge
\* changed since the scan is changed once more,
Rewrite(r, u) ==
  /\ At(r, "rewrite")
  /\ u \in request[r].left
  /\ badges' = [badges EXCEPT ![u] = Fingerprint(request[r].scanned[u])]
  /\ Writes(r, [request[r] EXCEPT !.left = @ \ {u}], {u} \intersect request[r].changed)
  /\ UNCHANGED <<settings, cache>>

\* Mutant: the settings stored before the migration is over.
Merge_Early(r) ==
  /\ At(r, "merge") \/ At(r, "rewrite")
  /\ \E value \in Readable :
       /\ cache' = value
       /\ Goes(r, [request[r] EXCEPT !.at = "store",
                                     !.merged = Merged(value, request[r].ask.patch),
                                     !.stale = @ \/ value # settings])
  /\ UNCHANGED <<badges, settings, staleWrite>>

\* Mutant: the patch over the defaults.
Merge_Defaults(r) ==
  /\ At(r, "merge") \/ (At(r, "rewrite") /\ request[r].left = {})
  /\ \E value \in Readable :
       /\ cache' = value
       /\ Goes(r, [request[r] EXCEPT !.at = "store",
                                     !.merged = Merged(Defaults, request[r].ask.patch),
                                     !.stale = @ \/ value # settings])
  /\ UNCHANGED <<badges, settings, staleWrite>>

\* before writeSettings reads the settings again
Merge(r) ==
  /\ At(r, "merge") \/ (At(r, "rewrite") /\ request[r].left = {})
  /\ \E value \in Readable :
       /\ cache' = value
       /\ Goes(r, [request[r] EXCEPT !.at = "store",
                                     !.merged = Merged(value, request[r].ask.patch),
                                     !.stale = @ \/ value # settings])
  /\ UNCHANGED <<badges, settings, staleWrite>>

\* and stores and caches them.
Store(r) ==
  /\ At(r, "store")
  /\ settings' = request[r].merged
  /\ cache' = request[r].merged
  /\ Writes(r, Done, {})
  /\ UNCHANGED badges

\* WinCC OA refuses a read of the badges or a write — writeSettings' creation of
\* the DP is one: 503, the request stops there.  (readSettings never throws.)
Fails(r) ==
  /\ Outages
  /\ request[r].at \in {"findOwner", "writeBadge", "removeBadge", "scan", "rewrite", "merge",
                        "store"}
  /\ Reply(r)
  /\ UNCHANGED <<badges, settings, cache, staleWrite>>

-----------------------------------------------------------------------------
(* Around the requests: another one (/config, /login, /me) reads the       *)
(* settings, the cache gets too old, the webserver restarts.               *)

ReadElsewhere ==
  /\ cache' \in Readable
  /\ UNCHANGED <<badges, settings, request, staleWrite>>

CacheExpires ==
  /\ cache' = None
  /\ UNCHANGED <<badges, settings, request, staleWrite>>

Restart ==
  /\ cache' = None
  /\ request' = [r \in Request |->
                   IF request[r].at \in Over THEN request[r] ELSE [at |-> "lost"]]
  /\ UNCHANGED <<badges, settings, staleWrite>>

RequestStep(r) ==
  \/ \E ask \in Operation : Start(r, ask)
  \/ CanChangeOwn(r)
  \/ ReadSettings(r)
  \/ FindOwner(r)
  \/ WriteBadge(r)
  \/ RemoveBadge(r)
  \/ Before(r)
  \/ Scan(r)
  \/ \E u \in User : Rewrite(r, u)
  \/ Merge(r)
  \/ Store(r)
  \/ Fails(r)

Next ==
  \/ \E r \in Request : RequestStep(r)
  \/ ReadElsewhere
  \/ CacheExpires
  \/ Restart

Spec == Init /\ [][Next]_vars

-----------------------------------------------------------------------------

\* As long as no request wrote on the strength of something stale, the badges
\* are each one user's ...
UniqueUnlessStale == staleWrite \/ NoBadgeTwice

\* ... and open by the rule of the settings: a failure in the migration leaves
\* hashBadges off, and turning it on leaves no number in clear behind.
OpensUnlessStale == staleWrite \/ EveryBadgeOpens

\* What the cache holds is what is stored, or the defaults of a failed read: a
\* PUT answered is seen by every request after it.
CacheCurrent == cache \in {None, settings, Defaults}

\* badgeSettings.ts:129: writeSettings stores the "`patch` over the current ones"
\* -- until the first write of any request, of a badge or of the settings, that
\* went by something it read and that was no more, or never, what is stored.
PatchUnlessStale ==
  [][\A r \in Request :
       Store(r) /\ ~staleWrite' => settings' = Merged(settings, request[r].ask.patch)]_vars

\* When hashBadges is turned on, each user has the badge they had when the
\* migration read them all, as a fingerprint (badgeAuth.ts:507: it "rewrites
\* every number stored in clear as its fingerprint") -- whatever failed, whatever
\* other migration ran, whoever else was enrolled meanwhile.  Only the user whose
\* own badge was associated, removed or written back since then may have another
\* one, or the one they gave back.
TurnedOnKeeps ==
  [][\A r \in Request :
       Store(r) /\ TurnsOn(request[r].ask.patch) =>
         \A u \in User \ request[r].changed :
           badges[u] = Fingerprint(request[r].scanned[u])]_vars
=============================================================================
