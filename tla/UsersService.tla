---------------------------- MODULE UsersService ----------------------------
(***************************************************************************)
(* The usersService manager (managers/usersService): the writes of the     *)
(* page "Users", one at a time, each traced in the audit trail, and the    *)
(* import of the new users of a directory (AD), automatic or asked for.    *)
(* Both go through the UserManagement of WinCC OA, by awaited calls of one *)
(* CTRL script; what lists the directory runs beside the writes.           *)
(*                                                                         *)
(* A user is known by its name, its only data are its groups.  Requests    *)
(* are those validate() lets through.  The report of an import, the status *)
(* DP (which nothing reads back) and the listing of the directory's groups *)
(* are left out.                                                           *)
(***************************************************************************)
EXTENDS Naturals, Sequences, FiniteSets

CONSTANTS
  User, Group,   \* the names, in WinCC OA and in the directory
  Method,        \* the authentication methods
  Request,       \* the requests of the page
  FirstMethod,   \* the method at first
  Import,        \* the job runImport
  Asks,          \* what the requests ask for
  FirstSettings, \* the settings of the import that may be stored at first
  Off,           \* DEFAULT_SETTINGS
  Project,       \* the users and groups there are at first
  Directory,     \* the contents the directory may have
  MaxStops       \* how often the manager stops

Nobody == [there |-> FALSE, groups |-> {}]
Member(gs) == [there |-> TRUE, groups |-> gs]
Person == {Nobody} \cup {Member(gs) : gs \in SUBSET Group}
GroupState == {"none", "local", "linked"}
Setting == [on : BOOLEAN, every : Nat, groups : SUBSET Group]

Ask ==
  [kind : {"create", "update"}, user : User, groups : SUBSET Group]
    \cup [kind : {"delete"}, user : User] \cup [kind : {"add", "drop", "link"}, group : Group]
    \cup [kind : {"method"}, method : Method] \cup [kind : {"run"}]
    \cup [kind : {"list"}, users : {{}}] \cup [kind : {"pick"}, users : SUBSET User]
    \cup [kind : {"settings"}, setting : Setting]

ASSUME ImportAssumption == Import \notin Request
ASSUME MethodAssumption == FirstMethod \in Method
ASSUME OffAssumption == Off \in Setting /\ ~Off.on
ASSUME StoredAssumption == FirstSettings \subseteq Setting
ASSUME AsksAssumption == Asks \subseteq Ask
ASSUME PeopleAssumption ==
  /\ Project \subseteq [users : [User -> Person], groups : [Group -> GroupState]]
  /\ Directory \subseteq [User -> Person]

VARIABLES
  users, groups, auth,  \* WinCC OA: _Users, _Groups, the authentication method
  ad,                   \* the directory: the groups of each of its users
  stored,               \* the DP WuiUsers_Config.settings
  up,                   \* the manager runs
  chain,                \* the jobs on the promise chain, the first one running
  job,                  \* the requests under way and the import
  settings, status,     \* the manager's memory of them
  cache,                \* adCache.users: the names, none when there is no listing
  seen, key,            \* noGroupSeen, lastGroupSetKey
  log,                  \* history: the changes made
  trail,                \* the rows of the audit trail
  unwritten,            \* history: the changes whose row could not be written
  asked,                \* history: what each user was in when asked, and what was missing
  stops                 \* history: how often the manager stopped

oaVars == <<users, groups, auth>>
mindVars == <<settings, status, cache, seen, key>>
historyVars == <<log, trail, unwritten, asked, stops>>
vars == <<oaVars, ad, stored, up, chain, job, mindVars, historyVars>>

Job == Request \cup {Import}
NoAsk == [kind |-> "none"]
Rest == [pc |-> "idle", imports |-> FALSE, ask |-> NoAsk, old |-> Nobody, n |-> 0, ok |-> FALSE,
         known |-> {}, target |-> {}, todo |-> {}, found |-> [u \in User |-> {}],
         moved |-> {}]
Over == [Rest EXCEPT !.pc = "over"]

Existing == {g \in Group : groups[g] # "none"}

Init ==
  /\ \E p \in Project : users = p.users /\ groups = p.groups
  /\ auth = FirstMethod
  /\ ad \in Directory
  /\ stored \in FirstSettings
  /\ up = FALSE
  /\ chain = <<>>
  /\ job = [j \in Job |-> Rest]
  /\ settings = Off
  /\ status = [running |-> FALSE, next |-> "none", ran |-> FALSE]
  /\ cache = {}
  /\ seen = {} /\ key = {}
  /\ log = <<>> /\ trail = <<>> /\ unwritten = {}
  /\ asked = [u \in User |-> [groups |-> {}, missing |-> {}]]
  /\ stops = 0

(***************************************************************************)
(* The promise chain: a job joins it, runs when it is the first, leaves it.*)
(***************************************************************************)
Turn(j) == chain # <<>> /\ Head(chain) = j
Join(j) == chain' = Append(chain, j)

LeaveChain(j) == chain' = Tail(chain)

(* Job j goes on as r, things (groups, or the settings) changing under the imports' feet. *)
Movable == Group \cup {"settings"}
Disturbed(r, things) == IF r.imports THEN [r EXCEPT !.moved = @ \cup things] ELSE r
Disturb(j, r, things) == job' = [k \in Job |-> IF k = j THEN r ELSE Disturbed(job[k], things)]
Become(j, r) == job' = [job EXCEPT ![j] = r]

(***************************************************************************)
(* The writes of the page: Write (writeOp), with a snapshot before and the *)
(* row after, all in turn; AdImportGroups ("link"), a call of its own.     *)
(***************************************************************************)
Writes == {"create", "update", "delete", "add", "drop", "method", "link"}

ObjectOf(a) ==
  CASE a.kind \in {"create", "update", "delete"} -> users[a.user]
    [] a.kind \in {"add", "drop", "link"} -> [state |-> groups[a.group]]
    [] OTHER -> [method |-> auth]

\* Mutant: the state before is read when the request comes, not in turn.
AskWrite_ReadAtOnce(r) ==
  /\ up /\ job[r].pc = "idle"
  /\ \E a \in {a \in Asks : a.kind \in Writes} :
       Become(r, [Rest EXCEPT !.pc = "ctrl", !.ask = a, !.old = ObjectOf(a)])
  /\ Join(r)
  /\ UNCHANGED <<oaVars, ad, stored, up, mindVars, historyVars>>

AskWrite(r) ==
  /\ up /\ job[r].pc = "idle"
  /\ \E a \in {a \in Asks : a.kind \in Writes} :
       Become(r, [Rest EXCEPT !.pc = IF a.kind = "link" THEN "ctrl" ELSE "before", !.ask = a])
  /\ Join(r)
  /\ UNCHANGED <<oaVars, ad, stored, up, mindVars, historyVars>>

Missing(a) ==
  \/ a.kind \in {"update", "delete"} /\ ~users[a.user].there
  \/ a.kind = "drop" /\ groups[a.group] = "none"

(* The snapshot: not answered, or without the object (404); or kept as the old value. *)
Before(r) ==
  /\ job[r].pc = "before" /\ Turn(r)
  /\ \/ Become(r, Over) /\ LeaveChain(r)
     \/ /\ ~Missing(job[r].ask)
        /\ Become(r, [job[r] EXCEPT !.pc = "ctrl", !.old = ObjectOf(job[r].ask)])
        /\ UNCHANGED chain
  /\ UNCHANGED <<oaVars, ad, stored, up, mindVars, historyVars>>

(***************************************************************************)
(* The CTRL functions that write.  A change may be made and answered as a  *)
(* failure: the second of two saves is refused, a user just created is not *)
(* found again, or the script's answer cannot be read.  A creation is two  *)
(* saves: the object, then its groups, of which those gone are passed over.*)
(***************************************************************************)
Answered(j, ok, n) == [job[j] EXCEPT !.pc = "answered", !.ok = ok, !.n = n]

Changes(j, new, failed) ==
  log' = Append(log, [by |-> j, old |-> ObjectOf(job[j].ask), new |-> new, failed |-> failed,
                      gone |-> Group \ Existing, what |-> job[j].ask.kind])

Goes(j, failed) == Become(j, Answered(j, ~failed, Len(log) + 1))

MovesGroup(j, failed) == Disturb(j, Answered(j, ~failed, Len(log) + 1), {job[j].ask.group})

Create(j, failed) ==
  LET a == job[j].ask
      whole == Member(a.groups \cap Existing) IN
  /\ a.kind = "create" /\ ~users[a.user].there
  /\ \E new \in {whole, Member({})} :
       /\ new # whole => failed
       /\ users' = [users EXCEPT ![a.user] = new]
       /\ Changes(j, new, failed)
  /\ Goes(j, failed)
  /\ UNCHANGED <<groups, auth>>

UpdateUser(j, failed) ==
  LET a == job[j].ask
      new == Member(a.groups \cap Existing) IN
  /\ a.kind = "update" /\ users[a.user].there
  /\ users' = [users EXCEPT ![a.user] = new]
  /\ Changes(j, new, failed)
  /\ Goes(j, failed)
  /\ UNCHANGED <<groups, auth>>

DeleteUser(j, failed) ==
  LET a == job[j].ask IN
  /\ a.kind = "delete" /\ users[a.user].there
  /\ users' = [users EXCEPT ![a.user] = Nobody]
  /\ Changes(j, Nobody, failed)
  /\ Goes(j, failed)
  /\ UNCHANGED <<groups, auth>>

Made(a) == IF a.kind = "link" THEN "linked" ELSE "local"

AddGroup(j, failed) ==
  LET a == job[j].ask IN
  /\ a.kind \in {"add", "link"} /\ groups[a.group] = "none"
  /\ groups' = [groups EXCEPT ![a.group] = Made(a)]
  /\ Changes(j, [state |-> Made(a)], failed)
  /\ MovesGroup(j, failed)
  /\ UNCHANGED <<users, auth>>

(* A group deleted is taken from its members first. *)
DropGroup(j, failed) ==
  LET a == job[j].ask IN
  /\ a.kind = "drop" /\ groups[a.group] # "none"
  /\ groups' = [groups EXCEPT ![a.group] = "none"]
  /\ users' = [u \in User |-> [users[u] EXCEPT !.groups = @ \ {a.group}]]
  /\ Changes(j, [state |-> "none"], failed)
  /\ MovesGroup(j, failed)
  /\ UNCHANGED auth

SetMethod(j, failed) ==
  /\ job[j].ask.kind = "method"
  /\ auth' = job[j].ask.method
  /\ Changes(j, [method |-> auth'], failed)
  /\ Goes(j, failed)
  /\ UNCHANGED <<users, groups>>

(* Refused, without a trace; a group to link that is there already is passed over. *)
Refuses(j) ==
  /\ Become(j, Answered(j, FALSE, 0))
  /\ UNCHANGED <<oaVars, log>>

Ctrl(j) ==
  /\ job[j].pc = "ctrl" /\ Turn(j)
  /\ \/ \E failed \in BOOLEAN :
          \/ Create(j, failed) \/ UpdateUser(j, failed) \/ DeleteUser(j, failed)
          \/ AddGroup(j, failed) \/ DropGroup(j, failed) \/ SetMethod(j, failed)
     \/ Refuses(j)
  /\ UNCHANGED <<ad, stored, up, chain, mindVars, trail, unwritten, asked, stops>>

(***************************************************************************)
(* The answer, and the row: sent before any other call, written or not.    *)
(* A write of the page leaves the chain after its row, the others before.  *)
(***************************************************************************)
Alone(j) == job[j].imports \/ job[j].ask.kind = "link"

Told(a) ==
  CASE a.kind \in {"create", "update"} -> Member(a.groups)
    [] a.kind = "delete" -> Nobody
    [] a.kind \in {"add", "link"} -> [state |-> Made(a)]
    [] a.kind = "drop" -> [state |-> "none"]
    [] OTHER -> [method |-> a.method]

OldTold(j) == IF job[j].ask.kind = "link" THEN [state |-> "none"] ELSE job[j].old

Audit(n, old, new) ==
  \/ trail' = Append(trail, [n |-> n, old |-> old, new |-> new]) /\ UNCHANGED unwritten
  \/ unwritten' = unwritten \cup {n} /\ UNCHANGED trail

\* Mutant: what an import creates is not traced.
AnswerOk_PageOnly(j) ==
  /\ job[j].pc = "answered" /\ job[j].ok
  /\ IF job[j].imports THEN UNCHANGED <<trail, unwritten>>
     ELSE Audit(job[j].n, OldTold(j), Told(job[j].ask))
  /\ Become(j, [job[j] EXCEPT !.pc = "audit"])
  /\ IF Alone(j) THEN LeaveChain(j) ELSE UNCHANGED chain
  /\ UNCHANGED <<oaVars, ad, stored, up, mindVars, log, asked, stops>>

AnswerOk(j) ==
  /\ job[j].pc = "answered" /\ job[j].ok
  /\ Audit(job[j].n, OldTold(j), Told(job[j].ask))
  /\ Become(j, [job[j] EXCEPT !.pc = "audit"])
  /\ IF Alone(j) THEN LeaveChain(j) ELSE UNCHANGED chain
  /\ UNCHANGED <<oaVars, ad, stored, up, mindVars, log, asked, stops>>

(* The row is written: writeOp forgets the listings of the method that was. *)
Audited(j) ==
  /\ job[j].pc = "audit"
  /\ Become(j, IF job[j].imports THEN [job[j] EXCEPT !.pc = "loop"] ELSE Over)
  /\ cache' = IF job[j].ask.kind = "method" THEN {} ELSE cache
  /\ IF Alone(j) THEN UNCHANGED chain ELSE LeaveChain(j)
  /\ UNCHANGED <<oaVars, ad, stored, up, settings, status, seen, key, historyVars>>

(***************************************************************************)
(* runImport: one at a time, started by tick or on demand.                 *)
(***************************************************************************)
StartImport ==
  /\ status' = [status EXCEPT !.running = TRUE]
  /\ Become(Import, [Rest EXCEPT !.pc = "saving", !.imports = TRUE])

NextRun == IF settings.on THEN "set" ELSE "none"

CloseImport ==
  /\ status' = [running |-> FALSE, next |-> NextRun, ran |-> TRUE]
  /\ Become(Import, Rest)

(* An import, or a request, ends. *)
End(j) == IF j = Import THEN CloseImport ELSE Become(j, Over) /\ UNCHANGED status

(* A failure: an import goes on with the next user, or ends when the call threw. *)
AnswerNo(j) ==
  /\ job[j].pc = "answered" /\ ~job[j].ok
  /\ LeaveChain(j)
  /\ \/ job[j].imports /\ Become(j, [job[j] EXCEPT !.pc = "loop"]) /\ UNCHANGED status
     \/ End(j)
  /\ UNCHANGED <<oaVars, ad, stored, up, settings, cache, seen, key, historyVars>>

StatusOn ==
  /\ job[Import].pc = "saving"
  /\ Become(Import, [job[Import] EXCEPT !.pc = "snapshot"])
  /\ Join(Import)
  /\ UNCHANGED <<oaVars, ad, stored, up, mindVars, historyVars>>

TargetGroups ==
  {g \in Group : groups[g] = "linked" /\ (settings.groups = {} \/ g \in settings.groups)}

\* Mutant: who was found in no group is remembered whatever the groups become.
Snapshot_SeenKept ==
  /\ job[Import].pc = "snapshot" /\ Turn(Import)
  /\ LeaveChain(Import)
  /\ \/ CloseImport /\ UNCHANGED key
     \/ /\ TargetGroups # {}
        /\ key' = TargetGroups
        /\ Become(Import, [job[Import] EXCEPT !.pc = "listing", !.target = TargetGroups,
                            !.known = {u \in User : users[u].there},
                            !.moved = {}])
        /\ UNCHANGED status
  /\ UNCHANGED <<oaVars, ad, stored, up, settings, cache, seen, historyVars>>

(* The snapshot, in turn; who was found in no group is asked again when the groups change. *)
Snapshot ==
  /\ job[Import].pc = "snapshot" /\ Turn(Import)
  /\ LeaveChain(Import)
  /\ \/ CloseImport /\ UNCHANGED <<seen, key>>
     \/ /\ TargetGroups # {}
        /\ key' = TargetGroups
        /\ seen' = IF TargetGroups = key THEN seen ELSE {}
        /\ Become(Import, [job[Import] EXCEPT !.pc = "listing", !.target = TargetGroups,
                            !.known = {u \in User : users[u].there},
                            !.moved = {}])
        /\ UNCHANGED status
  /\ UNCHANGED <<oaVars, ad, stored, up, settings, cache, historyVars>>

(* importCandidates of an import; those the page picked, of a manual one. *)
Candidates(j, names) ==
  IF j = Import THEN (names \ job[j].known) \ seen ELSE job[j].ask.users \cap names

AskThose(j, names) ==
  IF Candidates(j, names) = {} THEN End(j)
  ELSE /\ Become(j, [job[j] EXCEPT !.pc = "asking", !.todo = Candidates(j, names),
                               !.ask = NoAsk, !.known = {}])
       /\ UNCHANGED status

(* The listing of the directory, beside the writes; it may fail. *)
Listed(j) ==
  /\ job[j].pc = "listing"
  /\ LET names == {u \in User : ad[u].there} IN
     \/ End(j) /\ UNCHANGED cache
     \/ /\ names # {}
        /\ cache' = names
        /\ AskThose(j, names)
  /\ UNCHANGED <<oaVars, ad, stored, up, chain, settings, seen, key, historyVars>>

(* The groups of each, of those that exist in WinCC OA; some may fail, or all. *)
GroupsRead(j) ==
  /\ job[j].pc = "asking"
  /\ \/ End(j) /\ UNCHANGED asked
     \/ /\ \E failed \in SUBSET job[j].todo :
             LET told == job[j].todo \ failed IN
             Become(j, [job[j] EXCEPT !.pc = "loop", !.todo = told,
                          !.found = [u \in User |-> IF u \in told THEN ad[u].groups \cap Existing ELSE {}]])
        /\ asked' = IF j = Import
                    THEN [u \in User |-> IF u \in job[j].todo
                            THEN [groups |-> ad[u].groups, missing |-> Group \ Existing] ELSE asked[u]]
                    ELSE asked
        /\ UNCHANGED status
  /\ UNCHANGED <<oaVars, ad, stored, up, chain, settings, cache, seen, key, log, trail, unwritten, stops>>

\* Mutant: an import gives all the groups it was answered, as a manual one does.
Matched_All(j, u) == job[j].found[u]

Matched(j, u) == IF j = Import THEN job[j].found[u] \cap job[j].target ELSE job[j].found[u]

(* The next of them: in no group (an import remembers it), or to be created. *)
PassOver(j) ==
  /\ job[j].pc = "loop"
  /\ \E u \in job[j].todo :
       /\ Matched(j, u) = {}
       /\ Become(j, [job[j] EXCEPT !.todo = @ \ {u}])
       /\ seen' = IF j = Import THEN seen \cup {u} ELSE seen
  /\ UNCHANGED <<oaVars, ad, stored, up, chain, settings, status, cache, key, historyVars>>

AdCreate(j) ==
  /\ job[j].pc = "loop"
  /\ \E u \in job[j].todo :
       /\ Matched(j, u) # {}
       /\ Become(j, [job[j] EXCEPT !.pc = "ctrl", !.todo = @ \ {u},
                                   !.ask = [kind |-> "create", user |-> u, groups |-> Matched(j, u)]])
  /\ Join(j)
  /\ UNCHANGED <<oaVars, ad, stored, up, mindVars, historyVars>>

LoopEnds(j) ==
  /\ job[j].pc = "loop" /\ job[j].todo = {}
  /\ End(j)
  /\ UNCHANGED <<oaVars, ad, stored, up, chain, settings, cache, seen, key, historyVars>>

(***************************************************************************)
(* The other requests: a fresh listing, a manual import, an import now.    *)
(***************************************************************************)
AskListing(r) ==
  /\ up /\ job[r].pc = "idle"
  /\ \E a \in {a \in Asks : a.kind = "list"} :
       Become(r, [Rest EXCEPT !.pc = "listing", !.ask = a])
  /\ UNCHANGED <<oaVars, ad, stored, up, chain, mindVars, historyVars>>

(* From the cache while it is young, which is left open. *)
AskPick(r) ==
  /\ up /\ job[r].pc = "idle"
  /\ \E a \in {a \in Asks : a.kind = "pick"} :
       \/ Become(r, [Rest EXCEPT !.pc = "listing", !.imports = TRUE, !.ask = a])
       \/ /\ cache # {}
          /\ Become(r, IF a.users \cap cache = {} THEN Over
                       ELSE [Rest EXCEPT !.pc = "asking", !.imports = TRUE, !.todo = a.users \cap cache])
  /\ UNCHANGED <<oaVars, ad, stored, up, chain, mindVars, historyVars>>

AskRun(r) ==
  /\ up /\ job[r].pc = "idle"
  /\ \E a \in Asks : a.kind = "run"
  /\ IF status.running THEN Become(r, Over) /\ UNCHANGED status
     ELSE /\ status' = [status EXCEPT !.running = TRUE]
          /\ job' = [job EXCEPT ![r] = Over, ![Import] = [Rest EXCEPT !.pc = "saving", !.imports = TRUE]]
  /\ UNCHANGED <<oaVars, ad, stored, up, chain, settings, cache, seen, key, historyVars>>

(***************************************************************************)
(* setImportSettings: in force at once, then stored, then traced.          *)
(***************************************************************************)
AskSettings(r) ==
  /\ up /\ job[r].pc = "idle"
  /\ \E a \in {a \in Asks : a.kind = "settings"}, ok \in BOOLEAN :
       /\ settings' = a.setting
       /\ stored' = IF ok THEN a.setting ELSE stored
       /\ log' = Append(log, [by |-> r, old |-> settings, new |-> a.setting, failed |-> ~ok,
                              gone |-> {}, what |-> "settings"])
       /\ Disturb(r, [Rest EXCEPT !.pc = IF ok THEN "stored" ELSE "refused",
                                   !.old = settings, !.n = Len(log) + 1], {"settings"})
  /\ UNCHANGED <<oaVars, ad, up, chain, status, cache, seen, key, trail, unwritten, asked, stops>>

SettingsRefused(r) ==
  /\ job[r].pc = "refused"
  /\ Become(r, Over)
  /\ UNCHANGED <<oaVars, ad, stored, up, chain, mindVars, historyVars>>

SettingsStored(r) ==
  /\ job[r].pc = "stored"
  /\ LET before == job[r].old
         kept == IF settings.on /\ before.on THEN status.next ELSE "none" IN
     status' = [status EXCEPT !.next =
       IF settings.on /\ before.on /\ before.every # settings.every /\ status.ran THEN NextRun ELSE kept]
  /\ Become(r, [job[r] EXCEPT !.pc = "status"])
  /\ UNCHANGED <<oaVars, ad, stored, up, chain, settings, cache, seen, key, historyVars>>

SettingsTold(r) ==
  /\ job[r].pc = "status"
  /\ Audit(job[r].n, job[r].old, settings)
  /\ Become(r, Over)
  /\ UNCHANGED <<oaVars, ad, stored, up, chain, mindVars, log, asked, stops>>

(***************************************************************************)
(* The timer: sets the time of the first run, starts a run whose time came, *)
(* at any tick after that time was set.                                    *)
(***************************************************************************)
\* Mutant: only the end of an import gives the time of the next.
Tick_NoFirst ==
  /\ up /\ settings.on /\ ~status.running
  /\ status.next = "set" /\ StartImport
  /\ UNCHANGED <<oaVars, ad, stored, up, chain, settings, cache, seen, key, historyVars>>

Tick ==
  /\ up /\ settings.on /\ ~status.running
  /\ \/ /\ status.next = "none"
        /\ status' = [status EXCEPT !.next = "set"]
        /\ UNCHANGED job
     \/ status.next = "set" /\ StartImport
  /\ UNCHANGED <<oaVars, ad, stored, up, chain, settings, cache, seen, key, historyVars>>

(***************************************************************************)
(* The manager starts, and stops with all it had in memory.                *)
(***************************************************************************)
ManagerStarts ==
  /\ ~up /\ up' = TRUE
  /\ settings' \in {stored, Off}
  /\ UNCHANGED <<oaVars, ad, stored, chain, job, status, cache, seen, key, historyVars>>

ManagerStops ==
  /\ up /\ stops < MaxStops
  /\ up' = FALSE /\ stops' = stops + 1
  /\ chain' = <<>>
  /\ job' = [j \in Job |-> IF j = Import \/ job[j].pc = "idle" THEN Rest ELSE Over]
  /\ settings' = Off /\ cache' = {} /\ seen' = {} /\ key' = {}
  /\ status' = [running |-> FALSE, next |-> "none", ran |-> FALSE]
  /\ LET Untold == {j \in Job : job[j].pc \in {"answered", "stored", "status"}} IN
     unwritten' = unwritten \cup {job[j].n : j \in Untold}
  /\ UNCHANGED <<oaVars, ad, stored, log, trail, asked>>

DirectoryChanges ==
  /\ ad' \in Directory
  /\ UNCHANGED <<oaVars, stored, up, chain, job, mindVars, historyVars>>

Proceeds(j) ==
  \/ Before(j) \/ Ctrl(j) \/ AnswerOk(j) \/ AnswerNo(j) \/ Audited(j)
  \/ Listed(j) \/ GroupsRead(j) \/ PassOver(j) \/ AdCreate(j) \/ LoopEnds(j)

Next ==
  \/ \E r \in Request : AskWrite(r) \/ AskListing(r) \/ AskPick(r) \/ AskRun(r) \/ AskSettings(r)
  \/ \E r \in Request : SettingsRefused(r) \/ SettingsStored(r) \/ SettingsTold(r)
  \/ \E j \in Job : Proceeds(j)
  \/ StatusOn \/ Snapshot \/ Tick
  \/ ManagerStarts \/ ManagerStops \/ DirectoryChanges

Spec == Init /\ [][Next]_vars

(* Calls are answered, or fail; the timer ticks, and a time set comes; pmon starts the manager. *)
Fairness ==
  /\ \A j \in Job : WF_vars(Proceeds(j))
  /\ WF_vars(StatusOn) /\ WF_vars(Snapshot)
  /\ WF_vars(Tick) /\ WF_vars(ManagerStarts)

FairSpec == Spec /\ Fairness

-----------------------------------------------------------------------------
(* The types: what a write is about before or after it, a job, a change made. *)
Value == Person \cup [state : GroupState] \cup [method : Method] \cup Setting
Place == {"idle", "over", "before", "ctrl", "answered", "audit", "saving", "snapshot",
          "listing", "asking", "loop", "stored", "refused", "status"}
JobState ==
  [pc : Place, imports : BOOLEAN, ask : Ask \cup {NoAsk}, old : Value, n : Nat, ok : BOOLEAN,
   known : SUBSET User, target : SUBSET Group, todo : SUBSET User,
   found : [User -> SUBSET Group], moved : SUBSET Movable]
Change == [by : Job, old : Value, new : Value, failed : BOOLEAN, gone : SUBSET Group,
           what : Writes \cup {"settings"}]

TypeOK ==
  /\ users \in [User -> Person] /\ groups \in [Group -> GroupState] /\ auth \in Method
  /\ ad \in [User -> Person]
  /\ stored \in Setting /\ settings \in Setting
  /\ up \in BOOLEAN /\ stops \in Nat
  /\ chain \in Seq(Job)
  /\ job \in [Job -> JobState]
  /\ status \in [running : BOOLEAN, next : {"none", "set"}, ran : BOOLEAN]
  /\ cache \subseteq User /\ seen \subseteq User /\ key \subseteq Group
  /\ log \in Seq(Change)
  /\ trail \in Seq([n : Nat, old : Value, new : Value]) /\ unwritten \subseteq Nat
  /\ asked \in [User -> [groups : SUBSET Group, missing : SUBSET Group]]

\* Every row tells what was there right before the change and what it made of it, but
\* for groups that were gone by then: the snapshot, the change and the row are one turn
\* of the chain (writeOp).  A row of the import settings, written awaits later, may
\* tell those of a later change, and no others.
RowsAreTrue ==
  \A i \in DOMAIN trail : LET row == trail[i] c == log[row.n] IN
    /\ row.old = c.old
    /\ CASE c.what \in {"create", "update"} -> c.new.groups = row.new.groups \ c.gone
         [] c.what = "settings" ->
              \E n \in row.n..Len(log) : log[n].what = "settings" /\ log[n].new = row.new
         [] OTHER -> c.new = row.new

\* A change without a row is one made but answered as a failure (the second of two
\* saves refused, no answer from CTRL), or its row was refused, or the manager
\* stopped before: not even an import that runs beside the writes leaves another.
UntracedOnlyIfFailed ==
  \A n \in DOMAIN log :
    \/ log[n].failed \/ n \in unwritten
    \/ \E i \in DOMAIN trail : trail[i].n = n
    \/ \E j \in Job : job[j].n = n /\ job[j].pc \in {"answered", "stored", "status"}

\* Who is not asked again was, when asked, in none of the groups the imports go by
\* that existed then: not even when the groups or the selection change between two
\* imports (groupSetKey).
SeenIsRight == \A u \in seen : asked[u].groups \cap key \subseteq asked[u].missing

\* A user an import creates is in a group (index.js:430: "none without a group"), unless
\* the creation is answered as a failure -- ctrl.js:704, "created, but its groups were
\* refused" -- or each of the groups it was to get was dropped, maybe made again, under
\* the import.  And whatever the answer, the automatic import gives linked groups of
\* the selection only, but for groups made or dropped, and a selection changed, since
\* it read them: one group that changes excuses no other.
ImportGivesGroups ==
  [][\A j \in Job, u \in User :
       (job[j].pc = "ctrl" /\ job'[j].pc = "answered" /\ job[j].imports
          /\ ~users[u].there /\ users'[u].there) =>
         /\ users'[u].groups = {} => ~job'[j].ok \/ job[j].ask.groups \subseteq job[j].moved
         /\ j = Import => \A g \in users'[u].groups \ job[j].moved :
              /\ groups[g] = "linked"
              /\ "settings" \in job[j].moved \/ settings.groups = {} \/ g \in settings.groups]_vars

\* While the import is on, one starts: after a start of the manager, a change of the
\* settings, an import that failed.  And it ends, whatever it waits for on the chain.
ImportsGoOn ==
  /\ up /\ settings.on ~> status.running \/ ~settings.on \/ ~up
  /\ status.running ~> ~status.running
=============================================================================
