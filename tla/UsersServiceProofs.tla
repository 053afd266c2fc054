------------------------- MODULE UsersServiceProofs -------------------------
(***************************************************************************)
(* Theorems about UsersService, for any users, groups, requests, contents  *)
(* of the directory and number of stops: the rows of the audit trail are   *)
(* true, the changes without a row are accounted for, an import asks again *)
(* whom it must, and gives a group to whom it creates.                     *)
(***************************************************************************)
EXTENDS UsersService, TLAPS

-----------------------------------------------------------------------------
(* Types. *)

LEMMA People ==
  /\ Nobody \in Person
  /\ \A gs \in SUBSET Group : Member(gs) \in Person
  /\ \A p \in Person : /\ p.there \in BOOLEAN /\ p.groups \subseteq Group
                       /\ ~p.there => p = Nobody
                       /\ p.there => p = Member(p.groups)
<1>1. Nobody.there = FALSE /\ Nobody.groups = {} /\ Nobody \in Person
  BY DEF Nobody, Person
<1>2. \A gs \in SUBSET Group : Member(gs) \in Person
  BY DEF Person
<1>3. \A gs : Member(gs).there = TRUE /\ Member(gs).groups = gs
  BY DEF Member
<1>4. ASSUME NEW p \in Person
      PROVE  p = Nobody \/ \E gs \in SUBSET Group : p = Member(gs)
  BY DEF Person
<1> QED
  BY <1>1, <1>2, <1>3, <1>4

LEMMA WithoutGroup ==
  ASSUME NEW p \in Person, NEW g
  PROVE  [p EXCEPT !.groups = @ \ {g}] \in Person
<1>1. CASE p = Nobody
  BY <1>1, {} \ {g} = {} DEF Person, Nobody
<1>2. ASSUME NEW gs \in SUBSET Group, p = Member(gs)
      PROVE  [p EXCEPT !.groups = @ \ {g}] \in Person
  <2> DEFINE R == [there : BOOLEAN, groups : SUBSET Group]
             q == [p EXCEPT !.groups = p.groups \ {g}]
  <2>1. p \in R /\ p.there = TRUE /\ p.groups = gs
    BY <1>2 DEF Member
  <2>3. q \in R /\ q.there = TRUE /\ q.groups = gs \ {g}
    BY <2>1
  <2>4. q = [there |-> q.there, groups |-> q.groups]
    BY <2>3
  <2>2. [p EXCEPT !.groups = p.groups \ {g}] = [there |-> TRUE, groups |-> gs \ {g}]
    BY <2>3, <2>4
  <2> QED
    BY <2>2 DEF Person, Member
<1> QED
  BY <1>1, <1>2 DEF Person

LEMMA AskIs ==
  ASSUME NEW a \in Ask
  PROVE  /\ a.kind \in {"create", "update"} => a.user \in User /\ a.groups \subseteq Group
         /\ a.kind = "delete" => a.user \in User
         /\ a.kind \in {"add", "drop", "link"} => a.group \in Group
         /\ a.kind = "method" => a.method \in Method
         /\ a.kind = "list" => a.users = {}
         /\ a.kind = "pick" => a.users \subseteq User
         /\ a.kind = "settings" => a.setting \in Setting
<1>1. CASE a \in [kind : {"create", "update"}, user : User, groups : SUBSET Group]
  BY <1>1
<1>2. CASE a \in [kind : {"delete"}, user : User]
  BY <1>2
<1>3. CASE a \in [kind : {"add", "drop", "link"}, group : Group]
  BY <1>3
<1>4. CASE a \in [kind : {"method"}, method : Method] \/ a \in [kind : {"run"}]
  BY <1>4
<1>5. CASE a \in [kind : {"list"}, users : {{}}]
  BY <1>5
<1>6. CASE a \in [kind : {"pick"}, users : SUBSET User]
  BY <1>6
<1>7. CASE a \in [kind : {"settings"}, setting : Setting]
  BY <1>7
<1> QED
  BY <1>1, <1>2, <1>3, <1>4, <1>5, <1>6, <1>7 DEF Ask

LEMMA ObjectTyped ==
  ASSUME TypeOK, NEW a \in Ask, a.kind \in Writes
  PROVE  ObjectOf(a) \in Value
<1>1. CASE a.kind \in {"create", "update", "delete"}
  BY <1>1, AskIs DEF TypeOK, ObjectOf, Value
<1>2. CASE a.kind \in {"add", "drop", "link"}
  <2>1. ObjectOf(a) = [state |-> groups[a.group]] /\ groups[a.group] \in GroupState
    BY <1>2, AskIs DEF TypeOK, ObjectOf
  <2> QED
    BY <2>1 DEF Value
<1>3. CASE a.kind = "method"
  <2>1. ObjectOf(a) = [method |-> auth] /\ auth \in Method
    BY <1>3 DEF TypeOK, ObjectOf
  <2> QED
    BY <2>1 DEF Value
<1> QED
  BY <1>1, <1>2, <1>3 DEF Writes

LEMMA ToldTyped ==
  ASSUME NEW a \in Ask, a.kind \in Writes
  PROVE  Told(a) \in Value
<1>1. CASE a.kind \in {"create", "update"}
  BY <1>1, AskIs, People DEF Told, Value
<1>2. CASE a.kind = "delete"
  BY <1>2, People DEF Told, Value
<1>3. CASE a.kind \in {"add", "drop", "link"}
  <2>1. Told(a) \in [state : GroupState]
    BY <1>3 DEF Told, Made, GroupState
  <2> QED
    BY <2>1 DEF Value
<1>4. CASE a.kind = "method"
  <2>1. Told(a) = [method |-> a.method] /\ a.method \in Method
    BY <1>4, AskIs DEF Told
  <2> QED
    BY <2>1 DEF Value
<1> QED
  BY <1>1, <1>2, <1>3, <1>4 DEF Writes

-----------------------------------------------------------------------------
(* The records of the jobs. *)

LEMMA RestIs ==
  /\ Rest \in JobState /\ Rest.pc = "idle" /\ ~Rest.imports /\ Rest.old = Nobody
  /\ Over \in JobState /\ Over.pc = "over" /\ ~Over.imports /\ Over.old = Nobody
<1>1. NoAsk \in Ask \cup {NoAsk} /\ Nobody \in Value /\ "idle" \in Place /\ "over" \in Place
  BY People DEF Value, Place
<1>2. Rest \in JobState /\ Rest.pc = "idle" /\ ~Rest.imports /\ Rest.old = Nobody
  BY <1>1 DEF Rest, JobState
<1> DEFINE r == Rest
<1>3. Over = [r EXCEPT !.pc = "over"] /\ r \in JobState /\ ~r.imports /\ r.old = Nobody
  BY <1>2 DEF Over
<1> HIDE DEF r
<1>4. Over \in JobState /\ Over.pc = "over" /\ ~Over.imports /\ Over.old = Nobody
  BY <1>1, <1>3 DEF JobState
<1> QED
  BY <1>2, <1>4

LEMMA GoIs ==
  ASSUME NEW r \in JobState, NEW pc \in Place, NEW s, s = [r EXCEPT !.pc = pc]
  PROVE  /\ s \in JobState /\ s.pc = pc
         /\ s.imports = r.imports /\ s.ask = r.ask /\ s.old = r.old /\ s.n = r.n /\ s.ok = r.ok
         /\ s.known = r.known /\ s.target = r.target /\ s.todo = r.todo /\ s.found = r.found
         /\ s.moved = r.moved
  BY DEF JobState

LEMMA BecomeIs ==
  ASSUME job \in [Job -> JobState], NEW j \in Job, NEW s \in JobState, Become(j, s)
  PROVE  /\ job' \in [Job -> JobState] /\ job'[j] = s
         /\ \A k \in Job \ {j} : job'[k] = job[k]
  BY DEF Become

\* A job disturbed is the same but for what moved under its feet.
LEMMA DisturbedIs ==
  ASSUME NEW r \in JobState, NEW things \in SUBSET Movable, NEW s, s = Disturbed(r, things)
  PROVE  /\ s \in JobState /\ s.pc = r.pc
         /\ s.imports = r.imports /\ s.ask = r.ask /\ s.old = r.old /\ s.n = r.n /\ s.ok = r.ok
         /\ s.known = r.known /\ s.target = r.target /\ s.todo = r.todo /\ s.found = r.found
         /\ r.imports => s.moved = r.moved \cup things
<1>1. CASE ~r.imports
  BY <1>1 DEF Disturbed
<1>2. CASE r.imports
  <2> DEFINE m == r.moved \cup things
  <2>1. m \in SUBSET Movable
    BY DEF JobState
  <2>2. s = [r EXCEPT !.moved = m]
    BY <1>2 DEF Disturbed
  <2> HIDE DEF m
  <2>3. /\ s \in JobState /\ s.pc = r.pc
        /\ s.imports = r.imports /\ s.ask = r.ask /\ s.old = r.old /\ s.n = r.n /\ s.ok = r.ok
        /\ s.known = r.known /\ s.target = r.target /\ s.todo = r.todo /\ s.found = r.found
        /\ s.moved = m
    BY <2>1, <2>2 DEF JobState
  <2> QED
    BY <2>3 DEF m
<1> QED
  BY <1>1, <1>2

LEMMA DisturbIs ==
  ASSUME job \in [Job -> JobState], NEW j \in Job, NEW s \in JobState,
         NEW things \in SUBSET Movable, Disturb(j, s, things)
  PROVE  /\ job' \in [Job -> JobState] /\ job'[j] = s
         /\ \A k \in Job \ {j} : job'[k] = Disturbed(job[k], things)
<1>1. \A k \in Job \ {j} : Disturbed(job[k], things) \in JobState
  BY DisturbedIs
<1>2. \A k \in Job : job'[k] = IF k = j THEN s ELSE Disturbed(job[k], things)
  BY DEF Disturb
<1>3. \A k \in Job : job'[k] \in JobState
  BY <1>1, <1>2
<1>4. job' = [k \in Job |-> job'[k]]
  BY DEF Disturb
<1> QED
  BY <1>2, <1>3, <1>4

LEMMA AnsweredIs ==
  ASSUME job \in [Job -> JobState], NEW j \in Job, NEW ok \in BOOLEAN, NEW n \in Nat
  PROVE  LET r == job[j]
             s == Answered(j, ok, n)
         IN /\ s \in JobState /\ s.pc = "answered" /\ s.ok = ok /\ s.n = n
            /\ s.imports = r.imports /\ s.ask = r.ask /\ s.old = r.old
            /\ s.known = r.known /\ s.target = r.target /\ s.todo = r.todo /\ s.found = r.found
            /\ s.moved = r.moved
<1> DEFINE r == job[j]
           s == Answered(j, ok, n)
<1>1. r \in JobState /\ s = [r EXCEPT !.pc = "answered", !.ok = ok, !.n = n]
  BY DEF Answered
<1>2. "answered" \in Place
  BY DEF Place
<1> HIDE DEF r, s
<1>3. /\ s \in JobState /\ s.pc = "answered" /\ s.ok = ok /\ s.n = n
      /\ s.imports = r.imports /\ s.ask = r.ask /\ s.old = r.old
      /\ s.known = r.known /\ s.target = r.target /\ s.todo = r.todo /\ s.found = r.found
      /\ s.moved = r.moved
  BY <1>1, <1>2 DEF JobState
<1> QED
  BY <1>3 DEF r, s

(* What each step makes of the record of the job it is a step of. *)

LEMMA AskWriteIs ==
  ASSUME NEW r \in Request, AskWrite(r)
  PROVE  \E a \in Ask, s \in JobState :
           /\ Become(r, s) /\ Join(r)
           /\ a.kind \in Writes /\ s.ask = a /\ ~s.imports
           /\ s.pc = IF a.kind = "link" THEN "ctrl" ELSE "before"
<1>1. PICK a \in Asks :
        /\ a.kind \in Writes
        /\ Become(r, [Rest EXCEPT !.pc = IF a.kind = "link" THEN "ctrl" ELSE "before", !.ask = a])
  BY DEF AskWrite
<1> DEFINE x == Rest
           pc == IF a.kind = "link" THEN "ctrl" ELSE "before"
           s == [x EXCEPT !.pc = pc, !.ask = a]
<1>2. a \in Ask /\ pc \in Place
  BY AsksAssumption DEF Place
<1>3. Become(r, s) /\ Join(r)
  BY <1>1 DEF AskWrite
<1>4. x \in JobState /\ ~x.imports
  BY RestIs
<1> HIDE DEF x, pc
<1>5. s \in JobState /\ s.pc = pc /\ s.ask = a /\ ~s.imports
  BY <1>2, <1>4 DEF JobState
<1> QED
  BY <1>1, <1>2, <1>3, <1>5 DEF pc

LEMMA AskListingIs ==
  ASSUME NEW r \in Request, AskListing(r)
  PROVE  \E s \in JobState :
           Become(r, s) /\ s.pc = "listing" /\ ~s.imports /\ s.ask.kind = "list" /\ s.ask.users = {}
<1>1. PICK a \in Asks : a.kind = "list" /\ Become(r, [Rest EXCEPT !.pc = "listing", !.ask = a])
  BY DEF AskListing
<1> DEFINE x == Rest
           s == [x EXCEPT !.pc = "listing", !.ask = a]
<1>2. a \in Ask /\ a.users = {} /\ "listing" \in Place
  BY <1>1, AsksAssumption, AskIs DEF Place
<1>3. Become(r, s)
  BY <1>1
<1>4. x \in JobState /\ ~x.imports
  BY RestIs
<1> HIDE DEF x
<1>5. s \in JobState /\ s.pc = "listing" /\ s.ask = a /\ ~s.imports
  BY <1>2, <1>4 DEF JobState
<1> QED
  BY <1>1, <1>2, <1>3, <1>5

LEMMA AskPickIs ==
  ASSUME TypeOK, NEW r \in Request, AskPick(r)
  PROVE  \E s \in JobState :
           /\ Become(r, s)
           /\ \/ /\ s.pc = "listing" /\ s.imports /\ s.ask.kind = "pick" /\ s.ask.users \subseteq User
                 /\ s.old = Nobody
              \/ s = Over
              \/ s.pc = "asking" /\ s.imports /\ s.old = Nobody
<1>1. PICK a \in Asks :
        /\ a.kind = "pick"
        /\ \/ Become(r, [Rest EXCEPT !.pc = "listing", !.imports = TRUE, !.ask = a])
           \/ Become(r, IF a.users \cap cache = {} THEN Over
                        ELSE [Rest EXCEPT !.pc = "asking", !.imports = TRUE, !.todo = a.users \cap cache])
  BY DEF AskPick
<1>2. a \in Ask /\ a.users \subseteq User /\ "listing" \in Place /\ "asking" \in Place
  BY <1>1, AsksAssumption, AskIs DEF Place
<1> DEFINE x == Rest
           s1 == [x EXCEPT !.pc = "listing", !.imports = TRUE, !.ask = a]
           todo == a.users \cap cache
           s2 == [x EXCEPT !.pc = "asking", !.imports = TRUE, !.todo = todo]
<1>3. Become(r, s1) \/ Become(r, Over) \/ Become(r, s2)
  BY <1>1
<1>4. x \in JobState /\ x.old = Nobody /\ todo \subseteq User
  BY <1>2, RestIs
<1> HIDE DEF x, todo
<1>5. s1 \in JobState /\ s1.pc = "listing" /\ s1.imports /\ s1.ask = a /\ s1.old = Nobody
  BY <1>2, <1>4 DEF JobState
<1>6. s2 \in JobState /\ s2.pc = "asking" /\ s2.imports /\ s2.old = Nobody
  BY <1>2, <1>4 DEF JobState
<1> QED
  BY <1>1, <1>2, <1>3, <1>5, <1>6, RestIs

LEMMA SavingIs ==
  LET s == [Rest EXCEPT !.pc = "saving", !.imports = TRUE]
  IN s \in JobState /\ s.pc = "saving" /\ s.imports /\ s.old = Nobody
<1> DEFINE x == Rest
<1>1. x \in JobState /\ x.old = Nobody /\ "saving" \in Place
  BY RestIs DEF Place
<1> HIDE DEF x
<1>2. LET s == [x EXCEPT !.pc = "saving", !.imports = TRUE]
      IN s \in JobState /\ s.pc = "saving" /\ s.imports /\ s.old = Nobody
  BY <1>1 DEF JobState
<1> QED
  BY <1>2 DEF x

LEMMA AskSettingsIs ==
  ASSUME TypeOK, NEW r \in Request, AskSettings(r)
  PROVE  \E s \in JobState, now \in Setting, ok \in BOOLEAN :
           /\ Disturb(r, s, {"settings"})
           /\ s.pc = (IF ok THEN "stored" ELSE "refused") /\ ~s.imports
           /\ s.old = settings /\ s.n = Len(log) + 1
           /\ settings' = now /\ stored' \in {now, stored}
           /\ log' = Append(log, [by |-> r, old |-> settings, new |-> now, failed |-> ~ok,
                                  gone |-> {}, what |-> "settings"])
<1>1. PICK a \in Asks, ok \in BOOLEAN :
        /\ a.kind = "settings" /\ settings' = a.setting
        /\ stored' = IF ok THEN a.setting ELSE stored
        /\ log' = Append(log, [by |-> r, old |-> settings, new |-> a.setting, failed |-> ~ok,
                               gone |-> {}, what |-> "settings"])
        /\ Disturb(r, [Rest EXCEPT !.pc = IF ok THEN "stored" ELSE "refused",
                                   !.old = settings, !.n = Len(log) + 1], {"settings"})
  BY DEF AskSettings
<1> DEFINE x == Rest
           pc == IF ok THEN "stored" ELSE "refused"
           n == Len(log) + 1
           s == [x EXCEPT !.pc = pc, !.old = settings, !.n = n]
<1>2. a.setting \in Setting /\ pc \in Place /\ settings \in Value /\ n \in Nat
  BY <1>1, AsksAssumption, AskIs DEF Place, TypeOK, Value
<1>3. x \in JobState /\ ~x.imports
  BY RestIs
<1>4. Disturb(r, s, {"settings"})
  BY <1>1
<1> HIDE DEF x, pc, n
<1>5. s \in JobState /\ s.pc = pc /\ ~s.imports /\ s.old = settings /\ s.n = n
  BY <1>2, <1>3 DEF JobState
<1> QED
  BY <1>1, <1>2, <1>4, <1>5 DEF pc, n

\* The record of a job that keeps what it read, its request and what it tells.
Keeps(s, r) ==
  /\ s.imports = r.imports /\ s.old = r.old /\ s.n = r.n /\ s.ok = r.ok
  /\ s.target = r.target /\ s.moved = r.moved

LEMMA BeforeIs ==
  ASSUME TypeOK, NEW j \in Job, Before(j), job[j].ask \in Ask, job[j].ask.kind \in Writes
  PROVE  \/ Become(j, Over) /\ LeaveChain(j)
         \/ \E s \in JobState :
              /\ Become(j, s) /\ UNCHANGED chain
              /\ s.pc = "ctrl" /\ s.imports = job[j].imports /\ s.ask = job[j].ask
              /\ s.old = ObjectOf(job[j].ask)
<1>1. CASE Become(j, Over) /\ LeaveChain(j)
  BY <1>1
<1>2. CASE /\ Become(j, [job[j] EXCEPT !.pc = "ctrl", !.old = ObjectOf(job[j].ask)])
           /\ UNCHANGED chain
  <2> DEFINE r == job[j]
             old == ObjectOf(r.ask)
             s == [r EXCEPT !.pc = "ctrl", !.old = old]
  <2>1. r \in JobState /\ old \in Value /\ "ctrl" \in Place
    BY ObjectTyped DEF TypeOK, Place
  <2>2. Become(j, s)
    BY <1>2
  <2> HIDE DEF r, old
  <2>3. s \in JobState /\ s.pc = "ctrl" /\ s.imports = r.imports /\ s.ask = r.ask /\ s.old = old
    BY <2>1 DEF JobState
  <2> QED
    BY <1>2, <2>2, <2>3 DEF r, old
<1> QED
  BY <1>1, <1>2 DEF Before

LEMMA PassIs ==
  ASSUME TypeOK, NEW j \in Job, NEW pc \in Place, Become(j, [job[j] EXCEPT !.pc = pc])
  PROVE  \E s \in JobState :
           /\ Become(j, s) /\ s.pc = pc /\ Keeps(s, job[j]) /\ s.ask = job[j].ask
           /\ s.todo = job[j].todo /\ s.found = job[j].found
<1>1. job[j] \in JobState
  BY DEF TypeOK
<1> DEFINE s == [job[j] EXCEPT !.pc = pc]
<1>2. Become(j, s)
  OBVIOUS
<1>3. s = [job[j] EXCEPT !.pc = pc]
  OBVIOUS
<1> HIDE DEF s
<1> QED
  BY <1>1, <1>2, <1>3, GoIs DEF Keeps

LEMMA EndIs ==
  ASSUME NEW j \in Job, End(j)
  PROVE  \E s \in JobState :
           /\ Become(j, s) /\ s \in {Rest, Over} /\ (s = Rest <=> j = Import)
           /\ IF j = Import THEN status' = [running |-> FALSE, next |-> NextRun, ran |-> TRUE]
              ELSE UNCHANGED status
<1>1. Rest # Over
  BY RestIs
<1>2. CASE j = Import
  BY <1>1, <1>2, RestIs DEF End, CloseImport
<1>3. CASE j # Import
  BY <1>1, <1>3, RestIs DEF End
<1> QED
  BY <1>2, <1>3

LEMMA SnapshotIs ==
  ASSUME TypeOK, Snapshot
  PROVE  \/ CloseImport /\ UNCHANGED <<seen, key>>
         \/ \E s \in JobState :
              /\ Become(Import, s) /\ UNCHANGED status
              /\ s.pc = "listing" /\ s.imports = job[Import].imports /\ s.old = job[Import].old
              /\ s.target = TargetGroups /\ s.moved = {}
              /\ key' = TargetGroups /\ seen' = IF TargetGroups = key THEN seen ELSE {}
<1>1. CASE CloseImport /\ UNCHANGED <<seen, key>>
  BY <1>1
<1> DEFINE r == job[Import]
           known == {u \in User : users[u].there}
           T == TargetGroups
           s == [r EXCEPT !.pc = "listing", !.target = T, !.known = known,
                        !.moved = {}]
<1>2. CASE /\ key' = TargetGroups /\ seen' = IF TargetGroups = key THEN seen ELSE {}
           /\ Become(Import, s) /\ UNCHANGED status
  <2>1. r \in JobState /\ T \subseteq Group /\ known \subseteq User /\ "listing" \in Place
    BY DEF TypeOK, Job, TargetGroups, Place
  <2> HIDE DEF r, known, T
  <2>2. s \in JobState /\ s.pc = "listing" /\ s.imports = r.imports /\ s.old = r.old
        /\ s.target = T /\ s.moved = {}
    BY <2>1 DEF JobState
  <2> QED
    BY <1>2, <2>2 DEF r, T
<1> QED
  BY <1>1, <1>2 DEF Snapshot

\* What an import or a request asks of the directory.
LEMMA ListedIs ==
  ASSUME TypeOK, NEW j \in Job, Listed(j), j = Import \/ job[j].ask.users \subseteq User
  PROVE  /\ cache' \subseteq User
         /\ \/ End(j)
            \/ \E s \in JobState :
                 /\ Become(j, s) /\ UNCHANGED status
                 /\ s.pc = "asking" /\ Keeps(s, job[j])
                 /\ s.todo # {}
                 /\ s.todo \cap (IF j = Import THEN seen ELSE {}) = {}
                 /\ j # Import => s.todo \subseteq job[j].ask.users
<1> DEFINE r == job[j]
           names == {u \in User : ad[u].there}
           C == Candidates(j, names)
           s == [r EXCEPT !.pc = "asking", !.todo = C, !.ask = NoAsk, !.known = {}]
<1>1. \/ End(j) /\ UNCHANGED cache
      \/ cache' = names /\ End(j)
      \/ cache' = names /\ C # {} /\ Become(j, s) /\ UNCHANGED status
  BY DEF Listed, AskThose
<1>2. cache' \subseteq User
  BY <1>1 DEF TypeOK
<1>3. C \subseteq User /\ C \cap (IF j = Import THEN seen ELSE {}) = {}
      /\ (j # Import => C \subseteq r.ask.users)
  BY DEF Candidates
<1>4. r \in JobState /\ "asking" \in Place /\ NoAsk \in Ask \cup {NoAsk}
  BY DEF TypeOK, Place
<1> HIDE DEF r, C
<1>5. s \in JobState /\ s.pc = "asking" /\ Keeps(s, r) /\ s.todo = C
  BY <1>3, <1>4 DEF JobState, Keeps
<1> QED
  BY <1>1, <1>2, <1>3, <1>5 DEF r

LEMMA GroupsReadIs ==
  ASSUME TypeOK, NEW j \in Job, GroupsRead(j)
  PROVE  \/ End(j) /\ UNCHANGED asked
         \/ \E s \in JobState :
              /\ Become(j, s) /\ UNCHANGED status
              /\ s.pc = "loop" /\ Keeps(s, job[j])
              /\ s.todo \subseteq job[j].todo
              /\ \A u \in User : s.found[u] \subseteq Existing
              /\ \A u \in s.todo : s.found[u] = ad[u].groups \cap Existing
              /\ asked' = IF j = Import
                          THEN [u \in User |-> IF u \in job[j].todo
                                  THEN [groups |-> ad[u].groups, missing |-> Group \ Existing]
                                  ELSE asked[u]]
                          ELSE asked
<1>1. CASE End(j) /\ UNCHANGED asked
  BY <1>1
<1> DEFINE r == job[j]
           A == IF j = Import
                THEN [u \in User |-> IF u \in r.todo
                        THEN [groups |-> ad[u].groups, missing |-> Group \ Existing] ELSE asked[u]]
                ELSE asked
           F(told) == [u \in User |-> IF u \in told THEN ad[u].groups \cap Existing ELSE {}]
           S(told) == [r EXCEPT !.pc = "loop", !.todo = told, !.found = F(told)]
<1>2. ASSUME NEW failed \in SUBSET r.todo, Become(j, S(r.todo \ failed)), asked' = A, UNCHANGED status
      PROVE  \E s \in JobState :
               /\ Become(j, s) /\ UNCHANGED status
               /\ s.pc = "loop" /\ Keeps(s, r)
               /\ s.todo \subseteq r.todo
               /\ \A u \in User : s.found[u] \subseteq Existing
               /\ \A u \in s.todo : s.found[u] = ad[u].groups \cap Existing
               /\ asked' = A
  <2> DEFINE told == r.todo \ failed
             f == F(told)
             s == S(told)
  <2>1. r \in JobState /\ told \subseteq User /\ told \subseteq r.todo /\ "loop" \in Place
    BY DEF TypeOK, Place, JobState
  <2>2. /\ f \in [User -> SUBSET Group]
        /\ \A u \in User : f[u] \subseteq Existing
        /\ \A u \in told : f[u] = ad[u].groups \cap Existing
    BY <2>1 DEF Existing
  <2>3. Become(j, s)
    BY <1>2
  <2>4. s = [r EXCEPT !.pc = "loop", !.todo = told, !.found = f]
    OBVIOUS
  <2> HIDE DEF r, told, f, s
  <2>5. s \in JobState /\ s.pc = "loop" /\ Keeps(s, r) /\ s.todo = told /\ s.found = f
    BY <2>1, <2>2, <2>4 DEF JobState, Keeps
  <2> QED
    BY <1>2, <2>1, <2>2, <2>3, <2>5
<1> QED
  BY <1>1, <1>2 DEF GroupsRead

LEMMA PassOverIs ==
  ASSUME TypeOK, NEW j \in Job, PassOver(j)
  PROVE  \E s \in JobState, u \in job[j].todo :
           /\ Become(j, s) /\ Matched(j, u) = {}
           /\ s.pc = "loop" /\ Keeps(s, job[j]) /\ s.ask = job[j].ask
           /\ s.todo = job[j].todo \ {u} /\ s.found = job[j].found
           /\ seen' = IF j = Import THEN seen \cup {u} ELSE seen
<1>1. PICK u \in job[j].todo :
        /\ Matched(j, u) = {} /\ Become(j, [job[j] EXCEPT !.todo = @ \ {u}])
        /\ seen' = IF j = Import THEN seen \cup {u} ELSE seen
  BY DEF PassOver
<1> DEFINE r == job[j]
           left == r.todo \ {u}
           s == [r EXCEPT !.todo = left]
<1>2. Become(j, s)
  BY <1>1
<1>3. r \in JobState /\ r.pc = "loop" /\ left \subseteq User
  BY DEF TypeOK, JobState, PassOver
<1>4. s = [r EXCEPT !.todo = left]
  OBVIOUS
<1> HIDE DEF r, left, s
<1>5. s \in JobState /\ s.pc = "loop" /\ Keeps(s, r) /\ s.ask = r.ask /\ s.todo = left
      /\ s.found = r.found
  BY <1>3, <1>4 DEF JobState, Keeps
<1> QED
  BY <1>1, <1>2, <1>5 DEF r, left

LEMMA AdCreateIs ==
  ASSUME TypeOK, NEW j \in Job, AdCreate(j)
  PROVE  \E s \in JobState, u \in job[j].todo :
           /\ Become(j, s) /\ Matched(j, u) # {}
           /\ s.pc = "ctrl" /\ Keeps(s, job[j])
           /\ s.ask = [kind |-> "create", user |-> u, groups |-> Matched(j, u)] /\ s.ask \in Ask
           /\ s.todo = job[j].todo \ {u} /\ s.found = job[j].found
<1>1. PICK u \in job[j].todo :
        /\ Matched(j, u) # {}
        /\ Become(j, [job[j] EXCEPT !.pc = "ctrl", !.todo = @ \ {u},
                        !.ask = [kind |-> "create", user |-> u, groups |-> Matched(j, u)]])
  BY DEF AdCreate
<1> DEFINE r == job[j]
           left == r.todo \ {u}
           a == [kind |-> "create", user |-> u, groups |-> Matched(j, u)]
           s == [r EXCEPT !.pc = "ctrl", !.todo = left, !.ask = a]
<1>2. Become(j, s)
  BY <1>1
<1>3. r \in JobState /\ u \in User /\ left \subseteq User /\ "ctrl" \in Place
  BY DEF TypeOK, JobState, Place
<1>4. Matched(j, u) \subseteq Group
  <2>1. r.found \in [User -> SUBSET Group]
    BY <1>3 DEF JobState
  <2> QED
    BY <1>3, <2>1 DEF Matched
<1>5. a \in Ask
  BY <1>3, <1>4 DEF Ask
<1>6. s = [r EXCEPT !.pc = "ctrl", !.todo = left, !.ask = a]
  OBVIOUS
<1> HIDE DEF r, left, a, s
<1>7. s \in JobState /\ s.pc = "ctrl" /\ Keeps(s, r) /\ s.ask = a /\ s.todo = left
      /\ s.found = r.found
  BY <1>3, <1>5, <1>6 DEF JobState, Keeps
<1> QED
  BY <1>1, <1>2, <1>5, <1>7 DEF r, left, a

\* What a call of the CTRL script did: nothing, or one change, of what the request names.
Moves(j, s) ==
  LET a == job[j].ask
  IN /\ a.kind \in {"add", "link", "drop"} /\ a.group \in Group
     /\ Disturb(j, s, {a.group})
     /\ \A g \in Group \ {a.group} : groups'[g] = groups[g]

DidChange(j, new, failed) ==
  LET a == job[j].ask
      s == Answered(j, ~failed, Len(log) + 1)
  IN /\ Changes(j, new, failed)
     /\ new \in Value /\ failed \in BOOLEAN
     /\ (Become(j, s) /\ UNCHANGED groups) \/ Moves(j, s)
     /\ a.kind = "create" => ~users[a.user].there
     /\ a.kind = "link" => groups[a.group] = "none"
     /\ ~failed => new = IF a.kind \in {"create", "update"} THEN Member(a.groups \cap Existing)
                         ELSE Told(a)
     /\ users' \in [User -> Person] /\ groups' \in [Group -> GroupState] /\ auth' \in Method

LEMMA PeopleChange ==
  ASSUME users \in [User -> Person], NEW u \in User, NEW p \in Person
  PROVE  [users EXCEPT ![u] = p] \in [User -> Person]
  OBVIOUS

LEMMA CtrlIs ==
  ASSUME TypeOK, NEW j \in Job, Ctrl(j), job[j].ask \in Ask
  PROVE  \/ Refuses(j)
         \/ \E new, failed : DidChange(j, new, failed)
<1> DEFINE a == job[j].ask
<1>a. \A gs : Member(gs \cap Existing) \in Person
  <2>1. \A gs : gs \cap Existing \in SUBSET Group
    BY DEF Existing
  <2> QED
    BY <2>1, People
<1>1. ASSUME NEW failed \in BOOLEAN, Create(j, failed)
      PROVE  \E new : DidChange(j, new, failed)
  <2>1. PICK new \in {Member(a.groups \cap Existing), Member({})} :
          /\ new # Member(a.groups \cap Existing) => failed
          /\ users' = [users EXCEPT ![a.user] = new]
          /\ Changes(j, new, failed)
    BY <1>1 DEF Create
  <2>2. new \in Person
    BY <1>a, People
  <2>3. a.kind = "create" /\ ~users[a.user].there /\ UNCHANGED <<groups, auth>>
        /\ Become(j, Answered(j, ~failed, Len(log) + 1))
    BY <1>1 DEF Create, Goes
  <2>4. users' \in [User -> Person]
    <3>1. users' = [users EXCEPT ![a.user] = new] /\ a.user \in User
      BY <2>1, <2>3, AskIs
    <3> HIDE DEF a
    <3> QED
      BY <2>2, <3>1, PeopleChange DEF TypeOK
  <2>6. ~failed => new = Member(a.groups \cap Existing)
    BY <2>1
  <2>7. groups' \in [Group -> GroupState] /\ auth' \in Method /\ new \in Value
    BY <2>2, <2>3 DEF TypeOK, Value
  <2>8. DidChange(j, new, failed)
    BY <2>1, <2>3, <2>4, <2>6, <2>7 DEF DidChange
  <2> QED
    BY <2>8
<1>2. ASSUME NEW failed \in BOOLEAN, UpdateUser(j, failed)
      PROVE  \E new : DidChange(j, new, failed)
  <2> DEFINE new == Member(a.groups \cap Existing)
  <2>1. new \in Person /\ new \in Value
    BY <1>a DEF Value
  <2>2. a.kind = "update" /\ UNCHANGED <<groups, auth>> /\ Changes(j, new, failed)
        /\ users' = [users EXCEPT ![a.user] = new]
        /\ Become(j, Answered(j, ~failed, Len(log) + 1))
    BY <1>2 DEF UpdateUser, Goes
  <2>3. a.user \in User
    BY <2>2, AskIs
  <2>4. users' \in [User -> Person]
    <3> HIDE DEF new, a
    <3> QED
      BY <2>1, <2>2, <2>3, PeopleChange DEF TypeOK
  <2>5. DidChange(j, new, failed)
    BY <2>1, <2>2, <2>4 DEF DidChange, TypeOK
  <2> QED
    BY <2>5
<1>3. ASSUME NEW failed \in BOOLEAN, DeleteUser(j, failed)
      PROVE  \E new : DidChange(j, new, failed)
  <2>1. a.kind = "delete" /\ UNCHANGED <<groups, auth>> /\ Changes(j, Nobody, failed)
        /\ users' = [users EXCEPT ![a.user] = Nobody]
        /\ Become(j, Answered(j, ~failed, Len(log) + 1))
    BY <1>3 DEF DeleteUser, Goes
  <2>2. a.user \in User /\ Told(a) = Nobody /\ Nobody \in Person /\ Nobody \in Value
    BY <2>1, AskIs, People DEF Told, Value
  <2>3. users' \in [User -> Person]
    BY <2>1, <2>2, PeopleChange DEF TypeOK
  <2>4. DidChange(j, Nobody, failed)
    BY <2>1, <2>2, <2>3 DEF DidChange, TypeOK
  <2> QED
    BY <2>4
<1>4. ASSUME NEW failed \in BOOLEAN, AddGroup(j, failed)
      PROVE  \E new : DidChange(j, new, failed)
  <2>1. a.kind \in {"add", "link"} /\ UNCHANGED <<users, auth>> /\ groups[a.group] = "none"
        /\ Changes(j, [state |-> Made(a)], failed)
        /\ Disturb(j, Answered(j, ~failed, Len(log) + 1), {a.group})
        /\ groups' = [groups EXCEPT ![a.group] = Made(a)]
    BY <1>4 DEF AddGroup, MovesGroup
  <2>2. Told(a) = [state |-> Made(a)] /\ Made(a) \in GroupState /\ a.group \in Group
    BY <2>1, AskIs DEF Told, Made, GroupState
  <2>3. groups' \in [Group -> GroupState] /\ Told(a) \in Value
        /\ \A g \in Group \ {a.group} : groups'[g] = groups[g]
    <3>1. groups \in [Group -> GroupState]
      BY DEF TypeOK
    <3>2. groups' \in [Group -> GroupState]
          /\ \A g \in Group \ {a.group} : groups'[g] = groups[g]
      BY <2>1, <2>2, <3>1
    <3>3. Told(a) \in [state : GroupState]
      BY <2>2
    <3> QED
      BY <3>2, <3>3 DEF Value
  <2>4. Moves(j, Answered(j, ~failed, Len(log) + 1))
    BY <2>1, <2>2, <2>3 DEF Moves
  <2>5. DidChange(j, Told(a), failed)
    BY <2>1, <2>2, <2>3, <2>4 DEF DidChange, TypeOK
  <2> QED
    BY <2>5
<1>5. ASSUME NEW failed \in BOOLEAN, DropGroup(j, failed)
      PROVE  \E new : DidChange(j, new, failed)
  <2>1. a.kind = "drop" /\ UNCHANGED auth
        /\ Changes(j, [state |-> "none"], failed)
        /\ Disturb(j, Answered(j, ~failed, Len(log) + 1), {a.group})
        /\ groups' = [groups EXCEPT ![a.group] = "none"]
        /\ users' = [u \in User |-> [users[u] EXCEPT !.groups = @ \ {a.group}]]
    BY <1>5 DEF DropGroup, MovesGroup
  <2>2. Told(a) = [state |-> "none"] /\ "none" \in GroupState /\ a.group \in Group
    BY <2>1, AskIs DEF Told, GroupState
  <2>3. groups' \in [Group -> GroupState] /\ Told(a) \in Value
        /\ \A g \in Group \ {a.group} : groups'[g] = groups[g]
    <3>1. groups \in [Group -> GroupState]
      BY DEF TypeOK
    <3>2. groups' \in [Group -> GroupState]
          /\ \A g \in Group \ {a.group} : groups'[g] = groups[g]
      BY <2>1, <2>2, <3>1
    <3>3. Told(a) \in [state : GroupState]
      BY <2>2
    <3> QED
      BY <3>2, <3>3 DEF Value
  <2>4. users' \in [User -> Person]
    <3>1. \A u \in User : [users[u] EXCEPT !.groups = @ \ {a.group}] \in Person
      BY WithoutGroup DEF TypeOK
    <3> QED
      BY <2>1, <3>1
  <2>5. Moves(j, Answered(j, ~failed, Len(log) + 1))
    BY <2>1, <2>2, <2>3 DEF Moves
  <2>6. DidChange(j, Told(a), failed)
    BY <2>1, <2>2, <2>3, <2>4, <2>5 DEF DidChange, TypeOK
  <2> QED
    BY <2>6
<1>6. ASSUME NEW failed \in BOOLEAN, SetMethod(j, failed)
      PROVE  \E new : DidChange(j, new, failed)
  <2>1. a.kind = "method" /\ UNCHANGED <<users, groups>> /\ auth' = a.method
        /\ Changes(j, [method |-> a.method], failed)
        /\ Become(j, Answered(j, ~failed, Len(log) + 1))
    BY <1>6 DEF SetMethod, Goes
  <2>2. Told(a) = [method |-> a.method] /\ a.method \in Method
    BY <2>1, AskIs DEF Told
  <2>3. Told(a) \in Value
    BY <2>2 DEF Value
  <2>4. DidChange(j, Told(a), failed)
    BY <2>1, <2>2, <2>3 DEF DidChange, TypeOK
  <2> QED
    BY <2>4
<1>7. \/ Refuses(j)
      \/ \E failed \in BOOLEAN :
           \/ Create(j, failed) \/ UpdateUser(j, failed) \/ DeleteUser(j, failed)
           \/ AddGroup(j, failed) \/ DropGroup(j, failed) \/ SetMethod(j, failed)
  BY DEF Ctrl
<1> HIDE DEF a
<1> QED
  BY <1>1, <1>2, <1>3, <1>4, <1>5, <1>6, <1>7

-----------------------------------------------------------------------------
(* The types, with what the place a job is at says of its request. *)

ShapeOf(j, r) ==
  /\ r.imports =>
       /\ r.pc \in {"saving", "snapshot", "listing", "asking", "loop", "ctrl", "answered", "audit"}
       /\ r.old = Nobody
  /\ j = Import /\ r.pc # "idle" => r.imports
  /\ r.pc \in {"saving", "snapshot", "asking", "loop"} => r.imports
  /\ r.pc = "listing" /\ j # Import => r.ask.users \subseteq User
  /\ r.pc = "listing" /\ ~r.imports => r.ask.users = {}
  /\ r.pc \in {"before", "ctrl", "answered", "audit"} => r.ask \in Ask /\ r.ask.kind \in Writes
  /\ r.imports /\ r.pc \in {"ctrl", "answered", "audit"} => r.ask.kind = "create"
  /\ r.imports /\ r.pc = "ctrl" => r.ask.groups # {}

Shape == \A j \in Job : ShapeOf(j, job[j])

\* A job that was answered, and a write of the page from its snapshot to its row, is
\* the first of the chain.
NeedsTurn(r) ==
  \/ r.pc = "answered"
  \/ r.pc \in {"ctrl", "audit"} /\ ~r.imports /\ r.ask.kind # "link"

Turns == \A j \in Job : NeedsTurn(job[j]) => Turn(j)

Inv == TypeOK /\ Shape /\ Turns

ChainMoves(j) == UNCHANGED chain \/ Join(j) \/ (Turn(j) /\ LeaveChain(j))

LEMMA RestShape ==
  /\ \A j \in Job : ShapeOf(j, Rest)
  /\ \A j \in Request : ShapeOf(j, Over)
  BY RestIs, ImportAssumption DEF ShapeOf

LEMMA DisturbedShape ==
  ASSUME NEW j, NEW r \in JobState, NEW things \in SUBSET Movable,
         NEW s, s = Disturbed(r, things), ShapeOf(j, r)
  PROVE  ShapeOf(j, s)
  BY DisturbedIs DEF ShapeOf

LEMMA MoveTurns ==
  ASSUME chain \in Seq(Job), NEW j \in Job, ChainMoves(j)
  PROVE  chain' \in Seq(Job) /\ \A k \in Job \ {j} : Turn(k) => Turn(k)'
  BY DEF ChainMoves, Join, LeaveChain, Turn

LEMMA BecomeKeeps ==
  ASSUME Inv, NEW j \in Job, NEW s \in JobState, Become(j, s), ShapeOf(j, s),
         ChainMoves(j), NeedsTurn(s) => Turn(j)'
  PROVE  job' \in [Job -> JobState] /\ Shape' /\ Turns' /\ chain' \in Seq(Job)
<1>1. /\ job' \in [Job -> JobState] /\ job'[j] = s
      /\ \A k \in Job \ {j} : job'[k] = job[k]
  BY BecomeIs DEF Inv, TypeOK
<1>2. chain' \in Seq(Job) /\ \A k \in Job \ {j} : Turn(k) => Turn(k)'
  BY MoveTurns DEF Inv, TypeOK
<1>3. Turns'
  <2> SUFFICES ASSUME NEW k \in Job, NeedsTurn(job'[k])
               PROVE  Turn(k)'
    BY DEF Turns, NeedsTurn
  <2> QED
    BY <1>1, <1>2 DEF Inv, Turns
<1> QED
  BY <1>1, <1>2, <1>3 DEF Inv, Shape

LEMMA DisturbKeeps ==
  ASSUME Inv, NEW j \in Job, NEW s \in JobState, NEW things \in SUBSET Movable,
         Disturb(j, s, things), ShapeOf(j, s), UNCHANGED chain, NeedsTurn(s) => Turn(j)
  PROVE  job' \in [Job -> JobState] /\ Shape' /\ Turns' /\ chain' \in Seq(Job)
<1>1. /\ job' \in [Job -> JobState] /\ job'[j] = s
      /\ \A k \in Job \ {j} : job'[k] = Disturbed(job[k], things)
  BY DisturbIs DEF Inv, TypeOK
<1>2. ASSUME NEW k \in Job \ {j}
      PROVE  ShapeOf(k, job'[k]) /\ (NeedsTurn(job'[k]) => NeedsTurn(job[k]))
  <2>1. job[k] \in JobState /\ ShapeOf(k, job[k])
    BY DEF Inv, TypeOK, Shape
  <2> QED
    BY <1>1, <2>1, DisturbedShape, DisturbedIs DEF NeedsTurn
<1>3. Turns'
  <2> SUFFICES ASSUME NEW k \in Job, NeedsTurn(job'[k])
               PROVE  Turn(k)'
    BY DEF Turns, NeedsTurn
  <2>1. Turn(k)
    BY <1>1, <1>2 DEF Inv, Turns
  <2> QED
    BY <2>1 DEF Turn
<1> QED
  BY <1>1, <1>2, <1>3 DEF Shape, Inv, TypeOK

\* An import goes on with the next user, another job is over.
LEMMA NextPlace ==
  ASSUME Inv, NEW j \in Job, job[j].pc \in {"answered", "audit"}, ChainMoves(j),
         Become(j, IF job[j].imports THEN [job[j] EXCEPT !.pc = "loop"] ELSE Over)
  PROVE  job' \in [Job -> JobState] /\ Shape' /\ Turns' /\ chain' \in Seq(Job)
<1>1. ShapeOf(j, job[j]) /\ TypeOK
  BY DEF Inv, Shape
<1>2. CASE job[j].imports
  <2>1. "loop" \in Place
    BY DEF Place
  <2>2. PICK s \in JobState :
          Become(j, s) /\ s.pc = "loop" /\ Keeps(s, job[j]) /\ s.ask = job[j].ask
    BY <1>1, <1>2, <2>1, PassIs
  <2>3. ShapeOf(j, s) /\ ~NeedsTurn(s)
    BY <1>1, <1>2, <2>2 DEF ShapeOf, Keeps, NeedsTurn
  <2> QED
    BY <2>2, <2>3, BecomeKeeps
<1>3. CASE ~job[j].imports
  <2>1. j \in Request /\ Become(j, Over)
    BY <1>1, <1>3 DEF ShapeOf, Job
  <2> QED
    BY <2>1, RestIs, RestShape, BecomeKeeps DEF NeedsTurn
<1> QED
  BY <1>2, <1>3

LEMMA EndKeeps ==
  ASSUME Inv, NEW j \in Job, End(j), ChainMoves(j)
  PROVE  /\ job' \in [Job -> JobState] /\ Shape' /\ Turns' /\ chain' \in Seq(Job)
         /\ status' \in [running : BOOLEAN, next : {"none", "set"}, ran : BOOLEAN]
<1>1. PICK s \in JobState :
        /\ Become(j, s) /\ s \in {Rest, Over} /\ (s = Rest <=> j = Import)
        /\ IF j = Import THEN status' = [running |-> FALSE, next |-> NextRun, ran |-> TRUE]
           ELSE UNCHANGED status
  BY EndIs
<1>2. j # Import => j \in Request
  BY DEF Job
<1>3. ShapeOf(j, s) /\ ~NeedsTurn(s)
  BY <1>1, <1>2, RestShape, RestIs DEF NeedsTurn
<1>4. status' \in [running : BOOLEAN, next : {"none", "set"}, ran : BOOLEAN]
  <2>1. CASE j = Import
    <3>1. NextRun \in {"none", "set"}
      BY DEF NextRun
    <3>2. status' = [running |-> FALSE, next |-> NextRun, ran |-> TRUE]
      BY <1>1, <2>1
    <3> QED
      BY <3>1, <3>2
  <2>2. CASE j # Import
    BY <1>1, <2>2 DEF Inv, TypeOK
  <2> QED
    BY <2>1, <2>2
<1> QED
  BY <1>1, <1>3, <1>4, BecomeKeeps

LEMMA InitInv == Init => Inv
<1> SUFFICES ASSUME Init PROVE Inv
  OBVIOUS
<1>1. job = [j \in Job |-> Rest]
  BY DEF Init
<1>2. job \in [Job -> JobState] /\ Shape /\ Turns
  BY <1>1, RestIs, RestShape DEF Shape, Turns, NeedsTurn
<1>3. PICK p \in Project : users = p.users /\ groups = p.groups
  BY DEF Init
<1>4. users \in [User -> Person] /\ groups \in [Group -> GroupState]
  BY <1>3, PeopleAssumption
<1>5. ad \in [User -> Person] /\ stored \in Setting /\ settings \in Setting /\ auth \in Method
  BY PeopleAssumption, StoredAssumption, OffAssumption, MethodAssumption DEF Init
<1>6. asked \in [User -> [groups : SUBSET Group, missing : SUBSET Group]]
  BY DEF Init
<1>7. status \in [running : BOOLEAN, next : {"none", "set"}, ran : BOOLEAN]
  BY DEF Init
<1>8. chain \in Seq(Job) /\ log \in Seq(Change) /\ trail \in Seq([n : Nat, old : Value, new : Value])
  BY DEF Init
<1>9. up \in BOOLEAN /\ stops \in Nat /\ cache \subseteq User /\ seen \subseteq User
      /\ key \subseteq Group /\ unwritten \subseteq Nat
  BY DEF Init
<1> QED
  BY <1>2, <1>4, <1>5, <1>6, <1>7, <1>8, <1>9 DEF Inv, TypeOK

LEMMA AuditTyped ==
  ASSUME TypeOK, NEW n \in Nat, NEW old \in Value, NEW new \in Value, Audit(n, old, new)
  PROVE  trail' \in Seq([n : Nat, old : Value, new : Value]) /\ unwritten' \subseteq Nat
<1>1. [n |-> n, old |-> old, new |-> new] \in [n : Nat, old : Value, new : Value]
  OBVIOUS
<1> DEFINE row == [n |-> n, old |-> old, new |-> new]
           Row == [n : Nat, old : Value, new : Value]
<1>2. trail' = Append(trail, row) \/ UNCHANGED trail
  BY DEF Audit
<1>3. unwritten' = unwritten \cup {n} \/ UNCHANGED unwritten
  BY DEF Audit
<1>4. trail \in Seq(Row) /\ unwritten \subseteq Nat /\ row \in Row
  BY <1>1 DEF TypeOK
<1> HIDE DEF row, Row
<1>5. trail' \in Seq(Row)
  <2>1. Append(trail, row) \in Seq(Row)
    BY <1>4
  <2> QED
    BY <1>2, <1>4, <2>1
<1>6. unwritten' \subseteq Nat
  BY <1>3, <1>4
<1> QED
  BY <1>5, <1>6 DEF Row

LEMMA ChangeTyped ==
  ASSUME TypeOK, NEW c, c \in Change, log' = Append(log, c)
  PROVE  log' \in Seq(Change)
  BY DEF TypeOK

LEMMA CtrlKeeps ==
  ASSUME Inv, NEW j \in Job, Ctrl(j)
  PROVE  Inv'
<1>1. job[j] \in JobState /\ job[j].ask \in Ask /\ job[j].ask.kind \in Writes /\ ShapeOf(j, job[j])
      /\ job[j].pc = "ctrl" /\ Turn(j) /\ UNCHANGED chain /\ ChainMoves(j) /\ Turn(j)'
  BY DEF Inv, TypeOK, Shape, ShapeOf, Ctrl, ChainMoves, Turn
<1>2. ASSUME NEW ok \in BOOLEAN, NEW n \in Nat
      PROVE  Answered(j, ok, n) \in JobState /\ ShapeOf(j, Answered(j, ok, n))
  <2> DEFINE s == Answered(j, ok, n)
             r == job[j]
  <2>1. s \in JobState /\ s.pc = "answered" /\ s.imports = r.imports /\ s.ask = r.ask /\ s.old = r.old
    BY AnsweredIs DEF Inv, TypeOK
  <2> HIDE DEF s, r
  <2>2. ShapeOf(j, r) /\ r.ask \in Ask /\ r.ask.kind \in Writes /\ r.pc = "ctrl"
    BY <1>1 DEF r
  <2>3. ShapeOf(j, s)
    BY <2>1, <2>2 DEF ShapeOf
  <2> QED
    BY <2>1, <2>3 DEF s
<1>3. CASE Refuses(j)
  <2>1. Become(j, Answered(j, FALSE, 0))
    BY <1>3 DEF Refuses
  <2>2. job' \in [Job -> JobState] /\ Shape' /\ Turns'
    BY <1>1, <1>2, <2>1, BecomeKeeps
  <2> QED
    BY <1>3, <2>2 DEF Inv, TypeOK, Ctrl, Refuses, oaVars, mindVars
<1>4. ASSUME NEW new, NEW failed, DidChange(j, new, failed)
      PROVE  Inv'
  <2>1. new \in Value /\ failed \in BOOLEAN
        /\ users' \in [User -> Person] /\ groups' \in [Group -> GroupState] /\ auth' \in Method
    BY <1>4 DEF DidChange
  <2>2. Len(log) + 1 \in Nat /\ (~failed) \in BOOLEAN
    BY <2>1 DEF Inv, TypeOK
  <2>3. job' \in [Job -> JobState] /\ Shape' /\ Turns'
    <3> DEFINE s == Answered(j, ~failed, Len(log) + 1)
    <3>1. s \in JobState /\ ShapeOf(j, s)
      BY <1>2, <2>2
    <3>2. Become(j, s) \/ Moves(j, s)
      BY <1>4 DEF DidChange
    <3> HIDE DEF s
    <3>3. CASE Become(j, s)
      BY <1>1, <3>1, <3>3, BecomeKeeps
    <3>4. CASE Moves(j, s)
      <4>1. Disturb(j, s, {job[j].ask.group}) /\ {job[j].ask.group} \in SUBSET Movable
        BY <3>4 DEF Moves, Movable
      <4> QED
        BY <1>1, <3>1, <4>1, DisturbKeeps
    <3> QED
      BY <3>2, <3>3, <3>4
  <2>4. log' \in Seq(Change)
    <3> DEFINE old == ObjectOf(job[j].ask)
               c == [by |-> j, old |-> old, new |-> new, failed |-> failed,
                     gone |-> Group \ Existing, what |-> job[j].ask.kind]
    <3>1. old \in Value
      BY <1>1, ObjectTyped DEF Inv
    <3>2. log' = Append(log, c)
      BY <1>4 DEF DidChange, Changes
    <3>3. c \in Change
      <4> HIDE DEF old
      <4> QED
        BY <1>1, <2>1, <3>1 DEF Change
    <3> HIDE DEF c
    <3> QED
      BY <3>2, <3>3, ChangeTyped DEF Inv
  <2> QED
    BY <2>1, <2>3, <2>4 DEF Inv, TypeOK, Ctrl, mindVars
<1> QED
  BY <1>1, <1>3, <1>4, CtrlIs DEF Inv

LEMMA NextInv == Inv /\ [Next]_vars => Inv'
<1> SUFFICES ASSUME Inv, [Next]_vars PROVE Inv'
  OBVIOUS
<1>t. TypeOK /\ Shape /\ Turns
  BY DEF Inv
<1>r. Request \subseteq Job /\ Import \in Job
  BY DEF Job
<1>i. \A r \in Request : r # Import
  BY ImportAssumption
<1>1. ASSUME NEW r \in Request, AskWrite(r) PROVE Inv'
  <2>1. PICK a \in Ask, s \in JobState :
          /\ Become(r, s) /\ Join(r)
          /\ a.kind \in Writes /\ s.ask = a /\ ~s.imports
          /\ s.pc = IF a.kind = "link" THEN "ctrl" ELSE "before"
    BY <1>1, AskWriteIs
  <2>2. ShapeOf(r, s) /\ ~NeedsTurn(s) /\ ChainMoves(r)
    BY <1>i, <2>1 DEF ShapeOf, ChainMoves, NeedsTurn
  <2>3. job' \in [Job -> JobState] /\ Shape' /\ Turns' /\ chain' \in Seq(Job)
    BY <1>t, <1>r, <2>1, <2>2, BecomeKeeps
  <2> QED
    BY <1>1, <1>t, <2>3 DEF AskWrite, Inv, TypeOK, oaVars, mindVars, historyVars
<1>2. ASSUME NEW r \in Request, AskListing(r) PROVE Inv'
  <2>1. PICK s \in JobState :
          Become(r, s) /\ s.pc = "listing" /\ ~s.imports /\ s.ask.kind = "list" /\ s.ask.users = {}
    BY <1>2, AskListingIs
  <2>2. ShapeOf(r, s) /\ ~NeedsTurn(s) /\ ChainMoves(r)
    BY <1>2, <1>i, <2>1 DEF AskListing, ChainMoves, NeedsTurn, ShapeOf
  <2>3. job' \in [Job -> JobState] /\ Shape' /\ Turns' /\ chain' \in Seq(Job)
    BY <1>t, <1>r, <2>1, <2>2, BecomeKeeps
  <2> QED
    BY <1>2, <1>t, <2>3 DEF AskListing, Inv, TypeOK, oaVars, mindVars, historyVars
<1>3. ASSUME NEW r \in Request, AskPick(r) PROVE Inv'
  <2>1. PICK s \in JobState :
          /\ Become(r, s)
          /\ \/ /\ s.pc = "listing" /\ s.imports /\ s.ask.kind = "pick" /\ s.ask.users \subseteq User
                /\ s.old = Nobody
             \/ s = Over
             \/ s.pc = "asking" /\ s.imports /\ s.old = Nobody
    BY <1>3, <1>t, AskPickIs
  <2>2. ShapeOf(r, s) /\ ~NeedsTurn(s) /\ ChainMoves(r)
    BY <1>3, <1>i, <2>1, RestShape, RestIs DEF AskPick, ChainMoves, NeedsTurn, ShapeOf
  <2>3. job' \in [Job -> JobState] /\ Shape' /\ Turns' /\ chain' \in Seq(Job)
    BY <1>t, <1>r, <2>1, <2>2, BecomeKeeps
  <2> QED
    BY <1>3, <1>t, <2>3 DEF AskPick, Inv, TypeOK, oaVars, mindVars, historyVars
<1> DEFINE saving == [Rest EXCEPT !.pc = "saving", !.imports = TRUE]
<1>s. saving \in JobState /\ ShapeOf(Import, saving) /\ ~NeedsTurn(saving)
  <2> HIDE DEF saving
  <2>1. saving \in JobState /\ saving.pc = "saving" /\ saving.imports /\ saving.old = Nobody
    BY SavingIs DEF saving
  <2> QED
    BY <2>1 DEF ShapeOf, NeedsTurn
<1>4. ASSUME NEW r \in Request, AskRun(r) PROVE Inv'
  <2>1. CASE Become(r, Over) /\ UNCHANGED status
    <3>1. job' \in [Job -> JobState] /\ Shape' /\ Turns' /\ chain' \in Seq(Job)
      BY <1>4, <1>t, <1>r, <2>1, RestIs, RestShape, BecomeKeeps DEF AskRun, ChainMoves, NeedsTurn
    <3> QED
      BY <1>4, <1>t, <2>1, <3>1 DEF AskRun, Inv, TypeOK, oaVars, mindVars, historyVars
  <2>2. CASE /\ status' = [status EXCEPT !.running = TRUE]
             /\ job' = [job EXCEPT ![r] = Over, ![Import] = saving]
    <3> HIDE DEF saving
    <3>1. job \in [Job -> JobState] /\ Over \in JobState
      BY <1>t, RestIs DEF TypeOK
    <3>2. /\ job' \in [Job -> JobState] /\ job'[r] = Over /\ job'[Import] = saving
          /\ \A k \in Job \ {r, Import} : job'[k] = job[k]
      BY <1>r, <1>i, <1>s, <2>2, <3>1
    <3>3. Shape'
      BY <1>t, <1>s, <3>2, RestShape DEF Shape
    <3>5. Turns'
      <4>1. UNCHANGED chain
        BY <1>4 DEF AskRun
      <4>2. \A k \in Job : NeedsTurn(job'[k]) => NeedsTurn(job[k])
        BY <1>s, <3>2, RestIs DEF NeedsTurn
      <4> SUFFICES ASSUME NEW k \in Job, NeedsTurn(job'[k])
                   PROVE  Turn(k)'
        BY DEF Turns, NeedsTurn
      <4> QED
        BY <1>t, <4>1, <4>2 DEF Turns, Turn
    <3>4. status' \in [running : BOOLEAN, next : {"none", "set"}, ran : BOOLEAN]
      BY <1>t, <2>2 DEF TypeOK
    <3> QED
      BY <1>4, <1>t, <3>2, <3>3, <3>4, <3>5 DEF AskRun, Inv, TypeOK, oaVars, historyVars
  <2> QED
    BY <1>4, <2>1, <2>2 DEF AskRun
<1>5. ASSUME NEW r \in Request, AskSettings(r) PROVE Inv'
  <2>1. PICK s \in JobState, now \in Setting, ok \in BOOLEAN :
          /\ Disturb(r, s, {"settings"})
          /\ s.pc = (IF ok THEN "stored" ELSE "refused") /\ ~s.imports
          /\ s.old = settings /\ s.n = Len(log) + 1
          /\ settings' = now /\ stored' \in {now, stored}
          /\ log' = Append(log, [by |-> r, old |-> settings, new |-> now, failed |-> ~ok,
                                 gone |-> {}, what |-> "settings"])
    BY <1>5, <1>t, AskSettingsIs
  <2>2. ShapeOf(r, s) /\ ~NeedsTurn(s) /\ UNCHANGED chain
    BY <1>5, <1>i, <2>1 DEF AskSettings, NeedsTurn, ShapeOf
  <2>3. job' \in [Job -> JobState] /\ Shape' /\ Turns' /\ chain' \in Seq(Job)
    <3>1. PICK things \in SUBSET Movable : Disturb(r, s, things)
      BY <2>1 DEF Movable
    <3> QED
      BY <1>t, <1>r, <2>2, <3>1, DisturbKeeps
  <2>4. log' \in Seq(Change)
    <3> DEFINE c == [by |-> r, old |-> settings, new |-> now, failed |-> ~ok,
                     gone |-> {}, what |-> "settings"]
    <3>1. settings \in Value /\ now \in Value /\ (~ok) \in BOOLEAN /\ r \in Job
      BY <1>t, <1>r DEF TypeOK, Value
    <3>2. c \in Change
      BY <3>1 DEF Change
    <3>3. log' = Append(log, c)
      BY <2>1
    <3> HIDE DEF c
    <3> QED
      BY <1>t, <3>2, <3>3, ChangeTyped
  <2>5. stored' \in Setting /\ settings' \in Setting
    BY <1>t, <2>1 DEF TypeOK
  <2> QED
    BY <1>5, <1>t, <2>3, <2>4, <2>5 DEF AskSettings, Inv, TypeOK, oaVars
<1>6. ASSUME NEW r \in Request, SettingsRefused(r) PROVE Inv'
  <2>1. job' \in [Job -> JobState] /\ Shape' /\ Turns' /\ chain' \in Seq(Job)
    BY <1>6, <1>t, <1>r, RestIs, RestShape, BecomeKeeps DEF SettingsRefused, ChainMoves, NeedsTurn
  <2> QED
    BY <1>6, <1>t, <2>1 DEF SettingsRefused, Inv, TypeOK, oaVars, mindVars, historyVars
<1>7. ASSUME NEW r \in Request, SettingsStored(r) PROVE Inv'
  <2>1. Become(r, [job[r] EXCEPT !.pc = "status"]) /\ job[r].pc = "stored" /\ "status" \in Place
    BY <1>7 DEF SettingsStored, Place
  <2>2. PICK s \in JobState :
          Become(r, s) /\ s.pc = "status" /\ Keeps(s, job[r])
    BY <1>r, <1>t, <2>1, PassIs
  <2>3. ShapeOf(r, job[r])
    BY <1>t, <1>r DEF Shape
  <2>4. ShapeOf(r, s) /\ ~NeedsTurn(s) /\ ChainMoves(r)
    BY <1>7, <1>i, <2>1, <2>2, <2>3 DEF SettingsStored, ChainMoves, NeedsTurn, ShapeOf, Keeps
  <2>5. job' \in [Job -> JobState] /\ Shape' /\ Turns' /\ chain' \in Seq(Job)
    BY <1>r, <1>t, <2>2, <2>4, BecomeKeeps
  <2>6. status' \in [running : BOOLEAN, next : {"none", "set"}, ran : BOOLEAN]
    <3>1. PICK next \in {"none", "set"} : status' = [status EXCEPT !.next = next]
      <4>1. NextRun \in {"none", "set"} /\ status.next \in {"none", "set"}
        BY <1>t DEF NextRun, TypeOK
      <4> HIDE DEF NextRun
      <4> QED
        BY <1>7, <4>1 DEF SettingsStored
    <3> QED
      BY <1>t, <3>1 DEF TypeOK
  <2> QED
    BY <1>7, <1>t, <2>5, <2>6 DEF SettingsStored, Inv, TypeOK, oaVars, historyVars
<1>8. ASSUME NEW r \in Request, SettingsTold(r) PROVE Inv'
  <2>1. job' \in [Job -> JobState] /\ Shape' /\ Turns' /\ chain' \in Seq(Job)
    BY <1>8, <1>t, <1>r, RestIs, RestShape, BecomeKeeps DEF SettingsTold, ChainMoves, NeedsTurn
  <2>2. job[r] \in JobState
    BY <1>t, <1>r DEF TypeOK
  <2>3. job[r].n \in Nat /\ job[r].old \in Value /\ settings \in Value
    BY <1>t, <2>2 DEF TypeOK, JobState, Value
  <2>4. trail' \in Seq([n : Nat, old : Value, new : Value]) /\ unwritten' \subseteq Nat
    BY <1>8, <1>t, <2>3, AuditTyped DEF SettingsTold
  <2> QED
    BY <1>8, <1>t, <2>1, <2>4 DEF SettingsTold, Inv, TypeOK, oaVars, mindVars
<1>9. ASSUME NEW j \in Job, Before(j) PROVE Inv'
  <2>1. ShapeOf(j, job[j]) /\ job[j].pc = "before" /\ Turn(j)
    BY <1>9, <1>t DEF Shape, Before
  <2>2. job[j].ask \in Ask /\ job[j].ask.kind \in Writes /\ ~job[j].imports /\ j \in Request
    BY <2>1 DEF ShapeOf, Job
  <2>3. job' \in [Job -> JobState] /\ Shape' /\ Turns' /\ chain' \in Seq(Job)
    <3>1. CASE Become(j, Over) /\ LeaveChain(j)
      BY <1>t, <2>1, <2>2, <3>1, RestIs, RestShape, BecomeKeeps DEF ChainMoves, NeedsTurn
    <3>2. ASSUME NEW s \in JobState, Become(j, s), UNCHANGED chain, s.pc = "ctrl",
                 s.imports = job[j].imports, s.ask = job[j].ask
          PROVE  job' \in [Job -> JobState] /\ Shape' /\ Turns' /\ chain' \in Seq(Job)
      <4>1. ShapeOf(j, s) /\ ChainMoves(j) /\ Turn(j)'
        BY <1>i, <2>1, <2>2, <3>2 DEF ShapeOf, ChainMoves, Turn
      <4> QED
        BY <1>t, <3>2, <4>1, BecomeKeeps
    <3> QED
      BY <1>9, <1>t, <2>2, <3>1, <3>2, BeforeIs
  <2> QED
    BY <1>9, <1>t, <2>3 DEF Before, Inv, TypeOK, oaVars, mindVars, historyVars
<1>10. ASSUME NEW j \in Job, AnswerOk(j) PROVE Inv'
  <2>1. /\ job[j].pc = "answered" /\ "audit" \in Place
        /\ Become(j, [job[j] EXCEPT !.pc = "audit"])
        /\ Audit(job[j].n, OldTold(j), Told(job[j].ask))
    BY <1>10 DEF AnswerOk, Place
  <2>2. PICK s \in JobState :
          Become(j, s) /\ s.pc = "audit" /\ Keeps(s, job[j]) /\ s.ask = job[j].ask
    BY <1>t, <2>1, PassIs
  <2>3. ShapeOf(j, job[j]) /\ job[j] \in JobState
    BY <1>t DEF Shape, TypeOK
  <2>4. ShapeOf(j, s) /\ job[j].ask \in Ask /\ job[j].ask.kind \in Writes
    BY <2>1, <2>2, <2>3 DEF ShapeOf, Keeps
  <2>8. ChainMoves(j) /\ (NeedsTurn(s) => Turn(j)')
    <3>1. Turn(j)
      BY <1>t, <2>1 DEF Turns, NeedsTurn
    <3>2. IF Alone(j) THEN LeaveChain(j) ELSE UNCHANGED chain
      BY <1>10 DEF AnswerOk
    <3>3. NeedsTurn(s) => ~Alone(j)
      BY <2>2 DEF NeedsTurn, Keeps, Alone
    <3> QED
      BY <3>1, <3>2, <3>3 DEF ChainMoves, Turn
  <2>5. job' \in [Job -> JobState] /\ Shape' /\ Turns' /\ chain' \in Seq(Job)
    BY <1>t, <2>2, <2>4, <2>8, BecomeKeeps
  <2>6. job[j].n \in Nat /\ OldTold(j) \in Value
    <3>1. [state |-> "none"] \in [state : GroupState]
      BY DEF GroupState
    <3>2. [state |-> "none"] \in Value
      BY <3>1 DEF Value
    <3> QED
      BY <2>3, <3>2 DEF JobState, OldTold
  <2>7. trail' \in Seq([n : Nat, old : Value, new : Value]) /\ unwritten' \subseteq Nat
    BY <1>t, <2>1, <2>4, <2>6, ToldTyped, AuditTyped
  <2> QED
    BY <1>10, <1>t, <2>5, <2>7 DEF AnswerOk, Inv, TypeOK, oaVars, mindVars
<1>11. ASSUME NEW j \in Job, AnswerNo(j) PROVE Inv'
  <2>1. job[j].pc = "answered" /\ LeaveChain(j)
    BY <1>11 DEF AnswerNo
  <2>2. Turn(j) /\ ShapeOf(j, job[j])
    BY <1>t, <2>1 DEF Turns, NeedsTurn, Shape
  <2>3. ChainMoves(j)
    BY <2>1, <2>2 DEF ChainMoves
  <2>4. /\ job' \in [Job -> JobState] /\ Shape' /\ Turns' /\ chain' \in Seq(Job)
        /\ status' \in [running : BOOLEAN, next : {"none", "set"}, ran : BOOLEAN]
    <3>1. CASE job[j].imports /\ Become(j, [job[j] EXCEPT !.pc = "loop"]) /\ UNCHANGED status
      <4>1. Become(j, IF job[j].imports THEN [job[j] EXCEPT !.pc = "loop"] ELSE Over)
        BY <3>1
      <4> QED
        BY <1>t, <2>1, <2>2, <2>3, <3>1, <4>1, NextPlace DEF TypeOK
    <3>2. CASE End(j)
      BY <1>t, <2>3, <3>2, EndKeeps
    <3> QED
      BY <1>11, <3>1, <3>2 DEF AnswerNo
  <2> QED
    BY <1>11, <1>t, <2>4 DEF AnswerNo, Inv, TypeOK, oaVars, historyVars
<1>12. ASSUME NEW j \in Job, Audited(j) PROVE Inv'
  <2>1. job[j].pc = "audit" /\ (IF Alone(j) THEN UNCHANGED chain ELSE LeaveChain(j))
        /\ Become(j, IF job[j].imports THEN [job[j] EXCEPT !.pc = "loop"] ELSE Over)
    BY <1>12 DEF Audited
  <2>2. ShapeOf(j, job[j]) /\ (~Alone(j) => Turn(j))
    BY <1>t, <2>1 DEF Turns, NeedsTurn, Shape, Alone
  <2>3. ChainMoves(j)
    BY <2>1, <2>2 DEF ChainMoves
  <2>4. job' \in [Job -> JobState] /\ Shape' /\ Turns' /\ chain' \in Seq(Job)
    BY <1>t, <2>1, <2>2, <2>3, NextPlace
  <2>5. cache' \subseteq User
    BY <1>12, <1>t DEF Audited, TypeOK
  <2> QED
    BY <1>12, <1>t, <2>4, <2>5 DEF Audited, Inv, TypeOK, oaVars, historyVars
<1>13. ASSUME NEW j \in Job, Listed(j) PROVE Inv'
  <2>1. ShapeOf(j, job[j]) /\ job[j].pc = "listing" /\ ChainMoves(j)
    BY <1>13, <1>t DEF Shape, Listed, ChainMoves
  <2>2. j = Import \/ job[j].ask.users \subseteq User
    BY <2>1 DEF ShapeOf
  <2>3. /\ cache' \subseteq User
        /\ \/ End(j)
           \/ \E s \in JobState :
                /\ Become(j, s) /\ UNCHANGED status
                /\ s.pc = "asking" /\ Keeps(s, job[j])
                /\ s.todo # {}
                /\ s.todo \cap (IF j = Import THEN seen ELSE {}) = {}
                /\ j # Import => s.todo \subseteq job[j].ask.users
    BY <1>13, <1>t, <2>2, ListedIs
  <2>4. /\ job' \in [Job -> JobState] /\ Shape' /\ Turns' /\ chain' \in Seq(Job)
        /\ status' \in [running : BOOLEAN, next : {"none", "set"}, ran : BOOLEAN]
    <3>1. CASE End(j)
      BY <2>1, <3>1, EndKeeps
    <3>2. ASSUME NEW s \in JobState, Become(j, s), UNCHANGED status, s.pc = "asking",
                 Keeps(s, job[j]), s.todo # {}, j # Import => s.todo \subseteq job[j].ask.users
          PROVE  /\ job' \in [Job -> JobState] /\ Shape' /\ Turns' /\ chain' \in Seq(Job)
                 /\ status' \in [running : BOOLEAN, next : {"none", "set"}, ran : BOOLEAN]
      <4>1. ShapeOf(j, s) /\ ~NeedsTurn(s)
        BY <2>1, <3>2 DEF ShapeOf, Keeps, NeedsTurn
      <4> QED
        BY <1>t, <2>1, <3>2, <4>1, BecomeKeeps DEF TypeOK
    <3> QED
      BY <2>3, <3>1, <3>2
  <2> QED
    BY <1>13, <1>t, <2>3, <2>4 DEF Listed, Inv, TypeOK, oaVars, historyVars
<1>14. ASSUME NEW j \in Job, GroupsRead(j) PROVE Inv'
  <2>1. ShapeOf(j, job[j]) /\ job[j].pc = "asking" /\ ChainMoves(j)
    BY <1>14, <1>t DEF Shape, GroupsRead, ChainMoves
  <2>2. /\ job' \in [Job -> JobState] /\ Shape' /\ Turns' /\ chain' \in Seq(Job)
        /\ status' \in [running : BOOLEAN, next : {"none", "set"}, ran : BOOLEAN]
    <3>1. CASE End(j)
      BY <2>1, <3>1, EndKeeps
    <3>2. ASSUME NEW s \in JobState, Become(j, s), UNCHANGED status, s.pc = "loop", Keeps(s, job[j])
          PROVE  /\ job' \in [Job -> JobState] /\ Shape' /\ Turns' /\ chain' \in Seq(Job)
                 /\ status' \in [running : BOOLEAN, next : {"none", "set"}, ran : BOOLEAN]
      <4>1. ShapeOf(j, s) /\ ~NeedsTurn(s)
        BY <2>1, <3>2 DEF ShapeOf, Keeps, NeedsTurn
      <4> QED
        BY <1>t, <2>1, <3>2, <4>1, BecomeKeeps DEF TypeOK
    <3> QED
      BY <1>14, <1>t, <3>1, <3>2, GroupsReadIs
  <2>3. asked' \in [User -> [groups : SUBSET Group, missing : SUBSET Group]]
    <3>1. asked' = asked \/ asked' = [u \in User |-> IF u \in job[j].todo
            THEN [groups |-> ad[u].groups, missing |-> Group \ Existing] ELSE asked[u]]
      BY <1>14 DEF GroupsRead
    <3>2. \A u \in User : ad[u].groups \subseteq Group
      BY <1>t, People DEF TypeOK
    <3>3. \A u \in User : [groups |-> ad[u].groups, missing |-> Group \ Existing]
                           \in [groups : SUBSET Group, missing : SUBSET Group]
      BY <3>2
    <3>4. asked \in [User -> [groups : SUBSET Group, missing : SUBSET Group]]
      BY <1>t DEF TypeOK
    <3> DEFINE W == [groups : SUBSET Group, missing : SUBSET Group]
               w(u) == [groups |-> ad[u].groups, missing |-> Group \ Existing]
    <3> HIDE DEF W, w
    <3>5. [u \in User |-> IF u \in job[j].todo THEN w(u) ELSE asked[u]] \in [User -> W]
      BY <3>3, <3>4 DEF W, w
    <3> QED
      BY <3>1, <3>4, <3>5 DEF W, w
  <2> QED
    BY <1>14, <1>t, <2>2, <2>3 DEF GroupsRead, Inv, TypeOK, oaVars
<1>15. ASSUME NEW j \in Job, PassOver(j) PROVE Inv'
  <2>1. ShapeOf(j, job[j]) /\ job[j].pc = "loop" /\ ChainMoves(j)
    BY <1>15, <1>t DEF Shape, PassOver, ChainMoves
  <2>2. PICK s \in JobState, u \in job[j].todo :
          /\ Become(j, s) /\ s.pc = "loop" /\ Keeps(s, job[j])
          /\ seen' = IF j = Import THEN seen \cup {u} ELSE seen
    BY <1>15, <1>t, PassOverIs
  <2>3. ShapeOf(j, s) /\ ~NeedsTurn(s)
    BY <2>1, <2>2 DEF ShapeOf, Keeps, NeedsTurn
  <2>4. job' \in [Job -> JobState] /\ Shape' /\ Turns' /\ chain' \in Seq(Job)
    BY <2>1, <2>2, <2>3, BecomeKeeps
  <2>5. seen' \subseteq User
    <3>1. job[j].todo \subseteq User
      BY <1>t DEF TypeOK, JobState
    <3> QED
      BY <1>t, <2>2, <3>1 DEF TypeOK
  <2> QED
    BY <1>15, <1>t, <2>4, <2>5 DEF PassOver, Inv, TypeOK, oaVars, historyVars
<1>16. ASSUME NEW j \in Job, AdCreate(j) PROVE Inv'
  <2>1. ShapeOf(j, job[j]) /\ job[j].pc = "loop" /\ ChainMoves(j)
    BY <1>16, <1>t DEF Shape, AdCreate, ChainMoves
  <2>2. PICK s \in JobState, u \in job[j].todo :
          /\ Become(j, s) /\ Matched(j, u) # {} /\ s.pc = "ctrl" /\ Keeps(s, job[j])
          /\ s.ask = [kind |-> "create", user |-> u, groups |-> Matched(j, u)] /\ s.ask \in Ask
    BY <1>16, <1>t, AdCreateIs
  <2>3. s.ask.kind = "create" /\ s.ask.groups # {} /\ s.ask.kind \in Writes
    BY <2>2 DEF Writes
  <2>4. ShapeOf(j, s) /\ ~NeedsTurn(s)
    BY <2>1, <2>2, <2>3 DEF ShapeOf, Keeps, NeedsTurn
  <2>5. job' \in [Job -> JobState] /\ Shape' /\ Turns' /\ chain' \in Seq(Job)
    BY <2>1, <2>2, <2>4, BecomeKeeps
  <2> QED
    BY <1>16, <1>t, <2>5 DEF AdCreate, Inv, TypeOK, oaVars, mindVars, historyVars
<1>17. ASSUME NEW j \in Job, LoopEnds(j) PROVE Inv'
  <2>1. End(j) /\ ChainMoves(j)
    BY <1>17 DEF LoopEnds, ChainMoves
  <2>2. /\ job' \in [Job -> JobState] /\ Shape' /\ Turns' /\ chain' \in Seq(Job)
        /\ status' \in [running : BOOLEAN, next : {"none", "set"}, ran : BOOLEAN]
    BY <2>1, EndKeeps
  <2> QED
    BY <1>17, <1>t, <2>2 DEF LoopEnds, Inv, TypeOK, oaVars, historyVars
<1>18. CASE StatusOn
  <2>1. Become(Import, [job[Import] EXCEPT !.pc = "snapshot"]) /\ job[Import].pc = "saving"
        /\ "snapshot" \in Place /\ ChainMoves(Import) /\ ShapeOf(Import, job[Import])
    BY <1>18, <1>r, <1>t DEF StatusOn, Place, ChainMoves, Shape
  <2>2. PICK s \in JobState :
          Become(Import, s) /\ s.pc = "snapshot" /\ Keeps(s, job[Import])
    BY <1>r, <1>t, <2>1, PassIs
  <2>3. ShapeOf(Import, s) /\ ~NeedsTurn(s)
    BY <2>1, <2>2 DEF ShapeOf, Keeps, NeedsTurn
  <2>4. job' \in [Job -> JobState] /\ Shape' /\ Turns' /\ chain' \in Seq(Job)
    BY <1>r, <2>1, <2>2, <2>3, BecomeKeeps
  <2> QED
    BY <1>18, <1>t, <2>4 DEF StatusOn, Inv, TypeOK, oaVars, mindVars, historyVars
<1>19. CASE Snapshot
  <2>1. job[Import].pc = "snapshot" /\ ChainMoves(Import) /\ ShapeOf(Import, job[Import])
    BY <1>19, <1>r, <1>t DEF Snapshot, ChainMoves, Shape
  <2>2. CASE CloseImport /\ UNCHANGED <<seen, key>>
    <3>1. /\ job' \in [Job -> JobState] /\ Shape' /\ Turns' /\ chain' \in Seq(Job)
          /\ status' \in [running : BOOLEAN, next : {"none", "set"}, ran : BOOLEAN]
      BY <1>r, <2>1, <2>2, EndKeeps DEF End
    <3> QED
      BY <1>19, <1>t, <2>2, <3>1 DEF Snapshot, Inv, TypeOK, oaVars, historyVars
  <2>3. ASSUME NEW s \in JobState, Become(Import, s), UNCHANGED status, s.pc = "listing",
               s.imports = job[Import].imports, s.old = job[Import].old, key' = TargetGroups,
               seen' = IF TargetGroups = key THEN seen ELSE {}
        PROVE  Inv'
    <3>1. ShapeOf(Import, s) /\ ~NeedsTurn(s)
      BY <2>1, <2>3 DEF ShapeOf, NeedsTurn
    <3>2. job' \in [Job -> JobState] /\ Shape' /\ Turns' /\ chain' \in Seq(Job)
      BY <1>r, <2>1, <2>3, <3>1, BecomeKeeps
    <3>3. key' \subseteq Group /\ seen' \subseteq User
      BY <1>t, <2>3 DEF TypeOK, TargetGroups
    <3> QED
      BY <1>19, <1>t, <2>3, <3>2, <3>3 DEF Snapshot, Inv, TypeOK, oaVars, historyVars
  <2> QED
    BY <1>19, <1>t, <2>2, <2>3, SnapshotIs
<1>20. CASE Tick
  <2>1. CASE UNCHANGED job /\ status' = [status EXCEPT !.next = "set"]
    <3>1. Shape' /\ Turns' /\ status' \in [running : BOOLEAN, next : {"none", "set"}, ran : BOOLEAN]
      BY <1>20, <1>t, <2>1 DEF Tick, Shape, Turns, NeedsTurn, Turn, TypeOK
    <3> QED
      BY <1>20, <1>t, <2>1, <3>1 DEF Tick, Inv, TypeOK, oaVars, historyVars
  <2>2. CASE StartImport
    <3>1. Become(Import, saving) /\ ChainMoves(Import)
      BY <1>20, <2>2 DEF Tick, StartImport, ChainMoves
    <3> HIDE DEF saving
    <3>2. job' \in [Job -> JobState] /\ Shape' /\ Turns' /\ chain' \in Seq(Job)
      BY <1>r, <1>s, <3>1, BecomeKeeps
    <3>3. status' \in [running : BOOLEAN, next : {"none", "set"}, ran : BOOLEAN]
      BY <1>t, <2>2 DEF StartImport, TypeOK
    <3> QED
      BY <1>20, <1>t, <3>2, <3>3 DEF Tick, Inv, TypeOK, oaVars, historyVars
  <2> QED
    BY <1>20, <2>1, <2>2 DEF Tick
<1>21. CASE ManagerStarts
  <2>1. Shape' /\ Turns'
    BY <1>21, <1>t DEF ManagerStarts, Shape, Turns, NeedsTurn, Turn
  <2>2. settings' \in Setting
    BY <1>21, <1>t, OffAssumption DEF ManagerStarts, TypeOK
  <2> QED
    BY <1>21, <1>t, <2>1, <2>2 DEF ManagerStarts, Inv, TypeOK, oaVars, historyVars
<1>22. CASE ManagerStops
  <2>1. /\ job' = [j \in Job |-> IF j = Import \/ job[j].pc = "idle" THEN Rest ELSE Over]
        /\ unwritten' = unwritten \cup {job[j].n : j \in {j \in Job : job[j].pc \in {"answered", "stored", "status"}}}
    BY <1>22 DEF ManagerStops
  <2>2. job' \in [Job -> JobState]
    BY <2>1, RestIs
  <2>3. \A j \in Job : ShapeOf(j, job'[j]) /\ ~NeedsTurn(job'[j])
    BY <2>1, RestIs, RestShape DEF Job, NeedsTurn
  <2>4. Shape' /\ Turns'
    BY <2>3 DEF Shape, Turns, NeedsTurn
  <2>5. unwritten' \subseteq Nat
    <3>1. \A j \in Job : job[j].n \in Nat
      BY <1>t DEF TypeOK, JobState
    <3> QED
      BY <1>t, <2>1, <3>1 DEF TypeOK
  <2>6. stops' \in Nat /\ chain' \in Seq(Job)
        /\ status' \in [running : BOOLEAN, next : {"none", "set"}, ran : BOOLEAN]
    BY <1>22, <1>t DEF ManagerStops, TypeOK
  <2> QED
    BY <1>22, <1>t, <2>2, <2>4, <2>5, <2>6, OffAssumption DEF ManagerStops, Inv, TypeOK, oaVars
<1>23. CASE DirectoryChanges
  <2>1. Shape' /\ Turns' /\ ad' \in [User -> Person]
    BY <1>23, <1>t, PeopleAssumption DEF DirectoryChanges, Shape, Turns, NeedsTurn, Turn
  <2> QED
    BY <1>23, <1>t, <2>1 DEF DirectoryChanges, Inv, TypeOK, oaVars, mindVars, historyVars
<1>24. CASE UNCHANGED vars
  <2>1. Shape' /\ Turns'
    BY <1>24, <1>t DEF vars, Shape, Turns, NeedsTurn, Turn
  <2> QED
    BY <1>24, <1>t, <2>1 DEF vars, Inv, TypeOK, oaVars, mindVars, historyVars
<1> QED
  <2>1. ASSUME Next
        PROVE  Inv'
    BY <2>1, <1>1, <1>2, <1>3, <1>4, <1>5, <1>6, <1>7, <1>8, <1>9, <1>10, <1>11, <1>12, <1>13,
       <1>14, <1>15, <1>16, <1>17, <1>18, <1>19, <1>20, <1>21, <1>22, <1>23, CtrlKeeps
       DEF Next, Proceeds
  <2> QED
    BY <1>24, <2>1

LEMMA Invariant == Spec => []Inv
  BY InitInv, NextInv, PTL DEF Spec

\* The types of the model's state: TypeOK holds in every behaviour.
THEOREM TypeCorrect == Spec => []TypeOK
  BY Invariant, PTL DEF Inv

-----------------------------------------------------------------------------
(* While the manager is down, nothing is under way. *)

Down == ~up => \A j \in Job : job[j].pc \in {"idle", "over"}

LEMMA InitDown == Init => Down
  BY RestIs DEF Init, Down

LEMMA NextDown == Down /\ [Next]_vars => Down'
<1> SUFFICES ASSUME Down, [Next]_vars, ~up' PROVE \A j \in Job : job'[j].pc \in {"idle", "over"}
  BY DEF Down
<1>r. Request \subseteq Job /\ Import \in Job
  BY DEF Job
<1>1. CASE ManagerStops
  BY <1>1, RestIs DEF ManagerStops
<1>2. CASE DirectoryChanges
  BY <1>2 DEF DirectoryChanges, Down
<1>3. CASE ManagerStarts
  BY <1>3 DEF ManagerStarts
<1>4. CASE UNCHANGED vars
  BY <1>4 DEF vars, Down
<1>5. ASSUME NEW r \in Request,
             AskWrite(r) \/ AskListing(r) \/ AskPick(r) \/ AskRun(r) \/ AskSettings(r)
      PROVE  FALSE
  <2>1. up /\ UNCHANGED up
    <3>1. AskWrite(r) => up /\ UNCHANGED up
      BY DEF AskWrite
    <3>2. AskListing(r) => up /\ UNCHANGED up
      BY DEF AskListing
    <3>3. AskPick(r) => up /\ UNCHANGED up
      BY DEF AskPick
    <3>4. AskRun(r) => up /\ UNCHANGED up
      BY DEF AskRun
    <3>5. AskSettings(r) => up /\ UNCHANGED up
      BY DEF AskSettings
    <3> QED
      BY <1>5, <3>1, <3>2, <3>3, <3>4, <3>5
  <2> QED
    BY <2>1
<1>6. ASSUME NEW r \in Request, SettingsRefused(r) \/ SettingsStored(r) \/ SettingsTold(r)
      PROVE  FALSE
  BY <1>6, <1>r DEF Down, SettingsRefused, SettingsStored, SettingsTold
<1>7. ASSUME NEW j \in Job, Proceeds(j)
      PROVE  FALSE
  BY <1>7 DEF Down, Proceeds, Before, Ctrl, AnswerOk, AnswerNo, Audited, Listed, GroupsRead, PassOver,
     AdCreate, LoopEnds
<1>8. CASE StatusOn \/ Snapshot \/ Tick
  BY <1>8, <1>r DEF Down, StatusOn, Snapshot, Tick
<1> QED
  BY <1>1, <1>2, <1>3, <1>4, <1>5, <1>6, <1>7, <1>8 DEF Next

LEMMA NothingWhenDown == Spec => []Down
  BY InitDown, NextDown, PTL DEF Spec

-----------------------------------------------------------------------------
(* An import under way is the one that runs. *)

Running == job[Import].pc # "idle" => status.running

LEMMA InitRunning == Init => Running
  BY RestIs DEF Init, Running, Job

Steps(j, s) ==
  Become(j, s) \/ \E things \in SUBSET Movable : Disturb(j, s, things)

\* It leaves the others where they are, with what they asked for and have to tell.
LEMMA StepIs ==
  ASSUME job \in [Job -> JobState], NEW j \in Job, NEW s \in JobState, Steps(j, s)
  PROVE  /\ job' \in [Job -> JobState] /\ job'[j] = s
         /\ \A k \in Job \ {j} : /\ job'[k].pc = job[k].pc /\ job'[k].imports = job[k].imports
                               /\ job'[k].ask = job[k].ask /\ job'[k].n = job[k].n
                               /\ job'[k].old = job[k].old /\ job'[k].ok = job[k].ok
<1>1. CASE Become(j, s)
  BY <1>1, BecomeIs
<1>2. ASSUME NEW things \in SUBSET Movable, Disturb(j, s, things)
      PROVE  /\ job' \in [Job -> JobState] /\ job'[j] = s
             /\ \A k \in Job \ {j} : /\ job'[k].pc = job[k].pc /\ job'[k].imports = job[k].imports
                                   /\ job'[k].ask = job[k].ask /\ job'[k].n = job[k].n
                                   /\ job'[k].old = job[k].old /\ job'[k].ok = job[k].ok
  <2>1. /\ job' \in [Job -> JobState] /\ job'[j] = s
        /\ \A k \in Job \ {j} : job'[k] = Disturbed(job[k], things)
    BY <1>2, DisturbIs
  <2>2. ASSUME NEW k \in Job \ {j}
        PROVE  /\ job'[k].pc = job[k].pc /\ job'[k].imports = job[k].imports
               /\ job'[k].ask = job[k].ask /\ job'[k].n = job[k].n
               /\ job'[k].old = job[k].old /\ job'[k].ok = job[k].ok
    <3>1. job[k] \in JobState
      OBVIOUS
    <3> QED
      BY <2>1, <3>1, DisturbedIs
  <2> QED
    BY <2>1, <2>2
<1> QED
  BY <1>1, <1>2 DEF Steps

LEMMA MovesIs ==
  ASSUME NEW j, NEW s, Moves(j, s)
  PROVE  Steps(j, s)
<1>1. {job[j].ask.group} \in SUBSET Movable /\ Disturb(j, s, {job[j].ask.group})
  BY DEF Moves, Movable
<1> QED
  BY <1>1 DEF Steps

\* Another job's step leaves the import where it is.
LEMMA OthersStep ==
  ASSUME TypeOK, NEW j \in Job, j # Import, NEW s, Steps(j, s)
  PROVE  job'[Import].pc = job[Import].pc
<1>1. Import \in Job /\ job \in [Job -> JobState] /\ job[Import] \in JobState
  BY DEF Job, TypeOK
<1>2. CASE Become(j, s)
  BY <1>1, <1>2 DEF Become
<1>3. ASSUME NEW things \in SUBSET Movable, Disturb(j, s, things)
      PROVE  job'[Import].pc = job[Import].pc
  <2>1. job'[Import] = Disturbed(job[Import], things)
    BY <1>1, <1>3 DEF Disturb
  <2> QED
    BY <1>1, <2>1, DisturbedIs
<1> QED
  BY <1>2, <1>3 DEF Steps

\* What a step of a job under way does to the import that runs.
LEMMA StepRunning ==
  ASSUME Inv, Running, NEW j \in Job, job[j].pc # "idle", NEW s, Steps(j, s),
         status'.running = status.running \/ (j = Import /\ s = Rest)
  PROVE  Running'
<1>1. CASE j # Import
  <2>1. job'[Import].pc = job[Import].pc
    BY <1>1, OthersStep DEF Inv
  <2> QED
    BY <1>1, <2>1 DEF Running
<1>2. CASE j = Import /\ status'.running = status.running
  BY <1>2 DEF Running
<1>3. CASE j = Import /\ s = Rest
  <2>1. job'[Import] = Rest
    BY <1>3 DEF Steps, Become, Disturb, Inv, TypeOK
  <2> QED
    BY <2>1, RestIs DEF Running
<1> QED
  BY <1>1, <1>2, <1>3

LEMMA EndRunning ==
  ASSUME Inv, Running, NEW j \in Job, job[j].pc # "idle", End(j)
  PROVE  Running'
<1>1. PICK s \in JobState :
        /\ Become(j, s) /\ s \in {Rest, Over} /\ (s = Rest <=> j = Import)
        /\ IF j = Import THEN status' = [running |-> FALSE, next |-> NextRun, ran |-> TRUE]
           ELSE UNCHANGED status
  BY EndIs
<1> QED
  BY <1>1, StepRunning DEF Steps

LEMMA NextRunning == Inv /\ Running /\ [Next]_vars => Running'
<1> SUFFICES ASSUME Inv, Running, [Next]_vars PROVE Running'
  OBVIOUS
<1>r. /\ Request \subseteq Job /\ Import \in Job /\ \A r \in Request : r # Import
      /\ TypeOK /\ job \in [Job -> JobState]
  BY ImportAssumption DEF Job, Inv, TypeOK
<1>1. ASSUME NEW r \in Request, UNCHANGED status, NEW s, Steps(r, s)
      PROVE  Running'
  <2>1. job'[Import].pc = job[Import].pc
    BY <1>1, <1>r, OthersStep
  <2> QED
    BY <1>1, <2>1 DEF Running
<1>2. ASSUME NEW r \in Request, AskWrite(r) \/ AskListing(r) \/ AskPick(r)
      PROVE  Running'
  <2>1. (\E s : Become(r, s)) /\ UNCHANGED status
    BY <1>2 DEF AskWrite, AskListing, AskPick, mindVars
  <2> QED
    BY <1>1, <2>1 DEF Steps
<1>3. ASSUME NEW r \in Request, AskRun(r) PROVE Running'
  <2>1. CASE Become(r, Over) /\ UNCHANGED status
    BY <1>1, <2>1 DEF Steps
  <2>2. CASE status' = [status EXCEPT !.running = TRUE]
    BY <1>r, <2>2 DEF Running, TypeOK
  <2> QED
    BY <1>3, <2>1, <2>2 DEF AskRun
<1>4. ASSUME NEW r \in Request, AskSettings(r) PROVE Running'
  <2>1. (\E s : Disturb(r, s, {"settings"})) /\ UNCHANGED status
    BY <1>4 DEF AskSettings
  <2>2. \E s : Steps(r, s)
    BY <2>1 DEF Steps, Movable
  <2> QED
    BY <1>1, <2>1, <2>2
<1>5. ASSUME NEW r \in Request, SettingsRefused(r) \/ SettingsTold(r)
      PROVE  Running'
  <2>1. (\E s : Become(r, s)) /\ UNCHANGED status
    BY <1>5 DEF SettingsRefused, SettingsTold, mindVars
  <2> QED
    BY <1>1, <2>1 DEF Steps
<1>6. ASSUME NEW r \in Request, SettingsStored(r) PROVE Running'
  <2>1. job[r].pc = "stored" /\ Become(r, [job[r] EXCEPT !.pc = "status"]) /\ \E next : status' = [status EXCEPT !.next = next]
    BY <1>6 DEF SettingsStored
  <2>2. status'.running = status.running
    BY <1>r, <2>1 DEF TypeOK
  <2> QED
    BY <1>r, <2>1, <2>2, StepRunning DEF Steps
<1>7. ASSUME NEW j \in Job, Before(j) \/ AnswerOk(j) \/ Audited(j) \/ PassOver(j) \/ AdCreate(j)
      PROVE  Running'
  <2>1. job[j].pc # "idle" /\ (\E s : Become(j, s)) /\ UNCHANGED status
    <3>1. Before(j) => job[j].pc # "idle" /\ (\E s : Become(j, s)) /\ UNCHANGED status
      BY DEF Before, mindVars
    <3>2. AnswerOk(j) => job[j].pc # "idle" /\ (\E s : Become(j, s)) /\ UNCHANGED status
      BY DEF AnswerOk, mindVars
    <3>4. Audited(j) => job[j].pc # "idle" /\ (\E s : Become(j, s)) /\ UNCHANGED status
      BY DEF Audited
    <3>5. PassOver(j) => job[j].pc # "idle" /\ (\E s : Become(j, s)) /\ UNCHANGED status
      BY DEF PassOver
    <3>6. AdCreate(j) => job[j].pc # "idle" /\ (\E s : Become(j, s)) /\ UNCHANGED status
      BY DEF AdCreate, mindVars
    <3> QED
      BY <1>7, <3>1, <3>2, <3>4, <3>5, <3>6
  <2> QED
    BY <2>1, StepRunning DEF Steps
<1>8. ASSUME NEW j \in Job, Ctrl(j) PROVE Running'
  <2>1. job[j].pc # "idle" /\ UNCHANGED status /\ TypeOK
    BY <1>8, <1>r DEF Ctrl, mindVars
  <2>2. job[j].ask \in Ask
    BY <1>8 DEF Inv, Shape, ShapeOf, Ctrl
  <2>3. CASE Refuses(j)
    BY <2>1, <2>3, StepRunning DEF Refuses, Steps
  <2>4. ASSUME NEW new, NEW failed, DidChange(j, new, failed)
        PROVE  \E s : Steps(j, s)
    <3>1. \E s : Become(j, s) \/ Moves(j, s)
      BY <2>4 DEF DidChange
    <3>2. \A s : Moves(j, s) => Steps(j, s)
      BY MovesIs
    <3> QED
      BY <3>1, <3>2 DEF Steps
  <2>5. CASE \E s : Steps(j, s)
    BY <2>1, <2>5, StepRunning
  <2> QED
    BY <1>8, <2>1, <2>2, <2>3, <2>4, <2>5, CtrlIs
<1>9. ASSUME NEW j \in Job, AnswerNo(j) \/ Listed(j) \/ GroupsRead(j) \/ LoopEnds(j)
      PROVE  Running'
  <2>1. /\ job[j].pc # "idle"
        /\ End(j) \/ ((\E s : Become(j, s)) /\ UNCHANGED status)
    <3>1. Listed(j) => /\ job[j].pc # "idle"
                       /\ End(j) \/ ((\E s : Become(j, s)) /\ UNCHANGED status)
      BY DEF Listed, AskThose
    <3>2. GroupsRead(j) => /\ job[j].pc # "idle"
                           /\ End(j) \/ ((\E s : Become(j, s)) /\ UNCHANGED status)
      BY DEF GroupsRead
    <3>3. LoopEnds(j) => job[j].pc # "idle" /\ End(j)
      BY DEF LoopEnds
    <3>4. AnswerNo(j) => /\ job[j].pc # "idle"
                         /\ End(j) \/ ((\E s : Become(j, s)) /\ UNCHANGED status)
      BY DEF AnswerNo
    <3> QED
      BY <1>9, <3>1, <3>2, <3>3, <3>4
  <2> QED
    BY <2>1, EndRunning, StepRunning DEF Steps
<1>10. CASE StatusOn \/ Snapshot
  <2>1. /\ job[Import].pc # "idle"
        /\ CloseImport \/ ((\E s : Become(Import, s)) /\ UNCHANGED status)
    <3>1. StatusOn => job[Import].pc # "idle" /\ (\E s : Become(Import, s)) /\ UNCHANGED status
      BY DEF StatusOn, mindVars
    <3>2. Snapshot => /\ job[Import].pc # "idle"
                      /\ CloseImport \/ ((\E s : Become(Import, s)) /\ UNCHANGED status)
      BY DEF Snapshot
    <3> QED
      BY <1>10, <3>1, <3>2
  <2>2. CASE CloseImport
    BY <1>r, <2>1, <2>2, EndRunning DEF End
  <2> QED
    BY <1>r, <2>1, <2>2, StepRunning DEF Steps
<1>11. CASE Tick
  <2>1. CASE UNCHANGED job /\ status' = [status EXCEPT !.next = "set"]
    BY <1>r, <2>1 DEF Running, TypeOK
  <2>2. CASE status' = [status EXCEPT !.running = TRUE]
    BY <1>r, <2>2 DEF Running, TypeOK
  <2> QED
    BY <1>11, <2>1, <2>2 DEF Tick, StartImport
<1>12. CASE ManagerStops
  BY <1>r, <1>12, RestIs DEF ManagerStops, Running
<1>13. CASE ManagerStarts \/ DirectoryChanges \/ UNCHANGED vars
  BY <1>13 DEF ManagerStarts, DirectoryChanges, vars, mindVars, Running
<1> QED
  BY <1>2, <1>3, <1>4, <1>5, <1>6, <1>7, <1>8, <1>9, <1>10, <1>11, <1>12, <1>13 DEF Next, Proceeds

-----------------------------------------------------------------------------
(* What the audit trail tells. *)

\* That old and new may be told of change n.
Tells(n, old, new) ==
  /\ n \in DOMAIN log /\ old = log[n].old
  /\ log[n].what \in {"create", "update"} => log[n].new.groups = new.groups \ log[n].gone
  /\ log[n].what = "settings" =>
       \E m \in n..Len(log) : log[m].what = "settings" /\ log[m].new = new
  /\ log[n].what \notin {"create", "update", "settings"} => log[n].new = new

\* A write of the page goes to the CTRL script with the state before it, in turn.
HasOld(r) ==
  r.pc = "ctrl" /\ ~r.imports /\ r.ask.kind # "link" => r.old = ObjectOf(r.ask)

OldOf(r) == IF r.ask.kind = "link" THEN [state |-> "none"] ELSE r.old

\* What a job that was answered knows of its change, or that it made none, or one that failed.
CanTell(r) ==
  /\ r.pc = "answered" /\ r.ok => Tells(r.n, OldOf(r), Told(r.ask))
  /\ r.pc = "answered" /\ ~r.ok => r.n = 0 \/ (r.n \in DOMAIN log /\ log[r.n].failed)
  /\ r.pc \in {"stored", "status"} => Tells(r.n, r.old, settings) /\ log[r.n].what = "settings"

JobsCanTell == \A j \in Job : HasOld(job[j]) /\ CanTell(job[j])
RowsTell == \A i \in DOMAIN trail : Tells(trail[i].n, trail[i].old, trail[i].new)

Traces == JobsCanTell /\ RowsTell /\ UntracedOnlyIfFailed

ToTell == {"answered", "stored", "status"}

LEMMA TellsGrow ==
  ASSUME TypeOK, NEW c, log' = Append(log, c) \/ log' = log
  PROVE  /\ Len(log) \in Nat
         /\ \A n, old, new : Tells(n, old, new) => Tells(n, old, new)'
         /\ \A n \in DOMAIN log : n \in DOMAIN log' /\ log'[n] = log[n]
         /\ log' = Append(log, c) =>
              /\ DOMAIN log' = DOMAIN log \cup {Len(log) + 1}
              /\ Len(log') = Len(log) + 1 /\ log'[Len(log) + 1] = c
              /\ Len(log) + 1 \notin DOMAIN log
<1>1. log \in Seq(Change)
  BY DEF TypeOK
<1>2. CASE log' = log
  BY <1>1, <1>2 DEF Tells
<1>3. CASE log' = Append(log, c)
  <2>1. /\ Len(log) \in Nat /\ Len(log') = Len(log) + 1
        /\ DOMAIN log = 1..Len(log) /\ DOMAIN log' = 1..Len(log) + 1
        /\ log'[Len(log) + 1] = c
        /\ \A n \in 1..Len(log) : log'[n] = log[n]
    BY <1>1, <1>3
  <2>2. ASSUME NEW n, NEW old, NEW new, Tells(n, old, new)
        PROVE  Tells(n, old, new)'
    <3>1. n \in 1..Len(log) /\ n \in 1..Len(log') /\ log'[n] = log[n]
      BY <2>1, <2>2 DEF Tells
    <3>2. ASSUME log[n].what = "settings"
          PROVE  \E m \in n..Len(log') : log'[m].what = "settings" /\ log'[m].new = new
      <4>1. PICK m \in n..Len(log) : log[m].what = "settings" /\ log[m].new = new
        BY <2>2, <3>2 DEF Tells
      <4> QED
        BY <2>1, <3>1, <4>1
    <3> QED
      BY <2>1, <2>2, <3>1, <3>2 DEF Tells
  <2> QED
    BY <2>1, <2>2, <1>3
<1> QED
  BY <1>2, <1>3

\* A step of job j that changes nothing the rows tell of: it must settle its own change.
LEMMA BecomeTraces ==
  ASSUME Inv, Traces, NEW j \in Job, NEW s \in JobState, Become(j, s),
         UNCHANGED <<oaVars, settings, log, trail, unwritten>>, HasOld(s), CanTell(s),
         job[j].pc \in ToTell =>
           \/ s.pc \in ToTell /\ s.n = job[j].n
           \/ job[j].n \notin DOMAIN log \/ log[job[j].n].failed
  PROVE  Traces'
<1>1. /\ job' \in [Job -> JobState] /\ job'[j] = s
      /\ \A k \in Job \ {j} : job'[k] = job[k]
  BY BecomeIs DEF Inv, TypeOK
<1>2. ASSUME NEW r, HasOld(r), CanTell(r)
      PROVE  HasOld(r)' /\ CanTell(r)'
  BY <1>2 DEF HasOld, CanTell, Tells, ObjectOf, oaVars
<1>3. JobsCanTell'
  <2> SUFFICES ASSUME NEW k \in Job, NEW r, r = job'[k]
               PROVE  HasOld(r)' /\ CanTell(r)'
    BY DEF JobsCanTell, HasOld, CanTell
  <2>1. HasOld(r) /\ CanTell(r)
    BY <1>1 DEF Traces, JobsCanTell
  <2> QED
    BY <1>2, <2>1
<1>4. RowsTell'
  BY DEF Traces, RowsTell, Tells
<1>5. UntracedOnlyIfFailed'
  <2> SUFFICES ASSUME NEW n \in DOMAIN log, ~log[n].failed, n \notin unwritten,
                      ~\E i \in DOMAIN trail : trail[i].n = n
               PROVE  \E k \in Job : job'[k].n = n /\ job'[k].pc \in ToTell
    BY DEF UntracedOnlyIfFailed, ToTell
  <2>1. PICK k \in Job : job[k].n = n /\ job[k].pc \in ToTell
    BY DEF Traces, UntracedOnlyIfFailed, ToTell
  <2> QED
    BY <1>1, <2>1
<1> QED
  BY <1>3, <1>4, <1>5 DEF Traces

\* What a change is told as: what was there right before, and what the request asks for,
\* but for groups that are gone.
LEMMA ChangeTold ==
  ASSUME Inv, Traces, NEW j \in Job, Ctrl(j), NEW new, NEW failed, DidChange(j, new, failed), ~failed
  PROVE  /\ ObjectOf(job[j].ask) = OldOf(job[j])
         /\ job[j].ask.kind \in {"create", "update"} =>
              new.groups = Told(job[j].ask).groups \ (Group \ Existing)
         /\ job[j].ask.kind \notin {"create", "update"} => new = Told(job[j].ask)
         /\ job[j].ask.kind # "settings"
<1> DEFINE r == job[j]
           a == r.ask
<1>1. r \in JobState /\ ShapeOf(j, r) /\ r.pc = "ctrl" /\ HasOld(r) /\ a \in Ask /\ a.kind \in Writes
  BY DEF Inv, TypeOK, Shape, Ctrl, Traces, JobsCanTell, ShapeOf
<1>2. a.kind # "settings"
  BY <1>1 DEF Writes
<1>3. a.kind \in {"create", "update"} => new.groups = Told(a).groups \ (Group \ Existing)
  <2> SUFFICES ASSUME a.kind \in {"create", "update"}
               PROVE  new.groups = Told(a).groups \ (Group \ Existing)
    OBVIOUS
  <2>1. new = Member(a.groups \cap Existing) /\ Told(a) = Member(a.groups) /\ a.groups \subseteq Group
    BY <1>1, AskIs DEF DidChange, Told
  <2>2. new.groups = a.groups \cap Existing /\ Told(a).groups = a.groups
    BY <2>1 DEF Member
  <2> QED
    BY <2>1, <2>2 DEF Existing
<1>4. a.kind \notin {"create", "update"} => new = Told(a)
  BY DEF DidChange
<1>5. ObjectOf(a) = OldOf(r)
  <2>1. CASE r.imports
    <3>1. a.kind = "create" /\ r.old = Nobody /\ ~users[a.user].there /\ a.user \in User
      BY <1>1, <2>1, AskIs DEF ShapeOf, DidChange
    <3>2. users[a.user] = Nobody
      BY <3>1, People DEF Inv, TypeOK
    <3> QED
      BY <3>1, <3>2 DEF ObjectOf, OldOf
  <2>2. CASE ~r.imports /\ a.kind = "link"
    BY <2>2 DEF ObjectOf, OldOf, DidChange
  <2>3. CASE ~r.imports /\ a.kind # "link"
    BY <1>1, <2>3 DEF HasOld, OldOf
  <2> QED
    BY <2>1, <2>2, <2>3
<1> QED
  BY <1>2, <1>3, <1>4, <1>5

LEMMA TurnIsOne ==
  ASSUME NEW j, NEW k, Turn(j), Turn(k)
  PROVE  j = k
  BY DEF Turn

LEMMA CtrlTraces ==
  ASSUME Inv, Traces, NEW j \in Job, Ctrl(j)
  PROVE  Traces'
<1>1. /\ job[j] \in JobState /\ job[j].pc = "ctrl" /\ Turn(j) /\ job[j].ask \in Ask
      /\ job[j].ask.kind \in Writes
      /\ UNCHANGED <<settings, trail, unwritten>> /\ job \in [Job -> JobState]
  BY DEF Inv, TypeOK, Shape, ShapeOf, Ctrl, mindVars
<1>2. CASE Refuses(j)
  <2>0. PICK ok \in BOOLEAN : ok = FALSE
    OBVIOUS
  <2> DEFINE s == Answered(j, ok, 0)
  <2>1. Become(j, s) /\ UNCHANGED <<oaVars, log>>
    BY <1>2, <2>0 DEF Refuses
  <2>2. s \in JobState /\ s.pc = "answered" /\ ~s.ok /\ s.n = 0
    BY <1>1, <2>0, AnsweredIs
  <2> HIDE DEF s
  <2>4. HasOld(s) /\ CanTell(s)
    BY <2>2 DEF HasOld, CanTell
  <2> QED
    BY <1>1, <2>1, <2>2, <2>4, BecomeTraces DEF ToTell
<1>3. ASSUME NEW new, NEW failed, DidChange(j, new, failed)
      PROVE  Traces'
  <2>0. PICK ok, n, a, s :
          ok = ~failed /\ n = Len(log) + 1 /\ a = job[j].ask /\ s = Answered(j, ok, n)
    OBVIOUS
  <2> DEFINE c == [by |-> j, old |-> ObjectOf(a), new |-> new, failed |-> failed,
                   gone |-> Group \ Existing, what |-> a.kind]
  <2>1. failed \in BOOLEAN /\ log' = Append(log, c) /\ n \in Nat /\ ok \in BOOLEAN
    BY <1>3, <2>0 DEF DidChange, Changes, Inv, TypeOK
  <2>2. /\ s \in JobState /\ s.pc = "answered" /\ s.ok = ok /\ s.n = n
        /\ s.imports = job[j].imports /\ s.ask = a /\ s.old = job[j].old
    <3>1. s = Answered(j, ok, n) /\ a = job[j].ask /\ ok \in BOOLEAN /\ n \in Nat
      BY <2>0, <2>1
    <3>2. job \in [Job -> JobState]
      BY <1>1
    <3> QED
      BY <3>1, <3>2, AnsweredIs
  <2>3. /\ Len(log) \in Nat
        /\ \A m, old, told : Tells(m, old, told) => Tells(m, old, told)'
        /\ \A m \in DOMAIN log : m \in DOMAIN log' /\ log'[m] = log[m]
        /\ DOMAIN log' = DOMAIN log \cup {n} /\ Len(log') = n /\ log'[n] = c
    <3> HIDE DEF c
    <3> QED
      BY <2>0, <2>1, TellsGrow DEF Inv
  <2>4. /\ c.old = ObjectOf(a) /\ c.new = new /\ c.failed = failed
        /\ c.gone = Group \ Existing /\ c.what = a.kind
    OBVIOUS
  <2>5. Steps(j, s)
    <3>1. Become(j, s) \/ Moves(j, s)
      BY <1>3, <2>0 DEF DidChange
    <3> QED
      BY <3>1, MovesIs DEF Steps
  <2> HIDE DEF c
  <2>6. /\ job' \in [Job -> JobState] /\ job'[j] = s
        /\ \A k \in Job \ {j} : /\ job'[k].pc = job[k].pc /\ job'[k].imports = job[k].imports
                               /\ job'[k].ask = job[k].ask /\ job'[k].n = job[k].n
                               /\ job'[k].old = job[k].old /\ job'[k].ok = job[k].ok
    BY <1>1, <2>2, <2>5, StepIs
  <2>7. ASSUME NEW k \in Job \ {j}
        PROVE  ~NeedsTurn(job[k])
    BY <1>1, TurnIsOne DEF Inv, Turns
  <2>8. HasOld(s)' /\ CanTell(s)'
    <3>1. ASSUME ~failed
          PROVE  Tells(n, OldOf(s), Told(a))'
      <4>1. /\ ObjectOf(a) = OldOf(job[j])
            /\ a.kind \in {"create", "update"} => new.groups = Told(a).groups \ (Group \ Existing)
            /\ a.kind \notin {"create", "update"} => new = Told(a)
            /\ a.kind # "settings"
        BY <1>3, <2>0, <3>1, ChangeTold
      <4>2. OldOf(s) = OldOf(job[j])
        BY <2>0, <2>2 DEF OldOf
      <4> QED
        BY <2>3, <2>4, <4>1, <4>2 DEF Tells
    <3>2. failed => log'[n].failed
      BY <2>3, <2>4
    <3>3. s.ok => ~failed
      BY <2>0, <2>1, <2>2
    <3>4. ~s.ok => failed /\ n \in DOMAIN log'
      BY <2>0, <2>1, <2>2, <2>3
    <3> QED
      BY <2>2, <3>1, <3>2, <3>3, <3>4 DEF HasOld, CanTell
  <2>9. JobsCanTell'
    <3>1. ASSUME NEW k \in Job \ {j}, NEW r, r = job'[k]
          PROVE  HasOld(r)' /\ CanTell(r)'
      <4>1. ~NeedsTurn(r) /\ HasOld(r)'
        BY <2>6, <2>7, <3>1 DEF NeedsTurn, HasOld
      <4>2. CanTell(job[k])
        BY DEF Traces, JobsCanTell
      <4>3. CASE r.pc \in {"stored", "status"}
        <5>1. Tells(r.n, r.old, settings) /\ log[r.n].what = "settings"
          BY <2>6, <3>1, <4>2, <4>3 DEF CanTell
        <5>2. r.n \in DOMAIN log
          BY <5>1 DEF Tells
        <5>3. Tells(r.n, r.old, settings)' /\ log'[r.n].what = "settings"
          <6>1. \A told : told = settings => Tells(r.n, r.old, told)'
            BY <2>3, <5>1
          <6> QED
            BY <1>1, <2>3, <5>1, <5>2, <6>1 DEF Tells
        <5> QED
          BY <4>1, <4>3, <5>3 DEF CanTell
      <4>4. CASE r.pc \notin {"stored", "status"}
        BY <4>1, <4>4 DEF CanTell, NeedsTurn
      <4> QED
        BY <4>1, <4>3, <4>4
    <3> SUFFICES ASSUME NEW k \in Job, NEW r, r = job'[k]
                 PROVE  HasOld(r)' /\ CanTell(r)'
      BY DEF JobsCanTell, HasOld, CanTell
    <3> QED
      BY <2>6, <2>8, <3>1
  <2>10. RowsTell'
    <3> SUFFICES ASSUME NEW i \in DOMAIN trail, NEW row, row = trail[i]
                 PROVE  Tells(row.n, row.old, row.new)'
      BY <1>1 DEF RowsTell, Tells
    <3> QED
      BY <2>3 DEF Traces, RowsTell
  <2>11. UntracedOnlyIfFailed'
    <3> SUFFICES ASSUME NEW m \in DOMAIN log', ~log'[m].failed, m \notin unwritten,
                        ~\E i \in DOMAIN trail : trail[i].n = m
                 PROVE  \E k \in Job : job'[k].n = m /\ job'[k].pc \in ToTell
      BY <1>1 DEF UntracedOnlyIfFailed, ToTell
    <3>1. CASE m = n
      BY <2>2, <2>6, <3>1 DEF ToTell
    <3>2. CASE m \in DOMAIN log
      <4>1. PICK k \in Job : job[k].n = m /\ job[k].pc \in ToTell
        BY <2>3, <3>2 DEF Traces, UntracedOnlyIfFailed, ToTell
      <4>2. k # j
        BY <1>1, <4>1 DEF ToTell
      <4> QED
        BY <2>6, <4>1, <4>2
    <3> QED
      BY <2>3, <3>1, <3>2
  <2> QED
    BY <2>9, <2>10, <2>11 DEF Traces
<1> QED
  BY <1>1, <1>2, <1>3, CtrlIs DEF Inv

LEMMA AuditIs ==
  ASSUME TypeOK, NEW n, NEW old, NEW new, Audit(n, old, new), Tells(n, old, new), RowsTell, UNCHANGED log
  PROVE  /\ RowsTell'
         /\ unwritten \subseteq unwritten'
         /\ \A m : (\E i \in DOMAIN trail : trail[i].n = m) => \E i \in DOMAIN trail' : trail'[i].n = m
         /\ n \in unwritten' \/ \E i \in DOMAIN trail' : trail'[i].n = n
<1>0. \A m, was, told : Tells(m, was, told) => Tells(m, was, told)'
  BY DEF Tells
<1>1. CASE UNCHANGED trail /\ unwritten' = unwritten \cup {n}
  <2>1. RowsTell'
    BY <1>1 DEF RowsTell, Tells
  <2> QED
    BY <1>1, <2>1
<1>2. CASE trail' = Append(trail, [n |-> n, old |-> old, new |-> new]) /\ UNCHANGED unwritten
  <2> DEFINE row == [n |-> n, old |-> old, new |-> new]
  <2>1. row.n = n /\ row.old = old /\ row.new = new /\ trail' = Append(trail, row)
    BY <1>2
  <2> HIDE DEF row
  <2>2. trail \in Seq([n : Nat, old : Value, new : Value])
    BY DEF TypeOK
  <2>3. /\ DOMAIN trail = 1..Len(trail) /\ DOMAIN trail' = 1..Len(trail) + 1 /\ Len(trail) \in Nat
        /\ trail'[Len(trail) + 1] = row /\ \A i \in 1..Len(trail) : trail'[i] = trail[i]
    BY <2>1, <2>2
  <2>4. RowsTell'
    <3> SUFFICES ASSUME NEW i \in DOMAIN trail', NEW x, x = trail'[i]
                 PROVE  Tells(x.n, x.old, x.new)'
      BY DEF RowsTell, Tells
    <3> QED
      BY <1>0, <2>1, <2>3 DEF RowsTell
  <2> QED
    BY <1>2, <2>1, <2>3, <2>4
<1> QED
  BY <1>1, <1>2 DEF Audit

\* A step of job j that sends its row.
LEMMA ToldTraces ==
  ASSUME Inv, Traces, NEW j \in Job, NEW s \in JobState, Become(j, s),
         UNCHANGED <<oaVars, settings, log>>, NEW old, NEW new,
         Audit(job[j].n, old, new), Tells(job[j].n, old, new), s.pc \in {"audit", "over"}
  PROVE  Traces'
<1>1. /\ job' \in [Job -> JobState] /\ job'[j] = s
      /\ \A k \in Job \ {j} : job'[k] = job[k]
  BY BecomeIs DEF Inv, TypeOK
<1>2. /\ RowsTell'
      /\ unwritten \subseteq unwritten'
      /\ \A m : (\E i \in DOMAIN trail : trail[i].n = m) => \E i \in DOMAIN trail' : trail'[i].n = m
      /\ job[j].n \in unwritten' \/ \E i \in DOMAIN trail' : trail'[i].n = job[j].n
  <2>1. PICK n : n = job[j].n
    OBVIOUS
  <2>2. Audit(n, old, new) /\ Tells(n, old, new) /\ TypeOK /\ RowsTell /\ UNCHANGED log
    BY <2>1 DEF Inv, Traces
  <2> QED
    BY <2>1, <2>2, AuditIs
<1>3. JobsCanTell'
  <2> SUFFICES ASSUME NEW k \in Job, NEW r, r = job'[k]
               PROVE  HasOld(r)' /\ CanTell(r)'
    BY DEF JobsCanTell, HasOld, CanTell
  <2>1. HasOld(r) /\ CanTell(r)
    BY <1>1 DEF Traces, JobsCanTell, HasOld, CanTell
  <2> QED
    BY <2>1 DEF HasOld, CanTell, Tells, ObjectOf, oaVars
<1>4. UntracedOnlyIfFailed'
  <2> SUFFICES ASSUME NEW n \in DOMAIN log, ~log[n].failed, n \notin unwritten',
                      ~\E i \in DOMAIN trail' : trail'[i].n = n
               PROVE  \E k \in Job : job'[k].n = n /\ job'[k].pc \in ToTell
    BY DEF UntracedOnlyIfFailed, ToTell
  <2>1. PICK k \in Job : job[k].n = n /\ job[k].pc \in ToTell
    BY <1>2 DEF Traces, UntracedOnlyIfFailed, ToTell
  <2>2. k # j
    BY <1>2, <2>1
  <2> QED
    BY <1>1, <2>1, <2>2
<1> QED
  BY <1>2, <1>3, <1>4 DEF Traces

LEMMA AnswerOkTraces ==
  ASSUME Inv, Traces, NEW j \in Job, AnswerOk(j)
  PROVE  Traces'
<1>1. /\ job[j].pc = "answered" /\ job[j].ok /\ "audit" \in Place
      /\ Audit(job[j].n, OldTold(j), Told(job[j].ask))
      /\ Become(j, [job[j] EXCEPT !.pc = "audit"])
      /\ UNCHANGED <<oaVars, settings, log>>
  BY DEF AnswerOk, Place, mindVars
<1>2. PICK s \in JobState : Become(j, s) /\ s.pc = "audit"
  BY <1>1, PassIs DEF Inv
<1>3. Tells(job[j].n, OldTold(j), Told(job[j].ask))
  BY <1>1 DEF Traces, JobsCanTell, CanTell, OldOf, OldTold
<1>4. PICK old, new : old = OldTold(j) /\ new = Told(job[j].ask)
  OBVIOUS
<1> QED
  BY <1>1, <1>2, <1>3, <1>4, ToldTraces

LEMMA SettingsToldTraces ==
  ASSUME Inv, Traces, NEW j \in Request, SettingsTold(j)
  PROVE  Traces'
<1>1. /\ job[j].pc = "status" /\ j \in Job
      /\ Audit(job[j].n, job[j].old, settings) /\ Become(j, Over)
      /\ UNCHANGED <<oaVars, settings, log>>
  BY DEF SettingsTold, mindVars, Job
<1>2. Tells(job[j].n, job[j].old, settings)
  BY <1>1 DEF Traces, JobsCanTell, CanTell
<1>3. PICK old, new : old = job[j].old /\ new = settings
  OBVIOUS
<1> QED
  BY <1>1, <1>2, <1>3, RestIs, ToldTraces

LEMMA AskSettingsTraces ==
  ASSUME Inv, Traces, NEW j \in Request, AskSettings(j)
  PROVE  Traces'
<1>1. PICK s \in JobState, now \in Setting, ok \in BOOLEAN :
        /\ Disturb(j, s, {"settings"})
        /\ s.pc = (IF ok THEN "stored" ELSE "refused") /\ ~s.imports
        /\ s.old = settings /\ s.n = Len(log) + 1
        /\ settings' = now /\ stored' \in {now, stored}
        /\ log' = Append(log, [by |-> j, old |-> settings, new |-> now, failed |-> ~ok,
                               gone |-> {}, what |-> "settings"])
  BY AskSettingsIs DEF Inv
<1>2. j \in Job /\ job[j].pc = "idle" /\ UNCHANGED <<oaVars, trail, unwritten>> /\ job \in [Job -> JobState]
  BY DEF AskSettings, Job, Inv, TypeOK
<1>3. PICK n : n = Len(log) + 1
  OBVIOUS
<1> DEFINE c == [by |-> j, old |-> settings, new |-> now, failed |-> ~ok, gone |-> {}, what |-> "settings"]
<1>4. c.old = settings /\ c.new = now /\ c.failed = ~ok /\ c.what = "settings" /\ log' = Append(log, c)
  BY <1>1
<1> HIDE DEF c
<1>5. /\ Len(log) \in Nat
      /\ \A m, old, told : Tells(m, old, told) => Tells(m, old, told)'
      /\ \A m \in DOMAIN log : m \in DOMAIN log' /\ log'[m] = log[m]
      /\ DOMAIN log' = DOMAIN log \cup {n} /\ Len(log') = n /\ log'[n] = c
      /\ DOMAIN log = 1..Len(log)
  <2>1. DOMAIN log = 1..Len(log)
    BY DEF Inv, TypeOK
  <2> QED
    BY <1>3, <1>4, <2>1, TellsGrow DEF Inv
<1>6. /\ job' \in [Job -> JobState] /\ job'[j] = s
      /\ \A k \in Job \ {j} : /\ job'[k].pc = job[k].pc /\ job'[k].imports = job[k].imports
                             /\ job'[k].ask = job[k].ask /\ job'[k].n = job[k].n
                             /\ job'[k].old = job[k].old /\ job'[k].ok = job[k].ok
  <2>1. Steps(j, s)
    BY <1>1 DEF Steps, Movable
  <2> QED
    BY <1>2, <2>1, StepIs
<1>7. ASSUME NEW k \in Job \ {j}
      PROVE  /\ job'[k].pc = job[k].pc /\ job'[k].imports = job[k].imports
             /\ job'[k].ask = job[k].ask /\ job'[k].n = job[k].n
             /\ job'[k].old = job[k].old /\ job'[k].ok = job[k].ok
  BY <1>6
<1>8. ASSUME NEW m \in DOMAIN log', NEW old, old = log'[m].old, log'[m].what = "settings"
      PROVE  Tells(m, old, now)'
  <2>1. m \in 1..n /\ n \in m..n
    BY <1>3, <1>5
  <2>2. log'[n].what = "settings" /\ log'[n].new = now
    BY <1>4, <1>5
  <2> QED
    BY <1>5, <1>8, <2>1, <2>2 DEF Tells
<1>9. HasOld(s)' /\ CanTell(s)'
  <2>1. s.pc \in {"stored", "refused"} /\ s.n = n /\ s.old = log'[n].old /\ log'[n].what = "settings"
    BY <1>1, <1>3, <1>4, <1>5
  <2>2. Tells(s.n, s.old, now)'
    BY <1>5, <1>8, <2>1
  <2>3. settings' = now
    BY <1>1
  <2> QED
    BY <2>1, <2>2, <2>3 DEF HasOld, CanTell, Tells
<1>10. JobsCanTell'
  <2>1. ASSUME NEW k \in Job \ {j}, NEW r, r = job'[k]
        PROVE  HasOld(r)' /\ CanTell(r)'
    <3>1. /\ r.pc = job[k].pc /\ r.imports = job[k].imports /\ r.ask = job[k].ask /\ r.n = job[k].n
          /\ r.old = job[k].old /\ r.ok = job[k].ok
      BY <1>7, <2>1
    <3>2. HasOld(job[k]) /\ CanTell(job[k])
      BY DEF Traces, JobsCanTell
    <3>3. HasOld(r) /\ CanTell(r)
      BY <3>1, <3>2 DEF HasOld, CanTell, OldOf
    <3>4. HasOld(r)'
      BY <1>2, <3>3 DEF HasOld, ObjectOf, oaVars
    <3>5. r.pc = "answered" /\ r.ok => Tells(r.n, OldOf(r), Told(r.ask))'
      BY <1>5, <3>3 DEF CanTell
    <3>6. r.pc = "answered" /\ ~r.ok => r.n = 0 \/ (r.n \in DOMAIN log' /\ log'[r.n].failed)
      BY <1>5, <3>3 DEF CanTell
    <3>7. r.pc \in {"stored", "status"} => Tells(r.n, r.old, settings)' /\ log'[r.n].what = "settings"
      <4> SUFFICES ASSUME r.pc \in {"stored", "status"}
                   PROVE  Tells(r.n, r.old, settings)' /\ log'[r.n].what = "settings"
        OBVIOUS
      <4>1. r.n \in DOMAIN log /\ r.old = log[r.n].old /\ log[r.n].what = "settings"
        BY <3>3 DEF CanTell, Tells
      <4>2. Tells(r.n, r.old, now)' /\ log'[r.n].what = "settings"
        BY <1>5, <1>8, <4>1
      <4> QED
        BY <1>1, <4>2 DEF Tells
    <3> QED
      BY <3>4, <3>5, <3>6, <3>7 DEF CanTell
  <2> SUFFICES ASSUME NEW k \in Job, NEW r, r = job'[k]
               PROVE  HasOld(r)' /\ CanTell(r)'
    BY DEF JobsCanTell, HasOld, CanTell
  <2> QED
    BY <1>6, <1>9, <2>1
<1>11. RowsTell'
  <2> SUFFICES ASSUME NEW i \in DOMAIN trail, NEW row, row = trail[i]
               PROVE  Tells(row.n, row.old, row.new)'
    BY <1>2 DEF RowsTell, Tells
  <2> QED
    BY <1>5 DEF Traces, RowsTell
<1>12. UntracedOnlyIfFailed'
  <2> SUFFICES ASSUME NEW m \in DOMAIN log', ~log'[m].failed, m \notin unwritten,
                      ~\E i \in DOMAIN trail : trail[i].n = m
               PROVE  \E k \in Job : job'[k].n = m /\ job'[k].pc \in ToTell
    BY <1>2 DEF UntracedOnlyIfFailed, ToTell
  <2>1. CASE m = n
    <3>1. ok
      BY <1>4, <1>5, <2>1
    <3> QED
      BY <1>1, <1>2, <1>3, <1>6, <2>1, <3>1 DEF ToTell
  <2>2. CASE m \in DOMAIN log
    <3>1. PICK k \in Job : job[k].n = m /\ job[k].pc \in ToTell
      BY <1>5, <2>2 DEF Traces, UntracedOnlyIfFailed, ToTell
    <3>2. k # j
      BY <1>2, <3>1 DEF ToTell
    <3> QED
      BY <1>7, <3>1, <3>2
  <2> QED
    BY <1>5, <2>1, <2>2
<1> QED
  BY <1>10, <1>11, <1>12 DEF Traces

\* A step of a job that has no change to tell, to a place where it knows none.
LEMMA PlainTraces ==
  ASSUME Inv, Traces, NEW j \in Job, NEW s \in JobState, Become(j, s),
         UNCHANGED <<oaVars, settings, log, trail, unwritten>>,
         job[j].pc \notin ToTell, s.pc \notin ToTell,
         s.pc = "ctrl" => s.imports \/ s.ask.kind = "link" \/ s.old = ObjectOf(s.ask)
  PROVE  Traces'
<1>1. HasOld(s) /\ CanTell(s)
  BY DEF HasOld, CanTell, ToTell
<1> QED
  BY <1>1, BecomeTraces

LEMMA EndTraces ==
  ASSUME Inv, Traces, NEW j \in Job, End(j),
         UNCHANGED <<oaVars, settings, log, trail, unwritten>>,
         job[j].pc \notin ToTell \/ (job[j].pc = "answered" /\ ~job[j].ok)
  PROVE  Traces'
<1>1. PICK s \in JobState : Become(j, s) /\ s.pc \in {"idle", "over"}
  BY EndIs, RestIs
<1>2. HasOld(s) /\ CanTell(s)
  BY <1>1 DEF HasOld, CanTell
<1>3. job[j].pc \in ToTell => job[j].n \notin DOMAIN log \/ log[job[j].n].failed
  <2>1. 0 \notin DOMAIN log
    BY DEF Inv, TypeOK
  <2> QED
    BY <2>1 DEF ToTell, Traces, JobsCanTell, CanTell
<1> QED
  BY <1>1, <1>2, <1>3, BecomeTraces

\* What a job that has its answer, or its row, goes on with.
LEMMA SettledTraces ==
  ASSUME Inv, Traces, NEW j \in Job,
         Become(j, IF job[j].imports THEN [job[j] EXCEPT !.pc = "loop"] ELSE Over),
         UNCHANGED <<oaVars, settings, log, trail, unwritten>>,
         job[j].pc \in {"answered", "audit"}, job[j].pc = "answered" => ~job[j].ok
  PROVE  Traces'
<1>1. PICK s \in JobState : Become(j, s) /\ s.pc \in {"loop", "over"}
  <2>1. CASE job[j].imports
    <3>1. "loop" \in Place /\ TypeOK /\ Become(j, [job[j] EXCEPT !.pc = "loop"])
      BY <2>1 DEF Place, Inv
    <3> QED
      BY <3>1, PassIs
  <2>2. CASE ~job[j].imports
    BY <2>2, RestIs
  <2> QED
    BY <2>1, <2>2
<1>2. HasOld(s) /\ CanTell(s)
  BY <1>1 DEF HasOld, CanTell
<1>3. job[j].pc \in ToTell => job[j].n \notin DOMAIN log \/ log[job[j].n].failed
  <2>1. 0 \notin DOMAIN log
    BY DEF Inv, TypeOK
  <2> QED
    BY <2>1 DEF ToTell, Traces, JobsCanTell, CanTell
<1> QED
  BY <1>1, <1>2, <1>3, BecomeTraces

\* A step that changes neither the jobs nor what the rows tell of.
LEMMA StillTraces ==
  ASSUME Traces, UNCHANGED <<oaVars, settings, log, trail, unwritten, job>>
  PROVE  Traces'
<1>1. JobsCanTell'
  BY DEF Traces, JobsCanTell, HasOld, CanTell, Tells, ObjectOf, oaVars
<1>2. RowsTell'
  BY DEF Traces, RowsTell, Tells
<1>3. UntracedOnlyIfFailed'
  BY DEF Traces, UntracedOnlyIfFailed
<1> QED
  BY <1>1, <1>2, <1>3 DEF Traces

LEMMA StopTraces ==
  ASSUME Inv, Traces, ManagerStops
  PROVE  Traces'
<1>1. /\ job' = [j \in Job |-> IF j = Import \/ job[j].pc = "idle" THEN Rest ELSE Over]
      /\ unwritten' = unwritten \cup {job[j].n : j \in {j \in Job : job[j].pc \in {"answered", "stored", "status"}}}
      /\ UNCHANGED <<oaVars, log, trail>>
  BY DEF ManagerStops
<1>2. JobsCanTell'
  <2>1. \A j \in Job : job'[j].pc \in {"idle", "over"}
    BY <1>1, RestIs
  <2> QED
    BY <2>1 DEF JobsCanTell, HasOld, CanTell
<1>3. RowsTell'
  BY <1>1 DEF Traces, RowsTell, Tells
<1>4. UntracedOnlyIfFailed'
  BY <1>1 DEF Traces, UntracedOnlyIfFailed
<1> QED
  BY <1>2, <1>3, <1>4 DEF Traces

LEMMA StartTraces ==
  ASSUME Inv, Traces, Down, ManagerStarts
  PROVE  Traces'
<1>1. UNCHANGED <<oaVars, log, trail, unwritten, job>> /\ ~up
  BY DEF ManagerStarts, historyVars
<1>2. JobsCanTell'
  BY <1>1 DEF Down, JobsCanTell, HasOld, CanTell
<1>3. RowsTell'
  BY <1>1 DEF Traces, RowsTell, Tells
<1>4. UntracedOnlyIfFailed'
  BY <1>1 DEF Traces, UntracedOnlyIfFailed
<1> QED
  BY <1>2, <1>3, <1>4 DEF Traces

LEMMA InitTraces == Init => Traces
<1> SUFFICES ASSUME Init PROVE Traces
  OBVIOUS
<1>1. log = <<>> /\ trail = <<>> /\ \A j \in Job : job[j].pc = "idle"
  BY RestIs DEF Init
<1> QED
  BY <1>1 DEF Traces, JobsCanTell, HasOld, CanTell, RowsTell, UntracedOnlyIfFailed

LEMMA NextTraces == Inv /\ Down /\ Running /\ Traces /\ [Next]_vars => Traces'
<1> SUFFICES ASSUME Inv, Down, Running, Traces, [Next]_vars PROVE Traces'
  OBVIOUS
<1>t. TypeOK
  BY DEF Inv
<1>r. Request \subseteq Job /\ Import \in Job
  BY DEF Job
<1> DEFINE Still == UNCHANGED <<oaVars, settings, log, trail, unwritten>>
<1>1. ASSUME NEW r \in Request, AskWrite(r) PROVE Traces'
  <2>1. PICK a \in Ask, s \in JobState :
          /\ Become(r, s) /\ s.ask = a /\ ~s.imports
          /\ s.pc = IF a.kind = "link" THEN "ctrl" ELSE "before"
    BY <1>1, AskWriteIs
  <2>2. Still /\ job[r].pc = "idle"
    BY <1>1 DEF AskWrite, mindVars, historyVars
  <2> QED
    BY <1>r, <2>1, <2>2, PlainTraces DEF ToTell
<1>2. ASSUME NEW r \in Request, AskListing(r) PROVE Traces'
  <2>1. PICK s \in JobState : Become(r, s) /\ s.pc = "listing"
    BY <1>2, AskListingIs
  <2>2. Still /\ job[r].pc = "idle"
    BY <1>2 DEF AskListing, mindVars, historyVars
  <2> QED
    BY <1>r, <2>1, <2>2, PlainTraces DEF ToTell
<1>3. ASSUME NEW r \in Request, AskPick(r) PROVE Traces'
  <2>1. PICK s \in JobState : Become(r, s) /\ s.pc \in {"listing", "over", "asking"}
    BY <1>3, <1>t, AskPickIs, RestIs
  <2>2. Still /\ job[r].pc = "idle"
    BY <1>3 DEF AskPick, mindVars, historyVars
  <2> QED
    BY <1>r, <2>1, <2>2, PlainTraces DEF ToTell
<1>4. ASSUME NEW r \in Request, AskRun(r) PROVE Traces'
  <2>1. Still /\ job[r].pc = "idle"
    BY <1>4 DEF AskRun, historyVars
  <2>2. CASE Become(r, Over)
    BY <1>r, <2>1, <2>2, RestIs, PlainTraces DEF ToTell
  <2>3. CASE /\ ~status.running
             /\ job' = [job EXCEPT ![r] = Over, ![Import] = [Rest EXCEPT !.pc = "saving", !.imports = TRUE]]
    <3>1. PICK s \in JobState : s.pc = "saving" /\ s = [Rest EXCEPT !.pc = "saving", !.imports = TRUE]
      BY SavingIs
    <3>2. /\ job' \in [Job -> JobState] /\ job'[r].pc = "over" /\ job'[Import].pc = "saving"
          /\ \A k \in Job \ {r, Import} : job'[k] = job[k]
      BY <1>r, <1>t, <2>3, <3>1, RestIs, ImportAssumption DEF TypeOK
    <3>3. job[Import].pc \notin ToTell
      BY <2>3, <1>r DEF Running, ToTell
    <3>4. JobsCanTell'
      <4> SUFFICES ASSUME NEW k \in Job, NEW x, x = job'[k]
                   PROVE  HasOld(x)' /\ CanTell(x)'
        BY DEF JobsCanTell, HasOld, CanTell
      <4>1. HasOld(x) /\ CanTell(x)
        BY <3>2 DEF Traces, JobsCanTell, HasOld, CanTell
      <4> QED
        BY <2>1, <4>1 DEF HasOld, CanTell, Tells, ObjectOf, oaVars
    <3>5. RowsTell'
      BY <2>1 DEF Traces, RowsTell, Tells
    <3>6. UntracedOnlyIfFailed'
      <4> SUFFICES ASSUME NEW n \in DOMAIN log, ~log[n].failed, n \notin unwritten,
                          ~\E i \in DOMAIN trail : trail[i].n = n
                   PROVE  \E k \in Job : job'[k].n = n /\ job'[k].pc \in ToTell
        BY <2>1 DEF UntracedOnlyIfFailed, ToTell
      <4>1. PICK k \in Job : job[k].n = n /\ job[k].pc \in ToTell
        BY DEF Traces, UntracedOnlyIfFailed, ToTell
      <4>2. k # r /\ k # Import
        BY <2>1, <3>3, <4>1 DEF ToTell
      <4> QED
        BY <3>2, <4>1, <4>2
    <3> QED
      BY <3>4, <3>5, <3>6 DEF Traces
  <2> QED
    BY <1>4, <2>2, <2>3 DEF AskRun
<1>5. ASSUME NEW r \in Request, SettingsRefused(r) PROVE Traces'
  <2>1. Still /\ job[r].pc = "refused" /\ Become(r, Over)
    BY <1>5 DEF SettingsRefused, mindVars, historyVars
  <2> QED
    BY <1>r, <2>1, RestIs, PlainTraces DEF ToTell
<1>6. ASSUME NEW r \in Request, SettingsStored(r) PROVE Traces'
  <2>1. /\ Still /\ job[r].pc = "stored" /\ "status" \in Place
        /\ Become(r, [job[r] EXCEPT !.pc = "status"])
    BY <1>6 DEF SettingsStored, historyVars, Place
  <2>2. PICK s \in JobState : Become(r, s) /\ s.pc = "status" /\ Keeps(s, job[r])
    BY <1>r, <1>t, <2>1, PassIs
  <2>3. CanTell(job[r])
    BY <1>r DEF Traces, JobsCanTell
  <2>4. HasOld(s) /\ CanTell(s)
    BY <2>1, <2>2, <2>3 DEF HasOld, CanTell, Keeps
  <2> QED
    BY <1>r, <2>1, <2>2, <2>4, BecomeTraces DEF ToTell, Keeps
<1>7. ASSUME NEW j \in Job, Before(j) PROVE Traces'
  <2>1. Still /\ job[j].pc = "before" /\ job[j].ask \in Ask /\ job[j].ask.kind \in Writes
    BY <1>7 DEF Before, mindVars, historyVars, Inv, Shape, ShapeOf
  <2>2. PICK s \in JobState :
          Become(j, s) /\ (s.pc = "over" \/ (s.pc = "ctrl" /\ s.old = ObjectOf(s.ask)))
    BY <1>7, <1>t, <2>1, BeforeIs, RestIs
  <2> QED
    BY <2>1, <2>2, PlainTraces DEF ToTell
<1>8. ASSUME NEW j \in Job, AnswerNo(j) PROVE Traces'
  <2>1. Still /\ job[j].pc = "answered" /\ ~job[j].ok
    BY <1>8 DEF AnswerNo, historyVars
  <2>2. CASE End(j)
    BY <2>1, <2>2, EndTraces
  <2>3. CASE job[j].imports /\ Become(j, [job[j] EXCEPT !.pc = "loop"])
    <3>1. Become(j, IF job[j].imports THEN [job[j] EXCEPT !.pc = "loop"] ELSE Over)
      BY <2>3
    <3> QED
      BY <2>1, <3>1, SettledTraces
  <2> QED
    BY <1>8, <2>2, <2>3 DEF AnswerNo
<1>9. ASSUME NEW j \in Job, Audited(j) PROVE Traces'
  <2>1. /\ Still /\ job[j].pc = "audit"
        /\ Become(j, IF job[j].imports THEN [job[j] EXCEPT !.pc = "loop"] ELSE Over)
    BY <1>9 DEF Audited, historyVars
  <2> QED
    BY <2>1, SettledTraces
<1>10. ASSUME NEW j \in Job, Listed(j) PROVE Traces'
  <2>1. Still /\ job[j].pc = "listing"
    BY <1>10 DEF Listed, historyVars
  <2>2. j = Import \/ job[j].ask.users \subseteq User
    BY <2>1 DEF Inv, Shape, ShapeOf
  <2>3. End(j) \/ \E s \in JobState : Become(j, s) /\ s.pc = "asking"
    BY <1>10, <1>t, <2>2, ListedIs
  <2> QED
    BY <2>1, <2>3, EndTraces, PlainTraces DEF ToTell
<1>11. ASSUME NEW j \in Job, GroupsRead(j) PROVE Traces'
  <2>1. Still /\ job[j].pc = "asking"
    BY <1>11 DEF GroupsRead
  <2>2. End(j) \/ \E s \in JobState : Become(j, s) /\ s.pc = "loop"
    BY <1>11, <1>t, GroupsReadIs
  <2> QED
    BY <2>1, <2>2, EndTraces, PlainTraces DEF ToTell
<1>12. ASSUME NEW j \in Job, PassOver(j) PROVE Traces'
  <2>1. Still /\ job[j].pc = "loop"
    BY <1>12 DEF PassOver, historyVars
  <2>2. \E s \in JobState : Become(j, s) /\ s.pc = "loop"
    BY <1>12, <1>t, PassOverIs
  <2> QED
    BY <2>1, <2>2, PlainTraces DEF ToTell
<1>13. ASSUME NEW j \in Job, AdCreate(j) PROVE Traces'
  <2>1. Still /\ job[j].pc = "loop" /\ job[j].imports
    BY <1>13 DEF AdCreate, mindVars, historyVars, Inv, Shape, ShapeOf
  <2>2. \E s \in JobState : Become(j, s) /\ s.pc = "ctrl" /\ s.imports
    BY <1>13, <1>t, <2>1, AdCreateIs DEF Keeps
  <2> QED
    BY <2>1, <2>2, PlainTraces DEF ToTell
<1>14. ASSUME NEW j \in Job, LoopEnds(j) PROVE Traces'
  <2>1. Still /\ job[j].pc = "loop" /\ End(j)
    BY <1>14 DEF LoopEnds, historyVars
  <2> QED
    BY <2>1, EndTraces DEF ToTell
<1>15. CASE StatusOn
  <2>1. /\ Still /\ job[Import].pc = "saving" /\ "snapshot" \in Place
        /\ Become(Import, [job[Import] EXCEPT !.pc = "snapshot"])
    BY <1>15 DEF StatusOn, mindVars, historyVars, Place
  <2>2. PICK s \in JobState : Become(Import, s) /\ s.pc = "snapshot"
    BY <1>r, <1>t, <2>1, PassIs
  <2> QED
    BY <1>r, <2>1, <2>2, PlainTraces DEF ToTell
<1>16. CASE Snapshot
  <2>1. Still /\ job[Import].pc = "snapshot"
    BY <1>16 DEF Snapshot, historyVars
  <2>2. End(Import) \/ \E s \in JobState : Become(Import, s) /\ s.pc = "listing"
    BY <1>16, <1>t, SnapshotIs DEF End
  <2> QED
    BY <1>r, <2>1, <2>2, EndTraces, PlainTraces DEF ToTell
<1>17. CASE Tick
  <2>1. Still /\ ~status.running
    BY <1>17 DEF Tick, historyVars
  <2>2. CASE UNCHANGED job
    BY <2>1, <2>2, StillTraces
  <2>3. CASE StartImport
    <3>1. \E s \in JobState : Become(Import, s) /\ s.pc = "saving"
      BY <2>3, SavingIs DEF StartImport
    <3>2. job[Import].pc \notin ToTell
      BY <2>1 DEF Running, ToTell
    <3> QED
      BY <1>r, <2>1, <3>1, <3>2, PlainTraces DEF ToTell
  <2> QED
    BY <1>17, <2>2, <2>3 DEF Tick
<1>18. CASE DirectoryChanges \/ UNCHANGED vars
  BY <1>18, StillTraces DEF DirectoryChanges, vars, mindVars, historyVars
<1> QED
  BY <1>1, <1>2, <1>3, <1>4, <1>5, <1>6, <1>7, <1>8, <1>9, <1>10, <1>11, <1>12, <1>13, <1>14, <1>15,
     <1>16, <1>17, <1>18, CtrlTraces, AnswerOkTraces, SettingsToldTraces, AskSettingsTraces,
     StopTraces, StartTraces
     DEF Next, Proceeds

LEMMA TracesKept == Spec => []Traces
<1>1. Spec => []Running
  BY Invariant, InitRunning, NextRunning, PTL DEF Spec
<1> QED
  BY <1>1, Invariant, NothingWhenDown, InitTraces, NextTraces, PTL DEF Spec

\* RowsAreTrue, for every instance: what a row of the audit trail tells is what was there
\* right before the change and what the change made of it.  The snapshot of a write is
\* still true when the CTRL script writes, as only the first of the chain writes.
THEOREM RowsTrue == Spec => []RowsAreTrue
<1>1. Traces => RowsAreTrue
  <2> SUFFICES ASSUME RowsTell, NEW i \in DOMAIN trail, NEW row, row = trail[i], NEW c, c = log[row.n]
               PROVE  /\ row.old = c.old
                      /\ CASE c.what \in {"create", "update"} -> c.new.groups = row.new.groups \ c.gone
                           [] c.what = "settings" ->
                                \E n \in row.n..Len(log) : log[n].what = "settings" /\ log[n].new = row.new
                           [] OTHER -> c.new = row.new
    BY DEF Traces, RowsAreTrue
  <2>1. Tells(row.n, row.old, row.new)
    BY DEF RowsTell
  <2> QED
    BY <2>1 DEF Tells
<1> QED
  BY <1>1, TracesKept, PTL

\* UntracedOnlyIfFailed, for every instance: a change without a row was answered as a failure,
\* or its row was refused, or the manager stopped before, or its job is about to send the row.
THEOREM ChangesAccounted == Spec => []UntracedOnlyIfFailed
  BY TracesKept, PTL DEF Traces

-----------------------------------------------------------------------------
(* What an import reads of the groups and of the directory. *)

\* What an import found for a user is of groups that exist, the automatic one's target is
\* of linked groups the settings select, but for what changed since.
Picked(j, r) ==
  r.imports =>
    /\ r.pc \in {"loop", "ctrl", "answered", "audit"} =>
         \A u \in User : \A g \in r.found[u] \ r.moved : g \in Existing
    /\ r.pc = "ctrl" => \A g \in r.ask.groups \ r.moved : g \in Existing
    /\ j = Import /\ r.pc \in {"listing", "asking", "loop", "ctrl", "answered", "audit"} =>
         \A g \in r.target \ r.moved :
           groups[g] = "linked" /\ ("settings" \in r.moved \/ settings.groups = {} \/ g \in settings.groups)
    /\ j = Import /\ r.pc = "ctrl" => r.ask.groups \subseteq r.target

\* What the automatic import remembers of those it asked for.
Remembers(r) ==
  /\ r.pc = "asking" => r.todo \cap seen = {}
  /\ r.pc \in {"loop", "ctrl", "answered", "audit"} =>
       \A u \in r.todo : r.found[u] = asked[u].groups \ asked[u].missing
  /\ r.pc \in {"listing", "asking", "loop", "ctrl", "answered", "audit"} => r.target = key

JobsPicked == \A j \in Job : Picked(j, job[j])

Reads == JobsPicked /\ Remembers(job[Import]) /\ SeenIsRight

LEMMA InitReads == Init => Reads
<1> SUFFICES ASSUME Init PROVE Reads
  OBVIOUS
<1>1. (\A j \in Job : job[j].pc = "idle") /\ seen = {} /\ Import \in Job
  BY RestIs DEF Init, Job
<1> QED
  BY <1>1 DEF Reads, JobsPicked, Picked, Remembers, SeenIsRight

\* A step of job j that leaves groups and settings alone.
LEMMA BecomeReads ==
  ASSUME Inv, Reads, NEW j \in Job, NEW s \in JobState, Become(j, s), Picked(j, s),
         UNCHANGED <<groups, settings>>,
         IF j = Import THEN Remembers(s)' /\ SeenIsRight' ELSE UNCHANGED <<seen, asked, key>>
  PROVE  Reads'
<1>1. /\ job' \in [Job -> JobState] /\ job'[j] = s /\ Import \in Job
      /\ \A k \in Job \ {j} : job'[k] = job[k]
  BY BecomeIs DEF Inv, TypeOK, Job
<1>2. JobsPicked'
  <2> SUFFICES ASSUME NEW k \in Job, NEW r, r = job'[k]
               PROVE  Picked(k, r)'
    BY DEF JobsPicked, Picked
  <2>1. Picked(k, r)
    BY <1>1 DEF Reads, JobsPicked
  <2> QED
    BY <2>1 DEF Picked, Existing
<1>3. Remembers(job[Import])' /\ SeenIsRight'
  <2>1. CASE j = Import
    BY <1>1, <2>1 DEF Remembers
  <2>2. CASE j # Import
    <3>1. job'[Import] = job[Import] /\ UNCHANGED <<seen, asked, key>>
      BY <1>1, <2>2
    <3> QED
      BY <3>1 DEF Reads, Remembers, SeenIsRight
  <2> QED
    BY <2>1, <2>2
<1> QED
  BY <1>2, <1>3 DEF Reads

\* A step that changes things under the feet of the imports.
LEMMA DisturbReads ==
  ASSUME Inv, Reads, NEW j \in Job, NEW s \in JobState, NEW things \in SUBSET Movable,
         Disturb(j, s, things), j # Import, ~s.imports, UNCHANGED <<seen, asked, key>>,
         \A g \in Group \ things : groups'[g] = groups[g], "settings" \in things \/ UNCHANGED settings
  PROVE  Reads'
<1>1. /\ job' \in [Job -> JobState] /\ job'[j] = s /\ Import \in Job
      /\ \A k \in Job \ {j} : job'[k] = Disturbed(job[k], things)
  <2>1. job \in [Job -> JobState] /\ Import \in Job
    BY DEF Inv, TypeOK, Job
  <2> QED
    BY <2>1, DisturbIs
<1>2. ASSUME NEW k \in Job \ {j}
      PROVE  /\ job'[k].imports = job[k].imports /\ job'[k].pc = job[k].pc
             /\ job'[k].todo = job[k].todo /\ job'[k].found = job[k].found
             /\ job'[k].target = job[k].target /\ job'[k].ask = job[k].ask
             /\ job[k].imports => job'[k].moved = job[k].moved \cup things
  <2>1. job[k] \in JobState
    BY DEF Inv, TypeOK
  <2> QED
    BY <1>1, <2>1, DisturbedIs
<1>3. \A g \in Existing \ things : g \in Existing'
  BY DEF Existing
<1>4. JobsPicked'
  <2>1. ASSUME NEW k \in Job \ {j}, NEW r, r = job[k], NEW t, t = job'[k], t.imports
        PROVE  Picked(k, t)'
    <3>1. /\ Picked(k, r) /\ r.imports /\ t.pc = r.pc /\ t.found = r.found /\ t.target = r.target
          /\ t.ask = r.ask /\ t.moved = r.moved \cup things
      BY <1>2, <2>1 DEF Reads, JobsPicked
    <3>2. r.target \subseteq Group
      BY <2>1 DEF Inv, TypeOK, JobState
    <3>3. t.pc \in {"loop", "ctrl", "answered", "audit"} =>
            \A u \in User : \A g \in t.found[u] \ t.moved : g \in Existing'
      BY <1>3, <3>1 DEF Picked
    <3>4. t.pc = "ctrl" => \A g \in t.ask.groups \ t.moved : g \in Existing'
      BY <1>3, <3>1 DEF Picked
    <3>5. k = Import /\ t.pc \in {"listing", "asking", "loop", "ctrl", "answered", "audit"} =>
            \A g \in t.target \ t.moved :
              /\ groups'[g] = "linked"
              /\ "settings" \in t.moved \/ settings'.groups = {} \/ g \in settings'.groups
      BY <3>1, <3>2 DEF Picked
    <3>6. k = Import /\ t.pc = "ctrl" => t.ask.groups \subseteq t.target
      BY <3>1 DEF Picked
    <3> QED
      BY <3>3, <3>4, <3>5, <3>6 DEF Picked
  <2> SUFFICES ASSUME NEW k \in Job, NEW t, t = job'[k]
               PROVE  Picked(k, t)'
    BY DEF JobsPicked, Picked
  <2>2. CASE t.imports
    <3>1. k # j
      BY <1>1, <2>2
    <3> QED
      BY <2>1, <2>2, <3>1
  <2>3. CASE ~t.imports
    BY <2>3 DEF Picked
  <2> QED
    BY <2>2, <2>3
<1>5. Remembers(job[Import])' /\ SeenIsRight'
  BY <1>1, <1>2 DEF Reads, Remembers, SeenIsRight
<1> QED
  BY <1>4, <1>5 DEF Reads

\* A step of a request that is not, or not yet, at what an import found.
LEMMA PlainReads ==
  ASSUME Inv, Reads, NEW j \in Job, j # Import, NEW s \in JobState, Become(j, s),
         UNCHANGED <<groups, settings, seen, asked, key>>,
         ~s.imports \/ s.pc \notin {"loop", "ctrl", "answered", "audit"}
  PROVE  Reads'
<1>1. Picked(j, s)
  BY DEF Picked
<1> QED
  BY <1>1, BecomeReads

LEMMA EndReads ==
  ASSUME Inv, Reads, NEW j \in Job, End(j), UNCHANGED <<groups, settings, seen, asked, key>>
  PROVE  Reads'
<1>1. PICK s \in JobState : Become(j, s) /\ s \in {Rest, Over}
  BY EndIs
<1>2. ~s.imports /\ s.pc \in {"idle", "over"}
  BY <1>1, RestIs
<1>3. Picked(j, s) /\ Remembers(s)' /\ SeenIsRight'
  BY <1>2 DEF Picked, Remembers, Reads, SeenIsRight
<1> QED
  BY <1>1, <1>3, BecomeReads

\* A step of an import at a user it found, to another such place.
LEMMA GoesOnReads ==
  ASSUME Inv, Reads, NEW j \in Job, NEW s \in JobState, Become(j, s),
         s.imports = job[j].imports, s.moved = job[j].moved,
         s.target = job[j].target,
         UNCHANGED <<groups, settings, seen, asked, key>>,
         job[j].pc \in {"loop", "ctrl", "answered", "audit"},
         s.pc \in {"loop", "answered", "audit"} \/ ~s.imports,
         s.todo \subseteq job[j].todo, s.found = job[j].found
  PROVE  Reads'
<1>1. Picked(j, job[j]) /\ (j = Import => job[j].imports)
  BY DEF Reads, JobsPicked, Inv, Shape, ShapeOf
<1>2. Picked(j, s)
  BY <1>1 DEF Picked
<1>3. j = Import => Remembers(s)' /\ SeenIsRight'
  <2> SUFFICES ASSUME j = Import PROVE Remembers(s)' /\ SeenIsRight'
    OBVIOUS
  <2>1. Remembers(job[j]) /\ s.pc \in {"loop", "answered", "audit"}
    BY <1>1 DEF Reads
  <2> QED
    BY <2>1 DEF Reads, Remembers, SeenIsRight
<1> QED
  BY <1>2, <1>3, BecomeReads

\* A step that changes nothing of this.
LEMMA StillReads ==
  ASSUME Reads, UNCHANGED <<groups, settings, seen, asked, key, job>>
  PROVE  Reads'
  BY DEF Reads, JobsPicked, Picked, Remembers, SeenIsRight, Existing

LEMMA CtrlReads ==
  ASSUME Inv, Reads, NEW j \in Job, Ctrl(j)
  PROVE  Reads'
<1>1. /\ job[j].pc = "ctrl" /\ job[j].ask \in Ask /\ job \in [Job -> JobState]
      /\ UNCHANGED <<settings, seen, asked, key>> /\ ShapeOf(j, job[j])
  BY DEF Inv, TypeOK, Shape, ShapeOf, Ctrl, mindVars
<1>2. ASSUME NEW ok \in BOOLEAN, NEW n \in Nat, NEW s, s = Answered(j, ok, n), Become(j, s), UNCHANGED groups
      PROVE  Reads'
  <2>1. /\ s \in JobState /\ s.pc = "answered" /\ s.imports = job[j].imports
        /\ s.moved = job[j].moved
        /\ s.target = job[j].target /\ s.todo = job[j].todo /\ s.found = job[j].found
    BY <1>1, <1>2, AnsweredIs
  <2> QED
    BY <1>1, <1>2, <2>1, GoesOnReads
<1>3. CASE Refuses(j)
  <2>1. PICK ok, s : ok = FALSE /\ s = Answered(j, ok, 0)
    OBVIOUS
  <2>2. ok \in BOOLEAN /\ Become(j, s) /\ UNCHANGED groups
    BY <1>3, <2>1 DEF Refuses, oaVars
  <2> QED
    BY <1>2, <2>1, <2>2
<1>4. ASSUME NEW new, NEW failed, DidChange(j, new, failed)
      PROVE  Reads'
  <2>1. PICK ok, n, s : ok = ~failed /\ n = Len(log) + 1 /\ s = Answered(j, ok, n)
    OBVIOUS
  <2>2. ok \in BOOLEAN /\ n \in Nat
    BY <1>4, <2>1 DEF DidChange, Inv, TypeOK
  <2>3. (Become(j, s) /\ UNCHANGED groups) \/ Moves(j, s)
    BY <1>4, <2>1 DEF DidChange
  <2>4. CASE Become(j, s) /\ UNCHANGED groups
    BY <1>2, <2>1, <2>2, <2>4
  <2>5. CASE Moves(j, s)
    <3>1. s \in JobState /\ s.imports = job[j].imports
      BY <1>1, <2>1, <2>2, AnsweredIs
    <3>2. PICK things \in SUBSET Movable :
            /\ things = {job[j].ask.group} /\ Disturb(j, s, things)
            /\ \A g \in Group \ things : groups'[g] = groups[g]
      BY <2>5 DEF Moves, Movable
    <3>3. ~job[j].imports /\ j # Import
      BY <1>1, <2>5 DEF ShapeOf, Moves
    <3> QED
      BY <1>1, <3>1, <3>2, <3>3, DisturbReads
  <2> QED
    BY <2>3, <2>4, <2>5
<1> QED
  BY <1>1, <1>3, <1>4, CtrlIs DEF Inv

LEMMA SnapshotReads ==
  ASSUME Inv, Reads, Snapshot
  PROVE  Reads'
<1>0. Import \in Job /\ UNCHANGED <<groups, settings, asked>> /\ TypeOK
  BY DEF Job, Snapshot, oaVars, historyVars, Inv
<1>1. CASE CloseImport /\ UNCHANGED <<seen, key>>
  BY <1>0, <1>1, EndReads DEF End
<1>2. ASSUME NEW s \in JobState, Become(Import, s), s.pc = "listing", s.target = TargetGroups,
             key' = TargetGroups, seen' = IF TargetGroups = key THEN seen ELSE {}
      PROVE  Reads'
  <2>1. Picked(Import, s)
    BY <1>2 DEF Picked, TargetGroups
  <2>2. Remembers(s)'
    BY <1>2 DEF Remembers
  <2>3. SeenIsRight'
    BY <1>0, <1>2 DEF Reads, SeenIsRight
  <2> QED
    BY <1>0, <1>2, <2>1, <2>2, <2>3, BecomeReads
<1> QED
  BY <1>0, <1>1, <1>2, SnapshotIs

LEMMA ListedReads ==
  ASSUME Inv, Reads, NEW j \in Job, Listed(j)
  PROVE  Reads'
<1>0. job[j].pc = "listing" /\ UNCHANGED <<groups, settings, seen, asked, key>> /\ TypeOK
  BY DEF Listed, oaVars, historyVars, Inv
<1>1. j = Import \/ job[j].ask.users \subseteq User
  BY <1>0 DEF Inv, Shape, ShapeOf
<1>2. CASE End(j)
  BY <1>0, <1>2, EndReads
<1>3. ASSUME NEW s \in JobState, Become(j, s), s.pc = "asking", Keeps(s, job[j]),
             s.todo \cap (IF j = Import THEN seen ELSE {}) = {}
      PROVE  Reads'
  <2>1. CASE j # Import
    BY <1>0, <1>3, <2>1, PlainReads
  <2>2. CASE j = Import
    <3>1. job[j].imports /\ Picked(j, job[j]) /\ Remembers(job[j])
      BY <1>0, <2>2 DEF Reads, JobsPicked, Inv, Shape, ShapeOf
    <3>2. Picked(j, s)
      BY <1>0, <1>3, <2>2, <3>1 DEF Picked, Keeps
    <3>3. Remembers(s)' /\ SeenIsRight'
      BY <1>0, <1>3, <2>2, <3>1 DEF Remembers, Keeps, Reads, SeenIsRight
    <3> QED
      BY <1>0, <1>3, <2>2, <3>2, <3>3, BecomeReads
  <2> QED
    BY <2>1, <2>2
<1> QED
  BY <1>0, <1>1, <1>2, <1>3, ListedIs

\* Who was asked for before, and found in no group, is not asked now.
LEMMA GroupsReadReads ==
  ASSUME Inv, Reads, NEW j \in Job, GroupsRead(j)
  PROVE  Reads'
<1>0. /\ job[j].pc = "asking" /\ UNCHANGED <<groups, settings, seen, key, ad>> /\ TypeOK
      /\ job[j] \in JobState
  BY DEF GroupsRead, oaVars, Inv, TypeOK
<1>1. CASE End(j) /\ UNCHANGED asked
  BY <1>0, <1>1, EndReads
<1>2. ASSUME NEW s \in JobState, Become(j, s), s.pc = "loop", Keeps(s, job[j]), s.todo \subseteq job[j].todo,
             \A u \in User : s.found[u] \subseteq Existing,
             \A u \in s.todo : s.found[u] = ad[u].groups \cap Existing,
             asked' = IF j = Import
                      THEN [u \in User |-> IF u \in job[j].todo
                              THEN [groups |-> ad[u].groups, missing |-> Group \ Existing] ELSE asked[u]]
                      ELSE asked
      PROVE  Reads'
  <2>1. Picked(j, s)
    <3>1. Picked(j, job[j])
      BY DEF Reads, JobsPicked
    <3> QED
      BY <1>0, <1>2, <3>1 DEF Picked, Keeps
  <2>2. j = Import => Remembers(s)' /\ SeenIsRight'
    <3> SUFFICES ASSUME j = Import PROVE Remembers(s)' /\ SeenIsRight'
      OBVIOUS
    <3>1. Remembers(job[j]) /\ SeenIsRight
      BY DEF Reads
    <3>2. job[j].todo \cap seen = {} /\ job[j].target = key
      BY <1>0, <3>1 DEF Remembers
    <3>3. job[j].todo \subseteq User /\ seen \subseteq User
      BY <1>0 DEF JobState, TypeOK
    <3>4. \A u \in User : asked'[u] = IF u \in job[j].todo
            THEN [groups |-> ad[u].groups, missing |-> Group \ Existing] ELSE asked[u]
      BY <1>2
    <3>5. \A u \in s.todo : s.found[u] = asked'[u].groups \ asked'[u].missing
      <4> SUFFICES ASSUME NEW u \in s.todo PROVE s.found[u] = asked'[u].groups \ asked'[u].missing
        OBVIOUS
      <4>1. u \in User /\ u \in job[j].todo
        BY <1>2, <3>3
      <4>2. asked'[u].groups = ad[u].groups /\ asked'[u].missing = Group \ Existing
        <5>1. asked'[u] = [groups |-> ad[u].groups, missing |-> Group \ Existing]
          BY <3>4, <4>1
        <5> QED
          BY <5>1
      <4>3. ad[u].groups \subseteq Group
        BY <1>0, <4>1, People DEF TypeOK
      <4> QED
        BY <1>2, <4>2, <4>3 DEF Existing
    <3>6. SeenIsRight'
      <4>1. \A u \in seen : asked'[u] = asked[u]
        BY <3>2, <3>3, <3>4
      <4> QED
        BY <1>0, <3>1, <4>1 DEF SeenIsRight
    <3> QED
      BY <1>0, <1>2, <3>2, <3>5, <3>6 DEF Remembers, Keeps
  <2>3. j # Import => UNCHANGED <<seen, asked, key>>
    BY <1>0, <1>2
  <2> QED
    BY <1>0, <1>2, <2>1, <2>2, <2>3, BecomeReads
<1> QED
  BY <1>0, <1>1, <1>2, GroupsReadIs

\* Who is remembered was, when asked, in none of the groups the import goes by.
LEMMA PassOverReads ==
  ASSUME Inv, Reads, NEW j \in Job, PassOver(j)
  PROVE  Reads'
<1>0. job[j].pc = "loop" /\ UNCHANGED <<groups, settings, asked, key>> /\ TypeOK
  BY DEF PassOver, oaVars, historyVars, Inv
<1>1. PICK s \in JobState, u \in job[j].todo :
        /\ Become(j, s) /\ Matched(j, u) = {}
        /\ s.pc = "loop" /\ Keeps(s, job[j]) /\ s.ask = job[j].ask
        /\ s.todo = job[j].todo \ {u} /\ s.found = job[j].found
        /\ seen' = IF j = Import THEN seen \cup {u} ELSE seen
  BY <1>0, PassOverIs
<1>2. Picked(j, s)
  <2>1. Picked(j, job[j])
    BY DEF Reads, JobsPicked
  <2> QED
    BY <1>0, <1>1, <2>1 DEF Picked, Keeps
<1>3. j = Import => Remembers(s)' /\ SeenIsRight'
  <2> SUFFICES ASSUME j = Import PROVE Remembers(s)' /\ SeenIsRight'
    OBVIOUS
  <2>1. Remembers(job[j]) /\ SeenIsRight
    BY DEF Reads
  <2>2. /\ job[j].target = key
        /\ \A v \in job[j].todo : job[j].found[v] = asked[v].groups \ asked[v].missing
    BY <1>0, <2>1 DEF Remembers
  <2>3. job[j].found[u] \cap job[j].target = {}
    BY <1>1 DEF Matched
  <2>4. asked[u].groups \cap key \subseteq asked[u].missing
    BY <2>2, <2>3
  <2> QED
    BY <1>0, <1>1, <2>1, <2>2, <2>4 DEF Remembers, Keeps, SeenIsRight
<1> QED
  BY <1>0, <1>1, <1>2, <1>3, BecomeReads

LEMMA AdCreateReads ==
  ASSUME Inv, Reads, NEW j \in Job, AdCreate(j)
  PROVE  Reads'
<1>0. /\ job[j].pc = "loop" /\ UNCHANGED <<groups, settings, seen, asked, key>> /\ TypeOK
      /\ job[j] \in JobState /\ job[j].imports
  BY DEF AdCreate, oaVars, mindVars, historyVars, Inv, TypeOK, Shape, ShapeOf
<1>1. PICK s \in JobState, u \in job[j].todo :
        /\ Become(j, s)
        /\ s.pc = "ctrl" /\ Keeps(s, job[j])
        /\ s.ask = [kind |-> "create", user |-> u, groups |-> Matched(j, u)]
        /\ s.todo = job[j].todo \ {u} /\ s.found = job[j].found
  BY <1>0, AdCreateIs
<1>2. Picked(j, s)
  <2>1. Picked(j, job[j]) /\ u \in User
    BY <1>0 DEF Reads, JobsPicked, JobState
  <2>2. s.ask.groups = Matched(j, u)
    BY <1>1
  <2>3. s.ask.groups \subseteq s.found[u] /\ (j = Import => s.ask.groups \subseteq s.target)
    BY <1>1, <2>2 DEF Matched, Keeps
  <2> QED
    BY <1>0, <1>1, <2>1, <2>3 DEF Picked, Keeps
<1>3. j = Import => Remembers(s)' /\ SeenIsRight'
  <2> SUFFICES ASSUME j = Import PROVE Remembers(s)' /\ SeenIsRight'
    OBVIOUS
  <2> QED
    BY <1>0, <1>1 DEF Reads, Remembers, Keeps, SeenIsRight
<1> QED
  BY <1>0, <1>1, <1>2, <1>3, BecomeReads

LEMMA NextReads == Inv /\ Down /\ Running /\ Reads /\ [Next]_vars => Reads'
<1> SUFFICES ASSUME Inv, Down, Running, Reads, [Next]_vars PROVE Reads'
  OBVIOUS
<1>t. TypeOK
  BY DEF Inv
<1>r. Request \subseteq Job /\ Import \in Job /\ \A r \in Request : r # Import
  BY ImportAssumption DEF Job
<1> DEFINE Still == UNCHANGED <<groups, settings, seen, asked, key>>
<1>1. ASSUME NEW r \in Request, AskWrite(r) PROVE Reads'
  <2>1. Still
    BY <1>1 DEF AskWrite, oaVars, mindVars, historyVars
  <2>2. PICK s \in JobState : Become(r, s) /\ ~s.imports
    BY <1>1, AskWriteIs
  <2> QED
    BY <1>r, <2>1, <2>2, PlainReads
<1>2. ASSUME NEW r \in Request, AskListing(r) PROVE Reads'
  <2>1. Still
    BY <1>2 DEF AskListing, oaVars, mindVars, historyVars
  <2>2. PICK s \in JobState : Become(r, s) /\ ~s.imports
    BY <1>2, AskListingIs
  <2> QED
    BY <1>r, <2>1, <2>2, PlainReads
<1>3. ASSUME NEW r \in Request, AskPick(r) PROVE Reads'
  <2>1. Still
    BY <1>3 DEF AskPick, oaVars, mindVars, historyVars
  <2>2. PICK s \in JobState : Become(r, s) /\ s.pc \in {"listing", "over", "asking"}
    BY <1>3, <1>t, AskPickIs, RestIs
  <2> QED
    BY <1>r, <2>1, <2>2, PlainReads
<1>4. ASSUME NEW r \in Request, AskRun(r) PROVE Reads'
  <2>1. Still
    BY <1>4 DEF AskRun, oaVars, historyVars
  <2>2. CASE Become(r, Over)
    BY <1>r, <2>1, <2>2, RestIs, PlainReads
  <2>3. CASE job' = [job EXCEPT ![r] = Over, ![Import] = [Rest EXCEPT !.pc = "saving", !.imports = TRUE]]
    <3>1. PICK s \in JobState : s.pc = "saving" /\ s = [Rest EXCEPT !.pc = "saving", !.imports = TRUE]
      BY SavingIs
    <3>2. /\ job' \in [Job -> JobState] /\ job'[r].pc = "over" /\ job'[Import].pc = "saving"
          /\ \A k \in Job \ {r, Import} : job'[k] = job[k]
      BY <1>r, <1>t, <2>3, <3>1, RestIs DEF TypeOK
    <3>3. JobsPicked'
      <4> SUFFICES ASSUME NEW k \in Job, NEW x, x = job'[k]
                   PROVE  Picked(k, x)'
        BY DEF JobsPicked, Picked
      <4>1. Picked(k, x)
        BY <3>2 DEF Reads, JobsPicked, Picked
      <4> QED
        BY <2>1, <4>1 DEF Picked, Existing
    <3>4. Remembers(job[Import])' /\ SeenIsRight'
      BY <2>1, <3>2 DEF Remembers, Reads, SeenIsRight
    <3> QED
      BY <3>3, <3>4 DEF Reads
  <2> QED
    BY <1>4, <2>2, <2>3 DEF AskRun
<1>5. ASSUME NEW r \in Request, AskSettings(r) PROVE Reads'
  <2>1. UNCHANGED <<groups, seen, asked, key>>
    BY <1>5 DEF AskSettings, oaVars
  <2>2. PICK s \in JobState : Disturb(r, s, {"settings"}) /\ ~s.imports
    BY <1>5, <1>t, AskSettingsIs
  <2>3. PICK things \in SUBSET Movable : things = {"settings"}
    BY DEF Movable
  <2> QED
    BY <1>r, <2>1, <2>2, <2>3, DisturbReads
<1>6. ASSUME NEW r \in Request, SettingsRefused(r) \/ SettingsTold(r)
      PROVE  Reads'
  <2>1. Still /\ Become(r, Over)
    BY <1>6 DEF SettingsRefused, SettingsTold, oaVars, mindVars, historyVars
  <2> QED
    BY <1>r, <2>1, RestIs, PlainReads
<1>7. ASSUME NEW r \in Request, SettingsStored(r) PROVE Reads'
  <2>1. Still /\ Become(r, [job[r] EXCEPT !.pc = "status"]) /\ "status" \in Place
    BY <1>7 DEF SettingsStored, oaVars, historyVars, Place
  <2>2. PICK s \in JobState : Become(r, s) /\ s.pc = "status"
    BY <1>r, <1>t, <2>1, PassIs
  <2> QED
    BY <1>r, <2>1, <2>2, PlainReads
<1>8. ASSUME NEW j \in Job, Before(j) PROVE Reads'
  <2>1. /\ Still /\ job[j].ask \in Ask /\ job[j].ask.kind \in Writes /\ ~job[j].imports /\ j # Import
    BY <1>8 DEF Before, oaVars, mindVars, historyVars, Inv, Shape, ShapeOf
  <2>2. PICK s \in JobState : Become(j, s) /\ ~s.imports
    BY <1>8, <1>t, <2>1, BeforeIs, RestIs
  <2> QED
    BY <2>1, <2>2, PlainReads
<1>9. ASSUME NEW j \in Job, AnswerOk(j) PROVE Reads'
  <2>1. /\ Still /\ job[j].pc = "answered" /\ Become(j, [job[j] EXCEPT !.pc = "audit"]) /\ "audit" \in Place
    BY <1>9 DEF AnswerOk, oaVars, mindVars, Place
  <2>2. PICK s \in JobState :
          /\ Become(j, s) /\ s.pc = "audit" /\ Keeps(s, job[j]) /\ s.ask = job[j].ask
          /\ s.todo = job[j].todo /\ s.found = job[j].found
    BY <1>t, <2>1, PassIs
  <2> QED
    BY <2>1, <2>2, GoesOnReads DEF Keeps
<1>17. ASSUME NEW j \in Job, AnswerNo(j), End(j) PROVE Reads'
  BY <1>17, EndReads DEF AnswerNo, oaVars, historyVars
<1>10. ASSUME NEW j \in Job, Audited(j) \/ (AnswerNo(j) /\ ~End(j)) PROVE Reads'
  <2>1. /\ Still /\ job[j].pc \in {"answered", "audit"}
        /\ Become(j, IF job[j].imports THEN [job[j] EXCEPT !.pc = "loop"] ELSE Over)
    BY <1>10 DEF AnswerNo, Audited, oaVars, historyVars
  <2>2. CASE job[j].imports
    <3>1. Become(j, [job[j] EXCEPT !.pc = "loop"]) /\ "loop" \in Place
      BY <2>1, <2>2 DEF Place
    <3>2. PICK s \in JobState :
            /\ Become(j, s) /\ s.pc = "loop" /\ Keeps(s, job[j]) /\ s.ask = job[j].ask
            /\ s.todo = job[j].todo /\ s.found = job[j].found
      BY <1>t, <3>1, PassIs
    <3> QED
      BY <2>1, <3>2, GoesOnReads DEF Keeps
  <2>3. CASE ~job[j].imports
    <3>1. j # Import
      BY <2>1, <2>3 DEF Inv, Shape, ShapeOf
    <3> QED
      BY <2>1, <2>3, <3>1, RestIs, PlainReads
  <2> QED
    BY <2>2, <2>3
<1>11. ASSUME NEW j \in Job, LoopEnds(j) PROVE Reads'
  BY <1>11, EndReads DEF LoopEnds, oaVars, historyVars
<1>12. CASE StatusOn
  <2>1. Still /\ Become(Import, [job[Import] EXCEPT !.pc = "snapshot"]) /\ "snapshot" \in Place
    BY <1>12 DEF StatusOn, oaVars, mindVars, historyVars, Place
  <2>2. PICK s \in JobState : Become(Import, s) /\ s.pc = "snapshot"
    BY <1>r, <1>t, <2>1, PassIs
  <2>3. Picked(Import, s) /\ Remembers(s)' /\ SeenIsRight'
    BY <2>1, <2>2 DEF Picked, Remembers, Reads, SeenIsRight
  <2> QED
    BY <1>r, <2>1, <2>2, <2>3, BecomeReads
<1>13. CASE Tick
  <2>1. Still
    BY <1>13 DEF Tick, oaVars, historyVars
  <2>2. CASE UNCHANGED job
    BY <2>1, <2>2, StillReads
  <2>3. CASE StartImport
    <3>1. PICK s \in JobState : Become(Import, s) /\ s.pc = "saving"
      BY <2>3, SavingIs DEF StartImport
    <3>2. Picked(Import, s) /\ Remembers(s)' /\ SeenIsRight'
      BY <2>1, <3>1 DEF Picked, Remembers, Reads, SeenIsRight
    <3> QED
      BY <1>r, <2>1, <3>1, <3>2, BecomeReads
  <2> QED
    BY <1>13, <2>2, <2>3 DEF Tick
<1>14. CASE ManagerStarts
  <2>1. UNCHANGED <<groups, seen, asked, key, job>> /\ \A j \in Job : job[j].pc \in {"idle", "over"}
    BY <1>14 DEF ManagerStarts, oaVars, historyVars, Down
  <2>2. JobsPicked'
    BY <2>1 DEF JobsPicked, Picked
  <2> QED
    BY <2>1, <2>2 DEF Reads, Remembers, SeenIsRight
<1>15. CASE ManagerStops
  <2>1. \A j \in Job : job'[j].pc \in {"idle", "over"}
    BY <1>15, RestIs DEF ManagerStops
  <2>2. JobsPicked'
    BY <2>1 DEF JobsPicked, Picked
  <2>3. seen' = {}
    BY <1>15 DEF ManagerStops
  <2> QED
    BY <1>r, <2>1, <2>2, <2>3 DEF Reads, Remembers, SeenIsRight
<1>16. CASE DirectoryChanges \/ UNCHANGED vars
  BY <1>16, StillReads DEF DirectoryChanges, vars, oaVars, mindVars, historyVars
<1> QED
  BY <1>1, <1>2, <1>3, <1>4, <1>5, <1>6, <1>7, <1>8, <1>9, <1>10, <1>11, <1>12, <1>13, <1>14, <1>15,
     <1>16, <1>17, CtrlReads, SnapshotReads, ListedReads, GroupsReadReads, PassOverReads, AdCreateReads
     DEF Next, Proceeds

LEMMA ReadsKept == Spec => []Reads
<1>1. Spec => []Running
  BY Invariant, InitRunning, NextRunning, PTL DEF Spec
<1> QED
  BY <1>1, Invariant, NothingWhenDown, InitReads, NextReads, PTL DEF Spec

\* SeenIsRight, for every instance: who the automatic import no longer asks for was, when
\* asked, in none of the groups it goes by that existed then.  The key of those groups
\* changes with them and empties what is remembered.
THEOREM SeenRight == Spec => []SeenIsRight
  BY ReadsKept, PTL DEF Reads

\* Only the CTRL script changes the users.
LEMMA OnlyCtrl ==
  ASSUME [Next]_vars, users' # users
  PROVE  \E k \in Job : Ctrl(k)
<1>1. ASSUME NEW r \in Request, AskWrite(r) \/ AskListing(r) \/ AskPick(r) \/ AskRun(r)
      PROVE  FALSE
  BY <1>1 DEF AskWrite, AskListing, AskPick, AskRun, oaVars
<1>2. ASSUME NEW r \in Request, AskSettings(r) \/ SettingsRefused(r) \/ SettingsStored(r) \/ SettingsTold(r)
      PROVE  FALSE
  BY <1>2 DEF AskSettings, SettingsRefused, SettingsStored, SettingsTold, oaVars
<1>3. ASSUME NEW j \in Job, Before(j) \/ AnswerOk(j) \/ AnswerNo(j) \/ Audited(j)
      PROVE  FALSE
  BY <1>3 DEF Before, AnswerOk, AnswerNo, Audited, oaVars
<1>4. ASSUME NEW j \in Job, Listed(j) \/ GroupsRead(j) \/ PassOver(j) \/ AdCreate(j) \/ LoopEnds(j)
      PROVE  FALSE
  BY <1>4 DEF Listed, GroupsRead, PassOver, AdCreate, LoopEnds, oaVars
<1>5. CASE StatusOn \/ Snapshot \/ Tick
  BY <1>5 DEF StatusOn, Snapshot, Tick, oaVars
<1>6. CASE ManagerStarts \/ ManagerStops \/ DirectoryChanges \/ UNCHANGED vars
  BY <1>6 DEF ManagerStarts, ManagerStops, DirectoryChanges, vars, oaVars
<1> QED
  BY <1>1, <1>2, <1>3, <1>4, <1>5, <1>6 DEF Next, Proceeds

LEMMA ImportCreates ==
  ASSUME Inv, Reads, [Next]_vars, NEW j \in Job, NEW u \in User,
         job[j].pc = "ctrl", job'[j].pc = "answered", job[j].imports,
         ~users[u].there, users'[u].there
  PROVE  /\ users'[u].groups = {} => ~job'[j].ok \/ job[j].ask.groups \subseteq job[j].moved
         /\ j = Import => \A g \in users'[u].groups \ job[j].moved :
              /\ groups[g] = "linked"
              /\ "settings" \in job[j].moved \/ settings.groups = {} \/ g \in settings.groups
<1> DEFINE a == job[j].ask
<1>1. /\ a \in Ask /\ a.kind = "create" /\ TypeOK
      /\ job \in [Job -> JobState] /\ users \in [User -> Person]
  BY DEF Inv, TypeOK, Shape, ShapeOf
<1>2. Picked(j, job[j])
  BY DEF Reads, JobsPicked
<1>3. Ctrl(j)
  <2>1. PICK k \in Job : Ctrl(k)
    BY OnlyCtrl
  <2>2. job[k].ask \in Ask
    BY <2>1 DEF Inv, Shape, ShapeOf, Ctrl
  <2>3. ~Refuses(k)
    BY DEF Refuses, oaVars
  <2>4. PICK new, failed : DidChange(k, new, failed)
    BY <1>1, <2>1, <2>2, <2>3, CtrlIs
  <2>5. PICK ok, n, s : ok = ~failed /\ n = Len(log) + 1 /\ s = Answered(k, ok, n)
    OBVIOUS
  <2>6. ok \in BOOLEAN /\ n \in Nat /\ (Become(k, s) \/ Moves(k, s))
    BY <1>1, <2>4, <2>5 DEF DidChange, TypeOK
  <2>7. s \in JobState /\ Steps(k, s)
    BY <1>1, <2>5, <2>6, AnsweredIs, MovesIs DEF Steps
  <2>8. k # j => job'[j].pc = job[j].pc
    BY <1>1, <2>7, StepIs
  <2> QED
    BY <2>1, <2>8
<1>4. PICK failed \in BOOLEAN : Create(j, failed)
  <2>1. ~Refuses(j)
    BY DEF Refuses, oaVars
  <2> QED
    BY <1>1, <1>3, <2>1 DEF Ctrl, UpdateUser, DeleteUser, AddGroup, DropGroup, SetMethod
<1>5. PICK new \in {Member(a.groups \cap Existing), Member({})} :
        /\ new # Member(a.groups \cap Existing) => failed
        /\ users' = [users EXCEPT ![a.user] = new]
  BY <1>4 DEF Create
<1>6. job'[j].ok => ~failed
  <2>1. PICK ok, n, s : ok = ~failed /\ n = Len(log) + 1 /\ s = Answered(j, ok, n)
    OBVIOUS
  <2>2. ok \in BOOLEAN /\ n \in Nat
    BY <2>1 DEF Inv, TypeOK
  <2>3. s \in JobState /\ s.ok = ok
    <3>1. s = Answered(j, ok, n) /\ ok \in BOOLEAN /\ n \in Nat
      BY <2>1, <2>2
    <3>2. job \in [Job -> JobState]
      BY <1>1
    <3> QED
      BY <3>1, <3>2, AnsweredIs
  <2>4. Become(j, s)
    BY <1>4, <2>1 DEF Create, Goes
  <2>5. job'[j] = s
    BY <1>1, <2>3, <2>4, BecomeIs
  <2> QED
    BY <2>1, <2>3, <2>5
<1>7. users'[u] = new
  <2> HIDE DEF a
  <2>1. u = a.user
    BY <1>1, <1>5
  <2> QED
    BY <1>1, <1>5, <2>1
<1>8. users'[u].groups \subseteq a.groups
  BY <1>5, <1>7 DEF Member
<1>9. ASSUME users'[u].groups = {}, job'[j].ok
      PROVE  a.groups \subseteq job[j].moved
  <2>1. users'[u] = Member(a.groups \cap Existing)
    BY <1>5, <1>6, <1>7, <1>9
  <2>2. a.groups \cap Existing = {}
    BY <1>9, <2>1 DEF Member
  <2> QED
    BY <1>2, <2>2 DEF Picked
<1>10. ASSUME j = Import, NEW g \in users'[u].groups \ job[j].moved
       PROVE  groups[g] = "linked" /\ ("settings" \in job[j].moved \/ settings.groups = {} \/ g \in settings.groups)
  <2>1. g \in job[j].target \ job[j].moved
    BY <1>2, <1>8, <1>10 DEF Picked
  <2> QED
    BY <1>2, <1>10, <2>1 DEF Picked
<1> QED
  BY <1>9, <1>10

\* ImportGivesGroups, for every instance: a user an import creates is in a group, or the
\* creation was answered as a failure, or each of its groups was dropped or made again under the
\* import; the automatic import gives linked groups of the selection, but for what changed since.
THEOREM ImportsGiveGroups == Spec => ImportGivesGroups
<1> DEFINE Good(j, u) ==
      (job[j].pc = "ctrl" /\ job'[j].pc = "answered" /\ job[j].imports
         /\ ~users[u].there /\ users'[u].there) =>
        /\ users'[u].groups = {} => ~job'[j].ok \/ job[j].ask.groups \subseteq job[j].moved
        /\ j = Import => \A g \in users'[u].groups \ job[j].moved :
             /\ groups[g] = "linked"
             /\ "settings" \in job[j].moved \/ settings.groups = {} \/ g \in settings.groups
<1>1. Inv /\ Reads /\ [Next]_vars => \A j \in Job, u \in User : Good(j, u)
  BY ImportCreates
<1>2. Inv /\ Reads /\ [Next]_vars => [\A j \in Job, u \in User : Good(j, u)]_vars
  BY <1>1
<1> QED
  BY <1>2, Invariant, ReadsKept, PTL DEF Spec, ImportGivesGroups

=============================================================================
