------------------------------ MODULE JsonStore ------------------------------
(***************************************************************************)
(* The "one datapoint per entity" store that the pages share (DpJsonStore  *)
(* of the kit), the PARA routes it calls and the audit trail it writes     *)
(* (AuditTrailWriter).  Several browser pages work on the same datapoints. *)
(* An operation is a chain of calls: every call may reach the server and   *)
(* be answered, reach it and lose its answer, or fail; calls of other      *)
(* operations land in between.  Each member of Op is one call of list,     *)
(* create, save or remove, made once.                                      *)
(*                                                                         *)
(* An entity is abstracted to one Value; its .name leaf holds the label of *)
(* a value, written here as the value.                                     *)
(***************************************************************************)
EXTENDS Naturals, Sequences

CONSTANTS Page, Op, Id, Value,
          NoValue,      \* no datapoint, an empty leaf, nothing read
          Demo          \* the list a page falls back to

ASSUME NoValueAssumption ==
  /\ NoValue \notin Value
  /\ NoValue \notin [name : Value \cup {NoValue}, json : Value \cup {NoValue}]
ASSUME SomeAssumption == Page # {} /\ Id # {} /\ Value # {}
ASSUME DemoAssumption == Demo \in [Id -> Value \cup {NoValue}]

VARIABLES
  typeExists,   \* the DP type, on the server
  stored,       \* the datapoints: NoValue, or the two leaves
  trailDp,      \* the audit DP exists
  trail,        \* the rows it received
  log,          \* history: every leaf written, with the value it replaced
  offline, typeReady, memory,    \* DpJsonStore, one per page
  prov,         \* AuditTrailWriter.provisioning, one per page
  op            \* the operations in progress

server == <<typeExists, stored, trailDp, trail, log>>
page   == <<offline, typeReady, memory, prov>>
vars   == <<server, page, op>>

Leaf   == Value \cup {NoValue}
Kinds  == {"list", "create", "save", "silent", "session", "remove"}
Ended  == {"done", "threw", "lost"}
Pcs    == Ended \cup {"idle", "type", "newType", "names", "create", "before", "name",
                      "json", "delete", "trace", "exists", "newTrail", "post"}
OpRec  == [pc : Pcs, page : Page, kind : Kinds, id : Id, val : Value, old : Leaf, from : Nat]
Row    == [op : Op, kind : Kinds, id : Id, old : Leaf, new : Leaf]
Write  == [op : Op, id : Id, leaf : {"name", "json"}, old : Leaf, new : Leaf]

(* An operation not called yet: what it will work on is chosen by Start. *)
Idle == [pc |-> "idle", page |-> CHOOSE p \in Page : TRUE, kind |-> "list",
         id |-> CHOOSE i \in Id : TRUE, val |-> CHOOSE v \in Value : TRUE,
         old |-> NoValue, from |-> 0]

Init ==
  /\ typeExists \in BOOLEAN
  /\ stored \in [Id -> IF typeExists THEN {NoValue} \cup {[name |-> v, json |-> v] : v \in Value}
                                     ELSE {NoValue}]
  /\ trailDp \in BOOLEAN
  /\ trail = {} /\ log = <<>>
  /\ offline = [p \in Page |-> FALSE] /\ typeReady = [p \in Page |-> FALSE]
  /\ memory = [p \in Page |-> NoValue] /\ prov = [p \in Page |-> "none"]
  /\ op = [o \in Op |-> Idle]

Json(i) == IF stored[i] = NoValue THEN NoValue ELSE stored[i].json
Name(i) == IF stored[i] = NoValue THEN NoValue ELSE stored[i].name
At(o, pc) == op[o].pc = pc
Go(o, pc) == op' = [op EXCEPT ![o].pc = pc]

(* mem(): the in-memory list of a page without backend, seeded once. *)
Mem(p) == IF memory[p] = NoValue THEN Demo ELSE memory[p]

GoOffline(o) ==
  LET p == op[o].page IN
  /\ offline' = [offline EXCEPT ![p] = TRUE]
  /\ memory' = [memory EXCEPT ![p] = Mem(p)]
  /\ Go(o, "done")
  /\ UNCHANGED <<stored, trailDp, trail, log, typeReady, prov>>

(***************************************************************************)
(* The call of an operation, up to its first await.  On an offline page    *)
(* create, save and remove are one step on its memory.                     *)
(***************************************************************************)
First(p, k) ==
  CASE k = "list"                    -> IF typeReady[p] THEN "names" ELSE "type"
    [] k = "create"                  -> "create"
    [] k \in {"save", "remove"}      -> "before"
    [] k \in {"silent", "session"}   -> "name"

Called(p, k, i, v, b, pc) ==
  [pc |-> pc, page |-> p, kind |-> k, id |-> i, val |-> v, old |-> b, from |-> Len(log)]

(* Only a session save is given its baseline; the others read theirs. *)
Baseline(k) == IF k = "session" THEN Value ELSE {NoValue}

Start(o) ==
  /\ At(o, "idle")
  /\ \E p \in Page, k \in Kinds, i \in Id, v \in Value, b \in Leaf :
       /\ ~offline[p]
       /\ b \in Baseline(k)
       /\ k \in {"list", "remove"} => v = Idle.val    \* they take no value
       /\ k = "list" => i = Idle.id
       /\ op' = [op EXCEPT ![o] = Called(p, k, i, v, b, First(p, k))]
  /\ UNCHANGED <<server, page>>

OfflineCall(p) ==
  /\ offline[p]
  /\ \E i \in Id, v \in Leaf : memory' = [memory EXCEPT ![p] = [Mem(p) EXCEPT ![i] = v]]
  /\ UNCHANGED <<server, offline, typeReady, prov, op>>

(***************************************************************************)
(* list: the type is looked up, created when the answer is not ok (a 400   *)
(* means that another page was faster, and counts as ready), then the      *)
(* datapoints are listed.  A failure anywhere puts the page offline.  What *)
(* a listing shows is not kept in the state.                               *)
(***************************************************************************)
LookUpType(o) ==
  /\ At(o, "type")
  /\ \/ /\ typeExists
        /\ typeReady' = [typeReady EXCEPT ![op[o].page] = TRUE]
        /\ Go(o, "names")
        /\ UNCHANGED <<server, offline, memory, prov>>
     \/ Go(o, "newType") /\ UNCHANGED <<server, page>>
     \/ GoOffline(o) /\ UNCHANGED typeExists

TypeAnswered(o) ==
  /\ typeReady' = [typeReady EXCEPT ![op[o].page] = TRUE]
  /\ Go(o, "names")
  /\ UNCHANGED <<stored, trailDp, trail, log, offline, memory, prov>>

CreateType(o) ==
  /\ At(o, "newType")
  /\ typeExists' \in {typeExists, TRUE}
  /\ TypeAnswered(o) \/ GoOffline(o)

ListNames(o) ==
  /\ At(o, "names")
  /\ \/ Go(o, "done") /\ UNCHANGED <<server, page>>
     \/ GoOffline(o) /\ UNCHANGED typeExists

(***************************************************************************)
(* create, save and remove.  send() throws on any answer but ok: the       *)
(* operation ends there, whatever the server did with the call.            *)
(***************************************************************************)
\* Mutant: the row written whatever became of the call.
Throws_Traced(o) == Go(o, "trace") /\ UNCHANGED <<server, page>>

\* Mutant: a failed call taken for done.
Throws_Swallowed(o) == Go(o, "done") /\ UNCHANGED <<server, page>>

Throws(o) == Go(o, "threw") /\ UNCHANGED <<server, page>>

ReadBefore(o) ==
  /\ At(o, "before")
  /\ \E was \in {Json(op[o].id), NoValue} :
       op' = [op EXCEPT ![o].old = was, ![o].from = Len(log),
                        ![o].pc = IF op[o].kind = "remove" THEN "delete" ELSE "name"]
  /\ UNCHANGED <<server, page>>

CreateDp(o) ==
  /\ At(o, "create")
  /\ \/ /\ typeExists /\ stored[op[o].id] = NoValue
        /\ stored' = [stored EXCEPT ![op[o].id] = [name |-> NoValue, json |-> NoValue]]
        /\ \E pc \in {"name", "threw"} : op' = [op EXCEPT ![o].pc = pc, ![o].from = Len(log)]
        /\ UNCHANGED <<typeExists, trailDp, trail, log, page>>
     \/ Throws(o)

Logged(o, leaf, old, new) ==
  log' = Append(log, [op |-> o, id |-> op[o].id, leaf |-> leaf, old |-> old, new |-> new])

SetName(o) ==
  LET i == op[o].id IN
  /\ At(o, "name")
  /\ \/ /\ stored[i] # NoValue
        /\ stored' = [stored EXCEPT ![i].name = op[o].val]
        /\ Logged(o, "name", Name(i), op[o].val)
        /\ \E pc \in {"json", "threw"} : Go(o, pc)
        /\ UNCHANGED <<typeExists, trailDp, trail, page>>
     \/ Throws(o)

\* Mutant: no row either when the old value could not be read.
Traced_OldKnown(o) ==
  /\ op[o].kind # "silent"
  /\ op[o].kind \in {"save", "session"} => op[o].old \notin {op[o].val, NoValue}

(* traceUpdate: a save whose value is the one it compares with has nothing to tell. *)
Traced(o) ==
  /\ op[o].kind # "silent"
  /\ op[o].kind \in {"save", "session"} => op[o].old # op[o].val

SetJson(o) ==
  LET i == op[o].id IN
  /\ At(o, "json")
  /\ \/ /\ stored[i] # NoValue
        /\ stored' = [stored EXCEPT ![i].json = op[o].val]
        /\ Logged(o, "json", Json(i), op[o].val)
        /\ \E pc \in {IF Traced(o) THEN "trace" ELSE "done", "threw"} : Go(o, pc)
        /\ UNCHANGED <<typeExists, trailDp, trail, page>>
     \/ Throws(o)

DeleteDp(o) ==
  LET i == op[o].id IN
  /\ At(o, "delete")
  /\ \/ /\ stored[i] # NoValue
        /\ stored' = [stored EXCEPT ![i] = NoValue]
        /\ Logged(o, "json", Json(i), NoValue)
        /\ \E pc \in {"trace", "threw"} : Go(o, pc)
        /\ UNCHANGED <<typeExists, trailDp, trail, page>>
     \/ Throws(o)

(***************************************************************************)
(* The audit row, written after the operation returned to its page.  The   *)
(* first row of a page provisions the audit DP; the rows that come         *)
(* meanwhile wait for the same promise, and its outcome is kept for good.  *)
(***************************************************************************)
Ensure(o) ==
  LET p == op[o].page IN
  /\ At(o, "trace")
  /\ \/ /\ prov[p] = "none"
        /\ prov' = [prov EXCEPT ![p] = "running"]
        /\ Go(o, "exists")
        /\ UNCHANGED <<server, offline, typeReady, memory>>
     \/ prov[p] = "ready"  /\ Go(o, "post") /\ UNCHANGED <<server, page>>
     \/ prov[p] = "failed" /\ Go(o, "lost") /\ UNCHANGED <<server, page>>

Provisioned(o, ok) ==
  /\ prov' = [prov EXCEPT ![op[o].page] = IF ok THEN "ready" ELSE "failed"]
  /\ Go(o, IF ok THEN "post" ELSE "lost")
  /\ UNCHANGED <<typeExists, stored, trail, log, offline, typeReady, memory>>

TrailExists(o) ==
  /\ At(o, "exists")
  /\ \/ trailDp /\ Provisioned(o, TRUE) /\ UNCHANGED trailDp
     \/ Go(o, "newTrail") /\ UNCHANGED <<server, page>>

CreateTrail(o) ==
  /\ At(o, "newTrail")
  /\ \/ trailDp' = TRUE /\ \E ok \in BOOLEAN : Provisioned(o, ok)
     \/ UNCHANGED trailDp /\ Provisioned(o, FALSE)

RowOf(o) == [op |-> o, kind |-> op[o].kind, id |-> op[o].id, old |-> op[o].old,
             new |-> IF op[o].kind = "remove" THEN NoValue ELSE op[o].val]

Post(o) ==
  /\ At(o, "post")
  /\ \/ trail' = trail \cup {RowOf(o)} /\ Go(o, "done") /\ UNCHANGED <<typeExists, stored, trailDp, log, page>>
     \/ Go(o, "lost") /\ UNCHANGED <<server, page>>

Continue(o) ==
  \/ LookUpType(o) \/ CreateType(o) \/ ListNames(o)
  \/ ReadBefore(o) \/ CreateDp(o) \/ SetName(o) \/ SetJson(o) \/ DeleteDp(o)
  \/ Ensure(o) \/ TrailExists(o) \/ CreateTrail(o) \/ Post(o)

Next == \/ \E o \in Op : Start(o) \/ Continue(o)
        \/ \E p \in Page : OfflineCall(p)

Spec == Init /\ [][Next]_vars

-----------------------------------------------------------------------------
(* Every variable holds a value of its set. *)
TypeOK ==
  /\ typeExists \in BOOLEAN /\ trailDp \in BOOLEAN
  /\ stored \in [Id -> {NoValue} \cup [name : Leaf, json : Leaf]]
  /\ trail \subseteq Row
  /\ log \in Seq(Write)
  /\ offline \in [Page -> BOOLEAN] /\ typeReady \in [Page -> BOOLEAN]
  /\ memory \in [Page -> {NoValue} \cup [Id -> Leaf]]
  /\ prov \in [Page -> {"none", "running", "ready", "failed"}]
  /\ op \in [Op -> OpRec]

Written(o, leaf) == {n \in DOMAIN log : log[n].op = o /\ log[n].leaf = leaf}
WritesOf(i, leaf) == {n \in DOMAIN log : log[n].id = i /\ log[n].leaf = leaf}

(***************************************************************************)
(* RowsAreTrue: a row of the audit trail tells of something that happened: *)
(* its operation wrote the new value, and the old value it gives (but for  *)
(* a session, whose page supplies it) really was the stored one, no later  *)
(* than that write.                                                        *)
(***************************************************************************)
RowsAreTrue ==
  \A r \in trail :
    \E n \in Written(r.op, "json") :
      /\ log[n].id = r.id /\ log[n].new = r.new
      /\ r.kind = "session" \/ r.old = NoValue
           \/ \E m \in WritesOf(r.id, "json") : m <= n /\ log[m].old = r.old

(* Another operation wrote the entity between what this one read and write n. *)
Raced(o, n) ==
  \E k \in WritesOf(op[o].id, "json") : op[o].from < k /\ k < n

(* A change of a stored entity by an operation that ended, all its calls answered. *)
ChangedBy(n, ks) ==
  LET w == log[n] IN
  /\ w.leaf = "json" /\ w.old # w.new
  /\ op[w.op].pc = "done" /\ op[w.op].kind \in ks

RowFor(n) == {r \in trail : r.op = log[n].op /\ r.new = log[n].new}

(***************************************************************************)
(* UntracedOnlyIfRaced: a change of a stored entity whose calls were all   *)
(* answered is in the trail, with the value it replaced when that could be *)
(* read, unless another operation wrote the entity between the read of the *)
(* old value and the write.                                                *)
(***************************************************************************)
UntracedOnlyIfRaced ==
  \A n \in DOMAIN log :
    ChangedBy(n, {"create", "save", "remove"}) /\ ~Raced(log[n].op, n) =>
      \E r \in RowFor(n) : r.old \in {log[n].old, NoValue}

(***************************************************************************)
(* TornOnlyByOverlap: the two leaves of an entity differ only while an     *)
(* operation has written the first of them and not the second, which it    *)
(* may have failed to, or when two operations wrote it at once, each its   *)
(* first leaf before the other's second.                                   *)
(***************************************************************************)
Half(o) ==
  /\ op[o].pc \in {"json", "threw"}
  /\ Written(o, "name") # {} /\ Written(o, "json") = {}

Overlapped(o1, o2) ==
  /\ o1 # o2
  /\ Written(o1, "json") # {} /\ Written(o2, "json") # {}
  /\ \A n \in Written(o1, "name"), m \in Written(o2, "json") : n < m
  /\ \A n \in Written(o2, "name"), m \in Written(o1, "json") : n < m

TornOnlyByOverlap ==
  \A i \in Id :
    Name(i) # Json(i) =>
      \/ \E o \in Op : op[o].id = i /\ Half(o)
      \/ \E o1, o2 \in Op : op[o1].id = i /\ op[o2].id = i /\ Overlapped(o1, o2)

(* OneProvisioning: while a page provisions its audit DP, exactly one of its rows is
   doing it; the rows that wait are never left waiting for nobody. *)
Provisioners(p) == {o \in Op : op[o].page = p /\ op[o].pc \in {"exists", "newTrail"}}

OneProvisioning ==
  \A p \in Page : IF prov[p] = "running" THEN \E o \in Op : Provisioners(p) = {o}
                                         ELSE Provisioners(p) = {}

(* MemoryKept: what a page edited offline stays: a listing that was in progress and
   fails later does not put the demo list back, and the page does not come online;
   only the calls made offline, which are no step of an operation, change it. *)
MemoryKept ==
  [][\A p \in Page : memory[p] # NoValue =>
       offline'[p] /\ (op' = op \/ memory'[p] = memory[p])]_vars
==============================================================================
