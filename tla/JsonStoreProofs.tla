--------------------------- MODULE JsonStoreProofs ---------------------------
(***************************************************************************)
(* Theorems about JsonStore, for any pages, operations, datapoints and     *)
(* values: what the rows of the audit trail tell happened, what is missing *)
(* in it was raced, a page provisions its trail once, and a page without   *)
(* backend keeps what it edited.                                           *)
(***************************************************************************)
EXTENDS JsonStore, TLAPS

-----------------------------------------------------------------------------
(* Types. *)

LEMMA Replaced ==
  ASSUME NEW f \in [Op -> OpRec], NEW o \in Op, NEW s \in OpRec, NEW g, g = [f EXCEPT ![o] = s]
  PROVE  g \in [Op -> OpRec] /\ g[o] = s /\ \A q \in Op \ {o} : g[q] = f[q]
  OBVIOUS

\* An operation that goes on to another call.
LEMMA GoIs ==
  ASSUME TypeOK, NEW o \in Op, NEW pc \in Pcs, Go(o, pc)
  PROVE  /\ op' \in [Op -> OpRec] /\ op'[o].pc = pc
         /\ \A q \in Op \ {o} : op'[q] = op[q]
         /\ op'[o].page = op[o].page /\ op'[o].kind = op[o].kind /\ op'[o].id = op[o].id
         /\ op'[o].val = op[o].val /\ op'[o].old = op[o].old /\ op'[o].from = op[o].from
<1> DEFINE r == op[o]
           s == [r EXCEPT !.pc = pc]
<1>1. op \in [Op -> OpRec] /\ r \in OpRec
  BY DEF TypeOK
<1>2. op' = [op EXCEPT ![o] = s]
  BY DEF Go
<1> HIDE DEF r
<1>3. /\ s \in OpRec /\ s.pc = pc /\ s.page = r.page /\ s.kind = r.kind /\ s.id = r.id
      /\ s.val = r.val /\ s.old = r.old /\ s.from = r.from
  BY <1>1 DEF OpRec
<1> HIDE DEF s
<1>4. op' \in [Op -> OpRec] /\ op'[o] = s /\ \A q \in Op \ {o} : op'[q] = op[q]
  BY <1>1, <1>2, <1>3
<1> QED
  BY <1>3, <1>4 DEF r

LEMMA ThreeFields ==
  ASSUME NEW f \in [Op -> OpRec], NEW o \in Op, NEW was, NEW from, NEW pc
  PROVE  [f EXCEPT ![o].old = was, ![o].from = from, ![o].pc = pc]
           = [f EXCEPT ![o] = [f[o] EXCEPT !.old = was, !.from = from, !.pc = pc]]
<1> DEFINE r1 == [f[o] EXCEPT !.old = was]
           f1 == [f EXCEPT ![o] = r1]
           r2 == [r1 EXCEPT !.from = from]
           f2 == [f1 EXCEPT ![o] = r2]
<1>1. f1[o] = r1 /\ f2[o] = r2 /\ [f2 EXCEPT ![o].pc = pc] = [f EXCEPT ![o] = [r2 EXCEPT !.pc = pc]]
  OBVIOUS
<1> QED
  BY <1>1

\* ReadBefore and CreateDp, which keep where the log was, too.
LEMMA ReadBeforeIs ==
  ASSUME TypeOK, NEW o \in Op, NEW was \in Leaf, NEW pc \in Pcs,
         op' = [op EXCEPT ![o] = [op[o] EXCEPT !.old = was, !.from = Len(log), !.pc = pc]]
  PROVE  /\ op' \in [Op -> OpRec] /\ op'[o].pc = pc
         /\ \A q \in Op \ {o} : op'[q] = op[q]
         /\ op'[o].page = op[o].page /\ op'[o].kind = op[o].kind /\ op'[o].id = op[o].id
         /\ op'[o].val = op[o].val /\ op'[o].old = was /\ op'[o].from = Len(log)
<1> DEFINE r == op[o]
           s == [r EXCEPT !.old = was, !.from = Len(log), !.pc = pc]
<1>1. op \in [Op -> OpRec] /\ r \in OpRec /\ Len(log) \in Nat
  BY DEF TypeOK
<1>2. op' = [op EXCEPT ![o] = s]
  OBVIOUS
<1> HIDE DEF r
<1>3. /\ s \in OpRec /\ s.pc = pc /\ s.page = r.page /\ s.kind = r.kind /\ s.id = r.id
      /\ s.val = r.val /\ s.old = was /\ s.from = Len(log)
  BY <1>1 DEF OpRec
<1> HIDE DEF s
<1>4. op' \in [Op -> OpRec] /\ op'[o] = s /\ \A q \in Op \ {o} : op'[q] = op[q]
  BY <1>1, <1>2, <1>3, Replaced
<1> QED
  BY <1>3, <1>4 DEF r

LEMMA CreateDpIs ==
  ASSUME TypeOK, NEW o \in Op, NEW pc \in Pcs,
         op' = [op EXCEPT ![o].pc = pc, ![o].from = Len(log)]
  PROVE  /\ op' \in [Op -> OpRec] /\ op'[o].pc = pc
         /\ \A q \in Op \ {o} : op'[q] = op[q]
         /\ op'[o].page = op[o].page /\ op'[o].kind = op[o].kind /\ op'[o].id = op[o].id
         /\ op'[o].val = op[o].val /\ op'[o].old = op[o].old /\ op'[o].from = Len(log)
<1> DEFINE r == op[o]
           s == [r EXCEPT !.pc = pc, !.from = Len(log)]
<1>1. op \in [Op -> OpRec] /\ r \in OpRec /\ Len(log) \in Nat
  BY DEF TypeOK
<1>2. op' = [op EXCEPT ![o] = s]
  BY <1>1
<1> HIDE DEF r
<1>3. /\ s \in OpRec /\ s.pc = pc /\ s.page = r.page /\ s.kind = r.kind /\ s.id = r.id
      /\ s.val = r.val /\ s.old = r.old /\ s.from = Len(log)
  BY <1>1 DEF OpRec
<1> HIDE DEF s
<1>4. op' \in [Op -> OpRec] /\ op'[o] = s /\ \A q \in Op \ {o} : op'[q] = op[q]
  BY <1>1, <1>2, <1>3
<1> QED
  BY <1>3, <1>4 DEF r

LEMMA IdleType == Idle \in OpRec
<1>1. /\ (CHOOSE p \in Page : TRUE) \in Page /\ (CHOOSE i \in Id : TRUE) \in Id
      /\ (CHOOSE v \in Value : TRUE) \in Value
  BY SomeAssumption
<1> QED
  BY <1>1 DEF Idle, OpRec, Pcs, Kinds, Leaf

LEMMA CalledType ==
  ASSUME TypeOK, NEW p \in Page, NEW k \in Kinds, NEW i \in Id, NEW v \in Value, NEW b \in Leaf
  PROVE  Called(p, k, i, v, b, First(p, k)) \in OpRec
<1>1. First(p, k) \in {"names", "type", "create", "before", "name"}
  BY DEF First, Kinds
<1>2. Len(log) \in Nat
  BY DEF TypeOK
<1> QED
  BY <1>1, <1>2 DEF Called, OpRec, Pcs

\* What a call of an operation does to the datapoints.
LEMMA StoredType ==
  ASSUME TypeOK, NEW i \in Id, NEW v \in Leaf
  PROVE  /\ [stored EXCEPT ![i] = NoValue] \in [Id -> {NoValue} \cup [name : Leaf, json : Leaf]]
         /\ [stored EXCEPT ![i] = [name |-> NoValue, json |-> NoValue]]
              \in [Id -> {NoValue} \cup [name : Leaf, json : Leaf]]
         /\ stored[i] # NoValue =>
              /\ [stored EXCEPT ![i].name = v] \in [Id -> {NoValue} \cup [name : Leaf, json : Leaf]]
              /\ [stored EXCEPT ![i].json = v] \in [Id -> {NoValue} \cup [name : Leaf, json : Leaf]]
         /\ Name(i) \in Leaf /\ Json(i) \in Leaf
<1>1. stored \in [Id -> {NoValue} \cup [name : Leaf, json : Leaf]] /\ NoValue \in Leaf
  BY DEF TypeOK, Leaf
<1>2. CASE stored[i] = NoValue
  BY <1>1, <1>2 DEF Name, Json
<1>3. CASE stored[i] # NoValue
  <2>1. stored[i] \in [name : Leaf, json : Leaf]
    BY <1>1, <1>3
  <2>2. /\ [stored[i] EXCEPT !.name = v] \in [name : Leaf, json : Leaf]
        /\ [stored[i] EXCEPT !.json = v] \in [name : Leaf, json : Leaf]
        /\ Name(i) \in Leaf /\ Json(i) \in Leaf
    BY <1>3, <2>1 DEF Name, Json
  <2> QED
    BY <1>1, <2>2
<1> QED
  BY <1>2, <1>3

LEMMA LoggedType ==
  ASSUME TypeOK, NEW o \in Op, NEW leaf \in {"name", "json"}, NEW old \in Leaf, NEW new \in Leaf,
         Logged(o, leaf, old, new)
  PROVE  log' \in Seq(Write)
<1>1. op[o].id \in Id /\ log \in Seq(Write)
  BY DEF TypeOK, OpRec
<1>2. [op |-> o, id |-> op[o].id, leaf |-> leaf, old |-> old, new |-> new] \in Write
  BY <1>1 DEF Write
<1> QED
  BY <1>1, <1>2 DEF Logged

\* The operation is typed, whatever call it makes.
LEMMA OpType ==
  ASSUME TypeOK, NEW o \in Op
  PROVE  /\ op[o].page \in Page /\ op[o].kind \in Kinds /\ op[o].id \in Id
         /\ op[o].val \in Value /\ op[o].val \in Leaf /\ op[o].old \in Leaf /\ op[o].from \in Nat
         /\ NoValue \in Leaf
  BY DEF TypeOK, OpRec, Leaf

\* What an operation holds after it read the value it is about to replace.
ReadIs(o, was, pc) ==
  /\ op' \in [Op -> OpRec] /\ op'[o].pc = pc
  /\ \A q \in Op \ {o} : op'[q] = op[q]
  /\ op'[o].page = op[o].page /\ op'[o].kind = op[o].kind /\ op'[o].id = op[o].id
  /\ op'[o].val = op[o].val /\ op'[o].old = was /\ op'[o].from = Len(log)

LEMMA ReadBeforeStep ==
  ASSUME TypeOK, NEW o \in Op, ReadBefore(o)
  PROVE  \E was \in {Json(op[o].id), NoValue} \cap Leaf :
           ReadIs(o, was, IF op[o].kind = "remove" THEN "delete" ELSE "name")
<1> DEFINE pc == IF op[o].kind = "remove" THEN "delete" ELSE "name"
           from == Len(log)
<1>1. PICK was \in {Json(op[o].id), NoValue} :
        op' = [op EXCEPT ![o].old = was, ![o].from = from, ![o].pc = pc]
  BY DEF ReadBefore
<1>2. was \in Leaf /\ pc \in Pcs /\ op \in [Op -> OpRec]
  BY OpType, StoredType DEF TypeOK, Pcs
<1> HIDE DEF pc, from
<1>3. op' = [op EXCEPT ![o] = [op[o] EXCEPT !.old = was, !.from = from, !.pc = pc]]
  BY <1>1, <1>2, ThreeFields, ZenonT(30)
<1>4. op' = [op EXCEPT ![o] = [op[o] EXCEPT !.old = was, !.from = Len(log), !.pc = pc]]
  BY <1>3 DEF from
<1>5. ReadIs(o, was, pc)
  BY <1>2, <1>4, ReadBeforeIs DEF ReadIs
<1> QED
  BY <1>2, <1>5 DEF pc

LEMMA GoOfflineType ==
  ASSUME TypeOK, NEW o \in Op, GoOffline(o), typeExists' \in BOOLEAN
  PROVE  TypeOK'
<1>1. op' \in [Op -> OpRec]
  BY GoIs DEF GoOffline, Pcs, Ended
<1>2. op[o].page \in Page /\ Mem(op[o].page) \in {NoValue} \cup [Id -> Leaf]
  BY OpType, DemoAssumption DEF Mem, TypeOK, Leaf
<1> QED
  BY <1>1, <1>2 DEF GoOffline, TypeOK

LEMMA ProvisionedType ==
  ASSUME TypeOK, NEW o \in Op, NEW ok \in BOOLEAN, Provisioned(o, ok), trailDp' \in BOOLEAN
  PROVE  TypeOK'
<1>1. (IF ok THEN "post" ELSE "lost") \in Pcs
  BY DEF Pcs, Ended
<1>2. op' \in [Op -> OpRec]
  BY <1>1, GoIs DEF Provisioned
<1> QED
  BY <1>2, OpType DEF Provisioned, TypeOK

LEMMA ListType ==
  ASSUME TypeOK, NEW o \in Op, LookUpType(o) \/ CreateType(o) \/ ListNames(o)
  PROVE  TypeOK'
<1> USE DEF server, page
<1>1. \A pc \in {"names", "newType", "done"} : Go(o, pc) => op' \in [Op -> OpRec]
  BY GoIs DEF Pcs, Ended
<1>2. op[o].page \in Page
  BY OpType
<1>3. CASE LookUpType(o)
  BY <1>1, <1>2, <1>3, GoOfflineType DEF LookUpType, TypeOK
<1>4. CASE CreateType(o)
  <2>1. typeExists' \in BOOLEAN
    BY <1>4 DEF CreateType, TypeOK
  <2> QED
    BY <1>1, <1>2, <1>4, <2>1, GoOfflineType DEF CreateType, TypeAnswered, TypeOK
<1>5. CASE ListNames(o)
  BY <1>1, <1>5, GoOfflineType DEF ListNames, TypeOK
<1> QED
  BY <1>3, <1>4, <1>5

LEMMA ChangeType ==
  ASSUME TypeOK, NEW o \in Op,
         ReadBefore(o) \/ CreateDp(o) \/ SetName(o) \/ SetJson(o) \/ DeleteDp(o)
  PROVE  TypeOK'
<1> USE DEF server, page
<1>1. \A pc \in {"name", "json", "delete", "trace", "done", "threw"} :
        /\ pc \in Pcs
        /\ Go(o, pc) => op' \in [Op -> OpRec]
  BY GoIs DEF Pcs, Ended
<1>2. CASE ReadBefore(o)
  <2>1. op' \in [Op -> OpRec]
    BY <1>2, ReadBeforeStep DEF ReadIs
  <2> QED
    BY <1>2, <2>1 DEF ReadBefore, TypeOK
<1>3. CASE Throws(o)
  BY <1>1, <1>3 DEF Throws, TypeOK
<1>4. CASE CreateDp(o) /\ ~Throws(o)
  <2>1. PICK pc \in {"name", "threw"} : op' = [op EXCEPT ![o].pc = pc, ![o].from = Len(log)]
    BY <1>4 DEF CreateDp
  <2>2. op' \in [Op -> OpRec]
    BY <1>1, <2>1, CreateDpIs
  <2>3. /\ stored' = [stored EXCEPT ![op[o].id] = [name |-> NoValue, json |-> NoValue]]
        /\ UNCHANGED <<typeExists, trailDp, trail, log, page>>
    BY <1>4 DEF CreateDp
  <2>4. stored' \in [Id -> {NoValue} \cup [name : Leaf, json : Leaf]]
    BY <2>3, OpType, StoredType
  <2> QED
    BY <2>2, <2>3, <2>4 DEF TypeOK
<1>5. CASE SetName(o) /\ ~Throws(o)
  <2>1. PICK pc \in {"json", "threw"} : Go(o, pc)
    BY <1>5 DEF SetName
  <2>2. /\ Logged(o, "name", Name(op[o].id), op[o].val)
        /\ stored[op[o].id] # NoValue /\ stored' = [stored EXCEPT ![op[o].id].name = op[o].val]
        /\ UNCHANGED <<typeExists, trailDp, trail, page>>
    BY <1>5 DEF SetName
  <2>3. op' \in [Op -> OpRec]
    BY <1>1, <2>1
  <2>4. log' \in Seq(Write)
    BY <2>2, OpType, StoredType, LoggedType
  <2>5. stored' \in [Id -> {NoValue} \cup [name : Leaf, json : Leaf]]
    BY <2>2, OpType, StoredType
  <2> QED
    BY <2>2, <2>3, <2>4, <2>5 DEF TypeOK
<1>6. CASE SetJson(o) /\ ~Throws(o)
  <2>1. PICK pc \in {"trace", "done", "threw"} : Go(o, pc)
    BY <1>6 DEF SetJson
  <2>2. /\ Logged(o, "json", Json(op[o].id), op[o].val)
        /\ stored[op[o].id] # NoValue /\ stored' = [stored EXCEPT ![op[o].id].json = op[o].val]
        /\ UNCHANGED <<typeExists, trailDp, trail, page>>
    BY <1>6 DEF SetJson
  <2>3. op' \in [Op -> OpRec]
    BY <1>1, <2>1
  <2>4. log' \in Seq(Write)
    BY <2>2, OpType, StoredType, LoggedType
  <2>5. stored' \in [Id -> {NoValue} \cup [name : Leaf, json : Leaf]]
    BY <2>2, OpType, StoredType
  <2> QED
    BY <2>2, <2>3, <2>4, <2>5 DEF TypeOK
<1>7. CASE DeleteDp(o) /\ ~Throws(o)
  <2>1. PICK pc \in {"trace", "threw"} : Go(o, pc)
    BY <1>7 DEF DeleteDp
  <2>2. /\ Logged(o, "json", Json(op[o].id), NoValue)
        /\ stored[op[o].id] # NoValue /\ stored' = [stored EXCEPT ![op[o].id] = NoValue]
        /\ UNCHANGED <<typeExists, trailDp, trail, page>>
    BY <1>7 DEF DeleteDp
  <2>3. op' \in [Op -> OpRec]
    BY <1>1, <2>1
  <2>4. log' \in Seq(Write)
    BY <2>2, OpType, StoredType, LoggedType
  <2>5. stored' \in [Id -> {NoValue} \cup [name : Leaf, json : Leaf]]
    BY <2>2, OpType, StoredType
  <2> QED
    BY <2>2, <2>3, <2>4, <2>5 DEF TypeOK
<1> QED
  BY <1>2, <1>3, <1>4, <1>5, <1>6, <1>7

LEMMA TraceType ==
  ASSUME TypeOK, NEW o \in Op, Ensure(o) \/ TrailExists(o) \/ CreateTrail(o) \/ Post(o)
  PROVE  TypeOK'
<1> USE DEF server, page
<1>1. \A pc \in {"exists", "newTrail", "post", "done", "lost"} : Go(o, pc) => op' \in [Op -> OpRec]
  BY GoIs DEF Pcs, Ended
<1>2. CASE Ensure(o)
  BY <1>1, <1>2, OpType DEF Ensure, TypeOK
<1>3. CASE TrailExists(o)
  BY <1>1, <1>3, ProvisionedType DEF TrailExists, TypeOK
<1>4. CASE CreateTrail(o)
  BY <1>4, ProvisionedType DEF CreateTrail, TypeOK
<1>5. CASE Post(o)
  <2>1. RowOf(o) \in Row
    BY OpType DEF RowOf, Row
  <2> QED
    BY <1>1, <1>5, <2>1 DEF Post, TypeOK
<1> QED
  BY <1>2, <1>3, <1>4, <1>5

LEMMA InitType == Init => TypeOK
<1> SUFFICES ASSUME Init PROVE TypeOK
  OBVIOUS
<1>1. stored \in [Id -> {NoValue} \cup [name : Leaf, json : Leaf]]
  BY DEF Init, Leaf
<1>2. op \in [Op -> OpRec]
  BY IdleType DEF Init
<1> QED
  BY <1>1, <1>2 DEF Init, TypeOK

LEMMA NextType == TypeOK /\ [Next]_vars => TypeOK'
<1> SUFFICES ASSUME TypeOK, [Next]_vars PROVE TypeOK'
  OBVIOUS
<1>1. ASSUME NEW o \in Op, Start(o) PROVE TypeOK'
  <2>1. op' \in [Op -> OpRec]
    BY <1>1, CalledType DEF Start, TypeOK
  <2> QED
    BY <1>1, <2>1 DEF Start, server, page, TypeOK
<1>2. ASSUME NEW p \in Page, OfflineCall(p) PROVE TypeOK'
  <2>1. Mem(p) \in [Id -> Leaf]
    BY DemoAssumption DEF Mem, TypeOK, Leaf
  <2> QED
    BY <1>2, <2>1 DEF OfflineCall, server, TypeOK
<1>3. CASE UNCHANGED vars
  BY <1>3 DEF vars, server, page, TypeOK
<1>4. ASSUME NEW o \in Op, Continue(o) PROVE TypeOK'
  BY <1>4, ListType, ChangeType, TraceType DEF Continue
<1> QED
  BY <1>1, <1>2, <1>3, <1>4 DEF Next

\* Every variable keeps its type.
THEOREM TypeCorrect == Spec => []TypeOK
<1> QED
  BY InitType, NextType, PTL DEF Spec

-----------------------------------------------------------------------------
(* What a page without backend keeps. *)

\* A page has a memory only once it is offline.
OfflineWithMemory == \A p \in Page : memory[p] # NoValue => offline[p]

\* What a step may do to the pages.
PagesKept ==
  \A p \in Page : /\ offline[p] => offline'[p]
                  /\ memory'[p] # memory[p] => offline'[p]
                  /\ memory'[p] = memory[p] \/ memory[p] = NoValue \/ op' = op

LEMMA GoOfflineKeeps ==
  ASSUME TypeOK, NEW o \in Op, GoOffline(o)
  PROVE  PagesKept
<1>1. op[o].page \in Page /\ Mem(op[o].page) = IF memory[op[o].page] = NoValue THEN Demo
                                                ELSE memory[op[o].page]
  BY OpType DEF Mem
<1> QED
  BY <1>1 DEF GoOffline, PagesKept, TypeOK

LEMMA NextKeeps ==
  ASSUME TypeOK, [Next]_vars
  PROVE  PagesKept
<1> USE DEF server, page
<1>1. ASSUME UNCHANGED <<offline, memory>> PROVE PagesKept
  BY <1>1 DEF PagesKept
<1>2. ASSUME NEW o \in Op, Start(o) PROVE PagesKept
  BY <1>1, <1>2 DEF Start
<1>3. ASSUME NEW p \in Page, OfflineCall(p) PROVE PagesKept
  BY <1>3 DEF OfflineCall, PagesKept, TypeOK
<1>4. ASSUME NEW o \in Op, LookUpType(o) \/ CreateType(o) \/ ListNames(o) PROVE PagesKept
  BY <1>1, <1>4, GoOfflineKeeps DEF LookUpType, CreateType, TypeAnswered, ListNames
<1>5. ASSUME NEW o \in Op,
             ReadBefore(o) \/ CreateDp(o) \/ SetName(o) \/ SetJson(o) \/ DeleteDp(o)
      PROVE PagesKept
  BY <1>1, <1>5 DEF ReadBefore, CreateDp, SetName, SetJson, DeleteDp, Throws
<1>6. ASSUME NEW o \in Op, Ensure(o) \/ TrailExists(o) \/ CreateTrail(o) \/ Post(o)
      PROVE PagesKept
  BY <1>1, <1>6 DEF Ensure, TrailExists, CreateTrail, Provisioned, Post
<1>7. CASE UNCHANGED vars
  BY <1>1, <1>7 DEF vars
<1> QED
  BY <1>2, <1>3, <1>4, <1>5, <1>6, <1>7 DEF Next, Continue

\* What a page edited offline stays, and the page does not come online (MemoryKept).
THEOREM MemoryStays == Spec => MemoryKept
<1>1. Init => OfflineWithMemory
  BY DEF Init, OfflineWithMemory
<1>2. ASSUME TypeOK, OfflineWithMemory, [Next]_vars
      PROVE  /\ OfflineWithMemory'
             /\ [\A p \in Page : memory[p] # NoValue =>
                   offline'[p] /\ (op' = op \/ memory'[p] = memory[p])]_vars
  BY <1>2, NextKeeps DEF OfflineWithMemory, PagesKept
<1> QED
  BY <1>1, <1>2, TypeCorrect, PTL DEF Spec, MemoryKept

-----------------------------------------------------------------------------
(* The audit DP of a page is provisioned once. *)

Provisioning == {"exists", "newTrail"}

\* A step of one operation that is not about the audit DP.
LEMMA ProvisionersSame ==
  ASSUME TypeOK, NEW o \in Op, OneProvisioning, prov' = prov,
         \A q \in Op \ {o} : op'[q] = op[q],
         op[o].pc \notin Provisioning, op'[o].pc \notin Provisioning
  PROVE  OneProvisioning'
<1>1. \A p \in Page : Provisioners(p)' = Provisioners(p)
  BY DEF Provisioners, Provisioning
<1> QED
  BY <1>1 DEF OneProvisioning

\* A step that concerns the audit DP of one page.
LEMMA ProvisionersMove ==
  ASSUME OneProvisioning, NEW p \in Page,
         IF prov'[p] = "running" THEN \E o \in Op : Provisioners(p)' = {o} ELSE Provisioners(p)' = {},
         \A q \in Page \ {p} : Provisioners(q)' = Provisioners(q) /\ prov'[q] = prov[q]
  PROVE  OneProvisioning'
<1> SUFFICES ASSUME NEW q \in Page
             PROVE  IF prov'[q] = "running" THEN \E o \in Op : Provisioners(q)' = {o}
                                            ELSE Provisioners(q)' = {}
  BY Zenon DEF OneProvisioning
<1>1. CASE q = p
  BY <1>1, Zenon
<1>2. CASE q # p
  <2>1. Provisioners(q)' = Provisioners(q) /\ prov'[q] = prov[q]
    BY <1>2
  <2> QED
    BY <2>1, Zenon DEF OneProvisioning
<1> QED
  BY <1>1, <1>2

LEMMA ProvisioningStep ==
  ASSUME TypeOK, OneProvisioning, NEW o \in Op,
         Ensure(o) \/ TrailExists(o) \/ CreateTrail(o) \/ Post(o)
  PROVE  OneProvisioning'
<1> USE DEF server, page
<1>1. \A pc \in {"exists", "newTrail", "post", "done", "lost"} :
        Go(o, pc) => /\ op'[o].pc = pc /\ op'[o].page = op[o].page
                     /\ \A q \in Op \ {o} : op'[q] = op[q]
  BY GoIs DEF Pcs, Ended
<1>2. CASE Post(o) \/ (Ensure(o) /\ prov' = prov /\ op'[o].pc # "exists")
  BY <1>1, <1>2, ProvisionersSame DEF Post, Ensure, At, Provisioning
<1>3. ASSUME Ensure(o), prov[op[o].page] = "none", Go(o, "exists"),
             prov' = [prov EXCEPT ![op[o].page] = "running"]
      PROVE  OneProvisioning'
  <2>0. PICK p \in Page : p = op[o].page
    BY OpType
  <2>1. Provisioners(p)' = {o}
    BY <1>1, <1>3, <2>0 DEF OneProvisioning, Provisioners
  <2>2. \A q \in Page \ {p} : Provisioners(q)' = Provisioners(q) /\ prov'[q] = prov[q]
    <3>1. op'[o].page = p /\ \A q \in Op \ {o} : op'[q] = op[q]
      BY <1>1, <1>3, <2>0
    <3>2. \A q \in Page \ {p} : prov'[q] = prov[q]
      BY <1>3, <2>0 DEF TypeOK
    <3>3. \A q \in Page \ {p} : Provisioners(q)' = Provisioners(q)
      BY <2>0, <3>1 DEF Provisioners
    <3> QED
      BY <3>2, <3>3
  <2>3. prov'[p] = "running"
    BY <1>3, <2>0 DEF TypeOK
  <2>4. IF prov'[p] = "running" THEN \E q \in Op : Provisioners(p)' = {q} ELSE Provisioners(p)' = {}
    BY <2>1, <2>3, Zenon
  <2> QED
    BY <2>2, <2>4, ProvisionersMove
<1>4. ASSUME NEW ok \in BOOLEAN, Provisioned(o, ok), op[o].pc \in Provisioning
      PROVE  OneProvisioning'
  <2>0. PICK p \in Page : p = op[o].page
    BY OpType
  <2>1. o \in Provisioners(p)
    BY <1>4, <2>0 DEF Provisioners, Provisioning
  <2>2. Provisioners(p) = {o}
    BY <2>1 DEF OneProvisioning
  <2>3. op'[o].pc \notin Provisioning /\ op'[o].page = p /\ \A q \in Op \ {o} : op'[q] = op[q]
    BY <1>1, <1>4, <2>0 DEF Provisioned, Provisioning
  <2>4. Provisioners(p)' = {}
    BY <2>2, <2>3 DEF Provisioners, Provisioning
  <2>5. \A q \in Page \ {p} : Provisioners(q)' = Provisioners(q) /\ prov'[q] = prov[q]
    BY <1>4, <2>0, <2>3 DEF Provisioners, Provisioned, Provisioning, TypeOK
  <2>6. prov'[p] # "running"
    BY <1>4, <2>0 DEF TypeOK, Provisioned
  <2> QED
    BY <2>4, <2>5, <2>6, ProvisionersMove
<1>5. ASSUME At(o, "exists"), Go(o, "newTrail"), UNCHANGED page PROVE OneProvisioning'
  <2>1. \A p \in Page : Provisioners(p)' = Provisioners(p)
    BY <1>1, <1>5 DEF Provisioners, At
  <2> QED
    BY <1>5, <2>1 DEF OneProvisioning
<1>6. CASE Ensure(o)
  BY <1>1, <1>2, <1>3, <1>6 DEF Ensure
<1>7. CASE TrailExists(o)
  BY <1>4, <1>5, <1>7 DEF TrailExists, At, Provisioning
<1>8. CASE CreateTrail(o)
  BY <1>4, <1>8 DEF CreateTrail, At, Provisioning
<1> QED
  BY <1>2, <1>6, <1>7, <1>8

LEMMA NextProvisioning ==
  ASSUME TypeOK, OneProvisioning, [Next]_vars
  PROVE  OneProvisioning'
<1> USE DEF server, page
<1>1. \A o \in Op, pc \in Pcs \ Provisioning :
        Go(o, pc) => /\ op'[o].pc \notin Provisioning
                     /\ \A q \in Op \ {o} : op'[q] = op[q]
  BY GoIs
<1>2. ASSUME NEW o \in Op, Start(o) PROVE OneProvisioning'
  <2>1. PICK p \in Page, k \in Kinds, i \in Id, v \in Value, b \in Leaf :
          op' = [op EXCEPT ![o] = Called(p, k, i, v, b, First(p, k))]
    BY <1>2 DEF Start
  <2>2. First(p, k) \notin Provisioning
    BY DEF First, Kinds, Provisioning
  <2>3. Called(p, k, i, v, b, First(p, k)).pc \notin Provisioning
    BY <2>2 DEF Called
  <2> DEFINE c == Called(p, k, i, v, b, First(p, k))
  <2>4. c \in OpRec /\ op \in [Op -> OpRec]
    BY CalledType DEF TypeOK
  <2> HIDE DEF c
  <2>5. op'[o] = c /\ \A q \in Op \ {o} : op'[q] = op[q]
    BY <2>1, <2>4 DEF c
  <2>6. op'[o].pc \notin Provisioning
    BY <2>3, <2>5 DEF c
  <2>7. op[o].pc \notin Provisioning /\ prov' = prov
    BY <1>2 DEF Start, At, Provisioning
  <2> QED
    BY <2>5, <2>6, <2>7, ProvisionersSame
<1>3. ASSUME NEW p \in Page, OfflineCall(p) PROVE OneProvisioning'
  BY <1>3 DEF OfflineCall, OneProvisioning, Provisioners
<1>4. ASSUME NEW o \in Op, LookUpType(o) \/ CreateType(o) \/ ListNames(o) PROVE OneProvisioning'
  <2>1. prov' = prov /\ op[o].pc \notin Provisioning
    BY <1>4 DEF LookUpType, CreateType, TypeAnswered, ListNames, GoOffline, At, Provisioning
  <2>2. \E pc \in Pcs \ Provisioning : Go(o, pc)
    BY <1>4 DEF LookUpType, CreateType, TypeAnswered, ListNames, GoOffline, Pcs, Ended, Provisioning
  <2> QED
    BY <1>1, <2>1, <2>2, ProvisionersSame
<1>5. ASSUME NEW o \in Op, SetName(o) \/ SetJson(o) \/ DeleteDp(o) \/ Throws(o),
             op[o].pc \notin Provisioning
      PROVE OneProvisioning'
  <2>1. prov' = prov
    BY <1>5 DEF SetName, SetJson, DeleteDp, Throws
  <2>2. \E pc \in Pcs \ Provisioning : Go(o, pc)
    BY <1>5 DEF SetName, SetJson, DeleteDp, Throws, Pcs, Ended, Provisioning
  <2> QED
    BY <1>1, <1>5, <2>1, <2>2, ProvisionersSame
<1>6. ASSUME NEW o \in Op, CreateDp(o), ~Throws(o) PROVE OneProvisioning'
  <2>1. PICK pc \in {"name", "threw"} : op' = [op EXCEPT ![o].pc = pc, ![o].from = Len(log)]
    BY <1>6 DEF CreateDp
  <2>2. pc \in Pcs \ Provisioning
    BY DEF Pcs, Ended, Provisioning
  <2>3. op'[o].pc \notin Provisioning /\ \A q \in Op \ {o} : op'[q] = op[q]
    BY <2>1, <2>2, CreateDpIs
  <2>4. prov' = prov /\ op[o].pc \notin Provisioning
    BY <1>6 DEF CreateDp, At, Provisioning
  <2> QED
    BY <2>3, <2>4, ProvisionersSame
<1>7. ASSUME NEW o \in Op, ReadBefore(o) PROVE OneProvisioning'
  <2>1. PICK was \in Leaf, pc \in {"name", "delete"} : ReadIs(o, was, pc)
    BY <1>7, ReadBeforeStep
  <2>2. prov' = prov /\ op[o].pc \notin Provisioning
    BY <1>7 DEF ReadBefore, At, Provisioning
  <2> QED
    BY <2>1, <2>2, ProvisionersSame DEF ReadIs, Provisioning
<1>8. ASSUME NEW o \in Op, SetName(o) \/ SetJson(o) \/ DeleteDp(o) PROVE OneProvisioning'
  BY <1>5, <1>8 DEF SetName, SetJson, DeleteDp, At, Provisioning
<1>9. ASSUME NEW o \in Op, CreateDp(o) PROVE OneProvisioning'
  BY <1>5, <1>6, <1>9 DEF CreateDp, At, Provisioning
<1>10. CASE UNCHANGED vars
  BY <1>10 DEF vars, OneProvisioning, Provisioners
<1> QED
  BY <1>2, <1>3, <1>4, <1>7, <1>8, <1>9, <1>10, ProvisioningStep DEF Next, Continue

\* The audit DP of a page is being provisioned by exactly one of its rows, or by none
\* (OneProvisioning).
THEOREM ProvisionedOnce == Spec => []OneProvisioning
<1>1. Init => OneProvisioning
  <2> SUFFICES ASSUME Init, NEW p \in Page PROVE Provisioners(p) = {} /\ prov[p] # "running"
    BY DEF OneProvisioning
  <2>1. \A o \in Op : op[o].pc = "idle"
    BY DEF Init, Idle
  <2> QED
    BY <2>1 DEF Init, Provisioners
<1> QED
  BY <1>1, NextProvisioning, TypeCorrect, PTL DEF Spec

-----------------------------------------------------------------------------
(* The audit trail.  The invariant follows an operation from the value it  *)
(* read to its row: which call fits which kind of operation, where the old *)
(* value it holds came from, that the row it is about to post is true, and *)
(* what becomes of each write it made.                                     *)

Tracing == {"trace", "exists", "newTrail", "post"}
Past    == Tracing \cup Ended

\* A row that tells of something that happened; RowsAreTrue says it of each row.
TrueRow(r) ==
  \E n \in Written(r.op, "json") :
    /\ log[n].id = r.id /\ log[n].new = r.new
    /\ r.kind = "session" \/ r.old = NoValue
         \/ \E m \in WritesOf(r.id, "json") : m <= n /\ log[m].old = r.old

Fits(o) ==
  /\ op[o].pc \in {"idle", "type", "newType", "names"} => op[o].kind = "list"
  /\ op[o].pc = "create" => op[o].kind = "create"
  /\ op[o].pc = "before" => op[o].kind \in {"save", "remove"}
  /\ op[o].pc \in {"name", "json"} => op[o].kind \in {"create", "save", "silent", "session"}
  /\ op[o].pc = "delete" => op[o].kind = "remove"
  /\ op[o].kind = "create" => op[o].old = NoValue
  /\ op[o].from <= Len(log)

\* The value is none, the stored one, or one that a write after from replaced.
SeenAt(i, old, from) ==
  old = NoValue \/ old = Json(i) \/ \E m \in WritesOf(i, "json") : m > from /\ log[m].old = old

Seen(o) ==
  op[o].pc \in {"name", "json", "delete"} /\ op[o].kind \in {"save", "remove"} =>
    SeenAt(op[o].id, op[o].old, op[o].from)

Told(o) == op[o].pc \in Tracing => TrueRow(RowOf(o))

\* What became of write n, when operation o made it.
Account(o, n) ==
  log[n].op = o /\ log[n].leaf = "json" =>
    /\ op[o].pc \in Past
    /\ log[n].id = op[o].id /\ log[n].new = RowOf(o).new
    /\ op[o].pc \in Tracing /\ op[o].kind \in {"create", "save", "remove"} =>
         Raced(o, n) \/ op[o].old \in {log[n].old, NoValue}
    /\ ChangedBy(n, {"create", "save", "remove"}) =>
         Raced(o, n) \/ \E r \in RowFor(n) : r.old \in {log[n].old, NoValue}

TrailInv ==
  /\ \A o \in Op : Fits(o) /\ Seen(o) /\ Told(o) /\ \A n \in DOMAIN log : Account(o, n)
  /\ \A r \in trail : TrueRow(r)

LEMMA TrailSuffices ==
  ASSUME TypeOK, TrailInv
  PROVE  RowsAreTrue /\ UntracedOnlyIfRaced
<1>1. RowsAreTrue
  BY DEF TrailInv, RowsAreTrue, TrueRow
<1>2. ASSUME NEW n \in DOMAIN log, ChangedBy(n, {"create", "save", "remove"}), ~Raced(log[n].op, n)
      PROVE  \E r \in RowFor(n) : r.old \in {log[n].old, NoValue}
  <2>1. log[n].op \in Op /\ log[n].leaf = "json"
    <3>1. log[n] \in Write
      BY <1>2 DEF TypeOK
    <3> QED
      BY <1>2, <3>1 DEF Write, ChangedBy
  <2> QED
    BY <1>2, <2>1 DEF TrailInv, Account
<1> QED
  BY <1>1, <1>2 DEF UntracedOnlyIfRaced

\* Rows and writes are only added; a value is replaced by a logged write.
Grown ==
  /\ Len(log) \in Nat /\ Len(log) <= Len(log')
  /\ DOMAIN log = 1 .. Len(log) /\ DOMAIN log' = 1 .. Len(log')
  /\ \A n \in DOMAIN log : log'[n] = log[n]
  /\ trail \subseteq trail'

JsonLogged ==
  \A i \in Id : Json(i)' = Json(i)
                  \/ \E m \in WritesOf(i, "json")' : m > Len(log) /\ log'[m].old = Json(i)

LEMMA WritesKept ==
  ASSUME Grown
  PROVE  \A i, leaf : /\ Written(i, leaf) \subseteq Written(i, leaf)'
                      /\ WritesOf(i, leaf) \subseteq WritesOf(i, leaf)'
  BY DEF Grown, Written, WritesOf

LEMMA TrueRowKept ==
  ASSUME Grown, NEW r, TrueRow(r)
  PROVE  TrueRow(r)'
<1>1. PICK n \in Written(r.op, "json") :
        /\ log[n].id = r.id /\ log[n].new = r.new
        /\ r.kind = "session" \/ r.old = NoValue
             \/ \E m \in WritesOf(r.id, "json") : m <= n /\ log[m].old = r.old
  BY DEF TrueRow
<1>2. n \in Written(r.op, "json")' /\ log'[n] = log[n]
  BY WritesKept DEF Written, Grown
<1>3. \A m \in WritesOf(r.id, "json") : m \in WritesOf(r.id, "json")' /\ log'[m] = log[m]
  BY WritesKept DEF WritesOf, Grown
<1> QED
  BY <1>1, <1>2, <1>3 DEF TrueRow

LEMMA SeenAtKept ==
  ASSUME Grown, JsonLogged, NEW i \in Id, NEW old, NEW from \in Nat, from <= Len(log),
         SeenAt(i, old, from)
  PROVE  SeenAt(i, old, from)'
<1>1. \A m \in WritesOf(i, "json") : m \in WritesOf(i, "json")' /\ log'[m] = log[m]
  BY WritesKept DEF WritesOf, Grown
<1>2. ASSUME NEW m \in WritesOf(i, "json")', m > Len(log), log'[m].old = Json(i), old = Json(i)
      PROVE  SeenAt(i, old, from)'
  <2>1. m > from
    BY <1>2 DEF Grown, WritesOf
  <2> QED
    BY <1>2, <2>1 DEF SeenAt
<1> QED
  BY <1>1, <1>2 DEF SeenAt, JsonLogged

LEMMA RacedKept ==
  ASSUME Grown, NEW o \in Op, NEW n \in DOMAIN log, Raced(o, n),
         op'[o].id = op[o].id, op'[o].from = op[o].from
  PROVE  Raced(o, n)'
<1>1. PICK k \in WritesOf(op[o].id, "json") : op[o].from < k /\ k < n
  BY DEF Raced
<1>2. k \in WritesOf(op[o].id, "json")'
  BY WritesKept DEF WritesOf, Grown
<1> QED
  BY <1>1, <1>2 DEF Raced, WritesOf

\* What the operations that do not move keep.
LEMMA OthersKeep ==
  ASSUME TypeOK, TrailInv, Grown, JsonLogged, NEW q \in Op, op'[q] = op[q]
  PROVE  /\ Fits(q)' /\ Seen(q)' /\ Told(q)'
         /\ \A n \in DOMAIN log : Account(q, n)'
<1>1. Fits(q)'
  <2>1. op[q].from <= Len(log')
    BY OpType DEF TrailInv, Fits, Grown
  <2> QED
    BY <2>1 DEF TrailInv, Fits
<1>2. Seen(q)'
  BY OpType, SeenAtKept DEF TrailInv, Seen, Fits
<1>3. Told(q)'
  BY TrueRowKept DEF TrailInv, Told, RowOf
<1>4. ASSUME NEW n \in DOMAIN log PROVE Account(q, n)'
  <2>1. Account(q, n) /\ log'[n] = log[n] /\ RowFor(n) \subseteq RowFor(n)'
    BY DEF TrailInv, Grown, RowFor
  <2>2. Raced(q, n) => Raced(q, n)'
    BY RacedKept
  <2>3. log[n].op = q /\ ChangedBy(n, {"create", "save", "remove"})' =>
          ChangedBy(n, {"create", "save", "remove"})
    BY <2>1 DEF ChangedBy
  <2> QED
    BY <2>1, <2>2, <2>3 DEF Account, RowOf
<1> QED
  BY <1>1, <1>2, <1>3, <1>4

\* The writes of an operation that has not changed its entity yet.
LEMMA NoWritesYet ==
  ASSUME TypeOK, TrailInv, NEW o \in Op, op[o].pc \notin Past, NEW n \in DOMAIN log
  PROVE  ~(log[n].op = o /\ log[n].leaf = "json")
  BY DEF TrailInv, Account

LEMMA QuietGrown ==
  ASSUME TypeOK, log' = log, \A i \in Id : Json(i)' = Json(i), trail \subseteq trail'
  PROVE  Grown /\ JsonLogged
<1>1. Len(log) \in Nat /\ DOMAIN log = 1 .. Len(log)
  BY DEF TypeOK
<1> QED
  BY <1>1 DEF Grown, JsonLogged

LEMMA AppendGrown ==
  ASSUME TypeOK, NEW o \in Op, NEW leaf \in {"name", "json"}, NEW old \in Leaf, NEW new \in Leaf,
         Logged(o, leaf, old, new), trail' = trail
  PROVE  /\ Grown /\ Len(log') = Len(log) + 1
         /\ log'[Len(log) + 1].op = o /\ log'[Len(log) + 1].leaf = leaf
         /\ log'[Len(log) + 1].id = op[o].id
         /\ log'[Len(log) + 1].old = old /\ log'[Len(log) + 1].new = new
<1> DEFINE e == [op |-> o, id |-> op[o].id, leaf |-> leaf, old |-> old, new |-> new]
<1>1. e \in Write /\ log \in Seq(Write) /\ log' = Append(log, e)
  BY OpType DEF TypeOK, Write, Logged
<1>2. e.op = o /\ e.id = op[o].id /\ e.leaf = leaf /\ e.old = old /\ e.new = new
  OBVIOUS
<1> HIDE DEF e
<1>3. /\ Len(log) \in Nat /\ DOMAIN log = 1 .. Len(log)
      /\ Len(log') = Len(log) + 1 /\ DOMAIN log' = 1 .. Len(log')
      /\ log'[Len(log) + 1] = e
      /\ \A n \in DOMAIN log : log'[n] = log[n]
  BY <1>1
<1> QED
  BY <1>2, <1>3 DEF Grown

\* A step that moves one operation.
LEMMA OneMoves ==
  ASSUME TypeOK, TrailInv, Grown, JsonLogged, NEW o \in Op,
         \A q \in Op \ {o} : op'[q] = op[q],
         \A n \in DOMAIN log' \ DOMAIN log : log'[n].op = o,
         Fits(o)', Seen(o)', Told(o)',
         \A n \in DOMAIN log' : Account(o, n)',
         \A r \in trail' : r \in trail \/ TrueRow(r)'
  PROVE  TrailInv'
<1>1. ASSUME NEW q \in Op
      PROVE  Fits(q)' /\ Seen(q)' /\ Told(q)' /\ \A n \in DOMAIN log' : Account(q, n)'
  <2>1. CASE q # o
    <3>1. Fits(q)' /\ Seen(q)' /\ Told(q)' /\ \A n \in DOMAIN log : Account(q, n)'
      BY <2>1, OthersKeep
    <3>2. \A n \in DOMAIN log' \ DOMAIN log : Account(q, n)'
      BY <2>1 DEF Account
    <3> QED
      BY <3>1, <3>2
  <2> QED
    BY <2>1
<1>2. \A r \in trail' : TrueRow(r)'
  BY TrueRowKept DEF TrailInv
<1> QED
  BY <1>1, <1>2 DEF TrailInv

\* A step of an operation that changed nothing so far, and does not now.
LEMMA BeforeItsWrite ==
  ASSUME TypeOK, TrailInv, NEW o \in Op, \A q \in Op \ {o} : op'[q] = op[q],
         log' = log, trail' = trail, \A i \in Id : Json(i)' = Json(i),
         op[o].pc \notin Past, op'[o].pc \notin Tracing, Fits(o)', Seen(o)'
  PROVE  TrailInv'
<1>1. Grown /\ JsonLogged
  BY QuietGrown
<1>2. Told(o)'
  BY DEF Told
<1>3. \A n \in DOMAIN log' : Account(o, n)'
  BY NoWritesYet DEF Account
<1> QED
  BY <1>1, <1>2, <1>3, OneMoves

\* The same, when the call goes on: it keeps what it read.
LEMMA GoesOn ==
  ASSUME TypeOK, TrailInv, NEW o \in Op, NEW pc \in Pcs \ Tracing, Go(o, pc),
         log' = log, trail' = trail, \A i \in Id : Json(i)' = Json(i),
         op[o].pc \notin Past,
         pc \in {"idle", "type", "newType", "names"} => op[o].kind = "list",
         pc \notin {"create", "before", "name", "json", "delete"}
  PROVE  TrailInv'
<1>1. /\ op'[o].pc = pc /\ op'[o].kind = op[o].kind /\ op'[o].old = op[o].old
      /\ op'[o].from = op[o].from /\ \A q \in Op \ {o} : op'[q] = op[q]
  BY GoIs
<1>2. Fits(o)' /\ Seen(o)'
  BY <1>1 DEF Fits, Seen, TrailInv
<1> QED
  BY <1>1, <1>2, BeforeItsWrite

LEMMA ListTrail ==
  ASSUME TypeOK, TrailInv, NEW o \in Op,
         LookUpType(o) \/ CreateType(o) \/ ListNames(o)
           \/ (Throws(o) /\ op[o].pc \in {"create", "name", "json", "delete"})
  PROVE  TrailInv'
<1> USE DEF server, page
<1>1. op[o].pc \notin Past /\ (op[o].pc \in {"type", "newType", "names"} => op[o].kind = "list")
  BY DEF LookUpType, CreateType, ListNames, At, Past, Tracing, Ended, TrailInv, Fits
<1>2. log' = log /\ trail' = trail /\ \A i \in Id : Json(i)' = Json(i)
  BY DEF LookUpType, CreateType, TypeAnswered, ListNames, GoOffline, Throws, Json
<1>3. \/ \E pc \in {"names", "newType", "done"} :
              Go(o, pc) /\ (pc = "done" \/ op[o].pc \in {"type", "newType", "names"})
      \/ Go(o, "threw")
  BY DEF LookUpType, CreateType, TypeAnswered, ListNames, GoOffline, Throws, At
<1> QED
  BY <1>1, <1>2, <1>3, GoesOn DEF Pcs, Ended, Tracing

LEMMA StartTrail ==
  ASSUME TypeOK, TrailInv, NEW o \in Op, Start(o)
  PROVE  TrailInv'
<1> USE DEF server, page
<1>1. PICK p \in Page, k \in Kinds, i \in Id, v \in Value, b \in Leaf :
        b \in Baseline(k) /\ op' = [op EXCEPT ![o] = Called(p, k, i, v, b, First(p, k))]
  BY DEF Start
<1> DEFINE c == Called(p, k, i, v, b, First(p, k))
<1>2. c \in OpRec /\ op \in [Op -> OpRec]
  BY CalledType DEF TypeOK
<1>3. c.pc = First(p, k) /\ c.kind = k /\ c.old = b /\ c.from = Len(log)
  BY DEF Called
<1> HIDE DEF c
<1>4. op'[o] = c /\ \A q \in Op \ {o} : op'[q] = op[q]
  BY <1>1, <1>2 DEF c
<1>5. log' = log /\ trail' = trail /\ op[o].pc \notin Past /\ \A j \in Id : Json(j)' = Json(j)
  BY DEF Start, At, Past, Tracing, Ended, Json
<1>6. \/ (First(p, k) \in {"names", "type"} /\ k = "list")
      \/ (First(p, k) = "create" /\ k = "create")
      \/ (First(p, k) = "before" /\ k \in {"save", "remove"})
      \/ (First(p, k) = "name" /\ k \in {"silent", "session"})
  BY DEF First, Kinds
<1>7. k = "create" => b = NoValue
  BY <1>1 DEF Baseline
<1>8. Fits(o)' /\ Seen(o)' /\ op'[o].pc \notin Tracing
  <2>1. Len(log) \in Nat
    BY DEF TypeOK
  <2> QED
    BY <1>3, <1>4, <1>5, <1>6, <1>7, <2>1 DEF Fits, Seen, Tracing
<1> QED
  BY <1>4, <1>5, <1>8, BeforeItsWrite

LEMMA ReadTrail ==
  ASSUME TypeOK, TrailInv, NEW o \in Op, ReadBefore(o)
  PROVE  TrailInv'
<1> USE DEF server, page
<1>1. PICK was \in {Json(op[o].id), NoValue} \cap Leaf :
        ReadIs(o, was, IF op[o].kind = "remove" THEN "delete" ELSE "name")
  BY ReadBeforeStep
<1>2. /\ log' = log /\ trail' = trail /\ stored' = stored /\ op[o].pc = "before"
      /\ \A i \in Id : Json(i)' = Json(i)
  BY DEF ReadBefore, At, Json
<1>3. op[o].kind \in {"save", "remove"} /\ Len(log) \in Nat /\ op[o].id \in Id
  BY <1>2, OpType DEF TrailInv, Fits, TypeOK
<1>4. Fits(o)'
  BY <1>1, <1>2, <1>3 DEF ReadIs, Fits
<1>5. Seen(o)'
  <2>1. op'[o].id = op[o].id /\ op'[o].old = was
    BY <1>1 DEF ReadIs
  <2>2. was = NoValue \/ was = Json(op[o].id)
    BY <1>1
  <2>3. Json(op[o].id)' = Json(op[o].id)
    BY <1>2, <2>1 DEF Json
  <2> QED
    BY <2>1, <2>2, <2>3 DEF Seen, SeenAt
<1>6. op'[o].pc \notin Tracing /\ \A q \in Op \ {o} : op'[q] = op[q]
  BY <1>1 DEF ReadIs, Tracing
<1> QED
  BY <1>2, <1>4, <1>5, <1>6, BeforeItsWrite DEF Past, Tracing, Ended

LEMMA CreateTrailInv ==
  ASSUME TypeOK, TrailInv, NEW o \in Op, CreateDp(o), ~Throws(o)
  PROVE  TrailInv'
<1> USE DEF server, page
<1>1. PICK pc \in {"name", "threw"} : op' = [op EXCEPT ![o].pc = pc, ![o].from = Len(log)]
  BY DEF CreateDp
<1>2. pc \in Pcs
  BY DEF Pcs, Ended
<1>3. /\ op'[o].pc = pc /\ op'[o].kind = op[o].kind /\ op'[o].old = op[o].old
      /\ op'[o].from = Len(log) /\ \A q \in Op \ {o} : op'[q] = op[q]
  BY <1>1, <1>2, CreateDpIs
<1>4. log' = log /\ trail' = trail /\ op[o].pc = "create" /\ op[o].kind = "create"
  BY DEF CreateDp, At, TrailInv, Fits
<1>5. \A i \in Id : Json(i)' = Json(i)
  <2>1. stored[op[o].id] = NoValue
        /\ stored' = [stored EXCEPT ![op[o].id] = [name |-> NoValue, json |-> NoValue]]
    BY DEF CreateDp, Throws
  <2>2. stored \in [Id -> {NoValue} \cup [name : Leaf, json : Leaf]]
    BY DEF TypeOK
  <2>3. ASSUME NEW i \in Id PROVE Json(i)' = Json(i)
    <3>1. CASE i = op[o].id
      BY <2>1, <2>2, <3>1 DEF Json
    <3>2. CASE i # op[o].id
      BY <2>1, <2>2, <3>2 DEF Json
    <3> QED
      BY <3>1, <3>2
  <2> QED
    BY <2>3
<1>6. Len(log) \in Nat
  BY DEF TypeOK
<1>7. Fits(o)' /\ Seen(o)' /\ op'[o].pc \notin Tracing
  BY <1>3, <1>4, <1>6 DEF Fits, Seen, Tracing, TrailInv
<1> QED
  BY <1>3, <1>4, <1>5, <1>7, BeforeItsWrite DEF Past, Tracing, Ended

LEMMA NameTrail ==
  ASSUME TypeOK, TrailInv, NEW o \in Op, SetName(o), ~Throws(o)
  PROVE  TrailInv'
<1> USE DEF server, page
<1>1. PICK pc \in {"json", "threw"} : Go(o, pc)
  BY DEF SetName
<1>2. /\ op[o].pc = "name" /\ trail' = trail /\ stored[op[o].id] # NoValue
      /\ stored' = [stored EXCEPT ![op[o].id].name = op[o].val]
      /\ Logged(o, "name", Name(op[o].id), op[o].val)
  BY DEF SetName, At
<1>3. /\ op'[o].pc = pc /\ op'[o].kind = op[o].kind /\ op'[o].id = op[o].id
      /\ op'[o].old = op[o].old /\ op'[o].from = op[o].from
      /\ \A q \in Op \ {o} : op'[q] = op[q]
  BY <1>1, GoIs DEF Pcs, Ended
<1>4. \A i \in Id : Json(i)' = Json(i)
  <2>1. stored \in [Id -> {NoValue} \cup [name : Leaf, json : Leaf]] /\ op[o].id \in Id
    BY OpType DEF TypeOK
  <2>2. stored[op[o].id] \in [name : Leaf, json : Leaf]
    BY <1>2, <2>1
  <2> DEFINE s == [stored[op[o].id] EXCEPT !.name = op[o].val]
  <2>3. s \in [name : Leaf, json : Leaf] /\ s.json = stored[op[o].id].json
    BY <2>2, OpType
  <2>4. stored' = [stored EXCEPT ![op[o].id] = s]
    BY <1>2
  <2> HIDE DEF s
  <2>5. s # NoValue
    BY <2>3, NoValueAssumption DEF Leaf
  <2>6. stored'[op[o].id] = s /\ \A i \in Id \ {op[o].id} : stored'[i] = stored[i]
    BY <2>1, <2>4
  <2> QED
    BY <1>2, <2>1, <2>3, <2>5, <2>6 DEF Json
<1>5. /\ Grown /\ Len(log') = Len(log) + 1
      /\ log'[Len(log) + 1].op = o /\ log'[Len(log) + 1].leaf = "name"
  <2>1. op[o].id \in Id /\ op[o].val \in Leaf
    BY OpType
  <2>2. PICK old \in Leaf : old = Name(op[o].id)
    BY <2>1, StoredType
  <2>3. PICK new \in Leaf : new = op[o].val
    BY <2>1
  <2>4. Logged(o, "name", old, new)
    BY <1>2, <2>2, <2>3
  <2> QED
    BY <1>2, <2>4, AppendGrown
<1>6. JsonLogged
  BY <1>4 DEF JsonLogged
<1>7. DOMAIN log' = DOMAIN log \cup {Len(log) + 1}
  BY <1>5 DEF Grown
<1>8. Fits(o)'
  <2>1. op[o].from <= Len(log')
    BY <1>5, OpType DEF TrailInv, Fits, Grown
  <2> QED
    BY <1>2, <1>3, <2>1 DEF TrailInv, Fits
<1>9. Seen(o)'
  <2>1. op[o].kind \in {"save", "remove"} => SeenAt(op[o].id, op[o].old, op[o].from)
    BY <1>2 DEF TrailInv, Seen
  <2>2. op[o].from <= Len(log)
    BY DEF TrailInv, Fits
  <2>3. PICK i \in Id, from \in Nat : i = op[o].id /\ from = op[o].from
    BY OpType
  <2>4. op[o].kind \in {"save", "remove"} => SeenAt(i, op[o].old, from)
    BY <2>1, <2>3
  <2>5. PICK old \in Leaf : old = op[o].old
    BY OpType
  <2>6. op[o].kind \in {"save", "remove"} => SeenAt(i, old, from)'
    BY <1>5, <1>6, <2>2, <2>3, <2>4, <2>5, SeenAtKept
  <2> QED
    BY <1>3, <2>3, <2>5, <2>6 DEF Seen
<1>10. \A n \in DOMAIN log' : Account(o, n)'
  <2>1. \A n \in DOMAIN log : Account(o, n)'
    BY <1>2, <1>5, NoWritesYet DEF Grown, Account, Past, Tracing, Ended
  <2>2. PICK m : m = Len(log) + 1
    OBVIOUS
  <2>3. Account(o, m)'
    BY <1>5, <2>2 DEF Account
  <2> QED
    BY <1>7, <2>1, <2>2, <2>3
<1>11. Told(o)'
  BY <1>3 DEF Told, Tracing
<1> QED
  BY <1>2, <1>3, <1>5, <1>6, <1>7, <1>8, <1>9, <1>10, <1>11, OneMoves

\* The write of an operation: the only step that makes it owe a row.
LEMMA JsonWrite ==
  ASSUME TypeOK, TrailInv, NEW o \in Op, NEW i \in Id, NEW old \in Leaf, NEW new \in Leaf,
         NEW pc \in {"trace", "done", "threw"},
         op[o].pc \in {"json", "delete"}, Go(o, pc), Logged(o, "json", old, new), trail' = trail,
         i = op[o].id, old = Json(i), new = RowOf(o).new,
         \A j \in Id \ {i} : Json(j)' = Json(j),
         pc = "trace" => op[o].kind # "silent",
         pc = "done" => \/ op[o].kind \in {"silent", "session"}
                        \/ op[o].kind = "save" /\ op[o].old = new /\ new # NoValue
  PROVE  TrailInv'
<1>1. /\ op'[o].pc = pc /\ op'[o].kind = op[o].kind /\ op'[o].id = i /\ op'[o].val = op[o].val
      /\ op'[o].old = op[o].old /\ op'[o].from = op[o].from
      /\ \A q \in Op \ {o} : op'[q] = op[q]
  BY GoIs DEF Pcs, Ended
<1>2. PICK m : m = Len(log) + 1
  OBVIOUS
<1>3. /\ Grown /\ Len(log) \in Nat /\ m \in DOMAIN log'
      /\ DOMAIN log' = DOMAIN log \cup {m} /\ \A n \in DOMAIN log : n < m
      /\ log'[m].op = o /\ log'[m].leaf = "json" /\ log'[m].id = i
      /\ log'[m].old = old /\ log'[m].new = new
  <2>1. /\ Grown /\ Len(log') = m
        /\ log'[m].op = o /\ log'[m].leaf = "json" /\ log'[m].id = i
        /\ log'[m].old = old /\ log'[m].new = new
    BY <1>2, AppendGrown
  <2> QED
    BY <1>2, <2>1 DEF Grown
<1>4. m \in Written(o, "json")' /\ m \in WritesOf(i, "json")'
  BY <1>3 DEF Written, WritesOf
<1>5. JsonLogged
  BY <1>2, <1>3, <1>4 DEF JsonLogged
<1>6. RowOf(o)' = RowOf(o) /\ RowOf(o).op = o /\ RowOf(o).id = i /\ RowOf(o).kind = op[o].kind
      /\ RowOf(o).old = op[o].old
  BY <1>1 DEF RowOf
<1>7. \/ op[o].kind \in {"silent", "session"} \/ op[o].old \in {old, NoValue}
      \/ \E k \in WritesOf(i, "json") : op[o].from < k /\ log[k].old = op[o].old
  <2>1. op[o].kind \in {"create", "save", "remove", "silent", "session"}
    BY DEF TrailInv, Fits
  <2>2. op[o].kind = "create" => op[o].old = NoValue
    BY DEF TrailInv, Fits
  <2>3. op[o].kind \in {"save", "remove"} => SeenAt(i, op[o].old, op[o].from)
    BY DEF TrailInv, Seen
  <2> QED
    BY <2>1, <2>2, <2>3, OpType DEF SeenAt
<1>8. \A k \in WritesOf(i, "json") : k \in WritesOf(i, "json")' /\ k < m /\ log'[k] = log[k]
  BY <1>3, WritesKept DEF WritesOf, Grown
<1>9. op[o].kind \in {"silent", "session"} \/ op[o].old \in {old, NoValue} \/ Raced(o, m)'
  BY <1>1, <1>7, <1>8 DEF Raced
<1>10. Fits(o)' /\ Seen(o)'
  <2>1. op[o].from <= Len(log')
    BY <1>3, OpType DEF TrailInv, Fits, Grown
  <2> QED
    BY <1>1, <2>1 DEF TrailInv, Fits, Seen
<1>11. Told(o)'
  <2> SUFFICES ASSUME pc = "trace" PROVE TrueRow(RowOf(o))'
    BY <1>1 DEF Told, Tracing
  <2>1. PICK r : r = RowOf(o)
    OBVIOUS
  <2>2. r.kind = "session" \/ r.old = NoValue
          \/ \E k \in WritesOf(i, "json")' : k <= m /\ log'[k].old = r.old
    <3>1. m <= m /\ \A k \in WritesOf(i, "json") : k <= m
      BY <1>2, <1>3, <1>8 DEF WritesOf, Grown
    <3> QED
      BY <1>3, <1>4, <1>6, <1>7, <1>8, <2>1, <3>1
  <2>3. r.op = o /\ r.id = i /\ r.new = new
    BY <1>6, <2>1
  <2>4. TrueRow(r)'
    BY <1>3, <1>4, <2>2, <2>3 DEF TrueRow
  <2> QED
    BY <1>6, <2>1, <2>4
<1>12. \A n \in DOMAIN log' : Account(o, n)'
  <2>1. \A n \in DOMAIN log : Account(o, n)'
    BY <1>3, NoWritesYet DEF Grown, Account, Past, Tracing, Ended
  <2>2. Account(o, m)'
    <3>1. op'[o].pc \in Past
      BY <1>1 DEF Past, Tracing, Ended
    <3>2. op'[o].pc \in Tracing /\ op'[o].kind \in {"create", "save", "remove"} =>
            Raced(o, m)' \/ op'[o].old \in {log'[m].old, NoValue}
      BY <1>1, <1>3, <1>9
    <3>3. ChangedBy(m, {"create", "save", "remove"})' => Raced(o, m)'
      BY <1>1, <1>3, <1>9 DEF ChangedBy
    <3> QED
      BY <1>1, <1>3, <1>6, <3>1, <3>2, <3>3 DEF Account
  <2> QED
    BY <1>3, <2>1, <2>2
<1> QED
  BY <1>1, <1>3, <1>5, <1>10, <1>11, <1>12, OneMoves

LEMMA WriteTrail ==
  ASSUME TypeOK, TrailInv, NEW o \in Op, SetJson(o) \/ DeleteDp(o), ~Throws(o)
  PROVE  TrailInv'
<1> USE DEF server, page
<1>1. PICK i \in Id : i = op[o].id
  BY OpType
<1>2. PICK old \in Leaf : old = Json(i)
  BY StoredType, OpType
<1>3. stored \in [Id -> {NoValue} \cup [name : Leaf, json : Leaf]]
  BY DEF TypeOK
<1>4. CASE SetJson(o)
  <2>1. /\ op[o].pc = "json" /\ trail' = trail /\ stored' = [stored EXCEPT ![i].json = op[o].val]
        /\ Logged(o, "json", old, op[o].val) /\ stored[i] # NoValue
    BY <1>1, <1>2, <1>4 DEF SetJson, At
  <2>2. PICK pc \in {IF Traced(o) THEN "trace" ELSE "done", "threw"} : Go(o, pc)
    BY <1>4 DEF SetJson
  <2>3. PICK new \in Leaf : new = op[o].val /\ new # NoValue
    BY OpType, NoValueAssumption
  <2>4. op[o].kind \in {"create", "save", "silent", "session"}
    BY <2>1 DEF TrailInv, Fits
  <2>5. new = RowOf(o).new
    BY <2>3, <2>4 DEF RowOf
  <2>6. \A j \in Id \ {i} : Json(j)' = Json(j)
    BY <1>3, <2>1 DEF Json
  <2>7. pc \in {"trace", "done", "threw"} /\ (pc = "trace" => op[o].kind # "silent")
        /\ (pc = "done" => \/ op[o].kind \in {"silent", "session"}
                           \/ op[o].kind = "save" /\ op[o].old = new /\ new # NoValue)
    BY <2>2, <2>3, <2>4 DEF Traced
  <2> QED
    BY <1>1, <1>2, <2>1, <2>2, <2>3, <2>5, <2>6, <2>7, JsonWrite
<1>5. CASE DeleteDp(o)
  <2>1. /\ op[o].pc = "delete" /\ trail' = trail /\ stored' = [stored EXCEPT ![i] = NoValue]
        /\ Logged(o, "json", old, NoValue)
    BY <1>1, <1>2, <1>5 DEF DeleteDp, At
  <2>2. PICK pc \in {"trace", "threw"} : Go(o, pc)
    BY <1>5 DEF DeleteDp
  <2>3. op[o].kind = "remove" /\ NoValue \in Leaf
    BY <2>1, OpType DEF TrailInv, Fits
  <2>4. NoValue = RowOf(o).new
    BY <2>3 DEF RowOf
  <2>5. \A j \in Id \ {i} : Json(j)' = Json(j)
    BY <1>3, <2>1 DEF Json
  <2> QED
    BY <1>1, <1>2, <2>1, <2>2, <2>3, <2>4, <2>5, JsonWrite
<1> QED
  BY <1>4, <1>5

\* The steps of a row: the operation keeps what it will tell.
LEMMA RowTrail ==
  ASSUME TypeOK, TrailInv, NEW o \in Op, Ensure(o) \/ TrailExists(o) \/ CreateTrail(o) \/ Post(o)
  PROVE  TrailInv'
<1> USE DEF server, page
<1>1. op[o].pc \in Tracing /\ stored' = stored /\ log' = log
  BY DEF Ensure, TrailExists, CreateTrail, Provisioned, Post, At, Tracing
<1>2. \/ trail' = trail /\ \E pc \in {"exists", "newTrail", "post", "lost"} : Go(o, pc)
      \/ trail' = trail \cup {RowOf(o)} /\ Go(o, "done")
  BY DEF Ensure, TrailExists, CreateTrail, Provisioned, Post
<1>3. PICK pc \in {"exists", "newTrail", "post", "lost", "done"} :
        /\ Go(o, pc)
        /\ trail' = trail \/ trail' = trail \cup {RowOf(o)}
        /\ pc = "done" => RowOf(o) \in trail'
  BY <1>2
<1>4. /\ op'[o].pc = pc /\ op'[o].kind = op[o].kind /\ op'[o].id = op[o].id /\ op'[o].val = op[o].val
      /\ op'[o].old = op[o].old /\ op'[o].from = op[o].from
      /\ \A q \in Op \ {o} : op'[q] = op[q]
  BY <1>3, GoIs DEF Pcs, Ended
<1>5. Grown /\ JsonLogged
  BY <1>1, <1>3, QuietGrown DEF Json
<1>6. PICK r : r = RowOf(o)
  OBVIOUS
<1>7. TrueRow(r)' /\ RowOf(o)' = r
  <2>1. TrueRow(r)
    BY <1>1, <1>6 DEF TrailInv, Told
  <2> QED
    BY <1>4, <1>5, <1>6, <2>1, TrueRowKept DEF RowOf
<1>8. Fits(o)' /\ Seen(o)' /\ Told(o)'
  <2>1. Fits(o)' /\ Seen(o)'
    BY <1>1, <1>4 DEF TrailInv, Fits, Seen
  <2>2. TrueRow(RowOf(o))'
    BY <1>7
  <2> QED
    BY <2>1, <2>2 DEF Told
<1>9. ASSUME NEW n \in DOMAIN log PROVE Account(o, n)'
  <2> SUFFICES ASSUME log[n].op = o, log[n].leaf = "json" PROVE Account(o, n)'
    BY <1>1 DEF Account
  <2>1. /\ log[n].id = op[o].id /\ log[n].new = r.new
        /\ op[o].kind \in {"create", "save", "remove"} =>
             Raced(o, n) \/ op[o].old \in {log[n].old, NoValue}
    BY <1>1, <1>6 DEF TrailInv, Account
  <2>2. Raced(o, n) => Raced(o, n)'
    BY <1>4, <1>5, RacedKept
  <2>3. pc = "done" => r \in RowFor(n)'
    BY <1>1, <1>3, <1>6, <2>1 DEF RowFor, RowOf
  <2>4. r.old = op[o].old
    BY <1>6 DEF RowOf
  <2>5. op'[o].pc \in Past
    BY <1>4 DEF Past, Tracing, Ended
  <2>6. ChangedBy(n, {"create", "save", "remove"})' =>
          Raced(o, n)' \/ \E x \in RowFor(n)' : x.old \in {log'[n].old, NoValue}
    BY <1>1, <1>4, <2>1, <2>2, <2>3, <2>4 DEF ChangedBy
  <2> QED
    BY <1>1, <1>4, <1>7, <2>1, <2>2, <2>5, <2>6 DEF Account
<1>10. \A x \in trail' : x \in trail \/ TrueRow(x)'
  BY <1>3, <1>6, <1>7
<1> QED
  BY <1>1, <1>4, <1>5, <1>8, <1>9, <1>10, OneMoves

LEMMA InitTrail == Init => TrailInv
<1> SUFFICES ASSUME Init PROVE TrailInv
  OBVIOUS
<1>1. trail = {} /\ log = <<>> /\ DOMAIN log = {} /\ Len(log) = 0
  BY DEF Init
<1>2. ASSUME NEW o \in Op PROVE Fits(o) /\ Seen(o) /\ Told(o)
  <2>1. op[o].pc = "idle" /\ op[o].kind = "list" /\ op[o].from = 0
    BY DEF Init, Idle
  <2> QED
    BY <1>1, <2>1 DEF Fits, Seen, Told, Tracing
<1> QED
  BY <1>1, <1>2 DEF TrailInv

LEMMA NextTrail ==
  ASSUME TypeOK, TrailInv, [Next]_vars
  PROVE  TrailInv'
<1>1. ASSUME UNCHANGED <<stored, trail, log, op>> PROVE TrailInv'
  <2>1. /\ \A o \in Op : Fits(o)' = Fits(o) /\ Seen(o)' = Seen(o) /\ Told(o)' = Told(o)
        /\ \A o \in Op, n \in DOMAIN log : Account(o, n)' = Account(o, n)
        /\ \A r : TrueRow(r)' = TrueRow(r)
    BY <1>1 DEF Fits, Seen, SeenAt, Told, Account, TrueRow, Written, WritesOf, Json, RowOf, Raced,
                ChangedBy, RowFor
  <2> QED
    BY <1>1, <2>1 DEF TrailInv
<1>2. ASSUME NEW p \in Page, OfflineCall(p) PROVE TrailInv'
  BY <1>1, <1>2 DEF OfflineCall, server
<1>3. ASSUME NEW o \in Op, Continue(o) PROVE TrailInv'
  <2>1. CASE LookUpType(o) \/ CreateType(o) \/ ListNames(o)
    BY <2>1, ListTrail
  <2>2. CASE CreateDp(o)
    BY <2>2, CreateTrailInv, ListTrail DEF CreateDp, At
  <2>3. CASE SetName(o)
    BY <2>3, NameTrail, ListTrail DEF SetName, At
  <2>4. CASE SetJson(o) \/ DeleteDp(o)
    BY <2>4, WriteTrail, ListTrail DEF SetJson, DeleteDp, At
  <2> QED
    BY <1>3, <2>1, <2>2, <2>3, <2>4, ReadTrail, RowTrail DEF Continue
<1> QED
  BY <1>1, <1>2, <1>3, StartTrail DEF Next, vars, server

\* A row of the audit trail tells of something that happened (RowsAreTrue).
THEOREM TrailIsTrue == Spec => []RowsAreTrue
<1> QED
  BY InitTrail, NextTrail, TrailSuffices, TypeCorrect, PTL DEF Spec

\* A change whose calls were all answered is in the trail, unless it was raced
\* (UntracedOnlyIfRaced).
THEOREM TrailIsComplete == Spec => []UntracedOnlyIfRaced
<1> QED
  BY InitTrail, NextTrail, TrailSuffices, TypeCorrect, PTL DEF Spec
-----------------------------------------------------------------------------
(* The two leaves of an entity.  An operation about to write the second    *)
(* leaf of one whose first leaf is no longer its own shares it with an     *)
(* operation that is half way, or wrote its second leaf after this one's   *)
(* first: when this one writes, the two have overlapped.                   *)

\* Operation q wrote its second leaf after o wrote its first.
WroteSince(q, o) ==
  /\ Written(q, "json") # {}
  /\ \A n \in Written(o, "name"), m \in Written(q, "json") : n < m

Apart(o) ==
  op[o].pc = "json" =>
    \/ Name(op[o].id) = op[o].val
    \/ \E q \in Op \ {o} : op[q].id = op[o].id /\ (Half(q) \/ WroteSince(q, o))

\* What TornOnlyByOverlap says of entity i.
Explained(i) ==
  Name(i) # Json(i) =>
    \/ \E o \in Op : op[o].id = i /\ Half(o)
    \/ \E o1, o2 \in Op : op[o1].id = i /\ op[o2].id = i /\ Overlapped(o1, o2)

TornInv ==
  /\ \A o \in Op : Apart(o)
  /\ \A i \in Id : Explained(i)

\* A second leaf is written once, by an operation that goes on to end.
LEMMA HasWritten ==
  ASSUME TypeOK, TrailInv, NEW o \in Op, Written(o, "json") # {}
  PROVE  op[o].pc \in Past
<1>1. PICK n \in DOMAIN log : log[n].op = o /\ log[n].leaf = "json"
  BY DEF Written
<1> QED
  BY <1>1 DEF TrailInv, Account

\* A step that writes neither leaf: its operation ends here when it was to write
\* the second one, and no other gets there.
LEMMA QuietTorn ==
  ASSUME TypeOK, TrailInv, TornInv, NEW o \in Op, \A q \in Op \ {o} : op'[q] = op[q],
         log' = log, \A i \in Id : Json(i)' = Json(i) /\ Name(i)' = Name(i),
         op[o].pc = "json" => op'[o].pc = "threw", op[o].pc # "threw", op'[o].pc # "json",
         op[o].pc \in Past \cup {"json"} => op'[o].id = op[o].id
  PROVE  TornInv'
<1>1. \A q, leaf : Written(q, leaf)' = Written(q, leaf)
  BY DEF Written
<1>2. ASSUME NEW q \in Op, Half(q)
      PROVE  Half(q)' /\ op'[q].id = op[q].id
  BY <1>1, <1>2 DEF Half
<1>3. ASSUME NEW q \in Op, Written(q, "json") # {}
      PROVE  op'[q].id = op[q].id
  BY <1>3, HasWritten
<1>4. \A q1, q2 : /\ WroteSince(q1, q2)' = WroteSince(q1, q2)
                  /\ Overlapped(q1, q2)' = Overlapped(q1, q2)
  BY <1>1 DEF WroteSince, Overlapped
<1>5. ASSUME NEW q \in Op
      PROVE  Apart(q)'
  <2> SUFFICES ASSUME op'[q].pc = "json" PROVE Apart(q)'
    BY DEF Apart
  <2>1. q # o /\ op'[q] = op[q]
    OBVIOUS
  <2>2. PICK i \in Id : i = op[q].id /\ i = op'[q].id
    BY <2>1, OpType
  <2>3. Name(op[q].id)' = Name(op[q].id)
    BY <2>2 DEF Name
  <2> QED
    BY <1>2, <1>3, <1>4, <2>1, <2>3 DEF TornInv, Apart, WroteSince
<1>6. ASSUME NEW i \in Id
      PROVE  Explained(i)'
  <2>1. \A o1, o2 : Overlapped(o1, o2) => Written(o1, "json") # {} /\ Written(o2, "json") # {}
    BY DEF Overlapped
  <2> QED
    BY <1>2, <1>3, <1>4, <2>1 DEF TornInv, Explained
<1> QED
  BY <1>5, <1>6 DEF TornInv

\* What one more write is to the writes of each operation.
LEMMA OneWritten ==
  ASSUME Grown, NEW o, NEW leaf, Len(log') = Len(log) + 1,
         log'[Len(log) + 1].op = o, log'[Len(log) + 1].leaf = leaf
  PROVE  /\ \A q, l : (q # o \/ l # leaf) => Written(q, l)' = Written(q, l)
         /\ Written(o, leaf)' = Written(o, leaf) \cup {Len(log) + 1}
         /\ \A q, l : \A n \in Written(q, l) : n < Len(log) + 1
<1>1. DOMAIN log' = DOMAIN log \cup {Len(log) + 1}
  BY DEF Grown
<1>2. \A n \in DOMAIN log : n < Len(log) + 1 /\ log'[n] = log[n]
  BY DEF Grown
<1> QED
  BY <1>1, <1>2 DEF Written

\* The entities the write is not about, and the operations that are about to write
\* the second leaf of one of those.
LEMMA OthersApart ==
  ASSUME TypeOK, TrailInv, TornInv, NEW o \in Op, NEW i \in Id, i = op[o].id,
         \A q \in Op \ {o} : op'[q] = op[q], op'[o].id = i,
         \A q \in Op \ {o}, l \in {"name", "json"} : Written(q, l)' = Written(q, l),
         \A j \in Id \ {i} : Json(j)' = Json(j) /\ Name(j)' = Name(j)
  PROVE  /\ \A j \in Id \ {i} : Explained(j)'
         /\ \A q \in Op : op[q].id # i => Apart(q)'
<1>1. ASSUME NEW q \in Op \ {o}
      PROVE  Half(q)' = Half(q)
  BY <1>1 DEF Half
<1>2. ASSUME NEW q1 \in Op \ {o}, NEW q2 \in Op \ {o}
      PROVE  /\ WroteSince(q1, q2)' = WroteSince(q1, q2)
             /\ Overlapped(q1, q2)' = Overlapped(q1, q2)
  BY <1>2 DEF WroteSince, Overlapped
<1>3. ASSUME NEW j \in Id \ {i}
      PROVE  Explained(j)'
  <2> SUFFICES ASSUME Name(j)' # Json(j)' PROVE Explained(j)'
    BY DEF Explained
  <2>1. Name(j) # Json(j)
    OBVIOUS
  <2>2. CASE \E q \in Op : op[q].id = j /\ Half(q)
    BY <1>1, <2>2 DEF Explained
  <2>3. CASE \E o1, o2 \in Op : op[o1].id = j /\ op[o2].id = j /\ Overlapped(o1, o2)
    BY <1>2, <2>3 DEF Explained
  <2> QED
    BY <2>1, <2>2, <2>3 DEF TornInv, Explained
<1>4. ASSUME NEW q \in Op, op[q].id # i
      PROVE  Apart(q)'
  <2> SUFFICES ASSUME op'[q].pc = "json" PROVE Apart(q)'
    BY DEF Apart
  <2>1. q # o /\ op'[q] = op[q] /\ op[q].id \in Id \ {i}
    BY <1>4, OpType
  <2>2. Name(op[q].id)' = Name(op[q].id)
    <3>1. PICK j \in Id \ {i} : j = op[q].id /\ j = op'[q].id
      BY <2>1
    <3>2. Name(op[q].id)' = Name(j)' /\ Name(op[q].id) = Name(j)
      BY <3>1 DEF Name
    <3> QED
      BY <3>2
  <2>3. CASE Name(op[q].id) = op[q].val
    BY <2>1, <2>2, <2>3 DEF Apart
  <2>4. ASSUME NEW p \in Op \ {q}, op[p].id = op[q].id, Half(p) \/ WroteSince(p, q)
        PROVE  Apart(q)'
    <3>1. p # o /\ op'[p].id = op'[q].id
      BY <1>4, <2>1, <2>4
    <3>2. Half(p)' \/ WroteSince(p, q)'
      BY <1>1, <1>2, <2>1, <2>4, <3>1
    <3> QED
      BY <3>1, <3>2 DEF Apart
  <2> QED
    BY <2>1, <2>3, <2>4 DEF TornInv, Apart
<1> QED
  BY <1>3, <1>4

\* What a write of a leaf makes of the entities.
LEMMA LeafWritten ==
  ASSUME TypeOK, NEW i \in Id, NEW v \in Leaf, stored[i] # NoValue
  PROVE  /\ stored' = [stored EXCEPT ![i].name = v] =>
              /\ Name(i)' = v /\ Json(i)' = Json(i)
              /\ \A j \in Id \ {i} : Json(j)' = Json(j) /\ Name(j)' = Name(j)
         /\ stored' = [stored EXCEPT ![i].json = v] =>
              /\ Json(i)' = v /\ Name(i)' = Name(i)
              /\ \A j \in Id \ {i} : Json(j)' = Json(j) /\ Name(j)' = Name(j)
<1>1. stored \in [Id -> {NoValue} \cup [name : Leaf, json : Leaf]]
  BY DEF TypeOK
<1>2. stored[i] \in [name : Leaf, json : Leaf]
  BY <1>1
<1> DEFINE s1 == [stored[i] EXCEPT !.name = v]
           s2 == [stored[i] EXCEPT !.json = v]
<1>3. /\ s1 \in [name : Leaf, json : Leaf] /\ s1.name = v /\ s1.json = stored[i].json
      /\ s2 \in [name : Leaf, json : Leaf] /\ s2.json = v /\ s2.name = stored[i].name
  BY <1>2
<1>4. /\ [stored EXCEPT ![i].name = v] = [stored EXCEPT ![i] = s1]
      /\ [stored EXCEPT ![i].json = v] = [stored EXCEPT ![i] = s2]
  OBVIOUS
<1> HIDE DEF s1, s2
<1>5. s1 # NoValue /\ s2 # NoValue
  BY <1>3, NoValueAssumption DEF Leaf
<1>6. ASSUME NEW s, stored' = [stored EXCEPT ![i] = s]
      PROVE  stored'[i] = s /\ \A j \in Id \ {i} : stored'[j] = stored[j]
  BY <1>1, <1>6
<1>7. ASSUME NEW s, stored' = [stored EXCEPT ![i] = s]
      PROVE  \A j \in Id \ {i} : Json(j)' = Json(j) /\ Name(j)' = Name(j)
  BY <1>6, <1>7 DEF Json, Name
<1>8. ASSUME stored' = [stored EXCEPT ![i] = s1]
      PROVE  Name(i)' = v /\ Json(i)' = Json(i)
  BY <1>3, <1>5, <1>6, <1>8 DEF Json, Name
<1>9. ASSUME stored' = [stored EXCEPT ![i] = s2]
      PROVE  Json(i)' = v /\ Name(i)' = Name(i)
  BY <1>3, <1>5, <1>6, <1>9 DEF Json, Name
<1> QED
  BY <1>4, <1>7, <1>8, <1>9

\* The first leaf: the operation is half way.
LEMMA NameTorn ==
  ASSUME TypeOK, TrailInv, TornInv, NEW o \in Op, SetName(o), ~Throws(o)
  PROVE  TornInv'
<1> USE DEF server, page
<1>1. PICK pc \in {"json", "threw"} : Go(o, pc)
  BY DEF SetName
<1>2. PICK i \in Id, v \in Value : i = op[o].id /\ v = op[o].val
  BY OpType
<1>3. /\ op[o].pc = "name" /\ trail' = trail /\ stored[i] # NoValue
      /\ stored' = [stored EXCEPT ![i].name = v]
      /\ Logged(o, "name", Name(i), v)
  BY <1>2 DEF SetName, At
<1>4. /\ op'[o].pc = pc /\ op'[o].id = i /\ op'[o].val = v
      /\ \A q \in Op \ {o} : op'[q] = op[q]
  BY <1>1, <1>2, GoIs DEF Pcs, Ended
<1>5. v \in Leaf /\ Name(i) \in Leaf
  BY StoredType DEF Leaf
<1>6. /\ Name(i)' = v /\ Json(i)' = Json(i)
      /\ \A j \in Id \ {i} : Json(j)' = Json(j) /\ Name(j)' = Name(j)
  BY <1>3, <1>5, LeafWritten
<1>7. PICK old \in Leaf : old = Name(i)
  BY <1>5
<1>8. /\ Grown /\ Len(log') = Len(log) + 1
      /\ log'[Len(log) + 1].op = o /\ log'[Len(log) + 1].leaf = "name"
  BY <1>3, <1>5, <1>7, AppendGrown
<1>9. /\ \A q, l : (q # o \/ l # "name") => Written(q, l)' = Written(q, l)
      /\ Written(o, "name")' = Written(o, "name") \cup {Len(log) + 1}
  BY <1>8, OneWritten
<1>10. Written(o, "json") = {}
  BY <1>3, HasWritten DEF Past, Tracing, Ended
<1>11. Half(o)'
  BY <1>4, <1>9, <1>10 DEF Half
<1>12. /\ \A j \in Id \ {i} : Explained(j)'
       /\ \A q \in Op : op[q].id # i => Apart(q)'
  BY <1>2, <1>4, <1>6, <1>9, OthersApart
<1>13. Explained(i)'
  BY <1>4, <1>11 DEF Explained
<1>14. ASSUME NEW q \in Op, op[q].id = i
       PROVE  Apart(q)'
  <2>1. CASE q = o
    <3>1. Name(op[o].id)' = Name(i)'
      BY <1>4 DEF Name
    <3> QED
      BY <1>4, <1>6, <2>1, <3>1 DEF Apart
  <2>2. CASE q # o
    BY <1>4, <1>11, <1>14, <2>2 DEF Apart
  <2> QED
    BY <2>1, <2>2
<1> QED
  BY <1>12, <1>13, <1>14 DEF TornInv

\* The second leaf, or the deletion, which takes both.
LEMMA JsonTorn ==
  ASSUME TypeOK, TrailInv, TornInv, NEW o \in Op, SetJson(o) \/ DeleteDp(o), ~Throws(o)
  PROVE  TornInv'
<1> USE DEF server, page
<1>1. PICK i \in Id, v \in Value : i = op[o].id /\ v = op[o].val
  BY OpType
<1>2. PICK old \in Leaf : old = Json(i)
  BY StoredType, OpType
<1>3. PICK pc \in Past : Go(o, pc)
  BY DEF SetJson, DeleteDp, Past, Tracing, Ended
<1>4. /\ op'[o].pc = pc /\ op'[o].id = i
      /\ \A q \in Op \ {o} : op'[q] = op[q]
  BY <1>1, <1>3, GoIs DEF Pcs, Past, Tracing, Ended
<1>5. /\ trail' = trail /\ op[o].pc \in {"json", "delete"}
      /\ \E new \in Leaf : Logged(o, "json", old, new)
  BY <1>1, <1>2 DEF SetJson, DeleteDp, At, Leaf
<1>6. /\ Grown /\ Len(log') = Len(log) + 1
      /\ log'[Len(log) + 1].op = o /\ log'[Len(log) + 1].leaf = "json"
  BY <1>5, AppendGrown
<1>7. Written(o, "json") = {}
  BY <1>5, HasWritten DEF Past, Tracing, Ended
<1>8. /\ \A q, l : (q # o \/ l # "json") => Written(q, l)' = Written(q, l)
      /\ Written(o, "json")' = {Len(log) + 1}
      /\ \A q, l : \A n \in Written(q, l) : n < Len(log) + 1
  BY <1>6, <1>7, OneWritten
<1>9. \A j \in Id \ {i} : Json(j)' = Json(j) /\ Name(j)' = Name(j)
  <2>1. CASE SetJson(o)
    BY <1>1, <2>1, LeafWritten DEF SetJson, Leaf
  <2>2. CASE DeleteDp(o)
    <3>1. stored' = [stored EXCEPT ![i] = NoValue]
      BY <1>1, <2>2 DEF DeleteDp
    <3>2. \A j \in Id \ {i} : stored'[j] = stored[j]
      BY <3>1 DEF TypeOK
    <3> QED
      BY <3>2 DEF Json, Name
  <2> QED
    BY <2>1, <2>2
<1>10. /\ \A j \in Id \ {i} : Explained(j)'
       /\ \A q \in Op : op[q].id # i => Apart(q)'
  BY <1>1, <1>4, <1>8, <1>9, OthersApart
<1>11. ASSUME NEW q \in Op, op[q].id = i
       PROVE  Apart(q)'
  <2>1. CASE q = o
    BY <1>4, <2>1 DEF Apart, Past, Tracing, Ended
  <2>2. CASE q # o
    <3>1. WroteSince(o, q)'
      BY <1>8, <2>2 DEF WroteSince
    <3> QED
      BY <1>4, <1>11, <2>2, <3>1 DEF Apart
  <2> QED
    BY <2>1, <2>2
<1>12. CASE DeleteDp(o)
  <2>1. stored' = [stored EXCEPT ![i] = NoValue]
    BY <1>1, <1>12 DEF DeleteDp
  <2>2. stored'[i] = NoValue
    BY <2>1 DEF TypeOK
  <2>3. Explained(i)'
    BY <2>2 DEF Explained, Name, Json
  <2> QED
    BY <1>10, <1>11, <2>3 DEF TornInv
<1>13. CASE SetJson(o)
  <2>1. op[o].pc = "json" /\ Json(i)' = v /\ Name(i)' = Name(i)
    BY <1>1, <1>13, LeafWritten DEF SetJson, At, Leaf
  <2>2. ASSUME Name(i) = v
        PROVE  Explained(i)'
    BY <2>1, <2>2 DEF Explained
  <2>3. ASSUME NEW q \in Op \ {o}, op[q].id = i, Half(q)
        PROVE  Explained(i)'
    <3>1. Half(q)' /\ op'[q].id = i
      BY <1>4, <1>8, <2>3 DEF Half
    <3> QED
      BY <3>1 DEF Explained
  <2>4. ASSUME NEW q \in Op \ {o}, op[q].id = i, WroteSince(q, o)
        PROVE  Explained(i)'
    <3>1. Overlapped(o, q)'
      BY <1>8, <2>4 DEF WroteSince, Overlapped
    <3>2. op'[q].id = i
      BY <1>4, <2>4
    <3> QED
      BY <1>4, <3>1, <3>2 DEF Explained
  <2>5. Explained(i)'
    BY <1>1, <2>1, <2>2, <2>3, <2>4 DEF TornInv, Apart
  <2> QED
    BY <1>10, <1>11, <2>5 DEF TornInv
<1> QED
  BY <1>12, <1>13

LEMMA InitTorn == Init => TornInv
<1> SUFFICES ASSUME Init PROVE TornInv
  OBVIOUS
<1>1. ASSUME NEW o \in Op PROVE Apart(o)
  BY DEF Init, Idle, Apart
<1>2. ASSUME NEW i \in Id PROVE Name(i) = Json(i)
  <2>1. stored[i] = NoValue \/ \E v \in Value : stored[i] = [name |-> v, json |-> v]
    BY DEF Init
  <2>2. ASSUME NEW v, stored[i] = [name |-> v, json |-> v]
        PROVE  stored[i].name = stored[i].json
    BY <2>2
  <2> QED
    BY <2>1, <2>2 DEF Name, Json
<1> QED
  BY <1>1, <1>2 DEF TornInv, Explained

LEMMA NextTorn ==
  ASSUME TypeOK, TrailInv, TornInv, [Next]_vars
  PROVE  TornInv'
<1> USE DEF server, page
<1>1. ASSUME UNCHANGED <<stored, log, op>> PROVE TornInv'
  <2>1. /\ \A q, leaf : Written(q, leaf)' = Written(q, leaf)
        /\ \A i : Name(i)' = Name(i) /\ Json(i)' = Json(i)
    BY <1>1 DEF Written, Name, Json
  <2>2. \A q : Half(q)' = Half(q)
    BY <1>1, <2>1 DEF Half
  <2>3. \A q, p : Overlapped(q, p)' = Overlapped(q, p) /\ WroteSince(q, p)' = WroteSince(q, p)
    BY <2>1 DEF Overlapped, WroteSince
  <2>4. \A q : Name(op[q].id)' = Name(op[q].id)
    BY <1>1 DEF Name
  <2>5. \A q \in Op : Apart(q)'
    BY <1>1, <2>2, <2>3, <2>4 DEF TornInv, Apart
  <2>6. \A i \in Id : Explained(i)'
    BY <1>1, <2>1, <2>2, <2>3 DEF TornInv, Explained
  <2> QED
    BY <2>5, <2>6 DEF TornInv
<1>2. ASSUME NEW p \in Page, OfflineCall(p) PROVE TornInv'
  BY <1>1, <1>2 DEF OfflineCall
<1>3. ASSUME NEW o \in Op, NEW pc \in Pcs \ {"json"}, Go(o, pc), log' = log, stored' = stored,
             op[o].pc = "json" => pc = "threw", op[o].pc # "threw"
      PROVE  TornInv'
  <2>1. op'[o].pc = pc /\ op'[o].id = op[o].id /\ \A q \in Op \ {o} : op'[q] = op[q]
    BY <1>3, GoIs
  <2>2. \A i \in Id : Json(i)' = Json(i) /\ Name(i)' = Name(i)
    BY <1>3 DEF Json, Name
  <2> QED
    BY <1>3, <2>1, <2>2, QuietTorn
<1>4. ASSUME NEW o \in Op, Throws(o), op[o].pc # "threw" PROVE TornInv'
  BY <1>3, <1>4 DEF Throws, Pcs, Ended
<1>5. ASSUME NEW o \in Op, LookUpType(o) \/ CreateType(o) \/ ListNames(o) PROVE TornInv'
  <2>1. \E pc \in {"names", "newType", "done"} : Go(o, pc)
    BY <1>5 DEF LookUpType, CreateType, TypeAnswered, ListNames, GoOffline
  <2>2. log' = log /\ stored' = stored /\ op[o].pc \in {"type", "newType", "names"}
    BY <1>5 DEF LookUpType, CreateType, TypeAnswered, ListNames, GoOffline, At
  <2> QED
    BY <1>3, <2>1, <2>2 DEF Pcs, Ended
<1>6. ASSUME NEW o \in Op, Ensure(o) \/ TrailExists(o) \/ CreateTrail(o) \/ Post(o) PROVE TornInv'
  <2>1. \E pc \in {"exists", "newTrail", "post", "lost", "done"} : Go(o, pc)
    BY <1>6 DEF Ensure, TrailExists, CreateTrail, Provisioned, Post
  <2>2. log' = log /\ stored' = stored /\ op[o].pc \in {"trace", "exists", "newTrail", "post"}
    BY <1>6 DEF Ensure, TrailExists, CreateTrail, Provisioned, Post, At
  <2> QED
    BY <1>3, <2>1, <2>2 DEF Pcs, Ended
<1>7. ASSUME NEW o \in Op, ReadBefore(o) PROVE TornInv'
  <2>1. PICK was \in {Json(op[o].id), NoValue} \cap Leaf :
          ReadIs(o, was, IF op[o].kind = "remove" THEN "delete" ELSE "name")
    BY <1>7, ReadBeforeStep
  <2>2. log' = log /\ op[o].pc = "before" /\ \A i \in Id : Json(i)' = Json(i) /\ Name(i)' = Name(i)
    BY <1>7 DEF ReadBefore, At, Json, Name
  <2> QED
    BY <2>1, <2>2, QuietTorn DEF ReadIs, Past, Tracing, Ended
<1>8. ASSUME NEW o \in Op, CreateDp(o), ~Throws(o) PROVE TornInv'
  <2>1. PICK pc \in {"name", "threw"} : op' = [op EXCEPT ![o].pc = pc, ![o].from = Len(log)]
    BY <1>8 DEF CreateDp
  <2>2. op'[o].pc = pc /\ \A q \in Op \ {o} : op'[q] = op[q]
    BY <2>1, CreateDpIs DEF Pcs, Ended
  <2>3. PICK i \in Id : i = op[o].id
    BY OpType
  <2>4. /\ stored[i] = NoValue /\ log' = log /\ op[o].pc = "create"
        /\ stored' = [stored EXCEPT ![i] = [name |-> NoValue, json |-> NoValue]]
    BY <1>8, <2>3 DEF CreateDp, At
  <2>5. /\ stored'[i] = [name |-> NoValue, json |-> NoValue]
        /\ \A j \in Id \ {i} : stored'[j] = stored[j]
    BY <2>4 DEF TypeOK
  <2>6. \A j \in Id : Json(j)' = Json(j) /\ Name(j)' = Name(j)
    BY <2>4, <2>5 DEF Json, Name
  <2> QED
    BY <2>2, <2>4, <2>6, QuietTorn DEF Past, Tracing, Ended
<1>9. ASSUME NEW o \in Op, Start(o) PROVE TornInv'
  <2>1. PICK p \in Page, k \in Kinds, i \in Id, v \in Value, b \in Leaf :
          op' = [op EXCEPT ![o] = Called(p, k, i, v, b, First(p, k))]
    BY <1>9 DEF Start
  <2>2. PICK c \in OpRec : c = Called(p, k, i, v, b, First(p, k))
    BY CalledType
  <2>3. op'[o] = c /\ \A q \in Op \ {o} : op'[q] = op[q]
    BY <2>1, <2>2 DEF TypeOK
  <2>4. c.pc # "json"
    BY <2>2 DEF Called, First, Kinds
  <2>5. log' = log /\ op[o].pc = "idle" /\ \A j \in Id : Json(j)' = Json(j) /\ Name(j)' = Name(j)
    BY <1>9 DEF Start, At, Json, Name
  <2> QED
    BY <2>3, <2>4, <2>5, QuietTorn DEF Past, Tracing, Ended
<1>10. ASSUME NEW o \in Op, Continue(o) PROVE TornInv'
  BY <1>4, <1>5, <1>6, <1>7, <1>8, <1>10, NameTorn, JsonTorn
  DEF Continue, CreateDp, SetName, SetJson, DeleteDp, At
<1> QED
  BY <1>1, <1>2, <1>9, <1>10 DEF Next, vars

\* The two leaves of an entity differ only while an operation is half way, after one
\* that failed there, or when two overlapped (TornOnlyByOverlap).
THEOREM TornByOverlap == Spec => []TornOnlyByOverlap
<1>1. TornInv => TornOnlyByOverlap
  BY DEF TornInv, Explained, TornOnlyByOverlap
<1> QED
  BY <1>1, InitTorn, NextTorn, InitTrail, NextTrail, TypeCorrect, PTL DEF Spec
=============================================================================
