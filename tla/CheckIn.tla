------------------------------- MODULE CheckIn -------------------------------
(***************************************************************************)
(* The check-in of the engineering studio: a workspace is checked out of   *)
(* the project, edited, compared with what was last read of the project    *)
(* (eng-core's diff.ts), and the items of that plan are applied one after  *)
(* the other (apply.ts) through the port of engController.ts, while others *)
(* change the project too.                                                 *)
(*                                                                         *)
(* An object is a datapoint type, a datapoint, or the configs of an        *)
(* element of a datapoint.  Configs have two families: "address" stands    *)
(* for the address and the alarm, which are retired by switching them off, *)
(* "archive" for the archive and the range, which are taken away.  The     *)
(* forced re-creation and dry runs are left out, and the steps of one      *)
(* analog alarm are one write.                                             *)
(***************************************************************************)
EXTENDS Naturals, FiniteSets

CONSTANTS Type, Dp, Config,  \* names; a Config is the element that carries it
          Parent,            \* the type of a datapoint, the datapoint of an element
          Held,              \* the sets of objects the project may hold at first
          Version, There, Off, None,
          Batch,             \* configs per dpSetWait
          MaxEdits,          \* bound: check-outs and changes of the workspace
          MaxOutside         \* bound: changes of the project by others, and reads that miss some of it

Obj == Type \cup Dp \cup Config
Family == {"address", "archive"}

ASSUME NamesAssumption ==
  /\ Type \cap Dp = {} /\ Type \cap Config = {} /\ Dp \cap Config = {}
  /\ Parent \in [Dp \cup Config -> Type \cup Dp]
  /\ \A d \in Dp : Parent[d] \in Type
  /\ \A c \in Config : Parent[c] \in Dp
ASSUME HeldAssumption ==
  Held \subseteq SUBSET Obj /\ \A s \in Held, o \in Dp \cup Config : o \in s => Parent[o] \in s
ASSUME ValuesAssumption ==
  /\ {There, Off, None} \cap Version = {} /\ There # Off /\ There # None /\ Off # None
  /\ Batch \in Nat \ {0} /\ MaxEdits \in Nat /\ MaxOutside \in Nat

VARIABLES
  live,     \* the project
  work,     \* the workspace
  base,     \* its baseline: what was checked out
  seen,     \* what the page last read of the project
  run,      \* the check-in in progress
  edits, outside,
  calm      \* history: check-ins of the whole plan in a row, the first after a read, that
            \* nothing disturbed, and whether the last was ok

vars == <<live, work, base, seen, run, edits, outside, calm>>

NoConfig == [f \in Family |-> None]
Absent(o) == IF o \in Config THEN NoConfig ELSE None

(* What may stand at an object.  An archive that is off is no archive. *)
Values(o) ==
  CASE o \in Type -> Version
    [] o \in Dp -> {There}
    [] OTHER -> {v \in [Family -> Version \cup {Off, None}] : v["archive"] # Off} \ {NoConfig}

Has(p, o) == p[o] # Absent(o)
Value == Version \cup {There, None} \cup [Family -> Version \cup {Off, None}]
IsContent(p) == p \in [Obj -> Value] /\ \A o \in Obj : p[o] \in Values(o) \cup {Absent(o)}

Children(o) == {c \in DOMAIN Parent : Parent[c] = o}
Below(o) == Children(o) \cup UNION {Children(c) : c \in Children(o)}
Standing(p, o) == IF o \in Type THEN TRUE ELSE Has(p, Parent[o])   \* its parent is there
Without(p, s) == [o \in Obj |-> IF o \in s THEN Absent(o) ELSE p[o]]

Nothing == [o \in Obj |-> Absent(o)]
Idle == [pc |-> "idle", todo |-> {}, left |-> {}, fams |-> {}, prev |-> Nothing,
         whole |-> FALSE, failed |-> FALSE]

NoRound == [rounds |-> 0, ok |-> TRUE]

(* The project already holds some objects. *)
Init ==
  /\ \E s \in Held, v \in Version :
       live = [o \in Obj |-> IF o \notin s THEN Absent(o)
                              ELSE CASE o \in Type -> v
                                     [] o \in Dp -> There
                                     [] OTHER -> [f \in Family |-> v]]
  /\ work = Nothing /\ base = Nothing /\ seen = live
  /\ run = Idle /\ edits = 0 /\ outside = 0 /\ calm = NoRound

(***************************************************************************)
(* diffWorkspace: the item of each object, given what was read.            *)
(***************************************************************************)
\* Mutant: whatever the workspace has not is deleted.
OpOf_Unseen(o, read) ==
  CASE Has(work, o) /\ ~Has(read, o) -> "create"
    [] Has(work, o) /\ Has(read, o) /\ read[o] # work[o] -> "update"
    [] ~Has(work, o) /\ Has(read, o) -> "delete"
    [] OTHER -> "none"

OpOf(o, read) ==
  CASE Has(work, o) /\ ~Has(read, o) -> "create"
    [] Has(work, o) /\ Has(read, o) /\ read[o] # work[o] -> "update"
    [] ~Has(work, o) /\ Has(read, o) /\ Has(base, o) -> "delete"
    [] OTHER -> "none"

Conflict(o, read) == Has(read, o) /\ Has(base, o) /\ base[o] # read[o]

Plan(read) == {o \in Obj : OpOf(o, read) # "none"}

Op(o) == OpOf(o, seen)
InConflict(o) == Conflict(o, seen)

(* Types, then datapoints, then configs; creations, then changes, then deletions. *)
Rank(o) ==
  3 * (IF o \in Type THEN 0 ELSE IF o \in Dp THEN 1 ELSE 2)
    + (CASE Op(o) = "create" -> 0 [] Op(o) = "update" -> 1 [] OTHER -> 2)

Turn(o) == run.pc = "look" /\ o \in run.todo /\ \A p \in run.todo : Rank(o) <= Rank(p)

(***************************************************************************)
(* Reads of the project.  A type whose structure cannot be read, the       *)
(* datapoints of a type that cannot be listed, and the configs of an       *)
(* element that cannot be read are missing from what a read gives, and the *)
(* read is not told apart from another.                                    *)
(***************************************************************************)
Missable == {s \in SUBSET Obj : \A t \in Type : Children(t) \cap s \in {{}, Children(t)}}
Reads == {Without(live, s) : s \in Missable}

Counted(read) ==
  IF read = live THEN UNCHANGED outside ELSE outside < MaxOutside /\ outside' = outside + 1

PageReads == \E read \in Reads : seen' = read /\ Counted(read)

(* Or the read fails, and the page shows the plan that it had. *)
PageMayRead == PageReads \/ UNCHANGED <<seen, outside>>

(* A read that missed something is a disturbance. *)
Recalled == calm' = IF seen' \in {seen, live} THEN calm ELSE NoRound

(***************************************************************************)
(* The workspace.  The page does nothing else while a check-in is running. *)
(***************************************************************************)
Edit == run.pc = "idle" /\ edits < MaxEdits /\ edits' = edits + 1 /\ calm' = NoRound

(* The page is then loaded with it. *)
CheckOut ==
  /\ Edit
  /\ \E read \in Reads : work' = read /\ base' = read /\ Counted(read)
  /\ seen' = live
  /\ UNCHANGED <<live, run>>

(* mergeProposal: a model applied to some datapoints of its type, which adds *)
(* a family to the configs of their elements, or none.                       *)
Generate(t) ==
  /\ Edit
  /\ \E v \in Version, ds \in SUBSET Children(t), fs \in SUBSET Family, w \in Version :
       /\ Cardinality(fs) <= 1
       /\ work' = [o \in Obj |->
            CASE o = t -> v
              [] o \in ds -> There
              [] o \in Config /\ Parent[o] \in ds -> [f \in Family |-> IF f \in fs THEN w ELSE work[o][f]]
              [] OTHER -> work[o]]
  /\ PageMayRead
  /\ UNCHANGED <<live, base, run>>

(* A workspace saved without the object, whose baseline stays. *)
Remove(o) ==
  /\ Edit /\ Has(work, o)
  /\ work' = Without(work, {o} \cup Below(o))
  /\ UNCHANGED <<live, base, seen, run, outside>>

(* A datapoint of the workspace or of the project is forgotten with the      *)
(* configs that the workspace has of it: the deletion of another one stays.  *)
Forgotten(d) == {d} \cup {c \in Children(d) : Has(work, c)}

Forget(d) ==
  /\ Edit /\ (Has(work, d) \/ Has(seen, d))
  /\ work' = Without(work, Forgotten(d)) /\ base' = Without(base, Forgotten(d))
  /\ UNCHANGED <<live, seen, run, outside>>

(* The page is loaded again. *)
Reload ==
  /\ run.pc = "idle" /\ PageReads /\ Recalled
  /\ UNCHANGED <<live, work, base, run, edits>>

(***************************************************************************)
(* The project: what it refuses, and what a deletion takes along.          *)
(***************************************************************************)
CanPut(o) == Standing(live, o)
CanDrop(o) == Has(live, o) /\ (o \in Type => \A d \in Children(o) : ~Has(live, d))

(* A check-in writes the families the workspace has, and leaves the others. *)
Written(o) ==
  IF o \in Config THEN [f \in Family |-> IF work[o][f] # None THEN work[o][f] ELSE live[o][f]]
  ELSE work[o]

Retired(f) == IF f = "address" THEN Off ELSE None

Outside ==
  /\ outside < MaxOutside /\ outside' = outside + 1
  /\ \E o \in Obj :
       \/ CanPut(o) /\ \E v \in Values(o) : v # live[o] /\ live' = [live EXCEPT ![o] = v]
       \/ CanDrop(o) /\ live' = Without(live, {o} \cup Below(o))
  /\ calm' = NoRound /\ run' = [run EXCEPT !.whole = FALSE]
  /\ UNCHANGED <<work, base, seen, edits>>

(***************************************************************************)
(* The check-in: of the whole plan; of a type, the workspace's datapoints  *)
(* of it and their configs; or of a datapoint, its configs and its type if *)
(* that is new.                                                            *)
(***************************************************************************)
ScopeOf(o) ==
  IF o \in Type
  THEN {o} \cup UNION {{d} \cup Below(d) : d \in {d \in Children(o) : Has(work, d)}}
  ELSE {o} \cup Below(o) \cup {t \in {Parent[o]} : Has(work, o) /\ Op(t) = "create"}

Retirable == {c \in Config : Op(c) = "delete"}

\* Mutant: what is to be retired is taken from the last read.
Start_PrevFromRead ==
  /\ run.pc = "idle"
  /\ \E s \in {Obj} \cup {ScopeOf(o) : o \in Type \cup Dp}, unread \in SUBSET Retirable :
       /\ Plan(seen) \cap s # {}
       /\ run' = [Idle EXCEPT !.pc = "look", !.todo = Plan(seen) \cap s,
                   !.whole = Plan(seen) \subseteq s /\ unread = {} /\ (seen = live \/ calm.rounds > 0),
                   !.prev = [o \in Obj |-> IF o \in (Retirable \cap s) \ unread
                                           THEN seen[o] ELSE Absent(o)]]
  /\ UNCHANGED <<live, work, base, seen, edits, outside, calm>>

(* What is to be retired is read again.  Of an element whose configs cannot  *)
(* be read there is nothing to retire: its item is passed over as if applied. *)
Start ==
  /\ run.pc = "idle"
  /\ \E s \in {Obj} \cup {ScopeOf(o) : o \in Type \cup Dp}, unread \in SUBSET Retirable :
       /\ Plan(seen) \cap s # {}
       /\ run' = [Idle EXCEPT !.pc = "look", !.todo = Plan(seen) \cap s,
                   !.whole = Plan(seen) \subseteq s /\ unread = {} /\ (seen = live \/ calm.rounds > 0),
                   !.prev = [o \in Obj |-> IF o \in (Retirable \cap s) \ unread
                                           THEN live[o] ELSE Absent(o)]]
  /\ UNCHANGED <<live, work, base, seen, edits, outside, calm>>

Checked(o) ==
  [run EXCEPT !.pc = "look", !.todo = @ \ {o}, !.left = {}, !.fams = {}]

(* Refused by the project; a call that could have been done was lost, which disturbs the run. *)
Failed(r, possible) == [r EXCEPT !.failed = TRUE, !.whole = @ /\ ~possible]

\* Mutant: the archive is not retired.
Families_KeepArchive(o) ==
  {f \in Family : IF Op(o) = "delete" THEN f = "address" /\ run.prev[o][f] # None
                  ELSE work[o][f] # None}

(* The families an item of a config writes, one after the other. *)
Families(o) ==
  {f \in Family : IF Op(o) = "delete" THEN run.prev[o][f] # None ELSE work[o][f] # None}

Skip(o) ==
  /\ Turn(o)
  /\ \/ InConflict(o)
     \/ o \notin Config /\ Op(o) = "create" /\ Has(live, o)
     \/ o \notin Config /\ Op(o) = "delete" /\ ~Has(live, o)
     \/ o \in Config /\ Families(o) = {}   \* nothing left to retire
  /\ run' = Checked(o)
  /\ UNCHANGED <<live, work, base, seen, edits, outside, calm>>

\* Mutant: the conflict is not looked at.
Look_Conflicting(o) ==
  /\ Turn(o) /\ o \notin Config
  /\ Op(o) = "create" => ~Has(live, o)
  /\ Op(o) = "delete" => Has(live, o)
  /\ run' = [run EXCEPT !.pc = "write", !.left = {o}]
  /\ UNCHANGED <<live, work, base, seen, edits, outside, calm>>

(* Whether the object is there is asked before, and not together with, what follows. *)
Look(o) ==
  /\ Turn(o) /\ ~InConflict(o) /\ o \notin Config
  /\ Op(o) = "create" => ~Has(live, o)
  /\ Op(o) = "delete" => Has(live, o)
  /\ run' = [run EXCEPT !.pc = "write", !.left = {o}]
  /\ UNCHANGED <<live, work, base, seen, edits, outside, calm>>

(* A type is created or changed; a datapoint that is there is not created. *)
Possible(o) ==
  IF Op(o) = "delete" THEN CanDrop(o) ELSE CanPut(o) /\ (o \in Dp => ~Has(live, o))

Write(o) ==
  /\ run.pc = "write" /\ o \in run.left \ Config /\ Possible(o)
  /\ live' = IF Op(o) = "delete" THEN Without(live, {o} \cup Below(o)) ELSE [live EXCEPT ![o] = work[o]]
  /\ run' = Checked(o) \/ run' = Failed(Checked(o), TRUE)   \* done, and the answer may be lost
  /\ UNCHANGED <<work, base, seen, edits, outside, calm>>

WriteFails(o) ==
  /\ run.pc = "write" /\ o \in run.left
  /\ run' = Failed(Checked(o), IF o \in Config THEN CanPut(o) ELSE Possible(o))
  /\ UNCHANGED <<live, work, base, seen, edits, outside, calm>>

(* Retirements, and configs of several families, are not batched. *)
Single(o) == o \in Config /\ Op(o) # "delete" /\ ~InConflict(o) /\ Cardinality(Families(o)) = 1

LookConfig(o) ==
  /\ Turn(o) /\ o \in Config /\ ~InConflict(o) /\ ~Single(o) /\ Families(o) # {}
  /\ run' = [run EXCEPT !.pc = "write", !.left = {o}, !.fams = Families(o)]
  /\ UNCHANGED <<live, work, base, seen, edits, outside, calm>>

(* The address before the archive. *)
WriteFamily(o) ==
  /\ run.pc = "write" /\ o \in run.left \cap Config /\ CanPut(o)
  /\ \E f \in run.fams :
       /\ f = "address" \/ "address" \notin run.fams
       /\ live' = IF Op(o) # "delete" THEN [live EXCEPT ![o][f] = work[o][f]]
                  ELSE IF live[o][f] # None THEN [live EXCEPT ![o][f] = Retired(f)] ELSE live
       /\ \/ run' = IF run.fams = {f} THEN Checked(o) ELSE [run EXCEPT !.fams = @ \ {f}]
          \/ run' = Failed(Checked(o), TRUE)
  /\ UNCHANGED <<work, base, seen, edits, outside, calm>>

(* Its address context or its archive group cannot be resolved: that item alone fails. *)
Unresolved(o) ==
  /\ Turn(o) /\ o \in Config /\ ~InConflict(o) /\ Op(o) # "delete"
  /\ run' = Failed(Checked(o), TRUE)
  /\ UNCHANGED <<live, work, base, seen, edits, outside, calm>>

(* The next single writes travel together; a batch that fails is replayed one by one. *)
Batchable(b) ==
  /\ b # {} /\ b \subseteq run.todo /\ Cardinality(b) <= Batch
  /\ \A o \in b : Single(o) /\ \A p \in run.todo \ b : Rank(o) <= Rank(p)

Flush(b) ==
  /\ run.pc = "look" /\ Batchable(b)
  /\ \/ /\ \A o \in b : CanPut(o)
        /\ live' = [o \in Obj |-> IF o \in b THEN Written(o) ELSE live[o]]
        /\ \/ run' = [run EXCEPT !.todo = @ \ b]
           \/ run' = [run EXCEPT !.pc = "replay", !.todo = @ \ b, !.left = b]
     \/ /\ run' = [run EXCEPT !.pc = "replay", !.todo = @ \ b, !.left = b]
        /\ UNCHANGED live
  /\ UNCHANGED <<work, base, seen, edits, outside, calm>>

\* Mutant: the replay ends with its first item.
Replayed_Once(o) == [run EXCEPT !.left = @ \ {o}, !.pc = "look"]

Replayed(o) == [run EXCEPT !.left = @ \ {o}, !.pc = IF run.left = {o} THEN "look" ELSE "replay"]

Replay(o) ==
  /\ run.pc = "replay" /\ o \in run.left
  /\ \/ /\ CanPut(o)
        /\ live' = [live EXCEPT ![o] = Written(o)]
        /\ run' = Replayed(o) \/ run' = Failed(Replayed(o), TRUE)
     \/ run' = Failed(Replayed(o), CanPut(o)) /\ UNCHANGED live
  /\ UNCHANGED <<work, base, seen, edits, outside, calm>>

(* A report that is ok makes the page read the project again; another one does not. *)
Report ==
  /\ run.pc = "look" /\ run.todo = {}
  /\ run' = IF run.failed THEN Idle ELSE [Idle EXCEPT !.pc = "refresh"]
  /\ calm' = IF run.whole THEN [rounds |-> IF calm.rounds < 2 THEN calm.rounds + 1 ELSE 2, ok |-> ~run.failed]
             ELSE NoRound
  /\ UNCHANGED <<live, work, base, seen, edits, outside>>

Refresh ==
  /\ run.pc = "refresh" /\ run' = Idle
  /\ PageMayRead /\ Recalled
  /\ UNCHANGED <<live, work, base, edits>>

CheckInStep ==
  \/ Start \/ Report \/ Refresh
  \/ \E o \in Obj : \/ Skip(o) \/ Look(o) \/ Write(o) \/ WriteFails(o)
                     \/ LookConfig(o) \/ WriteFamily(o) \/ Unresolved(o) \/ Replay(o)
  \/ \E b \in SUBSET Config : Flush(b)

Next ==
  \/ CheckOut \/ Reload \/ Outside \/ CheckInStep
  \/ \E t \in Type : Generate(t)
  \/ \E o \in Obj : Remove(o)
  \/ \E d \in Dp : Forget(d)

Spec == Init /\ [][Next]_vars

(***************************************************************************)
(* Properties.                                                             *)
(***************************************************************************)
RunState ==
  [pc : {"idle", "look", "write", "replay", "refresh"}, todo : SUBSET Obj, left : SUBSET Obj,
   fams : SUBSET Family, prev : [Obj -> Value], whole : BOOLEAN, failed : BOOLEAN]

(* Every variable holds what its comment says; a check-in that is over holds nothing. *)
TypeOK ==
  /\ \A p \in {live, work, base, seen, run.prev} : IsContent(p)
  /\ run \in RunState
  /\ run.pc = "idle" => run = Idle
  /\ run.pc \in {"write", "replay"} <=> run.left # {}
  /\ edits \in 0..MaxEdits /\ outside \in 0..MaxOutside
  /\ calm \in [rounds : 0..2, ok : BOOLEAN]

(* What the plan asks of an object is how it stands in the project: written  *)
(* as in the workspace, gone, or, for each family of configs that are        *)
(* deleted, switched off or taken away.  Nothing is asked of a family that   *)
(* the workspace has not, of configs that it has.                            *)
InFamily(o, f) ==
  IF Op(o) = "delete" THEN live[o][f] \in {None, Retired(f)} ELSE work[o][f] \in {None, live[o][f]}

InPlace(o) == IF o \in Config THEN \A f \in Family : InFamily(o, f) ELSE live[o] = work[o]

(* A check-in of the whole plan that nothing disturbed and that is reported  *)
(* ok has done, in the project, each item of its plan but the conflicts.     *)
OkIsDone ==
  run.pc = "refresh" /\ calm.rounds > 0 => \A o \in Plan(seen) : InConflict(o) \/ InPlace(o)

(* What no check-in can do: create below what is not there, delete a type    *)
(* whose datapoints stay.                                                    *)
Blocked(o) ==
  CASE OpOf(o, live) = "delete" -> o \in Type /\ \E d \in Children(o) : Has(live, d)
    [] OTHER -> ~Standing(live, o)

(* A plan that is checked in twice, as it fails the first time when a type   *)
(* is deleted before its datapoints or a config after its datapoint, fails   *)
(* the second time only when an item of it is one that no check-in can do.   *)
FailsOnlyBlocked ==
  run.pc = "idle" /\ calm.rounds = 2 /\ ~calm.ok => \E o \in Plan(live) : Blocked(o)

(* A check-in takes away only what was checked out, was removed from the     *)
(* workspace and was unchanged when the page last read it, or what is under  *)
(* such a datapoint.                                                         *)
TakesOnlyRemoved ==
  [][outside' = outside =>
       \A o \in Obj : Has(live, o) /\ live'[o] = Absent(o) =>
         \E p \in {o} \cup {d \in Dp : o \in Children(d)} :
           /\ Has(base, p) /\ ~Has(work, p) /\ seen[p] = base[p]
           /\ live'[p] = Absent(p)]_vars

(* A check-in changes what was checked out only where the page, when it last *)
(* read the project, still found what was checked out, or nothing.           *)
KeepsDrift ==
  [][outside' = outside =>
       \A o \in Obj : live'[o] # live[o] /\ live'[o] # Absent(o) /\ Has(base, o) =>
         seen[o] \in {base[o], Absent(o)}]_vars
==============================================================================
