--------------------------- MODULE CheckInProofs ---------------------------
(***************************************************************************)
(* Theorems about CheckIn, for any types, datapoints, configs, batches,    *)
(* changes of the workspace and of the project: what a check-in may take   *)
(* or overwrite, that an ok report is a plan done, and that a plan checked *)
(* in again fails only at what no check-in can do.                         *)
(***************************************************************************)
EXTENDS CheckIn, TLAPS

-----------------------------------------------------------------------------
(* Objects and what stands at them. *)

LEMMA Kinds ==
  /\ \A o \in Type : o \in Obj /\ o \notin Dp /\ o \notin Config
  /\ \A o \in Dp : o \in Obj /\ o \notin Type /\ o \notin Config
  /\ \A o \in Config : o \in Obj /\ o \notin Type /\ o \notin Dp
  /\ \A o \in Obj : o \in Type \/ o \in Dp \/ o \in Config
  BY NamesAssumption DEF Obj

LEMMA Parents ==
  /\ DOMAIN Parent = Dp \cup Config
  /\ \A d \in Dp : Parent[d] \in Type
  /\ \A c \in Config : Parent[c] \in Dp
  BY NamesAssumption

LEMMA BelowIs ==
  /\ \A t \in Type : Children(t) \subseteq Dp
  /\ \A d \in Dp : Children(d) \subseteq Config /\ Below(d) = Children(d)
  /\ \A c \in Config : Children(c) = {} /\ Below(c) = {}
  /\ \A t \in Type : Below(t) = Children(t) \cup {c \in Config : Parent[c] \in Children(t)}
  /\ \A o \in Obj : \A c \in Children(o) : c \in Obj \ Type /\ Parent[c] = o
  /\ \A c \in Obj \ Type : c \in Children(Parent[c])
<1>1. /\ \A t \in Type : Children(t) \subseteq Dp
      /\ \A d \in Dp : Children(d) \subseteq Config
      /\ \A c \in Config : Children(c) = {}
      /\ \A o \in Obj : \A c \in Children(o) : c \in Obj \ Type /\ Parent[c] = o
      /\ \A c \in Obj \ Type : c \in Children(Parent[c])
  BY Kinds, Parents DEF Children
<1>2. \A c \in Config : Below(c) = {}
  BY <1>1 DEF Below
<1>3. \A d \in Dp : Below(d) = Children(d)
  BY <1>1 DEF Below
<1>4. ASSUME NEW t \in Type
      PROVE  Below(t) = Children(t) \cup {c \in Config : Parent[c] \in Children(t)}
  <2>1. UNION {Children(c) : c \in Children(t)} = {c \in Config : Parent[c] \in Children(t)}
    BY <1>1, Kinds, Parents DEF Children
  <2> QED
    BY <2>1 DEF Below
<1> QED
  BY <1>1, <1>2, <1>3, <1>4

LEMMA NoConfigIs ==
  NoConfig \in [Family -> Version \cup {Off, None}] /\ \A f \in Family : NoConfig[f] = None
  BY DEF NoConfig

\* What may stand at an object, or nothing.
LEMMA MayStand ==
  /\ \A o \in Type : Values(o) = Version /\ Absent(o) = None /\ None \notin Version
  /\ \A o \in Dp : Values(o) = {There} /\ Absent(o) = None
  /\ \A o \in Config :
       /\ Absent(o) = NoConfig /\ NoConfig \notin Values(o)
       /\ \A v : v \in Values(o) \cup {NoConfig} <=>
                   v \in [Family -> Version \cup {Off, None}] /\ v["archive"] # Off
       /\ \A v \in Values(o) : \E f \in Family : v[f] # None
<1>1. \A o \in Type : Values(o) = Version /\ Absent(o) = None /\ None \notin Version
  BY Kinds, ValuesAssumption DEF Values, Absent
<1>2. \A o \in Dp : Values(o) = {There} /\ Absent(o) = None
  BY Kinds DEF Values, Absent
<1>3. ASSUME NEW o \in Config
      PROVE  /\ Absent(o) = NoConfig
             /\ Values(o) = {v \in [Family -> Version \cup {Off, None}] : v["archive"] # Off} \ {NoConfig}
  BY Kinds DEF Values, Absent
<1>4. NoConfig["archive"] # Off
  BY NoConfigIs, ValuesAssumption DEF Family
<1>5. ASSUME NEW v \in [Family -> Version \cup {Off, None}], \A f \in Family : v[f] = None
      PROVE  v = NoConfig
  BY <1>5 DEF NoConfig
<1> QED
  BY <1>1, <1>2, <1>3, <1>4, <1>5, NoConfigIs

LEMMA StandsIn ==
  ASSUME NEW o \in Obj, NEW v \in Values(o) \cup {Absent(o)}
  PROVE  v \in Value /\ (v # Absent(o) <=> v \in Values(o))
<1>1. CASE o \in Type
  BY <1>1, MayStand DEF Value
<1>2. CASE o \in Dp
  BY <1>2, MayStand, ValuesAssumption DEF Value
<1>3. CASE o \in Config
  BY <1>3, MayStand DEF Value
<1> QED
  BY <1>1, <1>2, <1>3, Kinds

\* A content is one that is right at each object.
LEMMA Contents ==
  ASSUME NEW p, p = [o \in Obj |-> p[o]], \A o \in Obj : p[o] \in Values(o) \cup {Absent(o)}
  PROVE  IsContent(p)
  BY StandsIn DEF IsContent

LEMMA ContentAt ==
  ASSUME NEW p, IsContent(p), NEW o \in Obj
  PROVE  /\ p = [q \in Obj |-> p[q]] /\ p[o] \in Values(o) \cup {Absent(o)}
         /\ Has(p, o) <=> p[o] \in Values(o)
         /\ Has(p, o) <=> p[o] # Absent(o)
  BY StandsIn DEF IsContent, Has

LEMMA WithoutIs ==
  ASSUME NEW p, IsContent(p), NEW s
  PROVE  /\ IsContent(Without(p, s))
         /\ \A o \in Obj : Without(p, s)[o] = IF o \in s THEN Absent(o) ELSE p[o]
<1>1. \A o \in Obj : Without(p, s)[o] = IF o \in s THEN Absent(o) ELSE p[o]
  BY DEF Without
<1>2. Without(p, s) = [o \in Obj |-> Without(p, s)[o]]
  BY DEF Without
<1>3. \A o \in Obj : Without(p, s)[o] \in Values(o) \cup {Absent(o)}
  BY <1>1, ContentAt
<1> QED
  BY <1>1, <1>2, <1>3, Contents

LEMMA NothingIs == IsContent(Nothing) /\ \A o \in Obj : ~Has(Nothing, o)
<1>1. Nothing = [o \in Obj |-> Nothing[o]] /\ \A o \in Obj : Nothing[o] = Absent(o)
  BY DEF Nothing
<1> QED
  BY <1>1, Contents DEF Has

-----------------------------------------------------------------------------
(* Reads of the project. *)

LEMMA CountedIs ==
  ASSUME outside \in 0..MaxOutside, NEW read, Counted(read)
  PROVE  outside' \in 0..MaxOutside
  BY ValuesAssumption DEF Counted

LEMMA ReadsAre ==
  ASSUME IsContent(live), NEW read \in Reads
  PROVE  IsContent(read)
<1>1. PICK s \in Missable : read = Without(live, s)
  BY DEF Reads
<1> QED
  BY <1>1, WithoutIs

LEMMA PageHas ==
  ASSUME IsContent(live), IsContent(seen), outside \in 0..MaxOutside, PageMayRead
  PROVE  IsContent(seen') /\ outside' \in 0..MaxOutside
<1>1. CASE PageReads
  <2>1. PICK read \in Reads : seen' = read /\ Counted(read)
    BY <1>1 DEF PageReads
  <2> QED
    BY <2>1, ReadsAre, CountedIs
<1>2. CASE UNCHANGED <<seen, outside>>
  BY <1>2
<1> QED
  BY <1>1, <1>2 DEF PageMayRead

-----------------------------------------------------------------------------
(* The plan. *)

LEMMA OpIs ==
  ASSUME NEW o, NEW read
  PROVE  /\ OpOf(o, read) \in {"create", "update", "delete", "none"}
         /\ OpOf(o, read) = "create" <=> Has(work, o) /\ ~Has(read, o)
         /\ OpOf(o, read) = "update" <=> Has(work, o) /\ Has(read, o) /\ read[o] # work[o]
         /\ OpOf(o, read) = "delete" <=> ~Has(work, o) /\ Has(read, o) /\ Has(base, o)
         /\ OpOf(o, read) = "none" <=> /\ Has(work, o) => Has(read, o) /\ read[o] = work[o]
                                       /\ ~Has(work, o) => ~Has(read, o) \/ ~Has(base, o)
<1>1. CASE Has(work, o) /\ ~Has(read, o)
  BY <1>1 DEF OpOf
<1>2. CASE Has(work, o) /\ Has(read, o) /\ read[o] # work[o]
  BY <1>2 DEF OpOf
<1>3. CASE ~Has(work, o) /\ Has(read, o) /\ Has(base, o)
  BY <1>3 DEF OpOf
<1>4. CASE /\ Has(work, o) => Has(read, o) /\ read[o] = work[o]
           /\ ~Has(work, o) => ~Has(read, o) \/ ~Has(base, o)
  BY <1>4 DEF OpOf
<1> QED
  BY <1>1, <1>2, <1>3, <1>4

\* Types come before datapoints, and these before configs.
LEMMA RankIs ==
  /\ \A o \in Type : Rank(o) \in 0..2
  /\ \A o \in Dp : Rank(o) \in 3..5
  /\ \A o \in Config : Rank(o) \in 6..8
  /\ \A o \in Obj : Rank(o) \in Nat
<1> DEFINE kind(o) == IF o \in Type THEN 0 ELSE IF o \in Dp THEN 1 ELSE 2
           order(o) == CASE Op(o) = "create" -> 0 [] Op(o) = "update" -> 1 [] OTHER -> 2
<1>1. \A o : Rank(o) = 3 * kind(o) + order(o)
  BY DEF Rank
<1>2. \A o : order(o) \in 0..2
  OBVIOUS
<1>3. /\ \A o \in Type : kind(o) = 0
      /\ \A o \in Dp : kind(o) = 1
      /\ \A o \in Config : kind(o) = 2
  BY Kinds
<1> HIDE DEF kind, order
<1> QED
  BY <1>1, <1>2, <1>3, Kinds

-----------------------------------------------------------------------------
(* The run's record. *)

LEMMA CheckedIs ==
  ASSUME run \in RunState, NEW o
  PROVE  LET s == Checked(o)
         IN /\ s \in RunState /\ s.pc = "look" /\ s.todo = run.todo \ {o} /\ s.left = {}
            /\ s.fams = {} /\ s.prev = run.prev /\ s.whole = run.whole /\ s.failed = run.failed
  BY DEF Checked, RunState

LEMMA FailedIs ==
  ASSUME NEW r \in RunState, NEW possible \in BOOLEAN
  PROVE  LET s == Failed(r, possible)
         IN /\ s \in RunState /\ s.pc = r.pc /\ s.todo = r.todo /\ s.left = r.left
            /\ s.fams = r.fams /\ s.prev = r.prev
            /\ s.whole = (r.whole /\ ~possible) /\ s.failed = TRUE
<1>1. (r.whole /\ ~possible) \in BOOLEAN
  BY DEF RunState
<1> QED
  BY <1>1 DEF Failed, RunState

LEMMA ReplayedIs ==
  ASSUME run \in RunState, NEW o
  PROVE  LET s == Replayed(o)
         IN /\ s \in RunState /\ s.todo = run.todo /\ s.left = run.left \ {o}
            /\ s.pc = (IF run.left = {o} THEN "look" ELSE "replay")
            /\ s.fams = run.fams /\ s.prev = run.prev /\ s.whole = run.whole
            /\ s.failed = run.failed
  BY DEF Replayed, RunState

LEMMA IdleIs ==
  /\ Idle \in RunState /\ Idle.pc = "idle" /\ Idle.todo = {} /\ Idle.left = {} /\ Idle.fams = {}
  /\ Idle.whole = FALSE /\ Idle.failed = FALSE /\ Idle.prev = Nothing
<1>1. Nothing \in [Obj -> Value]
  BY NothingIs DEF IsContent
<1> QED
  BY <1>1 DEF Idle, RunState

-----------------------------------------------------------------------------
(* What stands, stands on its parent. *)

Rooted(p) == \A o \in Obj : Has(p, o) => Standing(p, o)

\* Objects of s are written, on parents that are there; only a config may be left with nothing.
Puts(s) ==
  /\ s \subseteq Obj
  /\ live' = [o \in Obj |-> live'[o]]
  /\ \A o \in Obj \ s : live'[o] = live[o]
  /\ \A o \in s : /\ CanPut(o) /\ live'[o] \in Values(o) \cup {Absent(o)}
                  /\ o \notin Config => Has(live', o)

Drops(o) == CanDrop(o) /\ live' = Without(live, {o} \cup Below(o))

LEMMA PutsKeep ==
  ASSUME IsContent(live), Rooted(live), NEW s, Puts(s)
  PROVE  IsContent(live') /\ Rooted(live')
<1>1. \A o \in Obj : live'[o] \in Values(o) \cup {Absent(o)}
  BY ContentAt DEF Puts
<1>2. IsContent(live')
  BY <1>1, Contents DEF Puts
<1>3. ASSUME NEW o \in Obj, Has(live', o), o \notin Type
      PROVE  Has(live', Parent[o])
  <2>1. Parent[o] \in Obj \ Config
    BY <1>3, Kinds, Parents
  <2>2. Has(live, Parent[o])
    <3>1. CASE o \in s
      BY <1>3, <3>1 DEF Puts, CanPut, Standing
    <3>2. CASE o \notin s
      BY <1>3, <3>2 DEF Puts, Has, Rooted, Standing
    <3> QED
      BY <3>1, <3>2
  <2> QED
    BY <2>1, <2>2 DEF Puts, Has
<1> QED
  BY <1>2, <1>3 DEF Rooted, Standing

LEMMA WithoutRooted ==
  ASSUME NEW p, IsContent(p), Rooted(p), NEW o \in Obj
  PROVE  IsContent(Without(p, {o} \cup Below(o))) /\ Rooted(Without(p, {o} \cup Below(o)))
<1> DEFINE s == {o} \cup Below(o)
           q == Without(p, s)
<1>1. IsContent(q) /\ \A x \in Obj : q[x] = IF x \in s THEN Absent(x) ELSE p[x]
  BY WithoutIs
<1>2. \A x \in Obj : Has(q, x) <=> x \notin s /\ Has(p, x)
  BY <1>1 DEF Has
<1>3. ASSUME NEW x \in Obj \ Type, Parent[x] \in s
      PROVE  x \in s
  BY <1>3, BelowIs, Kinds, Parents
<1>4. ASSUME NEW x \in Obj, Has(q, x), x \notin Type
      PROVE  Has(q, Parent[x])
  BY <1>2, <1>3, <1>4, Kinds, Parents DEF Rooted, Standing
<1> QED
  BY <1>1, <1>4 DEF Rooted, Standing

LEMMA DropsKeep ==
  ASSUME IsContent(live), Rooted(live), NEW o \in Obj, Drops(o)
  PROVE  /\ IsContent(live') /\ Rooted(live')
         /\ \A x \in Obj : live'[x] = IF x \in {o} \cup Below(o) THEN Absent(x) ELSE live[x]
  BY WithoutRooted, WithoutIs DEF Drops

\* A datapoint or a type that was checked out and is not in the workspace any more has
\* nothing there that stands on it.
Tidy == \A o \in Obj \ Type : Has(work, o) /\ Has(base, Parent[o]) => Has(work, Parent[o])

\* What is taken away with an object is under it.
LEMMA UnderIt ==
  ASSUME NEW o \in Obj, NEW x \in Obj \ Type, Parent[x] \in {o} \cup Below(o)
  PROVE  x \in {o} \cup Below(o)
  BY BelowIs, Kinds, Parents

-----------------------------------------------------------------------------
(* What a check-in is at. *)

Inside == run.pc \in {"look", "write", "replay"}

\* The item that is being written, or is about to be: no later one comes before it.
AtItem(o) ==
  /\ o \in run.todo /\ run.left = {o} /\ ~InConflict(o)
  /\ \A p \in run.todo : Rank(o) <= Rank(p)
  /\ o \in Config => run.fams # {} /\ run.fams \subseteq Families(o)

Chosen ==
  /\ Inside => run.todo \subseteq Plan(seen)
  /\ run.pc = "write" => \E o \in Obj : AtItem(o)
  /\ run.pc = "replay" =>
       /\ run.todo \subseteq Config
       /\ \A o \in run.left : Single(o) /\ o \in Plan(seen)

Inv == TypeOK /\ Rooted(live) /\ Tidy /\ Chosen

\* What a step of a check-in does to the project: it deletes a type or a datapoint of the
\* plan, or writes objects of the plan.
Deletable(o) == Op(o) = "delete" /\ ~InConflict(o)

LiveStep ==
  \/ live' = live
  \/ \E o \in Obj \ Config : Deletable(o) /\ Drops(o)
  \/ \E s \in SUBSET (run.todo \cup run.left) :
       /\ Puts(s)
       /\ \A o \in s : /\ o \in Plan(seen) /\ ~InConflict(o)
                       /\ IF Op(o) = "delete" THEN o \in Config \cap run.left
                          ELSE Has(work, o) /\ Has(live', o)
                       /\ o \notin Config => o \in run.todo /\ live'[o] = work[o]

LEMMA PlanIs ==
  ASSUME NEW o \in Plan(seen)
  PROVE  o \in Obj /\ (Op(o) # "delete" => Has(work, o)) /\ (Op(o) = "delete" => ~Has(work, o))
  BY OpIs DEF Plan, Op

\* The families a check-in writes of a config.
LEMMA FamiliesIs ==
  ASSUME NEW o \in Config, IsContent(work), Op(o) # "delete", Has(work, o)
  PROVE  /\ Families(o) = {f \in Family : work[o][f] # None}
         /\ Families(o) # {}
<1>1. Families(o) = {f \in Family : work[o][f] # None}
  BY DEF Families
<1>2. \E f \in Family : work[o][f] # None
  BY ContentAt, MayStand, Kinds
<1> QED
  BY <1>1, <1>2

LEMMA WrittenIs ==
  ASSUME IsContent(live), IsContent(work), NEW o \in Config, Has(work, o)
  PROVE  /\ Written(o) \in Values(o)
         /\ \A f \in Family : Written(o)[f] = IF work[o][f] # None THEN work[o][f] ELSE live[o][f]
<1> DEFINE v == [f \in Family |-> IF work[o][f] # None THEN work[o][f] ELSE live[o][f]]
<1>1. Written(o) = v
  BY DEF Written
<1>2. /\ work[o] \in [Family -> Version \cup {Off, None}] /\ work[o]["archive"] # Off
      /\ live[o] \in [Family -> Version \cup {Off, None}] /\ live[o]["archive"] # Off
      /\ \E f \in Family : work[o][f] # None
  BY ContentAt, MayStand, Kinds
<1>3. v \in [Family -> Version \cup {Off, None}] /\ v["archive"] # Off /\ \E f \in Family : v[f] # None
  BY <1>2 DEF Family
<1>4. v # NoConfig
  BY <1>3, NoConfigIs
<1> QED
  BY <1>1, <1>3, <1>4, MayStand

LEMMA ThisItem ==
  ASSUME Chosen, run.pc = "write", NEW o \in run.left
  PROVE  AtItem(o) /\ o \in Plan(seen) /\ o \in Obj
  BY PlanIs DEF Chosen, AtItem, Inside

LEMMA WriteDoes ==
  ASSUME Inv, NEW o \in Obj, Write(o)
  PROVE  /\ AtItem(o) /\ o \notin Config /\ o \in Plan(seen)
         /\ IF Op(o) = "delete" THEN Drops(o)
            ELSE Puts({o}) /\ Has(work, o) /\ live'[o] = work[o]
<1>1. AtItem(o) /\ o \notin Config /\ o \in Plan(seen) /\ Possible(o)
  BY ThisItem DEF Inv, Write
<1>2. CASE Op(o) = "delete"
  BY <1>1, <1>2 DEF Write, Possible, Drops
<1>3. CASE Op(o) # "delete"
  <2>1. CanPut(o) /\ live' = [live EXCEPT ![o] = work[o]]
    BY <1>1, <1>3 DEF Write, Possible
  <2>2. live = [q \in Obj |-> live[q]] /\ work[o] \in Values(o) /\ Has(work, o)
    BY <1>1, <1>3, PlanIs, ContentAt DEF Inv, TypeOK
  <2>3. live'[o] = work[o] /\ (\A q \in Obj \ {o} : live'[q] = live[q])
        /\ live' = [q \in Obj |-> live'[q]]
    BY <2>1, <2>2
  <2>4. Has(live', o)
    BY <2>2, <2>3 DEF Has
  <2> QED
    BY <1>1, <1>3, <2>1, <2>2, <2>3, <2>4 DEF Puts
<1> QED
  BY <1>1, <1>2, <1>3

\* One family of a config: written as the workspace has it, or retired.
LEMMA WriteFamilyDoes ==
  ASSUME Inv, NEW o \in Obj, WriteFamily(o)
  PROVE  /\ AtItem(o) /\ o \in Config /\ o \in Plan(seen) /\ Puts({o})
         /\ \E f \in run.fams :
              /\ \/ run' = IF run.fams = {f} THEN Checked(o) ELSE [run EXCEPT !.fams = @ \ {f}]
                 \/ run' = Failed(Checked(o), TRUE)
              /\ f \in Family
              /\ \A g \in Family \ {f} : live'[o][g] = live[o][g]
              /\ Op(o) # "delete" => Has(live', o) /\ live'[o][f] = work[o][f] /\ work[o][f] # None
              /\ Op(o) = "delete" => live'[o][f] \in {None, Retired(f)}
<1>1. AtItem(o) /\ o \in Config /\ o \in Plan(seen) /\ CanPut(o)
  BY ThisItem DEF Inv, WriteFamily
<1>2. PICK f \in run.fams :
        /\ \/ run' = IF run.fams = {f} THEN Checked(o) ELSE [run EXCEPT !.fams = @ \ {f}]
           \/ run' = Failed(Checked(o), TRUE)
        /\ live' = IF Op(o) # "delete" THEN [live EXCEPT ![o][f] = work[o][f]]
                   ELSE IF live[o][f] # None THEN [live EXCEPT ![o][f] = Retired(f)] ELSE live
  BY DEF WriteFamily
<1>3. f \in Family /\ f \in Families(o)
  BY <1>1, <1>2 DEF AtItem, Families
<1>4. /\ live = [q \in Obj |-> live[q]]
      /\ live[o] \in [Family -> Version \cup {Off, None}] /\ live[o]["archive"] # Off
      /\ work[o] \in [Family -> Version \cup {Off, None}] /\ work[o]["archive"] # Off
  BY <1>1, ContentAt, MayStand DEF Inv, TypeOK
<1>5. PICK x : /\ x \in Version \cup {Off, None} /\ (f = "archive" => x # Off)
               /\ live' = [live EXCEPT ![o] = [live[o] EXCEPT ![f] = x]]
               /\ Op(o) # "delete" => x = work[o][f] /\ x # None
               /\ Op(o) = "delete" => x \in {None, Retired(f)}
  <2>1. CASE Op(o) # "delete"
    <3>1. Has(work, o)
      BY <1>1, <2>1, PlanIs
    <3>2. work[o][f] # None
      BY <1>1, <1>3, <2>1 DEF Families
    <3> QED
      BY <1>2, <1>3, <1>4, <2>1, <3>2
  <2>2. CASE Op(o) = "delete" /\ live[o][f] # None
    <3>1. Retired(f) \in {Off, None} /\ (f = "archive" => Retired(f) # Off)
      BY ValuesAssumption DEF Retired
    <3> QED
      BY <1>2, <2>2, <3>1
  <2>3. CASE Op(o) = "delete" /\ live[o][f] = None
    <3>1. live = [live EXCEPT ![o] = [live[o] EXCEPT ![f] = None]]
      BY <1>3, <1>4, <2>3
    <3> QED
      BY <1>2, <2>3, <3>1, ValuesAssumption
  <2> QED
    BY <2>1, <2>2, <2>3
<1>6. /\ live'[o] = [live[o] EXCEPT ![f] = x]
      /\ \A q \in Obj \ {o} : live'[q] = live[q]
      /\ live' = [q \in Obj |-> live'[q]]
  BY <1>4, <1>5
<1>7. /\ live'[o] \in [Family -> Version \cup {Off, None}] /\ live'[o]["archive"] # Off
      /\ live'[o][f] = x /\ \A g \in Family \ {f} : live'[o][g] = live[o][g]
  BY <1>3, <1>4, <1>5, <1>6 DEF Family
<1>8. live'[o] \in Values(o) \cup {Absent(o)}
  BY <1>1, <1>7, MayStand
<1>9. Op(o) # "delete" => Has(live', o)
  BY <1>1, <1>3, <1>5, <1>7, NoConfigIs, MayStand DEF Has
<1>10. Puts({o})
  BY <1>1, <1>6, <1>8 DEF Puts
<1> QED
  BY <1>1, <1>2, <1>3, <1>5, <1>7, <1>9, <1>10

LEMMA FlushDoes ==
  ASSUME Inv, NEW b \in SUBSET Config, Flush(b)
  PROVE  /\ b \subseteq run.todo
         /\ \A o \in b : /\ o \in Plan(seen) /\ Single(o) /\ Has(work, o)
                         /\ \A p \in run.todo \ b : Rank(o) <= Rank(p)
         /\ \/ /\ live' = live
               /\ run' = [run EXCEPT !.pc = "replay", !.todo = @ \ b, !.left = b]
            \/ Puts(b) /\ \A o \in b : Has(live', o) /\ live'[o] = Written(o)
<1>1. /\ b \subseteq run.todo
      /\ \A o \in b : /\ o \in Plan(seen) /\ Single(o) /\ \A p \in run.todo \ b : Rank(o) <= Rank(p)
  BY DEF Flush, Batchable, Inv, Chosen, Inside
<1>2. \A o \in b : Has(work, o)
  BY <1>1, PlanIs DEF Single
<1>3. CASE /\ \A o \in b : CanPut(o)
           /\ live' = [o \in Obj |-> IF o \in b THEN Written(o) ELSE live[o]]
  <2>1. \A o \in b : o \in Obj /\ live'[o] = Written(o) /\ Written(o) \in Values(o)
    BY <1>2, <1>3, Kinds, WrittenIs DEF Inv, TypeOK
  <2>2. \A o \in b : Has(live', o)
    BY <2>1, MayStand DEF Has
  <2>3. live' = [o \in Obj |-> live'[o]] /\ \A o \in Obj \ b : live'[o] = live[o]
    BY <1>3
  <2> QED
    BY <1>1, <1>2, <1>3, <2>1, <2>2, <2>3 DEF Puts
<1> QED
  BY <1>1, <1>2, <1>3 DEF Flush

LEMMA ReplayDoes ==
  ASSUME Inv, NEW o \in Obj, Replay(o)
  PROVE  /\ o \in Config /\ o \in Plan(seen) /\ Single(o) /\ Has(work, o) /\ o \in run.left
         /\ \/ /\ Puts({o}) /\ Has(live', o) /\ live'[o] = Written(o)
               /\ run' = Replayed(o) \/ run' = Failed(Replayed(o), TRUE)
            \/ live' = live /\ run' = Failed(Replayed(o), CanPut(o))
<1>1. o \in run.left /\ o \in Config /\ o \in Plan(seen) /\ Single(o)
  BY DEF Replay, Inv, Chosen, Single
<1>2. Has(work, o)
  BY <1>1, PlanIs DEF Single
<1>3. CASE /\ CanPut(o) /\ live' = [live EXCEPT ![o] = Written(o)]
           /\ run' = Replayed(o) \/ run' = Failed(Replayed(o), TRUE)
  <2>1. live = [q \in Obj |-> live[q]]
    BY ContentAt DEF Inv, TypeOK, IsContent
  <2>2. live'[o] = Written(o) /\ Written(o) \in Values(o)
    BY <1>1, <1>2, <1>3, <2>1, WrittenIs DEF Inv, TypeOK
  <2>3. Has(live', o)
    BY <1>1, <2>2, MayStand DEF Has
  <2>4. live' = [q \in Obj |-> live'[q]] /\ \A q \in Obj \ {o} : live'[q] = live[q]
    BY <1>3, <2>1
  <2> QED
    BY <1>1, <1>2, <1>3, <2>2, <2>3, <2>4 DEF Puts
<1> QED
  BY <1>1, <1>2, <1>3 DEF Replay

LEMMA SkipIs ==
  ASSUME TypeOK, NEW o \in Obj, Skip(o) \/ WriteFails(o) \/ Unresolved(o)
  PROVE  /\ live' = live /\ o \in run.todo \cup run.left /\ Inside
         /\ \E s : /\ s = Checked(o)
                   /\ run' = s \/ \E possible \in BOOLEAN : run' = Failed(s, possible)
<1>1. CASE Skip(o)
  BY <1>1 DEF Skip, Turn, Inside
<1>2. CASE WriteFails(o)
  <2>1. /\ live' = live /\ o \in run.left /\ run.pc = "write"
        /\ run' = Failed(Checked(o), IF o \in Config THEN CanPut(o) ELSE Possible(o))
    BY <1>2 DEF WriteFails
  <2>2. CanPut(o) \in BOOLEAN /\ Possible(o) \in BOOLEAN
    BY DEF Possible, CanPut, CanDrop, Standing, Has
  <2> QED
    BY <2>1, <2>2 DEF Inside
<1>3. CASE Unresolved(o)
  BY <1>3 DEF Unresolved, Turn, Inside
<1> QED
  BY <1>1, <1>2, <1>3

LEMMA LiveSteps ==
  ASSUME Inv, CheckInStep
  PROVE  LiveStep
<1>1. ASSUME NEW o \in Obj, Write(o) PROVE LiveStep
  <2>1. Op(o) = "delete" => LiveStep
    BY <1>1, WriteDoes DEF AtItem, LiveStep, Deletable
  <2>2. ASSUME Op(o) # "delete" PROVE LiveStep
    <3>1. /\ Puts({o}) /\ o \in Plan(seen) /\ ~InConflict(o) /\ Has(work, o) /\ o \notin Config
          /\ o \in run.todo /\ live'[o] = work[o]
      BY <1>1, <2>2, WriteDoes DEF AtItem
    <3>2. Has(live', o)
      BY <3>1 DEF Puts
    <3> QED
      BY <2>2, <3>1, <3>2 DEF LiveStep
  <2> QED
    BY <2>1, <2>2
<1>2. ASSUME NEW o \in Obj, WriteFamily(o) PROVE LiveStep
  <2>1. /\ Puts({o}) /\ o \in Plan(seen) /\ ~InConflict(o) /\ o \in Config /\ o \in run.todo
        /\ o \in run.left
        /\ Op(o) # "delete" => Has(work, o) /\ Has(live', o)
    BY <1>2, WriteFamilyDoes, PlanIs DEF AtItem
  <2> QED
    BY <2>1 DEF LiveStep
<1>3. ASSUME NEW b \in SUBSET Config, Flush(b) PROVE LiveStep
  <2>1. b \in SUBSET (run.todo \cup run.left)
    BY <1>3, FlushDoes
  <2>2. \A o \in b : o \in Plan(seen) /\ ~InConflict(o) /\ Op(o) # "delete" /\ Has(work, o)
    BY <1>3, FlushDoes DEF Single
  <2> QED
    BY <1>3, <2>1, <2>2, FlushDoes DEF LiveStep
<1>4. ASSUME NEW o \in Obj, Replay(o) PROVE LiveStep
  <2>1. /\ o \in Plan(seen) /\ ~InConflict(o) /\ Op(o) # "delete" /\ Has(work, o)
        /\ o \in Config /\ o \in run.left
        /\ live' = live \/ (Puts({o}) /\ Has(live', o))
    BY <1>4, ReplayDoes DEF Single
  <2> QED
    BY <2>1 DEF LiveStep
<1>5. ASSUME NEW o \in Obj, Skip(o) \/ WriteFails(o) \/ Unresolved(o) PROVE LiveStep
  BY <1>5, SkipIs DEF LiveStep, Inv
<1>6. ASSUME NEW o \in Obj, Look(o) \/ LookConfig(o) PROVE LiveStep
  BY <1>6 DEF LiveStep, Look, LookConfig
<1>7. Start \/ Report \/ Refresh => LiveStep
  BY DEF LiveStep, Start, Report, Refresh
<1> QED
  BY <1>1, <1>2, <1>3, <1>4, <1>5, <1>6, <1>7 DEF CheckInStep

\* The plan depends on the workspace, its baseline and what was read, and on nothing else.
LEMMA PlanStays ==
  ASSUME UNCHANGED <<work, base, seen>>
  PROVE  /\ \A o : Op(o)' = Op(o) /\ InConflict(o)' = InConflict(o) /\ Rank(o)' = Rank(o)
         /\ Plan(seen)' = Plan(seen)
         /\ \A o : run'.prev = run.prev => Families(o)' = Families(o) /\ Single(o)' = Single(o)
<1>1. \A o : Op(o)' = Op(o) /\ InConflict(o)' = InConflict(o)
  BY DEF Op, OpOf, InConflict, Conflict, Has
<1>2. \A o : Rank(o)' = Rank(o)
  BY <1>1 DEF Rank
<1>3. Plan(seen)' = Plan(seen)
  BY DEF Plan, OpOf, Has
<1>4. \A o : run'.prev = run.prev => Families(o)' = Families(o)
  BY <1>1 DEF Families
<1> QED
  BY <1>1, <1>2, <1>3, <1>4 DEF Single

RunOK ==
  /\ run \in RunState /\ IsContent(run.prev)
  /\ run.pc = "idle" => run = Idle
  /\ run.pc \in {"write", "replay"} <=> run.left # {}

LEMMA TypesAre ==
  TypeOK <=> /\ IsContent(live) /\ IsContent(work) /\ IsContent(base) /\ IsContent(seen) /\ RunOK
             /\ edits \in 0..MaxEdits /\ outside \in 0..MaxOutside
             /\ calm \in [rounds : 0..2, ok : BOOLEAN]
  BY DEF TypeOK, RunOK

\* A step to the next item.
LEMMA NextItem ==
  ASSUME Inv, UNCHANGED <<work, base, seen>>, Inside, run' \in RunState, run'.pc = "look",
         run'.left = {}, run'.todo \subseteq run.todo, run'.prev = run.prev
  PROVE  RunOK' /\ Chosen'
<1>1. RunOK'
  BY TypesAre DEF Inv, RunOK
<1>2. run'.todo \subseteq Plan(seen)'
  BY PlanStays DEF Inv, Chosen
<1> QED
  BY <1>1, <1>2 DEF Chosen

\* A step to the writes of item o.
LEMMA ThenWrite ==
  ASSUME Inv, UNCHANGED <<work, base, seen>>, NEW o \in Obj, Turn(o), ~InConflict(o),
         run' \in RunState, run'.pc = "write", run'.left = {o}, run'.todo = run.todo,
         run'.prev = run.prev,
         o \in Config => run'.fams = Families(o) /\ Families(o) # {}
  PROVE  RunOK' /\ Chosen'
<1>1. RunOK'
  BY TypesAre DEF Inv, RunOK
<1>2. run'.todo \subseteq Plan(seen)'
  BY PlanStays DEF Inv, Chosen, Turn, Inside
<1>3. AtItem(o)'
  BY PlanStays DEF Turn, AtItem
<1> QED
  BY <1>1, <1>2, <1>3 DEF Chosen

\* A step to the writes of a batch, one by one, or to the next of them.
LEMMA ThenReplay ==
  ASSUME Inv, UNCHANGED <<work, base, seen>>, Inside,
         run' \in RunState, run'.pc = "replay", run'.left # {}, run'.prev = run.prev,
         run'.todo \subseteq run.todo, run'.todo \subseteq Config,
         \A o \in run'.left : Single(o) /\ o \in Plan(seen)
  PROVE  RunOK' /\ Chosen'
<1>1. RunOK'
  BY TypesAre DEF Inv, RunOK
<1>2. run'.todo \subseteq Plan(seen)'
  BY PlanStays DEF Inv, Chosen
<1>3. \A o \in run'.left : Single(o)' /\ o \in Plan(seen)'
  BY PlanStays
<1> QED
  BY <1>1, <1>2, <1>3 DEF Chosen

\* A step that leaves the check-in where it is.
LEMMA RunStays ==
  ASSUME Inv, UNCHANGED <<work, base, seen>>, run' \in RunState, run'.pc = run.pc,
         run'.left = run.left, run'.todo = run.todo, run'.prev = run.prev, run'.fams = run.fams,
         run.pc = "idle" => run' = run
  PROVE  RunOK' /\ Chosen'
<1>1. RunOK'
  BY TypesAre DEF Inv, RunOK
<1>2. \A o : AtItem(o) => AtItem(o)'
  BY PlanStays DEF AtItem
<1> QED
  BY <1>1, <1>2, PlanStays DEF Inv, Chosen, Inside

LEMMA LiveKeeps ==
  ASSUME Inv, LiveStep
  PROVE  IsContent(live') /\ Rooted(live')
  BY PutsKeep, DropsKeep, TypesAre DEF Inv, LiveStep

LEMMA StartIs ==
  ASSUME TypeOK, Start
  PROVE  /\ run.pc = "idle" /\ run' \in RunState /\ run'.pc = "look" /\ run'.left = {}
         /\ run'.todo \subseteq Plan(seen) /\ ~run'.failed
         /\ IsContent(run'.prev)
         /\ run'.whole => run'.todo = Plan(seen) /\ (seen = live \/ calm.rounds > 0)
         /\ \A o \in Obj : run'.prev[o] # Absent(o) => run'.prev[o] = live[o]
         /\ run'.whole => \A o \in Config : Op(o) = "delete" => run'.prev[o] = live[o]
         /\ UNCHANGED <<live, work, base, seen, edits, outside, calm>>
<1>1. PICK s \in {Obj} \cup {ScopeOf(o) : o \in Type \cup Dp}, unread \in SUBSET Retirable :
        run' = [Idle EXCEPT !.pc = "look", !.todo = Plan(seen) \cap s,
                 !.whole = Plan(seen) \subseteq s /\ unread = {} /\ (seen = live \/ calm.rounds > 0),
                 !.prev = [o \in Obj |-> IF o \in (Retirable \cap s) \ unread
                                         THEN live[o] ELSE Absent(o)]]
  BY DEF Start
<1> DEFINE todo == Plan(seen) \cap s
           all == Plan(seen) \subseteq s /\ unread = {} /\ (seen = live \/ calm.rounds > 0)
           was == [o \in Obj |-> IF o \in (Retirable \cap s) \ unread THEN live[o] ELSE Absent(o)]
<1>2. IsContent(was)
  <2>1. was = [o \in Obj |-> was[o]]
    OBVIOUS
  <2>2. \A o \in Obj : was[o] \in Values(o) \cup {Absent(o)}
    BY ContentAt, TypesAre
  <2> HIDE DEF was
  <2> QED
    BY <2>1, <2>2, Contents
<1>3. todo \subseteq Plan(seen) /\ todo \subseteq Obj /\ all \in BOOLEAN
      /\ (all => todo = Plan(seen) /\ Plan(seen) \subseteq s /\ unread = {} /\ (seen = live \/ calm.rounds > 0))
  BY DEF Plan
<1>4. \A o \in Obj : was[o] # Absent(o) => was[o] = live[o]
  OBVIOUS
<1>5. all => \A o \in Config : Op(o) = "delete" => was[o] = live[o]
  <2> SUFFICES ASSUME all, NEW o \in Config, Op(o) = "delete" PROVE was[o] = live[o]
    OBVIOUS
  <2>1. o \in Plan(seen) /\ o \in Obj /\ o \in Retirable
    BY Kinds DEF Plan, Op, Retirable
  <2> QED
    BY <2>1
<1>6. was \in [Obj -> Value]
  BY <1>2 DEF IsContent
<1>7. run' = [Idle EXCEPT !.pc = "look", !.todo = todo, !.whole = all, !.prev = was]
  BY <1>1
<1> HIDE DEF todo, all, was
<1>8. /\ run' \in RunState /\ run'.pc = "look" /\ run'.left = {} /\ run'.todo = todo
      /\ run'.whole = all /\ run'.prev = was /\ run'.failed = FALSE
  BY <1>3, <1>6, <1>7, IdleIs DEF RunState
<1>9. run.pc = "idle" /\ UNCHANGED <<live, work, base, seen, edits, outside, calm>>
  BY DEF Start
<1> QED
  BY <1>2, <1>3, <1>4, <1>5, <1>8, <1>9

LEMMA StepKeeps ==
  ASSUME Inv, CheckInStep
  PROVE  RunOK' /\ Chosen'
<1>r. run \in RunState
  BY TypesAre DEF Inv, RunOK
<1>1. ASSUME NEW o \in Obj, Skip(o) \/ WriteFails(o) \/ Unresolved(o) PROVE RunOK' /\ Chosen'
  <2>1. UNCHANGED <<work, base, seen>> /\ Inside
    BY <1>1, SkipIs DEF Skip, WriteFails, Unresolved, Inv
  <2>2. PICK s : s = Checked(o) /\ (run' = s \/ \E possible \in BOOLEAN : run' = Failed(s, possible))
    BY <1>1, SkipIs DEF Inv
  <2>3. /\ s \in RunState /\ s.pc = "look" /\ s.left = {} /\ s.todo \subseteq run.todo
        /\ s.prev = run.prev
    BY <1>r, <2>2, CheckedIs
  <2>4. /\ run' \in RunState /\ run'.pc = "look" /\ run'.left = {} /\ run'.todo \subseteq run.todo
        /\ run'.prev = run.prev
    <3>1. run' = s \/ \E possible \in BOOLEAN : run' = Failed(s, possible)
      BY <2>2
    <3>2. ASSUME NEW possible \in BOOLEAN, run' = Failed(s, possible)
          PROVE  run' \in RunState /\ run'.pc = s.pc /\ run'.left = s.left /\ run'.todo = s.todo
                 /\ run'.prev = s.prev
      <4>1. s \in RunState
        BY <2>3
      <4> QED
        BY <3>2, <4>1, FailedIs
    <3> QED
      BY <2>3, <3>1, <3>2
  <2> QED
    BY <2>1, <2>4, NextItem
<1>2. ASSUME NEW o \in Obj, Write(o) PROVE RunOK' /\ Chosen'
  <2>1. UNCHANGED <<work, base, seen>> /\ Inside
    BY <1>2 DEF Write, Inside
  <2>2. PICK s : s = Checked(o) /\ (run' = s \/ run' = Failed(s, TRUE))
    BY <1>2 DEF Write
  <2>3. /\ s \in RunState /\ s.pc = "look" /\ s.left = {} /\ s.todo \subseteq run.todo
        /\ s.prev = run.prev
    BY <1>r, <2>2, CheckedIs
  <2>4. /\ run' \in RunState /\ run'.pc = "look" /\ run'.left = {} /\ run'.todo \subseteq run.todo
        /\ run'.prev = run.prev
    <3>1. run' = s \/ run' = Failed(s, TRUE)
      BY <2>2
    <3> QED
      BY <2>3, <3>1, FailedIs
  <2> QED
    BY <2>1, <2>4, NextItem
<1>3. ASSUME NEW o \in Obj, WriteFamily(o) PROVE RunOK' /\ Chosen'
  <2>1. UNCHANGED <<work, base, seen>> /\ run.pc = "write" /\ Inside /\ AtItem(o)
    BY <1>3, WriteFamilyDoes DEF WriteFamily, Inside
  <2>2. PICK f, s : /\ s = Checked(o)
                    /\ \/ run.fams = {f} /\ run' = s
                       \/ run.fams # {f} /\ f \in run.fams /\ run' = [run EXCEPT !.fams = @ \ {f}]
                       \/ run' = Failed(s, TRUE)
    BY <1>3, WriteFamilyDoes
  <2>3. /\ s \in RunState /\ s.pc = "look" /\ s.left = {} /\ s.todo \subseteq run.todo
        /\ s.prev = run.prev
    BY <1>r, <2>2, CheckedIs
  <2>4. CASE run' = s \/ run' = Failed(s, TRUE)
    <3>1. /\ run' \in RunState /\ run'.pc = "look" /\ run'.left = {} /\ run'.todo \subseteq run.todo
          /\ run'.prev = run.prev
      BY <2>3, <2>4, FailedIs
    <3> QED
      BY <2>1, <3>1, NextItem
  <2>5. CASE run.fams # {f} /\ f \in run.fams /\ run' = [run EXCEPT !.fams = @ \ {f}]
    <3>1. /\ run' \in RunState /\ run'.pc = run.pc /\ run'.left = run.left /\ run'.todo = run.todo
          /\ run'.prev = run.prev /\ run'.fams = run.fams \ {f}
      BY <1>r, <2>5 DEF RunState
    <3>2. RunOK'
      BY <2>1, <3>1, TypesAre DEF Inv, RunOK
    <3>3. run'.fams # {}
      BY <2>5, <3>1
    <3>4. AtItem(o)'
      BY <2>1, <3>1, <3>3, PlanStays DEF AtItem
    <3>5. run'.todo \subseteq Plan(seen)'
      BY <2>1, <3>1, PlanStays DEF Inv, Chosen
    <3> QED
      BY <2>1, <3>1, <3>2, <3>4, <3>5 DEF Chosen
  <2> QED
    BY <2>2, <2>4, <2>5
<1>4. ASSUME NEW b \in SUBSET Config, Flush(b) PROVE RunOK' /\ Chosen'
  <2>1. UNCHANGED <<work, base, seen>> /\ run.pc = "look" /\ Inside /\ run.left = {} /\ b # {}
    BY <1>4, TypesAre DEF Flush, Batchable, Inside, Inv, RunOK
  <2>2. CASE run' = [run EXCEPT !.todo = @ \ b]
    <3>1. /\ run' \in RunState /\ run'.pc = "look" /\ run'.left = {} /\ run'.todo \subseteq run.todo
          /\ run'.prev = run.prev
      BY <1>r, <2>1, <2>2 DEF RunState
    <3> QED
      BY <2>1, <3>1, NextItem
  <2>3. CASE run' = [run EXCEPT !.pc = "replay", !.todo = @ \ b, !.left = b]
    <3>1. b \subseteq Obj
      BY DEF Obj
    <3>2. /\ run' \in RunState /\ run'.pc = "replay" /\ run'.left = b /\ run'.todo = run.todo \ b
          /\ run'.prev = run.prev
      BY <1>r, <2>1, <2>3, <3>1 DEF RunState
    <3>3. run'.todo \subseteq Config
      <4>1. PICK o : o \in b
        BY <2>1
      <4>2. \A p \in run'.todo : p \in Obj /\ Rank(o) <= Rank(p)
        BY <1>4, <1>r, <3>2, <4>1, FlushDoes DEF RunState
      <4> QED
        BY <4>1, <4>2, RankIs, Kinds
    <3> QED
      BY <1>4, <2>1, <3>2, <3>3, FlushDoes, ThenReplay
  <2> QED
    BY <1>4, <2>2, <2>3 DEF Flush
<1>5. ASSUME NEW o \in Obj, Replay(o) PROVE RunOK' /\ Chosen'
  <2>1. UNCHANGED <<work, base, seen>> /\ run.pc = "replay" /\ Inside /\ o \in run.left
    BY <1>5 DEF Replay, Inside
  <2>2. PICK s : s = Replayed(o) /\ (run' = s \/ \E possible \in BOOLEAN : run' = Failed(s, possible))
    <3>1. CanPut(o) \in BOOLEAN
      BY DEF CanPut, Standing, Has
    <3> QED
      BY <1>5, <3>1, ReplayDoes
  <2>3. /\ s \in RunState /\ s.todo = run.todo /\ s.prev = run.prev /\ s.left = run.left \ {o}
        /\ s.pc = (IF run.left = {o} THEN "look" ELSE "replay")
    BY <1>r, <2>2, ReplayedIs
  <2>4. /\ run' \in RunState /\ run'.todo = run.todo /\ run'.prev = run.prev
        /\ run'.left = run.left \ {o}
        /\ run'.pc = (IF run.left = {o} THEN "look" ELSE "replay")
    <3>1. run' = s \/ \E possible \in BOOLEAN : run' = Failed(s, possible)
      BY <2>2
    <3>2. ASSUME NEW possible \in BOOLEAN, run' = Failed(s, possible)
          PROVE  run' \in RunState /\ run'.pc = s.pc /\ run'.left = s.left /\ run'.todo = s.todo
                 /\ run'.prev = s.prev
      <4>1. s \in RunState
        BY <2>3
      <4> QED
        BY <3>2, <4>1, FailedIs
    <3> QED
      BY <2>3, <3>1, <3>2
  <2>5. CASE run.left = {o}
    BY <2>1, <2>4, <2>5, NextItem
  <2>6. CASE run.left # {o}
    <3>1. run'.left # {} /\ run'.todo \subseteq Config /\ \A p \in run'.left : Single(p) /\ p \in Plan(seen)
      BY <2>1, <2>4, <2>6 DEF Inv, Chosen
    <3> QED
      BY <2>1, <2>4, <2>6, <3>1, ThenReplay
  <2> QED
    BY <2>5, <2>6
<1>6. ASSUME NEW o \in Obj, Look(o) PROVE RunOK' /\ Chosen'
  <2>1. /\ run' = [run EXCEPT !.pc = "write", !.left = {o}]
        /\ Turn(o) /\ ~InConflict(o) /\ o \notin Config /\ UNCHANGED <<work, base, seen>>
    BY <1>6 DEF Look
  <2>2. /\ run' \in RunState /\ run'.pc = "write" /\ run'.left = {o} /\ run'.todo = run.todo
        /\ run'.prev = run.prev
    BY <1>r, <2>1 DEF RunState
  <2> QED
    BY <2>1, <2>2, ThenWrite
<1>7. ASSUME NEW o \in Obj, LookConfig(o) PROVE RunOK' /\ Chosen'
  <2>1. /\ run' = [run EXCEPT !.pc = "write", !.left = {o}, !.fams = Families(o)]
        /\ Turn(o) /\ ~InConflict(o) /\ Families(o) # {} /\ UNCHANGED <<work, base, seen>>
    BY <1>7 DEF LookConfig
  <2>2. Families(o) \subseteq Family
    BY DEF Families
  <2>3. /\ run' \in RunState /\ run'.pc = "write" /\ run'.left = {o} /\ run'.todo = run.todo
        /\ run'.prev = run.prev /\ run'.fams = Families(o)
    BY <1>r, <2>1, <2>2 DEF RunState
  <2> QED
    BY <2>1, <2>3, ThenWrite
<1>8. CASE Start
  <2>1. Plan(seen)' = Plan(seen)
    BY <1>8, StartIs, PlanStays DEF Inv
  <2> QED
    BY <1>8, <2>1, StartIs DEF Inv, RunOK, Chosen, Inside
<1>9. CASE Report
  <2>1. run' = Idle \/ run' = [Idle EXCEPT !.pc = "refresh"]
    BY <1>9 DEF Report
  <2>2. /\ run' \in RunState /\ run'.left = {} /\ run'.prev = Nothing
        /\ run'.pc \in {"idle", "refresh"} /\ (run'.pc = "idle" => run' = Idle)
    BY <2>1, IdleIs DEF RunState
  <2> QED
    BY <2>2, NothingIs DEF RunOK, Chosen, Inside
<1>10. CASE Refresh
  <2>1. run' = Idle
    BY <1>10 DEF Refresh
  <2> QED
    BY <2>1, IdleIs, NothingIs DEF RunOK, Chosen, Inside
<1> QED
  BY <1>1, <1>2, <1>3, <1>4, <1>5, <1>6, <1>7, <1>8, <1>9, <1>10 DEF CheckInStep

LEMMA BoundsKeep ==
  ASSUME TypeOK, [Next]_vars
  PROVE  /\ edits' \in 0..MaxEdits /\ outside' \in 0..MaxOutside
         /\ calm' \in [rounds : 0..2, ok : BOOLEAN]
<1>t. /\ edits \in 0..MaxEdits /\ outside \in 0..MaxOutside /\ run \in RunState
      /\ calm \in [rounds : 0..2, ok : BOOLEAN] /\ MaxEdits \in Nat /\ MaxOutside \in Nat
  BY ValuesAssumption, TypesAre DEF RunOK
<1>n. NoRound \in [rounds : 0..2, ok : BOOLEAN]
  BY DEF NoRound
<1>1. CASE Edit /\ outside' \in 0..MaxOutside
  BY <1>1, <1>t, <1>n DEF Edit
<1>2. CASE Outside
  BY <1>2, <1>t, <1>n DEF Outside
<1>3. CASE edits' = edits /\ calm' \in {calm, NoRound} /\ outside' \in 0..MaxOutside
  BY <1>3, <1>t, <1>n
<1>4. CASE Report
  <2>1. /\ edits' = edits /\ outside' = outside
        /\ \/ calm' = NoRound
           \/ calm' = [rounds |-> IF calm.rounds < 2 THEN calm.rounds + 1 ELSE 2, ok |-> ~run.failed]
    BY <1>4 DEF Report
  <2>2. (IF calm.rounds < 2 THEN calm.rounds + 1 ELSE 2) \in 0..2
    BY <1>t
  <2>3. ASSUME NEW k \in 0..2, NEW good \in BOOLEAN, calm' = [rounds |-> k, ok |-> good]
        PROVE  calm' \in [rounds : 0..2, ok : BOOLEAN]
    BY <2>3
  <2>4. (~run.failed) \in BOOLEAN
    OBVIOUS
  <2>5. calm' \in [rounds : 0..2, ok : BOOLEAN]
    BY <1>n, <2>1, <2>2, <2>3, <2>4, Zenon
  <2> QED
    BY <1>t, <2>1, <2>5
<1>5. CASE CheckOut
  <2>1. PICK read \in Reads : Counted(read)
    BY <1>5 DEF CheckOut
  <2> QED
    BY <1>1, <1>5, <1>t, <2>1, CountedIs DEF CheckOut
<1>6. ASSUME NEW t \in Type, Generate(t) PROVE Edit /\ outside' \in 0..MaxOutside
  <2>1. Edit /\ PageMayRead
    BY <1>6 DEF Generate
  <2> QED
    BY <1>t, <2>1, PageHas, TypesAre
<1>7. \A o : Remove(o) \/ Forget(o) => Edit /\ outside' = outside
  BY DEF Remove, Forget
<1>8. CASE Reload \/ Refresh
  <2>1. PageMayRead /\ Recalled /\ edits' = edits
    BY <1>8 DEF Reload, Refresh, PageMayRead
  <2>2. calm' \in {calm, NoRound}
    BY <2>1 DEF Recalled
  <2> QED
    BY <1>t, <1>3, <2>1, <2>2, PageHas, TypesAre
<1>9. UNCHANGED vars => UNCHANGED <<edits, outside, calm>>
  BY DEF vars
<1>10. CheckInStep => Report \/ Refresh \/ UNCHANGED <<edits, outside, calm>>
  BY DEF CheckInStep, Start, Skip, Look, Write, WriteFails, LookConfig, WriteFamily,
         Unresolved, Replay, Flush
<1> QED
  BY <1>t, <1>1, <1>2, <1>3, <1>4, <1>5, <1>6, <1>7, <1>8, <1>9, <1>10 DEF Next

\* A model applied to datapoints keeps the workspace tidy.
LEMMA GenerateKeeps ==
  ASSUME Inv, NEW t \in Type, Generate(t)
  PROVE  IsContent(work') /\ Tidy'
<1>1. PICK v \in Version, ds \in SUBSET Children(t), fs \in SUBSET Family, w \in Version :
        /\ Cardinality(fs) <= 1
        /\ work' = [o \in Obj |->
            CASE o = t -> v
              [] o \in ds -> There
              [] o \in Config /\ Parent[o] \in ds -> [f \in Family |-> IF f \in fs THEN w ELSE work[o][f]]
              [] OTHER -> work[o]]
  BY Zenon DEF Generate
<1>2. IsContent(work) /\ t \in Obj /\ ds \subseteq Dp
  BY Kinds, BelowIs, TypesAre DEF Inv
<1>3. /\ work'[t] = v
      /\ \A o \in ds : work'[o] = There
  BY <1>1, <1>2, Kinds
<1>4. ASSUME NEW o \in Config, Parent[o] \in ds
      PROVE  work'[o] \in Values(o) \cup {Absent(o)}
  <2> DEFINE new == [f \in Family |-> IF f \in fs THEN w ELSE work[o][f]]
  <2>1. work'[o] = new
    BY <1>1, <1>2, <1>4, Kinds
  <2>2. work[o] \in [Family -> Version \cup {Off, None}] /\ work[o]["archive"] # Off
    BY <1>2, ContentAt, MayStand, Kinds
  <2>3. new \in [Family -> Version \cup {Off, None}] /\ new["archive"] # Off
    BY <2>2, ValuesAssumption DEF Family
  <2> HIDE DEF new
  <2> QED
    BY <2>1, <2>3, MayStand
<1>5. \A o \in Obj : o # t /\ o \notin ds /\ ~(o \in Config /\ Parent[o] \in ds) => work'[o] = work[o]
  BY <1>1
<1>6. ASSUME NEW o \in Obj
      PROVE  work'[o] \in Values(o) \cup {Absent(o)}
  <2>1. o = t => v \in Values(o)
    BY MayStand
  <2>2. o \in ds => There \in Values(o)
    BY <1>2, MayStand
  <2>3. work[o] \in Values(o) \cup {Absent(o)}
    BY <1>2, ContentAt
  <2> QED
    BY <1>3, <1>4, <1>5, <2>1, <2>2, <2>3
<1>7. IsContent(work')
  <2>1. work' = [o \in Obj |-> work'[o]]
    BY <1>1
  <2> QED
    BY <1>6, <2>1, Contents
<1>8. Has(work', t) /\ \A o \in ds : Has(work', o)
  <2>1. v # Absent(t)
    BY MayStand
  <2>2. \A o \in ds : There # Absent(o)
    BY <1>2, MayStand, ValuesAssumption
  <2> QED
    BY <1>3, <2>1, <2>2 DEF Has
<1>9. ASSUME NEW o \in Obj \ Type, Has(work', o), Has(base, Parent[o])
      PROVE  Has(work', Parent[o])
  <2>1. Parent[o] \in Obj \ Config
    BY <1>9, Kinds, Parents
  <2>2. CASE o \in ds
    <3>1. Parent[o] = t
      BY <1>2, <2>2, BelowIs
    <3> QED
      BY <1>8, <3>1
  <2>3. CASE Parent[o] \in ds
    BY <1>8, <2>3
  <2>4. CASE o \notin ds /\ Parent[o] \notin ds
    <3>1. work'[o] = work[o]
      BY <1>2, <1>5, <1>9, <2>4, Kinds
    <3>2. Has(work, Parent[o])
      BY <1>9, <3>1 DEF Has, Inv, Tidy
    <3>3. CASE Parent[o] = t
      BY <1>8, <3>3
    <3>4. CASE Parent[o] # t
      BY <1>5, <2>1, <2>4, <3>2, <3>4 DEF Has
    <3> QED
      BY <3>3, <3>4
  <2> QED
    BY <2>2, <2>3, <2>4
<1>10. base' = base
  BY DEF Generate
<1> QED
  BY <1>7, <1>9, <1>10 DEF Tidy, Has

\* So do an object taken out of the workspace and a datapoint forgotten.
LEMMA TidyWithout ==
  ASSUME Inv, NEW s, work' = Without(work, s), base' \in {base, Without(base, s)},
         \A x \in Obj \ Type : Has(work, x) /\ Has(base, Parent[x]) /\ Parent[x] \in s =>
                               x \in s \/ ~Has(base', Parent[x])
  PROVE  IsContent(work') /\ IsContent(base') /\ Tidy'
<1>1. /\ IsContent(work) /\ IsContent(base)
      /\ IsContent(work') /\ IsContent(base')
      /\ \A o \in Obj : work'[o] = IF o \in s THEN Absent(o) ELSE work[o]
      /\ \A o \in Obj : base'[o] \in {base[o], Absent(o)}
  BY WithoutIs, TypesAre DEF Inv
<1>2. ASSUME NEW x \in Obj \ Type, Has(work', x), Has(base', Parent[x])
      PROVE  Has(work', Parent[x])
  <2>1. Parent[x] \in Obj
    BY Kinds, Parents
  <2>2. x \notin s /\ Has(work, x) /\ Has(base, Parent[x])
    BY <1>1, <1>2, <2>1 DEF Has
  <2>3. Parent[x] \notin s /\ Has(work, Parent[x])
    BY <1>2, <2>2 DEF Inv, Tidy
  <2> QED
    BY <1>1, <2>1, <2>3 DEF Has
<1> QED
  BY <1>1, <1>2 DEF Tidy, Has

LEMMA RemoveKeeps ==
  ASSUME Inv, NEW o \in Obj, Remove(o)
  PROVE  IsContent(work') /\ Tidy'
<1>1. work' = Without(work, {o} \cup Below(o)) /\ base' = base
  BY DEF Remove
<1> QED
  BY <1>1, UnderIt, TidyWithout

LEMMA ForgetKeeps ==
  ASSUME Inv, NEW d \in Dp, Forget(d)
  PROVE  IsContent(work') /\ IsContent(base') /\ Tidy'
<1>1. work' = Without(work, Forgotten(d)) /\ base' = Without(base, Forgotten(d))
  BY DEF Forget
<1>2. ASSUME NEW x \in Obj \ Type, Parent[x] \in Forgotten(d)
      PROVE  ~Has(base', Parent[x])
  <2>1. Parent[x] \in Obj
    BY Kinds, Parents
  <2> QED
    BY <1>1, <1>2, <2>1, WithoutIs, TypesAre DEF Inv, Has
<1> QED
  BY <1>1, <1>2, TidyWithout

LEMMA OutsideIs ==
  ASSUME Inv, Outside
  PROVE  /\ UNCHANGED <<work, base, seen, edits>> /\ outside' # outside /\ calm' = NoRound
         /\ run' = [run EXCEPT !.whole = FALSE]
         /\ IsContent(live') /\ Rooted(live')
<1>1. PICK o \in Obj :
        \/ CanPut(o) /\ \E v \in Values(o) : v # live[o] /\ live' = [live EXCEPT ![o] = v]
        \/ CanDrop(o) /\ live' = Without(live, {o} \cup Below(o))
  BY DEF Outside
<1>2. ASSUME CanPut(o), NEW v \in Values(o), live' = [live EXCEPT ![o] = v]
      PROVE  Puts({o})
  <2>1. live = [q \in Obj |-> live[q]]
    BY ContentAt, TypesAre DEF Inv, IsContent
  <2>2. live'[o] = v /\ live' = [q \in Obj |-> live'[q]] /\ \A q \in Obj \ {o} : live'[q] = live[q]
    BY <1>2, <2>1
  <2>3. Has(live', o)
    BY <2>2, StandsIn DEF Has
  <2> QED
    BY <1>2, <2>2, <2>3 DEF Puts
<1>3. IsContent(live') /\ Rooted(live')
  BY <1>1, <1>2, PutsKeep, DropsKeep, TypesAre DEF Inv, Drops
<1>4. outside' # outside
  BY TypesAre DEF Outside, Inv
<1> QED
  BY <1>3, <1>4 DEF Outside

LEMMA InitInv == Init => Inv
<1> SUFFICES ASSUME Init PROVE Inv
  OBVIOUS
<1>1. PICK s \in Held, v \in Version :
        live = [o \in Obj |-> IF o \notin s THEN Absent(o)
                               ELSE CASE o \in Type -> v
                                      [] o \in Dp -> There
                                      [] OTHER -> [f \in Family |-> v]]
  BY DEF Init
<1>a. s \subseteq Obj /\ \A o \in s \ Type : Parent[o] \in s
  BY HeldAssumption DEF Obj
<1>2. ASSUME NEW o \in s
      PROVE  live[o] \in Values(o)
  <2>1. CASE o \in Type
    BY <1>a, <1>1, <2>1, MayStand, Kinds
  <2>2. CASE o \in Dp
    BY <1>a, <1>1, <2>2, MayStand, Kinds
  <2>3. CASE o \in Config
    <3> DEFINE new == [f \in Family |-> v]
    <3>1. live[o] = new
      BY <1>a, <1>1, <2>3, Kinds
    <3>2. new \in [Family -> Version \cup {Off, None}] /\ new["archive"] # Off /\ new["archive"] # None
      BY ValuesAssumption DEF Family
    <3>3. new # NoConfig
      BY <3>2 DEF NoConfig, Family
    <3> HIDE DEF new
    <3> QED
      BY <2>3, <3>1, <3>2, <3>3, MayStand
  <2> QED
    BY <1>a, <2>1, <2>2, <2>3, Kinds
<1>3. \A o \in Obj \ s : live[o] = Absent(o)
  BY <1>1
<1>4. IsContent(live)
  <2>1. live = [o \in Obj |-> live[o]]
    BY <1>1
  <2> QED
    BY <1>2, <1>3, <2>1, Contents
<1>5. \A o \in Obj : Has(live, o) <=> o \in s
  BY <1>a, <1>2, <1>3, StandsIn DEF Has
<1>6. Rooted(live)
  BY <1>a, <1>1, <1>5, Kinds, Parents DEF Rooted, Standing
<1>7. Tidy
  BY NothingIs DEF Init, Tidy
<1>8. run = Idle /\ RunOK /\ Chosen
  BY IdleIs, NothingIs DEF Init, RunOK, Chosen, Inside
<1>9. /\ edits \in 0..MaxEdits /\ outside \in 0..MaxOutside
      /\ calm \in [rounds : 0..2, ok : BOOLEAN]
  BY ValuesAssumption DEF Init, NoRound
<1>10. IsContent(work) /\ IsContent(base) /\ IsContent(seen)
  BY <1>4, NothingIs DEF Init
<1> QED
  BY <1>4, <1>6, <1>7, <1>8, <1>9, <1>10, TypesAre DEF Inv

LEMMA NextInv == Inv /\ [Next]_vars => Inv'
<1> SUFFICES ASSUME Inv, [Next]_vars PROVE Inv'
  OBVIOUS
<1>t. /\ IsContent(live) /\ IsContent(work) /\ IsContent(base) /\ IsContent(seen) /\ RunOK
      /\ Rooted(live) /\ Tidy /\ Chosen
      /\ edits' \in 0..MaxEdits /\ outside' \in 0..MaxOutside
      /\ calm' \in [rounds : 0..2, ok : BOOLEAN]
  BY TypesAre, BoundsKeep DEF Inv
<1>e. ASSUME run.pc = "idle", run' = run, IsContent(live'), IsContent(work'), IsContent(base'),
             IsContent(seen'), Rooted(live'), Tidy'
      PROVE  Inv'
  <2>1. RunOK' /\ Chosen'
    BY <1>e, <1>t DEF RunOK, Chosen, Inside
  <2> QED
    BY <1>e, <1>t, <2>1, TypesAre DEF Inv, TypeOK, RunOK
<1>s. PageMayRead => IsContent(seen')
  BY <1>t, PageHas, TypesAre DEF Inv
<1>1. CASE CheckOut
  <2>1. PICK read \in Reads : work' = read /\ base' = read
    BY <1>1 DEF CheckOut
  <2>2. IsContent(work') /\ IsContent(base') /\ Tidy'
    BY <1>t, <2>1, ReadsAre DEF Tidy, Has
  <2> QED
    BY <1>1, <1>t, <1>e, <2>2 DEF CheckOut, Edit
<1>2. CASE Reload
  <2>1. UNCHANGED <<live, work, base, run>> /\ run.pc = "idle" /\ IsContent(seen')
    BY <1>2, <1>s DEF Reload, PageMayRead
  <2>2. Tidy'
    BY <1>t, <2>1 DEF Tidy, Has
  <2> QED
    BY <1>t, <1>e, <2>1, <2>2
<1>3. ASSUME NEW t \in Type, Generate(t) PROVE Inv'
  <2>1. UNCHANGED <<live, base, run>> /\ run.pc = "idle" /\ IsContent(seen')
    BY <1>3, <1>s DEF Generate, Edit
  <2> QED
    BY <1>3, <1>t, <1>e, <2>1, GenerateKeeps
<1>4. ASSUME NEW o \in Obj, Remove(o) PROVE Inv'
  BY <1>4, <1>t, <1>e, RemoveKeeps DEF Remove, Edit
<1>5. ASSUME NEW o \in Dp, Forget(o) PROVE Inv'
  BY <1>5, <1>t, <1>e, ForgetKeeps DEF Forget, Edit
<1>6. ASSUME UNCHANGED <<work, base>>, RunOK', Chosen', IsContent(live'), Rooted(live'),
             IsContent(seen')
      PROVE  Inv'
  <2>1. Tidy'
    BY <1>6, <1>t DEF Tidy, Has
  <2> QED
    BY <1>6, <1>t, <2>1, TypesAre DEF Inv, TypeOK, RunOK
<1>7. CASE Outside
  <2>1. /\ run' \in RunState /\ run'.pc = run.pc /\ run'.left = run.left /\ run'.todo = run.todo
        /\ run'.prev = run.prev /\ run'.fams = run.fams
    BY <1>7, <1>t, OutsideIs DEF RunOK, RunState
  <2>2. run.pc = "idle" => run' = run
    <3> SUFFICES ASSUME run.pc = "idle" PROVE run' = run
      OBVIOUS
    <3>1. run = Idle
      BY <1>t DEF RunOK
    <3> QED
      BY <1>7, <3>1, IdleIs, OutsideIs DEF Idle
  <2>3. RunOK' /\ Chosen'
    BY <1>7, <2>1, <2>2, OutsideIs, RunStays
  <2> QED
    BY <1>6, <1>7, <1>t, <2>3, OutsideIs
<1>8. CASE CheckInStep
  <2>1. work' = work /\ base' = base /\ (seen' = seen \/ Refresh)
    BY <1>8 DEF CheckInStep, Start, Report, Refresh, Skip, Look, Write, WriteFails, LookConfig,
                WriteFamily, Unresolved, Replay, Flush
  <2>2. IsContent(seen')
    BY <1>t, <1>s, <2>1 DEF Refresh
  <2> QED
    BY <1>6, <1>8, <1>t, <2>1, <2>2, LiveSteps, LiveKeeps, StepKeeps
<1>9. CASE UNCHANGED vars
  <2>1. RunOK' /\ Chosen'
    BY <1>9, <1>t, RunStays DEF vars, RunOK
  <2> QED
    BY <1>6, <1>9, <1>t, <2>1 DEF vars
<1> QED
  BY <1>1, <1>2, <1>3, <1>4, <1>5, <1>7, <1>8, <1>9 DEF Next

LEMMA Invariant == Spec => []Inv
  BY InitInv, NextInv, PTL DEF Spec

\* The types of the model's state: TypeOK holds in every behaviour; a check-in that is over
\* holds nothing.
THEOREM TypeCorrect == Spec => []TypeOK
<1>1. Inv => TypeOK
  BY DEF Inv
<1> QED
  BY <1>1, Invariant, PTL

-----------------------------------------------------------------------------
(* What a check-in takes away, and what it overwrites. *)

\* Another step than one of a check-in leaves the project alone, but for the others' changes.
LEMMA OnlyCheckIns ==
  ASSUME Inv, [Next]_vars, outside' = outside
  PROVE  live' = live \/ CheckInStep
<1>1. Outside => outside' # outside
  BY OutsideIs
<1>2. \A o : CheckOut \/ Reload \/ Generate(o) \/ Remove(o) \/ Forget(o) => live' = live
  BY DEF CheckOut, Reload, Generate, Remove, Forget
<1> QED
  BY <1>1, <1>2 DEF Next, vars

LEMMA DeletableIs ==
  ASSUME NEW o, Deletable(o)
  PROVE  Has(base, o) /\ ~Has(work, o) /\ Has(seen, o) /\ seen[o] = base[o]
  BY OpIs DEF Deletable, Op, InConflict, Conflict

LEMMA Taken ==
  ASSUME Inv, LiveStep, NEW o \in Obj, Has(live, o), live'[o] = Absent(o)
  PROVE  \E p \in {o} \cup {d \in Dp : o \in Children(d)} : Deletable(p) /\ live'[p] = Absent(p)
<1>1. CASE live' = live
  BY <1>1 DEF Has
<1>2. ASSUME NEW x \in Obj \ Config, Deletable(x), Drops(x)
      PROVE  \E p \in {o} \cup {d \in Dp : o \in Children(d)} : Deletable(p) /\ live'[p] = Absent(p)
  <2>1. live'[x] = Absent(x) /\ o \in {x} \cup Below(x)
    BY <1>2, DropsKeep, TypesAre DEF Inv, Has
  <2>2. CASE o = x
    BY <1>2, <2>1, <2>2
  <2>3. CASE x \in Dp /\ o \in Below(x)
    <3>1. o \in Children(x)
      BY <2>3, BelowIs
    <3> QED
      BY <1>2, <2>1, <2>3, <3>1
  <2>4. CASE x \in Type /\ o \in Below(x)
    <3>1. \A d \in Children(x) : ~Has(live, d)
      BY <1>2, <2>4 DEF Drops, CanDrop
    <3>2. o \in Config /\ Parent[o] \in Children(x)
      BY <2>4, <3>1, BelowIs
    <3>3. Has(live, Parent[o])
      BY <3>2, Kinds DEF Inv, Rooted, Standing
    <3> QED
      BY <3>1, <3>2, <3>3
  <2> QED
    BY <2>1, <2>2, <2>3, <2>4, Kinds
<1>3. ASSUME NEW s, Puts(s),
             \A x \in s : ~InConflict(x) /\ (Op(x) # "delete" => Has(live', x))
      PROVE  Deletable(o)
  <2>1. o \in s
    BY <1>3 DEF Puts, Has
  <2>2. ~Has(live', o)
    BY DEF Has
  <2> QED
    BY <1>3, <2>1, <2>2 DEF Deletable
<1> QED
  BY <1>1, <1>2, <1>3 DEF LiveStep, Puts

LEMMA Overwritten ==
  ASSUME Inv, LiveStep, NEW o \in Obj, live'[o] # live[o], live'[o] # Absent(o)
  PROVE  ~InConflict(o)
<1>1. ASSUME NEW x \in Obj, Drops(x)
      PROVE  live'[o] \in {Absent(o), live[o]}
  BY <1>1, DropsKeep, TypesAre DEF Inv
<1>2. ASSUME NEW s, Puts(s), \A x \in s : ~InConflict(x)
      PROVE  ~InConflict(o)
  BY <1>2 DEF Puts
<1> QED
  BY <1>1, <1>2 DEF LiveStep

\* Of what the others leave alone, a check-in takes away only what was checked out, removed
\* from the workspace and unchanged when the page last read it, or what is under such a
\* datapoint.
THEOREM RemovesOnly == Spec => TakesOnlyRemoved
<1>1. ASSUME Inv, [Next]_vars, outside' = outside, NEW o \in Obj, Has(live, o), live'[o] = Absent(o)
      PROVE  \E p \in {o} \cup {d \in Dp : o \in Children(d)} :
               /\ Has(base, p) /\ ~Has(work, p) /\ seen[p] = base[p]
               /\ live'[p] = Absent(p)
  <2>1. LiveStep
    BY <1>1, OnlyCheckIns, LiveSteps DEF LiveStep
  <2>2. PICK p \in {o} \cup {d \in Dp : o \in Children(d)} : Deletable(p) /\ live'[p] = Absent(p)
    BY <1>1, <2>1, Taken
  <2> QED
    BY <2>2, DeletableIs
<1>2. Inv /\ [Next]_vars =>
        [outside' = outside =>
           \A o \in Obj : Has(live, o) /\ live'[o] = Absent(o) =>
             \E p \in {o} \cup {d \in Dp : o \in Children(d)} :
               /\ Has(base, p) /\ ~Has(work, p) /\ seen[p] = base[p]
               /\ live'[p] = Absent(p)]_vars
  BY <1>1
<1> QED
  BY <1>2, Invariant, PTL DEF Spec, TakesOnlyRemoved

\* What was checked out is overwritten only where the page, when it last read the project,
\* found what was checked out or nothing.
THEOREM DriftKept == Spec => KeepsDrift
<1>1. ASSUME Inv, [Next]_vars, outside' = outside,
             NEW o \in Obj, live'[o] # live[o], live'[o] # Absent(o), Has(base, o)
      PROVE  seen[o] \in {base[o], Absent(o)}
  <2>1. LiveStep
    BY <1>1, OnlyCheckIns, LiveSteps DEF LiveStep
  <2>2. ~InConflict(o)
    BY <1>1, <2>1, Overwritten
  <2> QED
    BY <1>1, <2>2 DEF InConflict, Conflict, Has
<1>2. Inv /\ [Next]_vars =>
        [outside' = outside =>
           \A o \in Obj : live'[o] # live[o] /\ live'[o] # Absent(o) /\ Has(base, o) =>
             seen[o] \in {base[o], Absent(o)}]_vars
  BY <1>1
<1> QED
  BY <1>2, Invariant, PTL DEF Spec, KeepsDrift

-----------------------------------------------------------------------------
(* What a check-in of the whole plan that nothing disturbs has done. *)

\* Between a read of the project and the end of the next undisturbed round, what the read did
\* not find and is there is as the workspace has it, and the datapoints that were to be
\* deleted are gone when their turn is over.
Tracked(o) ==
  /\ o \notin Config /\ ~Has(seen, o) /\ Has(live, o) => live[o] = work[o]
  /\ o \in Dp \ run.todo /\ Deletable(o) => ~Has(live, o)

Met(o) == o \in Plan(seen) => InConflict(o) \/ InPlace(o)

Undisturbed == IF run.pc \in {"idle", "refresh"} THEN calm.rounds > 0 ELSE run.whole

Done(o) == o \notin run.todo \cup run.left

\* The configs of the plan that are still to be retired.
ToRetire(c) == Op(c) = "delete" /\ c \in run.todo \ run.left

Doing ==
  /\ Undisturbed => \A o \in Obj : Tracked(o)
  /\ run.pc = "write" /\ run.whole =>
       \A o \in run.left \cap Config : \A f \in Family \ run.fams : InFamily(o, f)
  /\ Inside /\ run.whole =>
       \A c \in Config : ToRetire(c) => live[c] \in {run.prev[c], NoConfig}
  /\ Inside /\ run.whole /\ ~run.failed => \A o \in Obj : Done(o) => Met(o)
  /\ run.pc = "refresh" /\ calm.rounds > 0 => \A o \in Obj : Met(o)

\* A step of a check-in after its start and before its report.
Move ==
  /\ Inside /\ Inside' /\ UNCHANGED <<work, base, seen, edits, outside, calm>>
  /\ run'.todo \subseteq run.todo /\ run'.prev = run.prev
  /\ (run'.whole => run.whole) /\ (run.failed => run'.failed)

\* The plan and what it asks for depend on these.
LEMMA MetSame ==
  ASSUME UNCHANGED <<work, base, seen>>, NEW o, live'[o] = live[o]
  PROVE  /\ InPlace(o)' <=> InPlace(o)
         /\ Met(o)' <=> Met(o)
<1>1. Op(o)' = Op(o) /\ InConflict(o)' = InConflict(o) /\ Plan(seen)' = Plan(seen)
  BY PlanStays
<1>2. \A f : InFamily(o, f)' <=> InFamily(o, f)
  BY <1>1 DEF InFamily
<1>3. InPlace(o)' <=> InPlace(o)
  BY <1>2 DEF InPlace
<1> QED
  BY <1>1, <1>3 DEF Met

\* What is not in the workspace and not in the project is in place.
LEMMA GoneInPlace ==
  ASSUME TypeOK, UNCHANGED <<work, base, seen>>, NEW o \in Obj, ~Has(work, o), live'[o] = Absent(o)
  PROVE  InPlace(o)'
<1>1. CASE o \notin Config
  BY <1>1 DEF InPlace, Has
<1>2. CASE o \in Config
  <2>1. \A f \in Family : live'[o][f] = None /\ work'[o][f] = None
    BY <1>2, MayStand, NoConfigIs DEF Has
  <2>2. \A f \in Family : InFamily(o, f)'
    BY <2>1 DEF InFamily
  <2> QED
    BY <1>2, <2>2 DEF InPlace
<1> QED
  BY <1>1, <1>2

LEMMA Moves ==
  ASSUME Inv, CheckInStep
  PROVE  Start \/ Report \/ Refresh \/ Move
<1>r. run \in RunState
  BY TypesAre DEF Inv, RunOK
<1>1. ASSUME NEW s, s \in RunState, s.todo \subseteq run.todo, s.prev = run.prev, s.pc \in {"look", "replay"},
             s.whole = run.whole, s.failed = run.failed,
             run' = s \/ \E possible \in BOOLEAN : run' = Failed(s, possible),
             Inside, UNCHANGED <<work, base, seen, edits, outside, calm>>
      PROVE  Move
  <2>1. CASE run' = s
    BY <1>1, <2>1 DEF Move, Inside
  <2>2. ASSUME NEW possible \in BOOLEAN, run' = Failed(s, possible)
        PROVE  Move
    <3>1. /\ run'.pc = s.pc /\ run'.todo = s.todo /\ run'.prev = s.prev
          /\ run'.whole = (s.whole /\ ~possible) /\ run'.failed = TRUE
      BY <1>1, <2>2, FailedIs
    <3>2. run'.whole => run.whole
      BY <1>1, <3>1
    <3>3. Inside' /\ run'.failed
      BY <1>1, <3>1 DEF Inside
    <3> QED
      BY <1>1, <3>1, <3>2, <3>3 DEF Move
  <2> QED
    BY <1>1, <2>1, <2>2
<1>2. ASSUME NEW o \in Obj, Skip(o) \/ WriteFails(o) \/ Unresolved(o) PROVE Move
  <2>1. PICK s : s = Checked(o) /\ (run' = s \/ \E possible \in BOOLEAN : run' = Failed(s, possible))
    BY <1>2, SkipIs DEF Inv
  <2>2. /\ s \in RunState /\ s.pc = "look" /\ s.todo \subseteq run.todo /\ s.prev = run.prev
        /\ s.whole = run.whole /\ s.failed = run.failed
    BY <1>r, <2>1, CheckedIs
  <2>3. Inside /\ UNCHANGED <<work, base, seen, edits, outside, calm>>
    BY <1>2, SkipIs DEF Inv, Skip, WriteFails, Unresolved
  <2>4. run' = s \/ \E possible \in BOOLEAN : run' = Failed(s, possible)
    BY <2>1
  <2> QED
    BY <1>1, <2>2, <2>3, <2>4
<1>3. ASSUME NEW o \in Obj, Write(o) \/ WriteFamily(o) PROVE Move
  <2>1. Inside /\ run.pc = "write" /\ UNCHANGED <<work, base, seen, edits, outside, calm>>
    BY <1>3 DEF Write, WriteFamily, Inside
  <2>2. PICK s : /\ s = Checked(o)
                 /\ \/ run' = s \/ run' = Failed(s, TRUE)
                    \/ \E f : run' = [run EXCEPT !.fams = @ \ {f}]
    BY <1>3 DEF Write, WriteFamily
  <2>3. /\ s \in RunState /\ s.pc = "look" /\ s.todo \subseteq run.todo /\ s.prev = run.prev
        /\ s.whole = run.whole /\ s.failed = run.failed
    BY <1>r, <2>2, CheckedIs
  <2>4. CASE run' = s \/ run' = Failed(s, TRUE)
    BY <1>1, <2>1, <2>3, <2>4
  <2>5. CASE \E f : run' = [run EXCEPT !.fams = @ \ {f}]
    <3>1. /\ run'.pc = run.pc /\ run'.todo = run.todo /\ run'.prev = run.prev
          /\ run'.whole = run.whole /\ run'.failed = run.failed
      BY <1>r, <2>5 DEF RunState
    <3> QED
      BY <2>1, <3>1 DEF Move, Inside
  <2> QED
    BY <2>2, <2>4, <2>5
<1>4. ASSUME NEW b \in SUBSET Config, Flush(b) PROVE Move
  <2>1. /\ run.pc = "look" /\ UNCHANGED <<work, base, seen, edits, outside, calm>>
        /\ \/ run' = [run EXCEPT !.todo = @ \ b]
           \/ run' = [run EXCEPT !.pc = "replay", !.todo = @ \ b, !.left = b]
    BY <1>4 DEF Flush
  <2>2. /\ run'.pc \in {"look", "replay"} /\ run'.todo = run.todo \ b /\ run'.prev = run.prev
        /\ run'.whole = run.whole /\ run'.failed = run.failed
    BY <1>r, <2>1 DEF RunState
  <2> QED
    BY <2>1, <2>2 DEF Move, Inside
<1>5. ASSUME NEW o \in Obj, Replay(o) PROVE Move
  <2>1. UNCHANGED <<work, base, seen, edits, outside, calm>> /\ Inside
    BY <1>5 DEF Replay, Inside
  <2>2. PICK s : s = Replayed(o) /\ (run' = s \/ \E possible \in BOOLEAN : run' = Failed(s, possible))
    <3>1. CanPut(o) \in BOOLEAN
      BY DEF CanPut, Standing, Has
    <3> QED
      BY <1>5, <3>1, ReplayDoes
  <2>3. /\ s \in RunState /\ s.todo = run.todo /\ s.prev = run.prev /\ s.pc \in {"look", "replay"}
        /\ s.whole = run.whole /\ s.failed = run.failed
    BY <1>r, <2>2, ReplayedIs
  <2>4. run' = s \/ \E possible \in BOOLEAN : run' = Failed(s, possible)
    BY <2>2
  <2> QED
    BY <1>1, <2>1, <2>3, <2>4
<1>6. ASSUME NEW o \in Obj, Look(o) \/ LookConfig(o) PROVE Move
  <2>1. /\ Inside /\ UNCHANGED <<work, base, seen, edits, outside, calm>>
        /\ \/ run' = [run EXCEPT !.pc = "write", !.left = {o}]
           \/ run' = [run EXCEPT !.pc = "write", !.left = {o}, !.fams = Families(o)]
    BY <1>6 DEF Look, LookConfig, Turn, Inside
  <2>2. /\ run'.pc = "write" /\ run'.todo = run.todo /\ run'.prev = run.prev
        /\ run'.whole = run.whole /\ run'.failed = run.failed
    BY <1>r, <2>1 DEF RunState
  <2> QED
    BY <2>1, <2>2 DEF Move, Inside
<1> QED
  BY <1>2, <1>3, <1>4, <1>5, <1>6 DEF CheckInStep

\* What a step of a check-in may do at an object.
LEMMA LiveAt ==
  ASSUME Inv, LiveStep, NEW o \in Obj
  PROVE  \/ live'[o] = live[o]
         \/ live'[o] = Absent(o) /\ ~Has(work, o)
         \/ /\ ~Done(o) /\ o \in Plan(seen) /\ ~InConflict(o)
            /\ Op(o) = "delete" => o \in Config \cap run.left
            /\ o \notin Config => o \in run.todo /\ live'[o] = work[o]
<1>1. ASSUME NEW x \in Obj \ Config, Deletable(x), Drops(x)
      PROVE  live'[o] = live[o] \/ (live'[o] = Absent(o) /\ ~Has(work, o))
  <2>1. live'[o] = IF o \in {x} \cup Below(x) THEN Absent(o) ELSE live[o]
    BY <1>1, DropsKeep, TypesAre DEF Inv
  <2>2. ASSUME o \in {x} \cup Below(x) PROVE live[o] = Absent(o) \/ ~Has(work, o)
    <3>1. ~Has(work, x) /\ Has(base, x)
      BY <1>1, DeletableIs
    <3>2. CASE x \in Dp /\ o \in Children(x)
      BY <3>1, <3>2, BelowIs, Kinds DEF Inv, Tidy
    <3>3. CASE x \in Type /\ o \in Below(x)
      <4>1. \A d \in Children(x) : ~Has(live, d)
        BY <1>1, <3>3 DEF Drops, CanDrop
      <4>2. CASE o \in Children(x)
        BY <4>1, <4>2 DEF Has
      <4>3. CASE o \in Config /\ Parent[o] \in Children(x)
        BY <4>1, <4>3, Kinds DEF Inv, Rooted, Standing, Has
      <4> QED
        BY <3>3, <4>2, <4>3, BelowIs
    <3> QED
      BY <1>1, <2>2, <3>1, <3>2, <3>3, BelowIs, Kinds
  <2> QED
    BY <2>1, <2>2
<1>2. ASSUME NEW s \in SUBSET (run.todo \cup run.left), Puts(s), o \in s,
             \A q \in s : /\ q \in Plan(seen) /\ ~InConflict(q)
                          /\ Op(q) = "delete" => q \in Config \cap run.left
                          /\ q \notin Config => q \in run.todo /\ live'[q] = work[q]
      PROVE  /\ ~Done(o) /\ o \in Plan(seen) /\ ~InConflict(o)
             /\ Op(o) = "delete" => o \in Config \cap run.left
             /\ o \notin Config => o \in run.todo /\ live'[o] = work[o]
  BY <1>2 DEF Done
<1>3. ASSUME NEW s, Puts(s), o \notin s PROVE live'[o] = live[o]
  BY <1>3 DEF Puts
<1> QED
  BY <1>1, <1>2, <1>3 DEF LiveStep

LEMMA MetKept ==
  ASSUME Inv, LiveStep, UNCHANGED <<work, base, seen>>, NEW o \in Obj, Met(o), Done(o)
  PROVE  Met(o)'
<1>1. CASE live'[o] = live[o]
  BY <1>1, MetSame
<1>2. CASE live'[o] = Absent(o) /\ ~Has(work, o)
  BY <1>2, GoneInPlace DEF Met, Inv
<1> QED
  BY <1>1, <1>2, LiveAt

LEMMA TrackedKept ==
  ASSUME Inv, LiveStep, UNCHANGED <<work, base, seen>>, NEW o \in Obj, Tracked(o),
         o \in Dp /\ o \in run.todo /\ o \notin run'.todo /\ Deletable(o) => ~Has(live', o)
  PROVE  Tracked(o)'
<1>1. /\ Op(o)' = Op(o) /\ Deletable(o)' = Deletable(o)
      /\ work'[o] = work[o] /\ Has(seen', o) = Has(seen, o) /\ Has(live, o)' = Has(live', o)
  BY PlanStays DEF Deletable, Has
<1>2. CASE live'[o] = live[o]
  <2>1. Has(live', o) = Has(live, o)
    BY <1>2 DEF Has
  <2> QED
    BY <1>1, <1>2, <2>1 DEF Tracked
<1>3. CASE live'[o] = Absent(o) /\ ~Has(work, o)
  <2>1. ~Has(live', o)
    BY <1>3 DEF Has
  <2> QED
    BY <1>1, <1>3, <2>1 DEF Tracked
<1>4. CASE /\ ~Done(o) /\ o \in Plan(seen) /\ ~InConflict(o)
           /\ Op(o) = "delete" => o \in Config
           /\ o \notin Config => o \in run.todo /\ live'[o] = work[o]
  <2>1. o \in Dp => Op(o) # "delete"
    BY <1>4, Kinds
  <2> QED
    BY <1>1, <1>4, <2>1 DEF Tracked, Deletable
<1> QED
  BY <1>2, <1>3, <1>4, LiveAt

LEMMA MoveKeeps ==
  ASSUME Inv, LiveStep, Move, Doing,
         run'.whole /\ ~run'.failed => \A o \in Obj : ~Done(o) /\ Done(o)' => Met(o)',
         run'.whole => \A o \in Dp : /\ o \in run.todo /\ o \notin run'.todo /\ Deletable(o)
                                     => ~Has(live', o),
         run'.whole => \A c \in Config : Op(c) = "delete" /\ c \in run'.todo \ run'.left => c \notin run.left,
         run'.pc = "write" /\ run'.whole =>
           \A o \in run'.left \cap Config : \A f \in Family \ run'.fams : InFamily(o, f)'
  PROVE  Doing'
<1>1. /\ Inside /\ Inside' /\ UNCHANGED <<work, base, seen>> /\ (run'.whole => run.whole)
      /\ (~run'.failed => ~run.failed) /\ run'.todo \subseteq run.todo /\ run'.prev = run.prev
      /\ run.pc \notin {"idle", "refresh"} /\ run'.pc \notin {"idle", "refresh"}
  BY DEF Move, Inside
<1>2. ASSUME Undisturbed', NEW o \in Obj PROVE Tracked(o)'
  <2>1. run'.whole /\ Undisturbed
    BY <1>1, <1>2 DEF Undisturbed
  <2>2. Tracked(o)
    BY <2>1 DEF Doing
  <2> QED
    BY <1>1, <2>1, <2>2, TrackedKept
<1>3. ASSUME run'.whole, NEW c \in Config, ToRetire(c)'
      PROVE  live'[c] \in {run'.prev[c], NoConfig}
  <2>1. Op(c) = "delete" /\ c \in run'.todo \ run'.left
    BY <1>1, <1>3, PlanStays DEF ToRetire
  <2>2. c \notin run.left /\ ToRetire(c)
    BY <1>1, <1>3, <2>1 DEF ToRetire
  <2>3. live[c] \in {run.prev[c], NoConfig}
    BY <1>1, <1>3, <2>2 DEF Doing
  <2>4. live'[c] = live[c] \/ live'[c] = NoConfig
    BY <2>1, <2>2, LiveAt, Kinds, MayStand
  <2> QED
    BY <1>1, <2>3, <2>4
<1>4. ASSUME run'.whole, ~run'.failed, NEW o \in Obj, Done(o)' PROVE Met(o)'
  <2>1. Done(o) => Met(o)
    BY <1>1, <1>4 DEF Doing
  <2>2. CASE Done(o)
    BY <1>1, <2>1, <2>2, MetKept
  <2>3. CASE ~Done(o)
    BY <1>4, <2>3
  <2> QED
    BY <2>2, <2>3
<1> QED
  BY <1>1, <1>2, <1>3, <1>4 DEF Doing

\* The item that is passed over is met, if nothing disturbed the check-in.
LEMMA SkippedIsMet ==
  ASSUME Inv, Doing, run.whole, NEW o \in Obj, Skip(o)
  PROVE  Met(o) /\ (o \in Dp /\ Deletable(o) => ~Has(live, o))
<1>1. /\ Turn(o) /\ o \in Plan(seen) /\ run.pc = "look" /\ TypeOK /\ IsContent(work) /\ Inside
      /\ run.left = {} /\ o \in run.todo
      /\ \/ InConflict(o)
         \/ o \notin Config /\ Op(o) = "create" /\ Has(live, o)
         \/ o \notin Config /\ Op(o) = "delete" /\ ~Has(live, o)
         \/ o \in Config /\ Families(o) = {}
  BY TypesAre DEF Skip, Turn, Inv, RunOK, Chosen, Inside
<1>2. Tracked(o)
  BY <1>1 DEF Doing, Undisturbed
<1>3. CASE InConflict(o)
  BY <1>3 DEF Met, Deletable
<1>4. CASE o \notin Config /\ Op(o) = "create" /\ Has(live, o)
  <2>1. ~Has(seen, o)
    BY <1>4, OpIs DEF Op
  <2>2. InPlace(o)
    BY <1>2, <1>4, <2>1 DEF Tracked, InPlace
  <2> QED
    BY <1>4, <2>2 DEF Met, Deletable
<1>5. CASE o \notin Config /\ Op(o) = "delete" /\ ~Has(live, o)
  <2>1. ~Has(work, o)
    BY <1>1, <1>5, PlanIs
  <2>2. InPlace(o)
    BY <1>5, <2>1 DEF InPlace, Has
  <2> QED
    BY <1>5, <2>2 DEF Met
<1>6. CASE o \in Config /\ Families(o) = {}
  <2>1. Op(o) = "delete"
    <3> SUFFICES ASSUME Op(o) # "delete" PROVE FALSE
      OBVIOUS
    <3>1. Has(work, o)
      BY <1>1, PlanIs
    <3> QED
      BY <1>1, <1>6, <3>1, FamiliesIs
  <2>2. live[o] \in {run.prev[o], NoConfig}
    BY <1>1, <1>6, <2>1 DEF Doing, ToRetire
  <2>3. \A f \in Family : run.prev[o][f] = None
    BY <1>6, <2>1 DEF Families
  <2>4. \A f \in Family : live[o][f] = None
    BY <2>2, <2>3, NoConfigIs
  <2>5. InPlace(o)
    BY <1>6, <2>1, <2>4 DEF InPlace, InFamily
  <2> QED
    BY <1>6, <2>5, Kinds DEF Met
<1> QED
  BY <1>1, <1>3, <1>4, <1>5, <1>6

LEMMA DoingSkip ==
  ASSUME Inv, Doing, Move, LiveStep, NEW o \in Obj, Skip(o)
  PROVE  Doing'
<1>1. /\ run' = Checked(o) /\ live' = live /\ run.pc = "look" /\ o \in run.todo
      /\ UNCHANGED <<work, base, seen>>
  BY DEF Skip, Turn
<1>2. /\ run'.pc = "look" /\ run'.todo = run.todo \ {o} /\ run'.left = {} /\ run.left = {}
      /\ run'.whole = run.whole
  BY <1>1, CheckedIs, TypesAre DEF Inv, RunOK
<1>3. ASSUME run'.whole
      PROVE  Met(o)' /\ (o \in Dp /\ Deletable(o) => ~Has(live', o))
  <2>1. Met(o) /\ (o \in Dp /\ Deletable(o) => ~Has(live, o))
    BY <1>2, <1>3, SkippedIsMet
  <2> QED
    BY <1>1, <2>1, MetSame DEF Has
<1>4. \A p \in Obj : ~Done(p) /\ Done(p)' => p = o
  BY <1>2 DEF Done
<1>5. \A p \in Dp : p \in run.todo /\ p \notin run'.todo => p = o
  BY <1>2
<1> QED
  BY <1>2, <1>3, <1>4, <1>5, MoveKeeps

LEMMA DoingWrite ==
  ASSUME Inv, Doing, Move, LiveStep, NEW o \in Obj, Write(o)
  PROVE  Doing'
<1>1. /\ AtItem(o) /\ o \notin Config /\ o \in Plan(seen) /\ UNCHANGED <<work, base, seen>>
      /\ IF Op(o) = "delete" THEN Drops(o) ELSE live'[o] = work[o]
  BY WriteDoes DEF Write
<1>2. PICK s : s = Checked(o) /\ (run' = s \/ run' = Failed(s, TRUE))
  BY DEF Write
<1>3. /\ s \in RunState /\ s.pc = "look" /\ s.todo = run.todo \ {o} /\ s.left = {}
  BY <1>2, CheckedIs, TypesAre DEF Inv, RunOK
<1>4. run'.pc = "look" /\ run'.todo = run.todo \ {o} /\ run'.left = {}
  <2>1. run' = s \/ run' = Failed(s, TRUE)
    BY <1>2
  <2> QED
    BY <1>3, <2>1, FailedIs
<1>5. \A p \in Obj : ~Done(p) /\ Done(p)' => p = o
  BY <1>1, <1>4 DEF Done, AtItem
<1>6. \A p \in Dp : p \in run.todo /\ p \notin run'.todo => p = o
  BY <1>4
<1>7. \A c \in Config : c \in run'.todo \ run'.left => c \notin run.left
  BY <1>1, <1>4 DEF AtItem
<1>8. InPlace(o)' /\ (Op(o) = "delete" => ~Has(live', o))
  <2>1. CASE Op(o) = "delete"
    <3>1. ~Has(work, o) /\ live'[o] = Absent(o)
      BY <1>1, <2>1, PlanIs, DropsKeep, TypesAre DEF Inv
    <3> QED
      BY <1>1, <3>1, GoneInPlace DEF Inv, Has
  <2>2. CASE Op(o) # "delete"
    BY <1>1, <2>2 DEF InPlace
  <2> QED
    BY <2>1, <2>2
<1>9. Met(o)' /\ (Deletable(o) => ~Has(live', o))
  BY <1>8 DEF Met, Deletable
<1> QED
  BY <1>4, <1>5, <1>6, <1>7, <1>9, MoveKeeps

\* A failed item leaves the project as it was, and the datapoint that it did not delete was not
\* there, if the failure does not disturb the check-in.
LEMMA DoingFails ==
  ASSUME Inv, Doing, Move, LiveStep, NEW o \in Obj, WriteFails(o) \/ Unresolved(o)
  PROVE  Doing'
<1>0. PICK possible \in BOOLEAN :
        /\ run' = Failed(Checked(o), possible) /\ live' = live
        /\ o \notin Config => possible = Possible(o)
  <2>1. CASE WriteFails(o)
    <3>1. CanPut(o) \in BOOLEAN /\ Possible(o) \in BOOLEAN
      BY DEF Possible, CanPut, CanDrop, Standing, Has
    <3>2. live' = live /\ run' = Failed(Checked(o), IF o \in Config THEN CanPut(o) ELSE Possible(o))
      BY <2>1 DEF WriteFails
    <3>3. CASE o \in Config
      <4>1. run' = Failed(Checked(o), CanPut(o))
        BY <3>2, <3>3
      <4> QED
        BY <3>1, <3>2, <3>3, <4>1
    <3>4. CASE o \notin Config
      <4>1. run' = Failed(Checked(o), Possible(o))
        BY <3>2, <3>4
      <4> QED
        BY <3>1, <3>2, <4>1
    <3> QED
      BY <3>3, <3>4
  <2>2. CASE Unresolved(o)
    <3>1. live' = live /\ o \in Config /\ run' = Failed(Checked(o), TRUE)
      BY <2>2 DEF Unresolved
    <3>2. TRUE \in BOOLEAN
      OBVIOUS
    <3> QED
      BY <3>1, <3>2
  <2> QED
    BY <2>1, <2>2
<1>1. PICK s : s = Checked(o) /\ run' = Failed(s, possible)
  BY <1>0
<1>2. s \in RunState /\ s.pc = "look" /\ s.todo = run.todo \ {o} /\ s.left = {} /\ s.whole = run.whole
  BY <1>1, CheckedIs, TypesAre DEF Inv, RunOK
<1>3. /\ run'.pc = "look" /\ run'.todo = run.todo \ {o} /\ run'.failed
      /\ run'.whole = (s.whole /\ ~possible)
  BY <1>1, <1>2, FailedIs
<1>4. ASSUME run'.whole, o \in Dp, Deletable(o)
      PROVE  ~Has(live', o)
  <2>1. ~Possible(o)
    BY <1>0, <1>3, <1>4, Kinds
  <2> QED
    BY <1>0, <1>4, <2>1, Kinds DEF Possible, CanDrop, Deletable
<1>5. \A p \in Dp : p \in run.todo /\ p \notin run'.todo => p = o
  BY <1>3
<1>6. run.left \subseteq {o}
  <2>1. CASE WriteFails(o)
    BY <2>1, ThisItem DEF WriteFails, Inv, AtItem
  <2>2. CASE Unresolved(o)
    BY <2>2, TypesAre DEF Unresolved, Turn, Inv, RunOK
  <2> QED
    BY <2>1, <2>2
<1>7. \A c \in Config : c \in run'.todo \ run'.left => c \notin run.left
  BY <1>3, <1>6
<1> QED
  BY <1>3, <1>4, <1>5, <1>7, MoveKeeps

LEMMA DoingLook ==
  ASSUME Inv, Doing, Move, LiveStep, NEW o \in Obj, Look(o) \/ LookConfig(o)
  PROVE  Doing'
<1>r. run \in RunState
  BY TypesAre DEF Inv, RunOK
<1>1. /\ run.left = {} /\ o \in Plan(seen) /\ live' = live /\ UNCHANGED <<work, base>>
      /\ run.pc = "look" /\ seen' = seen /\ o \in run.todo
      /\ \/ o \notin Config /\ run' = [run EXCEPT !.pc = "write", !.left = {o}]
         \/ run' = [run EXCEPT !.pc = "write", !.left = {o}, !.fams = Families(o)]
  BY TypesAre DEF Look, LookConfig, Turn, Inv, RunOK, Chosen, Inside
<1>2. /\ run'.todo = run.todo /\ run'.left = {o} /\ (o \in Config => run'.fams = Families(o))
      /\ run'.whole = run.whole
  BY <1>r, <1>1 DEF RunState
<1>3. ASSUME run'.whole, o \in Config, NEW f \in Family \ run'.fams PROVE InFamily(o, f)'
  <2>1. f \notin Families(o) /\ Op(o)' = Op(o)
    BY <1>1, <1>2, <1>3, PlanStays
  <2>2. CASE Op(o) # "delete"
    BY <1>1, <2>1, <2>2 DEF Families, InFamily
  <2>3. CASE Op(o) = "delete"
    <3>1. live[o] \in {run.prev[o], NoConfig}
      BY <1>1, <1>2, <1>3, <2>3 DEF Doing, Inside, ToRetire
    <3>2. run.prev[o][f] = None
      BY <2>1, <2>3 DEF Families
    <3>3. live[o][f] = None
      BY <3>1, <3>2, NoConfigIs
    <3> QED
      BY <1>1, <2>1, <2>3, <3>3 DEF InFamily
  <2> QED
    BY <2>2, <2>3
<1>4. \A p \in Obj : Done(p)' => Done(p)
  BY <1>1, <1>2 DEF Done
<1>5. \A c \in Config : c \notin run.left
  BY <1>1
<1> QED
  BY <1>1, <1>2, <1>3, <1>4, <1>5, MoveKeeps

LEMMA DoingFamily ==
  ASSUME Inv, Doing, Move, LiveStep, NEW o \in Obj, WriteFamily(o)
  PROVE  Doing'
<1>r. run \in RunState /\ TypeOK
  BY TypesAre DEF Inv, RunOK
<1>1. /\ AtItem(o) /\ o \in Config /\ o \in Plan(seen) /\ UNCHANGED <<work, base>>
      /\ run.pc = "write" /\ seen' = seen /\ Op(o)' = Op(o)
      /\ run.left = {o} /\ o \in run.todo
  <2>1. UNCHANGED <<work, base, seen>>
    BY DEF WriteFamily
  <2> QED
    BY <2>1, WriteFamilyDoes, PlanStays DEF WriteFamily, AtItem
<1>2. PICK f \in run.fams :
        /\ \/ run' = IF run.fams = {f} THEN Checked(o) ELSE [run EXCEPT !.fams = @ \ {f}]
           \/ run' = Failed(Checked(o), TRUE)
        /\ f \in Family
        /\ \A g \in Family \ {f} : live'[o][g] = live[o][g]
        /\ Op(o) # "delete" => live'[o][f] = work[o][f]
        /\ Op(o) = "delete" => live'[o][f] \in {None, Retired(f)}
  BY WriteFamilyDoes
<1>3. ASSUME run.whole, NEW g \in Family, g \notin run.fams \/ g = f
      PROVE  InFamily(o, g)'
  <2>1. CASE g = f
    BY <1>1, <1>2, <2>1 DEF InFamily
  <2>2. CASE g # f
    <3>1. InFamily(o, g)
      BY <1>1, <1>3, <2>2 DEF Doing
    <3>2. live'[o][g] = live[o][g]
      BY <1>2, <2>2
    <3> QED
      BY <1>1, <3>1, <3>2 DEF InFamily
  <2> QED
    BY <2>1, <2>2
<1>4. PICK s : s = Checked(o)
  OBVIOUS
<1>5. /\ s \in RunState /\ s.pc = "look" /\ s.todo = run.todo \ {o} /\ s.left = {}
      /\ s.whole = run.whole
  BY <1>4, <1>r, CheckedIs
<1>6. CASE run.fams = {f} /\ run' = s
  <2>1. ASSUME run'.whole PROVE Met(o)'
    <3>1. \A g \in Family : InFamily(o, g)'
      BY <1>3, <1>5, <1>6, <2>1
    <3> QED
      BY <1>1, <3>1 DEF Met, InPlace
  <2>2. \A p \in Obj : ~Done(p) /\ Done(p)' => p = o
    BY <1>1, <1>5, <1>6 DEF Done
  <2>3. \A p \in Dp : p \in run.todo => p \in run'.todo
    BY <1>1, <1>5, <1>6, Kinds
  <2>4. \A c \in Config : c \in run'.todo \ run'.left => c \notin run.left
    BY <1>1, <1>5, <1>6
  <2> QED
    BY <1>5, <1>6, <2>1, <2>2, <2>3, <2>4, MoveKeeps
<1>7. CASE run.fams # {f} /\ run' = [run EXCEPT !.fams = @ \ {f}]
  <2>1. /\ run'.todo = run.todo /\ run'.left = {o} /\ run'.fams = run.fams \ {f}
        /\ run'.whole = run.whole
    BY <1>r, <1>1, <1>7 DEF RunState
  <2>2. ASSUME run'.whole, NEW g \in Family \ run'.fams PROVE InFamily(o, g)'
    BY <1>3, <2>1, <2>2
  <2>3. \A p \in Obj : Done(p)' => Done(p)
    BY <1>1, <2>1 DEF Done
  <2>4. \A c \in Config : c \in run'.todo \ run'.left => c \notin run.left
    BY <1>1, <2>1
  <2> QED
    BY <1>1, <2>1, <2>2, <2>3, <2>4, MoveKeeps
<1>8. CASE run' = Failed(s, TRUE)
  <2>1. run'.pc = "look" /\ run'.failed /\ run'.todo = run.todo \ {o}
    BY <1>5, <1>8, FailedIs
  <2>2. \A p \in Dp : p \in run.todo => p \in run'.todo
    BY <1>1, <2>1, Kinds
  <2>3. \A c \in Config : c \in run'.todo \ run'.left => c \notin run.left
    BY <1>1, <2>1
  <2> QED
    BY <2>1, <2>2, <2>3, MoveKeeps
<1>9. \/ run.fams = {f} /\ run' = s
      \/ run.fams # {f} /\ run' = [run EXCEPT !.fams = @ \ {f}]
      \/ run' = Failed(s, TRUE)
  BY <1>2, <1>4
<1> QED
  BY <1>6, <1>7, <1>8, <1>9

\* What a single write has written is in place.
LEMMA WrittenMet ==
  ASSUME Inv, UNCHANGED <<work, base, seen>>, NEW o \in Config, Has(work, o), Op(o) # "delete",
         live'[o] = Written(o)
  PROVE  Met(o)'
<1>1. Op(o)' = Op(o)
  BY PlanStays
<1>2. \A f \in Family : work[o][f] \in {None, Written(o)[f]}
  BY WrittenIs, TypesAre DEF Inv
<1>3. \A f \in Family : InFamily(o, f)'
  BY <1>1, <1>2 DEF InFamily
<1> QED
  BY <1>3 DEF Met, InPlace

LEMMA DoingFlush ==
  ASSUME Inv, Doing, Move, LiveStep, NEW b \in SUBSET Config, Flush(b)
  PROVE  Doing'
<1>r. run \in RunState /\ TypeOK
  BY TypesAre DEF Inv, RunOK
<1>1. /\ run.left = {} /\ b \subseteq run.todo /\ UNCHANGED <<work, base, seen>>
      /\ \A o \in b : Has(work, o) /\ Op(o) # "delete"
      /\ \/ /\ live' = live
            /\ run' = [run EXCEPT !.pc = "replay", !.todo = @ \ b, !.left = b]
         \/ \A o \in b : live'[o] = Written(o)
  BY FlushDoes, TypesAre DEF Flush, Inv, RunOK, Single
<1>2. \/ run' = [run EXCEPT !.todo = @ \ b]
      \/ run' = [run EXCEPT !.pc = "replay", !.todo = @ \ b, !.left = b]
  BY DEF Flush
<1>3. /\ run'.todo = run.todo \ b /\ run'.pc # "write"
      /\ run' = [run EXCEPT !.pc = "replay", !.todo = @ \ b, !.left = b] => run'.left = b
  BY <1>r, <1>2 DEF RunState, Flush
<1>4. ASSUME NEW p \in Obj, ~Done(p), Done(p)'
      PROVE  Met(p)'
  <2>1. p \in b
    BY <1>1, <1>3, <1>4 DEF Done
  <2>2. live'[p] = Written(p)
    BY <1>1, <1>3, <1>4, <2>1 DEF Done
  <2> QED
    BY <1>1, <2>1, <2>2, WrittenMet
<1>5. \A p \in Dp : p \in run.todo => p \in run'.todo
  BY <1>3, Kinds
<1>6. \A c \in Config : c \notin run.left
  BY <1>1
<1> QED
  BY <1>3, <1>4, <1>5, <1>6, MoveKeeps

LEMMA DoingReplay ==
  ASSUME Inv, Doing, Move, LiveStep, NEW o \in Obj, Replay(o)
  PROVE  Doing'
<1>r. run \in RunState /\ TypeOK
  BY TypesAre DEF Inv, RunOK
<1>1. PICK s : /\ s = Replayed(o)
               /\ \/ live'[o] = Written(o) /\ run' = s
                  \/ \E possible \in BOOLEAN : run' = Failed(s, possible)
  <2>1. CanPut(o) \in BOOLEAN
    BY DEF CanPut, Standing, Has
  <2> QED
    BY <2>1, ReplayDoes
<1>2. /\ o \in Config /\ Has(work, o) /\ UNCHANGED <<work, base, seen>>
      /\ run.pc = "replay" /\ \A c \in run.left : Op(c) # "delete"
      /\ Op(o) # "delete"
  BY ReplayDoes DEF Replay, Inv, Chosen, Single
<1>3. /\ s \in RunState /\ s.pc \in {"look", "replay"} /\ s.todo = run.todo /\ s.left = run.left \ {o}
  BY <1>r, <1>1, ReplayedIs
<1>4. CASE live'[o] = Written(o) /\ run' = s
  <2>1. \A p \in Obj : ~Done(p) /\ Done(p)' => p = o
    BY <1>3, <1>4 DEF Done
  <2>2. Met(o)'
    BY <1>2, <1>4, WrittenMet
  <2> QED
    BY <1>2, <1>3, <1>4, <2>1, <2>2, MoveKeeps
<1>5. ASSUME NEW possible \in BOOLEAN, run' = Failed(s, possible)
      PROVE  Doing'
  <2>1. run'.pc # "write" /\ run'.failed /\ run'.todo = run.todo
    BY <1>3, <1>5, FailedIs
  <2> QED
    BY <1>2, <2>1, MoveKeeps
<1> QED
  BY <1>1, <1>4, <1>5

LEMMA TrackedSame ==
  ASSUME UNCHANGED <<live, work, base, seen>>, NEW o \in Obj, Tracked(o),
         o \in Dp /\ Deletable(o) /\ o \notin run'.todo => ~Has(live, o)
  PROVE  Tracked(o)'
<1>1. Deletable(o)' = Deletable(o)
  BY PlanStays DEF Deletable
<1>2. Has(live, o)' = Has(live, o) /\ Has(seen, o)' = Has(seen, o)
  BY DEF Has
<1> QED
  BY <1>1, <1>2 DEF Tracked

\* A new read finds no datapoint that is to be deleted: the last check-in has done it, or has
\* created it as the workspace asks.
LEMMA TrackedReread ==
  ASSUME Inv, UNCHANGED <<live, work, base>>, seen' \in {seen, live}, NEW o \in Obj, Tracked(o),
         o \in Dp /\ Deletable(o) => ~Has(live, o)
  PROVE  Tracked(o)'
<1>1. CASE seen' = seen
  BY <1>1, TrackedSame
<1>2. CASE seen' = live
  <2>1. Has(seen, o)' <=> Has(live, o)'
    BY <1>2 DEF Has
  <2>2. ASSUME o \in Dp, Deletable(o)', Has(live, o) PROVE FALSE
    <3>1. Has(base, o) /\ ~Has(work, o)
      <4>1. (Deletable(o) => Has(base, o) /\ ~Has(work, o))'
        BY DEF Deletable, Op, OpOf
      <4> QED
        BY <2>2, <4>1 DEF Has
    <3>2. CASE Has(seen, o)
      <4>1. seen[o] = There /\ base[o] = There
        BY <2>2, <3>1, <3>2, ContentAt, MayStand, TypesAre DEF Inv
      <4>2. Deletable(o)
        BY <3>1, <3>2, <4>1, OpIs DEF Deletable, Op, InConflict, Conflict
      <4> QED
        BY <2>2, <4>2
    <3>3. CASE ~Has(seen, o)
      <4>1. live[o] = work[o]
        BY <2>2, <3>3, Kinds DEF Tracked
      <4> QED
        BY <2>2, <3>1, <4>1 DEF Has
    <3> QED
      BY <3>2, <3>3
  <2>3. Has(live, o)' <=> Has(live, o)
    BY DEF Has
  <2> QED
    BY <2>1, <2>2, <2>3 DEF Tracked
<1> QED
  BY <1>1, <1>2

LEMMA DoingStart ==
  ASSUME Inv, Doing, Start
  PROVE  Doing'
<1>1. /\ run.pc = "idle" /\ run'.pc = "look" /\ run'.left = {} /\ run.todo = {}
      /\ UNCHANGED <<live, work, base, seen, calm>>
      /\ run'.whole => run'.todo = Plan(seen) /\ (seen = live \/ calm.rounds > 0)
  BY StartIs, TypesAre, IdleIs DEF Inv, RunOK
<1>2. ASSUME run'.whole, NEW o \in Obj
      PROVE  Tracked(o)'
  <2>1. o \notin run'.todo => ~Deletable(o) /\ ~Deletable(o)'
    <3>1. o \notin run'.todo => Op(o) = "none"
      BY <1>1, <1>2 DEF Plan, Op
    <3> QED
      BY <1>1, <3>1, PlanStays DEF Deletable
  <2>2. CASE seen = live
    <3>1. Has(seen, o)' <=> Has(live, o)'
      BY <1>1, <2>2 DEF Has
    <3> QED
      BY <2>1, <3>1 DEF Tracked
  <2>3. CASE calm.rounds > 0
    <3>1. Tracked(o)
      BY <1>1, <2>3 DEF Doing, Undisturbed
    <3> QED
      BY <1>1, <2>1, <3>1, TrackedSame
  <2> QED
    BY <1>1, <1>2, <2>2, <2>3
<1>3. ASSUME Undisturbed', NEW o \in Obj PROVE Tracked(o)'
  BY <1>1, <1>2, <1>3 DEF Undisturbed
<1>4. ASSUME run'.whole, NEW o \in Obj, Done(o)' PROVE Met(o)'
  <2>1. o \notin Plan(seen) /\ Plan(seen)' = Plan(seen)
    BY <1>1, <1>4, PlanStays DEF Done
  <2> QED
    BY <2>1 DEF Met
<1>5. ASSUME run'.whole, NEW c \in Config, ToRetire(c)'
      PROVE  live'[c] \in {run'.prev[c], NoConfig}
  <2>1. Op(c) = "delete"
    BY <1>1, <1>5, PlanStays DEF ToRetire
  <2> QED
    BY <1>1, <1>5, <2>1, StartIs DEF Inv
<1> QED
  BY <1>1, <1>3, <1>4, <1>5 DEF Doing

LEMMA ReportIs ==
  ASSUME Inv, Report
  PROVE  /\ run.pc = "look" /\ run.todo = {} /\ run.left = {}
         /\ run'.todo = {} /\ run'.left = {} /\ ~run'.whole
         /\ run'.pc = (IF run.failed THEN "idle" ELSE "refresh")
         /\ UNCHANGED <<live, work, base, seen, edits, outside>>
         /\ ~run.whole => calm'.rounds = 0 /\ calm'.ok
         /\ run.whole => /\ calm'.ok <=> ~run.failed
                         /\ calm'.rounds = IF calm.rounds < 2 THEN calm.rounds + 1 ELSE 2
<1>1. run' = IF run.failed THEN Idle ELSE [Idle EXCEPT !.pc = "refresh"]
  BY DEF Report
<1>2. CASE run.failed
  BY <1>1, <1>2, IdleIs, TypesAre DEF Report, Inv, RunOK, NoRound
<1>3. CASE ~run.failed
  <2>1. run' = [Idle EXCEPT !.pc = "refresh"]
    BY <1>1, <1>3
  <2>2. /\ run'.todo = {} /\ run'.left = {} /\ run'.whole = FALSE /\ run'.pc = "refresh"
    BY <2>1, IdleIs DEF RunState
  <2> QED
    BY <1>3, <2>2, TypesAre DEF Report, Inv, RunOK, NoRound
<1> QED
  BY <1>2, <1>3

LEMMA DoingReport ==
  ASSUME Inv, Doing, Report
  PROVE  Doing'
<1>1. /\ run.pc = "look" /\ run.todo = {} /\ run.left = {} /\ run'.todo = {} /\ ~run'.whole
      /\ run'.pc \in {"idle", "refresh"}
      /\ UNCHANGED <<live, work, base, seen>>
      /\ ~run.whole => ~(calm'.rounds > 0)
      /\ run'.pc = "refresh" => ~run.failed
  <2>1. run'.pc = "idle" <=> run.failed
    BY ReportIs
  <2>2. ~run.whole => ~(calm'.rounds > 0)
    BY ReportIs
  <2> QED
    BY <2>1, <2>2, ReportIs
<1>2. ASSUME Undisturbed', NEW o \in Obj PROVE Tracked(o)'
  <2>1. run.whole
    BY <1>1, <1>2 DEF Undisturbed
  <2>2. Tracked(o)
    BY <1>1, <2>1 DEF Doing, Undisturbed
  <2> QED
    BY <1>1, <2>2, TrackedSame DEF Tracked
<1>3. ASSUME run'.pc = "refresh", calm'.rounds > 0, NEW o \in Obj PROVE Met(o)'
  <2>1. Met(o)
    BY <1>1, <1>3 DEF Doing, Inside, Done
  <2> QED
    BY <1>1, <2>1, MetSame
<1> QED
  BY <1>1, <1>2, <1>3 DEF Doing, Inside

LEMMA DoingReads ==
  ASSUME Inv, Doing, Refresh \/ Reload
  PROVE  Doing'
<1>1. /\ run.pc \in {"idle", "refresh"} /\ run'.pc = "idle"
      /\ UNCHANGED <<live, work, base>> /\ Recalled
  BY IdleIs DEF Refresh, Reload
<1>2. ASSUME calm'.rounds > 0, NEW o \in Obj PROVE Tracked(o)'
  <2>1. seen' \in {seen, live} /\ calm' = calm
    BY <1>1, <1>2 DEF Recalled, NoRound
  <2>2. Tracked(o)
    BY <1>1, <1>2, <2>1 DEF Doing, Undisturbed
  <2>3. ASSUME o \in Dp, Deletable(o) PROVE ~Has(live, o)
    <3>1. CASE run.pc = "idle"
      <4>1. run.todo = {}
        BY <3>1, TypesAre, IdleIs DEF Inv, RunOK
      <4> QED
        BY <2>2, <2>3, <4>1 DEF Tracked
    <3>2. CASE run.pc = "refresh"
      <4>1. Met(o) /\ o \in Plan(seen) /\ ~InConflict(o)
        BY <1>2, <2>1, <2>3, <3>2 DEF Doing, Deletable, Plan, Op
      <4>2. live[o] = work[o]
        BY <2>3, <4>1, Kinds DEF Met, InPlace
      <4>3. ~Has(work, o)
        BY <2>3, DeletableIs
      <4> QED
        BY <4>2, <4>3 DEF Has
    <3> QED
      BY <1>1, <3>1, <3>2
  <2> QED
    BY <1>1, <2>1, <2>2, <2>3, TrackedReread
<1>3. ASSUME Undisturbed', NEW o \in Obj PROVE Tracked(o)'
  BY <1>1, <1>2, <1>3 DEF Undisturbed
<1> QED
  BY <1>1, <1>3 DEF Doing, Inside

LEMMA InitDoing == Init => Doing
<1> SUFFICES ASSUME Init PROVE Doing
  OBVIOUS
<1>1. run.pc = "idle" /\ calm.rounds = 0
  BY IdleIs DEF Init, NoRound
<1> QED
  BY <1>1 DEF Doing, Undisturbed, Inside

\* Steps that end what was undisturbed: changes of the workspace, and of the project by others.
LEMMA Disturbed ==
  ASSUME Inv, [Next]_vars, ~CheckInStep, ~Reload, ~UNCHANGED vars
  PROVE  /\ calm' = NoRound /\ run'.pc = run.pc /\ run'.left = run.left /\ run'.todo = run.todo
         /\ run'.fams = run.fams /\ run'.prev = run.prev /\ run'.failed = run.failed
         /\ ~run'.whole
<1>1. CASE Outside
  BY <1>1, OutsideIs, TypesAre DEF Inv, RunOK, RunState
<1>2. ASSUME Edit, run' = run PROVE calm' = NoRound /\ run' = run /\ ~run.whole
  BY <1>2, IdleIs, TypesAre DEF Inv, RunOK, Edit
<1>3. \A o : CheckOut \/ Generate(o) \/ Remove(o) \/ Forget(o) => Edit /\ run' = run
  BY DEF CheckOut, Generate, Remove, Forget
<1> QED
  BY <1>1, <1>2, <1>3 DEF Next

LEMMA NextDoing == Inv /\ Doing /\ [Next]_vars => Doing'
<1> SUFFICES ASSUME Inv, Doing, [Next]_vars PROVE Doing'
  OBVIOUS
<1>1. CASE CheckInStep
  <2>1. LiveStep /\ (Start \/ Report \/ Refresh \/ Move)
    BY <1>1, LiveSteps, Moves
  <2>2. CASE Move
    <3>1. run'.pc \notin {"idle", "refresh"} /\ run.pc \notin {"idle", "refresh"}
      BY <2>2 DEF Move, Inside
    <3>2. ~Start /\ ~Refresh
      BY <3>1 DEF Start, Refresh
    <3> QED
      BY <1>1, <2>1, <2>2, <3>2, DoingReport, DoingSkip, DoingWrite, DoingFails, DoingLook,
         DoingFamily, DoingFlush, DoingReplay DEF CheckInStep
  <2> QED
    BY <2>1, <2>2, DoingStart, DoingReport, DoingReads
<1>2. CASE UNCHANGED vars
  <2>1. UNCHANGED <<live, work, base, seen, run, calm>>
    BY <1>2 DEF vars
  <2>2. \A o \in Obj : (Tracked(o) => Tracked(o)') /\ (Met(o) => Met(o)')
    BY <2>1, TrackedSame, MetSame DEF Tracked
  <2>3. \A o : Op(o)' = Op(o) /\ Done(o)' = Done(o) /\ ToRetire(o)' = ToRetire(o)
    BY <2>1, PlanStays DEF Done, ToRetire
  <2>4. \A o, f : InFamily(o, f) => InFamily(o, f)'
    BY <2>1, <2>3 DEF InFamily
  <2>5. Undisturbed' = Undisturbed /\ Inside' = Inside
    BY <2>1 DEF Undisturbed, Inside
  <2> QED
    BY <2>1, <2>2, <2>3, <2>4, <2>5 DEF Doing
<1>3. CASE ~CheckInStep /\ ~Reload /\ ~UNCHANGED vars
  <2>1. run'.pc = run.pc /\ calm'.rounds = 0 /\ ~run'.whole
    BY <1>3, Disturbed DEF NoRound
  <2> QED
    BY <2>1 DEF Doing, Undisturbed
<1> QED
  BY <1>1, <1>2, <1>3, DoingReads

\* A check-in of the whole plan that nothing disturbed and that is reported ok has done every
\* item of its plan but the conflicts: what was to be written stands in the project, what was
\* to be deleted is gone, and of configs that were to be deleted the address and the alarm are
\* off and the archive and the range taken away.
THEOREM OkMeansDone == Spec => []OkIsDone
<1>1. Doing => OkIsDone
  <2> SUFFICES ASSUME Doing, run.pc = "refresh", calm.rounds > 0, NEW o \in Plan(seen)
               PROVE  InConflict(o) \/ InPlace(o)
    BY DEF OkIsDone
  <2> QED
    BY DEF Doing, Met, Plan
<1> QED
  BY <1>1, InitDoing, NextDoing, Invariant, PTL DEF Spec

-----------------------------------------------------------------------------
(* Why a plan that is checked in again may fail. *)

\* What no check-in of this plan can do at o, now and until its end.
Firm(o) ==
  \/ /\ o \in Type /\ ~Has(work, o) /\ Has(base, o) /\ Has(live, o)
     /\ \E d \in Children(o) : Has(live, d)
  \/ o \notin Type /\ Has(work, o) /\ ~Standing(live, o) /\ Parent[o] \notin run.todo

\* A check-in of the whole plan that follows an undisturbed one.
Again == Inside /\ run.whole /\ calm.rounds > 0

\* The first one has deleted the datapoints that it could, so that the second takes no parent
\* from a config it has to retire, and fails only at what is firm.
Stuck ==
  /\ Again => \A d \in Dp : Deletable(d) => ~Has(live, d)
  /\ Again => \A c \in Config : Op(c) = "delete" /\ run.prev[c] # NoConfig => Has(live, Parent[c])
  /\ Again /\ run.failed => \E o \in Obj : Firm(o)
  /\ run.pc = "write" /\ run.whole =>
       \A o \in run.left \ Config : IF Op(o) = "delete" THEN Has(live, o)
                                                           ELSE o \in Dp => ~Has(live, o)
  /\ run.pc = "idle" /\ calm.rounds = 2 /\ ~calm.ok => \E o \in Plan(live) : Blocked(o)
  /\ run.pc = "refresh" => calm.ok

\* A datapoint that the check-in may not delete stays, and so does a type that has one.
LEMMA ParentsStay ==
  ASSUME Inv, LiveStep, \A d \in Dp : Deletable(d) => ~Has(live, d)
  PROVE  /\ \A d \in Dp : Has(live, d) => Has(live', d)
         /\ \A t \in Type : Has(live, t) /\ (\E d \in Children(t) : Has(live, d)) => Has(live', t)
<1>1. ASSUME NEW s, Puts(s), NEW o \in Obj \ Config, Has(live, o)
      PROVE  Has(live', o)
  BY <1>1 DEF Puts, Has
<1>2. ASSUME NEW x \in Obj \ Config, Deletable(x), Drops(x), NEW o \in Obj \ Config,
             Has(live, o), o \in Type => \E d \in Children(o) : Has(live, d)
      PROVE  Has(live', o)
  <2>1. Has(live, x) /\ (x \in Type => \A d \in Children(x) : ~Has(live, d))
    BY <1>2 DEF Drops, CanDrop
  <2>2. x \in Type
    BY <1>2, <2>1, Kinds
  <2>3. o \notin {x} \cup Below(x)
    BY <1>2, <2>1, <2>2, BelowIs, Kinds
  <2>4. live'[o] = live[o]
    BY <1>2, <2>3, DropsKeep, TypesAre DEF Inv
  <2> QED
    BY <1>2, <2>4 DEF Has
<1>3. live' = live => \A o : Has(live', o) = Has(live, o)
  BY DEF Has
<1>4. \A d \in Dp : d \in Obj \ Config /\ d \notin Type
  BY Kinds
<1>5. \A t \in Type : t \in Obj \ Config
  BY Kinds
<1> QED
  BY <1>1, <1>2, <1>3, <1>4, <1>5 DEF LiveStep

\* What is not there and has no item in the plan any more does not come.
LEMMA NoneComes ==
  ASSUME Inv, LiveStep, NEW p \in Obj \ Config, p \notin run.todo, ~Has(live, p)
  PROVE  ~Has(live', p)
  BY LiveAt DEF Has

LEMMA FirmKept ==
  ASSUME Inv, LiveStep, Move, \A d \in Dp : Deletable(d) => ~Has(live, d),
         NEW o \in Obj, Firm(o)
  PROVE  Firm(o)'
<1>m. UNCHANGED <<work, base>> /\ run'.todo \subseteq run.todo
  BY DEF Move
<1>1. CASE /\ o \in Type /\ ~Has(work, o) /\ Has(base, o) /\ Has(live, o)
           /\ \E d \in Children(o) : Has(live, d)
  <2>1. Has(live', o) /\ \E d \in Children(o) : Has(live', d)
    BY <1>1, ParentsStay, BelowIs
  <2> QED
    BY <1>m, <1>1, <2>1 DEF Firm, Has
<1>2. CASE o \notin Type /\ Has(work, o) /\ ~Standing(live, o) /\ Parent[o] \notin run.todo
  <2>1. Parent[o] \in Obj \ Config
    BY <1>2, Kinds, Parents
  <2>2. ~Has(live', Parent[o])
    BY <1>2, <2>1, NoneComes DEF Standing
  <2> QED
    BY <1>m, <1>2, <2>2 DEF Firm, Has, Standing
<1> QED
  BY <1>1, <1>2 DEF Firm

LEMMA StuckMoves ==
  ASSUME Inv, Stuck, LiveStep, Move,
         Again /\ Again' /\ ~run.failed /\ run'.failed => \E o \in Obj : Firm(o)',
         run'.pc = "write" /\ run'.whole =>
           \A o \in run'.left \ Config : IF Op(o) = "delete" THEN Has(live', o)
                                                               ELSE o \in Dp => ~Has(live', o)
  PROVE  Stuck'
<1>1. /\ Inside /\ UNCHANGED <<work, base, seen, calm>> /\ (run'.whole => run.whole)
      /\ run'.prev = run.prev /\ run'.pc \notin {"idle", "refresh"} /\ run.pc \notin {"idle", "refresh"}
  BY DEF Move, Inside
<1>2. Again' => Again
  BY <1>1 DEF Again
<1>3. \A o : Op(o)' = Op(o) /\ Deletable(o)' = Deletable(o)
  BY <1>1, PlanStays DEF Deletable
<1>4. ASSUME Again', NEW d \in Dp, Deletable(d) PROVE ~Has(live', d)
  <2>1. d \in Obj \ Config /\ ~Has(live, d)
    BY <1>2, <1>4, Kinds DEF Stuck
  <2>2. Op(d) = "delete"
    BY <1>4 DEF Deletable
  <2> QED
    BY <2>1, <2>2, LiveAt DEF Has
<1>5. ASSUME Again', NEW c \in Config, Op(c) = "delete", run.prev[c] # NoConfig
      PROVE  Has(live', Parent[c])
  <2>1. Has(live, Parent[c]) /\ \A d \in Dp : Deletable(d) => ~Has(live, d)
    BY <1>2, <1>5 DEF Stuck
  <2> QED
    BY <2>1, ParentsStay, Parents
<1>6. ASSUME Again', run'.failed PROVE \E o \in Obj : Firm(o)'
  <2>1. CASE run.failed
    <3>1. (\E o \in Obj : Firm(o)) /\ \A d \in Dp : Deletable(d) => ~Has(live, d)
      BY <1>2, <1>6, <2>1 DEF Stuck
    <3> QED
      BY <3>1, FirmKept
  <2>2. CASE ~run.failed
    BY <1>2, <1>6, <2>2
  <2> QED
    BY <2>1, <2>2
<1>7. \A o : Has(live, o)' = Has(live', o)
  BY DEF Has
<1> QED
  BY <1>1, <1>3, <1>4, <1>5, <1>6, <1>7 DEF Stuck

\* A write that could not have been done failed at something firm.
LEMMA FailedIsFirm ==
  ASSUME Inv, Stuck, Again, NEW o \in Obj, UNCHANGED <<live, work, base>>, run'.todo \subseteq run.todo,
         \/ run.pc = "write" /\ AtItem(o) /\ IF o \in Config THEN ~CanPut(o) ELSE ~Possible(o)
         \/ run.pc = "replay" /\ o \in Config /\ Has(work, o) /\ ~CanPut(o)
  PROVE  Firm(o)'
<1>1. ASSUME o \notin Type, Has(work, o), ~CanPut(o), Parent[o] \notin run.todo
      PROVE  Firm(o)'
  BY <1>1 DEF Firm, CanPut, Standing, Has
<1>2. CASE run.pc = "replay" /\ o \in Config /\ Has(work, o) /\ ~CanPut(o)
  <2>1. Parent[o] \notin run.todo /\ o \notin Type
    BY <1>2, Kinds, Parents DEF Inv, Chosen
  <2> QED
    BY <1>1, <1>2, <2>1
<1>3. CASE run.pc = "write" /\ AtItem(o) /\ IF o \in Config THEN ~CanPut(o) ELSE ~Possible(o)
  <2>1. o \notin Type => Parent[o] \notin run.todo
    <3> SUFFICES ASSUME o \notin Type, Parent[o] \in run.todo PROVE FALSE
      OBVIOUS
    <3>1. Rank(o) <= Rank(Parent[o])
      BY <1>3 DEF AtItem
    <3>2. CASE o \in Dp
      <4>1. Rank(o) \in 3..5 /\ Rank(Parent[o]) \in 0..2
        BY <3>2, RankIs, Parents
      <4> QED
        BY <3>1, <4>1
    <3>3. CASE o \in Config
      <4>1. Rank(o) \in 6..8 /\ Rank(Parent[o]) \in 3..5
        BY <3>3, RankIs, Parents
      <4> QED
        BY <3>1, <4>1
    <3> QED
      BY <3>2, <3>3, Kinds
  <2>2. o \in run.left /\ o \in Plan(seen) /\ run.whole
    BY <1>3, ThisItem DEF AtItem, Inv, Again
  <2>3. CASE Op(o) # "delete"
    <3>1. Has(work, o)
      BY <2>2, <2>3, PlanIs
    <3>2. ~CanPut(o)
      <4>1. CASE o \in Config
        BY <1>3, <4>1
      <4>2. CASE o \notin Config
        <5>1. o \in Dp => ~Has(live, o)
          BY <1>3, <2>2, <2>3, <4>2 DEF Stuck
        <5> QED
          BY <1>3, <2>3, <4>2, <5>1 DEF Possible
      <4> QED
        BY <4>1, <4>2
    <3>3. o \notin Type
      BY <3>2 DEF CanPut, Standing
    <3> QED
      BY <1>1, <2>1, <3>1, <3>2, <3>3
  <2>4. CASE Op(o) = "delete" /\ o \in Config
    <3>1. ~Has(live, Parent[o])
      BY <1>3, <2>4, Kinds DEF CanPut, Standing
    <3>2. PICK f \in Family : run.prev[o][f] # None
      BY <1>3, <2>4 DEF AtItem, Families
    <3>3. run.prev[o] # NoConfig
      BY <3>2, NoConfigIs
    <3> QED
      BY <2>4, <3>1, <3>3 DEF Stuck
  <2>5. CASE Op(o) = "delete" /\ o \notin Config
    <3>1. Has(live, o)
      BY <1>3, <2>2, <2>5 DEF Stuck
    <3>2. o \in Type /\ \E d \in Children(o) : Has(live, d)
      BY <1>3, <2>5, <3>1 DEF Possible, CanDrop
    <3>3. ~Has(work, o) /\ Has(base, o)
      BY <2>5, OpIs DEF Op
    <3> QED
      BY <3>1, <3>2, <3>3 DEF Firm, Has
  <2> QED
    BY <2>3, <2>4, <2>5
<1> QED
  BY <1>2, <1>3

LEMMA Failures ==
  ASSUME Inv, Stuck, CheckInStep, Move, Again, run'.whole, ~run.failed, run'.failed
  PROVE  \E o \in Obj : Firm(o)'
<1>r. run \in RunState /\ UNCHANGED <<work, base>> /\ run'.todo \subseteq run.todo
      /\ run'.pc \notin {"idle", "refresh"} /\ run.pc \notin {"idle", "refresh"}
  BY TypesAre DEF Inv, RunOK, Move, Inside
<1>1. ASSUME NEW s \in RunState, NEW possible \in BOOLEAN, run' = Failed(s, possible)
      PROVE  ~possible
  BY <1>1, FailedIs
<1>2. ASSUME NEW s, s.failed = run.failed PROVE run' # s
  BY <1>2
<1>3. ASSUME NEW o \in Obj, WriteFails(o) PROVE Firm(o)'
  <2>1. /\ run.pc = "write" /\ AtItem(o) /\ live' = live
        /\ run' = Failed(Checked(o), IF o \in Config THEN CanPut(o) ELSE Possible(o))
    BY <1>3, ThisItem DEF WriteFails, Inv
  <2>2. PICK s : s = Checked(o)
    OBVIOUS
  <2>3. s \in RunState
    BY <1>r, <2>2, CheckedIs
  <2>4. CanPut(o) \in BOOLEAN /\ Possible(o) \in BOOLEAN
    BY DEF Possible, CanPut, CanDrop, Standing, Has
  <2>5. CASE o \in Config
    <3>1. run' = Failed(s, CanPut(o))
      BY <2>1, <2>2, <2>5
    <3>2. ~CanPut(o)
      BY <1>1, <2>3, <2>4, <3>1
    <3> QED
      BY <1>r, <2>1, <2>5, <3>2, FailedIsFirm
  <2>6. CASE o \notin Config
    <3>1. run' = Failed(s, Possible(o))
      BY <2>1, <2>2, <2>6
    <3>2. ~Possible(o)
      BY <1>1, <2>3, <2>4, <3>1
    <3> QED
      BY <1>r, <2>1, <2>6, <3>2, FailedIsFirm
  <2> QED
    BY <2>5, <2>6
<1>4. ASSUME NEW o \in Obj, Replay(o) PROVE Firm(o)'
  <2>1. /\ run.pc = "replay" /\ o \in Config /\ Has(work, o)
        /\ \/ run' = Replayed(o) \/ run' = Failed(Replayed(o), TRUE)
           \/ live' = live /\ run' = Failed(Replayed(o), CanPut(o))
    BY <1>4, ReplayDoes DEF Replay
  <2>2. PICK s : s = Replayed(o)
    OBVIOUS
  <2>3. s \in RunState /\ s.failed = run.failed
    BY <1>r, <2>2, ReplayedIs
  <2>4. run' # s /\ run' # Failed(s, TRUE)
    BY <1>1, <1>2, <2>3
  <2>5. live' = live /\ run' = Failed(s, CanPut(o))
    BY <2>1, <2>2, <2>4
  <2>6. CanPut(o) \in BOOLEAN
    BY DEF CanPut, Standing, Has
  <2>7. ~CanPut(o)
    BY <1>1, <2>3, <2>5, <2>6
  <2> QED
    BY <1>r, <2>1, <2>5, <2>7, FailedIsFirm
<1>5. ASSUME NEW o \in Obj, Skip(o) \/ Write(o) \/ WriteFamily(o) \/ Unresolved(o) PROVE FALSE
  <2>1. PICK s : s = Checked(o)
    OBVIOUS
  <2>2. s \in RunState /\ s.failed = run.failed
    BY <1>r, <2>1, CheckedIs
  <2>3. run' # s /\ run' # Failed(s, TRUE)
    BY <1>1, <1>2, <2>2
  <2>4. \E f : run' = [run EXCEPT !.fams = @ \ {f}]
    BY <1>5, <2>1, <2>3 DEF Skip, Write, WriteFamily, Unresolved
  <2> QED
    BY <1>r, <2>4 DEF RunState
<1>6. ASSUME NEW o \in Obj, Look(o) \/ LookConfig(o) PROVE FALSE
  <2>1. \/ run' = [run EXCEPT !.pc = "write", !.left = {o}]
        \/ run' = [run EXCEPT !.pc = "write", !.left = {o}, !.fams = Families(o)]
    BY <1>6 DEF Look, LookConfig
  <2> QED
    BY <1>r, <2>1 DEF RunState
<1>7. ASSUME NEW b \in SUBSET Config, Flush(b) PROVE FALSE
  <2>1. \/ run' = [run EXCEPT !.todo = @ \ b]
        \/ run' = [run EXCEPT !.pc = "replay", !.todo = @ \ b, !.left = b]
    BY <1>7 DEF Flush
  <2> QED
    BY <1>r, <2>1 DEF RunState
<1>8. ~Start /\ ~Refresh /\ ~Report
  <2>1. ~Start /\ ~Refresh
    BY <1>r DEF Start, Refresh
  <2> QED
    BY <1>r, <2>1, ReportIs
<1> QED
  BY <1>3, <1>4, <1>5, <1>6, <1>7, <1>8 DEF CheckInStep

\* While the answer whether the object is there is used, it is still right: a datapoint of the
\* plan is created or deleted.
LEMMA LookedRight ==
  ASSUME Inv, Stuck, CheckInStep, Move, run'.pc = "write", NEW o \in run'.left \ Config
  PROVE  IF Op(o) = "delete" THEN Has(live', o) ELSE o \in Dp => ~Has(live', o)
<1>r. /\ run \in RunState /\ run.pc \notin {"idle", "refresh"}
  BY TypesAre DEF Inv, RunOK, Move, Inside
<1>1. ASSUME NEW p \in Obj, Skip(p) \/ Write(p) \/ WriteFails(p) \/ Unresolved(p) PROVE FALSE
  <2>1. PICK s : s = Checked(p)
    OBVIOUS
  <2>2. s \in RunState /\ s.pc = "look"
    BY <1>r, <2>1, CheckedIs
  <2>3. run' = s \/ \E possible \in BOOLEAN : run' = Failed(s, possible)
    <3>1. CASE Write(p)
      <4>1. run' = s \/ run' = Failed(s, TRUE)
        BY <2>1, <3>1 DEF Write
      <4>2. TRUE \in BOOLEAN
        OBVIOUS
      <4> QED
        BY <4>1, <4>2
    <3>2. CASE Skip(p) \/ WriteFails(p) \/ Unresolved(p)
      BY <2>1, <3>2, SkipIs DEF Inv
    <3> QED
      BY <1>1, <3>1, <3>2
  <2>4. run'.pc = "look"
    <3>1. ASSUME NEW possible \in BOOLEAN, run' = Failed(s, possible) PROVE run'.pc = s.pc
      BY <2>2, <3>1, FailedIs
    <3> QED
      BY <2>2, <2>3, <3>1
  <2> QED
    BY <2>4
<1>2. ASSUME NEW p \in Obj, WriteFamily(p) PROVE FALSE
  <2>1. PICK s : /\ s = Checked(p)
                 /\ \/ run' = s \/ run' = Failed(s, TRUE)
                    \/ \E f : run' = [run EXCEPT !.fams = @ \ {f}]
    BY <1>2 DEF WriteFamily
  <2>2. s \in RunState /\ s.pc = "look"
    BY <1>r, <2>1, CheckedIs
  <2>3. \E f : run' = [run EXCEPT !.fams = @ \ {f}]
    BY <2>1, <2>2, FailedIs
  <2>4. run'.left = run.left
    BY <1>r, <2>3 DEF RunState
  <2>5. run.left = {p} /\ p \in Config
    BY <1>2, WriteFamilyDoes DEF AtItem
  <2> QED
    BY <2>4, <2>5
<1>3. ASSUME NEW p \in Obj, Look(p)
      PROVE  IF Op(o) = "delete" THEN Has(live', o) ELSE o \in Dp => ~Has(live', o)
  <2>1. /\ run' = [run EXCEPT !.pc = "write", !.left = {p}] /\ live' = live
        /\ (Op(p) = "delete" => Has(live, p)) /\ (Op(p) = "create" => ~Has(live, p))
        /\ p \in Plan(seen)
    BY <1>3 DEF Look, Turn, Inv, Chosen, Inside
  <2>2. o = p
    BY <1>r, <2>1 DEF RunState
  <2>3. ASSUME p \in Dp, Op(p) # "delete" PROVE Op(p) = "create"
    <3>1. Op(p) \in {"create", "update", "delete"} /\ Has(work, p)
      BY <2>1, <2>3, PlanIs, OpIs DEF Plan, Op
    <3>2. Op(p) = "update" => Has(seen, p) /\ seen[p] # work[p]
      BY OpIs DEF Op
    <3>3. Has(seen, p) => seen[p] = work[p]
      BY <2>3, <3>1, ContentAt, MayStand, TypesAre DEF Inv
    <3> QED
      BY <2>3, <3>1, <3>2, <3>3
  <2> QED
    BY <2>1, <2>2, <2>3 DEF Has
<1>4. ASSUME NEW p \in Obj, LookConfig(p) PROVE FALSE
  <2>1. run' = [run EXCEPT !.pc = "write", !.left = {p}, !.fams = Families(p)] /\ p \in Config
    BY <1>4 DEF LookConfig
  <2> QED
    BY <1>r, <2>1 DEF RunState
<1>5. ASSUME NEW b \in SUBSET Config, Flush(b) PROVE FALSE
  <2>1. /\ run.pc = "look"
        /\ \/ run' = [run EXCEPT !.todo = @ \ b]
           \/ run' = [run EXCEPT !.pc = "replay", !.todo = @ \ b, !.left = b]
    BY <1>5 DEF Flush
  <2> QED
    BY <1>r, <2>1 DEF RunState
<1>6. ASSUME NEW p \in Obj, Replay(p) PROVE FALSE
  <2>1. PICK s : s = Replayed(p) /\ (run' = s \/ \E possible \in BOOLEAN : run' = Failed(s, possible))
    <3>1. CanPut(p) \in BOOLEAN
      BY DEF CanPut, Standing, Has
    <3> QED
      BY <1>6, <3>1, ReplayDoes
  <2>2. s \in RunState /\ s.pc # "write"
    BY <1>r, <2>1, ReplayedIs
  <2>3. run' = s \/ \E possible \in BOOLEAN : run' = Failed(s, possible)
    BY <2>1
  <2>4. ASSUME NEW possible \in BOOLEAN, run' = Failed(s, possible) PROVE run'.pc = s.pc
    BY <2>2, <2>4, FailedIs
  <2> QED
    BY <2>2, <2>3, <2>4
<1>7. ~Start /\ ~Refresh /\ ~Report
  <2>1. ~Start /\ ~Refresh
    BY <1>r DEF Start, Refresh
  <2>2. Report => run'.pc # "write"
    BY ReportIs
  <2> QED
    BY <2>1, <2>2
<1> QED
  BY <1>1, <1>2, <1>3, <1>4, <1>5, <1>6, <1>7 DEF CheckInStep

LEMMA FirmIsBlocked ==
  ASSUME Inv, NEW o \in Obj, Firm(o)
  PROVE  o \in Plan(live) /\ Blocked(o)
<1>1. CASE /\ o \in Type /\ ~Has(work, o) /\ Has(base, o) /\ Has(live, o)
           /\ \E d \in Children(o) : Has(live, d)
  <2>1. OpOf(o, live) = "delete"
    BY <1>1, OpIs
  <2> QED
    BY <1>1, <2>1 DEF Plan, Blocked
<1>2. CASE o \notin Type /\ Has(work, o) /\ ~Standing(live, o)
  <2>1. ~Has(live, o)
    BY <1>2 DEF Inv, Rooted
  <2>2. OpOf(o, live) = "create"
    BY <1>2, <2>1, OpIs
  <2> QED
    BY <1>2, <2>2 DEF Plan, Blocked
<1> QED
  BY <1>1, <1>2 DEF Firm

LEMMA BlockedSame ==
  ASSUME UNCHANGED <<live, work, base>>, \E o \in Plan(live) : Blocked(o)
  PROVE  (\E o \in Plan(live) : Blocked(o))'
<1>1. \A o : Blocked(o)' = Blocked(o)
  BY DEF Blocked, OpOf, Standing, Has
<1>2. Plan(live)' = Plan(live)
  BY DEF Plan, OpOf, Has
<1> QED
  BY <1>1, <1>2

LEMMA StuckStart ==
  ASSUME Inv, Doing, Stuck, Start
  PROVE  Stuck'
<1>1. /\ run.pc = "idle" /\ run'.pc = "look" /\ run.todo = {} /\ ~run'.failed
      /\ UNCHANGED <<live, work, base, seen, calm>>
      /\ run'.whole => \A o \in Config : Op(o) = "delete" => run'.prev[o] = live[o]
  BY StartIs, TypesAre, IdleIs DEF Inv, RunOK
<1>2. \A o : Op(o)' = Op(o) /\ Deletable(o)' = Deletable(o) /\ Has(live, o)' = Has(live, o)
  BY <1>1, PlanStays DEF Deletable, Has
<1>3. ASSUME Again', NEW d \in Dp, Deletable(d) PROVE ~Has(live, d)
  <2>1. Tracked(d)
    BY <1>1, <1>3, Kinds DEF Doing, Undisturbed, Again
  <2> QED
    BY <1>1, <1>3, <2>1 DEF Tracked
<1>4. ASSUME Again', NEW c \in Config, Op(c) = "delete", run'.prev[c] # NoConfig
      PROVE  Has(live, Parent[c])
  <2>1. Has(live, c)
    BY <1>1, <1>4, MayStand DEF Again, Has
  <2> QED
    BY <2>1, Kinds DEF Inv, Rooted, Standing
<1>5. \A c \in Config : Has(live, Parent[c])' = Has(live, Parent[c])
  BY <1>1 DEF Has
<1> QED
  BY <1>1, <1>2, <1>3, <1>4, <1>5 DEF Stuck

LEMMA StuckReport ==
  ASSUME Inv, Stuck, Report
  PROVE  Stuck'
<1>1. /\ run.pc = "look" /\ run.todo = {} /\ run'.pc \in {"idle", "refresh"}
      /\ UNCHANGED <<live, work, base, seen>>
      /\ run'.pc = "refresh" => ~run.failed
      /\ run'.pc = "idle" => run.failed
  BY ReportIs
<1>2. run'.pc = "refresh" => calm'.ok
  BY <1>1, ReportIs
<1>3. ASSUME run'.pc = "idle", calm'.rounds = 2, ~calm'.ok
      PROVE  (\E o \in Plan(live) : Blocked(o))'
  <2>1. run.whole /\ run.failed
    BY <1>1, <1>3, ReportIs
  <2>2. calm.rounds > 0
    <3>1. calm.rounds \in 0..2
      BY TypesAre DEF Inv
    <3>2. (IF calm.rounds < 2 THEN calm.rounds + 1 ELSE 2) = 2
      BY <1>3, <2>1, ReportIs
    <3> QED
      BY <3>1, <3>2
  <2>3. \E o \in Obj : Firm(o)
    BY <1>1, <2>1, <2>2 DEF Stuck, Again, Inside
  <2> QED
    BY <1>1, <2>3, FirmIsBlocked, BlockedSame
<1> QED
  BY <1>1, <1>2, <1>3 DEF Stuck, Again, Inside

LEMMA InitStuck == Init => Stuck
<1> SUFFICES ASSUME Init PROVE Stuck
  OBVIOUS
<1>1. run.pc = "idle" /\ calm.rounds = 0
  BY IdleIs DEF Init, NoRound
<1> QED
  BY <1>1 DEF Stuck, Again, Inside

LEMMA NextStuck == Inv /\ Doing /\ Stuck /\ [Next]_vars => Stuck'
<1> SUFFICES ASSUME Inv, Doing, Stuck, [Next]_vars PROVE Stuck'
  OBVIOUS
<1>1. CASE CheckInStep
  <2>1. LiveStep /\ (Start \/ Report \/ Refresh \/ Move)
    BY <1>1, LiveSteps, Moves
  <2>2. CASE Move
    <3>1. Again /\ Again' /\ ~run.failed /\ run'.failed => \E o \in Obj : Firm(o)'
      BY <1>1, <2>2, Failures DEF Again
    <3>2. run'.pc = "write" /\ run'.whole =>
            \A o \in run'.left \ Config : IF Op(o) = "delete" THEN Has(live', o)
                                                                ELSE o \in Dp => ~Has(live', o)
      BY <1>1, <2>2, LookedRight
    <3> QED
      BY <2>1, <2>2, <3>1, <3>2, StuckMoves
  <2>3. CASE Refresh
    <3>1. run.pc = "refresh" /\ run'.pc = "idle" /\ calm' \in {calm, NoRound}
      BY <2>3, IdleIs DEF Refresh, Recalled
    <3>2. calm'.ok
      BY <3>1 DEF Stuck, NoRound
    <3> QED
      BY <3>1, <3>2 DEF Stuck, Again, Inside
  <2> QED
    BY <2>1, <2>2, <2>3, StuckStart, StuckReport
<1>2. CASE Reload
  <2>1. run.pc = "idle" /\ UNCHANGED <<live, work, base, run>> /\ (calm' = calm \/ calm'.ok)
    BY <1>2 DEF Reload, Recalled, NoRound
  <2> QED
    BY <2>1, BlockedSame DEF Stuck, Again, Inside
<1>3. CASE UNCHANGED vars
  <2>1. UNCHANGED <<live, work, base, seen, run, calm>>
    BY <1>3 DEF vars
  <2>2. \A o : /\ Op(o)' = Op(o) /\ Deletable(o)' = Deletable(o) /\ Firm(o)' = Firm(o)
               /\ Has(live, o)' = Has(live, o)
    BY <2>1, PlanStays DEF Deletable, Firm, Standing, Has
  <2>3. \A c : Has(live, Parent[c])' = Has(live, Parent[c])
    BY <2>1 DEF Has
  <2> QED
    BY <2>1, <2>2, <2>3, BlockedSame DEF Stuck, Again, Inside
<1>4. CASE ~CheckInStep /\ ~Reload /\ ~UNCHANGED vars
  <2>1. calm'.rounds = 0 /\ calm'.ok /\ ~run'.whole
    BY <1>4, Disturbed DEF NoRound
  <2> QED
    BY <2>1 DEF Stuck, Again
<1> QED
  BY <1>1, <1>2, <1>3, <1>4

\* A plan that is checked in again, with nothing in between, fails only at what no check-in
\* can do.
THEOREM AgainFailsOnlyBlocked == Spec => []FailsOnlyBlocked
<1>1. Stuck => FailsOnlyBlocked
  BY DEF Stuck, FailsOnlyBlocked
<1> QED
  BY <1>1, InitDoing, NextDoing, InitStuck, NextStuck, Invariant, PTL DEF Spec

=============================================================================
