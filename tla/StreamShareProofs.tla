-------------------------- MODULE StreamShareProofs --------------------------
(***************************************************************************)
(* Theorems about StreamShare, for any sessions, cameras and number of     *)
(* probes at a time: the count of viewers is that of the sessions, the     *)
(* clients of an ffmpeg are the sockets handed to it, a pause has a drain  *)
(* to come, and the statuses are those of the last listing.                *)
(***************************************************************************)
EXTENDS StreamShare, FiniteSetTheorems, TLAPS

\* A session r of the webserver, with the manager's side k of its socket.
Fine(r, k) ==
  /\ r \in ViewRec /\ k \in ConnRec
  /\ r.counted <=> (r.ws \in {"open", "ending"} /\ r.id \in Camera)
  /\ r.ws = "none" => r.up = "none" /\ k.pc = "none" /\ ~r.closing
  /\ r.up = "none" => ~r.paused
  /\ r.up \in {"connecting", "open"} => r.ws = "open" /\ ~r.closing
  /\ r.ws = "open" /\ r.paused => r.full
  /\ k.pc = "streaming" => r.id \in Camera

Sessions ==
  /\ view \in [Viewer -> ViewRec] /\ conn \in [Viewer -> ConnRec]
  /\ \A v \in Viewer : Fine(view[v], conn[v])

Watching(c) == {v \in Viewer : view[v].id = c /\ view[v].ws \in {"open", "ending"}}

Counts ==
  /\ clients \in [Camera -> Nat] /\ refs \in [Camera -> Nat]
  /\ \A c \in Camera : clients[c] = Cardinality(Watching(c)) /\ refs[c] = Cardinality(Held(c))

\* A camera of the pass that is not waiting for its probe any more has a status.
Passes ==
  /\ cameras \subseteq Camera /\ status \subseteq Camera
  /\ pass \in [on : BOOLEAN, ids : SUBSET Camera, todo : SUBSET Camera, running : SUBSET Camera]
  /\ pass.on => /\ pass.todo \cup pass.running \subseteq pass.ids
                /\ pass.ids \ (pass.todo \cup pass.running) \subseteq status
  /\ ~pass.on => status = pass.ids /\ pass.running = {}

\* The inductive invariant.
Inv == Sessions /\ Counts /\ Passes

-----------------------------------------------------------------------------
LEMMA CountMove ==
  ASSUME NEW v \in Viewer, NEW S \in SUBSET Viewer, NEW T \in SUBSET Viewer, S \ {v} = T \ {v}
  PROVE  /\ Cardinality(S) \in Nat /\ Cardinality(T) \in Nat
         /\ (v \in S <=> v \in T) => T = S
         /\ v \notin S /\ v \in T => Cardinality(T) = Cardinality(S) + 1
         /\ v \in S /\ v \notin T => Cardinality(T) = Cardinality(S) - 1 /\ Cardinality(S) >= 1
<1>1. IsFiniteSet(S) /\ IsFiniteSet(T)
  BY ViewerAssumption, FS_Subset
<1>2. Cardinality(S) \in Nat /\ Cardinality(T) \in Nat
  BY <1>1, FS_CardinalityType
<1>3. CASE v \in S <=> v \in T
  BY <1>2, <1>3
<1>4. CASE v \notin S /\ v \in T
  <2>1. T = S \cup {v}
    BY <1>4
  <2> QED
    BY <1>1, <1>2, <1>4, <2>1, FS_AddElement
<1>5. CASE v \in S /\ v \notin T
  <2>1. T = S \ {v}
    BY <1>5
  <2>2. Cardinality(T) = Cardinality(S) - 1
    BY <1>1, <1>5, <2>1, FS_RemoveElement
  <2> QED
    BY <1>2, <1>5, <2>2
<1> QED
  BY <1>3, <1>4, <1>5

\* A step of one session: its record becomes r, the manager's side of it k.
Moves(v, r, k) ==
  /\ Fine(r, k)
  /\ view' = [view EXCEPT ![v] = r] /\ conn' = [conn EXCEPT ![v] = k]

LEMMA MovesFine ==
  ASSUME Sessions, NEW v \in Viewer, NEW r, NEW k, Moves(v, r, k)
  PROVE  /\ Sessions' /\ view'[v] = r /\ conn'[v] = k
         /\ \A w \in Viewer \ {v} : view'[w] = view[w] /\ conn'[w] = conn[w]
<1>1. r \in ViewRec /\ k \in ConnRec
  BY DEF Moves, Fine
<1>2. /\ view' \in [Viewer -> ViewRec] /\ conn' \in [Viewer -> ConnRec]
      /\ view'[v] = r /\ conn'[v] = k
      /\ \A w \in Viewer \ {v} : view'[w] = view[w] /\ conn'[w] = conn[w]
  BY <1>1 DEF Moves, Sessions
<1>3. ASSUME NEW w \in Viewer PROVE Fine(view'[w], conn'[w])
  <2>1. CASE w = v
    BY <1>2, <2>1 DEF Moves
  <2>2. CASE w # v
    BY <1>2, <2>2 DEF Sessions
  <2> QED
    BY <2>1, <2>2
<1> QED
  BY <1>2, <1>3 DEF Sessions

\* Who watches a camera, and whose socket its ffmpeg serves, after a step of v.
LEMMA MovesSets ==
  ASSUME Sessions, NEW v \in Viewer, NEW r, NEW k, Moves(v, r, k), NEW c \in Camera
  PROVE  /\ Watching(c) \in SUBSET Viewer /\ Watching(c)' \in SUBSET Viewer
         /\ Watching(c) \ {v} = Watching(c)' \ {v}
         /\ v \in Watching(c) <=> view[v].id = c /\ view[v].ws \in {"open", "ending"}
         /\ v \in Watching(c)' <=> r.id = c /\ r.ws \in {"open", "ending"}
         /\ Held(c) \in SUBSET Viewer /\ Held(c)' \in SUBSET Viewer
         /\ Held(c) \ {v} = Held(c)' \ {v}
         /\ v \in Held(c) <=> view[v].id = c /\ conn[v].pc = "streaming"
         /\ v \in Held(c)' <=> r.id = c /\ k.pc = "streaming"
<1>1. view'[v] = r /\ conn'[v] = k
      /\ \A w \in Viewer \ {v} : view'[w] = view[w] /\ conn'[w] = conn[w]
  BY MovesFine
<1> QED
  BY <1>1 DEF Watching, Held

\* A step that changes neither count.
LEMMA MovesQuiet ==
  ASSUME Sessions, Counts, NEW v \in Viewer, NEW r, NEW k, Moves(v, r, k),
         clients' = clients, refs' = refs, r.id = view[v].id,
         r.ws \in {"open", "ending"} <=> view[v].ws \in {"open", "ending"},
         k.pc = "streaming" <=> conn[v].pc = "streaming"
  PROVE  Sessions' /\ Counts'
<1>1. Sessions'
  BY MovesFine
<1>2. ASSUME NEW c \in Camera PROVE Watching(c)' = Watching(c) /\ Held(c)' = Held(c)
  BY MovesSets, CountMove
<1> QED
  BY <1>1, <1>2 DEF Counts

\* A step that leaves the manager's side alone.
LEMMA ViewMoves ==
  ASSUME Sessions, NEW v \in Viewer, NEW r, Fine(r, conn[v]),
         view' = [view EXCEPT ![v] = r], conn' = conn
  PROVE  Moves(v, r, conn[v])
<1>1. conn \in [Viewer -> ConnRec]
  BY DEF Sessions
<1>2. conn' = [conn EXCEPT ![v] = conn[v]]
  BY <1>1
<1> QED
  BY <1>2 DEF Moves

LEMMA ConnMoves ==
  ASSUME Sessions, NEW v \in Viewer, NEW k, Fine(view[v], k),
         view' = view, conn' = [conn EXCEPT ![v] = k]
  PROVE  Moves(v, view[v], k)
<1>1. view \in [Viewer -> ViewRec]
  BY DEF Sessions
<1>2. view' = [view EXCEPT ![v] = view[v]]
  BY <1>1
<1> QED
  BY <1>2 DEF Moves

\* An end() of ours: the upstream is gone, the close of the browser's socket is to come.
LEMMA EndFine ==
  ASSUME NEW r, NEW k, Fine(r, k), r.up \in {"connecting", "open"}
  PROVE  /\ Fine(SafeEnd([r EXCEPT !.up = "closed"]), k)
         /\ SafeEnd([r EXCEPT !.up = "closed"]).id = r.id
         /\ SafeEnd([r EXCEPT !.up = "closed"]).ws = "ending" /\ r.ws = "open"
<1> DEFINE q == [r EXCEPT !.up = "closed"]
           s == [q EXCEPT !.closing = TRUE, !.up = Terminated(@), !.ws = "ending"]
<1>1. r \in ViewRec /\ k \in ConnRec /\ r.ws = "open" /\ ~r.closing
  BY DEF Fine
<1>2. /\ q \in ViewRec /\ q.up = "closed" /\ ~q.closing /\ q.id = r.id /\ q.ws = r.ws
      /\ q.counted = r.counted /\ q.paused = r.paused /\ q.full = r.full
  BY <1>1 DEF ViewRec
<1> HIDE DEF q
<1>3. SafeEnd(q) = s
  BY <1>2 DEF SafeEnd
<1>4. /\ s \in ViewRec /\ s.up = "closed" /\ s.ws = "ending" /\ s.id = q.id
      /\ s.counted = q.counted /\ s.paused = q.paused
  BY <1>2 DEF ViewRec, Terminated
<1> HIDE DEF s
<1>5. Fine(s, k)
  BY <1>1, <1>2, <1>4 DEF Fine
<1> QED
  BY <1>1, <1>2, <1>3, <1>4, <1>5 DEF q

LEMMA OpenStep ==
  ASSUME Sessions, Counts, NEW v \in Viewer, Open(v)
  PROVE  Sessions' /\ Counts'
<1>1. /\ Fine(view[v], conn[v]) /\ view[v] \in ViewRec /\ conn[v] \in ConnRec
      /\ view[v].ws = "none" /\ view[v].up = "none" /\ conn[v].pc = "none"
      /\ ~view[v].counted /\ ~view[v].paused /\ ~view[v].closing
      /\ conn' = conn /\ refs' = refs
  BY DEF Open, Sessions, Fine
<1>2. PICK i \in Asked :
        LET r == [view[v] EXCEPT !.id = i, !.ws = "open"] IN
        IF i = BadId
        THEN view' = [view EXCEPT ![v] = SafeEnd(r)] /\ UNCHANGED clients
        ELSE /\ view' = [view EXCEPT ![v] = [r EXCEPT !.up = "connecting", !.counted = TRUE]]
             /\ clients' = [clients EXCEPT ![i] = @ + 1]
  BY DEF Open
<1> DEFINE o == view[v]
           r == [o EXCEPT !.id = i, !.ws = "open"]
<1>3. o \in ViewRec /\ o.up = "none" /\ ~o.counted /\ ~o.paused /\ ~o.closing /\ i \in Camera \cup {BadId}
  BY <1>1, BadIdAssumption
<1>4. IF i = BadId
      THEN view' = [view EXCEPT ![v] = SafeEnd(r)] /\ UNCHANGED clients
      ELSE /\ view' = [view EXCEPT ![v] = [r EXCEPT !.up = "connecting", !.counted = TRUE]]
           /\ clients' = [clients EXCEPT ![i] = @ + 1]
  BY <1>2
<1> HIDE DEF o
<1>5. /\ r \in ViewRec /\ r.up = "none" /\ r.id = i /\ r.ws = "open" /\ ~r.counted /\ ~r.paused
      /\ ~r.closing
  BY <1>3 DEF ViewRec
<1> HIDE DEF r
<1>6. CASE i = BadId
  <2> DEFINE s == SafeEnd(r)
  <2>1. /\ s \in ViewRec /\ s.id = i /\ ~s.counted /\ ~s.paused /\ s.up = "none"
        /\ s.ws # "none"
    BY <1>5 DEF SafeEnd, ViewRec, Terminated
  <2> HIDE DEF s
  <2>2. Fine(s, conn[v])
    BY <1>1, <1>6, <2>1, BadIdAssumption DEF Fine
  <2>3. Moves(v, s, conn[v])
    BY <1>1, <1>4, <1>6, <2>2, ViewMoves DEF s
  <2>4. Sessions'
    BY <2>3, MovesFine
  <2>5. ASSUME NEW c \in Camera PROVE Watching(c)' = Watching(c) /\ Held(c)' = Held(c)
    <3>1. v \notin Watching(c) /\ v \notin Watching(c)' /\ v \notin Held(c) /\ v \notin Held(c)'
      BY <1>1, <1>6, <2>1, <2>3, BadIdAssumption, MovesSets
    <3> QED
      BY <2>3, <3>1, MovesSets, CountMove
  <2> QED
    BY <1>1, <1>4, <1>6, <2>4, <2>5 DEF Counts
<1>7. CASE i # BadId
  <2> DEFINE s == [r EXCEPT !.up = "connecting", !.counted = TRUE]
  <2>1. /\ s \in ViewRec /\ s.id = i /\ s.ws = "open" /\ s.counted /\ ~s.paused /\ s.up = "connecting"
        /\ ~s.closing
    BY <1>5 DEF ViewRec
  <2>2. view' = [view EXCEPT ![v] = s] /\ clients' = [clients EXCEPT ![i] = @ + 1] /\ i \in Camera
    BY <1>3, <1>4, <1>7
  <2> HIDE DEF s
  <2>3. Fine(s, conn[v])
    BY <1>1, <2>1, <2>2 DEF Fine
  <2>4. Moves(v, s, conn[v])
    BY <1>1, <2>2, <2>3, ViewMoves
  <2>5. Sessions'
    BY <2>4, MovesFine
  <2>6. ASSUME NEW c \in Camera
        PROVE  clients'[c] = Cardinality(Watching(c)') /\ Held(c)' = Held(c) /\ clients'[c] \in Nat
    <3>1. Held(c)' = Held(c)
      BY <1>1, <2>4, MovesSets, CountMove
    <3>2. v \notin Watching(c) /\ (v \in Watching(c)' <=> c = i)
      BY <1>1, <2>1, <2>4, MovesSets
    <3>3. /\ Cardinality(Watching(c)) \in Nat
          /\ c = i => Cardinality(Watching(c)') = Cardinality(Watching(c)) + 1
          /\ c # i => Watching(c)' = Watching(c)
      BY <2>4, <3>2, MovesSets, CountMove
    <3> QED
      BY <2>2, <3>1, <3>3 DEF Counts
  <2>7. clients' \in [Camera -> Nat]
    BY <2>2, <2>6 DEF Counts
  <2> QED
    BY <1>1, <2>5, <2>6, <2>7 DEF Counts
<1> QED
  BY <1>6, <1>7

LEMMA ClosedStep ==
  ASSUME Sessions, Counts, NEW v \in Viewer, Closed(v)
  PROVE  Sessions' /\ Counts'
<1> DEFINE o == view[v]
           s == [o EXCEPT !.ws = "closed", !.closing = TRUE, !.counted = FALSE, !.full = FALSE,
                          !.up = Terminated(@)]
<1>1. Fine(o, conn[v]) /\ o.ws \in {"open", "ending"} /\ conn' = conn /\ refs' = refs
  BY DEF Closed, Sessions
<1>2. view' = [view EXCEPT ![v] = s]
  BY DEF Closed
<1>3. clients' = IF o.counted THEN [clients EXCEPT ![o.id] = IF @ <= 1 THEN 0 ELSE @ - 1]
                              ELSE clients
  BY DEF Closed
<1>4. o = view[v]
  OBVIOUS
<1> HIDE DEF o
<1>5. o \in ViewRec
  BY <1>1 DEF Fine
<1>6. /\ s \in ViewRec /\ s.ws = "closed" /\ s.id = o.id /\ ~s.counted /\ s.paused = o.paused
      /\ s.up = IF o.up = "none" THEN "none" ELSE "closed"
  BY <1>5 DEF ViewRec, Terminated
<1> HIDE DEF s
<1>7. Fine(s, conn[v])
  BY <1>1, <1>6 DEF Fine
<1>8. Moves(v, s, conn[v])
  BY <1>1, <1>2, <1>7, ViewMoves
<1>9. Sessions'
  BY <1>8, MovesFine
<1>10. o.counted <=> o.id \in Camera
  BY <1>1 DEF Fine
<1>11. ASSUME NEW c \in Camera
       PROVE  clients'[c] = Cardinality(Watching(c)') /\ Held(c)' = Held(c) /\ clients'[c] \in Nat
  <2>1. Held(c)' = Held(c)
    BY <1>4, <1>6, <1>8, MovesSets, CountMove
  <2>2. v \notin Watching(c)' /\ (v \in Watching(c) <=> c = o.id)
    BY <1>1, <1>4, <1>6, <1>8, MovesSets
  <2>3. /\ Cardinality(Watching(c)) \in Nat
        /\ c = o.id => Cardinality(Watching(c)') = Cardinality(Watching(c)) - 1
                         /\ Cardinality(Watching(c)) >= 1
        /\ c # o.id => Watching(c)' = Watching(c)
    BY <1>8, <2>2, MovesSets, CountMove
  <2>4. clients \in [Camera -> Nat] /\ clients[c] = Cardinality(Watching(c))
    BY DEF Counts
  <2>5. CASE c = o.id
    <3>1. clients'[c] = IF clients[c] <= 1 THEN 0 ELSE clients[c] - 1
      BY <1>3, <1>10, <2>4, <2>5
    <3> QED
      BY <2>1, <2>3, <2>4, <2>5, <3>1
  <2>6. CASE c # o.id
    <3>1. clients'[c] = clients[c]
      BY <1>3, <2>4, <2>6
    <3> QED
      BY <2>1, <2>3, <2>4, <2>6, <3>1
  <2> QED
    BY <2>5, <2>6
<1>12. clients' \in [Camera -> Nat]
  <2>1. clients' = [c \in Camera |-> clients'[c]]
    BY <1>3 DEF Counts
  <2> QED
    BY <1>11, <2>1
<1> QED
  BY <1>1, <1>9, <1>11, <1>12 DEF Counts

LEMMA UpstreamStep ==
  ASSUME Sessions, Counts, NEW v \in Viewer, UpstreamError(v) \/ UpstreamClose(v)
  PROVE  Sessions' /\ Counts'
<1> DEFINE o == view[v]
           s == SafeEnd([o EXCEPT !.up = "closed"])
<1>1. /\ Fine(o, conn[v]) /\ o.up \in {"connecting", "open"}
      /\ conn' = conn /\ refs' = refs /\ clients' = clients
  BY DEF UpstreamError, UpstreamClose, Sessions
<1>2. view' = [view EXCEPT ![v] = s]
  BY DEF UpstreamError, UpstreamClose
<1>3. Fine(s, conn[v]) /\ s.id = o.id /\ s.ws = "ending" /\ o.ws = "open"
  BY <1>1, EndFine
<1> HIDE DEF s
<1>4. Moves(v, s, conn[v])
  BY <1>1, <1>2, <1>3, ViewMoves
<1> QED
  BY <1>1, <1>3, <1>4, MovesQuiet

LEMMA FrameStep ==
  ASSUME Sessions, Counts, NEW v \in Viewer, Frame(v)
  PROVE  Sessions' /\ Counts'
<1> DEFINE o == view[v]
<1>1. /\ Fine(o, conn[v]) /\ o.up = "open"
      /\ conn' = conn /\ refs' = refs /\ clients' = clients
  BY DEF Frame, Sessions
<1>2. view \in [Viewer -> ViewRec] /\ o \in ViewRec
  BY DEF Sessions
<1>3. PICK full \in {o.full, TRUE} :
        view' = [view EXCEPT ![v].full = full, ![v].paused = @ \/ full]
  BY DEF Frame
<1> DEFINE s == [o EXCEPT !.full = full, !.paused = @ \/ full]
<1>4. view' = [view EXCEPT ![v] = s]
  BY <1>2, <1>3
<1>5. o = view[v]
  OBVIOUS
<1> HIDE DEF o
<1>6. /\ s \in ViewRec /\ s.ws = o.ws /\ s.id = o.id /\ s.counted = o.counted /\ s.up = o.up
      /\ s.closing = o.closing /\ s.full = full /\ (s.paused <=> o.paused \/ full)
  BY <1>2 DEF ViewRec
<1> HIDE DEF s
<1>7. Fine(s, conn[v])
  BY <1>1, <1>6 DEF Fine
<1>8. Moves(v, s, conn[v])
  BY <1>1, <1>4, <1>7, ViewMoves
<1> QED
  BY <1>1, <1>5, <1>6, <1>8, MovesQuiet

LEMMA DrainStep ==
  ASSUME Sessions, Counts, NEW v \in Viewer, Drain(v)
  PROVE  Sessions' /\ Counts'
<1> DEFINE o == view[v]
           s == [o EXCEPT !.full = FALSE, !.paused = IF o.up # "none" THEN FALSE ELSE @]
<1>1. /\ Fine(o, conn[v]) /\ conn' = conn /\ refs' = refs /\ clients' = clients
  BY DEF Drain, Sessions
<1>2. view \in [Viewer -> ViewRec] /\ o \in ViewRec
  BY DEF Sessions
<1>3. view' = [view EXCEPT ![v].full = FALSE,
                           ![v].paused = IF view[v].up # "none" THEN FALSE ELSE @]
  BY DEF Drain
<1>4. view' = [view EXCEPT ![v] = s]
  BY <1>2, <1>3
<1>5. o = view[v]
  OBVIOUS
<1> HIDE DEF o
<1>6. /\ s \in ViewRec /\ s.ws = o.ws /\ s.id = o.id /\ s.counted = o.counted /\ s.up = o.up
      /\ s.closing = o.closing /\ ~s.full /\ s.paused = IF o.up # "none" THEN FALSE ELSE o.paused
  BY <1>2 DEF ViewRec
<1> HIDE DEF s
<1>7. Fine(s, conn[v])
  BY <1>1, <1>6 DEF Fine
<1>8. Moves(v, s, conn[v])
  BY <1>1, <1>4, <1>7, ViewMoves
<1> QED
  BY <1>1, <1>5, <1>6, <1>8, MovesQuiet

LEMMA AcceptStep ==
  ASSUME Sessions, Counts, NEW v \in Viewer, Accept(v)
  PROVE  Sessions' /\ Counts'
<1> DEFINE o == view[v]
           s == [o EXCEPT !.up = "open"]
           b == conn[v]
           k == [b EXCEPT !.pc = "resolving"]
<1>1. /\ Fine(o, b) /\ o.up = "connecting" /\ b.pc = "none" /\ refs' = refs /\ clients' = clients
      /\ view' = [view EXCEPT ![v] = s] /\ conn' = [conn EXCEPT ![v] = k]
  BY DEF Accept, Sessions
<1>2. o = view[v] /\ b = conn[v]
  OBVIOUS
<1>3. o \in ViewRec /\ b \in ConnRec
  BY <1>1 DEF Fine
<1> HIDE DEF o, b
<1>4. /\ s \in ViewRec /\ s.ws = o.ws /\ s.id = o.id /\ s.counted = o.counted /\ s.up = "open"
      /\ s.closing = o.closing /\ s.full = o.full /\ s.paused = o.paused
  BY <1>3 DEF ViewRec
<1>5. k \in ConnRec /\ k.pc = "resolving"
  BY <1>3 DEF ConnRec
<1> HIDE DEF s, k
<1>6. Moves(v, s, k)
  BY <1>1, <1>4, <1>5 DEF Moves, Fine
<1> QED
  BY <1>1, <1>2, <1>4, <1>5, <1>6, MovesQuiet

LEMMA ResolvedStep ==
  ASSUME Sessions, Counts, Passes, NEW v \in Viewer, Resolved(v)
  PROVE  Sessions' /\ Counts'
<1> DEFINE o == view[v]
           b == conn[v]
<1>1. Fine(o, b) /\ b.pc = "resolving" /\ view' = view /\ clients' = clients
  BY DEF Resolved, Sessions, relayVars
<1>2. o = view[v] /\ b = conn[v] /\ b \in ConnRec
  BY <1>1 DEF Fine
<1>3. PICK pc \in {"streaming", "closed"} :
        /\ conn' = [conn EXCEPT ![v] = [b EXCEPT !.pc = pc]]
        /\ pc = "streaming" => o.id \in cameras /\ refs' = [refs EXCEPT ![o.id] = @ + 1]
        /\ pc = "closed" => refs' = refs
  BY DEF Resolved
<1> DEFINE k == [b EXCEPT !.pc = pc]
<1> HIDE DEF o, b
<1>4. k \in ConnRec /\ k.pc = pc
  BY <1>2 DEF ConnRec
<1>5. conn' = [conn EXCEPT ![v] = k]
  BY <1>3
<1> HIDE DEF k
<1>6. Moves(v, o, k)
  <2>1. Fine(o, k)
    BY <1>1, <1>3, <1>4 DEF Fine, Passes
  <2> QED
    BY <1>1, <1>2, <1>5, <2>1, ConnMoves
<1>7. CASE pc = "closed"
  BY <1>1, <1>2, <1>3, <1>4, <1>6, <1>7, MovesQuiet
<1>8. CASE pc = "streaming"
  <2>1. Sessions'
    BY <1>6, MovesFine
  <2>2. o.id \in Camera /\ refs' = [refs EXCEPT ![o.id] = @ + 1]
    BY <1>3, <1>8 DEF Passes
  <2>3. ASSUME NEW c \in Camera
        PROVE  refs'[c] = Cardinality(Held(c)') /\ Watching(c)' = Watching(c) /\ refs'[c] \in Nat
    <3>1. Watching(c)' = Watching(c)
      BY <1>2, <1>6, MovesSets, CountMove
    <3>2. v \notin Held(c) /\ (v \in Held(c)' <=> c = o.id)
      BY <1>1, <1>2, <1>4, <1>6, <1>8, MovesSets
    <3>3. /\ Cardinality(Held(c)) \in Nat
          /\ c = o.id => Cardinality(Held(c)') = Cardinality(Held(c)) + 1
          /\ c # o.id => Held(c)' = Held(c)
      BY <1>6, <3>2, MovesSets, CountMove
    <3> QED
      BY <2>2, <3>1, <3>3 DEF Counts
  <2>4. refs' \in [Camera -> Nat]
    BY <2>2, <2>3 DEF Counts
  <2> QED
    BY <1>1, <2>1, <2>3, <2>4 DEF Counts
<1> QED
  BY <1>7, <1>8

LEMMA HearCloseStep ==
  ASSUME Sessions, Counts, NEW v \in Viewer, HearClose(v)
  PROVE  Sessions' /\ Counts'
<1> DEFINE o == view[v]
           b == conn[v]
<1>1. Fine(o, b) /\ view' = view /\ clients' = clients /\ o = view[v] /\ b = conn[v]
  BY DEF HearClose, Sessions, relayVars
<1>2. b \in ConnRec
  BY <1>1 DEF Fine
<1>3. CASE b.pc = "resolving"
  <2> DEFINE k == [b EXCEPT !.gone = TRUE]
  <2>1. conn' = [conn EXCEPT ![v] = k] /\ refs' = refs
    BY <1>2, <1>3 DEF HearClose
  <2> HIDE DEF o, b
  <2>2. k \in ConnRec /\ k.pc = "resolving"
    BY <1>2, <1>3 DEF ConnRec
  <2> HIDE DEF k
  <2>3. Fine(o, k)
    BY <1>1, <1>3, <2>2 DEF Fine
  <2>4. Moves(v, o, k)
    BY <1>1, <2>1, <2>3, ConnMoves
  <2> QED
    BY <1>1, <1>3, <2>1, <2>2, <2>4, MovesQuiet
<1>4. CASE b.pc = "streaming"
  <2> DEFINE k == [pc |-> "closed", gone |-> TRUE]
  <2>1. conn' = [conn EXCEPT ![v] = k] /\ refs' = [refs EXCEPT ![o.id] = @ - 1]
    BY <1>4 DEF HearClose
  <2> HIDE DEF o, b
  <2>2. k \in ConnRec /\ k.pc = "closed"
    BY DEF ConnRec
  <2> HIDE DEF k
  <2>3. Fine(o, k) /\ o.id \in Camera
    BY <1>1, <1>4, <2>2 DEF Fine
  <2>4. Moves(v, o, k)
    BY <1>1, <2>1, <2>3, ConnMoves
  <2>5. Sessions'
    BY <2>4, MovesFine
  <2>6. ASSUME NEW c \in Camera
        PROVE  refs'[c] = Cardinality(Held(c)') /\ Watching(c)' = Watching(c) /\ refs'[c] \in Nat
    <3>1. Watching(c)' = Watching(c)
      BY <1>1, <2>4, MovesSets, CountMove
    <3>2. v \notin Held(c)' /\ (v \in Held(c) <=> c = o.id)
      BY <1>1, <1>4, <2>2, <2>4, MovesSets
    <3>3. /\ Cardinality(Held(c)) \in Nat
          /\ c = o.id => /\ Cardinality(Held(c)') = Cardinality(Held(c)) - 1
                         /\ Cardinality(Held(c)) >= 1
          /\ c # o.id => Held(c)' = Held(c)
      BY <2>4, <3>2, MovesSets, CountMove
    <3> QED
      BY <2>1, <3>1, <3>3 DEF Counts
  <2>7. refs' \in [Camera -> Nat]
    BY <2>1, <2>6 DEF Counts
  <2> QED
    BY <1>1, <2>5, <2>6, <2>7 DEF Counts
<1> QED
  BY <1>3, <1>4 DEF HearClose

LEMMA CrashStep ==
  ASSUME Inv, ManagerCrash
  PROVE  Inv'
<1>1. view' = view /\ clients' = clients /\ cameras' = cameras /\ status' = {}
      /\ refs' = [c \in Camera |-> 0]
      /\ pass' = [on |-> FALSE, ids |-> {}, todo |-> {}, running |-> {}]
  BY DEF ManagerCrash, relayVars
<1>2. ASSUME NEW v \in Viewer
      PROVE  conn'[v] \in ConnRec /\ conn'[v].pc \in {"none", "closed"} /\ Fine(view[v], conn'[v])
  <2> DEFINE b == conn[v]
             k == [b EXCEPT !.pc = "closed"]
  <2>1. Fine(view[v], b) /\ conn'[v] = IF b.pc = "none" THEN b ELSE k
    BY DEF ManagerCrash, Inv, Sessions
  <2> HIDE DEF b
  <2>2. b \in ConnRec
    BY <2>1 DEF Fine
  <2>3. k \in ConnRec /\ k.pc = "closed"
    BY <2>2 DEF ConnRec
  <2> HIDE DEF k
  <2> QED
    BY <2>1, <2>2, <2>3 DEF Fine
<1>3. Sessions'
  <2>1. conn' = [v \in Viewer |-> conn'[v]]
    BY DEF ManagerCrash
  <2> QED
    BY <1>1, <1>2, <2>1 DEF Inv, Sessions
<1>4. Counts'
  <2>1. ASSUME NEW c \in Camera PROVE Watching(c)' = Watching(c) /\ Held(c)' = {}
    BY <1>1, <1>2 DEF Watching, Held
  <2> QED
    BY <1>1, <2>1, FS_EmptySet DEF Inv, Counts
<1>5. Passes'
  BY <1>1 DEF Inv, Passes
<1> QED
  BY <1>3, <1>4, <1>5 DEF Inv

LEMMA PassStep ==
  ASSUME Passes, Probes \/ \E c \in Camera : PageChanges(c)
  PROVE  Passes'
<1> USE DEF Passes, relayVars, probeVars
<1>1. CASE PassStarts
  <2>1. CASE pass' = [on |-> TRUE, ids |-> cameras, todo |-> cameras, running |-> {}]
    BY <1>1, <2>1 DEF PassStarts
  <2>2. CASE UNCHANGED pass
    BY <1>1, <2>2 DEF PassStarts
  <2> QED
    BY <1>1, <2>1, <2>2 DEF PassStarts
<1>2. CASE NextBatch
  <2>1. PICK b \in SUBSET pass.todo : pass' = [pass EXCEPT !.todo = @ \ b, !.running = b]
    BY <1>2 DEF NextBatch
  <2>2. pass.on /\ pass.running = {} /\ status' = status /\ cameras' = cameras
    BY <1>2 DEF NextBatch
  <2>3. /\ pass'.on /\ pass'.ids = pass.ids /\ pass'.todo = pass.todo \ b /\ pass'.running = b
        /\ pass' \in [on : BOOLEAN, ids : SUBSET Camera, todo : SUBSET Camera, running : SUBSET Camera]
    BY <2>1, <2>2
  <2> QED
    BY <2>2, <2>3
<1>3. ASSUME NEW c \in Camera, Probed(c) PROVE Passes'
  <2>1. /\ pass'.on = pass.on /\ pass'.ids = pass.ids /\ pass'.todo = pass.todo
        /\ pass'.running = pass.running \ {c}
        /\ pass' \in [on : BOOLEAN, ids : SUBSET Camera, todo : SUBSET Camera, running : SUBSET Camera]
    BY <1>3 DEF Probed
  <2>2. status' = status \cup {c} /\ cameras' = cameras /\ c \in pass.running /\ pass.on
    BY <1>3 DEF Probed
  <2> QED
    BY <2>1, <2>2
<1>4. CASE PassEnds
  <2>1. /\ ~pass'.on /\ pass'.ids = pass.ids /\ pass'.running = pass.running
        /\ pass' \in [on : BOOLEAN, ids : SUBSET Camera, todo : SUBSET Camera, running : SUBSET Camera]
    BY <1>4 DEF PassEnds
  <2>2. /\ pass.on /\ pass.todo = {} /\ pass.running = {} /\ cameras' = cameras
        /\ status' = status \cap pass.ids
    BY <1>4 DEF PassEnds
  <2>3. pass.ids \subseteq status
    BY <2>2
  <2>4. status' = pass'.ids /\ status' \subseteq Camera /\ cameras' \subseteq Camera
    BY <2>1, <2>2, <2>3
  <2> QED
    BY <2>1, <2>2, <2>4
<1>5. ASSUME NEW c \in Camera, PageChanges(c) PROVE Passes'
  BY <1>5 DEF PageChanges
<1> QED
  BY <1>1, <1>2, <1>3, <1>4, <1>5 DEF Probes

-----------------------------------------------------------------------------
LEMMA InitInv == Init => Inv
<1> SUFFICES ASSUME Init PROVE Inv
  OBVIOUS
<1>1. Sessions
  BY BadIdAssumption DEF Init, Sessions, Fine, ViewRec, ConnRec
<1>2. Counts
  <2>1. \A c \in Camera : Watching(c) = {} /\ Held(c) = {}
    BY DEF Init, Watching, Held
  <2> QED
    BY <2>1, FS_EmptySet DEF Init, Counts
<1>3. Passes
  BY DEF Init, Passes
<1> QED
  BY <1>1, <1>2, <1>3 DEF Inv

LEMMA NextInv == Inv /\ [Next]_vars => Inv'
<1> SUFFICES ASSUME Inv, [Next]_vars PROVE Inv'
  OBVIOUS
<1>1. Sessions /\ Counts /\ Passes
  BY DEF Inv
<1>2. ASSUME NEW v \in Viewer,
             Open(v) \/ BrowserLeaves(v) \/ EndTakesEffect(v) \/ UpstreamError(v) \/ UpstreamClose(v)
               \/ Frame(v) \/ Drain(v) \/ Accept(v) \/ Resolved(v) \/ HearClose(v)
      PROVE  Inv'
  <2>1. Sessions' /\ Counts'
    BY <1>1, <1>2, OpenStep, ClosedStep, UpstreamStep, FrameStep, DrainStep, AcceptStep, ResolvedStep,
       HearCloseStep DEF BrowserLeaves, EndTakesEffect
  <2>2. UNCHANGED <<cameras, pass, status>>
    BY <1>2 DEF Open, BrowserLeaves, EndTakesEffect, Closed, UpstreamError, UpstreamClose, Frame,
                Drain, Accept, Resolved, HearClose, probeVars
  <2> QED
    BY <1>1, <2>1, <2>2 DEF Inv, Passes
<1>3. ASSUME Probes \/ \E c \in Camera : PageChanges(c) PROVE Inv'
  <2>1. UNCHANGED <<view, clients, conn, refs>>
    BY <1>3 DEF Probes, PassStarts, NextBatch, Probed, PassEnds, PageChanges, relayVars
  <2> QED
    BY <1>1, <1>3, <2>1, PassStep DEF Inv, Sessions, Counts, Watching, Held
<1>4. CASE UNCHANGED vars
  BY <1>1, <1>4 DEF vars, Inv, Sessions, Counts, Watching, Held, Passes
<1> QED
  BY <1>2, <1>3, <1>4, CrashStep DEF Next, Relay

LEMMA InvSuffices == Inv => TypeOK /\ CountsMatch /\ PauseHasDrain /\ StatusOfListing
  BY DEF Inv, Sessions, Counts, Passes, Fine, Watching, TypeOK, CountsMatch, PauseHasDrain,
         StatusOfListing

LEMMA Invariant == Spec => []Inv
<1> QED
  BY InitInv, NextInv, PTL DEF Spec

\* Every variable keeps its type; the counts never go below zero.
THEOREM TypeCorrect == Spec => []TypeOK
<1> QED
  BY Invariant, InvSuffices, PTL

\* The count of viewers of a camera is that of its sessions (CountsMatch).
THEOREM CountsAreRight == Spec => []CountsMatch
<1> QED
  BY Invariant, InvSuffices, PTL

\* A paused upstream of a session that is open has a drain to come (PauseHasDrain).
THEOREM DrainIsToCome == Spec => []PauseHasDrain
<1> QED
  BY Invariant, InvSuffices, PTL

\* Between two passes the statuses are those of the last listing (StatusOfListing).
THEOREM StatusesAreListed == Spec => []StatusOfListing
<1> QED
  BY Invariant, InvSuffices, PTL
==============================================================================
