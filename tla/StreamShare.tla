----------------------------- MODULE StreamShare -----------------------------
(***************************************************************************)
(* The camera streams: each browser's WebSocket is relayed by the          *)
(* webserver (rtspRelay.ts), which counts the viewers of every camera      *)
(* (rtspController.ts), to the rtspProxy manager (managers/rtspProxy),     *)
(* which looks the camera up and hands the socket to rtsp-relay: one       *)
(* ffmpeg per camera, started for its first client and stopped with its    *)
(* last.  The manager also probes every camera, a few at a time, in        *)
(* passes.  The page adds and deletes cameras meanwhile.                   *)
(*                                                                         *)
(* What the browser sends is left out: JSMpeg never sends.                 *)
(***************************************************************************)
EXTENDS Naturals, FiniteSets

CONSTANTS Viewer,      \* the sessions of the browsers
          Camera,      \* the ids the page uses for cameras
          BadId,       \* an id that is no slug
  Asked,       \* the ids the browsers ask for
          Concurrency  \* PROBE_CONCURRENCY

ASSUME ViewerAssumption == IsFiniteSet(Viewer)
ASSUME BadIdAssumption == BadId \notin Camera /\ Asked \subseteq Camera \cup {BadId}
ASSUME ConcurrencyAssumption == Concurrency \in Nat \ {0}

VARIABLES
  view,      \* webserver: the relay state of each session
  clients,   \* webserver: clientCounts
  conn,      \* manager: its side of each session's upstream socket
  refs,      \* rtsp-relay: the clients of each camera's ffmpeg
  cameras,   \* the RtspCamera_<id> datapoints
  pass,      \* manager: the pass of probes
  status     \* manager: the cameras of statusById

vars == <<view, clients, conn, refs, cameras, pass, status>>
relayVars == <<view, clients>>
probeVars == <<pass, status>>

ViewRec == [id : Camera \cup {BadId}, ws : {"none", "open", "ending", "closed"},
            up : {"none", "connecting", "open", "closed"},
            full : BOOLEAN, paused : BOOLEAN, closing : BOOLEAN, counted : BOOLEAN]
ConnRec == [pc : {"none", "resolving", "streaming", "closed"}, gone : BOOLEAN]

Init ==
  /\ view = [v \in Viewer |-> [id |-> BadId, ws |-> "none", up |-> "none", full |-> FALSE,
                               paused |-> FALSE, closing |-> FALSE, counted |-> FALSE]]
  /\ clients = [c \in Camera |-> 0]
  /\ conn = [v \in Viewer |-> [pc |-> "none", gone |-> FALSE]]
  /\ refs = [c \in Camera |-> 0]
  /\ cameras \in SUBSET Camera
  /\ pass = [on |-> FALSE, ids |-> {}, todo |-> {}, running |-> {}]
  /\ status = {}

(***************************************************************************)
(* The webserver's relay.  terminate() of an upstream socket that is       *)
(* already closed, or was never made, does nothing.                        *)
(***************************************************************************)
Terminated(up) == IF up = "none" THEN "none" ELSE "closed"

\* Mutant: the upstream is let go, the browser's socket is not ended.
SafeEnd_UpstreamOnly(r) == IF r.closing THEN r ELSE [r EXCEPT !.closing = TRUE, !.up = Terminated(@)]

SafeEnd(r) == IF r.closing THEN r ELSE
  [r EXCEPT !.closing = TRUE, !.up = Terminated(@), !.ws = "ending"]

Open(v) ==
  /\ view[v].ws = "none"
  /\ \E i \in Asked :
       LET r == [view[v] EXCEPT !.id = i, !.ws = "open"] IN
       IF i = BadId
       THEN view' = [view EXCEPT ![v] = SafeEnd(r)] /\ UNCHANGED clients
       ELSE /\ view' = [view EXCEPT ![v] = [r EXCEPT !.up = "connecting", !.counted = TRUE]]
            /\ clients' = [clients EXCEPT ![i] = @ + 1]
  /\ UNCHANGED <<conn, refs, cameras, probeVars>>

\* Mutant: a session that was ended by its upstream is not taken off the count.
Closed_EndedKept(v) ==
  LET r == view[v] IN
  /\ r.ws \in {"open", "ending"}
  /\ view' = [view EXCEPT ![v] = [r EXCEPT !.ws = "closed", !.closing = TRUE,
                                  !.counted = FALSE, !.full = FALSE, !.up = Terminated(@)]]
  /\ clients' = IF r.counted /\ ~r.closing
                THEN [clients EXCEPT ![r.id] = IF @ <= 1 THEN 0 ELSE @ - 1]
                ELSE clients
  /\ UNCHANGED <<conn, refs, cameras, probeVars>>

\* Mutant: the browser leaves, the upstream stays.
Closed_UpstreamStays(v) ==
  LET r == view[v] IN
  /\ r.ws \in {"open", "ending"}
  /\ view' = [view EXCEPT ![v] = [r EXCEPT !.ws = "closed", !.closing = TRUE,
                                  !.counted = FALSE, !.full = FALSE]]
  /\ clients' = IF r.counted
                THEN [clients EXCEPT ![r.id] = IF @ <= 1 THEN 0 ELSE @ - 1]
                ELSE clients
  /\ UNCHANGED <<conn, refs, cameras, probeVars>>

(* The close handler, for a browser that leaves and after an end() of ours. *)
Closed(v) ==
  LET r == view[v] IN
  /\ r.ws \in {"open", "ending"}
  /\ view' = [view EXCEPT ![v] = [r EXCEPT !.ws = "closed", !.closing = TRUE,
                                  !.counted = FALSE, !.full = FALSE,
                                  !.up = Terminated(@)]]
  /\ clients' = IF r.counted
                THEN [clients EXCEPT ![r.id] = IF @ <= 1 THEN 0 ELSE @ - 1]
                ELSE clients
  /\ UNCHANGED <<conn, refs, cameras, probeVars>>

BrowserLeaves(v) == view[v].ws = "open" /\ Closed(v)
EndTakesEffect(v) == view[v].ws = "ending" /\ Closed(v)

(* The manager is down, or refuses: "error", then "close". *)
UpstreamError(v) ==
  /\ view[v].up = "connecting" /\ conn[v].pc = "none"
  /\ view' = [view EXCEPT ![v] = SafeEnd([@ EXCEPT !.up = "closed"])]
  /\ UNCHANGED <<clients, conn, refs, cameras, probeVars>>

UpstreamClose(v) ==
  /\ view[v].up = "open" /\ conn[v].pc = "closed"
  /\ view' = [view EXCEPT ![v] = SafeEnd([@ EXCEPT !.up = "closed"])]
  /\ UNCHANGED <<clients, conn, refs, cameras, probeVars>>

(* A frame of the video; more may come after a pause, those the socket had read. *)
Frame(v) ==
  /\ view[v].up = "open" /\ ~view[v].closing /\ conn[v].pc = "streaming"
  /\ \E full \in {view[v].full, TRUE} :
       view' = [view EXCEPT ![v].full = full, ![v].paused = @ \/ full]
  /\ UNCHANGED <<clients, conn, refs, cameras, probeVars>>

\* Mutant: the last drain finds the buffer at the limit, and does not resume.
Drain_AtLimit(v) ==
  /\ view[v].ws = "open" /\ view[v].full
  /\ \E p \in {FALSE, view[v].paused} : view' = [view EXCEPT ![v].full = FALSE, ![v].paused = p]
  /\ UNCHANGED <<clients, conn, refs, cameras, probeVars>>

(* The browser read: what is buffered is below the limit again. *)
Drain(v) ==
  /\ view[v].ws = "open" /\ view[v].full
  /\ view' = [view EXCEPT ![v].full = FALSE,
                          ![v].paused = IF view[v].up # "none" THEN FALSE ELSE @]
  /\ UNCHANGED <<clients, conn, refs, cameras, probeVars>>

(***************************************************************************)
(* The manager.  resolveStream is awaited before the socket is handed to   *)
(* rtsp-relay: the "close" event of a socket that went meanwhile is heard  *)
(* by nobody.                                                              *)
(***************************************************************************)
Accept(v) ==
  /\ view[v].up = "connecting" /\ conn[v].pc = "none"
  /\ view' = [view EXCEPT ![v].up = "open"]
  /\ conn' = [conn EXCEPT ![v].pc = "resolving"]
  /\ UNCHANGED <<clients, refs, cameras, probeVars>>

Resolved(v) ==
  /\ conn[v].pc = "resolving"
  /\ \/ /\ view[v].id \in cameras
        /\ conn' = [conn EXCEPT ![v].pc = "streaming"]
        /\ refs' = [refs EXCEPT ![view[v].id] = @ + 1]
     \/ /\ conn' = [conn EXCEPT ![v].pc = "closed"]     \* unknown, not a URL, read failed
        /\ UNCHANGED refs
  /\ UNCHANGED <<relayVars, cameras, probeVars>>

\* Mutant: the client leaves the list of sockets, not the count of the camera.
HearClose_StillCounted(v) ==
  /\ view[v].up = "closed" /\ ~conn[v].gone
  /\ conn[v].pc \in {"resolving", "streaming"}
  /\ conn' = [conn EXCEPT ![v].pc = IF @ = "streaming" THEN "closed" ELSE @, ![v].gone = TRUE]
  /\ UNCHANGED <<relayVars, refs, cameras, probeVars>>

HearClose(v) ==
  /\ view[v].up = "closed" /\ ~conn[v].gone
  /\ \/ /\ conn[v].pc = "resolving"
        /\ conn' = [conn EXCEPT ![v].gone = TRUE]
        /\ UNCHANGED refs
     \/ /\ conn[v].pc = "streaming"
        /\ conn' = [conn EXCEPT ![v] = [pc |-> "closed", gone |-> TRUE]]
        /\ refs' = [refs EXCEPT ![view[v].id] = @ - 1]
  /\ UNCHANGED <<relayVars, cameras, probeVars>>

(* With its sockets, the ffmpegs it started and what it knew. *)
ManagerCrash ==
  /\ conn' = [v \in Viewer |-> IF conn[v].pc = "none" THEN conn[v]
                               ELSE [conn[v] EXCEPT !.pc = "closed"]]
  /\ refs' = [c \in Camera |-> 0]
  /\ pass' = [on |-> FALSE, ids |-> {}, todo |-> {}, running |-> {}]
  /\ status' = {}
  /\ UNCHANGED <<relayVars, cameras>>

(***************************************************************************)
(* The passes of probes, and the page's cameras.                           *)
(***************************************************************************)
\* Mutant: nothing listed, nothing done.
PassStarts_SomeListed ==
  /\ ~pass.on /\ cameras # {}
  /\ pass' = [on |-> TRUE, ids |-> cameras, todo |-> cameras, running |-> {}]
  /\ UNCHANGED <<relayVars, conn, refs, cameras, status>>

(* dpNames may throw: that pass probes and prunes nothing. *)
PassStarts ==
  /\ ~pass.on
  /\ \/ pass' = [on |-> TRUE, ids |-> cameras, todo |-> cameras, running |-> {}]
     \/ UNCHANGED pass
  /\ UNCHANGED <<relayVars, conn, refs, cameras, status>>

NextBatch ==
  /\ pass.on /\ pass.running = {} /\ pass.todo # {}
  /\ \E b \in SUBSET pass.todo :
       /\ b = pass.todo \/ Cardinality(b) = Concurrency
       /\ Cardinality(b) <= Concurrency
       /\ pass' = [pass EXCEPT !.todo = @ \ b, !.running = b]
  /\ UNCHANGED <<relayVars, conn, refs, cameras, status>>

(* ffmpeg's exit or its timeout, or a camera that is no more there: a status each time. *)
Probed(c) ==
  /\ c \in pass.running
  /\ pass' = [pass EXCEPT !.running = @ \ {c}]
  /\ status' = status \cup {c}
  /\ UNCHANGED <<relayVars, conn, refs, cameras>>

PassEnds ==
  /\ pass.on /\ pass.todo = {} /\ pass.running = {}
  /\ pass' = [pass EXCEPT !.on = FALSE]
  /\ status' = status \cap pass.ids
  /\ UNCHANGED <<relayVars, conn, refs, cameras>>

PageChanges(c) ==
  /\ cameras' = IF c \in cameras THEN cameras \ {c} ELSE cameras \cup {c}
  /\ UNCHANGED <<relayVars, conn, refs, probeVars>>

Relay(v) == EndTakesEffect(v) \/ UpstreamError(v) \/ Accept(v) \/ Resolved(v)
Probes == PassStarts \/ NextBatch \/ (\E c \in Camera : Probed(c)) \/ PassEnds

Next ==
  \/ \E v \in Viewer : \/ Open(v) \/ BrowserLeaves(v) \/ UpstreamClose(v) \/ Frame(v)
                       \/ Drain(v) \/ Relay(v) \/ HearClose(v)
  \/ ManagerCrash \/ Probes \/ \E c \in Camera : PageChanges(c)

(* A socket that is paused tells of its end only once it is read again; a browser reads
   what it is sent; dpNames does not throw in every pass. *)
Fairness ==
  /\ \A v \in Viewer : /\ WF_vars(Relay(v)) /\ WF_vars(HearClose(v)) /\ WF_vars(Drain(v))
                       /\ WF_vars(~view[v].paused /\ UpstreamClose(v))
  /\ WF_vars(Probes)

Spec == Init /\ [][Next]_vars /\ Fairness

-----------------------------------------------------------------------------
TypeOK ==
  /\ view \in [Viewer -> ViewRec] /\ conn \in [Viewer -> ConnRec]
  /\ clients \in [Camera -> Nat] /\ refs \in [Camera -> Nat]
  /\ cameras \subseteq Camera
  /\ pass \in [on : BOOLEAN, ids : SUBSET Camera, todo : SUBSET Camera, running : SUBSET Camera]
  /\ status \subseteq Camera

(* The count of viewers the list shows is the number of sessions on that camera,
   whoever ended them, and in whichever order the closes came. *)
CountsMatch ==
  \A c \in Camera :
    clients[c] = Cardinality({v \in Viewer : view[v].id = c /\ view[v].ws \in {"open", "ending"}})

(* A paused upstream still has a drain to come: what would resume it did not pass. *)
PauseHasDrain == \A v \in Viewer : view[v].ws = "open" /\ view[v].paused => view[v].full

(* Between two passes the statuses are those of the cameras of the last listing. *)
StatusOfListing ==
  ~pass.on => status = pass.ids

(* Every pause ends, with the browser reading or with the session. *)
EveryPauseEnds ==
  \A v \in Viewer : view[v].paused ~> ~view[v].paused \/ view[v].up = "closed"

(* A session whose upstream ended (unknown camera, refusal, crash) ends for its browser. *)
EverySessionEnds ==
  \A v \in Viewer : view[v].ws = "open" /\ conn[v].pc = "closed" ~> view[v].ws = "closed"

Watched(c) == \E v \in Viewer : view[v].id = c /\ view[v].ws \in {"open", "ending"}

Held(c) == {v \in Viewer : view[v].id = c /\ conn[v].pc = "streaming"}

(* The clients whose close came while their camera was looked up, and nobody heard it:
   rtsp-relay holds them as long as the manager runs. *)
Orphans(c) == {v \in Held(c) : conn[v].gone}

(* Once no browser watches a camera any more, its ffmpeg loses every client it had, and
   stops; the only clients it may keep are those whose close came during the look-up. *)
StreamStops ==
  \A c \in Camera :
    ~Watched(c) ~> \/ refs[c] = Cardinality(Orphans(c))
                   \/ Watched(c)

(* A camera the page deleted leaves the list of statuses. *)
CameraForgotten ==
  \A c \in Camera : c \notin cameras ~> c \in cameras \/ c \notin status
==============================================================================
