--------------------------- MODULE DeployTransfer ---------------------------
(***************************************************************************)
(* The transfer of a deploy ZIP to another node                            *)
(* (libs/wui-process-monitor/managers/processMonitor/deploy-transfer.js):  *)
(* sendZip, one per transfer, calls the node's agent over vRPC — begin, a  *)
(* chunk at a time, commit, then polls the deploy — and TransferReceiver   *)
(* serves the calls, cut at their awaits.                                  *)
(*                                                                         *)
(* A call may throw at the sender at any time: the request may be lost, or *)
(* its answer, and a request whose sender has given it up may still be     *)
(* served, in any order.  The agent may stop at any step and start again.  *)
(* Time is left out: an open transfer may turn out to be idle for too long *)
(* at any step, a status to be too old.  A ZIP is its chunks.              *)
(***************************************************************************)
EXTENDS Integers

CONSTANTS
  Transfer,        \* the runs of sendZip to this node, each its own transferId
  Restarting,      \* those that ask for a restart after the deploy
  Chunks,          \* how many chunks the ZIP has
  ChunkRetries,    \* how many times a chunk is sent at most
  MaxPollFailures, \* how many polls in a row may fail
  RestartDelay,    \* the polls that fit in the delay of the agent's restart
  ReadErrors       \* whether reading the received file may fail

ASSUME TransferAssumption ==
  /\ Restarting \subseteq Transfer
  /\ Chunks \in Nat
  /\ ChunkRetries \in Nat \ {0}
  /\ MaxPollFailures \in Nat \ {0}
  /\ RestartDelay \in Nat
  /\ ReadErrors \in BOOLEAN

VARIABLES
  sender,    \* each sendZip: the call it awaits, or how it ended
  calls,     \* the requests sent and not answered, given up or not
  up,        \* whether the agent runs
  open,      \* the agent's map `transfers`
  received,  \* ... and how many chunks each has received
  files,     \* the transfers whose temp file exists
  disk,      \* ... and the chunks that are on it
  deploys,   \* the agent's map `deploys`: the state of each
  restartIn, \* the polls left before the restart a deploy asked for; -1: none
  deployed   \* history: the transfers whose deploy succeeded

vars == <<sender, calls, up, open, received, files, disk, deploys, restartIn, deployed>>

Method == {"begin", "chunk", "commit", "abort"}

Over == {"ok", "failed", "lost"}

\* `attempt` counts the sendings of a chunk, and the failed polls in a row.
Sender == [at : Method \union Over \union {"notStarted", "poll"}, chunk : 0..Chunks,
           attempt : Nat]

\* A call belongs to the state the sender makes it in, and waits for it there;
\* the agent has it to serve, or is past the first await of its handler.
Call == [transfer : Transfer, from : Sender, at : {"sent", "writing", "checking"}]

AllChunks == 1..Chunks

TypeOK ==
  /\ sender \in [Transfer -> Sender]
  /\ calls \subseteq Call
  /\ up \in BOOLEAN
  /\ open \subseteq Transfer
  /\ received \in [Transfer -> 0..Chunks]
  /\ files \subseteq Transfer
  /\ disk \in [Transfer -> SUBSET AllChunks]
  /\ deploys \in [Transfer -> {"none", "running", "done", "failed"}]
  /\ restartIn \in [Transfer -> -1..RestartDelay]
  /\ deployed \subseteq Transfer

State(at, chunk, attempt) == [at |-> at, chunk |-> chunk, attempt |-> attempt]

Init ==
  /\ sender = [t \in Transfer |-> State("notStarted", 0, 0)]
  /\ calls = {}
  /\ up = TRUE
  /\ open = {}
  /\ received = [t \in Transfer |-> 0]
  /\ files = {}
  /\ disk = [t \in Transfer |-> {}]
  /\ deploys = [t \in Transfer |-> "none"]
  /\ restartIn = [t \in Transfer |-> -1]
  /\ deployed = {}

-----------------------------------------------------------------------------
(* sendZip: what follows an answer, a refusal, a call that throws. *)

agent == <<up, open, received, files, disk, deploys, restartIn, deployed>>

\* The calls `left` and the one made by a sender that goes on as s.
WithCall(left, t, s) ==
  left \union (IF s.at \in Method THEN {[transfer |-> t, from |-> s, at |-> "sent"]} ELSE {})

Goes(t, s, left) ==
  /\ sender' = [sender EXCEPT ![t] = s]
  /\ calls' = WithCall(left, t, s)

Retried(s) ==
  IF s.attempt < ChunkRetries THEN [s EXCEPT !.attempt = @ + 1] ELSE State("abort", 0, 0)

\* The chunk after the first n, the commit after the last one.
After(n) == IF n < Chunks THEN State("chunk", n + 1, 1) ELSE State("commit", 0, 0)

AfterOk(s) ==
  CASE s.at = "begin"  -> After(0)
    [] s.at = "chunk"  -> After(s.chunk)
    [] s.at = "commit" -> State("poll", 0, 0)
    [] s.at = "abort"  -> State("failed", 0, 0)

AfterRefusal(s) == IF s.at = "chunk" THEN Retried(s) ELSE State("failed", 0, 0)

AfterThrow(s) ==
  CASE s.at = "chunk"  -> Retried(s)
    [] s.at = "commit" -> State("abort", 0, 0)
    [] s.at \in {"begin", "abort"} -> State("failed", 0, 0)

\* The answer to c reaches the sender, if it still waits for it.
Answer(c, ok) ==
  IF sender[c.transfer] = c.from
  THEN Goes(c.transfer, IF ok THEN AfterOk(c.from) ELSE AfterRefusal(c.from), calls \ {c})
  ELSE calls' = calls \ {c} /\ UNCHANGED sender

SendZip(t) ==
  /\ sender[t].at = "notStarted"
  /\ Goes(t, State("begin", 0, 0), calls)
  /\ UNCHANGED agent

\* The awaited call throws: not delivered, answered too late, or the answer lost.
Throws(t) ==
  /\ sender[t].at \in Method
  /\ Goes(t, AfterThrow(sender[t]), calls)
  /\ UNCHANGED agent

RequestLost(c) ==
  /\ c.at = "sent"
  /\ calls' = calls \ {c}
  /\ UNCHANGED <<sender, agent>>

\* The time of a poll passes: the restart to come is that much nearer.
PollPasses(t) ==
  restartIn' = [restartIn EXCEPT ![t] = IF @ > 0 THEN @ - 1 ELSE @]

\* Mutant: whatever is not running nor failed taken for done.
Poll_UnknownIsDone(t) ==
  /\ sender[t].at = "poll"
  /\ up
  /\ Goes(t, CASE deploys[t] = "running" -> State("poll", 0, 0)
               [] deploys[t] \in {"done", "none"} -> State("ok", 0, 0)
               [] deploys[t] = "failed" -> State("failed", 0, 0), calls)
  /\ PollPasses(t)
  /\ UNCHANGED <<up, open, received, files, disk, deploys, deployed>>

\* DeployStatus: a deploy the agent does not know of (any more) is a failure.
Poll(t) ==
  /\ sender[t].at = "poll"
  /\ up
  /\ Goes(t, CASE deploys[t] = "running" -> State("poll", 0, 0)
               [] deploys[t] = "done" -> State("ok", 0, 0)
               [] deploys[t] \in {"failed", "none"} -> State("failed", 0, 0), calls)
  /\ PollPasses(t)
  /\ UNCHANGED <<up, open, received, files, disk, deploys, deployed>>

\* Mutant: the failed polls not counted.
PollThrows_Uncounted(t) ==
  /\ sender[t].at = "poll"
  /\ Goes(t, State("poll", 0, 0), calls)
  /\ PollPasses(t)
  /\ UNCHANGED <<up, open, received, files, disk, deploys, deployed>>

PollThrows(t) ==
  LET failures == sender[t].attempt + 1 IN
  /\ sender[t].at = "poll"
  /\ Goes(t, IF failures < MaxPollFailures THEN State("poll", 0, failures)
             ELSE State("failed", 0, 0), calls)
  /\ PollPasses(t)
  /\ UNCHANGED <<up, open, received, files, disk, deploys, deployed>>

\* The manager that sends is stopped.
SenderStops(t) ==
  /\ sender[t].at \notin Over \union {"notStarted"}
  /\ sender' = [sender EXCEPT ![t] = State("lost", 0, 0)]
  /\ UNCHANGED <<calls, agent>>

-----------------------------------------------------------------------------
(* TransferReceiver: the handlers, cut at their awaits. *)

Serves(c, method) == up /\ c.at = "sent" /\ c.from.at = method

Awaits(c, await) == calls' = (calls \ {c}) \union {[c EXCEPT !.at = await]} /\ UNCHANGED sender

ReceiveBegin(c) ==
  LET t == c.transfer IN
  /\ Serves(c, "begin")
  /\ open' = open \union {t}
  /\ received' = [received EXCEPT ![t] = 0]
  /\ files' = files \union {t}
  /\ disk' = [disk EXCEPT ![t] = {}]
  /\ Answer(c, TRUE)
  /\ UNCHANGED <<up, deploys, restartIn, deployed>>

\* A chunk after a gap is refused; so is one whose data came corrupt.
ReceiveChunk(c) ==
  LET t == c.transfer
      gap == c.from.chunk - 1 > received[t]
  IN
  /\ Serves(c, "chunk")
  /\ \/ t \in open /\ ~gap /\ Awaits(c, "writing")
     \/ Answer(c, FALSE)
  /\ UNCHANGED agent

\* The chunk written at its place, possibly in part (bytesWritten is not looked
\* at); of a file removed meanwhile, opening it fails, or was done before.
WriteChunk(c) ==
  LET t == c.transfer IN
  /\ c.at = "writing"
  /\ \/ /\ t \in files
        /\ disk' \in {disk, [disk EXCEPT ![t] = @ \union {c.from.chunk}]}
        /\ received' = [received EXCEPT ![t] = IF c.from.chunk > @ THEN c.from.chunk ELSE @]
        /\ Answer(c, TRUE)
     \/ /\ t \notin files
        /\ \E ok \in BOOLEAN : Answer(c, ok)
        /\ UNCHANGED <<disk, received>>
  /\ UNCHANGED <<up, open, files, deploys, restartIn, deployed>>

\* The write fails.
WriteChunkFails(c) ==
  /\ c.at = "writing"
  /\ Answer(c, FALSE)
  /\ UNCHANGED agent

\* The transfer is taken out of the map, then its file is checked.
ReceiveCommit(c) ==
  /\ Serves(c, "commit")
  /\ \/ /\ c.transfer \in open
        /\ open' = open \ {c.transfer}
        /\ Awaits(c, "checking")
     \/ /\ c.transfer \notin open
        /\ Answer(c, FALSE)
        /\ UNCHANGED open
  /\ UNCHANGED <<up, received, files, disk, deploys, restartIn, deployed>>

\* Mutant: the hash of the whole file not checked.
Whole_NotHashed(t) == received[t] = Chunks

\* Size and SHA-256 are those announced.
Whole(t) == received[t] = Chunks /\ disk[t] = AllChunks

CommitChecked(c) ==
  LET t == c.transfer IN
  /\ c.at = "checking"
  /\ \/ /\ Whole(t)
        /\ deploys' = [deploys EXCEPT ![t] = "running"]
        /\ Answer(c, TRUE)
        /\ UNCHANGED files
     \/ /\ ~Whole(t)
        /\ files' = files \ {t}
        /\ Answer(c, FALSE)
        /\ UNCHANGED deploys
  /\ UNCHANGED <<up, open, received, disk, restartIn, deployed>>

\* stat or the hash throws: refused, and the file stays.
CommitReadFails(c) ==
  /\ ReadErrors
  /\ c.at = "checking"
  /\ Answer(c, FALSE)
  /\ UNCHANGED agent

\* abort, of a transfer in the map and of any other: answered ok.
ReceiveAbort(c) ==
  LET t == c.transfer IN
  /\ Serves(c, "abort")
  /\ open' = open \ {t}
  /\ files' = IF t \in open THEN files \ {t} ELSE files
  /\ Answer(c, TRUE)
  /\ UNCHANGED <<up, received, disk, deploys, restartIn, deployed>>

\* Mutant: the file of a failed deploy not removed.
DeployEnds_FileKept(t) ==
  /\ deploys[t] = "running"
  /\ \/ /\ deploys' = [deploys EXCEPT ![t] = "done"]
        /\ deployed' = deployed \union {t}
        /\ restartIn' = [restartIn EXCEPT ![t] = IF t \in Restarting THEN RestartDelay ELSE -1]
        /\ files' = files \ {t}
     \/ /\ deploys' = [deploys EXCEPT ![t] = "failed"]
        /\ UNCHANGED <<deployed, restartIn, files>>
  /\ UNCHANGED <<sender, calls, up, open, received, disk>>

\* doLocalDeploy ends, well or not: its restart is fired later.
DeployEnds(t) ==
  /\ deploys[t] = "running"
  /\ \/ /\ deploys' = [deploys EXCEPT ![t] = "done"]
        /\ deployed' = deployed \union {t}
        /\ restartIn' = [restartIn EXCEPT ![t] = IF t \in Restarting THEN RestartDelay ELSE -1]
     \/ /\ deploys' = [deploys EXCEPT ![t] = "failed"]
        /\ UNCHANGED <<deployed, restartIn>>
  /\ files' = files \ {t}
  /\ UNCHANGED <<sender, calls, up, open, received, disk>>

\* cleanupStale, on its interval: an idle transfer, an old status.
AbortIdle(t) ==
  /\ t \in open
  /\ open' = open \ {t}
  /\ files' = files \ {t}
  /\ UNCHANGED <<sender, calls, up, received, disk, deploys, restartIn, deployed>>

ForgetStatus(t) ==
  /\ deploys[t] \in {"done", "failed"}
  /\ deploys' = [deploys EXCEPT ![t] = "none"]
  /\ UNCHANGED <<sender, calls, up, open, received, files, disk, restartIn, deployed>>

\* The agent's process ends: what it kept in memory and was serving is gone.
AgentStops ==
  /\ up
  /\ up' = FALSE
  /\ calls' = {}
  /\ open' = {}
  /\ deploys' = [t \in Transfer |-> "none"]
  /\ restartIn' = [t \in Transfer |-> -1]
  /\ UNCHANGED <<sender, received, files, disk, deployed>>

\* ... of itself, or by the restart a deploy asked for, once its delay is over —
\* the polls measure it as long as there are any.
RestartFires(t) ==
  /\ restartIn[t] = 0 \/ (restartIn[t] > 0 /\ sender[t].at # "poll")
  /\ AgentStops

\* It starts: cleanupStale({all: true}), then the service.
AgentStarts ==
  /\ ~up
  /\ up' = TRUE
  /\ files' = {}
  /\ UNCHANGED <<sender, calls, open, received, disk, deploys, restartIn, deployed>>

-----------------------------------------------------------------------------

SenderStep(t) == Throws(t) \/ Poll(t) \/ PollThrows(t)

AgentServes(c) ==
  \/ ReceiveBegin(c)
  \/ ReceiveChunk(c)
  \/ WriteChunk(c)
  \/ WriteChunkFails(c)
  \/ ReceiveCommit(c)
  \/ CommitChecked(c)
  \/ CommitReadFails(c)
  \/ ReceiveAbort(c)

AgentStep(t) == DeployEnds(t) \/ AbortIdle(t)

Next ==
  \/ \E t \in Transfer :
       SendZip(t) \/ SenderStep(t) \/ SenderStops(t) \/ AgentStep(t) \/ ForgetStatus(t)
         \/ RestartFires(t)
  \/ \E c \in calls : AgentServes(c) \/ RequestLost(c)
  \/ AgentStops
  \/ AgentStarts

Spec == Init /\ [][Next]_vars

\* A call is answered or throws, the polls go on every second, a deploy ends,
\* cleanupStale comes back, a call being served goes on, pmon starts the agent
\* again.
FairSpec ==
  /\ Spec
  /\ \A t \in Transfer :
       /\ WF_vars(SenderStep(t))
       /\ WF_vars(DeployEnds(t))
       /\ WF_vars(AbortIdle(t))
       /\ WF_vars(\E c \in calls : c.transfer = t /\ (CommitChecked(c) \/ CommitReadFails(c)))
  /\ WF_vars(AgentStarts)

-----------------------------------------------------------------------------

\* Only the whole ZIP is deployed, whatever was lost, retried, written in part
\* or served late, and nothing touches its file meanwhile.
DeploysWholeZip ==
  \A t \in Transfer : deploys[t] = "running" => t \in files /\ disk[t] = AllChunks

\* A node reported ok has been deployed.
OkIsDeployed == \A t \in Transfer : sender[t].at = "ok" => t \in deployed

\* "A retried chunk is idempotent": no chunk of an open transfer comes after a
\* gap, whatever its earlier sendings still do ...
NoGap ==
  \A c \in calls :
    c.from.at = "chunk" /\ c.transfer \in open => c.from.chunk - 1 <= received[c.transfer]

Checking(t) == \E c \in calls : c.transfer = t /\ c.at = "checking"

\* A temp file on a running agent is that of a transfer, of a commit being
\* checked or of a deploy: none is forgotten (unless reading it failed).
FileInUse ==
  ~ReadErrors /\ up =>
    \A t \in Transfer :
      t \in files => t \in open \/ Checking(t) \/ deploys[t] = "running"

\* sendZip ends, ...
EverySendEnds ==
  \A t \in Transfer : sender[t].at \notin {"notStarted"} ~> sender[t].at \in Over

\* ... and every temp file goes.  Where reading a received file may fail it need not:
\* the commit that fails so keeps the file and forgets the transfer (the case apart
\* in FileInUse), so this is for ReadErrors = FALSE.
EveryFileGoes == \A t \in Transfer : t \in files ~> t \notin files
=============================================================================
