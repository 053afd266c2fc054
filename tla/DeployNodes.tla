----------------------------- MODULE DeployNodes -----------------------------
(***************************************************************************)
(* A project ZIP from its upload to the projects of the nodes: the routes  *)
(* of the webserver (processMonitorController.ts), Deploy of the           *)
(* aggregator, one node after the other with the local one last            *)
(* (deployToNodes), and doLocalDeploy on each node: purge, extraction to a *)
(* stage, merge into the project, restart.  Several deploys run at once,   *)
(* and nothing keeps them apart.                                           *)
(*                                                                         *)
(* The transfer to one node is DeployTransfer's: here it is one step, that *)
(* starts the node's deploy or fails, or does both (the commit's answer    *)
(* lost); DeployTransfer shows that a node reported ok was deployed.       *)
(***************************************************************************)
EXTENDS Naturals, FiniteSets

CONSTANTS Deploy,      \* one upload and its deploy
          Node, Local, \* the projects; the one of the aggregator and webserver
          File, Protected,
          Target,      \* Deploy -> the nodes asked for
          Zip,         \* Deploy -> the files of the ZIP
          Clear,       \* Deploy -> the folders to purge, each the files it may hold
          Restart      \* the deploys that ask for a restart

ASSUME LocalAssumption == Local \in Node
ASSUME DeployAssumption ==
  /\ Restart \subseteq Deploy /\ Protected \subseteq File
  /\ Target \in [Deploy -> SUBSET Node]
  /\ Zip \in [Deploy -> SUBSET File] /\ Clear \in [Deploy -> SUBSET SUBSET (File \ Protected)]

Old  == "old"    \* what the project held before any deploy
Gone == "gone"
ASSUME NoDeployNamedSo == Old \notin Deploy /\ Gone \notin Deploy

VARIABLES
  zip,        \* the uploaded file: "none", "partial", "whole", "removed"
  uploads,    \* the webserver's map of uploads
  waiting,    \* the finalize requests whose Deploy call is out
  job,        \* the aggregator's Deploy calls
  task,       \* the doLocalDeploy of each node for each deploy
  project,    \* the files of each node: the deploy that wrote them last
  restarting, \* nodes whose restart is asked for
  owner       \* history: per node, the last deploy to start, and whether it was alone since

nodesVars == <<zip, uploads, waiting, job, task, project, restarting, owner>>

Active == {"purge", "extract", "merge"}
Result == {"none", "ok", "failed"}
\* killed: by a restart that was asked for; stopped: the manager ended by itself
JobRec == [pc : {"idle", "between", "at", "replied", "threw", "killed", "stopped"},
           left : SUBSET Node, at : Node, res : [Node -> Result]]
TaskRec == [pc : Active \cup {"none", "done", "failed", "killed"},
            ahead : SUBSET SUBSET File, left : SUBSET File]

NodesInit ==
  /\ zip = [d \in Deploy |-> "none"] /\ uploads = {} /\ waiting = {}
  /\ job = [d \in Deploy |-> [pc |-> "idle", left |-> {}, at |-> Local,
                              res |-> [n \in Node |-> "none"]]]
  /\ task = [d \in Deploy |-> [n \in Node |-> [pc |-> "none", ahead |-> {}, left |-> {}]]]
  /\ project = [n \in Node |-> [f \in File |-> Old]]
  /\ restarting = {}
  /\ owner = [n \in Node |-> [last |-> Old, alone |-> TRUE]]

(***************************************************************************)
(* The webserver.  The page sends the chunks one after the other; the      *)
(* finalize request takes the upload out of the map, calls Deploy and      *)
(* removes the ZIP when the call is over, whichever way it ended.          *)
(***************************************************************************)
UploadInit(d) ==
  /\ zip[d] = "none"
  /\ zip' = [zip EXCEPT ![d] = "partial"]
  /\ uploads' = uploads \cup {d}
  /\ UNCHANGED <<waiting, job, task, project, restarting, owner>>

UploadChunks(d) ==
  /\ d \in uploads /\ zip[d] = "partial"
  /\ zip' = [zip EXCEPT ![d] = "whole"]
  /\ UNCHANGED <<uploads, waiting, job, task, project, restarting, owner>>

UploadFinalize(d) ==
  /\ d \in uploads /\ zip[d] = "whole"
  /\ uploads' = uploads \ {d}
  /\ waiting' = waiting \cup {d}
  /\ UNCHANGED <<zip, job, task, project, restarting, owner>>

CallOver(d) ==
  /\ waiting' = waiting \ {d}
  /\ zip' = [zip EXCEPT ![d] = "removed"]

CallFails(d) ==
  /\ d \in waiting
  /\ CallOver(d)
  /\ UNCHANGED <<uploads, job, task, project, restarting, owner>>

(* The webserver ends by itself: what it held is lost, and no ZIP is removed. *)
WebserverStops ==
  /\ uploads \cup waiting # {}
  /\ uploads' = {} /\ waiting' = {}
  /\ UNCHANGED <<zip, job, task, project, restarting, owner>>

(***************************************************************************)
(* doLocalDeploy.  A purge lists a folder when it comes to it, and takes   *)
(* the entries it listed; a merge copies the stage, from which the         *)
(* protected folders were taken out; both one file at a time.              *)
(***************************************************************************)
Busy(n) == {d \in Deploy : task[d][n].pc \in Active}

TaskAt(d, n, pc, ahead, left) ==
  task' = [task EXCEPT ![d][n] = [pc |-> pc, ahead |-> ahead, left |-> left]]

StartTask(d, n) ==
  /\ TaskAt(d, n, "purge", Clear[d], {})
  /\ owner' = [owner EXCEPT ![n] = [last |-> d, alone |-> Busy(n) = {}]]

Purge(d, n) ==
  /\ task[d][n].pc = "purge"
  /\ \E f \in task[d][n].left :
       /\ project' = [project EXCEPT ![n][f] = Gone]
       /\ TaskAt(d, n, "purge", task[d][n].ahead, task[d][n].left \ {f})
  /\ UNCHANGED <<zip, uploads, waiting, job, restarting, owner>>

ListFolder(d, n) ==
  /\ task[d][n].pc = "purge" /\ task[d][n].left = {}
  /\ \E folder \in task[d][n].ahead :
       TaskAt(d, n, "purge", task[d][n].ahead \ {folder}, {f \in folder : project[n][f] # Gone})
  /\ UNCHANGED <<zip, uploads, waiting, job, project, restarting, owner>>

\* Mutant: a folder's purge is not awaited.
PurgedUnawaited(d, n) ==
  /\ task[d][n].pc = "purge"
  /\ TaskAt(d, n, "extract", {}, {})
  /\ UNCHANGED <<zip, uploads, waiting, job, project, restarting, owner>>

Purged(d, n) ==
  /\ task[d][n].pc = "purge" /\ task[d][n].left = {} /\ task[d][n].ahead = {}
  /\ TaskAt(d, n, "extract", {}, {})
  /\ UNCHANGED <<zip, uploads, waiting, job, project, restarting, owner>>

(* A remote node extracts the file it received; the local one the upload. *)
HasZip(d, n) == n = Local => zip[d] = "whole"

Extract(d, n) ==
  /\ task[d][n].pc = "extract" /\ HasZip(d, n)
  /\ TaskAt(d, n, "merge", {}, Zip[d] \ Protected)
  /\ UNCHANGED <<zip, uploads, waiting, job, project, restarting, owner>>

Merge(d, n) ==
  /\ task[d][n].pc = "merge"
  /\ \E f \in task[d][n].left :
       /\ project' = [project EXCEPT ![n][f] = d]
       /\ TaskAt(d, n, "merge", {}, task[d][n].left \ {f})
  /\ UNCHANGED <<zip, uploads, waiting, job, restarting, owner>>

Deployed(d, n) ==
  /\ task[d][n].pc = "merge" /\ task[d][n].left = {}
  /\ TaskAt(d, n, "done", {}, {})
  /\ restarting' = IF d \in Restart THEN restarting \cup {n} ELSE restarting
  /\ UNCHANGED <<zip, uploads, waiting, job, project, owner>>

(* A file in use, 7-Zip's refusal, a ZIP that is no more there. *)
TaskFails(d, n) ==
  /\ task[d][n].pc \in Active
  /\ TaskAt(d, n, "failed", {}, {})
  /\ UNCHANGED <<zip, uploads, waiting, job, project, restarting, owner>>

(***************************************************************************)
(* Deploy of the aggregator.  No node found (or none listed, the           *)
(* discovery having failed) is a local deploy.                             *)
(***************************************************************************)
Resolved(d) == {IF ns = {} THEN {Local} ELSE ns : ns \in {Target[d], {}}}

DeployCalled(d) ==
  /\ d \in waiting /\ job[d].pc = "idle"
  /\ \E ns \in Resolved(d) : job' = [job EXCEPT ![d].pc = "between", ![d].left = ns]
  /\ UNCHANGED <<zip, uploads, waiting, task, project, restarting, owner>>

\* Mutant: the nodes in the order they were found.
NextNodeAnyOrder(d, n) == job[d].pc = "between" /\ n \in job[d].left

\* Mutant: the deploy of a node is not awaited.
NextNodeUnawaited(d, n) ==
  /\ job[d].pc \in {"between", "at"} /\ n \in job[d].left \ {job[d].at}
  /\ n = Local => job[d].left \ {job[d].at} = {Local}

(* The local node last. *)
NextNode(d, n) ==
  /\ job[d].pc = "between" /\ n \in job[d].left
  /\ n = Local => job[d].left = {Local}

Begin(d, n) ==
  /\ NextNode(d, n) /\ zip[d] = "whole"
  /\ StartTask(d, n)
  /\ job' = [job EXCEPT ![d].pc = "at", ![d].at = n]
  /\ UNCHANGED <<zip, uploads, waiting, project, restarting>>

Told(d, n, r) ==
  job' = [job EXCEPT ![d].pc = "between", ![d].left = @ \ {n}, ![d].res[n] = r]

(* The agent is not reached, refuses, or its answer to the commit is lost. *)
SendFails(d, n) ==
  /\ NextNode(d, n) /\ n # Local /\ zip[d] = "whole"
  /\ Told(d, n, "failed")
  /\ StartTask(d, n) \/ UNCHANGED <<task, owner>>
  /\ UNCHANGED <<zip, uploads, waiting, project, restarting>>

LocalZipMissing(d) ==
  /\ NextNode(d, Local) /\ zip[d] = "removed"
  /\ Told(d, Local, "failed")
  /\ UNCHANGED <<zip, uploads, waiting, task, project, restarting, owner>>

(* sendZip reads the size of the ZIP before anything else: removed, it throws. *)
SendThrows(d, n) ==
  /\ NextNode(d, n) /\ n # Local /\ zip[d] = "removed"
  /\ job' = [job EXCEPT ![d].pc = "threw"]
  /\ UNCHANGED <<zip, uploads, waiting, task, project, restarting, owner>>

(* The agent's status, or ten polls it did not answer. *)
NodeDone(d) ==
  LET n == job[d].at IN
  /\ job[d].pc = "at"
  /\ \/ task[d][n].pc = "done" /\ Told(d, n, "ok")
     \/ task[d][n].pc \in {"failed", "killed"} /\ Told(d, n, "failed")
     \/ n # Local /\ Told(d, n, "failed")
  /\ UNCHANGED <<zip, uploads, waiting, task, project, restarting, owner>>

\* Mutant: a deploy whose request is gone is not brought to its end.
ReplyIfAsked(d) ==
  /\ job[d].pc = "between" /\ job[d].left = {} /\ d \in waiting
  /\ job' = [job EXCEPT ![d].pc = "replied"]
  /\ CallOver(d)
  /\ UNCHANGED <<uploads, task, project, restarting, owner>>

(* The history trace is written, then the call answered: the ZIP goes. *)
Reply(d) ==
  /\ job[d].pc = "between" /\ job[d].left = {}
  /\ job' = [job EXCEPT ![d].pc = "replied"]
  /\ IF d \in waiting THEN CallOver(d) ELSE UNCHANGED <<waiting, zip>>
  /\ UNCHANGED <<uploads, task, project, restarting, owner>>

(* The manager of a node ends: it forgets the deploys in progress. *)
ManagerEnds(n, pc) ==
  /\ task' = [d \in Deploy |-> [task[d] EXCEPT ![n].pc = IF @ \in Active THEN "killed" ELSE @]]
  /\ job' = [d \in Deploy |-> IF n = Local /\ job[d].pc \in {"between", "at"}
                                THEN [job[d] EXCEPT !.pc = pc] ELSE job[d]]

(* restartAll of a node's pmon; on the local node the webserver forgets its uploads and
   its requests too. *)
RestartNode(n) ==
  /\ n \in restarting
  /\ restarting' = restarting \ {n}
  /\ ManagerEnds(n, "killed")
  /\ IF n = Local THEN uploads' = {} /\ waiting' = {} ELSE UNCHANGED <<uploads, waiting>>
  /\ UNCHANGED <<zip, project, owner>>

(* The manager alone, by itself or by hand: a restart it still waits to ask for is lost. *)
ManagerStops(n) ==
  /\ restarting' \in {restarting, restarting \ {n}}
  /\ ManagerEnds(n, "stopped")
  /\ UNCHANGED <<zip, uploads, waiting, project, owner>>

Run(d, n) == \/ ListFolder(d, n) \/ Purge(d, n) \/ Purged(d, n)
             \/ Extract(d, n) \/ Merge(d, n) \/ Deployed(d, n) \/ TaskFails(d, n)

Aggregate(d) ==
  \/ DeployCalled(d) \/ LocalZipMissing(d) \/ NodeDone(d) \/ Reply(d)
  \/ \E n \in Node : Begin(d, n) \/ SendFails(d, n) \/ SendThrows(d, n)

NodesNext ==
  \/ \E d \in Deploy : \/ UploadInit(d) \/ UploadChunks(d) \/ UploadFinalize(d) \/ CallFails(d)
                       \/ Aggregate(d) \/ \E n \in Node : Run(d, n)
  \/ \E n \in Node : RestartNode(n) \/ ManagerStops(n)
  \/ WebserverStops

(* pmon does the restart it is asked for; nothing is assumed of the other stops. *)
Fairness ==
  /\ \A d \in Deploy : WF_nodesVars(Aggregate(d)) /\ \A n \in Node : WF_nodesVars(Run(d, n))
  /\ \A n \in Node : WF_nodesVars(RestartNode(n))

NodesSpec == NodesInit /\ [][NodesNext]_nodesVars /\ Fairness

-----------------------------------------------------------------------------
NodesTypeOK ==
  /\ zip \in [Deploy -> {"none", "partial", "whole", "removed"}]
  /\ uploads \in SUBSET Deploy /\ waiting \in SUBSET Deploy
  /\ job \in [Deploy -> JobRec]
  /\ task \in [Deploy -> [Node -> TaskRec]]
  /\ project \in [Node -> [File -> Deploy \cup {Old, Gone}]]
  /\ restarting \in SUBSET Node
  /\ owner \in [Node -> [last : Deploy \cup {Old}, alone : BOOLEAN]]

(* "This guarantees a ZIP can never overwrite a protected folder": whatever deploys
   overlap, fail or restart, the protected files are those of before. *)
ProtectedKept == \A n \in Node : \A f \in Protected : project[n][f] = Old

(* A deploy that is done, and during which no other one ran on the node, left exactly
   its release: the ZIP's files are its own, the purged ones it does not bring are gone. *)
DoneIsReleased ==
  \A n \in Node : \A d \in Deploy :
    owner[n] = [last |-> d, alone |-> TRUE] /\ task[d][n].pc = "done" =>
      \A f \in File \ Protected :
        /\ f \in Zip[d] => project[n][f] = d
        /\ f \in (UNION Clear[d]) \ Zip[d] => project[n][f] = Gone

(* The local node last, since its restart "would abort the remaining deploys": a deploy
   that the restart of the aggregator cut before its other nodes had their turn was cut
   by another deploy, never by its own local node. *)
CutByAnother ==
  \A d \in Deploy :
    job[d].pc = "killed" /\ job[d].left \ {Local} # {} =>
      \E e \in Deploy \ {d} : e \in Restart /\ task[e][Local].pc = "done"

(* The nodes a deploy has touched and given no result. *)
InDoubt(d) == {n \in Node : job[d].res[n] = "none" /\ task[d][n].pc # "none"}

(* A deploy that ends before its time tells all but one node what became of it: those
   without a result keep what they had, but for the one it was at when the aggregator
   ended; and for none when the ZIP was removed under it, so that sendZip threw. *)
OneInDoubt ==
  \A d \in Deploy :
    /\ job[d].pc = "threw" => InDoubt(d) = {}
    /\ \A m, n \in InDoubt(d) : m = n

(* Every deploy the aggregator took ends: with a reply, by an exception or with the manager. *)
EveryDeployEnds ==
  \A d \in Deploy : job[d].pc = "between" ~> job[d].pc \in {"replied", "threw", "killed", "stopped"}
==============================================================================
