# Formal models of the WinCC OA WebUI pages

This directory holds TLA+ models of the parts of this repository that keep state
of their own, the TLC configurations that check them on small instances, and
theorems about them, for every value of the constants, proved with TLAPS.
`PROJECT.json` is the index: components, runs, mutants, the map from each
definition to the source lines it models, findings, hazards and theorems.

Every definition is translated from the source.  Where a doc, a comment or a test
says something else than what the code does, the model follows the code: section 5 lists
the differences, one of which a run of its own shows (`unlock_opens`); the others are
behaviours of the models, allowed for in the properties named there.

    tlc -workers 2 -config MCBadgeLogin.cfg MCBadgeLogin     # a run
    tlapm BadgeLoginProofs.tla                               # a module of proofs

## 1. The system

The repository is a set of libraries (`src/libs/wui-*`) added to a WinCC OA
project's dashboard: web components for the browser, Express routes for the
dashboard's webserver (`backend/`), and Node managers (`managers/`).  Their state is
kept in three places: WinCC OA datapoints (DPs), shared by every process and read
or written with awaited calls; the memory of the one webserver process; and the
memory and files of the managers, of which each node has its own.

All of this code is single-threaded JavaScript: two handlers interleave only at
their awaits.  So a handler is modelled as one process whose actions are the pieces
of code between two awaits, and everything that happens concurrently (other
requests, lost or late calls, timers, a process that restarts) may come at an await
and nowhere else.

### Components

| component | state | operations | who it interacts with |
|---|---|---|---|
| **auth-badge: station lock and badge login** (`badgeAuth.ts`, `badgeBlacklist.ts`) | DP `WuiAuthBadge_Blacklist`: the refusals counted per station, the locks (active, expired, lifted) | `login`, `unlockStation`, `unlockStationByPath`, `getBlacklist`, `putSettings` | the users' badges (WinCC OA user settings), the settings, the page "Badges" |
| **auth-badge: queue of the blacklist DP** (`badgeBlacklist.ts`) | promise chain `queue`, memo `ready`, the DP and its type | `updateBlacklist`, `readBlacklist`, `ensureBlacklistDp` | WinCC OA's DPs |
| **auth-badge: badges and settings** (`badgeAuth.ts`, `badgeSettings.ts`, `badgeHash.ts`) | user setting `RFID_UID` of each user; DP `WuiAuthBadge_Config`; a 2 s cache of it | `enrol`, `enrolUser`, `forget`, `forgetUser`, `putSettings` and its migration | WinCC OA's user settings and DPs |
| **process monitor: deploy across servers** (`deploy-transfer.js`, `index.js`, `processMonitorController.ts`) | the agent's maps `transfers` and `deploys`, its temp files; each `sendZip`'s place in its ZIP; the uploads of the webserver; the results per node; the project's files | the upload routes, `sendZip`, `begin`, `chunk`, `commit`, `status`, `abort`, `cleanupStale`, `deployToNodes`, `doLocalDeploy` | vRPC between nodes, pmon, the project's files |
| process monitor: pmon client and status | one TCP connection per command, cached status of the managers | list, start, stop, add, remove, restart all | pmon, the nodes' agents |
| **remote VNC** (`vncTickets.ts`, `vncRelay.ts`, `rfbBroker.ts`, `vncProxy`) | outstanding tickets; per session: the WebSocket, the TCP socket, two byte queues | issue and consume a ticket, `open`, `message`, `drain`, `close`, the RFB handshake on both sides | browser, VNC server, app-security |
| **eng-studio and eng-core: check-in** (`engController.ts`, `eng-studio.ts`, `apply.ts`, `diff.ts`, `workspace.ts`) | the workspace and its baseline, what the page last read, the plan of a check-in and its report | check out, edit, generate, forget, reload, check in (apply, in batches) | DP types, DPs and configs of the project, which others change too |
| **users service** (`managers/usersService`) | promise chain of the writes, listing of the directory, import settings and status, who was found in no group | the page's writes with their audit rows, the import of directory users (automatic, on demand, of picked users), the settings, the timer | WinCC OA's UserManagement through a CTRL script, the directory, the audit DP |
| app-security (`appSecurityGuard.ts`) | role assignments in a DP, cached | guard of every route, change of the roles | all backends |
| **kit: datapoint JSON stores** (`dp-json-store.ts`, `audit-trail.ts`, `paraController.ts`) | one DP per entity with two leaves; per page: offline or not, the list in memory, the provisioning of the audit DP | `list`, `create`, `save`, `remove`, the row of the audit trail | every page; the PARA routes |
| **camera-streams: RTSP proxy** (`rtspRelay.ts`, `rtspController.ts`, `managers/rtspProxy`) | the sessions and the counts of viewers; per camera the clients of its ffmpeg; the statuses of the probes | open, close, frame, drain on the webserver; look-up, hand-over, probes in the manager | rtsp-relay and ffmpeg, browsers |
| production orders, fleets, alarms, maps, 3D, reports, simulators, audit trail page, para, tag importer, ai-kit | documents through the kit's stores, or none | pages | — |

The complete list, with the components that are not modelled and why, is
`components` in `PROJECT.json`.  Those in bold are the modelled ones; of the remote
VNC, the relayed session; of the studio, the check-in; of the kit, the store with one
DP per entity; of the users service, the writes and the imports.

### What is hard in it

- *Interleaving at awaits.*  The code checks something, awaits, and acts on what it
  checked: the station's lock before the badge is looked up, a badge's owner before
  the badge is written, the settings before they are stored over.
- *A document per DP.*  Counts and locks are one JSON string; a change is a read, a
  change and a write of the whole.  The promise chain of `updateBlacklist` makes it
  atomic within one webserver; `writeSettings` has no such chain.
- *Calls that are lost, late or repeated.*  A vRPC call may throw at the sender
  while its request is still served, before or after the sender's next ones.
- *Restarts.*  The webserver and the managers keep promise chains, memos, maps and
  timers in memory, beside what is in DPs and files.
- *Limits.*  At most `MAX_COUNTERS` stations counted, `MAX_RECORDS` locks kept,
  `chunkRetries` sendings of a chunk, `maxPollFailures` failed polls in a row,
  `BACKPRESSURE_HIGH` bytes a WebSocket may hold.
- *Several writers of one project.*  Two pages on one entity, two deploys on one
  node, a check-in beside other engineers: nothing serialises them, and what each
  goes by was read some awaits before it writes.
- *Several steps that may stop in the middle.*  The two leaves of an entity, a purge
  before its extraction, the items of a plan, the nodes of a deploy.
- *Two sockets, one session.*  Either may speak, pause, fail or close at any await of
  the relay, and closing one must close the other, or not open it.

`hazards` in `PROJECT.json` lists the forty that matter most, each at its line, with
the properties that would catch it going wrong.

## 2. The models

### Station lock and badge login

| module | what it is |
|---|---|
| `BadgeBlacklist` | the functions over the blacklist (`expire`, `recordFailure`, `resetFailures`, `lift`, `bounded`, `activeLock`), as operators |
| `BadgeLogin` | the login requests, interleaved with the "Badges" page, the clock, restarts |
| `LockLedger` | abstract: what becomes of a lock, recorded once and ended once |
| `MCBadgeLogin` | values for TLC |
| `BadgeLoginProofs` | proofs |

A login is a process whose `at` is the await it stands at.  `Present` reads settings
and time and passes or stops at `badgeLoginEnabled`; `StationLock` is `stationLock`
(expire the overdue locks, look for the station's); `LookUp` covers `userIdOf`,
`userById` and `signWebUiToken`, whose outcome is arbitrary; `Refuse` is `refuse`
with `recordFailure`; `Admit` is `resetFailures`; `BlacklistFails` is a DP that
cannot be read or written, at each of the three.  `UnlockStation`, `ListBlacklist`
and `PutSettings` are the page's requests, each one change of one document.  A
change of the blacklist is one step, which is what `BlacklistQueue` establishes.

A request takes `now` and the settings once, when it starts, and uses them at its
last step: the model keeps them in the request's record.  `next`, the number of the
next lock, is not in the source (the source has the order of an array); it gives a
lock an identity that the properties can follow.

### The queue of the blacklist DP

`BlacklistQueue` has one action per await of `updateBlacklist`: the read, with the
change applied (`ReadAndChange`; nothing is written when the change gives back the
same object), `ensureBlacklistDp` (`Ensure`), the write (`Write`); each may fail
(`ReadOrWriteFails`, `EnsureFails`, the latter possibly after the type was created),
and `Restart` may come at any of them.  `AtomicUpdates` is the abstract
specification: every change is applied at one instant to the value stored then, in
the order of the calls, or fails without a trace.

### Badges and settings

`BadgeStore` follows the requests that write the badges or the settings, await by
await, in one webserver: `CanChangeOwn`, then `ReadSettings`, `FindOwner`,
`WriteBadge` (`associate`); `RemoveBadge` (`forget`); and `putSettings` as `Before`,
`Scan` and `Rewrite` (the migration `hashClearBadges`), `Merge` and `Store`
(`writeSettings`).  The cache of `readSettings` is a variable: `Readable` is what a
read may give (the cache, the DP, or the defaults when the DP cannot be read).

The code does not serialise these requests, so the properties one would like do not
hold as such (section 5).  What does hold is stated with a history variable:
`staleWrite` says that some request wrote on the strength of something read that
was not, or no longer, what is stored.  While it is false, uniqueness, openability
and the settings are right, whatever fails or restarts.  That flag excuses everything
from the first such write on; `TurnedOnKeeps` does not use it: it follows each
migration with the badges it `scanned`, the users it has `left` and those whose badge
somebody else `changed` since, and says of all the others, each by itself, that they
keep their number, as a fingerprint.

### The transfer of a deploy ZIP

`DeployTransfer` has the senders (`sendZip`, one per transfer), the network, and the
agent (`TransferReceiver`, cut at its awaits).  A call is a record with the sender's
state it was made in; the sender waits for the answer in that same state, so an
answer that comes to a sender that has gone on is dropped, as a rejected promise's
late answer is.  `Throws` is a call that throws at the sender, its request still
in flight or already served; `RequestLost` drops a request.  Chunks are numbers:
`received` is how many the agent counts, `disk` the ones really written.  A write may
be partial (`handle.write`'s `bytesWritten` is not looked at), in which case the
chunk is counted and not on disk.  `Whole` is the check of size and hash.

`AgentStops` empties the agent's memory and loses the calls; `AgentStarts` is
`cleanupStale({all: true})`, awaited before the service is registered.  `restartIn`
is the delay of the restart a deploy asked for, counted in polls of its sender.
The ages of `cleanupStale` (30 min, 1 h) are left out: an open transfer may be taken
for idle, a status forgotten, at any step, which is more than the code does.

### A relayed VNC session

`VncRelay` has one session: `at` is the await `startRelay` stands at (`Open`,
`Allowed`, `Resolve`, `ReadSecret`, then the handshake, then the pipe).  The other
actions are the events of the two sockets and of the timer, each with everything the
promises it settles do before the next event.  A message is what one read of the
handshake takes; the first `Greeting` ones of the browser are `greetClient`'s, the
first `Auth` ones of the server `authenticateToServer`'s, any of which may be a
refusal.  They are numbered, so that `written` and `shown`, what was piped, tell
a message lost, repeated or out of order.  `Continue` is `brokerHandshake` after a
read (`Promise.all` of both sides: a refusal is looked at once the browser has
answered), `ReadFails` is `ByteQueue.close` on a pending read.  A message comes after
its WebSocket is open and its TCP socket connected; the browser speaks once it was
greeted.  The relay's own few bytes of the handshake are left out, and so is
`send` throwing in `toClient` (the WebSocket is closed, `closing` is set).

`buffered` is what the WebSocket holds of the messages piped, in messages: `ToClient`
pauses the TCP socket above `High`, `BufferDrains` (the drain event, after any part
of it was sent) resumes it below.  A paused socket gives no data, nor the end that
follows the data, until it is resumed; it may fail.  The close handler of a WebSocket
the relay ends comes at once or later, which covers both.

### A deploy to several nodes

`DeployNodes` is what surrounds the transfer: the upload routes of the webserver
(`UploadInit`, `UploadChunks`, `UploadFinalize`, `CallOver`, `CallFails`), Deploy of
the aggregator (`DeployCalled`, `NextNode`, `Begin`, `SendFails`, `SendThrows`,
`NodeDone`, `Reply`), and `doLocalDeploy` on each node (`ListFolder`, `Purge`, `Purged`,
`Extract`, `Merge`, `Deployed`, `TaskFails`), with the restart it asks for
(`RestartNode`).  A manager, or the webserver, may also end by itself at any step
(`ManagerStops`, `WebserverStops`).  The transfer itself is one step that starts the node's deploy or fails, or does both (a commit
whose answer was lost): `DeployTransfer` shows that a node reported ok was deployed.
Files are the abstraction of a project: each holds the deploy that wrote it last, is
as of before, or gone; a purge and a merge may stop after any of their files.  `owner`
is history: which deploy began last on a node, and whether no other ran meanwhile.

### The JSON stores and the audit trail

`JsonStore` has several pages, each with operations of `DpJsonStore`; an operation's
`pc` is the call it makes next.  Each call is answered, lost after the server served
it, or fails: `Throws` is `send()` on anything but ok.  `Ensure`, `TrailExists`,
`CreateTrail` and `Post` are the row `AuditTrailWriter` writes after the operation
returned, with the promise of the first row shared by the others of its page.
`GoOffline` and `OfflineCall` are a page without backend.  An entity is one value,
written in two leaves; `log` is history: every leaf written, with the value it
replaced.  Four kinds of saving are told apart: `create`, `save` (its old value read
first), `session` (the page gives the baseline) and `silent` (no row).

### The camera streams

`StreamShare` has the webserver's relay (`Open`, `Closed`, `UpstreamError`,
`UpstreamClose`, `Frame`, `Drain`), the manager's side of each socket (`Accept`,
`Resolved`, `HearClose`, `ManagerCrash`) and its passes of probes (`PassStarts`,
`NextBatch`, `Probed`, `PassEnds`), with the page's cameras changing under them.
`refs` is rtsp-relay's count of the clients of a camera's ffmpeg, external.  The close
of a socket is heard by the handler that is registered then: while the camera is
looked up there is none, so `HearClose` only notes that the event has passed (`gone`).

### The check-in of the engineering studio

`CheckIn` has the workspace, its baseline, what the page last read, and the project,
as functions from objects (types, datapoints, configs of an element) to what stands
there.  `OpOf` is `diff.ts`: create, update, delete, with the conflicts of what drifted
since the check-out.  A read may miss what cannot be read (`Reads`: the structure of a
type, all the datapoints of one, the configs of an element) without being told apart, and
a page's may fail (`PageMayRead`).  `Start` reads again what is to be retired; what it
cannot read is passed over as applied.  `Look`, `Write`, `LookConfig`, `WriteFamily`, `Flush`, `Replay`
are `apply.ts` item by item in `Rank`'s order, through `engController.ts`' port, each
call of which may fail, or fail after it wrote; `Report` and `Refresh` end a check-in,
`Outside` is anyone else on the project.  `calm` is history: check-ins of the whole
plan in a row that nothing disturbed, a read that missed something being a disturbance.
`Forget` is of a datapoint, which is all the page asks of `forgetInWorkspace`.  Configs are of two families, those retired by
switching them off (address, alarm) and those taken away (archive, range).

### The users service

`UsersService` is the manager with its promise `chain` (`serial`): a job joins it, runs
when it is the first, and leaves it.  A write of the page (`AskWrite`) keeps its turn for
the snapshot (`Before`), the CTRL function (`Ctrl`: `Create`, `UpdateUser`, ... or
`Refuses`), and the row (`AnswerOk`, `Audited`): `writeOp`.  An import joins the chain
for its snapshot and again for each user it creates (`AdCreate`), and leaves it before
the row (`Alone`); between those it lists the directory (`Listed`), asks for the groups
(`GroupsRead`, the batches of `GROUP_BATCH` as one) and goes through the users
(`PassOver`, `AdCreate`, `LoopEnds`) beside the others.  `Tick` is the timer, which starts
a run at any tick after its time was set; `AskSettings`, `SettingsStored`, `SettingsTold`
are `setImportSettings` cut at its awaits.  A creation is two saves, of which the second
may be refused; and any change may be answered as a failure (`failed`): a second save
refused, a user just created not found again, an answer of the script that cannot be read.

A row is sent before any other call of the manager, so it is written in the step that
sends it, or not at all; what follows it waits for its answer.  A user has groups and
nothing else; the groups are local, linked to the directory, or none.  The age of a cached
listing is left open.  `log`, `unwritten`, `asked` and `moved` are history: the changes
made, those whose row was refused or lost with the manager, what an import was answered
for each user, and which groups, or the settings, changed since an import read them.

## 3. The runs

| run | instance | states | shows |
|---|---|---|---|
| `login` | 3 logins, 2 stations, all four kinds of setting, thresholds 1 and 2, `MaxCounters` = `MaxRecords` = 1, clock to 1 | 167 320 | `NoLockMissed`, `CountKept`; locks implement `LockLedger` |
| `queue` | 4 calls on a count | 4 932 | implements `AtomicUpdates`; `EveryCallSettles` |
| `store` | 2 requests of any kind, 2 users, 2 numbers, outages | 73 284 | `UniqueUnlessStale`, `OpensUnlessStale`, `PatchUnlessStale`, `TurnedOnKeeps` |
| `transfer` | 1 transfer of 3 chunks, 2 sendings of each, fairness | 19 134 | `DeploysWholeZip`, `EverySendEnds`, `EveryFileGoes` |
| `two_transfers` | 2 transfers of 1 chunk, one that restarts the node, reads of the file that fail | 350 509 | `OkIsDeployed` |
| `deploy_nodes` | 2 deploys, of two nodes and of the local one, 2 files and a protected one, both restart, stops by themselves; fairness | 440 455 | `DoneIsReleased`, `OneInDoubt`, `CutByAnother`, `EveryDeployEnds` |
| `relay` | 1 session, 2 messages of handshake on each side, 5 in all, `High` = 1, fairness | 2 407 | `PipedInOrder`, `SocketFollows`, `RefusalLostEarly`, `EverySessionStarts`, `EveryPauseEnds` |
| `json_store` | 2 operations of any kind on 1 entity, of 1 page or of 2, 2 values | 1 092 616 | `RowsAreTrue`, `UntracedOnlyIfRaced`, `TornOnlyByOverlap` |
| `streams` | 2 browsers on one camera or a bad id, 2 cameras probed one at a time, fairness | 94 864 | `CountsMatch`, `EveryPauseEnds`, `EverySessionEnds`, `StreamStops`, `CameraForgotten` |
| `check_in` | 1 type, 1 datapoint, 2 elements, 2 versions, a project empty at first or full, batches of 2, 2 edits, 1 change by another or read that misses something | 753 723 | `TypeOK`, `OkIsDone`, `FailsOnlyBlocked`, `TakesOnlyRemoved`, `KeepsDrift` |
| `users` | 2 requests of 11 kinds beside the automatic import, 1 user, 2 linked groups, a selection of one or of all, 1 stop, fairness | 337 616 | `RowsAreTrue`, `UntracedOnlyIfFailed`, `SeenIsRight`, `ImportGivesGroups`, `ImportsGoOn` |

and `unlock_opens`, which shows a documented statement violated (section 5).  The type
invariants, and the smaller invariants that the theorems of section 4 state
(`CountersBounded`, `WritesWhatItRead`, `CacheCurrent`, `FileInUse`, `Backpressure`,
`ProtectedKept`, `PauseHasDrain`, `StatusOfListing`,
`CountsBelowLimit`, `AbsentIsEmpty`, `NoGap`, `OneProvisioning`, `MemoryKept`,
`UsersService!TypeOK`), are proved and not run.

Why these bounds.  *Login*: a race needs a request that checks, one that locks and
one that unlocks or refuses again, hence three requests; two stations are enough to
see one's count or lock touched by the other's request; with `MaxCounters` and
`MaxRecords` at 1 both limits are met by the second station, and the purge has to
choose between an active and an ended lock; a clock of 1 passes one deadline and
leaves requests with a time older than it, which may still record a lock already
over.  *Queue*: a running call, a waiting one,
and one called after a restart; the fourth makes the reset.  *Store*: a migration and
one request that races with it, or two associations; a third request repeats a pair.
*Transfer*: with three chunks, a late first chunk is two behind the last one, so it
could set `received` back below a chunk under way; two sendings are enough for one
being given up and served late.  The delay of the restart is shorter than the failed
polls a sender accepts, as in the source (5 s against 10 polls, one a second).
*Relay*: two messages of handshake let one side be done before, between and after the
reads of the other; three more are enough to be kept for the pipe, to go over the
threshold by one and by two, and to leave some after the socket resumed.
*Nodes*: two deploys are enough to overlap on the local node, to have one cut the
other short, and to differ in their files; a third file is the protected one.
*JSON stores*: every race is of one operation with one other; the third writer of a
datapoint is the one before both.  *Streams*: a second browser on the same camera is
the last client or is not; the bad id stands for a refusal; a second camera is left
waiting in a pass.  *Check-in*: a type, a datapoint and two elements are the chain
that the order of deletions matters for, two elements make a batch with a bad and a
good one, and one change by another is what makes a conflict; a second one would be
seen at the same reads, and a read that misses something is counted with them; a project
that holds only some of the objects at first comes of a check-in or of that change
(`Held`, which the theorems leave open).  *Users*: one request changes the settings or the groups under
an import, the other comes before or after; two changes of the selection are what makes
a user be asked again, and two writes of one user what a row could mistake.  The
directory is fixed in this run: `asked` keeps what an import was told, so that its
changes afterwards concern no property.  The settings start as off, and a stop keeps or
loses those stored.  The requests are interchangeable, so the second is made after the
first (`InTurn`); no request has a fairness that this could touch.

Every property of a passing run has a mutant in `PROJECT.json`: an operator in the
same module that changes one mapped definition the way a plausible bug would (a
dropped check, a status kept, a count set back), with which TLC finds the property
violated in that run.

Deadlock is not checked where a model makes finitely many requests, after which what is
left of it may stop (`CHECK_DEADLOCK FALSE` in its `.cfg`).

### Fairness

- `BlacklistQueue!FairQueueSpec`: weak fairness of the running call's next step.  Every
  call to WinCC OA is answered, with a value or an error.  Nothing is assumed of the
  callers or of restarts.
- `DeployTransfer!FairSpec`: per transfer, weak fairness of the sender's step (its
  awaited call is answered or throws, its poll comes every second), of the deploy's
  end (`doLocalDeploy` runs tools that end), of `cleanupStale` (a `setInterval`, and
  a transfer nobody touches gets idle), and of a commit under way; and of the agent's
  start, by pmon.  No fairness of delivery: a request may always be lost.
- `VncRelay!FairSpec`: weak fairness of `startRelay`'s awaited calls (answered or
  refused), of the handshake's timer, of the close event of a socket destroyed and of
  a WebSocket ended, and of the drain of an open WebSocket.  Nothing is assumed of the
  browser nor of the server: neither needs to answer or to leave.
- `DeployNodes!Fairness`: weak fairness of each node's task (tools that end) and of the
  aggregator's loop, whose calls are answered or throw, and of the restart a deploy has
  asked for, which pmon does.  Nothing is assumed of the webserver, of uploads, or of
  the managers' own stops.
- `StreamShare!Fairness`: weak fairness of the relay's own end() and the manager's
  answers, of the close events, of the drain (a browser reads what it is sent), of the
  upstream's end once it is not paused, and of the passes of probes (a timer, each
  probe with a timeout; `dpNames` does not throw each time).  A browser never needs to leave, and the manager may crash.
- `UsersService!Fairness`: weak fairness of each job's next step (its call is answered or
  fails, the chain serves the first one), of the timer (a `setInterval`; a time set
  comes), and of the manager's start, by pmon.  Nothing is assumed of the page, and any
  call may fail every time.

## 4. What is proved

TLAPS checks the eight `*Proofs` modules. Every invariant and action property of the
passing runs is one of their theorems. None of the theorems bounds the number of
requests, stations, users, badges, transfers, chunks, messages, deploys, nodes, files,
pages, operations, sessions, cameras, types, configs, edits or times. They assume the
named assumptions of the modules (`StoreAssumption`, ...), which TLC evaluates on each
run, and use nothing else.

- **`BadgeLoginProofs`.**  Type correctness; `CountersBounded`; `CountsBelowLimit`; `NoLockMissed`;
  `LedgerSpec`, the refinement of `LockLedger`.  The inductive invariant adds that
  the clock is never behind a request's `now` nor a lock's start (a lock expired with
  a request's older `now` is overdue at the clock's time too), and that locks are
  numbered below `next`, each number once, so that ending a lock touches that lock
  only, and a lock a request has not seen has a number of at least `seen`.
  For `CountKept` every step is one change of the blacklist (`BlacklistChanges`).  A
  refusal counted lowers no count but one that `Dropped` may choose, and only when the
  station counted is one too many: at most `MaxCounters` were counted before
  (`FewCounted`), so exactly that many stay (`CountFailureKeeps`).  That a lock recorded
  or lifted shows in the station's locks rests on the numbers again (`InOrder`).

  The same module holds the proofs of `BlacklistQueue`: its types, `WritesWhatItRead`,
  `AbsentIsEmpty` and the refinement of `AtomicUpdates`.  The value read stays the one
  stored until it is written, because nothing else writes: that is the invariant, and it
  makes `Write` an `Apply`.
- **`BadgeStoreProofs`.**  Type correctness, `CacheCurrent`, `UniqueUnlessStale`,
  `OpensUnlessStale`, `PatchUnlessStale`, `TurnedOnKeeps`.  A request that is not stale
  goes by what is stored: the setting it read is the setting, the owner it did not find
  does not exist, a number left to rewrite is the user's, and after the scan no number
  in clear is left outside its list.  `staleWrite` is exactly the disjunct that excuses
  a write that does not.  `TurnedOnKeeps` rests on a second invariant, without that
  disjunct (`Kept`): a migration's badges that nobody else changed have the number
  scanned, and those it has passed are fingerprints; another migration may only have
  made them so already.
- **`DeployProofs`**, of `DeployTransfer`.  Type correctness, `DeploysWholeZip`, `OkIsDeployed`,
  `NoGap`, `FileInUse`.  None is inductive alone: they hold together with, among
  others, that a begin in flight is the only call of its transfer, of which the
  agent then knows nothing (`BeginFirst`: it cannot empty a file being filled); that
  there is at most one commit of a transfer and no deploy before it is answered
  (`OneCommit`, `CommitFirst`); and that a temp file is owned by the map, then by the
  commit that checks it, then by the deploy (`OpenHasFile`, `Served`).  Steps that
  leave the agent alone are one lemma (`MovesInv`).
- **`VncRelayProofs`.**  Type correctness, `PipedInOrder`, `SocketFollows`,
  `Backpressure`, `RefusalLostEarly`.  The invariant adds that a closed session has no socket open and one
  that waits or pipes has one (`Sockets`), that nobody spoke before the socket was
  opened and nothing was piped before the pipe was (`Unopened`, `Unpiped`), and that
  what is kept for later is what came after each side's part of the handshake, all of
  it (`Kept`).  `ReadSecret` looking at `closing` is what `SocketFollows` rests on.

- **`DeployProofs`**, of `DeployNodes`.  Type correctness, `ProtectedKept`, `DoneIsReleased`,
  `OneInDoubt`, `CutByAnother`.  The invariant says what a task has
  done of its release so far (`Progress`), that a deploy alone on its node has no other
  task there (`Owned`), and that the nodes a deploy has not come to have neither result
  nor task, whichever way it ended, the local one being the last (`Jobs`): from the last follows that its own
  restart comes when nothing is left to cut.
- **`JsonStoreProofs`.**  Type correctness, `MemoryKept`, `OneProvisioning`,
  `RowsAreTrue`, `UntracedOnlyIfRaced`.  The trail's invariant (`TrailInv`) follows an
  operation from the value it read to its row: which call fits which kind (`Fits`), that
  the value it holds is the stored one or one that a logged write replaced since
  (`SeenAt`), that the row it is about to post is true (`Told`), and what became of each
  of its writes (`Account`).  All of it is kept by any growth of the log
  (`OthersKeep`), so that a step is looked at for its own operation only; `JsonWrite`
  is the one step that makes an operation owe a row.  For `TornOnlyByOverlap`
  (`TornInv`): an operation about to write its second leaf stands on its own first one,
  or another is half way on the entity (`Half`), or another wrote its second leaf after
  this one's first (`WroteSince`), and then the two have overlapped as soon as this one
  writes.  The property itself says no more than it has to: an operation excuses the
  entity only while it is between its two writes or failed there, and two of them only
  if both wrote both.
- **`StreamShareProofs`.**  Type correctness, `CountsMatch`, `PauseHasDrain`,
  `StatusOfListing`.  The invariant ties each session's record to the manager's side of
  it (`Fine`) and both counts to sets of sessions (`Counts`): that `refs` is the number
  of sockets handed over is what keeps it from going below zero.  A step moves one
  session, in and out of one set (`CountMove`, from the library's facts on finite sets).

- **`UsersServiceProofs`.**  Type correctness, `RowsAreTrue`, `UntracedOnlyIfFailed`,
  `SeenIsRight`, `ImportGivesGroups`.  The base (`Inv`) is what a job is at each place
  (`Shape`) and who has the turn (`Turns`): a job that was answered, and a write of the
  page from its snapshot to its row, is the first of the chain.  Nothing is under way
  while the manager is down (`Down`), and an import under way is the one that runs
  (`Running`), so that neither a tick nor a request starts a second over it.  On it rest
  two invariants.  `Traces`: a write in the CTRL script still has the state before it
  (`HasOld`: another's change would need its turn), a job that was answered knows what
  became of its change (`CanTell`), and the rows tell it.  `Reads`: what an import found
  for its users is of groups that exist, and its target is of linked groups the settings
  select, but for each group, or a selection, that changed since (`Picked`); who it has yet to go through is not among those
  remembered, and what it found for them is what the directory answered (`Remembers`),
  so that who is passed over may be remembered.

- **`CheckInProofs`.**  Type correctness, `TakesOnlyRemoved`, `KeepsDrift`, `OkIsDone`,
  `FailsOnlyBlocked`: every property of the run `check_in`.  The base (`Inv`): what stands
  in the project stands on its parent (`Rooted`), in the workspace nothing stands on what was
  checked out and taken out of it (`Tidy`; a check-out that missed a datapoint may have its
  configs), and what is being
  written is an item of the plan, in no conflict, that comes before all that is left
  (`Chosen`).  From it, any step of a check-in deletes one type or datapoint of the plan, or
  puts items of it where their parents are (`LiveStep`).  The two action properties follow:
  the deletion of a type takes nothing along, as it is refused while a datapoint of it is
  there, so what goes is the item or what is under a datapoint that is one.
  `OkIsDone` rests on `Doing`.  Between a read and the end of the next undisturbed rounds,
  what the read did not find and is there is as the workspace has it, and the datapoints to
  be deleted are gone when their turn is over (`Tracked`): so an item passed over as existing
  is met, which the guard of `Skip` alone does not say.  Configs yet to be retired are as the
  start read them, or went with their datapoint (`ToRetire`).  A config is in place by its
  last family only because the earlier ones still are (`InFamily`), and nothing that follows
  in the check-in takes an item's deed back (`MetKept`).
  `FailsOnlyBlocked` rests on `Stuck`, which needs `Tracked` too.  The first round leaves no
  datapoint that it may delete, thus the second takes no parent from a config that it has to
  retire; and what failed in it stays impossible to its end (`Firm`): the parent that was not
  there has no item left in `Rank`'s order.

  These proofs changed the model in two places.  `Batchable` let a batch take configs that
  are no longer in the plan; and in `Init` two guards of a `CASE` held together, of which
  TLC takes the first and the prover neither.

Assumptions on the constants.  Those of `UsersService` say what a request may ask for
(`AsksAssumption`: the fields `validate` checks), what may be stored
(`StoredAssumption`: `normalizeSettings` lets nothing else through), that the defaults
are off (`OffAssumption`: `DEFAULT_SETTINGS`), and that what the project and the directory
hold at first are users, groups and members (`PeopleAssumption`); the other modules'
are of the same kind.

Only model-checked: the liveness properties, which are out of the prover's reach together
with `ENABLED`.

## 5. What the documentation says and the code does not

The run `unlock_opens` checks one statement of the repository; TLC finds it violated by
what the code does: unlock "lifts the station's active lock" (`badgeAuth.ts:379`), but two
refusals in flight record two locks, and unlock lifts the first.  The quote and the line
are in `findings`.

Others were met while modelling; the models hold them as behaviours, and the
properties of the passing runs state exactly what is left:

- A number may be given twice (`badgeAuth.ts:503`, "a number must not be given twice"
  at 499): two associations both find no owner, and both write.  `UniqueUnlessStale`.
- `writeSettings` stores the patch over the *defaults* when the DP cannot be read
  (`badgeSettings.ts:122`, over "the current ones" at 129).  `PatchUnlessStale`.
- The migration writes back what it read: a badge removed or replaced meanwhile comes
  back (`badgeAuth.ts:514`).  `TurnedOnKeeps` says that no other badge changes.
- An abort after a commit whose answer was lost deletes nothing, and the node is
  deployed though reported failed (`deploy-transfer.js:177`).  `OkIsDeployed` is one
  direction only, and says so.
- `sendZip`, which "never throws" (`deploy-transfer.js:192`), does when the ZIP is gone
  before its turn (196): the nodes after it get no result.  `OneInDoubt`: they keep what
  they had.
- A server that refuses and hangs up before the browser answered the greeting: the
  browser gets 1000 "tcp closed" and no reason (`vncRelay.ts:251`, against 30).
  `RefusalLostEarly` says that this is the only case.
- A browser that leaves while its camera is looked up is handed to rtsp-relay closed: the
  ffmpeg started for it stays until the manager stops (`rtspProxy/index.js:318`, against
  30, "kills it (SIGTERM) when the LAST client disconnects").  `StreamStops` excepts these
  clients, and no others: once no browser watches, what the camera's count keeps is them.
- Two changes of the import settings that overlap: the row of the first one tells the
  settings of the second (`usersService/index.js:464`; `docs/wui-users/README.md:112`,
  "`newval` (the request)").  `RowsAreTrue` allows a later change's, and no others.
- A user created whose groups are refused is there, is answered as a failure and has no
  row (`usersService/index.js:384`, `ctrl.js:704`; `docs/wui-users/README.md:109`, "every
  change is written"); so is any change whose answer cannot be read (`ctrl.js:746`).
  `UntracedOnlyIfFailed` excepts them.
- Such a user, when an import created it, is in no group (against `index.js:430`, "none
  without a group"), and later imports pass it over as existing; so is one whose groups
  were dropped under the import.  `ImportGivesGroups` excepts these two.
- A change that writes back the value read before another page's write is not in the
  audit trail (`dp-json-store.ts:147`, against 58).  `UntracedOnlyIfRaced`.
- "Re-running a plan converges" (`apply.ts:18`) but for: a family of configs that the
  project has and the workspace has not, which no write takes away (`InFamily` asks nothing
  of it); an address or an alarm, which is retired by switching it off, so that it is read
  again and stays in the plan; a baseline that a check-in does not renew, so that a second
  change of one object is a conflict with oneself.  `OkIsDone` is of what is done in the
  project, which these do not touch.  Deletions come in the order of creations
  (`diff.ts:164`), so a plan may need to be checked in twice: `FailsOnlyBlocked`.
- The deletion of configs that cannot be read when the check-in starts is reported applied
  with nothing done (`engController.ts:2394`, as of an element that is not there yet): the
  model has it (`unread` in `Start`), and `OkIsDone` is of the check-ins that read them all.

The same interleavings have other consequences, which no run states by themselves:
a refusal past the lock's check is counted on a station by then locked; a badge past
it is looked up; an association that read `hashBadges` before the migration writes in
clear after it (`OpensUnlessStale` excuses it by `staleWrite`); polls that fail for
longer than the restart's delay report a deployed node failed; a deploy that fails
after its purge leaves the purged folders empty.

## 6. Not modelled

- *Several webservers of one project.*  The queue is one process's; the source says
  so (`badgeBlacklist.ts:20`).
- *The DP deleted by hand* while `ready` remembers it.
- *A document that cannot be parsed*: `parse` gives the empty one.  What is written
  by the code parses.
- *A `dpSet` that fails after it stored*: a failed write is one that left no trace.
- *The key of the fingerprints lost*, and collisions: a fingerprint is its number.
- *Answers of one WinCC OA connection out of order*: they come in the order the
  requests were served, so an await's answer is the state when it was served.
- *Authorisation, validation of requests, audit lines*: they change none of the
  state modelled.
- *Deploys.*  `config.env`, the npm install and the managers' configuration inside
  `doLocalDeploy`, which change no file the properties look at; `rm` that fails is
  taken for done.
- *What a browser sends before its VNC pipe opens* is kept without a limit
  (`vncRelay.ts:160`): the model bounds the messages, so it could not tell.
- *A provisioning of the audit DP that failed is kept* (`audit-trail.ts:111`): it is in
  `JsonStore` (`prov` = "failed"), and the rows of that page are lost from then on; no
  statement of the source says otherwise.
- *Check-in.*  The forced re-creation and dry runs; types and single configs forgotten,
  which `forgetInWorkspace` can do and the page does not ask; two check-ins at once when the
  answer of the first was lost on the way to the page; a change of type that drops
  elements; the stores of devices, catalogs and models; the generation of a model from
  its template, of which the merge is modelled.
- *`DpSingleJsonStore`* (a list in one DP): its lost updates are by design, the last
  writer wins.  *dpConnect's events* in the pages.
- *Streams.*  What the browser would send (JSMpeg sends nothing), the flags of ffmpeg,
  the routes that only read the maps.
- *Users service.*  Passwords, areas and the names of permissions, which are written as the
  groups are; `groupUpdate`, which renames a group and sets its members, and the domains
  and members of a new group; the turn of the chain a listing takes for its snapshot
  (`index.js:406`), which changes nothing; the listing of the directory's groups; reports and the status DP, which
  nothing reads back; a listing that comes in after a change of the method has emptied
  the cache, and a refusal that resets the CTRL script's UserManagement beside a write;
  other writers of the users (WinCC OA's own panels and scripts).
- *app-security's cache, VNC tickets, the pmon client, the kit's single-document store*:
  section 7 says what a model of each would ask.
- *Pages and widgets, protocol clients, conversions of data, simulators*: user
  interface over the stores, or no state of their own.

## 7. Plan

What could follow, each with the question that makes it worth a model:

1. **`VncTickets`** (`vncTickets.ts`, the session route, `upgradeState`), with
   `VncRelay` as what a ticket opens: a ticket opens one session, of its connection and
   for the identity that asked, within its 30 s, though at `MAX_TICKETS` an older one
   is dropped; a role revoked in between.  And a refinement of `VncRelay` to two FIFO
   channels that open together and close together.
2. **`GuardCache`** (`appSecurityGuard.ts`): a role revoked is refused after at most
   the life of the cache, on every route; fail-open on the guard's own errors.
3. **`DpSingleJsonStore`** and dpConnect: two pages over one document kept whole in one
   DP; events racing the writes.
4. **`PmonClient`**: one command per connection, the cached status of the managers.

Proofs to come: a refinement of `DeployTransfer` to a transfer that happens at one
instant or not at all.
