--------------------------- MODULE BlacklistQueue ---------------------------
(***************************************************************************)
(* How one webserver changes the blacklist's DP                            *)
(* (libs/wui-auth-badge/backend/badgeBlacklist.ts, "the DP"): the runs of  *)
(* updateBlacklist one after the other, each reading the DP, applying its  *)
(* change, creating the DP at first need and writing it back — every one   *)
(* of these an await that may fail, and a restart may come at any of them. *)
(***************************************************************************)
EXTENDS Sequences

CONSTANTS
  Job,     \* the calls of updateBlacklist, each made at most once
  Value,   \* the blacklists
  Empty,   \* EMPTY_BLACKLIST
  Change   \* Change[j][v]: what the change of call j gives back for v

ASSUME QueueAssumption ==
  /\ Empty \in Value
  /\ Change \in [Job -> [Value -> Value]]

VARIABLES
  dp,       \* the value of WuiAuthBadge_Blacklist.state
  schema,   \* what exists of it: "nothing", its "type", the "dp"
  ready,    \* the memo of ensureBlacklistDp: resolved
  pending,  \* the calls not settled, in order: the promise chain `queue`
  phase,    \* the await the first of them stands at
  after,    \* the changed blacklist it is about to write
  outcome   \* each call's

queueVars == <<dp, schema, ready, pending, phase, after, outcome>>

QueueTypeOK ==
  /\ dp \in Value
  /\ schema \in {"nothing", "type", "dp"}
  /\ ready \in BOOLEAN
  /\ pending \in Seq(Job)
  /\ phase \in {"read", "ensure", "write"}
  /\ after \in Value
  /\ outcome \in [Job -> {"notCalled", "pending", "done", "failed", "lost"}]

QueueInit ==
  /\ dp = Empty
  /\ schema \in {"nothing", "dp"}
  /\ ready = FALSE
  /\ pending = <<>>
  /\ phase = "read"
  /\ after = Empty
  /\ outcome = [j \in Job |-> "notCalled"]

\* Mutant: a run started at once, ahead of the one not finished.
Call_Unchained(j) ==
  /\ outcome[j] = "notCalled"
  /\ outcome' = [outcome EXCEPT ![j] = "pending"]
  /\ pending' = <<j>> \o pending
  /\ UNCHANGED <<dp, schema, ready, phase, after>>

\* updateBlacklist is called: its run waits for those before it.
Call(j) ==
  /\ outcome[j] = "notCalled"
  /\ outcome' = [outcome EXCEPT ![j] = "pending"]
  /\ pending' = Append(pending, j)
  /\ UNCHANGED <<dp, schema, ready, phase, after>>

-----------------------------------------------------------------------------
(* The first run: the next await of it.  It settles — done or failed — and *)
(* the next one starts.                                                    *)

Job1 == Head(pending)

Running(await) == pending # <<>> /\ phase = await

Settle(result) ==
  /\ pending' = Tail(pending)
  /\ outcome' = [outcome EXCEPT ![Job1] = result]
  /\ phase' = "read"

\* The DP is read (absent: the empty blacklist) and the change applied; the
\* same object given back, nothing is written.
ReadAndChange ==
  LET before  == IF schema = "dp" THEN dp ELSE Empty
      changed == Change[Job1][before]
  IN
  /\ Running("read")
  /\ \/ changed = before /\ Settle("done") /\ UNCHANGED after
     \/ /\ changed # before
        /\ after' = changed
        /\ phase' = "ensure"
        /\ UNCHANGED <<pending, outcome>>
  /\ UNCHANGED <<dp, schema, ready>>

\* ensureBlacklistDp, remembered once it succeeded.
Ensure ==
  /\ Running("ensure")
  /\ phase' = "write"
  /\ ready' = TRUE
  /\ schema' = IF ready THEN schema ELSE "dp"
  /\ UNCHANGED <<dp, pending, after, outcome>>

Write ==
  /\ Running("write")
  /\ dp' = after
  /\ Settle("done")
  /\ UNCHANGED <<schema, ready, after>>

\* Mutant: a failed run tried again without end.
ReadOrWriteFails_Retried ==
  /\ \/ Running("read") /\ schema = "dp"
     \/ Running("write")
  /\ phase' = "read"
  /\ UNCHANGED <<dp, schema, ready, pending, after, outcome>>

\* The DP cannot be read (only an existing one is), or not be written.
ReadOrWriteFails ==
  /\ \/ Running("read") /\ schema = "dp"
     \/ Running("write")
  /\ Settle("failed")
  /\ UNCHANGED <<dp, schema, ready, after>>

\* Creating the type is refused, or the DP after it.
EnsureFails ==
  /\ Running("ensure") /\ ~ready /\ schema # "dp"
  /\ schema' \in {schema, "type"}
  /\ Settle("failed")
  /\ UNCHANGED <<dp, ready, after>>

Run == ReadAndChange \/ Ensure \/ Write \/ ReadOrWriteFails \/ EnsureFails

\* The webserver restarts: what it kept in memory is gone.
QueueRestart ==
  /\ ready' = FALSE
  /\ pending' = <<>>
  /\ phase' = "read"
  /\ outcome' = [j \in Job |-> IF outcome[j] = "pending" THEN "lost" ELSE outcome[j]]
  /\ UNCHANGED <<dp, schema, after>>

QueueNext == (\E j \in Job : Call(j)) \/ Run \/ QueueRestart

QueueSpec == QueueInit /\ [][QueueNext]_queueVars

\* Every WinCC OA call is answered, with a value or an error.
FairQueueSpec == QueueSpec /\ WF_queueVars(Run)

-----------------------------------------------------------------------------

\* What a run is about to write is its change of the stored value: nothing
\* came between its read and its write ("two badges at once do not lose a
\* count").
WritesWhatItRead ==
  phase # "read" => /\ pending # <<>>
                    /\ after = Change[Job1][dp]

\* A DP not created yet has never been written.
AbsentIsEmpty == schema # "dp" => dp = Empty /\ ~ready

\* Every call is settled, a failed one before it or not ("a failed change does
\* not stop the next ones"), unless the webserver restarts.
EveryCallSettles ==
  \A j \in Job : outcome[j] = "pending" ~> outcome[j] # "pending"

\* The serialised runs are atomic updates in the order of the calls.
Atomic == INSTANCE AtomicUpdates WITH value <- dp

AtomicSpec == Atomic!Spec
=============================================================================
